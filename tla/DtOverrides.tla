----------------------------- MODULE DtOverrides ----------------------------
(***************************************************************************)
(* How a board's device tree is submitted: as overrides on the vendor's    *)
(* reference design, generated from a dump of both (gen-overrides.py), and *)
(* accepted if the tree compiled from them prints like the board's own     *)
(* (check-refs.py, remap-phandles.py and diff, in build.sh).               *)
(*                                                                         *)
(* A reference is a number in a blob, given to its node anew by every      *)
(* compilation.  The patched dtc prints one as a label again where it      *)
(* knows the property; elsewhere it stays a number.                        *)
(***************************************************************************)
EXTENDS Integers, Sequences, SequencesExt, FiniteSets

CONSTANTS
  Names,     \* what a node is called below its parent
  Paths,     \* the nodes there may be, as sequences of names; <<>> is the root
  Labels,    \* one-element sequences that are no paths
  Props,     \* names of properties
  Orders,    \* sequences of all paths: the orders dtc may number nodes in
  Bases,     \* the reference designs looked at
  Targets    \* and the boards

Root       == <<>>
Unlabelled == <<>>

\* What a property is in the source: absent; data; a reference, by label or
\* path, that dtc prints as one; or a reference it prints as a number.
Absent == <<"absent">>
Value  ==
  {Absent} \cup {<<"data", n>> : n \in 1 .. Cardinality(Paths)}
    \cup ({"ref", "loose"} \X (Paths \cup Labels))
TreesOver(N) == [N -> [label : Labels \cup {Unlabelled}, val : [Props -> Value]]]

Nodes(t)       == DOMAIN t
Refers(v)      == v[1] \in {"ref", "loose"}
Used(t)        == {v \in {t[p].val[k] : p \in Nodes(t), k \in Props} : Refers(v)}
Named(t, name) == {p \in Nodes(t) : name \in {p, t[p].label}}
The(t, name)   == CHOOSE p \in Named(t, name) : TRUE
Name(t, p)     == IF t[p].label = Unlabelled THEN p ELSE t[p].label

\* dtc refuses a label given twice and a reference to nothing.
Compiles(t) ==
  /\ \A p, q \in Nodes(t) : t[p].label = t[q].label => p = q \/ t[p].label = Unlabelled
  /\ \A v \in Used(t) : Named(t, v[2]) # {}

ASSUME TreesAssumption ==
  /\ Paths \subseteq Seq(Names)
  /\ Root \notin Paths \cup Labels /\ Paths \cap Labels = {}
  /\ \A o \in Orders : IsInjective(o) /\ Range(o) = Paths
  /\ \A t \in Bases \cup Targets :
       /\ Nodes(t) \subseteq Paths /\ t \in TreesOver(Nodes(t))
       /\ \A p \in Nodes(t) : Front(p) \in Nodes(t) \cup {Root}
       /\ Compiles(t)

\* The nodes with a phandle, labelled ones too (-@), and its number.
Handles(t) ==
  {p \in Nodes(t) : t[p].label # Unlabelled} \cup {The(t, v[2]) : v \in Used(t)}
Number(t, order, p) ==
  LET numbered == SelectSeq(order, LAMBDA q : q \in Handles(t))
  IN  SelectInSeq(numbered, LAMBDA q : q = p)

\* Compiled, and decompiled with dtc -P -n.
Printed(t, order) ==
  [p \in Nodes(t) |->
    [label |-> t[p].label,
     val   |-> [k \in Props |->
       LET v == t[p].val[k]
       IN  CASE v[1] = "ref"   -> <<"ref", Name(t, The(t, v[2]))>>
             [] v[1] = "loose" -> <<"data", Number(t, order, The(t, v[2]))>>
             [] OTHER          -> v]]]

VARIABLES
  base,     \* the source of the reference design
  target,   \* the board's own tree
  order,    \* the order its nodes are numbered in
  over,     \* the overrides
  native,   \* the submission: the reference design, overridden
  norder,   \* the order its nodes are numbered in
  stage     \* where build.sh is

buildVars == <<base, target, order, over, native, norder, stage>>

----------------------------------------------------------------------------
(* gen-overrides.py, on two printed trees. *)

Deleted(b, t) ==
  LET gone == Nodes(b) \ Nodes(t)
  IN  {p \in gone : Front(p) \notin gone}

\* A variant of Changed: no /delete-property/.
ChangedOnly(b, t) ==
  [p \in Nodes(b) \cap Nodes(t) |->
    [k \in {j \in Props : t[p].val[j] \notin {b[p].val[j], Absent}} |-> t[p].val[k]]]

\* On a node of both, the properties that differ, those to delete among them.
Changed(b, t) ==
  [p \in Nodes(b) \cap Nodes(t) |->
    [k \in {j \in Props : t[p].val[j] # b[p].val[j]} |-> t[p].val[k]]]

\* What the base lacks is printed under a parent it has, with all there is below.
Added(b, t) ==
  LET heads == {p \in Nodes(t) \ Nodes(b) : Front(p) \in Nodes(b) \cup {Root}}
  IN  [p \in {q \in Nodes(t) : \E h \in heads : IsPrefix(h, q)} |-> t[p]]

\* dtc's merge of the overrides into the included source.
Applied(b, o) ==
  LET kept == {p \in Nodes(b) : \A d \in o.deleted : ~IsPrefix(d, p)}
  IN  [p \in kept \cup Nodes(o.added) |->
        IF p \in Nodes(o.added) THEN o.added[p]
        ELSE [b[p] EXCEPT !.val =
               [k \in Props |-> IF p \in DOMAIN o.changed /\ k \in DOMAIN o.changed[p]
                                  THEN o.changed[p][k] ELSE b[p].val[k]]]]

Nothing == [deleted |-> {}, changed |-> <<>>, added |-> <<>>]

----------------------------------------------------------------------------
(* build.sh. *)

BuildInit ==
  /\ base \in Bases
  /\ target \in Targets
  /\ order \in Orders
  /\ over = Nothing
  /\ native = base
  /\ norder = order
  /\ stage = "generate"

Generate ==
  /\ stage = "generate"
  /\ \E o \in Orders :
       LET b == Printed(base, o)
           t == Printed(target, order)
       IN  over' = [deleted |-> Deleted(b, t), changed |-> Changed(b, t), added |-> Added(b, t)]
  /\ stage' = "compile"
  /\ UNCHANGED <<base, target, order, native, norder>>

Compile ==
  /\ stage = "compile"
  /\ native' = Applied(base, over)
  /\ norder' \in Orders
  /\ stage' = IF Compiles(native') THEN "check" ELSE "error"
  /\ UNCHANGED <<base, target, order, over>>

\* check-refs.py: the properties that are printed as references anywhere.
Symbolic(printed) ==
  {k \in Props : \E t \in printed : \E p \in Nodes(t) : t[p].val[k][1] = "ref"}
Bare(t) == {k \in Props : \E p \in Nodes(t) : t[p].val[k][1] = "data"}

\* Those that are numbers elsewhere.
Unresolved(printed) == UNION {Symbolic(printed) \cap Bare(t) : t \in printed}

\* A variant of Check: its exit status is not looked at.
CheckAndGoOn ==
  /\ stage = "check"
  /\ stage' = "diff"
  /\ UNCHANGED <<base, target, order, over, native, norder>>

Check ==
  /\ stage = "check"
  /\ stage' = IF Unresolved({Printed(target, order), Printed(native, norder)}) = {}
             THEN "diff" ELSE "unresolved"
  /\ UNCHANGED <<base, target, order, over, native, norder>>

\* Phandles are compared as to which nodes have one: their numbers are translated.
Diff ==
  /\ stage = "diff"
  /\ stage' = IF /\ Printed(native, norder) = Printed(target, order)
              /\ Handles(native) = Handles(target)
             THEN "verified" ELSE "mismatch"
  /\ UNCHANGED <<base, target, order, over, native, norder>>

BuildNext == Generate \/ Compile \/ Check \/ Diff

BuildSpec == BuildInit /\ [][BuildNext]_buildVars

----------------------------------------------------------------------------
Loose(t) == {k \in Props : \E p \in Nodes(t) : t[p].val[k][1] = "loose"}

\* The same nodes under the same labels, with the same data and each reference
\* to the same node: the number in the blob is the one that node has in it.
SameHardware ==
  LET cell(v) == IF Refers(v) THEN <<"data", Number(native, norder, The(native, v[2]))>> ELSE v
      want(v) == IF Refers(v) THEN <<"data", Number(native, norder, The(target, v[2]))>> ELSE v
  IN  /\ Nodes(native) = Nodes(target)
      /\ \A p \in Nodes(target) :
           /\ native[p].label = target[p].label
           /\ \A k \in Props : cell(native[p].val[k]) = want(target[p].val[k])

\* "VERIFIED": the submission describes the same hardware, if every property that
\* holds a reference is printed as one somewhere in the two trees (build.sh, the gate).
VerifiedIsSame ==
  stage = "verified" =>
    \/ SameHardware
    \/ \E k \in Loose(target) : k \notin Symbolic({Printed(target, order), Printed(native, norder)})

\* The overrides turn the reference design into the board's tree, whatever was
\* deleted, changed and added together, and the gate lets it pass: if the nodes
\* of both have the same labels, the design refers to nodes by their labels, and
\* every reference is printed as one
\* (gen-overrides.py).
Regenerates ==
  LET plain ==
        /\ \A p \in Nodes(base) \cap Nodes(target) : base[p].label = target[p].label
        /\ \A v \in Used(base) : v[2] = Name(base, The(base, v[2]))
        /\ Loose(base) = {} /\ Loose(target) = {}
        /\ \A k \in Props : k \notin Symbolic({target}) \cap Bare(target)
  IN  plain => stage \in {"generate", "compile", "check", "diff", "verified"}
=============================================================================
