------------------------- MODULE DeviceTree_proofs -------------------------
(***************************************************************************)
(* Theorems about device trees.  Those on a box: which ones its kernels    *)
(* boot with, for any set of kernels, any revisions and any number of      *)
(* upgrades and of updates that die half-way (DeviceTree).  And the one    *)
(* submitted for a board: for every reference design, board, order of the  *)
(* nodes and set of properties, the overrides turn the design into the     *)
(* board, and what the gate verifies is the board (DtOverrides).           *)
(***************************************************************************)
EXTENDS DeviceTree, DtOverrides, SequenceTheorems, WellFoundedInduction, TLAPS

(* The bounds are numbers.                                                 *)
LEMMA BoundsAreNat == MaxAborts \in Nat /\ MaxUpgrades \in Nat /\ MaxRevisions \in Nat
  BY TreeAssumption

(* The sentinels are no trees of ours.                                     *)
LEMMA Sentinels == Stock \notin Trees /\ NoTree \notin Trees /\ NoTree # Stock
  BY TreeAssumption

(* A counter below its bound.                                              *)
LEMMA CountsUp == \A n \in Nat : \A i \in 0 .. n : i < n => i + 1 \in 0 .. n
  OBVIOUS

(* Every step keeps the types.                                             *)
LEMMA TypeStep == TypeOK /\ [Next]_vars => TypeOK'
<1> SUFFICES ASSUME TypeOK, [Next]_vars PROVE TypeOK'
  OBVIOUS
<1> USE BoundsAreNat, CountsUp, Sentinels
<1> USE DEF TypeOK, Strays, Stray, files, kernel, update, bounds
<1>1. CASE Begin
  BY <1>1 DEF Begin
<1>2. CASE InstallPayload
  BY <1>2 DEF InstallPayload
<1>3. CASE RebuildDrivers
  BY <1>3 DEF RebuildDrivers
<1>4. CASE InstallTree
  BY <1>4 DEF InstallTree, Persist
<1>5. CASE Abort
  BY <1>5 DEF Abort
<1>6. CASE NotNeeded
  BY <1>6 DEF NotNeeded
<1>7. CASE RebootToLoad
  BY <1>7 DEF RebootToLoad, Boot
<1>8. CASE LeaveReboot
  BY <1>8 DEF LeaveReboot
<1>9. CASE NewRevision
  BY <1>9 DEF NewRevision
<1>10. CASE Unpack
  BY <1>10 DEF Unpack
<1>11. CASE Configure
  <2>1. PICK k \in pending : /\ Persist(k)
                           /\ strays' = strays \cup Stray("unfinished", pc # "idle")
                           /\ pending' = pending \ {k} /\ default' = k
                           /\ UNCHANGED <<repo, share, running, live, update, bounds>>
    BY <1>11, Zenon DEF Configure
  <2>2. strays' \in SUBSET Strays
    BY <2>1
  <2>3. boot' \in [Kernels -> Trees \cup {Stock, NoTree}] /\ boot'[default'] # NoTree
    BY <2>1 DEF Persist
  <2> QED
    BY <2>1, <2>2, <2>3
<1>12. CASE Restart
  BY <1>12 DEF Restart, Boot
<1>13. CASE UNCHANGED vars
  BY <1>13 DEF vars
<1>14. QED
  BY <1>1, <1>2, <1>3, <1>4, <1>5, <1>6, <1>7, <1>8, <1>9, <1>10, <1>11, <1>12, <1>13
  DEF Next, Script

(* Every variable keeps its type.                                          *)
THEOREM TypeCorrect == Spec => []TypeOK
<1>1. Init => TypeOK
  BY BoundsAreNat, Sentinels DEF Init, TypeOK, Strays
<1>2. QED
  BY <1>1, TypeStep, PTL DEF Spec

-----------------------------------------------------------------------------
(* A directory gets a tree of ours before its kernel becomes bootable.     *)
LEMMA TreesStep == IInv /\ [Next]_vars => OurTreesOnly'
<1> SUFFICES ASSUME IInv, [Next]_vars PROVE OurTreesOnly'
  OBVIOUS
<1> USE Sentinels
<1> USE DEF IInv, TypeOK, OurTreesOnly, files, kernel, update, bounds
<1>1. CASE Begin
  BY <1>1 DEF Begin
<1>2. CASE InstallPayload
  BY <1>2 DEF InstallPayload
<1>3. CASE RebuildDrivers
  BY <1>3 DEF RebuildDrivers
<1>4. CASE InstallTree
  BY <1>4 DEF InstallTree, Persist
<1>5. CASE Abort
  BY <1>5 DEF Abort
<1>6. CASE NotNeeded
  BY <1>6 DEF NotNeeded
<1>7. CASE RebootToLoad
  BY <1>7 DEF RebootToLoad, Boot
<1>8. CASE LeaveReboot
  BY <1>8 DEF LeaveReboot
<1>9. CASE NewRevision
  BY <1>9 DEF NewRevision
<1>10. CASE Unpack
  BY <1>10 DEF Unpack
<1>11. CASE Configure
  BY <1>11 DEF Configure, Persist
<1>12. CASE Restart
  BY <1>12 DEF Restart, Boot
<1>13. CASE UNCHANGED vars
  BY <1>13 DEF vars
<1>14. QED
  BY <1>1, <1>2, <1>3, <1>4, <1>5, <1>6, <1>7, <1>8, <1>9, <1>10, <1>11, <1>12, <1>13
  DEF Next, Script

(* What the end of a run relies on: [3/6] comes last of the steps that     *)
(* touch a tree, and only an idle box has a verdict.                       *)
Verdict ==
  /\ NotNeededIsInstalled
  /\ pc = "verdict" /\ running \notin pending => boot[running] = share
  /\ said # "nothing" => pc = "idle"

(* Every step keeps it.                                                    *)
LEMMA VerdictStep == IInv /\ [Next]_vars => Verdict'
<1> SUFFICES ASSUME IInv, [Next]_vars PROVE Verdict'
  OBVIOUS
<1> USE DEF IInv, TypeOK, Verdict, NotNeededIsInstalled, files, kernel, update, bounds
<1>1. CASE Begin
  BY <1>1 DEF Begin
<1>2. CASE InstallPayload
  BY <1>2 DEF InstallPayload
<1>3. CASE RebuildDrivers
  BY <1>3 DEF RebuildDrivers
<1>4. CASE InstallTree
  BY <1>4 DEF InstallTree, Persist
<1>5. CASE Abort
  BY <1>5 DEF Abort
<1>6. CASE NotNeeded
  BY <1>6 DEF NotNeeded
<1>7. CASE RebootToLoad
  BY <1>7 DEF RebootToLoad, Boot
<1>8. CASE LeaveReboot
  BY <1>8 DEF LeaveReboot
<1>9. CASE NewRevision
  BY <1>9 DEF NewRevision
<1>10. CASE Unpack
  BY <1>10 DEF Unpack
<1>11. CASE Configure
  BY <1>11 DEF Configure, Persist
<1>12. CASE Restart
  BY <1>12 DEF Restart, Boot
<1>13. CASE UNCHANGED vars
  BY <1>13 DEF vars
<1>14. QED
  BY <1>1, <1>2, <1>3, <1>4, <1>5, <1>6, <1>7, <1>8, <1>9, <1>10, <1>11, <1>12, <1>13
  DEF Next, Script

(* The inductive invariant holds throughout.                               *)
LEMMA Invariant == Spec => []IInv
<1>1. Init => IInv
  BY BoundsAreNat, Sentinels DEF Init, IInv, TypeOK, Strays, OurTreesOnly, NotNeededIsInstalled
<1>2. IInv /\ [Next]_vars => IInv'
  BY TypeStep, TreesStep, VerdictStep DEF IInv, Verdict
<1>3. QED
  BY <1>1, <1>2, PTL DEF Spec

(* Every configured kernel has a tree of ours, the one the next boot takes *)
(* included, however apt, updates that die and power cuts interleave.      *)
THEOREM OurTreesSurvive == Spec => []OurTreesOnly
  BY Invariant, PTL DEF IInv

(* An update that ends with "no reboot needed" has left the installed tree *)
(* in the running kernel's directory, whatever earlier runs did.           *)
THEOREM VerdictInstalled == Spec => []NotNeededIsInstalled
  BY Invariant, PTL DEF IInv

-----------------------------------------------------------------------------
(* While nothing goes astray, every step keeps the box on the tree that    *)
(* board.dtb held when the run under way began.                            *)
LEMMA OrderlyStep == IInv /\ Orderly /\ [Next]_vars => Orderly'
<1> SUFFICES ASSUME IInv, Orderly, [Next]_vars, strays' = {} PROVE Orderly'
  BY DEF Orderly
<1> USE DEF IInv, TypeOK, Orderly, files, kernel, update, bounds
<1>1. CASE Begin
  BY <1>1 DEF Begin, Stray
<1>2. CASE InstallPayload
  BY <1>2 DEF InstallPayload
<1>3. CASE RebuildDrivers
  BY <1>3 DEF RebuildDrivers
<1>4. CASE InstallTree
  BY <1>4 DEF InstallTree, Persist
<1>5. CASE Abort
  BY <1>5 DEF Abort
<1>6. CASE NotNeeded
  BY <1>6 DEF NotNeeded
<1>7. CASE RebootToLoad
  BY <1>7 DEF RebootToLoad, Boot
<1>8. CASE LeaveReboot
  BY <1>8 DEF LeaveReboot
<1>9. CASE NewRevision
  BY <1>9 DEF NewRevision
<1>10. CASE Unpack
  BY <1>10 DEF Unpack, Stray
<1>11. CASE Configure
  BY <1>11 DEF Configure, Persist, Stray
<1>12. CASE Restart
  BY <1>12 DEF Restart, Boot, Stray
<1>13. CASE UNCHANGED vars
  BY <1>13 DEF vars
<1>14. QED
  BY <1>1, <1>2, <1>3, <1>4, <1>5, <1>6, <1>7, <1>8, <1>9, <1>10, <1>11, <1>12, <1>13
  DEF Next, Script

(* Both invariants hold throughout.                                        *)
LEMMA OrderlyInvariant == Spec => [](IInv /\ Orderly)
<1>1. Init => Orderly
  BY DEF Init, Orderly
<1>2. QED
  BY <1>1, OrderlyStep, Invariant, PTL DEF Spec

(* If no run dies, no reboot is turned down and no kernel upgrade is under *)
(* way, "no reboot needed" is true: the running kernel has the tree of     *)
(* board.dtb.                                                              *)
THEOREM VerdictTrue == Spec => []NotNeededIsTrue
<1>1. IInv /\ Orderly => NotNeededIsTrue
  BY DEF IInv, Orderly, NotNeededIsTrue
<1>2. QED
  BY <1>1, OrderlyInvariant, PTL

(* Under the same conditions the reboot an update asks for loads the tree. *)
THEOREM RequiredRebootLoads == Spec => RebootLoads
<1> DEFINE Loads == RebootToLoad /\ strays = {} => live' = share
<1>1. IInv /\ Orderly /\ [Next]_vars => [Loads]_vars
  <2> SUFFICES ASSUME IInv, Orderly, RebootToLoad, strays = {} PROVE live' = share
    OBVIOUS
  <2>1. pc = "verdict" /\ pending = {} /\ live' = boot[default]
    BY DEF RebootToLoad, Boot, Orderly
  <2>2. QED
    BY <2>1 DEF Orderly
<1>2. QED
  BY <1>1, OrderlyInvariant, PTL DEF Spec, RebootLoads

-----------------------------------------------------------------------------
(* Paths and their prefixes. *)

\* Every set of naturals that is not empty has a least element.
LEMMA LeastNatural ==
  ASSUME NEW S \in SUBSET Nat, S # {}
  PROVE  \E m \in S : \A k \in S : m <= k
<1> DEFINE R == OpToRel(<, Nat)
<1>1. IsWellFoundedOn(R, Nat)
  BY NatLessThanWellFounded
<1>2. \A k, m \in Nat : k < m => <<k, m>> \in R
  BY DEF OpToRel
<1> HIDE DEF R
<1>3. PICK m \in S : \A k \in S : ~(<<k, m>> \in R)
  BY <1>1, WFMin
<1>4. \A k \in S : ~(k < m)
  BY <1>2, <1>3, Zenon
<1>5. \A k \in S : m <= k
  BY <1>4
<1> QED
  BY <1>5

\* the first n names of a path
Take(p, n) == SubSeq(p, 1, n)

LEMMA PathIsSeq ==
  ASSUME NEW p \in Paths
  PROVE  p \in Seq(Names) /\ Len(p) \in Nat \ {0} /\ p # Root
<1>1. p \in Seq(Names) /\ p # Root
  BY TreesAssumption DEF TreesAssumption
<1> QED
  BY <1>1, EmptySeq DEF Root

LEMMA TakeFacts ==
  ASSUME NEW p \in Paths
  PROVE  /\ Take(p, 0) = Root
         /\ Take(p, Len(p)) = p
         /\ \A n \in 0 .. Len(p) : Take(p, n) \in Seq(Names) /\ Len(Take(p, n)) = n
         /\ \A n \in 1 .. Len(p) : Front(Take(p, n)) = Take(p, n - 1) /\ Take(p, n) # Root
<1>1. p \in Seq(Names) /\ Len(p) \in Nat \ {0}
  BY PathIsSeq
<1>2. Take(p, 0) = Root
  BY SubSeqEmpty DEF Take, Root
<1>3. Take(p, Len(p)) = p
  BY <1>1, SubSeqFull DEF Take
<1>4. ASSUME NEW n \in 0 .. Len(p)
      PROVE  Take(p, n) \in Seq(Names) /\ Len(Take(p, n)) = n
  <2>1. \A i \in 1 .. n : p[i] \in Names
    BY <1>1
  <2> QED
    BY <2>1, SubSeqProperties DEF Take
<1>5. ASSUME NEW n \in 1 .. Len(p)
      PROVE  Front(Take(p, n)) = Take(p, n - 1) /\ Take(p, n) # Root
  <2>1. Len(Take(p, n)) = n /\ Take(p, n) \in Seq(Names)
    BY <1>4
  <2>2. CASE n = 1
    <3>1. Front(Take(p, n)) = <<>>
      BY <2>1, <2>2, SubSeqEmpty DEF Front
    <3> QED
      BY <1>2, <2>1, <2>2, <3>1 DEF Root
  <2>3. CASE n # 1
    <3>1. Front(Take(p, n)) = SubSeq(SubSeq(p, 1, n), 1, n - 1)
      BY <2>1 DEF Front, Take
    <3>2. SubSeq(SubSeq(p, 1, n), 1, n - 1) = SubSeq(p, 1 + 1 - 1, 1 + (n - 1) - 1)
      BY <1>1, <2>3, SubSeqOfSubSeq
    <3> QED
      BY <2>1, <3>1, <3>2 DEF Take, Root
  <2> QED
    BY <2>2, <2>3
<1> QED
  BY <1>2, <1>3, <1>4, <1>5

LEMMA PrefixIsTake ==
  ASSUME NEW h \in Paths, NEW p \in Paths
  PROVE  IsPrefix(h, p) <=> \E n \in 1 .. Len(p) : h = Take(p, n)
<1>1. h \in Seq(Names) /\ Len(h) \in Nat \ {0} /\ Len(p) \in Nat \ {0}
  BY PathIsSeq
<1>2. SubSeq(h, 1, Len(h)) = h
  BY <1>1, SubSeqFull
<1>3. IsPrefix(h, p) <=> Len(h) <= Len(p) /\ h = Take(p, Len(h))
  BY <1>2 DEF IsPrefix, Take
<1>4. \A n \in 1 .. Len(p) : Len(Take(p, n)) = n
  BY <1>1, TakeFacts
<1> QED
  BY <1>1, <1>3, <1>4

\* Going down from the root, a path that ends outside of S leaves it somewhere.
LEMMA LeavesSomewhere ==
  ASSUME NEW p \in Paths, NEW S, Root \in S, p \notin S
  PROVE  \E n \in 1 .. Len(p) : Take(p, n) \notin S /\ Take(p, n - 1) \in S
<1> DEFINE Outside == {n \in 0 .. Len(p) : Take(p, n) \notin S}
<1>1. Len(p) \in Nat \ {0} /\ Take(p, 0) = Root /\ Take(p, Len(p)) = p
  BY PathIsSeq, TakeFacts
<1>2. Outside \in SUBSET Nat /\ Len(p) \in Outside
  BY <1>1
<1>3. PICK n \in Outside : \A k \in Outside : n <= k
  <2> HIDE DEF Outside
  <2> QED
    BY <1>2, LeastNatural
<1>4. n # 0
  BY <1>1
<1>5. n - 1 \notin Outside /\ n - 1 \in 0 .. Len(p)
  <2>1. n \in 1 .. Len(p)
    BY <1>1, <1>4
  <2>2. n - 1 \in 0 .. Len(p) /\ ~(n <= n - 1)
    BY <1>1, <2>1
  <2> HIDE DEF Outside
  <2> QED
    BY <1>3, <2>2
<1> QED
  BY <1>1, <1>4, <1>5

\* A set of nodes with the parent of each one.
Rooted(S) == S \subseteq Paths /\ \A p \in S : Front(p) \in S \cup {Root}

LEMMA PrefixesThere ==
  ASSUME NEW S, Rooted(S), NEW p \in S, NEW n \in 1 .. Len(p)
  PROVE  Take(p, n) \in S
<1> SUFFICES ASSUME Take(p, n) \notin S PROVE FALSE
  OBVIOUS
<1> DEFINE Gone == {k \in 0 .. Len(p) - n : Take(p, Len(p) - k) \notin S}
<1>1. p \in Paths /\ Len(p) \in Nat \ {0} /\ Take(p, Len(p)) = p
  BY PathIsSeq, TakeFacts DEF Rooted
<1>2. Len(p) - n \in Gone /\ Gone \in SUBSET Nat
  BY <1>1
<1>3. PICK k \in Gone : \A m \in Gone : k <= m
  <2> HIDE DEF Gone
  <2> QED
    BY <1>2, LeastNatural
<1>4. k \in 1 .. Len(p) - n
  BY <1>1
<1>5. k - 1 \notin Gone /\ k - 1 \in 0 .. Len(p) - n
  <2>1. k - 1 \in 0 .. Len(p) - n /\ ~(k <= k - 1)
    BY <1>1, <1>4
  <2> HIDE DEF Gone
  <2> QED
    BY <1>3, <2>1
<1> DEFINE m == Len(p) - k
<1>6. m \in 1 .. Len(p) /\ m + 1 \in 1 .. Len(p) /\ Len(p) - (k - 1) = m + 1
  BY <1>1, <1>4
<1>7. Take(p, m + 1) \in S /\ Take(p, m) \notin S
  BY <1>3, <1>5, <1>6
<1> HIDE DEF m, Gone
<1>8. Front(Take(p, m + 1)) = Take(p, m + 1 - 1) /\ Take(p, m) # Root
  BY <1>1, <1>6, TakeFacts
<1>9. m + 1 - 1 = m
  BY <1>6
<1> QED
  BY <1>7, <1>8, <1>9 DEF Rooted

-----------------------------------------------------------------------------
(* Trees. *)

\* A tree as functions and records, with the parent of every node.
Shaped(t) ==
  /\ Rooted(Nodes(t))
  /\ t = [p \in Nodes(t) |-> [label |-> t[p].label, val |-> [k \in Props |-> t[p].val[k]]]]

LEMMA ValueFacts ==
  ASSUME NEW v \in Value
  PROVE  /\ v[1] = "ref" => v = <<"ref", v[2]>>
         /\ v[1] = "loose" => v[2] \in Paths \cup Labels
         /\ v[1] \in {"absent", "data", "ref", "loose"}
  BY DEF Value, Absent

LEMMA TreeFacts ==
  ASSUME NEW t \in Bases \cup Targets
  PROVE  /\ Shaped(t)
         /\ \A p \in Nodes(t) : t[p].label \in Labels \cup {Unlabelled}
         /\ \A p \in Nodes(t), k \in Props : t[p].val[k] \in Value
         /\ Compiles(t)
<1> DEFINE N == Nodes(t)
<1>1. N \subseteq Paths /\ t \in TreesOver(N) /\ Compiles(t)
      /\ \A p \in N : Front(p) \in N \cup {Root}
  BY TreesAssumption DEF TreesAssumption
<1> HIDE DEF N
<1>2. t \in [N -> [label : Labels \cup {Unlabelled}, val : [Props -> Value]]]
  BY <1>1 DEF TreesOver
<1>3. Nodes(t) = N /\ t = [p \in N |-> t[p]]
  BY <1>2 DEF N, Nodes
<1>4. \A p \in N : /\ t[p] = [label |-> t[p].label, val |-> t[p].val]
                   /\ t[p].label \in Labels \cup {Unlabelled}
                   /\ t[p].val \in [Props -> Value]
  BY <1>2
<1>5. \A p \in N : t[p].val = [k \in Props |-> t[p].val[k]]
  BY <1>4
<1>6. \A p \in N : t[p] = [label |-> t[p].label, val |-> [k \in Props |-> t[p].val[k]]]
  BY <1>4, <1>5
<1>7. t = [p \in N |-> [label |-> t[p].label, val |-> [k \in Props |-> t[p].val[k]]]]
  BY <1>3, <1>6
<1>8. Rooted(Nodes(t))
  BY <1>1, <1>2, <1>3 DEF Rooted
<1> QED
  BY <1>1, <1>3, <1>4, <1>7, <1>8 DEF Shaped

\* A printed tree has its source's nodes and labels.
LEMMA PrintedShape ==
  ASSUME NEW t, NEW o, Shaped(t)
  PROVE  /\ Shaped(Printed(t, o))
         /\ Nodes(Printed(t, o)) = Nodes(t)
         /\ \A p \in Nodes(t) : Printed(t, o)[p].label = t[p].label
  BY DEF Shaped, Printed, Nodes

\* What a cell prints as.
Cell(t, o, v) ==
  CASE v[1] = "ref"   -> <<"ref", Name(t, The(t, v[2]))>>
    [] v[1] = "loose" -> <<"data", Number(t, o, The(t, v[2]))>>
    [] OTHER          -> v

LEMMA PrintedCell ==
  ASSUME NEW t, NEW o, NEW p \in Nodes(t), NEW k \in Props
  PROVE  Printed(t, o)[p].val[k] = Cell(t, o, t[p].val[k])
  BY Zenon DEF Printed, Cell

\* What is deleted goes with all below it, and only what the board lacks.
LEMMA KeptIsCommon ==
  ASSUME NEW b, NEW t, Rooted(Nodes(b)), Rooted(Nodes(t))
  PROVE  {p \in Nodes(b) : \A d \in Deleted(b, t) : ~IsPrefix(d, p)} = Nodes(b) \cap Nodes(t)
<1> DEFINE gone == Nodes(b) \ Nodes(t)
<1>paths. Nodes(b) \subseteq Paths /\ Nodes(t) \subseteq Paths /\ Root \notin Paths
  BY TreesAssumption DEF Rooted, TreesAssumption
<1>1. ASSUME NEW p \in Nodes(b), p \notin Nodes(t)
      PROVE  \E d \in Deleted(b, t) : IsPrefix(d, p)
  <2>1. PICK n \in 1 .. Len(p) : Take(p, n) \notin Nodes(t) \cup {Root}
                                 /\ Take(p, n - 1) \in Nodes(t) \cup {Root}
    BY <1>1, <1>paths, LeavesSomewhere
  <2>2. Take(p, n) \in Nodes(b)
    BY PrefixesThere
  <2>3. Front(Take(p, n)) = Take(p, n - 1)
    BY <1>paths, TakeFacts
  <2>4. Take(p, n) \in Deleted(b, t)
    BY <1>paths, <2>1, <2>2, <2>3 DEF Deleted
  <2>5. IsPrefix(Take(p, n), p)
    BY <1>paths, <2>2, PrefixIsTake
  <2> QED
    BY <2>4, <2>5
<1>2. ASSUME NEW p \in Nodes(b) \cap Nodes(t), NEW d \in Deleted(b, t), IsPrefix(d, p)
      PROVE  FALSE
  <2>1. d \in Paths /\ d \notin Nodes(t)
    BY <1>paths DEF Deleted
  <2>2. PICK n \in 1 .. Len(p) : d = Take(p, n)
    BY <1>2, <1>paths, <2>1, PrefixIsTake
  <2> QED
    BY <2>1, <2>2, PrefixesThere
<1> QED
  BY <1>1, <1>2

\* What is added is what the reference design lacks, all of it.
LEMMA AddedIsNew ==
  ASSUME NEW b, NEW t, Rooted(Nodes(b)), Rooted(Nodes(t))
  PROVE  Added(b, t) = [p \in Nodes(t) \ Nodes(b) |-> t[p]]
<1> DEFINE heads == {p \in Nodes(t) \ Nodes(b) : Front(p) \in Nodes(b) \cup {Root}}
           below == {q \in Nodes(t) : \E h \in heads : IsPrefix(h, q)}
<1>paths. Nodes(b) \subseteq Paths /\ Nodes(t) \subseteq Paths /\ Root \notin Paths
  BY TreesAssumption DEF Rooted, TreesAssumption
<1>1. ASSUME NEW q \in Nodes(t), q \notin Nodes(b)
      PROVE  \E h \in heads : IsPrefix(h, q)
  <2>1. PICK n \in 1 .. Len(q) : Take(q, n) \notin Nodes(b) \cup {Root}
                                 /\ Take(q, n - 1) \in Nodes(b) \cup {Root}
    BY <1>1, <1>paths, LeavesSomewhere
  <2>2. Take(q, n) \in Nodes(t)
    BY PrefixesThere
  <2>3. Front(Take(q, n)) = Take(q, n - 1)
    BY <1>paths, TakeFacts
  <2>4. Take(q, n) \in heads
    BY <2>1, <2>2, <2>3
  <2>5. IsPrefix(Take(q, n), q)
    BY <1>paths, <2>2, PrefixIsTake
  <2> QED
    BY <2>4, <2>5
<1>2. ASSUME NEW q \in Nodes(b) \cap Nodes(t), NEW h \in heads, IsPrefix(h, q)
      PROVE  FALSE
  <2>1. h \in Paths /\ h \notin Nodes(b)
    BY <1>paths
  <2>2. PICK n \in 1 .. Len(q) : h = Take(q, n)
    BY <1>2, <1>paths, <2>1, PrefixIsTake
  <2> QED
    BY <2>1, <2>2, PrefixesThere
<1>3. below = Nodes(t) \ Nodes(b)
  BY <1>1, <1>2
<1>4. Added(b, t) = [p \in below |-> t[p]]
  BY DEF Added
<1> QED
  BY <1>3, <1>4

\* gen-overrides.py's three lists, read over the design they were computed
\* from, are the board, if the labels of common nodes agree.
Overrides(b, t) == [deleted |-> Deleted(b, t), changed |-> Changed(b, t), added |-> Added(b, t)]

LEMMA MergeIsBoard ==
  ASSUME NEW b, NEW t, Shaped(b), Shaped(t),
         \A p \in Nodes(b) \cap Nodes(t) : b[p].label = t[p].label
  PROVE  Applied(b, Overrides(b, t)) = t
<1> DEFINE o    == Overrides(b, t)
           both == Nodes(b) \cap Nodes(t)
           new  == Nodes(t) \ Nodes(b)
           Changes(p) == [b[p] EXCEPT !.val =
                           [k \in Props |-> IF p \in DOMAIN o.changed /\ k \in DOMAIN o.changed[p]
                                              THEN o.changed[p][k] ELSE b[p].val[k]]]
<1>rooted. Rooted(Nodes(b)) /\ Rooted(Nodes(t))
  BY DEF Shaped
<1>1. {p \in Nodes(b) : \A d \in o.deleted : ~IsPrefix(d, p)} = both
  BY KeptIsCommon DEF Shaped, Overrides
<1>2. o.added = [p \in new |-> t[p]] /\ Nodes(o.added) = new
  <2>1. o.added = [p \in new |-> t[p]]
    <3>1. Added(b, t) = [p \in new |-> t[p]]
      BY <1>rooted, AddedIsNew, Zenon
    <3>2. o.added = Added(b, t)
      BY DEF Overrides
    <3> QED
      BY <3>1, <3>2
  <2> QED
    BY <2>1 DEF Nodes
<1>3. ASSUME NEW p \in both PROVE Changes(p) = t[p]
  <2>1. o.changed = Changed(b, t) /\ DOMAIN o.changed = both
    BY DEF Overrides, Changed
  <2>2. o.changed[p] = [k \in {j \in Props : t[p].val[j] # b[p].val[j]} |-> t[p].val[k]]
    BY <1>3, <2>1 DEF Changed
  <2>3. \A k \in Props : (IF p \in DOMAIN o.changed /\ k \in DOMAIN o.changed[p]
                            THEN o.changed[p][k] ELSE b[p].val[k]) = t[p].val[k]
    <3> HIDE DEF o
    <3> QED
      BY <1>3, <2>1, <2>2
  <2>4. Changes(p) = [b[p] EXCEPT !.val = [k \in Props |-> t[p].val[k]]]
    BY <2>3
  <2>5. b[p] = [label |-> b[p].label, val |-> [k \in Props |-> b[p].val[k]]]
    BY <1>3 DEF Shaped
  <2>6. t[p] = [label |-> t[p].label, val |-> [k \in Props |-> t[p].val[k]]]
    BY <1>3 DEF Shaped
  <2>7. b[p].label = t[p].label
    BY <1>3
  <2> HIDE DEF Changes
  <2> QED
    BY <2>4, <2>5, <2>6, <2>7
<1>4. Applied(b, o) = [p \in both \cup new |-> IF p \in new THEN o.added[p] ELSE Changes(p)]
  BY <1>1, <1>2 DEF Applied
<1>5. \A p \in both \cup new : (IF p \in new THEN o.added[p] ELSE Changes(p)) = t[p]
  BY <1>2, <1>3
<1>6. Applied(b, o) = [p \in Nodes(t) |-> t[p]]
  <2>1. both \cup new = Nodes(t)
    OBVIOUS
  <2> HIDE DEF both, new, Changes, o
  <2> QED
    BY <1>4, <1>5, <2>1
<1>7. t = [p \in Nodes(t) |-> t[p]]
  BY DEF Shaped, Nodes
<1> QED
  BY <1>6, <1>7

-----------------------------------------------------------------------------
(* Names of nodes. *)

\* Nodes are paths, and a label is on one node and no path.
Labelled(t) ==
  /\ Nodes(t) \subseteq Paths
  /\ \A p \in Nodes(t) : t[p].label \in Labels \cup {Unlabelled}
  /\ \A p, q \in Nodes(t) : t[p].label = t[q].label => p = q \/ t[p].label = Unlabelled

LEMMA TreeLabelled ==
  ASSUME NEW t \in Bases \cup Targets
  PROVE  Labelled(t)
  BY TreeFacts DEF Shaped, Rooted, Compiles, Labelled

\* A node goes by one name, and no other goes by it.
LEMMA NameIsUnique ==
  ASSUME NEW t, Labelled(t), NEW q \in Nodes(t)
  PROVE  /\ Named(t, Name(t, q)) = {q}
         /\ The(t, Name(t, q)) = q
<1>1. Paths \cap Labels = {} /\ Unlabelled \notin Paths
  BY TreesAssumption DEF TreesAssumption, Root, Unlabelled
<1>2. ASSUME NEW p \in Nodes(t) PROVE Name(t, q) \in {p, t[p].label} <=> p = q
  <2>1. CASE t[q].label = Unlabelled
    BY <1>1, <2>1 DEF Name, Labelled
  <2>2. CASE t[q].label # Unlabelled
    BY <1>1, <2>2 DEF Name, Labelled
  <2> QED
    BY <2>1, <2>2
<1>3. Named(t, Name(t, q)) = {q}
  BY <1>2 DEF Named
<1>4. The(t, Name(t, q)) \in Named(t, Name(t, q))
  BY <1>3, Zenon DEF The
<1> QED
  BY <1>3, <1>4

\* In a tree that compiles a reference has a node.
LEMMA ReferenceGoesSomewhere ==
  ASSUME NEW t, Compiles(t), NEW p \in Nodes(t), NEW k \in Props, Refers(t[p].val[k])
  PROVE  /\ t[p].val[k] \in Used(t)
         /\ The(t, t[p].val[k][2]) \in Nodes(t)
<1>1. t[p].val[k] \in Used(t)
  BY DEF Used
<1>2. Named(t, t[p].val[k][2]) # {}
  BY <1>1 DEF Compiles
<1>3. The(t, t[p].val[k][2]) \in Named(t, t[p].val[k][2])
  BY <1>2, Zenon DEF The
<1>4. The(t, t[p].val[k][2]) \in Nodes(t)
  BY <1>3, Zenon DEF Named
<1> QED
  BY <1>1, <1>4

-----------------------------------------------------------------------------
(* What the gate lets pass. *)

\* how far build.sh has come, and what it has seen
Gated ==
  /\ target \in Targets
  /\ stage \in {"check", "diff", "verified"} => Compiles(native)
  /\ stage \in {"diff", "verified"} =>
       Unresolved({Printed(target, order), Printed(native, norder)}) = {}
  /\ stage = "verified" => Printed(native, norder) = Printed(target, order)

LEMMA GatedStep == Gated /\ [BuildNext]_buildVars => Gated'
<1> SUFFICES ASSUME Gated, [BuildNext]_buildVars PROVE Gated'
  OBVIOUS
<1>1. CASE Generate
  BY <1>1, Zenon DEF Generate, Gated
<1>2. CASE Compile
  <2>1. target' = target /\ stage' \in {"check", "error"} /\ (stage' = "check" => Compiles(native'))
    BY <1>2 DEF Compile
  <2>2. stage' \notin {"diff", "verified"}
    BY <2>1
  <2> HIDE DEF Compiles, Unresolved, Printed
  <2> QED
    BY <2>1, <2>2 DEF Gated
<1>3. CASE Check
  BY <1>3 DEF Check, Gated
<1>4. CASE Diff
  BY <1>4 DEF Diff, Gated
<1>5. CASE UNCHANGED buildVars
  BY <1>5 DEF buildVars, Gated
<1> QED
  BY <1>1, <1>2, <1>3, <1>4, <1>5 DEF BuildNext

\* Two cells that print alike, of trees that have the same nodes and labels,
\* hold the same data or refer to the same node, if the one on the board is no
\* reference that is printed as a number.
LEMMA AlikeIsSame ==
  ASSUME NEW n, NEW t, NEW no, NEW o, Labelled(t),
         \A q \in Nodes(t) : n[q].label = t[q].label,
         NEW v, Refers(v) => The(n, v[2]) \in Nodes(t),
         NEW w \in Value, Refers(w) => The(t, w[2]) \in Nodes(t),
         w[1] # "loose",
         Cell(n, no, v) = Cell(t, o, w)
  PROVE  /\ Refers(w) => Refers(v) /\ The(n, v[2]) = The(t, w[2])
         /\ ~Refers(w) => w = IF Refers(v) THEN <<"data", Number(n, no, The(n, v[2]))>> ELSE v
<1>tag. w[1] \in {"absent", "data", "ref"}
  BY ValueFacts
<1>1. CASE w[1] = "ref"
  <2> DEFINE a == The(n, v[2])
             b == The(t, w[2])
  <2>1. Cell(t, o, w) = <<"ref", Name(t, b)>>
    BY <1>1 DEF Cell
  <2>2. v[1] = "ref" /\ Cell(n, no, v) = <<"ref", Name(n, a)>>
    <3>1. Cell(n, no, v)[1] = "ref"
      BY <2>1
    <3>2. v[1] # "loose"
      BY <3>1 DEF Cell
    <3> QED
      BY <3>1, <3>2 DEF Cell
  <2>3. Name(n, a) = Name(t, b)
    BY <2>1, <2>2
  <2>4. a \in Nodes(t) /\ b \in Nodes(t)
    BY <1>1, <2>2 DEF Refers
  <2>6. Name(n, a) = Name(t, a)
    BY <2>4 DEF Name
  <2>7. The(t, Name(t, a)) = a /\ The(t, Name(t, b)) = b
    BY <2>4, NameIsUnique
  <2>8. a = b
    <3> HIDE DEF a, b
    <3> QED
      BY <2>3, <2>6, <2>7
  <2> QED
    BY <1>1, <2>2, <2>8 DEF Refers
<1>2. CASE w[1] # "ref"
  <2>1. Cell(t, o, w) = w /\ ~Refers(w)
    BY <1>2, <1>tag DEF Cell, Refers
  <2>2. v[1] # "ref"
    <3> SUFFICES ASSUME v[1] = "ref" PROVE FALSE
      OBVIOUS
    <3>1. Cell(n, no, v)[1] = "ref"
      BY DEF Cell
    <3> QED
      BY <1>2, <2>1, <3>1
  <2>3. CASE v[1] = "loose"
    BY <2>1, <2>3 DEF Cell, Refers
  <2>4. CASE v[1] # "loose"
    BY <2>1, <2>2, <2>4 DEF Cell, Refers
  <2> QED
    BY <2>3, <2>4
<1> QED
  BY <1>1, <1>2

(***************************************************************************)
(* What build.sh calls verified has the board's nodes and labels, the same *)
(* data, and each reference goes to the same node, whatever was overridden *)
(* and in whichever order either compilation numbers the nodes: unless a   *)
(* property of the board that holds a reference is printed as one nowhere  *)
(* in the two trees (DtOverrides, VerifiedIsSame).                         *)
(***************************************************************************)
THEOREM GateTellsTrue == BuildSpec => []VerifiedIsSame
<1>1. BuildInit => Gated
  BY Zenon DEF BuildInit, Gated
<1>2. Gated => VerifiedIsSame
  <2> SUFFICES ASSUME Gated, stage = "verified",
                      \A k \in Loose(target) :
                        k \in Symbolic({Printed(target, order), Printed(native, norder)})
               PROVE  SameHardware
    BY Zenon DEF VerifiedIsSame
  <2> DEFINE PT == Printed(target, order)
             PN == Printed(native, norder)
  <2>1. /\ Compiles(native) /\ Unresolved({PT, PN}) = {} /\ PN = PT /\ target \in Targets
    BY DEF Gated
  <2>2. Labelled(target) /\ Compiles(target)
        /\ \A p \in Nodes(target), k \in Props : target[p].val[k] \in Value
    BY <2>1, TreeLabelled, TreeFacts
  <2>3. Nodes(PT) = Nodes(target) /\ Nodes(PN) = Nodes(native)
    BY DEF Printed, Nodes
  <2>4. Nodes(native) = Nodes(target)
    BY <2>1, <2>3
  <2>5. \A p \in Nodes(target) : PT[p].label = target[p].label
    BY DEF Printed
  <2>6. \A p \in Nodes(native) : PN[p].label = native[p].label
    BY DEF Printed
  <2>7. \A p \in Nodes(target) : native[p].label = target[p].label
    BY <2>1, <2>4, <2>5, <2>6
  <2>8. ASSUME NEW p \in Nodes(target), NEW k \in Props
        PROVE  target[p].val[k][1] # "loose"
    <3> SUFFICES ASSUME target[p].val[k][1] = "loose" PROVE FALSE
      OBVIOUS
    <3>1. k \in Loose(target)
      BY DEF Loose
    <3>2. k \in Symbolic({PT, PN})
      BY <3>1
    <3>3. PT[p].val[k][1] = "data"
      <4>1. PT[p].val[k] = Cell(target, order, target[p].val[k])
        BY PrintedCell
      <4> QED
        BY <4>1 DEF Cell
    <3>4. k \in Bare(PT)
      BY <2>3, <3>3 DEF Bare
    <3>5. k \in Unresolved({PT, PN})
      <4> HIDE DEF PT, PN
      <4> QED
        BY <3>2, <3>4 DEF Unresolved
    <3> QED
      BY <2>1, <3>5
  <2>9. ASSUME NEW p \in Nodes(target), NEW k \in Props
        PROVE  Cell(native, norder, native[p].val[k]) = Cell(target, order, target[p].val[k])
    <3>1. PT[p].val[k] = Cell(target, order, target[p].val[k])
      BY PrintedCell
    <3>2. PN[p].val[k] = Cell(native, norder, native[p].val[k])
      BY <2>4, PrintedCell
    <3> QED
      BY <2>1, <3>1, <3>2
  <2> DEFINE cell(v) == IF Refers(v) THEN <<"data", Number(native, norder, The(native, v[2]))>> ELSE v
             want(v) == IF Refers(v) THEN <<"data", Number(native, norder, The(target, v[2]))>> ELSE v
  <2>10. ASSUME NEW p \in Nodes(target), NEW k \in Props
         PROVE  cell(native[p].val[k]) = want(target[p].val[k])
    <3> DEFINE v == native[p].val[k]
               w == target[p].val[k]
    <3>1. w \in Value /\ w[1] # "loose" /\ Cell(native, norder, v) = Cell(target, order, w)
      BY <2>2, <2>8, <2>9
    <3>2. Refers(v) => The(native, v[2]) \in Nodes(target)
      BY <2>1, <2>4, ReferenceGoesSomewhere
    <3>3. Refers(w) => The(target, w[2]) \in Nodes(target)
      BY <2>2, ReferenceGoesSomewhere
    <3>4. Labelled(target)
      BY <2>2
    <3> HIDE DEF v, w, PT, PN
    <3>5. /\ Refers(w) => Refers(v) /\ The(native, v[2]) = The(target, w[2])
          /\ ~Refers(w) => w = cell(v)
      BY <2>7, <3>1, <3>2, <3>3, <3>4, AlikeIsSame
    <3>6. cell(v) = want(w)
      BY <3>5
    <3> QED
      BY <3>6 DEF v, w
  <2> QED
    BY <2>4, <2>7, <2>10 DEF SameHardware
<1> QED
  BY <1>1, <1>2, GatedStep, PTL DEF BuildSpec

-----------------------------------------------------------------------------
(* What is generated. *)

\* A tree whose references are all by the name they would be printed as prints
\* as it stands.
LEMMA PrintsItself ==
  ASSUME NEW t, NEW o, Shaped(t), Loose(t) = {},
         \A p \in Nodes(t), k \in Props : t[p].val[k] \in Value,
         \A v \in Used(t) : v[2] = Name(t, The(t, v[2]))
  PROVE  Printed(t, o) = t
<1>1. ASSUME NEW p \in Nodes(t), NEW k \in Props
      PROVE  Cell(t, o, t[p].val[k]) = t[p].val[k]
  <2> DEFINE v == t[p].val[k]
  <2>1. v[1] # "loose" /\ v \in Value
    BY DEF Loose
  <2>2. CASE v[1] = "ref"
    <3>1. v \in Used(t)
      BY <2>2 DEF Used, Refers
    <3>2. v[2] = Name(t, The(t, v[2])) /\ v = <<"ref", v[2]>>
      BY <2>1, <2>2, <3>1, ValueFacts
    <3>3. Cell(t, o, v) = <<"ref", Name(t, The(t, v[2]))>>
      BY <2>2 DEF Cell
    <3> HIDE DEF v
    <3>4. Cell(t, o, v) = v
      BY <3>2, <3>3
    <3> QED
      BY <3>4 DEF v
  <2>3. CASE v[1] # "ref"
    BY <2>1, <2>3 DEF Cell
  <2> QED
    BY <2>2, <2>3
<1>2. Printed(t, o) =
        [p \in Nodes(t) |->
          [label |-> t[p].label, val |-> [k \in Props |-> Cell(t, o, t[p].val[k])]]]
  BY Zenon DEF Printed, Cell
<1>3. Printed(t, o) =
        [p \in Nodes(t) |-> [label |-> t[p].label, val |-> [k \in Props |-> t[p].val[k]]]]
  BY <1>1, <1>2
<1> QED
  BY <1>3 DEF Shaped

\* A board's tree without references that print as numbers, printed.
LEMMA PrintedCells ==
  ASSUME NEW t \in Targets, NEW o, Loose(t) = {}, NEW p \in Nodes(t), NEW k \in Props
  PROVE  LET v == t[p].val[k]
             w == Printed(t, o)[p].val[k]
         IN  /\ v[1] = "ref" => /\ The(t, v[2]) \in Nodes(t)
                                /\ w = <<"ref", Name(t, The(t, v[2]))>>
             /\ v[1] # "ref" => w = v
             /\ w[1] = v[1] /\ v[1] \in {"absent", "data", "ref"}
<1> DEFINE v == t[p].val[k]
           w == Printed(t, o)[p].val[k]
<1>1. v \in Value /\ v[1] # "loose" /\ Compiles(t)
  BY TreeFacts DEF Loose
<1>2. w = Cell(t, o, v)
  BY PrintedCell
<1>3. v[1] = "ref" => The(t, v[2]) \in Nodes(t)
  BY <1>1, ReferenceGoesSomewhere DEF Refers
<1>4. v[1] \in {"absent", "data", "ref"}
  BY <1>1, ValueFacts
<1>5. CASE v[1] = "ref"
  <2>1. w = <<"ref", Name(t, The(t, v[2]))>>
    BY <1>2, <1>5 DEF Cell
  <2>2. w[1] = "ref"
    BY <2>1
  <2> HIDE DEF v, w
  <2>3. w = <<"ref", Name(t, The(t, v[2]))>> /\ w[1] = v[1]
    BY <1>5, <2>1, <2>2
  <2> QED
    BY <1>3, <1>4, <1>5, <2>3 DEF v, w
<1>6. CASE v[1] # "ref"
  <2>1. w = v
    BY <1>1, <1>2, <1>6 DEF Cell
  <2> HIDE DEF v, w
  <2>2. w[1] = v[1]
    BY <2>1
  <2> QED
    BY <1>4, <1>6, <2>1, <2>2 DEF v, w
<1> QED
  BY <1>5, <1>6

\* Its names are those of the source.
LEMMA PrintedNames ==
  ASSUME NEW t \in Targets, NEW o
  PROVE  /\ Labelled(Printed(t, o))
         /\ \A q \in Nodes(t) : /\ Name(Printed(t, o), q) = Name(t, q)
                                /\ The(Printed(t, o), Name(t, q)) = q
                                /\ q \in Named(Printed(t, o), Name(t, q))
<1> DEFINE T == Printed(t, o)
<1>1. Labelled(t) /\ Shaped(t)
  BY TreeLabelled, TreeFacts
<1>2. Nodes(T) = Nodes(t) /\ \A p \in Nodes(t) : T[p].label = t[p].label
  BY <1>1, PrintedShape
<1> HIDE DEF T
<1>3. Labelled(T)
  BY <1>1, <1>2 DEF Labelled
<1>4. \A q \in Nodes(t) : Name(T, q) = Name(t, q)
  BY <1>2 DEF Name
<1>5. \A q \in Nodes(t) : The(T, Name(T, q)) = q /\ Named(T, Name(T, q)) = {q}
  BY <1>2, <1>3, NameIsUnique
<1>6. \A q \in Nodes(t) : The(T, Name(t, q)) = q /\ q \in Named(T, Name(t, q))
  BY <1>4, <1>5
<1> QED
  BY <1>3, <1>4, <1>6 DEF T

\* The references of the printed tree, and those of the source, go to the same
\* nodes.
LEMMA PrintedRefs ==
  ASSUME NEW t \in Targets, NEW o, Loose(t) = {}
  PROVE  LET T == Printed(t, o)
         IN  /\ \A v \in Used(t) : \E w \in Used(T) : The(T, w[2]) = The(t, v[2])
             /\ \A w \in Used(T) : /\ \E v \in Used(t) : The(T, w[2]) = The(t, v[2])
                                   /\ Named(T, w[2]) # {}
                                   /\ w = <<"ref", Name(T, The(T, w[2]))>>
<1> DEFINE T == Printed(t, o)
<1>1. Nodes(T) = Nodes(t)
  BY PrintedShape, TreeFacts
<1>2. ASSUME NEW p \in Nodes(t), NEW k \in Props, Refers(t[p].val[k])
      PROVE  /\ T[p].val[k] \in Used(T)
             /\ The(T, T[p].val[k][2]) = The(t, t[p].val[k][2])
  <2>1. t[p].val[k][1] = "ref"
    BY <1>2, PrintedCells DEF Refers
  <2> DEFINE q == The(t, t[p].val[k][2])
  <2>2. q \in Nodes(t) /\ T[p].val[k] = <<"ref", Name(t, q)>>
    BY <2>1, PrintedCells
  <2> HIDE DEF q, T
  <2>3. Refers(T[p].val[k]) /\ T[p].val[k][2] = Name(t, q)
    BY <2>2 DEF Refers
  <2>4. T[p].val[k] \in Used(T)
    BY <1>1, <2>3 DEF Used
  <2>5. The(T, Name(t, q)) = q
    BY <2>2, PrintedNames DEF T
  <2> QED
    BY <2>3, <2>4, <2>5 DEF q
<1>3. ASSUME NEW p \in Nodes(t), NEW k \in Props, Refers(T[p].val[k])
      PROVE  /\ t[p].val[k] \in Used(t)
             /\ The(T, T[p].val[k][2]) = The(t, t[p].val[k][2])
             /\ Named(T, T[p].val[k][2]) # {}
             /\ T[p].val[k] = <<"ref", Name(T, The(T, T[p].val[k][2]))>>
  <2>1. t[p].val[k][1] = "ref"
    BY <1>3, PrintedCells DEF Refers
  <2>2. t[p].val[k] \in Used(t) /\ Refers(t[p].val[k])
    BY <2>1 DEF Used, Refers
  <2> DEFINE q == The(t, t[p].val[k][2])
  <2>3. q \in Nodes(t) /\ T[p].val[k] = <<"ref", Name(t, q)>>
    BY <2>1, PrintedCells
  <2> HIDE DEF q, T
  <2>4. T[p].val[k][2] = Name(t, q)
    BY <2>3
  <2>5. The(T, Name(t, q)) = q /\ q \in Named(T, Name(t, q)) /\ Name(T, q) = Name(t, q)
    BY <2>3, PrintedNames DEF T
  <2>6. The(T, T[p].val[k][2]) = q /\ Named(T, T[p].val[k][2]) # {}
    BY <2>4, <2>5
  <2>7. T[p].val[k] = <<"ref", Name(T, q)>>
    BY <2>3, <2>5
  <2> QED
    BY <2>2, <2>6, <2>7 DEF q
<1> HIDE DEF T
<1>4. ASSUME NEW v \in Used(t) PROVE \E w \in Used(T) : The(T, w[2]) = The(t, v[2])
  <2>1. PICK p \in Nodes(t), k \in Props : v = t[p].val[k] /\ Refers(v)
    BY DEF Used
  <2> QED
    BY <1>2, <2>1
<1>5. ASSUME NEW w \in Used(T)
      PROVE  /\ \E v \in Used(t) : The(T, w[2]) = The(t, v[2])
             /\ Named(T, w[2]) # {}
             /\ w = <<"ref", Name(T, The(T, w[2]))>>
  <2>1. PICK p \in Nodes(t), k \in Props : w = T[p].val[k] /\ Refers(w)
    BY <1>1 DEF Used
  <2> QED
    BY <1>3, <2>1
<1> QED
  BY <1>4, <1>5 DEF T

\* It compiles,
LEMMA PrintedCompiles ==
  ASSUME NEW t \in Targets, NEW o, Loose(t) = {}
  PROVE  Compiles(Printed(t, o))
<1> DEFINE T == Printed(t, o)
<1>1. \A p, q \in Nodes(T) : T[p].label = T[q].label => p = q \/ T[p].label = Unlabelled
  BY PrintedNames DEF Labelled
<1>2. \A w \in Used(T) : Named(T, w[2]) # {}
  BY PrintedRefs
<1> HIDE DEF T
<1>3. Compiles(T)
  BY <1>1, <1>2 DEF Compiles
<1> QED
  BY <1>3 DEF T

\* prints as itself, in whichever order its nodes are numbered,
LEMMA PrintedTwice ==
  ASSUME NEW t \in Targets, NEW o, NEW n, Loose(t) = {}
  PROVE  Printed(Printed(t, o), n) = Printed(t, o)
<1> DEFINE T == Printed(t, o)
<1>1. Shaped(T) /\ Nodes(T) = Nodes(t)
  BY PrintedShape, TreeFacts
<1>2. ASSUME NEW p \in Nodes(t), NEW k \in Props
      PROVE  Cell(T, n, T[p].val[k]) = T[p].val[k]
  <2>1. T[p].val[k][1] \in {"absent", "data", "ref"}
    BY PrintedCells
  <2>2. Refers(T[p].val[k]) =>
          T[p].val[k] = <<"ref", Name(T, The(T, T[p].val[k][2]))>>
    <3>1. Refers(T[p].val[k]) => T[p].val[k] \in Used(T)
      BY <1>1 DEF Used
    <3> QED
      BY <3>1, PrintedRefs
  <2> DEFINE v == T[p].val[k]
  <2> HIDE DEF T
  <2>3. CASE v[1] = "ref"
    <3>1. v = <<"ref", Name(T, The(T, v[2]))>>
      BY <2>2, <2>3 DEF Refers
    <3>2. Cell(T, n, v) = <<"ref", Name(T, The(T, v[2]))>>
      BY <2>3 DEF Cell
    <3> HIDE DEF v
    <3>3. Cell(T, n, v) = v
      BY <3>1, <3>2
    <3> QED
      BY <3>3 DEF v
  <2>4. CASE v[1] # "ref"
    BY <2>1, <2>4 DEF Cell
  <2> QED
    BY <2>3, <2>4
<1> HIDE DEF T
<1>3. Printed(T, n) =
        [p \in Nodes(T) |->
          [label |-> T[p].label, val |-> [k \in Props |-> Cell(T, n, T[p].val[k])]]]
  BY Zenon DEF Printed, Cell
<1>4. Printed(T, n) =
        [p \in Nodes(T) |-> [label |-> T[p].label, val |-> [k \in Props |-> T[p].val[k]]]]
  BY <1>1, <1>2, <1>3
<1>5. Printed(T, n) = T
  BY <1>1, <1>4 DEF Shaped
<1> QED
  BY <1>5 DEF T

\* and gives a phandle to the same nodes.
LEMMA PrintedHandles ==
  ASSUME NEW t \in Targets, NEW o, Loose(t) = {}
  PROVE  Handles(Printed(t, o)) = Handles(t)
<1> DEFINE T == Printed(t, o)
<1>1. Nodes(T) = Nodes(t) /\ \A p \in Nodes(t) : T[p].label = t[p].label
  BY PrintedShape, TreeFacts
<1>2. /\ \A v \in Used(t) : \E w \in Used(T) : The(T, w[2]) = The(t, v[2])
      /\ \A w \in Used(T) : \E v \in Used(t) : The(T, w[2]) = The(t, v[2])
  BY PrintedRefs
<1> HIDE DEF T
<1>3. {The(T, w[2]) : w \in Used(T)} = {The(t, v[2]) : v \in Used(t)}
  BY <1>2
<1>4. {p \in Nodes(T) : T[p].label # Unlabelled} = {p \in Nodes(t) : t[p].label # Unlabelled}
  BY <1>1
<1>5. Handles(T) = Handles(t)
  BY <1>3, <1>4 DEF Handles
<1> QED
  BY <1>5 DEF T

\* It holds a reference and a number in one property only if the board does.
LEMMA PrintedTags ==
  ASSUME NEW t \in Targets, NEW o, Loose(t) = {}
  PROVE  /\ Symbolic({Printed(t, o)}) = Symbolic({t})
         /\ Bare(Printed(t, o)) = Bare(t)
<1> DEFINE T == Printed(t, o)
<1>1. Nodes(T) = Nodes(t)
  BY PrintedShape, TreeFacts
<1>2. \A p \in Nodes(t), k \in Props : T[p].val[k][1] = t[p].val[k][1]
  BY PrintedCells
<1> HIDE DEF T
<1>3. Symbolic({T}) = Symbolic({t}) /\ Bare(T) = Bare(t)
  BY <1>1, <1>2 DEF Symbolic, Bare
<1> QED
  BY <1>3 DEF T

\* the hypothesis of Regenerates
Plain ==
  /\ \A p \in Nodes(base) \cap Nodes(target) : base[p].label = target[p].label
  /\ \A v \in Used(base) : v[2] = Name(base, The(base, v[2]))
  /\ Loose(base) = {} /\ Loose(target) = {}
  /\ \A k \in Props : k \notin Symbolic({target}) \cap Bare(target)

\* What build.sh has written so far is what the board's tree prints as.
Restored ==
  /\ base \in Bases /\ target \in Targets
  /\ Plain =>
       /\ stage \in {"generate", "compile", "check", "diff", "verified"}
       /\ stage = "compile" => over = Overrides(base, Printed(target, order))
       /\ stage \in {"check", "diff", "verified"} => native = Printed(target, order)

LEMMA RestoredStep == Restored /\ [BuildNext]_buildVars => Restored'
<1> SUFFICES ASSUME Restored, [BuildNext]_buildVars PROVE Restored'
  OBVIOUS
<1>given. UNCHANGED <<base, target, order>> /\ (Plain' <=> Plain)
  BY Zenon DEF BuildNext, Generate, Compile, Check, Diff, buildVars, Plain
<1>typed. base' \in Bases /\ target' \in Targets
  BY <1>given, Zenon DEF Restored
<1> SUFFICES ASSUME Plain
             PROVE  /\ stage' \in {"generate", "compile", "check", "diff", "verified"}
                    /\ stage' = "compile" => over' = Overrides(base, Printed(target, order))
                    /\ stage' \in {"check", "diff", "verified"} => native' = Printed(target, order)
  BY <1>given, <1>typed, Zenon DEF Restored
<1> DEFINE T == Printed(target, order)
<1>now. /\ base \in Bases /\ target \in Targets /\ Loose(target) = {}
        /\ stage \in {"generate", "compile", "check", "diff", "verified"}
        /\ stage = "compile" => over = Overrides(base, T)
        /\ stage \in {"check", "diff", "verified"} => native = T
  BY Zenon DEF Restored, Plain
<1>1. CASE Generate
  <2>1. PICK o : over' = [deleted |-> Deleted(Printed(base, o), T), changed |-> Changed(Printed(base, o), T),
                          added |-> Added(Printed(base, o), T)]
    BY <1>1, Zenon DEF Generate
  <2>2. Printed(base, o) = base
    <3>1. Shaped(base) /\ \A p \in Nodes(base), k \in Props : base[p].val[k] \in Value
      BY <1>now, TreeFacts
    <3>2. Loose(base) = {} /\ \A v \in Used(base) : v[2] = Name(base, The(base, v[2]))
      BY Zenon DEF Plain
    <3> QED
      BY <3>1, <3>2, PrintsItself
  <2>3. over' = Overrides(base, T)
    <3> HIDE DEF T
    <3> QED
      BY <2>1, <2>2, Zenon DEF Overrides
  <2>4. stage' = "compile"
    BY <1>1 DEF Generate
  <2> QED
    BY <2>3, <2>4
<1>2. CASE Compile
  <2>1. over = Overrides(base, T) /\ native' = Applied(base, over)
        /\ stage' = IF Compiles(native') THEN "check" ELSE "error"
    BY <1>2, <1>now, Zenon DEF Compile
  <2>2. native' = T
    <3>1. Shaped(base) /\ Shaped(T) /\ Nodes(T) = Nodes(target)
          /\ \A p \in Nodes(target) : T[p].label = target[p].label
      BY <1>now, TreeFacts, PrintedShape
    <3>2. \A p \in Nodes(base) \cap Nodes(target) : base[p].label = target[p].label
      BY Zenon DEF Plain
    <3>3. Applied(base, Overrides(base, T)) = T
      <4> HIDE DEF T
      <4> QED
        BY <3>1, <3>2, MergeIsBoard
    <3> QED
      BY <2>1, <3>3
  <2>3. Compiles(T)
    BY <1>now, PrintedCompiles
  <2>4. stage' = "check"
    BY <2>1, <2>2, <2>3
  <2> QED
    BY <2>2, <2>4
<1>3. CASE Check
  <2>1. native = T /\ native' = native
        /\ stage' = IF Unresolved({T, Printed(native, norder)}) = {} THEN "diff" ELSE "unresolved"
    BY <1>3, <1>now, Zenon DEF Check
  <2>2. Printed(T, norder) = T
    BY <1>now, PrintedTwice
  <2>3. Symbolic({T}) = Symbolic({target}) /\ Bare(T) = Bare(target)
    BY <1>now, PrintedTags
  <2>4. \A k \in Props : k \notin Symbolic({target}) \cap Bare(target)
    BY Zenon DEF Plain
  <2> HIDE DEF T
  <2>5. Symbolic({T}) \cap Bare(T) = {}
    <3>1. Symbolic({target}) \subseteq Props
      BY DEF Symbolic
    <3> QED
      BY <2>3, <2>4, <3>1
  <2>6. Unresolved({T, T}) = {}
    <3>1. {T, T} = {T}
      OBVIOUS
    <3> QED
      BY <2>5, <3>1 DEF Unresolved
  <2>7. stage' = "diff"
    BY <2>1, <2>2, <2>6
  <2> QED
    BY <2>1, <2>7 DEF T
<1>4. CASE Diff
  <2>1. native = T /\ native' = native
        /\ stage' = IF Printed(native, norder) = T /\ Handles(native) = Handles(target)
                   THEN "verified" ELSE "mismatch"
    BY <1>4, <1>now, Zenon DEF Diff
  <2>2. Printed(T, norder) = T /\ Handles(T) = Handles(target)
    BY <1>now, PrintedTwice, PrintedHandles
  <2> HIDE DEF T
  <2>3. stage' = "verified"
    BY <2>1, <2>2
  <2> QED
    BY <2>1, <2>3 DEF T
<1>5. CASE UNCHANGED buildVars
  BY <1>5, <1>now, Zenon DEF buildVars
<1> QED
  BY <1>1, <1>2, <1>3, <1>4, <1>5 DEF BuildNext

(***************************************************************************)
(* The overrides turn the reference design into the board's tree, and the  *)
(* gate lets it pass, whatever was deleted, changed and added together, at *)
(* any depth and under any numbering: if the nodes of both have the same   *)
(* labels, the design refers to nodes by the names they print as, and      *)
(* every reference prints as one (DtOverrides, Regenerates).               *)
(***************************************************************************)
THEOREM RoundTrip == BuildSpec => []Regenerates
<1>1. BuildInit => Restored
  <2> SUFFICES ASSUME BuildInit PROVE Restored
    OBVIOUS
  <2>1. base \in Bases /\ target \in Targets /\ stage = "generate"
    BY Zenon DEF BuildInit
  <2> QED
    BY <2>1 DEF Restored
<1>2. Restored => Regenerates
  BY Zenon DEF Restored, Regenerates, Plain
<1> QED
  BY <1>1, <1>2, RestoredStep, PTL DEF BuildSpec
=============================================================================
