---------------------------- MODULE MCDtOverrides ---------------------------
(* DtOverrides with small trees: a node, one below it and one beside it. *)
EXTENDS DtOverrides, TLC

A == <<"a">>
AC == <<"a", "c">>
B == <<"b">>
MCNames  == {"a", "b", "c"}
MCPaths  == {A, AC, B}
X == <<"&x">>
Y == <<"&y">>
MCLabels == {X, Y}
MCProps  == {"clocks", "reg"}
MCOrders == {<<A, AC, B>>, <<B, A, AC>>}

\* The trees over N with given labels, clocks from a set anywhere and one reg.
Filled(N, label, clocks, regs) ==
  {[p \in N |-> [label |-> label[p],
                 val |-> "clocks" :> c[p] @@ "reg" :> IF p = r[1] THEN r[2] ELSE Absent]]
     : c \in [N -> clocks], r \in regs \cap (N \X Value)}

NodeSets == {{A}, {A, AC}, {A, B}, {A, AC, B}}

\* The reference design refers to its nodes by label where there is one.
MCBases ==
  UNION {Filled(N, A :> X @@ AC :> Unlabelled @@ B :> Y,
                {Absent} \cup {v \in {<<"ref", Y>>, <<"ref", AC>>} : v[2] \in N \cup {Y : p \in N \cap {B}}},
                {<<A, Absent>>, <<A, <<"data", 1>>>>, <<B, <<"loose", X>>>>})
           : N \in NodeSets}

\* The board keeps the labels, has one on another node, or another node with one.
MCTargets ==
  UNION {Filled(N, label,
                {Absent} \cup {v \in {<<"ref", AC>>, <<"ref", B>>, <<"loose", B>>} : v[2] \in N},
                {<<A, Absent>>, <<A, <<"data", 1>>>>, <<B, <<"data", 2>>>>, <<B, <<"loose", A>>>>})
           : N \in NodeSets,
             label \in {A :> X @@ AC :> Unlabelled @@ B :> Y,
                        A :> Unlabelled @@ AC :> X @@ B :> Y,
                        A :> X @@ AC :> Y @@ B :> Unlabelled}}
=============================================================================
