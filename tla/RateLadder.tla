------------------------------ MODULE RateLadder ------------------------------
(***************************************************************************)
(* The rate ladder of the Seekwave firmware (rate_control.c of the         *)
(* decompiled image): which entries of the rate table a peer is sent at,   *)
(* in ascending order.  The table itself is data of the firmware's DRAM    *)
(* image; a run gives a small one.                                         *)
(***************************************************************************)
EXTENDS Integers, Sequences, FiniteSets

CONSTANTS
    Table,      \* the rate table: a sequence of [code, kind, nss, mcs, mbps], ascending
    MaxRungs,   \* entries a ladder has room for, 0x1c in the code
    Floor,      \* mbps of the configured basic code, 0 if the table has no such code
    FastOnly    \* cfg[2]: leave out what is slower than 5 Mbit/s

Kinds == {"CCK", "OFDM", "HT", "VHT", "HE"}

ASSUME TableAssumption ==
    /\ Table \in Seq([code : STRING, kind : Kinds, nss : {1, 2}, mcs : Nat, mbps : Nat \ {0}])
    /\ Len(Table) > 0
    /\ MaxRungs \in Nat \ {0}
    /\ Floor \in Nat
    /\ FastOnly \in BOOLEAN

Rungs == 0 .. MaxRungs - 1
None  == MaxRungs               \* "no rung", 0x1c in the code

ShortPreamble == {"0x10", "0x11", "0x12", "0x13"}

(***************************************************************************)
(* A peer: what generations it speaks, the legacy codes and HT indices it  *)
(* takes, the highest VHT/HE index per number of streams (-1: none), the   *)
(* streams both ends have, the width of its channel (0: 20 MHz), whether   *)
(* it takes the densest modulation on a narrow one, and whether it is met  *)
(* on 2.4 GHz as anything but a P2P interface.  The conditions on the      *)
(* dual-carrier entries of the HE table are left out.                      *)
(***************************************************************************)
Capabilities ==
    [speaks : SUBSET {"HT", "VHT", "HE"}, legacy : SUBSET STRING, ht : SUBSET Nat,
     top : [1 .. 2 -> Int], nss : 1 .. 2, width : 0 .. 2, dense : BOOLEAN, dsss : BOOLEAN]

\* the generation that decides: a peer of several is sent at the newest only
Legacy(p)  == p.speaks = {}
SendsHT(p)  == p.speaks = {"HT"}
SendsVHT(p) == "VHT" \in p.speaks /\ "HE" \notin p.speaks
SendsHE(p)  == "HE" \in p.speaks

\* FUN_0012d284's filter: may entry e be sent to peer p?
Usable(p, e) ==
    /\ e.nss <= p.nss
    /\ ~(FastOnly /\ e.mbps < 5)
    /\ e.mbps >= Floor
    /\ \/ /\ e.kind = "CCK"
          /\ p.dsss
          /\ e.code \notin ShortPreamble
          /\ e.code = "0x23" => Legacy(p)
          /\ e.code \in p.legacy
       \/ /\ e.kind = "OFDM"
          /\ Legacy(p) \/ e.code = "0x30"
          /\ e.code \in p.legacy
       \/ /\ e.kind = "HT"
          /\ SendsHT(p)
          /\ e.mcs \in p.ht
       \/ /\ e.kind = "VHT"
          /\ SendsVHT(p)
          /\ e.mcs <= p.top[e.nss]
          /\ e.mcs > 8 => p.width > 0 \/ p.dense
       \/ /\ e.kind = "HE"
          /\ SendsHE(p)
          /\ e.mcs <= p.top[e.nss]
          /\ e.mcs > 9 => p.dense

(***************************************************************************)
(* The ladder: the usable entries in the table's order, without a second   *)
(* one of the same code and streams right behind the first, and no more    *)
(* than there is room for.                                                 *)
(***************************************************************************)
Kept(p) ==
    LET usable == {i \in DOMAIN Table : Usable(p, Table[i])}
        Same(i, j) == Table[i].code = Table[j].code /\ Table[i].nss = Table[j].nss
    IN  {i \in usable : ~\E j \in usable :
            /\ j < i
            /\ Same(i, j)
            /\ \A k \in usable : j < k /\ k < i => Same(i, k)}

Length(p) == LET n == Cardinality(Kept(p)) IN IF n < MaxRungs THEN n ELSE MaxRungs

\* an unused rung is a cleared one: it names the table's first entry
Ladder(p) ==
    [r \in Rungs |->
        IF r < Length(p)
            THEN CHOOSE i \in Kept(p) : Cardinality({j \in Kept(p) : j < i}) = r
            ELSE 1]

(***************************************************************************)
(* The byte behind 0xa6: the first rung that is not a legacy one, until a  *)
(* two-stream rung is added, whose place is kept in the same byte.         *)
(***************************************************************************)
FirstModern(p) ==
    LET modern == {r \in 0 .. Length(p) - 1 : Table[Ladder(p)[r]].kind \in {"HT", "VHT", "HE"}}
        double == {r \in 0 .. Length(p) - 1 : Table[Ladder(p)[r]].nss = 2}
    IN  IF double # {} THEN CHOOSE r \in double : \A q \in double : q <= r
        ELSE IF modern # {} THEN CHOOSE r \in modern : \A q \in modern : r <= q
        ELSE None
===============================================================================
