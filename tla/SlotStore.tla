------------------------------ MODULE SlotStore -----------------------------
(***************************************************************************)
(* What the U-Boot slots promise to the boot ROM, whatever writes them:    *)
(* a slot is opened before it is written, at most one is open at a time,   *)
(* only an open one can lose or gain a whole blob, and it is closed again  *)
(* when it holds one.                                                      *)
(***************************************************************************)
EXTENDS Naturals

CONSTANT Store   \* the slots

VARIABLES
  open,   \* the slots being rewritten, or left half-written
  whole   \* the slots with a whole blob on the medium

Init == open = {} /\ whole = Store

Open(s) ==
  /\ open = {}
  /\ open' = {s}
  /\ UNCHANGED whole

\* what a write-back, an fsync or a power cut makes of an open slot
Rewrite ==
  /\ whole' \in SUBSET Store
  /\ whole' \ open = whole \ open
  /\ UNCHANGED open

Close(s) ==
  /\ s \in open /\ s \in whole
  /\ open' = open \ {s}
  /\ UNCHANGED whole

Next ==
  \/ \E s \in Store : Open(s) \/ Close(s)
  \/ Rewrite

Spec == Init /\ [][Next]_<<open, whole>>
=============================================================================
