------------------------- MODULE FirstBoot_proofs -------------------------
(***************************************************************************)
(* The types of first boot, and what it leaves of the loaders and of the   *)
(* conflicting packages, for any set of packages and any number of power   *)
(* cuts and failures.                                                      *)
(***************************************************************************)
EXTENDS FirstBoot, TLAPS

(* Every variable keeps its type through any number of power cuts, failed  *)
(* steps and retries (FirstBoot, TypeOK).                                  *)
THEOREM TypeCorrect == Spec => []TypeOK
<1>max. MaxFaults \in Nat /\ 0 \in 0 .. MaxFaults
  BY FirstBootAssumption DEF FirstBootAssumption
<1>1. Init => TypeOK
  BY <1>max, FirstBootAssumption DEF FirstBootAssumption, Init, TypeOK, Idle, Missed
<1>2. TypeOK /\ [Next]_vars => TypeOK'
  <2> SUFFICES ASSUME TypeOK, [Next]_vars PROVE TypeOK'
    OBVIOUS
  <2>fault. Fault => faults' \in 0 .. MaxFaults
    <3>1. faults \in 0 .. MaxFaults
      BY DEF TypeOK
    <3> QED
      BY <1>max, <3>1 DEF Fault
  <2>miss. \A m \in Missed : Miss(m) => faults' \in 0 .. MaxFaults /\ missed' \in SUBSET Missed
    BY <2>fault DEF TypeOK, Miss
  <2> USE <2>fault, <2>miss DEF TypeOK, disk, run, GiveUp, Idle
  <2>1. CASE Start
    BY <2>1 DEF Start
  <2>tear. \A begun, gone \in SUBSET Packages :
            Remove(begun, gone) =>
              /\ listed' \in SUBSET Packages /\ missed' \in SUBSET Missed
              /\ built' \in [Packages -> {"removed", "staged", "torn", "built", "installed"}]
    BY DEF Remove, Missed
  <2>torn. TearRemoval =>
              /\ listed' \in SUBSET Packages /\ missed' \in SUBSET Missed
              /\ built' \in [Packages -> {"removed", "staged", "torn", "built", "installed"}]
    BY <2>tear DEF TearRemoval
  <2>2. CASE PrepareBoard
    <3>1. /\ listed' \in SUBSET Packages /\ missed' \in SUBSET Missed
          /\ built' \in [Packages -> {"removed", "staged", "torn", "built", "installed"}]
      BY <2>2, <2>tear, <2>torn DEF PrepareBoard
    <3> QED
      BY <2>2, <3>1 DEF PrepareBoard
  <2>3. CASE Hold
    <3>1. missed' \in SUBSET Missed /\ faults' \in 0 .. MaxFaults /\ held' \in BOOLEAN
      BY <2>3 DEF Hold, Missed
    <3> QED
      BY <2>3, <3>1 DEF Hold
  <2>4. CASE Skip
    BY <2>4 DEF Skip
  <2>5. CASE AddFresh
    BY <2>5 DEF AddFresh
  <2>6. CASE Build
    <3>1. built' \in [Packages -> {"removed", "staged", "torn", "built", "installed"}]
      BY <2>6 DEF Build
    <3>2. missed' \in SUBSET Missed /\ faults' \in 0 .. MaxFaults
      BY <2>6 DEF Build, Missed
    <3>3. pc' \in {"loop", "install"} /\ todo' \in SUBSET Packages
      BY <2>6 DEF Build
    <3> QED
      BY <2>6, <3>1, <3>2, <3>3 DEF Build
  <2>7. CASE Install
    <3>1. missed' \in SUBSET Missed /\ faults' \in 0 .. MaxFaults
      BY <2>7 DEF Install, Missed
    <3> QED
      BY <2>7, <3>1 DEF Install
  <2>8. CASE Depmod
    BY <2>8 DEF Depmod
  <2>9. CASE MarkDone
    BY <2>9 DEF MarkDone
  <2>10. CASE Reboot
    BY <2>10 DEF Reboot
  <2>11. CASE PowerCut
    <3>1. /\ listed' \in SUBSET Packages /\ missed' \in SUBSET Missed
          /\ built' \in [Packages -> {"removed", "staged", "torn", "built", "installed"}]
      BY <2>11, <2>torn DEF PowerCut
    <3>2. done' \in BOOLEAN
      BY <2>11, Zenon DEF PowerCut
    <3> QED
      BY <2>11, <3>1, <3>2 DEF PowerCut
  <2>12. CASE UpgradeUboot
    BY <2>12 DEF UpgradeUboot, Missed
  <2>13. CASE UNCHANGED vars
    BY <2>13 DEF vars
  <2> QED
    BY <2>1, <2>2, <2>3, <2>4, <2>5, <2>6, <2>7, <2>8, <2>9, <2>10, <2>11, <2>12, <2>13
    DEF Next, Script
<1> QED
  BY <1>1, <1>2, PTL DEF Spec

(* As long as apt-mark does not fail and u-boot is not upgraded before     *)
(* first boot is done, the loaders stay the board's: a power cut at any    *)
(* step, a run that fails and a done file that is lost included.           *)
THEOREM LoadersSurvive == Spec => []LoadersIntact
<1>1. Init => IInv
  BY DEF Init, IInv
<1>2. IInv /\ [Next]_vars => IInv'
  <2> SUFFICES ASSUME IInv, [Next]_vars PROVE IInv'
    OBVIOUS
  <2>tear. TearRemoval => missed \subseteq missed'
    BY DEF TearRemoval, Remove
  <2> USE DEF IInv, disk, run, GiveUp, Miss
  <2>1. CASE Start
    BY <2>1 DEF Start
  <2>2. CASE PrepareBoard
    <3>1. missed \subseteq missed'
      BY <2>2, <2>tear DEF PrepareBoard, Remove
    <3>2. pc' \in {"hold", "over"} /\ UNCHANGED <<held, loaders, done>>
      BY <2>2 DEF PrepareBoard
    <3>3. QED
      BY <3>1, <3>2
  <2>3. CASE Hold
    BY <2>3 DEF Hold
  <2>4. CASE Skip
    BY <2>4 DEF Skip
  <2>5. CASE AddFresh
    BY <2>5 DEF AddFresh
  <2>6. CASE Build
    BY <2>6 DEF Build
  <2>7. CASE Install
    BY <2>7 DEF Install
  <2>8. CASE Depmod
    BY <2>8 DEF Depmod
  <2>9. CASE MarkDone
    BY <2>9 DEF MarkDone
  <2>10. CASE Reboot
    BY <2>10 DEF Reboot
  <2>11. CASE PowerCut
    <3>1. held' = held /\ loaders' = loaders /\ pc' = "off" /\ missed \subseteq missed'
      BY <2>11, <2>tear DEF PowerCut
    <3>2. done' => done
      BY <2>11, Zenon DEF PowerCut
    <3>3. QED
      BY <3>1, <3>2
  <2>12. CASE UpgradeUboot
    BY <2>12 DEF UpgradeUboot
  <2>13. CASE UNCHANGED vars
    BY <2>13 DEF vars
  <2>14. QED
    BY <2>1, <2>2, <2>3, <2>4, <2>5, <2>6, <2>7, <2>8, <2>9, <2>10, <2>11, <2>12, <2>13
    DEF Next, Script
<1>3. IInv => LoadersIntact
  BY DEF IInv, LoadersIntact
<1>4. QED
  BY <1>1, <1>2, <1>3, PTL DEF Spec

-----------------------------------------------------------------------------
(* Until a removal is torn, a conflicting package is either listed or gone, *)
(* and gone once the board's script has run.                               *)
ConflictKept ==
  /\ \A p \in Conflict : built[p] \notin {"built", "installed"}
  /\ \A p \in Conflict : p \in listed \/ built[p] = "removed"
  /\ pc \notin Idle \cup {"board"} => \A p \in Conflict : built[p] = "removed"
  /\ \A p \in todo : p \notin Conflict
  /\ pc \in {"build", "install"} => current \notin Conflict

ConflictGone ==
  /\ built \in [Packages -> {"removed", "staged", "torn", "built", "installed"}]
  /\ todo \in SUBSET Packages /\ current \in Packages
  /\ "removal" \notin missed => ConflictKept

(* Every step keeps it.                                                    *)
LEMMA ConflictStep == TypeOK /\ ConflictGone /\ [Next]_vars => ConflictGone'
<1> SUFFICES ASSUME TypeOK, ConflictGone, [Next]_vars PROVE ConflictGone'
  OBVIOUS
<1> Conflict \subseteq Packages /\ listed \subseteq Packages
  BY FirstBootAssumption DEF TypeOK
<1>tear. TearRemoval =>
           /\ built' \in [Packages -> {"removed", "staged", "torn", "built", "installed"}]
           /\ "removal" \notin missed' =>
                /\ "removal" \notin missed
                /\ \A p \in Conflict : built'[p] \notin {"built", "installed"}
                /\ \A p \in Conflict : p \in listed' \/ built'[p] = "removed"
  <2> SUFFICES ASSUME TearRemoval
               PROVE /\ built' \in [Packages -> {"removed", "staged", "torn", "built", "installed"}]
                     /\ "removal" \notin missed' =>
                          /\ "removal" \notin missed
                          /\ \A p \in Conflict : built'[p] \notin {"built", "installed"}
                          /\ \A p \in Conflict : p \in listed' \/ built'[p] = "removed"
    OBVIOUS
  <2>begun. PICK begun \in SUBSET listed : \E gone \in SUBSET begun : Remove(begun, gone)
    BY DEF TearRemoval
  <2>1. PICK gone \in SUBSET begun : Remove(begun, gone)
    BY <2>begun
  <2>2. built' \in [Packages -> {"removed", "staged", "torn", "built", "installed"}]
    BY <2>1 DEF Remove, ConflictGone
  <2>3. ASSUME "removal" \notin missed'
        PROVE  /\ "removal" \notin missed /\ begun = gone
    BY <2>1, <2>3 DEF Remove
  <2>4. QED
    BY <2>1, <2>2, <2>3 DEF Remove, ConflictGone, ConflictKept
<1> USE DEF ConflictGone, ConflictKept, Idle, Fault, Miss, GiveUp, disk, run
<1>1. CASE Start
  <2>1. pc' \in {"over", "board"}
    BY <1>1, Zenon DEF Start
  <2>2. UNCHANGED <<listed, built, todo, current, missed>>
    BY <1>1 DEF Start
  <2>3. QED
    BY <2>1, <2>2
<1>2. CASE PrepareBoard
  <2>1. CASE Remove(listed, listed) /\ pc' = "hold"
    BY <1>2, <2>1 DEF PrepareBoard, Remove
  <2>2. CASE TearRemoval /\ pc' = "over"
    BY <1>2, <1>tear, <2>2 DEF PrepareBoard
  <2>3. QED
    BY <1>2, <2>1, <2>2 DEF PrepareBoard
<1>3. CASE Hold
  BY <1>3 DEF Hold
<1>4. CASE Skip
  BY <1>4 DEF Skip
<1>5. CASE AddFresh
  BY <1>5 DEF AddFresh
<1>6. CASE Build
  BY <1>6 DEF Build
<1>7. CASE Install
  BY <1>7 DEF Install
<1>8. CASE Depmod
  BY <1>8 DEF Depmod
<1>9. CASE MarkDone
  BY <1>9 DEF MarkDone
<1>10. CASE Reboot
  BY <1>10 DEF Reboot
<1>11. CASE PowerCut
  <2>1. pc' = "off" /\ todo' = {} /\ current' = current
    BY <1>11 DEF PowerCut
  <2>2. CASE TearRemoval
    BY <1>tear, <2>1, <2>2
  <2>3. CASE ~TearRemoval
    <3>1. UNCHANGED <<listed, missed>>
      BY <1>11, <2>3 DEF PowerCut
    <3>2. built' = built \/ (pc \in {"build", "install"} /\ built' = [built EXCEPT ![current] = "torn"])
      BY <1>11, <2>3 DEF PowerCut
    <3>3. QED
      BY <2>1, <3>1, <3>2
  <2>4. QED
    BY <2>2, <2>3
<1>12. CASE UpgradeUboot
  BY <1>12 DEF UpgradeUboot
<1>13. CASE UNCHANGED vars
  BY <1>13 DEF vars
<1>14. QED
  BY <1>1, <1>2, <1>3, <1>4, <1>5, <1>6, <1>7, <1>8, <1>9, <1>10, <1>11, <1>12, <1>13
  DEF Next, Script

(* A package the board's script removes is never built, however often      *)
(* first boot starts again and whatever fails in it, unless a removal of   *)
(* one was torn.                                                           *)
THEOREM ConflictNever == Spec => []ConflictNeverBuilt
<1>1. Init => ConflictGone
  BY FirstBootAssumption DEF Init, ConflictGone, ConflictKept, Idle
<1>2. ConflictGone => ConflictNeverBuilt
  BY DEF ConflictGone, ConflictKept, ConflictNeverBuilt
<1>3. QED
  BY <1>1, <1>2, ConflictStep, TypeCorrect, PTL DEF Spec
=============================================================================
