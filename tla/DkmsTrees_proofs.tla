-------------------------- MODULE DkmsTrees_proofs --------------------------
(***************************************************************************)
(* What holds of the driver rebuild for every choice of packages, network  *)
(* and bound on faults.                                                    *)
(***************************************************************************)
EXTENDS DkmsTrees, TLAPS

(* The bound on faults is a number.                                        *)
LEMMA BoundIsNat == MaxFaults \in Nat
  BY TreeAssumption

(* The first state is well typed.                                          *)
LEMMA InitTyped == Init => TypeOK
<1> SUFFICES ASSUME Init PROVE TypeOK
  OBVIOUS
<1>1. ShipsIR \subseteq BOOLEAN
  BY TreeAssumption
<1>2. hasIR \in BOOLEAN
  BY <1>1, Zenon DEF Init
<1>3. QED
  BY <1>2, BoundIsNat DEF Init, TypeOK, Steps, Packages, Trees, Swapping

(* Every variable keeps its type, step by step.                            *)
LEMMA TypeStep == TypeOK /\ [Next]_vars => TypeOK'
<1> SUFFICES ASSUME TypeOK, [Next]_vars PROVE TypeOK'
  OBVIOUS
<1> USE BoundIsNat
<1> USE DEF TypeOK, Steps, Packages, Trees, pc, At, Goto, Stop, Swapping, Built, Fault
<1>1. CASE Update
  BY <1>1 DEF Update
<1>2. CASE IrFetch
  BY <1>2 DEF IrFetch
<1>3. CASE IrPatch
  BY <1>3 DEF IrPatch
<1>4. CASE WifiFetch
  BY <1>4 DEF WifiFetch
<1>5. CASE WifiPatch
  <2>0. faults' = faults \/ Fault
    BY <1>5, Zenon DEF WifiPatch
  <2>1. faults' \in 0 .. MaxFaults
    BY <2>0
  <2>2. stage' \in Trees /\ package' \in Packages /\ step' \in Steps /\ package' = "wifi"
    BY <1>5 DEF WifiPatch
  <2>3. UNCHANGED <<hasIR, swaps, tree, module, loaded>>
    BY <1>5 DEF WifiPatch
  <2>4. QED
    BY <2>1, <2>2, <2>3
<1>6. CASE RmTree
  BY <1>6 DEF RmTree
<1>7. CASE MvTree
  BY <1>7 DEF MvTree
<1>8. CASE \E p \in Packages : Remove(p)
  BY <1>8 DEF Remove
<1>9. CASE \E p \in Packages : Build(p)
  BY <1>9 DEF Build
<1>10. CASE Reboot
  BY <1>10 DEF Reboot
<1>11. CASE Interrupt
  BY <1>11 DEF Interrupt
<1>12. CASE UNCHANGED vars
  BY <1>12 DEF vars, pc
<1>13. QED
  BY <1>1, <1>2, <1>3, <1>4, <1>5, <1>6, <1>7, <1>8, <1>9, <1>10, <1>11, <1>12
  DEF Next, Script

(* Every variable keeps its type.                                          *)
THEOREM TypeCorrect == Spec => []TypeOK
  BY InitTyped, TypeStep, PTL DEF Spec

-----------------------------------------------------------------------------
(* The live tree is whole outside the swap, and what the swap moves in is  *)
(* whole: the archive is checked and patched before the live tree goes.    *)
LEMMA TreeStep ==
  ASSUME "other file" \notin Truncations
  PROVE  IInv /\ [Next]_vars => TreeKept'
<1> SUFFICES ASSUME IInv, [Next]_vars PROVE TreeKept'
  OBVIOUS
<1> USE BoundIsNat
<1> USE DEF IInv, TypeOK, TreeKept, Steps, Packages, Trees, pc, At, Goto, Stop, Swapping, Built
<1>1. CASE Update
  BY <1>1 DEF Update
<1>2. CASE IrFetch
  BY <1>2 DEF IrFetch, Fault
<1>3. CASE IrPatch
  BY <1>3 DEF IrPatch
<1>4. CASE WifiFetch
  BY <1>4 DEF WifiFetch
<1>5. CASE WifiPatch
  BY <1>5 DEF WifiPatch
<1>6. CASE RmTree
  BY <1>6 DEF RmTree
<1>7. CASE MvTree
  BY <1>7 DEF MvTree
<1>8. CASE \E p \in Packages : Remove(p)
  BY <1>8 DEF Remove
<1>9. CASE \E p \in Packages : Build(p)
  BY <1>9 DEF Build
<1>10. CASE Reboot
  BY <1>10 DEF Reboot
<1>11. CASE Interrupt
  BY <1>11 DEF Interrupt
<1>12. CASE UNCHANGED vars
  BY <1>12 DEF vars, pc
<1>13. QED
  BY <1>1, <1>2, <1>3, <1>4, <1>5, <1>6, <1>7, <1>8, <1>9, <1>10, <1>11, <1>12
  DEF Next, Script

(* If a truncated archive lacks something the script checks or patches,    *)
(* the box never loses both the wifi module and a tree it can be rebuilt   *)
(* from, whatever fetch, build or power failure the update meets, as long  *)
(* as no interruption falls inside the swap.                               *)
THEOREM DriverRebuildable ==
  ASSUME "other file" \notin Truncations
  PROVE  Spec => []Rebuildable
<1>1. Init => IInv
  <2>1. Init => TypeOK
    BY InitTyped
  <2>2. Init => TreeKept
    BY DEF Init, TreeKept, Packages, Swapping, At
  <2>3. QED
    BY <2>1, <2>2 DEF IInv
<1>2. IInv /\ [Next]_vars => IInv'
  BY TypeStep, TreeStep DEF IInv
<1>3. IInv => Rebuildable
  BY DEF IInv, TreeKept, Rebuildable
<1>4. QED
  BY <1>1, <1>2, <1>3, PTL DEF Spec

-----------------------------------------------------------------------------
(* What a build of the receiver's package finds: the update ends when its  *)
(* fetch fails, so the tree is whole again by the time dkms runs.          *)
IrWhole == package = "ir" /\ step \in {"remove", "build"} => tree["ir"] = "whole"

(* Every step keeps it.                                                    *)
LEMMA IrStep == TypeOK /\ IrWhole /\ [Next]_vars => IrWhole'
<1> SUFFICES ASSUME TypeOK, IrWhole, [Next]_vars PROVE IrWhole'
  OBVIOUS
<1> USE DEF TypeOK, IrWhole, Packages, Steps, pc, At, Goto, Stop, Swapping
<1>1. CASE Update
  BY <1>1 DEF Update
<1>2. CASE IrFetch
  BY <1>2 DEF IrFetch
<1>3. CASE IrPatch
  BY <1>3 DEF IrPatch
<1>4. CASE WifiFetch
  BY <1>4 DEF WifiFetch
<1>5. CASE WifiPatch
  BY <1>5 DEF WifiPatch
<1>6. CASE RmTree
  BY <1>6 DEF RmTree
<1>7. CASE MvTree
  BY <1>7 DEF MvTree
<1>8. CASE \E p \in Packages : Remove(p)
  BY <1>8 DEF Remove
<1>9. CASE \E p \in Packages : Build(p)
  BY <1>9 DEF Build
<1>10. CASE Reboot
  BY <1>10 DEF Reboot
<1>11. CASE Interrupt
  BY <1>11 DEF Interrupt
<1>12. CASE UNCHANGED vars
  BY <1>12 DEF vars, pc
<1>13. QED
  BY <1>1, <1>2, <1>3, <1>4, <1>5, <1>6, <1>7, <1>8, <1>9, <1>10, <1>11, <1>12
  DEF Next, Script

(* Under the same condition, the swap interrupted or not, no module is     *)
(* ever installed from a tree that is unpatched or lacks files.            *)
THEOREM NothingPartialInstalled ==
  ASSUME "other file" \notin Truncations
  PROVE  Spec => OnlyWholeTreesBuilt
<1> DEFINE Inv == IInv /\ IrWhole
<1> DEFINE Only == \A p \in Packages :
                     module'[p] # module[p] =>
                       module'[p] \in {"none", "whole"} \/ (p = "wifi" /\ swaps = "cut" /\ module'[p] = "part")
<1>1. Init => Inv
  <2>1. Init => TypeOK
    BY InitTyped
  <2>2. Init => TreeKept
    BY DEF Init, TreeKept, Packages, Swapping, At
  <2>3. Init => IrWhole
    BY DEF Init, IrWhole, Packages
  <2>4. QED
    BY <2>1, <2>2, <2>3 DEF IInv
<1>2. Inv /\ [Next]_vars => Inv'
  BY TypeStep, TreeStep, IrStep DEF IInv
<1>3. Inv /\ [Next]_vars => [Only]_vars
  <2> SUFFICES ASSUME Inv, Next PROVE Only
    BY DEF vars
  <2> USE DEF IInv, TypeOK, TreeKept, IrWhole, Packages, Swapping, At, Built
  <2>1. CASE UNCHANGED module
    BY <2>1
  <2>2. CASE \E p \in Packages : Remove(p)
    BY <2>2 DEF Remove
  <2>3. CASE \E p \in Packages : Build(p)
    <3>1. PICK p \in Packages : Build(p)
      BY <2>3
    <3>2. module' = module \/ (tree[p] # "none" /\ module' = [module EXCEPT ![p] = tree[p]])
      BY <3>1 DEF Build
    <3>3. package = p /\ step = "build"
      BY <3>1 DEF Build
    <3>4. tree[p] \in {"none", "whole"} \/ (p = "wifi" /\ swaps = "cut" /\ tree[p] = "part")
      BY <3>3 DEF Trees
    <3>5. QED
      BY <3>2, <3>4
  <2>4. QED
    BY <2>1, <2>2, <2>3 DEF Next, Script, Update, IrFetch, IrPatch, WifiFetch,
      WifiPatch, RmTree, MvTree, Reboot, Interrupt
<1>4. QED
  BY <1>1, <1>2, <1>3, PTL DEF Spec, OnlyWholeTreesBuilt
=============================================================================
