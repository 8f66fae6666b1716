------------------------------ MODULE DkmsTrees ------------------------------
(***************************************************************************)
(* The DKMS drivers of a box: their source trees under /usr/src, the       *)
(* modules built from them, and the part of rk35xx-update that refetches   *)
(* the sources and rebuilds ([2/6]).  Two packages: "ir", the remote       *)
(* receiver, fetched file by file into the live tree, and "wifi", the      *)
(* Seekwave driver, fetched beside the live tree and swapped in.  On a box *)
(* with no cable the wifi module is what the next fetch depends on.        *)
(*                                                                         *)
(* A tree is "whole" (complete and patched), "raw" (complete, unpatched),  *)
(* "part" (files missing) or "none".  A module carries the name of the     *)
(* tree it was built from.                                                 *)
(***************************************************************************)
EXTENDS Naturals

CONSTANTS
  ShipsIR,      \* whether the board's payload has the IR driver's dkms.conf
  Wired,        \* the box has a network of its own besides wifi
  Truncations,  \* what a truncated archive can lack with tar still exiting 0
  MaxFaults     \* bound on interruptions and on fetches and builds that fail

ASSUME TreeAssumption ==
  /\ ShipsIR \subseteq BOOLEAN /\ Wired \in BOOLEAN
  /\ Truncations \subseteq {"dkms.conf", "patched file", "other file"}
  /\ MaxFaults \in Nat

VARIABLES
  hasIR,   \* the board at hand has both drivers
  tree,    \* per package, the tree under /usr/src
  stage,   \* $NEW of fetch-seekwave-src.sh
  module,  \* per package, what /lib/modules holds for the running kernel
  loaded,  \* the wifi module the running kernel has in use
  package, \* the package the running update is at
  step,    \* and what it does next to it, "idle" outside an update
  swaps,   \* "cut" from an interruption between rm -rf and mv to the next swap
  faults

pc   == <<package, step>>
vars == <<hasIR, tree, stage, module, loaded, pc, swaps, faults>>

Packages == {"ir", "wifi"}
Trees    == {"none", "part", "raw", "whole"}
Steps    == {"idle", "fetch", "patch", "rm", "mv", "remove", "build"}
Built    == {"raw", "whole"}   \* the trees that are sure to build

At(p, s)   == package = p /\ step = s
Goto(p, s) == package' = p /\ step' = s
Stop       == Goto("ir", "idle")
Swapping   == step \in {"rm", "mv"}

\* a driver built from a torn tree may work or not
Online    == Wired \/ loaded = "whole"
MayFetch  == Wired \/ loaded # "none"
Fault  == faults < MaxFaults /\ faults' = faults + 1

\* the image stages whole trees and first boot builds them
Init ==
  /\ hasIR \in ShipsIR
  /\ tree = [p \in Packages |-> "whole"]
  /\ module = [p \in Packages |-> "whole"]
  /\ stage = "none" /\ loaded = "whole"
  /\ package = "ir" /\ step = "idle" /\ swaps = "whole" /\ faults = 0

-----------------------------------------------------------------------------
Update ==
  /\ step = "idle"
  /\ Goto(IF hasIR THEN "ir" ELSE "wifi", "fetch")
  /\ UNCHANGED <<hasIR, swaps, tree, stage, module, loaded, faults>>

(* fetch-dkms-src.sh: curl writes the two files over the live tree, then   *)
(* the patch goes on.  A curl that fails ends the update (set -e); one     *)
(* that cannot connect has written nothing.                                *)

\* a variant whose caller carries on, as the wifi loop does
IrFetchCarryOn ==
  /\ At("ir", "fetch")
  /\ \/ /\ Online
        /\ tree' = [tree EXCEPT !["ir"] = "raw"]
        /\ Goto("ir", "patch")
        /\ UNCHANGED faults
     \/ /\ IF Online
           THEN Fault /\ \E t \in {"raw", "part"} : tree' = [tree EXCEPT !["ir"] = t]
           ELSE UNCHANGED <<tree, faults>>
        /\ Goto("ir", "remove")
  /\ UNCHANGED <<hasIR, swaps, stage, module, loaded>>

IrFetch ==
  /\ At("ir", "fetch")
  /\ \/ /\ MayFetch
        /\ tree' = [tree EXCEPT !["ir"] = "raw"]
        /\ Goto("ir", "patch")
        /\ UNCHANGED faults
     \/ /\ MayFetch
        /\ Fault
        /\ \E t \in {tree["ir"], "raw", "part"} : tree' = [tree EXCEPT !["ir"] = t]
        /\ Stop
     \/ /\ ~Online
        /\ Stop
        /\ UNCHANGED <<tree, faults>>
  /\ UNCHANGED <<hasIR, swaps, stage, module, loaded>>

\* a variant that stages and swaps the IR tree too
IrPatchSwapping ==
  /\ At("ir", "patch")
  /\ stage' = "whole"
  /\ Goto("ir", "rm")
  /\ UNCHANGED <<hasIR, swaps, tree, module, loaded, faults>>

\* a patch that does not apply ends the update too
IrPatch ==
  /\ At("ir", "patch")
  /\ \/ tree' = [tree EXCEPT !["ir"] = "whole"] /\ Goto("ir", "remove") /\ UNCHANGED faults
     \/ Fault /\ Stop /\ UNCHANGED tree
  /\ UNCHANGED <<hasIR, swaps, stage, module, loaded>>

(* fetch-seekwave-src.sh: extract beside the live tree, check, patch, and  *)
(* only then swap.  Any failure removes $NEW and leaves the live tree; the *)
(* caller carries on with that one.                                        *)

\* a variant whose caller has no "|| echo" and dies with the fetch
WifiFetchOrDie ==
  /\ At("wifi", "fetch")
  /\ \/ Online /\ stage' = "raw" /\ Goto("wifi", "patch") /\ UNCHANGED faults
     \/ /\ IF Online THEN Fault ELSE UNCHANGED faults
        /\ stage' = "none" /\ Stop
  /\ UNCHANGED <<hasIR, swaps, tree, module, loaded>>

WifiFetch ==
  /\ At("wifi", "fetch")
  /\ \/ MayFetch /\ stage' = "raw" /\ Goto("wifi", "patch") /\ UNCHANGED faults
     \/ /\ MayFetch /\ Fault
        /\ \E lost \in Truncations :
             IF lost = "dkms.conf" THEN stage' = "none" /\ Goto("wifi", "remove")
                                   ELSE stage' = "part" /\ Goto("wifi", "patch")
     \/ /\ IF Online THEN Fault ELSE UNCHANGED faults
        /\ stage' = "none" /\ Goto("wifi", "remove")
  /\ UNCHANGED <<hasIR, swaps, tree, module, loaded>>

\* a variant that does not stop at a patch that fails
WifiPatchRegardless ==
  /\ At("wifi", "patch")
  /\ stage' = IF stage = "raw" THEN "whole" ELSE stage
  /\ Goto("wifi", "rm")
  /\ UNCHANGED <<hasIR, swaps, tree, module, loaded, faults>>

\* a patch does not apply, for one when the file it patches is the one the
\* archive lacks
WifiPatch ==
  /\ At("wifi", "patch")
  /\ \/ stage = "raw" /\ stage' = "whole" /\ Goto("wifi", "rm") /\ UNCHANGED faults
     \/ stage = "raw" /\ Fault /\ stage' = "none" /\ Goto("wifi", "remove")
     \/ stage = "part" /\ "patched file" \in Truncations /\ UNCHANGED faults
          /\ stage' = "none" /\ Goto("wifi", "remove")
     \/ stage = "part" /\ "other file" \in Truncations /\ UNCHANGED faults
          /\ stage' = "part" /\ Goto("wifi", "rm")
  /\ UNCHANGED <<hasIR, swaps, tree, module, loaded>>

\* rm -rf "$DIR", file by file
RmTree ==
  /\ At("wifi", "rm")
  /\ \/ tree["wifi"] # "part" /\ tree' = [tree EXCEPT !["wifi"] = "part"] /\ UNCHANGED pc
     \/ tree' = [tree EXCEPT !["wifi"] = "none"] /\ Goto("wifi", "mv")
  /\ UNCHANGED <<hasIR, swaps, stage, module, loaded, faults>>

\* mv "$NEW" "$DIR"
MvTree ==
  /\ At("wifi", "mv")
  /\ tree' = [tree EXCEPT !["wifi"] = stage]
  /\ stage' = "none" /\ swaps' = "whole"
  /\ Goto("wifi", "remove")
  /\ UNCHANGED <<hasIR, module, loaded, faults>>

(* dkms_rebuild: the old module goes before the new one is built, and a    *)
(* step that fails ends the package, not the update.  The kernel keeps the *)
(* module it has loaded.                                                   *)
Remove(p) ==
  /\ At(p, "remove")
  /\ module' = [module EXCEPT ![p] = "none"]
  /\ Goto(p, "build")
  /\ UNCHANGED <<hasIR, swaps, tree, stage, loaded, faults>>

\* a torn tree builds if the build does not need what it lacks
Build(p) ==
  /\ At(p, "build")
  /\ \/ /\ tree[p] # "none"
        /\ module' = [module EXCEPT ![p] = tree[p]]
        /\ UNCHANGED faults
     \/ /\ IF tree[p] \in Built THEN Fault ELSE UNCHANGED faults
        /\ UNCHANGED module
  /\ IF p = "ir" THEN Goto("wifi", "fetch") ELSE Stop
  /\ UNCHANGED <<hasIR, swaps, tree, stage, loaded>>

-----------------------------------------------------------------------------
\* modules-load: what is installed is what the next boot has
Reboot ==
  /\ step = "idle"
  /\ loaded' = module["wifi"]
  /\ UNCHANGED <<hasIR, swaps, tree, stage, module, pc, faults>>

\* the power fails, or the session the update runs in goes away; the EXIT trap
\* may not get to remove $NEW
Interrupt ==
  /\ step # "idle"
  /\ Fault
  /\ swaps' = IF Swapping THEN "cut" ELSE swaps
  /\ loaded' \in {loaded, module["wifi"]}
  /\ stage' \in {stage, "none"}
  /\ Stop
  /\ UNCHANGED <<hasIR, tree, module>>

Script ==
  \/ IrFetch \/ IrPatch
  \/ WifiFetch \/ WifiPatch \/ RmTree \/ MvTree
  \/ \E p \in Packages : Remove(p) \/ Build(p)

Next == Update \/ Script \/ Reboot \/ Interrupt

Spec == Init /\ [][Next]_vars

\* a running update goes on, and the operator of a box without its driver runs
\* it again
FairSpec == Spec /\ WF_vars(Script) /\ WF_vars(Update)

-----------------------------------------------------------------------------
TypeOK ==
  /\ hasIR \in BOOLEAN
  /\ tree \in [Packages -> Trees]
  /\ module \in [Packages -> Trees]
  /\ stage \in Trees
  /\ loaded \in Trees
  /\ package \in Packages /\ step \in Steps
  /\ package = "ir" => ~Swapping
  /\ swaps \in {"whole", "cut"}
  /\ faults \in 0 .. MaxFaults

\* the box always has the wifi driver or what it takes to build it: whatever
\* fetch or build fails, the module is removed only over a tree that is whole;
\* only an interruption of the swap itself can take both away, until the next swap
Rebuildable ==
  swaps = "whole" =>
    module["wifi"] = "whole" \/ tree["wifi"] = "whole" \/ Swapping

\* the update installs no module from a tree that is unpatched or incomplete,
\* whichever fetch or patch failed half-way before it, unless it is the tree that
\* an interruption of the swap left torn
OnlyWholeTreesBuilt ==
  [][\A p \in Packages :
       module'[p] # module[p] =>
         module'[p] \in {"none", "whole"} \/ (p = "wifi" /\ swaps = "cut" /\ module'[p] = "part")]_vars

\* a box that lost its driver, and with it its network, gets it back from the
\* tree it has when the update is run again, the swap never having been cut
DriverComesBack ==
  [](swaps = "whole") => (module["wifi"] = "none" ~> module["wifi"] = "whole")

\* ... on a board whose only driver it is
OnlyDriverComesBack == ~hasIR => DriverComesBack

-----------------------------------------------------------------------------
(* The inductive invariant behind Rebuildable.                             *)
TreeKept ==
  /\ ~Swapping /\ swaps = "whole" => tree["wifi"] = "whole"
  /\ tree["wifi"] # "raw"
  /\ Swapping => stage = "whole"
  /\ At("wifi", "patch") => stage \in {"raw", "part"}

IInv == TypeOK /\ TreeKept
=============================================================================
