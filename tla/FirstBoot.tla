------------------------------ MODULE FirstBoot ------------------------------
(***************************************************************************)
(* rk35xx-firstboot, run by its service on every boot until a run has      *)
(* succeeded: prepare the board, hold the u-boot package, build every      *)
(* staged DKMS package.  A package upgrade of u-boot that finds no hold    *)
(* writes the loaders of another board, which this DRAM cannot run.        *)
(***************************************************************************)
EXTENDS Naturals

CONSTANTS
  Packages,  \* staged under /usr/src with a dkms.conf
  Provided,  \* those whose module the kernel already has
  Conflict,  \* those the board's own script removes
  MaxFaults  \* bound on power cuts and on steps that fail

ASSUME FirstBootAssumption ==
  /\ Provided \subseteq Packages /\ Conflict \subseteq Packages
  /\ MaxFaults \in Nat

VARIABLES
  held,    \* the hold on linux-u-boot-*
  loaders, \* whose loaders are on the eMMC
  listed,  \* the conflicting packages dpkg -l shows as installed (^ii)
  built,   \* per package, what dkms has of it
  done,    \* /var/lib/rk35xx-firstboot.done
  pc,      \* the step of the run, "off" before it and "over" after it
  todo,    \* the packages the loop still has in front of it
  current, \* the package it is at
  missed,  \* what has gone wrong so far without ending a run
  faults

disk == <<held, loaders, listed, built, done>>
run  == <<pc, todo, current>>
vars == <<disk, run, missed, faults>>

Idle   == {"off", "over"}
Wanted == Packages \ (Provided \cup Conflict)
Fault  == faults < MaxFaults /\ faults' = faults + 1

\* apt-mark failed, say for a lock another apt holds; a build or an install that
\* could have succeeded failed; u-boot was upgraded before first boot was done; a
\* removal that had begun left its package under /usr/src
Missed  == {"hold", "build", "early", "removal"}
Miss(m) == Fault /\ missed' = missed \cup {m}

\* a package is "removed", "staged", "torn" (a build cut short left its files),
\* "built" or "installed"
Init ==
  /\ held = FALSE /\ loaders = "board"
  /\ listed = Conflict
  /\ built = [p \in Packages |-> "staged"]
  /\ done = FALSE
  /\ pc = "off" /\ todo = {} /\ current \in Packages
  /\ missed = {} /\ faults = 0

-----------------------------------------------------------------------------
(* rk35xx-firstboot                                                        *)

\* a variant that prepares the board last
StartAtHold ==
  /\ pc = "off" /\ ~done
  /\ pc' = "hold"
  /\ UNCHANGED <<disk, todo, current, missed, faults>>

\* ConditionPathExists=!/var/lib/rk35xx-firstboot.done
Start ==
  /\ pc = "off"
  /\ pc' = IF done THEN "over" ELSE "board"
  /\ UNCHANGED <<disk, todo, current, missed, faults>>

\* the removals that have begun are no longer ^ii (dpkg has them at rF, rH or rc);
\* those that have gone took their files under /usr/src with them
Remove(begun, gone) ==
  /\ listed' = listed \ begun
  /\ built' = [p \in Packages |-> IF p \in gone THEN "removed" ELSE built[p]]
  /\ missed' = IF begun = gone THEN missed ELSE missed \cup {"removal"}

\* apt or the power stops somewhere in them
TearRemoval == \E begun \in SUBSET listed : \E gone \in SUBSET begun : Remove(begun, gone)

\* rk35xx-firstboot-board removes what is listed, and nothing that is not; its
\* failure ends the run (set -e)
PrepareBoard ==
  /\ pc = "board"
  /\ \/ Remove(listed, listed) /\ pc' = "hold" /\ UNCHANGED faults
     \/ Fault /\ TearRemoval /\ pc' = "over"
  /\ UNCHANGED <<held, loaders, done, todo, current>>

\* a variant that goes on to the drivers first
HoldNothing ==
  /\ pc = "hold"
  /\ pc' = "loop" /\ todo' = {p \in Packages : built[p] # "removed"}
  /\ UNCHANGED <<disk, current, missed, faults>>

\* apt-mark hold ... || true
Hold ==
  /\ pc = "hold"
  /\ \/ held' = TRUE /\ UNCHANGED <<missed, faults>>
     \/ Miss("hold") /\ UNCHANGED held
  /\ pc' = "loop" /\ todo' = {p \in Packages : built[p] # "removed"}
  /\ UNCHANGED <<loaders, listed, built, done, current>>

Skip ==
  /\ pc = "loop"
  /\ \E p \in todo :
       /\ built[p] = "installed" \/ p \in Provided
       /\ todo' = todo \ {p}
  /\ UNCHANGED <<disk, pc, current, missed, faults>>

\* a variant without the dkms remove --all
AddOnly ==
  /\ pc = "loop"
  /\ \E p \in todo :
       /\ built[p] # "installed" /\ p \notin Provided
       /\ current' = p
  /\ pc' = "build"
  /\ UNCHANGED <<disk, todo, missed, faults>>

\* dkms remove --all, dkms add
AddFresh ==
  /\ pc = "loop"
  /\ \E p \in todo :
       /\ built[p] # "installed" /\ p \notin Provided
       /\ current' = p /\ built' = [built EXCEPT ![p] = "staged"]
  /\ pc' = "build"
  /\ UNCHANGED <<held, loaders, listed, done, todo, missed, faults>>

\* the rest of the loop's body for this package is skipped
GiveUp == pc' = "loop" /\ todo' = todo \ {current}

Build ==
  /\ pc = "build"
  /\ \/ /\ built[current] = "staged"
        /\ built' = [built EXCEPT ![current] = "built"]
        /\ pc' = "install" /\ UNCHANGED <<todo, missed, faults>>
     \/ /\ IF built[current] = "staged" THEN Miss("build")
                                     ELSE UNCHANGED <<missed, faults>>
        /\ built' = [built EXCEPT ![current] = "torn"]
        /\ GiveUp
  /\ UNCHANGED <<held, loaders, listed, done, current>>

\* a variant that leaves the loop behind the first package
InstallOne ==
  /\ pc = "install"
  /\ built' = [built EXCEPT ![current] = "installed"]
  /\ pc' = "depmod"
  /\ UNCHANGED <<held, loaders, listed, done, todo, current, missed, faults>>

Install ==
  /\ pc = "install"
  /\ \/ built' = [built EXCEPT ![current] = "installed"] /\ UNCHANGED <<missed, faults>>
     \/ Miss("build") /\ UNCHANGED built
  /\ GiveUp
  /\ UNCHANGED <<held, loaders, listed, done, current>>

\* depmod -a; a failure ends the run
Depmod ==
  /\ pc = "loop" /\ todo = {}
  /\ \/ pc' = "mark" /\ UNCHANGED faults
     \/ Fault /\ pc' = "over"
  /\ UNCHANGED <<disk, todo, current, missed>>

\* ExecStartPost
MarkDone ==
  /\ pc = "mark"
  /\ done' = TRUE /\ pc' = "over"
  /\ UNCHANGED <<held, loaders, listed, built, todo, current, missed, faults>>

-----------------------------------------------------------------------------
(* The box                                                                 *)

Reboot ==
  /\ pc = "over"
  /\ pc' = "off"
  /\ UNCHANGED <<disk, todo, current, missed, faults>>

\* what is being written is torn, and a done file just created may be lost
PowerCut ==
  /\ pc # "off"
  /\ Fault
  /\ pc' = "off" /\ todo' = {}
  /\ \/ pc = "board" /\ TearRemoval
     \/ /\ pc \in {"build", "install"} /\ built' = [built EXCEPT ![current] = "torn"]
        /\ UNCHANGED <<listed, missed>>
     \/ pc \notin {"board", "build", "install"} /\ UNCHANGED <<listed, built, missed>>
  /\ done' \in {FALSE, done}
  /\ UNCHANGED <<held, loaders, current>>

\* apt upgrades linux-u-boot-*, and its postinst flashes the ROCK 2F loaders
UpgradeUboot ==
  /\ ~held
  /\ loaders' = "ROCK 2F"
  /\ missed' = IF done THEN missed ELSE missed \cup {"early"}
  /\ UNCHANGED <<held, listed, built, done, run, faults>>

Script ==
  \/ Start \/ PrepareBoard \/ Hold
  \/ Skip \/ AddFresh \/ Build \/ Install
  \/ Depmod \/ MarkDone

Next == Script \/ Reboot \/ PowerCut \/ UpgradeUboot

Spec == Init /\ [][Next]_vars

\* a run that has begun goes on, and a box whose first boot failed is booted
\* again
FairSpec == Spec /\ WF_vars(Script) /\ WF_vars(~done /\ Reboot)

-----------------------------------------------------------------------------
TypeOK ==
  /\ held \in BOOLEAN /\ done \in BOOLEAN
  /\ loaders \in {"board", "ROCK 2F"} /\ listed \in SUBSET Packages
  /\ built \in [Packages -> {"removed", "staged", "torn", "built", "installed"}]
  /\ pc \in Idle \cup {"board", "hold", "loop", "build", "install", "mark"}
  /\ todo \in SUBSET Packages /\ current \in Packages
  /\ missed \in SUBSET Missed
  /\ faults \in 0 .. MaxFaults

\* no upgrade made after first boot replaces the loaders: power cuts and failed
\* runs leave no done file over a package that is not held, unless apt-mark fails
LoadersIntact == missed \cap {"hold", "early"} = {} => loaders = "board"

\* a package the board's script removes is never built, on any retry, unless a
\* removal was torn: the retry no longer finds it listed, and leaves it to the loop
ConflictNeverBuilt ==
  "removal" \notin missed => \A p \in Conflict : built[p] \notin {"built", "installed"}

\* a box that is booted often enough gets all its drivers, whatever power cut
\* left a build half-way
DriversGetBuilt ==
  []("build" \notin missed) =>
    <>[](done /\ \A p \in Wanted : built[p] = "installed")

-----------------------------------------------------------------------------
(* The inductive invariant behind LoadersIntact.                           *)
IInv ==
  missed \cap {"hold", "early"} = {} =>
    /\ loaders = "board"
    /\ done => held
    /\ pc \in {"loop", "build", "install", "mark"} => held
=============================================================================
