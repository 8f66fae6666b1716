----------------------------- MODULE DeviceTree -----------------------------
(***************************************************************************)
(* How a board's device tree gets from the repository into the kernel that *)
(* runs.  rk35xx-update installs it as $SHARE/board.dtb, copies that into  *)
(* the directory of the running kernel and decides about a reboot by       *)
(* comparing board.dtb with what it was when the run began.  A kernel      *)
(* upgrade brings a directory of stock trees and the postinst hook         *)
(* rk35xx-dtb-persist copies board.dtb over it.  A reboot goes to the      *)
(* kernel that was installed last.                                         *)
(***************************************************************************)
EXTENDS Naturals

CONSTANTS
  Kernels,     \* kernel versions
  Trees,       \* the revisions of the board's tree
  Stock,       \* what a kernel package ships under the board's name
  NoTree,      \* no directory: the kernel was never unpacked
  MaxAborts,   \* bound on updates that die half-way
  MaxUpgrades, \* bound on kernel upgrades
  MaxRevisions \* bound on new revisions

ASSUME TreeAssumption ==
  /\ Stock \notin Trees /\ NoTree \notin Trees \cup {Stock}
  /\ MaxAborts \in Nat /\ MaxUpgrades \in Nat /\ MaxRevisions \in Nat

VARIABLES
  repo,      \* the tree in the checkout
  share,     \* $SHARE/board.dtb
  boot,      \* per kernel, the tree in /boot/dtb-<kernel>
  running,   \* uname -r
  live,      \* the tree the running kernel was given
  default,   \* the kernel the next boot takes
  pending,   \* kernels unpacked and not yet configured
  pc,        \* the step the running update is at, "idle" outside one
  old,       \* OLD_DTB
  said,      \* what the last update that got to its end said of a reboot
  strays,    \* what has happened so far that an update does not provide for
  aborts, upgrades, revisions   \* how many so far

files  == <<share, boot>>
kernel == <<running, live, default, pending>>
update == <<pc, old, said>>
bounds == <<aborts, upgrades, revisions>>
vars   == <<repo, files, kernel, update, strays, bounds>>

\* a run that died; a reboot turned down; an update or a reboot in the middle of
\* a kernel upgrade; an update before the first boot of an upgraded kernel
Strays == {"aborted", "declined", "unfinished", "unbooted"}
Stray(s, cond) == IF cond THEN {s} ELSE {}

\* the image holds one kernel and the board's tree in both places
Init ==
  /\ repo \in Trees /\ share = repo
  /\ running \in Kernels /\ default = running
  /\ boot = [k \in Kernels |-> IF k = running THEN share ELSE NoTree]
  /\ live = share
  /\ pending = {}
  /\ pc = "idle" /\ old = share /\ said = "nothing"
  /\ strays = {} /\ aborts = 0 /\ upgrades = 0 /\ revisions = 0

-----------------------------------------------------------------------------
(* rk35xx-update                                                           *)

\* a variant that takes OLD_DTB from the running kernel's directory
BeginFromBoot ==
  /\ pc = "idle"
  /\ pc' = "payload" /\ old' = boot[running] /\ said' = "nothing"
  /\ UNCHANGED <<repo, files, kernel, strays, bounds>>

\* OLD_DTB is what board.dtb is before the payload is installed
Begin ==
  /\ pc = "idle"
  /\ pc' = "payload" /\ old' = share /\ said' = "nothing"
  /\ strays' = strays \cup Stray("unfinished", pending # {})
                     \cup Stray("unbooted", running # default)
  /\ UNCHANGED <<repo, files, kernel, bounds>>

\* a variant that takes OLD_DTB behind the payload
InstallPayloadFirst ==
  /\ pc = "payload"
  /\ share' = repo /\ old' = repo
  /\ pc' = "drivers"
  /\ UNCHANGED <<repo, boot, kernel, said, strays, bounds>>

\* board.dtb is staged and moved into place: the old one or the new one
InstallPayload ==
  /\ pc = "payload"
  /\ share' = repo
  /\ pc' = "drivers"
  /\ UNCHANGED <<repo, boot, kernel, old, said, strays, bounds>>

\* [2/6] touches no tree, but fetches from the network and may end the run
RebuildDrivers ==
  /\ pc = "drivers"
  /\ pc' = "persist"
  /\ UNCHANGED <<repo, files, kernel, old, said, strays, bounds>>

\* a variant that ignores the version it is called with
PersistRunning(k) == boot' = [boot EXCEPT ![running] = share]

\* rk35xx-dtb-persist; it exits early without a version, a board.dtb or an
\* fdtfile, but both callers name the version, every payload has a board.dtb and
\* the builder writes fdtfile, which nothing takes away
Persist(k) == boot' = [boot EXCEPT ![k] = share]

\* a variant that leaves the running kernel to the postinst hook
SkipTree ==
  /\ pc = "persist"
  /\ pc' = "verdict"
  /\ UNCHANGED <<repo, files, kernel, old, said, strays, bounds>>

InstallTree ==
  /\ pc = "persist"
  /\ Persist(running)
  /\ pc' = "verdict"
  /\ UNCHANGED <<repo, share, kernel, old, said, strays, bounds>>

\* set -e: whatever the run has done so far stays
Abort ==
  /\ pc # "idle"
  /\ aborts < MaxAborts /\ aborts' = aborts + 1
  /\ pc' = "idle"
  /\ strays' = strays \cup {"aborted"}
  /\ UNCHANGED <<repo, files, kernel, old, said, upgrades, revisions>>

NotNeeded ==
  /\ pc = "verdict" /\ old = share
  /\ pc' = "idle" /\ said' = "not needed"
  /\ UNCHANGED <<repo, files, kernel, old, strays, bounds>>

Boot ==
  /\ running' = default /\ live' = boot[default]
  /\ UNCHANGED <<repo, files, default, pending, old, upgrades, revisions>>

\* --reboot, or a "y"
RebootToLoad ==
  /\ pc = "verdict" /\ old # share
  /\ pc' = "idle" /\ said' = "required"
  /\ Boot /\ UNCHANGED <<strays, aborts>>

\* --no-reboot, or anything but a "y"
LeaveReboot ==
  /\ pc = "verdict" /\ old # share
  /\ pc' = "idle" /\ said' = "required"
  /\ strays' = strays \cup {"declined"}
  /\ UNCHANGED <<repo, files, kernel, old, bounds>>

-----------------------------------------------------------------------------
(* The repository, apt and the power button                                *)

NewRevision ==
  /\ pc = "idle"
  /\ revisions < MaxRevisions /\ revisions' = revisions + 1
  /\ repo' \in Trees \ {repo}
  /\ UNCHANGED <<files, kernel, update, strays, aborts, upgrades>>

\* a kernel package, a new version or the running one again
Unpack ==
  /\ upgrades < MaxUpgrades /\ upgrades' = upgrades + 1
  /\ strays' = strays \cup Stray("unfinished", pc # "idle")
  /\ \E k \in Kernels :
       /\ boot' = [boot EXCEPT ![k] = Stock]
       /\ pending' = pending \cup {k}
  /\ UNCHANGED <<repo, share, running, live, default, update, aborts, revisions>>

\* postinst: the hook, and the boot links to the new version
Configure ==
  \E k \in pending :
    /\ strays' = strays \cup Stray("unfinished", pc # "idle")
    /\ Persist(k)
    /\ pending' = pending \ {k} /\ default' = k
    /\ UNCHANGED <<repo, share, running, live, update, bounds>>

\* an operator's reboot, or a power cycle, in the middle of a run too
Restart ==
  /\ IF pc = "idle" THEN UNCHANGED aborts
                    ELSE aborts < MaxAborts /\ aborts' = aborts + 1
  /\ strays' = strays \cup Stray("aborted", pc # "idle")
                     \cup Stray("unfinished", pending # {})
  /\ Boot
  /\ pc' = "idle" /\ said' = "nothing"

Script ==
  \/ InstallPayload \/ RebuildDrivers \/ InstallTree
  \/ NotNeeded \/ RebootToLoad \/ LeaveReboot

Next ==
  \/ Begin \/ Script \/ Abort
  \/ NewRevision \/ Unpack \/ Configure \/ Restart

Spec == Init /\ [][Next]_vars

\* the update is run again, with --reboot, and a run that has begun goes on; a
\* kernel upgrade is finished and the new kernel booted
FairSpec ==
  /\ Spec
  /\ WF_vars(Begin) /\ WF_vars(Script)
  /\ WF_vars(Configure) /\ WF_vars(running # default /\ Restart)

-----------------------------------------------------------------------------
TypeOK ==
  /\ repo \in Trees /\ share \in Trees /\ old \in Trees
  /\ boot \in [Kernels -> Trees \cup {Stock, NoTree}]
  /\ running \in Kernels /\ default \in Kernels /\ boot[default] # NoTree
  /\ live \in Trees \cup {Stock}
  /\ pending \in SUBSET Kernels
  /\ pc \in {"idle", "payload", "drivers", "persist", "verdict"}
  /\ said \in {"nothing", "not needed", "required"}
  /\ strays \in SUBSET Strays
  /\ aborts \in 0 .. MaxAborts
  /\ upgrades \in 0 .. MaxUpgrades /\ revisions \in 0 .. MaxRevisions

\* every kernel that is installed boots with a tree of ours, whatever apt and an
\* update did to each other: a stock tree is left only where the postinst hook
\* has not run yet
OurTreesOnly ==
  /\ \A k \in Kernels \ pending : boot[k] # Stock
  /\ default \notin pending => boot[default] \in Trees

\* a run that ends with "no reboot needed" has left the installed tree where the
\* running kernel's next boot finds it, though earlier runs died half-way
NotNeededIsInstalled ==
  said = "not needed" /\ running \notin pending => boot[running] = share

\* ... and, if nothing has gone astray, is right: the tree it installed is the
\* one the kernel is running on
NotNeededIsTrue == said = "not needed" /\ strays = {} => live = share

\* "a reboot is required to load it": the reboot of an orderly update loads it
RebootLoads == [][RebootToLoad /\ strays = {} => live' = share]_vars

\* in the end the box runs on the tree of the checkout, if nothing goes astray
\* and the update is run whenever there is a new one
TreeTakesEffect == [](strays = {}) => <>[](live = repo)

\* ... and its reboot loads the tree though an upgraded kernel is what it boots
NewKernelLoads ==
  [][RebootToLoad /\ strays \subseteq {"unbooted"} => live' = share]_vars

-----------------------------------------------------------------------------
(* The inductive invariant behind NotNeededIsInstalled.                    *)

IInv ==
  /\ TypeOK
  /\ OurTreesOnly
  /\ NotNeededIsInstalled
  /\ pc = "verdict" /\ running \notin pending => boot[running] = share
  /\ said # "nothing" => pc = "idle"

\* and the one behind NotNeededIsTrue and RebootLoads: an orderly update begins
\* on the tree of board.dtb and stays on it until its reboot
Orderly ==
  strays = {} =>
    /\ pc # "idle" => pending = {} /\ running = default
    /\ pc \in {"idle", "payload"} => live = share
    /\ pc = "payload" => old = share
    /\ pc \in {"drivers", "persist", "verdict"} => live = old
    /\ pc \in {"idle", "payload", "verdict"} /\ default \notin pending =>
         boot[default] = share
=============================================================================
