---------------------------- MODULE KernelUpgrade ----------------------------
(***************************************************************************)
(* A kernel upgrade of a box whose network is a DKMS driver.  apt unpacks  *)
(* linux-image and linux-headers; the postinst of the image runs the hooks *)
(* in /etc/kernel/postinst.d by name: 00-rk35xx-kernel-prepare, which      *)
(* builds the headers' host tools, then dkms.  rk35xx-update may rebuild   *)
(* the driver at the same time, for the running kernel; on a board that    *)
(* ships the IR receiver's driver too, only behind that one's fetch.       *)
(* apt, dpkg and dkms are the environment: what the hook's comment and     *)
(* docs/apt-upgrade.md say of them.                                        *)
(***************************************************************************)
EXTENDS Naturals

CONSTANTS
  Kernels,
  ShipsIR,      \* whether the board's payload has the IR driver's dkms.conf
  MaxUpgrades,  \* bound on upgrades begun
  MaxFaults     \* bound on failures and power cuts

ASSUME UpgradeAssumption ==
  ShipsIR \subseteq BOOLEAN /\ MaxUpgrades \in Nat /\ MaxFaults \in Nat

VARIABLES
  image,     \* per kernel, how far its linux-image package is
  headers,   \* the same of linux-headers
  tools,     \* per kernel, the host tools in its headers' tree
  modules,   \* the kernels that have the driver
  added,     \* does dkms know the driver's source?
  lost,      \* the kernels whose driver went, or never came, in one of the ways below
  running,   \* uname -r
  default,   \* the kernel the next boot takes
  hasIR,     \* the board at hand ships the receiver's driver too
  online,    \* did the running kernel find its driver when it booted?
  at,        \* what apt and dpkg are at
  now,       \* the kernel they are at
  todo,      \* the packages apt has yet to unpack
  unmade,    \* has a make failed in this run of the hook?
  rebuild,   \* how far rk35xx-update is with [2/6]
  upgrades, faults

packages == <<image, headers>>
dkms     == <<modules, added, lost>>
boot     == <<running, default, online, hasIR>>
apt      == <<at, now, todo, unmade>>
bounds   == <<upgrades, faults>>
vars     == <<packages, tools, dkms, boot, apt, rebuild, bounds>>

Tools == {"fixdep", "modpost"}
Fault == faults < MaxFaults /\ faults' = faults + 1

\* the box as first boot leaves it
Init ==
  /\ running \in Kernels /\ default = running /\ online = TRUE
  /\ hasIR \in ShipsIR
  /\ image = [k \in Kernels |-> IF k = running THEN "configured" ELSE "absent"]
  /\ headers = image
  /\ tools = [k \in Kernels |-> IF k = running THEN Tools ELSE {}]
  /\ modules = {running} /\ added = TRUE /\ lost = {}
  /\ at = "idle" /\ now = running /\ todo = {} /\ unmade = FALSE
  /\ rebuild = "idle"
  /\ upgrades = 0 /\ faults = 0

-----------------------------------------------------------------------------
(* apt and dpkg                                                            *)

\* a new kernel, or a new package of one that is there
Upgrade ==
  /\ at = "idle" /\ online
  /\ upgrades < MaxUpgrades /\ upgrades' = upgrades + 1
  /\ now' \in Kernels
  /\ at' = "apt" /\ todo' = {"image", "headers"}
  /\ UNCHANGED <<packages, tools, dkms, boot, unmade, rebuild, faults>>

\* the headers an earlier run did not get to
Resume ==
  /\ at = "idle" /\ online
  /\ \E k \in Kernels :
       /\ image[k] # "absent" /\ headers[k] = "absent"
       /\ now' = k
  /\ at' = "apt" /\ todo' = {"headers"}
  /\ UNCHANGED <<packages, tools, dkms, boot, unmade, rebuild, bounds>>

\* dpkg leaves the tools of an earlier build where they are
Unpack ==
  /\ at = "apt"
  /\ \E p \in todo :
       /\ todo' = todo \ {p}
       /\ at' = IF todo' = {} THEN "idle" ELSE "apt"
       /\ image' = IF p = "image" THEN [image EXCEPT ![now] = "unpacked"] ELSE image
       /\ headers' = IF p = "headers" THEN [headers EXCEPT ![now] = "unpacked"] ELSE headers
  /\ UNCHANGED <<tools, dkms, boot, now, unmade, rebuild, bounds>>

\* a full /tmp: what was unpacked is for dpkg --configure -a
AptDies ==
  /\ at = "apt" /\ Fault
  /\ at' = "idle" /\ todo' = {}
  /\ UNCHANGED <<packages, tools, dkms, boot, now, unmade, rebuild, upgrades>>

\* the image's postinst begins with the hooks
ConfigureImage ==
  /\ at = "idle"
  /\ \E k \in Kernels : image[k] \in {"unpacked", "half"} /\ now' = k
  /\ at' = "prepare"
  /\ UNCHANGED <<packages, tools, dkms, boot, todo, unmade, rebuild, bounds>>

\* a variant that is not configured again once it failed
ConfigureHeadersOnce ==
  /\ at = "idle"
  /\ \E k \in Kernels :
       /\ headers[k] = "unpacked"
       /\ \/ /\ headers' = [headers EXCEPT ![k] = "configured"]
             /\ tools' = [tools EXCEPT ![k] = Tools]
             /\ UNCHANGED faults
          \/ Fault /\ headers' = [headers EXCEPT ![k] = "half"] /\ UNCHANGED tools
  /\ UNCHANGED <<image, dkms, boot, apt, rebuild, upgrades>>

\* the headers' postinst makes the tools too
ConfigureHeaders ==
  /\ at = "idle"
  /\ \E k \in Kernels :
       /\ headers[k] = "unpacked"
       /\ \/ /\ headers' = [headers EXCEPT ![k] = "configured"]
             /\ tools' = [tools EXCEPT ![k] = Tools]
             /\ UNCHANGED faults
          \/ Fault /\ UNCHANGED <<headers, tools>>
  /\ UNCHANGED <<image, dkms, boot, apt, rebuild, upgrades>>

-----------------------------------------------------------------------------
(* 00-rk35xx-kernel-prepare                                                *)

\* a variant that looks for one tool only
PrepareIfNoFixdep ==
  /\ at = "prepare"
  /\ at' = IF headers[now] = "absent" \/ "fixdep" \in tools[now] THEN "dkms" ELSE "scripts"
  /\ unmade' = FALSE
  /\ UNCHANGED <<packages, tools, dkms, boot, now, todo, rebuild, bounds>>

\* nothing to do without the headers' source, or with both tools built
Prepare ==
  /\ at = "prepare"
  /\ at' = IF headers[now] = "absent" \/ Tools \subseteq tools[now] THEN "dkms" ELSE "scripts"
  /\ unmade' = FALSE
  /\ UNCHANGED <<packages, tools, dkms, boot, now, todo, rebuild, bounds>>

\* a make that fails is only logged
MakeScripts ==
  /\ at = "scripts"
  /\ \/ tools' = [tools EXCEPT ![now] = @ \cup {"fixdep"}] /\ UNCHANGED <<unmade, faults>>
     \/ Fault /\ UNCHANGED tools /\ unmade' = TRUE
  /\ at' = "modpost"
  /\ UNCHANGED <<packages, dkms, boot, now, todo, rebuild, upgrades>>

\* modpost is compiled with fixdep
MakeModpost ==
  /\ at = "modpost"
  /\ \/ /\ "fixdep" \in tools[now]
        /\ tools' = [tools EXCEPT ![now] = @ \cup {"modpost"}] /\ UNCHANGED <<unmade, faults>>
     \/ "fixdep" \notin tools[now] /\ UNCHANGED <<tools, unmade, faults>>
     \/ Fault /\ UNCHANGED tools /\ unmade' = TRUE
  /\ at' = "dkms"
  /\ UNCHANGED <<packages, dkms, boot, now, todo, rebuild, upgrades>>

-----------------------------------------------------------------------------
(* dkms' own hook, and the end of the postinst                             *)

Configured ==
  /\ image' = [image EXCEPT ![now] = "configured"]
  /\ default' = now
  /\ at' = "idle"

HalfConfigured ==
  /\ image' = [image EXCEPT ![now] = "half"]
  /\ at' = "idle"
  /\ UNCHANGED default

\* the driver is there already, or dkms knows of none, or there are no headers
DkmsSkips ==
  /\ at = "dkms"
  /\ now \in modules \/ ~added \/ headers[now] = "absent"
  /\ lost' = IF now \in modules THEN lost ELSE lost \cup {now}
  /\ Configured
  /\ UNCHANGED <<headers, tools, modules, added, running, online, hasIR, now, todo, unmade, rebuild, bounds>>

\* what dkms makes of missing headers is its own affair
DkmsRefuses ==
  /\ at = "dkms"
  /\ now \notin modules /\ added /\ headers[now] = "absent"
  /\ Fault /\ HalfConfigured
  /\ UNCHANGED <<headers, tools, dkms, running, online, hasIR, now, todo, unmade, rebuild, upgrades>>

DkmsBegins ==
  /\ at = "dkms"
  /\ now \notin modules /\ added /\ headers[now] # "absent"
  /\ at' = "building"
  /\ UNCHANGED <<packages, tools, dkms, boot, now, todo, unmade, rebuild, bounds>>

\* a build dies without the tools, and when its source is removed underneath
DkmsEnds ==
  /\ at = "building"
  /\ \/ /\ added /\ Tools \subseteq tools[now]
        /\ modules' = modules \cup {now} /\ lost' = lost \ {now}
        /\ Configured /\ UNCHANGED faults
     \/ /\ IF added /\ Tools \subseteq tools[now] THEN Fault ELSE UNCHANGED faults
        /\ HalfConfigured /\ UNCHANGED <<modules, lost>>
  /\ UNCHANGED <<headers, tools, added, running, online, hasIR, now, todo, unmade, rebuild, upgrades>>

-----------------------------------------------------------------------------
(* rk35xx-update, [2/6]                                                    *)

\* on a board with a receiver its fetch comes first: one that fails, as it does
\* offline, ends the run before anything here has changed (set -e)
Fetch ==
  /\ rebuild = "idle"
  /\ hasIR => online
  /\ rebuild' = "remove"
  /\ UNCHANGED <<packages, tools, dkms, boot, apt, bounds>>

\* dkms remove --all: for every kernel, and only the running one's is built again
Remove ==
  /\ rebuild = "remove"
  /\ rebuild' = "add"
  /\ added' = FALSE /\ modules' = {} /\ lost' = lost \cup (modules \ {running})
  /\ UNCHANGED <<packages, tools, boot, apt, bounds>>

\* a failure ends the rebuild
Add ==
  /\ rebuild = "add"
  /\ \/ added' = TRUE /\ rebuild' = "build" /\ UNCHANGED <<lost, faults>>
     \/ Fault /\ rebuild' = "idle" /\ lost' = lost \cup {running} /\ UNCHANGED added
  /\ UNCHANGED <<packages, tools, modules, boot, apt, upgrades>>

Buildable(k) == headers[k] # "absent" /\ Tools \subseteq tools[k]

\* a variant that spares a driver that is loaded
BuildUnlessLoaded ==
  /\ rebuild = "build" /\ rebuild' = "idle"
  /\ \/ /\ Buildable(running) /\ ~online
        /\ modules' = modules \cup {running} /\ lost' = lost \ {running}
        /\ UNCHANGED faults
     \/ /\ IF Buildable(running) THEN Fault ELSE UNCHANGED faults
        /\ lost' = lost \cup {running}
        /\ UNCHANGED modules
     \/ Buildable(running) /\ online /\ UNCHANGED <<modules, lost, faults>>
  /\ UNCHANGED <<packages, tools, added, boot, apt, upgrades>>

\* a variant that needs the network
BuildIfOnline ==
  /\ rebuild = "build" /\ rebuild' = "idle"
  /\ \/ /\ Buildable(running) /\ online
        /\ modules' = modules \cup {running} /\ lost' = lost \ {running}
        /\ UNCHANGED faults
     \/ /\ IF Buildable(running) /\ online THEN Fault ELSE UNCHANGED faults
        /\ lost' = lost \cup {running}
        /\ UNCHANGED modules
  /\ UNCHANGED <<packages, tools, added, boot, apt, upgrades>>

\* dkms build and install, for the running kernel
Build ==
  /\ rebuild = "build" /\ rebuild' = "idle"
  /\ \/ /\ Buildable(running)
        /\ modules' = modules \cup {running} /\ lost' = lost \ {running}
        /\ UNCHANGED faults
     \/ /\ IF Buildable(running) THEN Fault ELSE UNCHANGED faults
        /\ lost' = lost \cup {running}
        /\ UNCHANGED modules
  /\ UNCHANGED <<packages, tools, added, boot, apt, upgrades>>

-----------------------------------------------------------------------------
(* The operator and the power supply                                       *)

Boot ==
  /\ running' = default /\ online' = (default \in modules)
  /\ UNCHANGED <<default, hasIR>>

Restart ==
  /\ at = "idle" /\ rebuild = "idle"
  /\ Boot
  /\ UNCHANGED <<packages, tools, dkms, apt, rebuild, bounds>>

PowerCut ==
  /\ at # "idle" \/ rebuild # "idle"
  /\ Fault
  /\ Boot
  /\ image' = IF at \in {"idle", "apt"} THEN image ELSE [image EXCEPT ![now] = "half"]
  /\ at' = "idle" /\ todo' = {} /\ rebuild' = "idle"
  /\ lost' = IF rebuild \in {"add", "build"} THEN lost \cup {running} ELSE lost
  /\ UNCHANGED <<headers, tools, modules, added, now, unmade, upgrades>>

Dpkg ==
  \/ Unpack \/ ConfigureImage \/ Prepare \/ MakeScripts \/ MakeModpost
  \/ DkmsSkips \/ DkmsRefuses \/ DkmsBegins \/ DkmsEnds

Next ==
  \/ Upgrade \/ Resume \/ AptDies \/ Dpkg \/ ConfigureHeaders
  \/ Fetch \/ Remove \/ Add \/ Build
  \/ Restart \/ PowerCut

Spec == Init /\ [][Next]_vars

\* dpkg --configure -a and the upgrade are run until they are through, the
\* update is run again, and a box that waits for a reboot gets one
FairSpec ==
  /\ Spec
  /\ WF_vars(Dpkg) /\ SF_vars(ConfigureHeaders) /\ SF_vars(Resume)
  /\ WF_vars(Fetch) /\ WF_vars(Remove \/ Add \/ Build)
  /\ SF_vars((running # default \/ (~online /\ running \in modules)) /\ Restart)

-----------------------------------------------------------------------------
Packages == {"absent", "unpacked", "half", "configured"}

TypeOK ==
  /\ image \in [Kernels -> Packages]
  /\ headers \in [Kernels -> Packages \ {"half"}]
  /\ tools \in [Kernels -> SUBSET Tools]
  /\ modules \in SUBSET Kernels /\ lost \in SUBSET Kernels
  /\ running \in Kernels /\ default \in Kernels /\ now \in Kernels
  /\ added \in BOOLEAN /\ unmade \in BOOLEAN
  /\ online \in BOOLEAN /\ hasIR \in BOOLEAN
  /\ at \in {"idle", "apt", "prepare", "scripts", "modpost", "dkms", "building"}
  /\ todo \in SUBSET {"image", "headers"}
  /\ rebuild \in {"idle", "remove", "add", "build"}
  /\ upgrades \in 0 .. MaxUpgrades /\ faults \in 0 .. MaxFaults

\* the kernel the next boot takes has the driver, whatever upgrades, updates and
\* power cuts did to each other: unless its headers never came, an update's build
\* failed, or an update ran while another kernel was waiting for its first boot
DefaultDrives == rebuild \notin {"add", "build"} => default \in modules \cup lost

\* with the hook in front no build of dkms' meets headers without tools, unless
\* a make of this very hook failed: one that was cut short is made up for
BuildsHaveTools == at = "building" /\ ~unmade => Tools \subseteq tools[now]

\* a box that goes on updating gets its driver back, offline as it is, unless its
\* headers never came; with a receiver on the board only as long as the driver
\* it has loaded keeps it online
DriverReturns ==
  <>[](rebuild = "idle" =>
         running \in modules \/ (~online /\ (hasIR \/ headers[running] = "absent")))
=============================================================================
