------------------------- MODULE KernelUpgrade_proofs ------------------------
(***************************************************************************)
(* Proofs about KernelUpgrade, for any set of kernels and any number of    *)
(* upgrades and failures.                                                  *)
(***************************************************************************)
EXTENDS KernelUpgrade, TLAPS

\* how far the hook's two makes have come, when none of them has failed
Made ==
  /\ at = "modpost" /\ ~unmade => "fixdep" \in tools[now]
  /\ at \in {"dkms", "building"} /\ headers[now] # "absent" /\ ~unmade
       => Tools \subseteq tools[now]
  /\ at = "building" => headers[now] # "absent"

\* the driver of the next boot's kernel: only a rebuild under way may hold it back
Held == IF rebuild \in {"add", "build"} THEN {running} ELSE {}
Driven == default \in modules \cup lost \cup Held

IInv == TypeOK /\ Made /\ Driven

LEMMA InitHolds == Init => IInv
<1> SUFFICES ASSUME Init PROVE IInv
  OBVIOUS
<1>1. TypeOK
  <2>1. /\ image \in [Kernels -> Packages]
        /\ headers \in [Kernels -> Packages \ {"half"}]
        /\ tools \in [Kernels -> SUBSET Tools]
    BY DEF Init, Packages, Tools
  <2>2. /\ modules \in SUBSET Kernels /\ lost \in SUBSET Kernels
        /\ running \in Kernels /\ default \in Kernels /\ now \in Kernels
        /\ todo \in SUBSET {"image", "headers"}
    BY DEF Init
  <2>3. upgrades \in 0 .. MaxUpgrades /\ faults \in 0 .. MaxFaults
    BY UpgradeAssumption DEF Init
  <2>4. added \in BOOLEAN /\ unmade \in BOOLEAN /\ online \in BOOLEAN
    BY Zenon DEF Init
  <2>6. hasIR \in BOOLEAN
    BY UpgradeAssumption DEF Init
  <2>5. /\ at \in {"idle", "apt", "prepare", "scripts", "modpost", "dkms", "building"}
        /\ rebuild \in {"idle", "remove", "add", "build"}
    BY DEF Init
  <2> QED
    BY <2>1, <2>2, <2>3, <2>4, <2>5, <2>6 DEF TypeOK
<1>2. Made /\ Driven
  BY DEF Init, Made, Driven, Held
<1> QED
  BY <1>1, <1>2 DEF IInv

(* Every variable keeps its type.                                          *)
LEMMA TypeStep == TypeOK /\ [Next]_vars => TypeOK'
<1> SUFFICES ASSUME TypeOK, [Next]_vars PROVE TypeOK'
  OBVIOUS
<1> USE UpgradeAssumption DEF TypeOK, Packages, packages, dkms, boot, apt, bounds, Fault
<1>1. CASE Upgrade
  BY <1>1 DEF Upgrade
<1>2. CASE Resume
  BY <1>2 DEF Resume
<1>3. CASE AptDies
  BY <1>3 DEF AptDies
<1>4. CASE Unpack
  BY <1>4 DEF Unpack
<1>5. CASE ConfigureImage
  BY <1>5 DEF ConfigureImage
<1>6. CASE Prepare
  BY <1>6 DEF Prepare
<1>7. CASE MakeScripts
  <2>1. tools' \in [Kernels -> SUBSET Tools]
    BY <1>7 DEF MakeScripts, Tools
  <2>2. unmade' \in BOOLEAN
    BY <1>7, Zenon DEF MakeScripts
  <2> QED
    BY <1>7, <2>1, <2>2 DEF MakeScripts
<1>8. CASE MakeModpost
  <2>1. tools' \in [Kernels -> SUBSET Tools]
    BY <1>8 DEF MakeModpost, Tools
  <2>2. unmade' \in BOOLEAN
    BY <1>8, Zenon DEF MakeModpost
  <2> QED
    BY <1>8, <2>1, <2>2 DEF MakeModpost
<1>9. CASE DkmsSkips
  BY <1>9 DEF DkmsSkips, Configured
<1>10. CASE DkmsRefuses
  BY <1>10 DEF DkmsRefuses, HalfConfigured
<1>11. CASE DkmsBegins
  BY <1>11 DEF DkmsBegins
<1>12. CASE DkmsEnds
  BY <1>12 DEF DkmsEnds, Configured, HalfConfigured
<1>13. CASE ConfigureHeaders
  BY <1>13 DEF ConfigureHeaders
<1>14. CASE Fetch \/ Remove
  BY <1>14 DEF Fetch, Remove
<1>15. CASE Add
  <2>1. added' \in BOOLEAN /\ lost' \in SUBSET Kernels
    BY <1>15, Zenon DEF Add
  <2>2. faults' \in 0 .. MaxFaults /\ rebuild' \in {"idle", "remove", "add", "build"}
    BY <1>15 DEF Add
  <2>3. UNCHANGED <<packages, tools, modules, boot, apt, upgrades>>
    BY <1>15 DEF Add
  <2> QED
    BY <2>1, <2>2, <2>3
<1>16. CASE Build
  <2>1. modules' \in SUBSET Kernels /\ lost' \in SUBSET Kernels
    BY <1>16, Zenon DEF Build
  <2>2. faults' \in 0 .. MaxFaults
    BY <1>16 DEF Build
  <2>3. rebuild' = "idle" /\ UNCHANGED <<packages, tools, added, boot, apt, upgrades>>
    BY <1>16 DEF Build
  <2> QED
    BY <2>1, <2>2, <2>3
<1>17. CASE Restart
  BY <1>17 DEF Restart, Boot
<1>18. CASE PowerCut
  BY <1>18 DEF PowerCut, Boot
<1>19. CASE UNCHANGED vars
  BY <1>19 DEF vars
<1> QED
  BY <1>1, <1>2, <1>3, <1>4, <1>5, <1>6, <1>7, <1>8, <1>9, <1>10, <1>11, <1>12,
     <1>13, <1>14, <1>15, <1>16, <1>17, <1>18, <1>19 DEF Next, Dpkg

(* A hook that goes through without a failing make leaves both tools, and   *)
(* nothing takes them away before dkms has ended.                          *)
LEMMA MadeStep == TypeOK /\ Made /\ [Next]_vars => Made'
<1> SUFFICES ASSUME TypeOK, Made, [Next]_vars PROVE Made'
  OBVIOUS
<1> USE DEF Made
<1>1. ASSUME at' \in {"idle", "apt", "prepare", "scripts"} PROVE Made'
  BY <1>1
<1>2. ASSUME UNCHANGED <<headers, tools, at, now, unmade>> PROVE Made'
  BY <1>2
<1>3. CASE Upgrade \/ Resume \/ AptDies
  BY <1>1, <1>3 DEF Upgrade, Resume, AptDies
<1>4. CASE Unpack \/ ConfigureImage
  BY <1>1, <1>4 DEF Unpack, ConfigureImage
<1>5. CASE Prepare
  BY <1>5 DEF Prepare, packages, TypeOK
<1>6. CASE MakeScripts
  BY <1>6 DEF MakeScripts, packages, TypeOK
<1>7. CASE MakeModpost
  BY <1>7 DEF MakeModpost, packages, TypeOK, Tools
<1>8. CASE DkmsSkips \/ DkmsRefuses \/ DkmsEnds
  BY <1>1, <1>8 DEF DkmsSkips, DkmsRefuses, DkmsEnds, Configured, HalfConfigured
<1>9. CASE DkmsBegins
  BY <1>9 DEF DkmsBegins, packages
<1>10. CASE ConfigureHeaders
  BY <1>1, <1>10 DEF ConfigureHeaders, apt
<1>11. CASE Fetch \/ Remove \/ Add \/ Build
  BY <1>2, <1>11 DEF Fetch, Remove, Add, Build, packages, apt
<1>12. CASE Restart
  BY <1>2, <1>12 DEF Restart, packages, apt
<1>13. CASE PowerCut
  BY <1>1, <1>13 DEF PowerCut
<1>14. CASE UNCHANGED vars
  BY <1>2, <1>14 DEF vars, packages, apt
<1> QED
  BY <1>3, <1>4, <1>5, <1>6, <1>7, <1>8, <1>9, <1>10, <1>11, <1>12, <1>13, <1>14
  DEF Next, Dpkg

(* Whatever takes the driver from the next boot's kernel is accounted for.  *)
LEMMA DrivenStep == Driven /\ [Next]_vars => Driven'
<1> SUFFICES ASSUME Driven, [Next]_vars PROVE Driven'
  OBVIOUS
<1> USE DEF Driven, Held
<1>1. ASSUME UNCHANGED <<dkms, running, default, rebuild>> PROVE Driven'
  BY <1>1 DEF dkms
<1>2. CASE Upgrade \/ Resume \/ AptDies
  BY <1>1, <1>2 DEF Upgrade, Resume, AptDies, boot
<1>3. CASE Unpack \/ ConfigureImage \/ ConfigureHeaders
  BY <1>1, <1>3 DEF Unpack, ConfigureImage, ConfigureHeaders, boot
<1>4. CASE Prepare \/ MakeScripts \/ MakeModpost
  BY <1>1, <1>4 DEF Prepare, MakeScripts, MakeModpost, boot
<1>5. CASE DkmsRefuses \/ DkmsBegins
  BY <1>1, <1>5 DEF DkmsRefuses, DkmsBegins, HalfConfigured, boot
<1>6. CASE DkmsSkips
  BY <1>6 DEF DkmsSkips, Configured
<1>7. CASE DkmsEnds
  BY <1>7 DEF DkmsEnds, Configured, HalfConfigured
<1>8. CASE Fetch \/ Remove
  BY <1>8 DEF Fetch, Remove, dkms, boot
<1>9. CASE Add
  BY <1>9 DEF Add, boot
<1>10. CASE Build
  BY <1>10 DEF Build, boot
<1>11. CASE Restart
  BY <1>11 DEF Restart, Boot, dkms
<1>12. CASE PowerCut
  BY <1>12 DEF PowerCut, Boot
<1>13. CASE UNCHANGED vars
  BY <1>1, <1>13 DEF vars, boot
<1> QED
  BY <1>2, <1>3, <1>4, <1>5, <1>6, <1>7, <1>8, <1>9, <1>10, <1>11, <1>12, <1>13
  DEF Next, Dpkg

LEMMA Invariant == Spec => []IInv
<1>1. IInv /\ [Next]_vars => IInv'
  BY TypeStep, MadeStep, DrivenStep DEF IInv
<1> QED
  BY <1>1, InitHolds, PTL DEF Spec

(* Every variable keeps its type.                                          *)
THEOREM TypeCorrect == Spec => []TypeOK
<1>1. IInv => TypeOK
  BY DEF IInv
<1> QED
  BY <1>1, Invariant, PTL

(* Whatever was cut short before and however often, dkms builds for a new  *)
(* kernel with both host tools there, unless a make of the hook that ran   *)
(* in front of it has failed.                                              *)
THEOREM ToolsFirst == Spec => []BuildsHaveTools
<1>1. IInv => BuildsHaveTools
  BY DEF IInv, Made, BuildsHaveTools
<1> QED
  BY <1>1, Invariant, PTL

(* Upgrades, updates and power cuts in any order: outside a rebuild the    *)
(* kernel of the next boot has its driver, or lost it in one of the ways   *)
(* the module lists.                                                       *)
THEOREM NextBootDrives == Spec => []DefaultDrives
<1>1. IInv => DefaultDrives
  BY DEF IInv, Driven, Held, DefaultDrives
<1> QED
  BY <1>1, Invariant, PTL
=============================================================================
