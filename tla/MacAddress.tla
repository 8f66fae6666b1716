----------------------------- MODULE MacAddress -----------------------------
(***************************************************************************)
(* How a box comes by its Ethernet and wireless addresses.  The bootloader *)
(* hands every GMAC an address it has invented; the patched dwmac-rk puts  *)
(* its probe off until vendor storage can be read, or a deadline all ports *)
(* share has passed; the radio's driver takes its address from wherever it *)
(* finds one; and rk35xx-mac-pin, before any network manager runs and      *)
(* again after first boot and updates, gives each interface its own: the   *)
(* one in vendor storage, else one derived from the SoC's serial number.   *)
(*                                                                         *)
(* An address is known by where it comes from.  Time goes by in ticks, in  *)
(* each of which a deferred probe is tried again and a waiting script      *)
(* polls once.                                                             *)
(***************************************************************************)
EXTENDS Integers, Sequences, SequencesExt, FiniteSets

CONSTANTS
  Ports,      \* the GMACs
  Slot,       \* the slot of the LAN_MAC item that is each GMAC's, by its bus id
  Radio,      \* the wireless interface
  Listed,     \* the interfaces of mac-oui, in its order
  Boxes,      \* the boxes looked at
  WaitTicks,  \* RK_VENDOR_WAIT_MS in ticks
  Polls       \* 50, the number of polls for an interface

Ifaces == Ports \cup {Radio}

\* "label" and "former" are assigned addresses found in the store, "local" an
\* invented one found there; "boot" is the bootloader's invention, "efuse" and
\* "otp" what the radio's driver falls back to, "derived" the script's own,
\* "fresh" a random one of the kernel's.
Address == {"label", "former", "local", "boot", "efuse", "otp", "derived", "fresh"}
Assigned(a) == a \in {"label", "former"}
Valid(a)    == Assigned(a) \/ a = "local"

\* A copy of the store (untagged: not one), with the radio's item and the ports',
\* which has a slot for each of two; a reader of one address reads "lan", the first.
Copy == [tag : BOOLEAN, ver : Nat,
         item : [{"lan", "lan1", "wifi"} -> {"absent", "label", "former", "local", "zero"}]]
Box  == [store : Seq(Copy), serial : BOOLEAN, chip : {"seekwave", "aic", "aic with efuse"},
         boot : [Ports -> {"boot", "label", "none"}], named : SUBSET Ports]

ASSUME BoxAssumption ==
  /\ Radio \notin Ports
  /\ Slot \in [Ports -> {"lan", "lan1"}]
  /\ Listed \in Seq(Ifaces)
  /\ WaitTicks \in Nat \ {0}
  /\ Polls \in Nat
  /\ Boxes \subseteq Box

\* The kernel's driver writes each copy under a version above the last one's.
ASSUME VersionAssumption ==
  \A b \in Boxes : \A c, d \in Range(b.store) :
    c.tag /\ d.tag /\ c.ver = d.ver => c.item = d.item

VARIABLES
  box,      \* the box: its store, serial number, radio, what its bootloader hands over
            \* and the ports called end0 or eth*
  ready,    \* vendor storage has registered
  left,     \* ticks until rk_vendor_wait_until, or Unset
  age,      \* ticks since that deadline was set, up to a cap
  port,     \* the probe of each GMAC
  tried,    \* the ports probed in this tick
  addr,     \* the address of each interface, "none" while there is no interface
  up,       \* interfaces that are up
  pc,       \* where rk35xx-mac-pin is
  line,     \* the line of mac-oui it is at
  polls,    \* $n
  polled,   \* it has polled in this tick
  started,  \* its unit has been started
  managed,  \* network-pre.target reached: network managers run
  missed    \* interfaces the script has last left without the address it meant for them

kernel == <<ready, left, age, port, tried>>
script == <<pc, line, polls, polled, started, missed>>
vars   == <<box, kernel, addr, up, script, managed>>

Unset == -1
Cap   == WaitTicks + 2

----------------------------------------------------------------------------
(* Vendor storage. *)

\* A variant of Newer: every copy that holds the item counts.
Latest(best, copy, item) ==
  IF copy.tag /\ Assigned(copy.item[item])
    THEN [ver |-> copy.ver, mac |-> copy.item[item]]
    ELSE best

\* The script's reader: over the copies in their order, the item of a copy
\* replaces what was found so far if the copy is newer than the one that came from.
Newer(best, copy, item) ==
  IF copy.tag /\ copy.ver > best.ver /\ Assigned(copy.item[item])
    THEN [ver |-> copy.ver, mac |-> copy.item[item]]
    ELSE best

VendorStorage(store, item) ==
  LET best[n \in 0 .. Len(store)] ==
        IF n = 0 THEN [ver |-> -1, mac |-> "none"] ELSE Newer(best[n - 1], store[n], item)
  IN  best[Len(store)].mac

\* The kernel's driver reads the newest copy only.
KernelRead(store, item) ==
  LET copies == {c \in Range(store) : c.tag}
      newest == CHOOSE c \in copies : \A d \in copies : d.ver <= c.ver
  IN  IF copies = {} THEN "absent" ELSE newest.item[item]

\* The item the script asks for; "none" under another name.
Item(i) == IF i = Radio THEN "wifi" ELSE IF i \in box.named THEN "lan" ELSE "none"

\* What the address of an interface has to be: that of the newest copy that
\* holds an assigned one, else the derived one.
Own(i) ==
  LET holders == {c \in Range(box.store) :
                    Item(i) # "none" /\ c.tag /\ Assigned(c.item[Item(i)])}
  IN  IF holders # {}
        THEN (CHOOSE c \in holders : \A d \in holders : d.ver <= c.ver).item[Item(i)]
        ELSE IF box.serial THEN "derived" ELSE "none"

----------------------------------------------------------------------------
Init ==
  /\ box \in Boxes
  /\ ready = FALSE
  /\ left = Unset
  /\ age = 0
  /\ port = [p \in Ports |-> "unprobed"]
  /\ tried = {}
  /\ addr = [i \in Ifaces |-> "none"]
  /\ up = {}
  /\ pc = "off"
  /\ line = 1
  /\ polls = 0
  /\ polled = FALSE
  /\ started = FALSE
  /\ managed = FALSE
  /\ missed = {}

(* The kernel. *)

\* sdmmc_vendor_storage registers; on a board without a store it never does.
Register ==
  /\ ~ready
  /\ ready' = TRUE
  /\ UNCHANGED <<box, left, age, port, tried, addr, up, script, managed>>

Invented(p) == box.boot[p] = "boot"

\* A variant of Probe: every port has a deadline of its own.
ProbeAnew(p) ==
  /\ port[p] = "unprobed" \/ (port[p] = "deferred" /\ p \notin tried)
  /\ LET waits == Invented(p) /\ ~ready
     IN  /\ left' = IF waits /\ port[p] = "unprobed" THEN WaitTicks ELSE left
         /\ IF waits /\ left' > 0
              THEN port' = [port EXCEPT ![p] = "deferred"] /\ tried' = tried \cup {p}
              ELSE port' = [port EXCEPT ![p] = "claiming"] /\ tried' = tried \ {p}
  /\ UNCHANGED <<box, ready, age, addr, up, script, managed>>

\* The first half of rk_gmac_probe: an invented address waits for the store
\* until the deadline, which the first port to wait has set.
Probe(p) ==
  /\ port[p] = "unprobed" \/ (port[p] = "deferred" /\ p \notin tried)
  /\ LET waits == Invented(p) /\ ~ready
     IN  /\ left' = IF waits /\ left = Unset THEN WaitTicks ELSE left
         /\ IF waits /\ left' > 0
              THEN port' = [port EXCEPT ![p] = "deferred"] /\ tried' = tried \cup {p}
              ELSE port' = [port EXCEPT ![p] = "claiming"] /\ tried' = tried \ {p}
  /\ UNCHANGED <<box, ready, age, addr, up, script, managed>>

\* rk_get_eth_addr: the port's address in the store if it is a valid one, else
\* the kept one.
EthAddr(p, kept) ==
  IF ready /\ Valid(KernelRead(box.store, Slot[p])) THEN KernelRead(box.store, Slot[p])
  ELSE IF kept # "none" THEN kept
  ELSE "fresh"

\* A variant of Claim: the invented address is blanked and not kept.
ClaimBlank(p) ==
  /\ port[p] = "claiming"
  /\ port' = [port EXCEPT ![p] = "bound"]
  /\ addr' = [addr EXCEPT ![p] = IF Invented(p) \/ box.boot[p] = "none" THEN EthAddr(p, "none")
                                 ELSE box.boot[p]]
  /\ UNCHANGED <<box, ready, left, age, tried, up, script, managed>>

\* The second half, resources claimed: the store is asked about once more, and
\* if it is there now an invented address is blanked and kept.  stmmac asks
\* rk_get_eth_addr when it has no address, and registers the interface.
Claim(p) ==
  /\ port[p] = "claiming"
  /\ port' = [port EXCEPT ![p] = "bound"]
  /\ addr' = [addr EXCEPT ![p] = IF Invented(p) /\ ready THEN EthAddr(p, box.boot[p])
                                 ELSE IF box.boot[p] = "none" THEN EthAddr(p, "none")
                                 ELSE box.boot[p]]
  /\ UNCHANGED <<box, ready, left, age, tried, up, script, managed>>

\* The radio's driver loads, late if it has yet to be built, and picks an address.
RadioAddress ==
  IF box.chip = "seekwave" THEN "fresh"
  ELSE IF ready /\ Valid(KernelRead(box.store, "wifi")) THEN KernelRead(box.store, "wifi")
  ELSE IF box.chip = "aic with efuse" THEN "efuse"
  ELSE IF box.serial THEN "otp"
  ELSE "fresh"

LoadRadio ==
  /\ addr[Radio] = "none"
  /\ addr' = [addr EXCEPT ![Radio] = RadioAddress]
  /\ UNCHANGED <<box, kernel, up, script, managed>>

(* rk35xx-mac-pin. *)

iface == Listed[line]

\* $mac: vendor storage's address for the item, else a derived one, which takes
\* the serial number.
Want(i) ==
  LET found == VendorStorage(box.store, Item(i))
  IN  IF Item(i) # "none" /\ Assigned(found) THEN found ELSE IF box.serial THEN "derived" ELSE "none"

NextLine == pc' = "line" /\ line' = line + 1

\* A variant of Start: no Before=network-pre.target.
StartLate ==
  /\ pc = "off"
  /\ pc' = "line"
  /\ line' = 1
  /\ started' = TRUE
  /\ managed' = TRUE
  /\ UNCHANGED <<box, kernel, addr, up, polls, polled, missed>>

\* The unit starts at boot, before network-pre.target; rk35xx-firstboot and
\* rk35xx-update run the script again.
Start ==
  /\ pc = "off"
  /\ pc' = "line"
  /\ line' = 1
  /\ started' = TRUE
  /\ UNCHANGED <<box, kernel, addr, up, polls, polled, missed, managed>>

\* A line of mac-oui; without an address for its interface, the next one.
ReadLine ==
  /\ pc = "line"
  /\ line <= Len(Listed)
  /\ IF Want(iface) = "none" THEN NextLine ELSE pc' = "wait" /\ UNCHANGED line
  /\ polls' = 0
  /\ UNCHANGED <<box, kernel, addr, up, polled, started, missed, managed>>

\* Behind the last line the unit is active and lets the managers start.
Finish ==
  /\ pc = "line"
  /\ line > Len(Listed)
  /\ pc' = "off"
  /\ managed' = TRUE
  /\ UNCHANGED <<box, kernel, addr, up, line, polls, polled, started, missed>>

\* A variant of Poll: one poll too many.
PollPast ==
  /\ pc = "wait"
  /\ addr[iface] = "none"
  /\ polls <= Polls
  /\ ~polled
  /\ polls' = polls + 1
  /\ polled' = TRUE
  /\ UNCHANGED <<box, kernel, addr, up, pc, line, started, missed, managed>>

Poll ==
  /\ pc = "wait"
  /\ addr[iface] = "none"
  /\ polls < Polls
  /\ ~polled
  /\ polls' = polls + 1
  /\ polled' = TRUE
  /\ UNCHANGED <<box, kernel, addr, up, pc, line, started, missed, managed>>

GiveUp ==
  /\ pc = "wait"
  /\ addr[iface] = "none"
  /\ polls = Polls
  /\ NextLine
  /\ missed' = missed \cup {iface}
  /\ UNCHANGED <<box, kernel, addr, up, polls, polled, started, managed>>

\* A variant of TakeDown: any address that is not a random one will do.
TakeDownFresh ==
  /\ pc = "wait"
  /\ addr[iface] # "none"
  /\ IF addr[iface] # "fresh"
       THEN NextLine /\ missed' = missed \ {iface} /\ UNCHANGED up
       ELSE pc' = "address" /\ up' = up \ {iface} /\ UNCHANGED <<line, missed>>
  /\ UNCHANGED <<box, kernel, addr, polls, polled, started, managed>>

\* The interface is there: an address that is right already is left alone.
TakeDown ==
  /\ pc = "wait"
  /\ addr[iface] # "none"
  /\ IF addr[iface] = Want(iface)
       THEN NextLine /\ missed' = missed \ {iface} /\ UNCHANGED up
       ELSE pc' = "address" /\ up' = up \ {iface} /\ UNCHANGED <<line, missed>>
  /\ UNCHANGED <<box, kernel, addr, polls, polled, started, managed>>

\* A driver may refuse a new address while its interface is up, and a manager
\* may have brought it up again since; the refusal is only logged.
SetAddress ==
  /\ pc = "address"
  /\ pc' = "up"
  /\ \/ addr' = [addr EXCEPT ![iface] = Want(iface)] /\ missed' = missed \ {iface}
     \/ iface \in up /\ missed' = missed \cup {iface} /\ UNCHANGED addr
  /\ UNCHANGED <<box, kernel, up, line, polls, polled, started, managed>>

\* A variant of BringUp: it is left to the manager.
LeaveDown ==
  /\ pc = "up"
  /\ NextLine
  /\ UNCHANGED <<box, kernel, addr, up, polls, polled, started, missed, managed>>

BringUp ==
  /\ pc = "up"
  /\ NextLine
  /\ up' = up \cup {iface}
  /\ UNCHANGED <<box, kernel, addr, polls, polled, started, missed, managed>>

(* The rest of the system. *)

\* A network manager brings an interface up, or before it an early daemon that
\* is not ordered behind the script; only listed ones matter here.
Raise(i) ==
  /\ addr[i] # "none"
  /\ i \notin up
  /\ up' = up \cup {i}
  /\ UNCHANGED <<box, kernel, addr, script, managed>>

\* A tick: deferred probes have been tried again, none is under way, and a
\* waiting script has polled.
Tick ==
  /\ \A p \in Ports : port[p] # "claiming" /\ (port[p] = "deferred" => p \in tried)
  /\ pc = "wait" => polled
  /\ polled \/ tried # {} \/ (left # Unset /\ age < Cap)
  /\ left' = IF left > 0 THEN left - 1 ELSE left
  /\ age' = IF left # Unset /\ age < Cap THEN age + 1 ELSE age
  /\ tried' = {}
  /\ polled' = FALSE
  /\ UNCHANGED <<box, ready, port, addr, up, pc, line, polls, started, missed, managed>>

Script == ReadLine \/ Finish \/ Poll \/ GiveUp \/ TakeDown \/ SetAddress \/ BringUp

Next ==
  \/ Register
  \/ \E p \in Ports : Probe(p) \/ Claim(p)
  \/ LoadRadio
  \/ Start
  \/ Script
  \/ \E i \in Range(Listed) : Raise(i)
  \/ Tick

Spec == Init /\ [][Next]_vars

\* The kernel probes every GMAC and tries a deferred probe again, the unit is
\* started and its script runs on, and time goes by, however often the script
\* is run again in between.  Nobody has to run it again, load the radio's
\* driver or bring an interface up.
FairSpec ==
  /\ Spec
  /\ \A p \in Ports : WF_vars(Probe(p)) /\ WF_vars(Claim(p))
  /\ SF_vars(Tick)
  /\ WF_vars(~started /\ Start)
  /\ WF_vars(Script)

----------------------------------------------------------------------------
\* The variables have their types, the script is at a line of the file unless
\* it is behind the last, and only interfaces that exist are up (rk35xx-mac-pin,
\* apply and its loop).
TypeOK ==
  /\ box \in Box
  /\ ready \in BOOLEAN
  /\ left \in {Unset} \cup 0 .. WaitTicks
  /\ age \in 0 .. Cap
  /\ port \in [Ports -> {"unprobed", "deferred", "claiming", "bound"}]
  /\ tried \subseteq Ports
  /\ addr \in [Ifaces -> Address \cup {"none"}]
  /\ up \subseteq {i \in Ifaces : addr[i] # "none"}
  /\ pc \in {"off", "line", "wait", "address", "up"}
  /\ line \in 1 .. Len(Listed) + 1
  /\ pc \in {"wait", "address", "up"} => line <= Len(Listed) /\ Want(iface) # "none"
  /\ pc \in {"address", "up"} => addr[iface] # "none"
  /\ polls \in 0 .. Polls
  /\ polled \in BOOLEAN
  /\ started \in BOOLEAN
  /\ missed \subseteq Range(Listed)
  /\ managed \in BOOLEAN

\* "A board with no vendor storage pays it once": however many ports there are
\* and whenever each is first probed, none is still deferred once the deadline
\* of the first and the retry that follows it have gone by (dwmac-rk,
\* rk_vendor_wait_until).
PaysOnce == \A p \in Ports : port[p] = "deferred" => left # Unset /\ age <= WaitTicks

\* A port to which the bootloader has given an address never gets one it has
\* not had before, whenever the store registers: before, between or after the
\* two checks of the probe (dwmac-rk, boot_mac).
NeverFresh ==
  \A p \in Ports : port[p] = "bound" /\ box.boot[p] # "none" => addr[p] # "fresh"

\* A network manager, ordered as it is behind network-pre.target, finds every
\* listed interface under its own address, unless the script has waited for the
\* interface in vain or was refused; a daemon that is not ordered so may raise
\* one before, under another (rk35xx-mac-pin.service, Before=network-pre.target).
NetworkSeesOwn ==
  managed => \A i \in Range(Listed) : addr[i] = Own(i) \/ Own(i) = "none" \/ i \in missed

\* The script, whose reader looks for the newest copy that holds an assigned
\* address, never replaces the one the kernel has read from the newest copy
\* (rk35xx-vendor-storage against rk_get_eth_addr).
KeepsLabel ==
  [][\A i \in box.named \cup {Radio} :
       addr[i] = KernelRead(box.store, Item(i)) /\ Assigned(addr[i]) => addr'[i] = addr[i]]_vars

\* Whatever the kernel came up with, an interface of mac-oui ends up with its
\* own address for good, if it appears and the last run to look for it neither
\* gave up before that nor was refused (rk35xx-mac-pin).
BoxAddress ==
  \A i \in Range(Listed) :
    <>[](addr[i] \in {Own(i), "none"} \/ Own(i) = "none" \/ i \in missed)

\* An interface that was up does not stay down behind the script, a refused
\* address included (rk35xx-mac-pin, apply).
NotLeftDown == \A i \in Ifaces : [](i \in up => []<>(i \in up))
=============================================================================
