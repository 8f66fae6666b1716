------------------------- MODULE MacAddress_proofs -------------------------
(***************************************************************************)
(* Theorems of MacAddress: types, the wait that is paid once for all       *)
(* ports, that no port with an address loses it to a random one, what the  *)
(* store's reader finds for every history of the store, and that the       *)
(* network managers see a port's own address, and the label's to the end.  *)
(***************************************************************************)
EXTENDS MacAddress, WellFoundedInduction, TLAPS

\* What the script gives an interface is an address, and never a random one,
\* whatever the store holds.
LEMMA WantIsAddress ==
  ASSUME NEW i
  PROVE  Want(i) \in {"label", "former", "derived", "none"}
  BY DEF Want, Assigned

\* What rk_get_eth_addr answers is an address.
LEMMA EthAddrIsAddress ==
  ASSUME NEW p, NEW kept \in {"none", "boot"}
  PROVE  EthAddr(p, kept) \in {"label", "former", "local", "boot", "fresh"}
  BY DEF EthAddr, Valid, Assigned

LEMMA RadioAddressIsAddress == RadioAddress \in Address
  BY DEF RadioAddress, Valid, Assigned, Address

----------------------------------------------------------------------------
\* The variables keep their types whatever the store, the ports and the lines
\* of mac-oui (MacAddress, TypeOK).
THEOREM TypeCorrect == Spec => []TypeOK
<1> USE BoxAssumption DEF BoxAssumption
<1>1. Init => TypeOK
  <2>1. Len(Listed) \in Nat
    OBVIOUS
  <2> SUFFICES ASSUME Init PROVE TypeOK
    OBVIOUS
  <2>2. box \in Box /\ port \in [Ports -> {"unprobed", "deferred", "claiming", "bound"}]
    BY DEF Init
  <2>3. addr \in [Ifaces -> Address \cup {"none"}]
    BY DEF Init
  <2>4. age \in 0 .. Cap /\ line \in 1 .. Len(Listed) + 1 /\ polls \in 0 .. Polls /\ left \in {Unset} \cup 0 .. WaitTicks
    BY <2>1 DEF Init, Cap
  <2> QED
    BY <2>2, <2>3, <2>4 DEF Init, TypeOK
<1>2. TypeOK /\ [Next]_vars => TypeOK'
  <2> SUFFICES ASSUME TypeOK, [Next]_vars PROVE TypeOK'
    OBVIOUS
  <2> USE DEF TypeOK
  <2>len. Len(Listed) \in Nat
    OBVIOUS
  <2>want. UNCHANGED <<box, line>> => Want(iface)' = Want(iface)
    BY DEF Want, Item, iface
  <2>line. ASSUME line <= Len(Listed) PROVE iface \in Ifaces /\ iface \in Range(Listed)
    BY <2>line DEF iface, Range
  <2>next. ASSUME line <= Len(Listed) PROVE line + 1 \in 1 .. Len(Listed) + 1
    BY <2>next
  <2>1. CASE Register
    BY <2>1, <2>want DEF Register, script, iface
  <2>2. ASSUME NEW p \in Ports, Probe(p) PROVE TypeOK'
    <3>1. left' \in {Unset} \cup 0 .. WaitTicks /\ port' \in [Ports -> {"unprobed", "deferred", "claiming", "bound"}]
      BY <2>2 DEF Probe, Unset
    <3>2. tried' \subseteq Ports
      BY <2>2 DEF Probe
    <3> QED
      BY <2>2, <3>1, <3>2, <2>want DEF Probe, script, iface
  <2>3. ASSUME NEW p \in Ports, Claim(p) PROVE TypeOK'
    <3>1. box.boot[p] \in {"boot", "label", "none"}
      BY DEF Box
    <3>2. \A kept \in {"none", "boot"} : EthAddr(p, kept) \in Address
      BY EthAddrIsAddress DEF Address
    <3>3. /\ addr' \in [Ifaces -> Address \cup {"none"}]
          /\ \A i \in Ifaces : addr[i] # "none" => addr'[i] # "none"
      BY <2>3, <3>1, <3>2 DEF Claim, Invented, Ifaces, Address
    <3>4. port' \in [Ports -> {"unprobed", "deferred", "claiming", "bound"}]
      BY <2>3 DEF Claim
    <3>5. pc \in {"address", "up"} => iface \in Ifaces
      BY <2>line
    <3> QED
      BY <2>3, <3>3, <3>4, <3>5, <2>want DEF Claim, script, iface
  <2>4. CASE LoadRadio
    <3>1. /\ addr' \in [Ifaces -> Address \cup {"none"}]
          /\ \A i \in Ifaces : addr[i] # "none" => addr'[i] # "none"
      BY <2>4, RadioAddressIsAddress DEF LoadRadio, Ifaces, Address
    <3>2. pc \in {"address", "up"} => iface \in Ifaces
      BY <2>line
    <3> QED
      BY <2>4, <3>1, <3>2, <2>want DEF LoadRadio, kernel, script, iface
  <2>5. CASE Start
    BY <2>5 DEF Start, kernel
  <2>6. CASE ReadLine
    BY <2>6, <2>len, <2>next, <2>want DEF ReadLine, NextLine, kernel, iface
  <2>7. CASE Finish
    BY <2>7 DEF Finish, kernel
  <2>8. CASE Poll
    BY <2>8, <2>want DEF Poll, kernel, iface
  <2>9. CASE GiveUp
    BY <2>9, <2>next, <2>line DEF GiveUp, NextLine, kernel
  <2>10. CASE TakeDown
    BY <2>10, <2>next, <2>line, <2>want DEF TakeDown, NextLine, kernel, iface
  <2>11. CASE SetAddress
    <3>1. iface \in Ifaces /\ iface \in Range(Listed)
      BY <2>11, <2>line DEF SetAddress
    <3>2. Want(iface) \in Address /\ Want(iface) # "none"
      BY <2>11, WantIsAddress DEF SetAddress, Address
    <3>3. /\ addr' \in [Ifaces -> Address \cup {"none"}]
          /\ \A i \in Ifaces : addr[i] # "none" => addr'[i] # "none"
      BY <2>11, <3>1, <3>2 DEF SetAddress
    <3>4. missed' \subseteq Range(Listed)
      BY <2>11, <3>1 DEF SetAddress
    <3> QED
      BY <2>11, <3>1, <3>3, <3>4, <2>want DEF SetAddress, kernel, iface
  <2>12. CASE BringUp
    BY <2>12, <2>next, <2>line DEF BringUp, NextLine, kernel
  <2>13. ASSUME NEW i \in Range(Listed), Raise(i) PROVE TypeOK'
    <3>1. i \in Ifaces
      BY DEF Range
    <3> QED
      BY <2>13, <3>1, <2>want DEF Raise, kernel, script, iface
  <2>14. CASE Tick
    <3>1. left' \in {Unset} \cup 0 .. WaitTicks /\ age' \in 0 .. Cap
      BY <2>14 DEF Tick, Unset, Cap
    <3> QED
      BY <2>14, <3>1, <2>want DEF Tick, iface
  <2>15. CASE UNCHANGED vars
    BY <2>15, <2>want DEF vars, kernel, script, iface
  <2> QED
    BY <2>1, <2>2, <2>3, <2>4, <2>5, <2>6, <2>7, <2>8, <2>9, <2>10, <2>11, <2>12, <2>13, <2>14, <2>15
       DEF Next, Script
<1> QED
  BY <1>1, <1>2, PTL DEF Spec

----------------------------------------------------------------------------
\* The deadline and its age tell the same time, and a port deferred in this
\* tick was so before the deadline.
Clock ==
  /\ left = Unset => age = 0
  /\ left > 0 => age = WaitTicks - left
  /\ \A p \in Ports : port[p] = "deferred" => left # Unset /\ age <= WaitTicks
  /\ \A p \in Ports : port[p] = "deferred" /\ p \in tried => left > 0

\* However many ports there are, whatever the deadline and whenever each port
\* is first probed: the store is waited for once (MacAddress, PaysOnce).
THEOREM WaitPaidOnce == Spec => []PaysOnce
<1> USE BoxAssumption DEF BoxAssumption
<1>1. Init => Clock
  BY DEF Init, Clock, Unset
<1>2. TypeOK /\ Clock /\ [Next]_vars => Clock'
  <2> SUFFICES ASSUME TypeOK, Clock, [Next]_vars PROVE Clock'
    OBVIOUS
  <2>t. left \in {-1} \cup 0 .. WaitTicks /\ age \in 0 .. Cap /\ port \in [Ports -> {"unprobed", "deferred", "claiming", "bound"}]
    BY DEF TypeOK, Unset
  <2>1. ASSUME NEW p \in Ports, Probe(p) PROVE Clock'
    <3>1. CASE left = Unset /\ Invented(p) /\ ~ready
      BY <2>t, <2>1, <3>1 DEF Probe, Clock, Unset
    <3>2. CASE ~(left = Unset /\ Invented(p) /\ ~ready)
      BY <2>t, <2>1, <3>2 DEF Probe, Clock, Unset
    <3> QED
      BY <3>1, <3>2
  <2>2. ASSUME NEW p \in Ports, Claim(p) PROVE Clock'
    BY <2>t, <2>2 DEF Claim, Clock
  <2>3. CASE Tick
    <3>1. left > 0 => left' = left - 1 /\ age' = age + 1
      BY <2>t, <2>3 DEF Tick, Clock, Cap, Unset
    <3>2. ~(left > 0) => left' = left
      BY <2>3 DEF Tick
    <3>3. \A p \in Ports : port'[p] = "deferred" => left > 0
      BY <2>3 DEF Tick, Clock
    <3>4. tried' = {} /\ port' = port
      BY <2>3 DEF Tick
    <3>5. left = -1 => age' = age
      BY <2>3 DEF Tick, Unset
    <3> QED
      BY <2>t, <3>1, <3>2, <3>3, <3>4, <3>5 DEF Clock, Unset
  <2>4. CASE UNCHANGED <<left, age, port, tried>>
    BY <2>4 DEF Clock
  <2>5. Register => UNCHANGED <<left, age, port, tried>>
    BY DEF Register
  <2>6. LoadRadio \/ Start \/ Script \/ UNCHANGED vars \/ (\E i \in Range(Listed) : Raise(i))
          => UNCHANGED <<left, age, port, tried>>
    BY DEF LoadRadio, Start, Script, ReadLine, Finish, Poll, GiveUp, TakeDown, SetAddress, BringUp,
           Raise, kernel, vars
  <2> QED
    BY <2>1, <2>2, <2>3, <2>4, <2>5, <2>6 DEF Next
<1>3. Clock => PaysOnce
  BY DEF Clock, PaysOnce
<1> QED
  BY <1>1, <1>2, <1>3, TypeCorrect, PTL DEF Spec

----------------------------------------------------------------------------
\* For any ports, stores and lines, and however the two checks of a probe, the
\* store and the script interleave: a port that was handed an address never
\* has a random one (MacAddress, NeverFresh).
THEOREM NeverRandom == Spec => []NeverFresh
<1>1. Init => NeverFresh
  BY DEF Init, NeverFresh
<1>2. TypeOK /\ NeverFresh /\ [Next]_vars => NeverFresh'
  <2> SUFFICES ASSUME TypeOK, NeverFresh, [Next]_vars PROVE NeverFresh'
    OBVIOUS
  <2>t. addr \in [Ifaces -> Address \cup {"none"}] /\ Ports \subseteq Ifaces
    BY DEF TypeOK, Ifaces
  <2>p. port \in [Ports -> {"unprobed", "deferred", "claiming", "bound"}]
    BY DEF TypeOK
  <2>1. ASSUME NEW p \in Ports, Claim(p) PROVE NeverFresh'
    <3>1. box.boot[p] \in {"boot", "label", "none"}
      BY DEF TypeOK, Box
    <3>2. CASE box.boot[p] = "boot"
      <4>1. EthAddr(p, "boot") # "fresh"
        BY DEF EthAddr, Valid, Assigned
      <4> QED
        BY <2>1, <2>t, <2>p, <3>2, <4>1 DEF Claim, NeverFresh, Invented
    <3>3. CASE box.boot[p] # "boot"
      BY <2>1, <2>t, <2>p, <3>1, <3>3 DEF Claim, NeverFresh, Invented
    <3> QED
      BY <3>2, <3>3
  <2>2. ASSUME NEW p \in Ports, Probe(p) PROVE NeverFresh'
    <3>1. \A q \in Ports : port'[q] = "bound" => port[q] = "bound"
      BY <2>2, <2>p DEF Probe
    <3> QED
      BY <2>2, <3>1 DEF Probe, NeverFresh
  <2>3. CASE LoadRadio
    BY <2>3, <2>t, BoxAssumption DEF LoadRadio, NeverFresh, kernel, BoxAssumption
  <2>4. CASE SetAddress
    <3>1. Want(iface) # "fresh"
      BY WantIsAddress
    <3> QED
      BY <2>4, <2>t, <3>1 DEF SetAddress, NeverFresh, kernel
  <2>5. CASE UNCHANGED <<box, port, addr>>
    BY <2>5 DEF NeverFresh
  <2>6. Register \/ Start \/ Tick \/ (\E i \in Range(Listed) : Raise(i)) \/ UNCHANGED vars
          => UNCHANGED <<box, port, addr>>
    BY DEF Register, Start, Tick, Raise, kernel, vars
  <2>7. ReadLine \/ Finish \/ Poll \/ GiveUp \/ TakeDown \/ BringUp => UNCHANGED <<box, port, addr>>
    BY DEF ReadLine, Finish, Poll, GiveUp, TakeDown, BringUp, kernel
  <2> QED
    BY <2>1, <2>2, <2>3, <2>4, <2>5, <2>6, <2>7 DEF Next, Script
<1> QED
  BY <1>1, <1>2, TypeCorrect, PTL DEF Spec

----------------------------------------------------------------------------
(* The reader of vendor storage. *)

LEMMA LeastNatural ==
  ASSUME NEW S \in SUBSET Nat, S # {}
  PROVE  \E m \in S : \A k \in S : m <= k
<1> DEFINE R == OpToRel(<, Nat)
<1>1. IsWellFoundedOn(R, Nat)
  BY NatLessThanWellFounded
<1>2. \A k, m \in Nat : k < m => <<k, m>> \in R
  BY DEF OpToRel
<1> HIDE DEF R
<1>3. PICK m \in S : \A k \in S : ~(<<k, m>> \in R)
  BY <1>1, WFMin
<1>4. \A k \in S : ~(k < m)
  BY <1>2, <1>3, Zenon
<1>5. \A k \in S : m <= k
  BY <1>4
<1> QED
  BY <1>5

\* A set that holds 0, and n + 1 with every n below N, holds all up to N.
LEMMA CountedUp ==
  ASSUME NEW N \in Nat, NEW S, 0 \in S, \A n \in 0 .. N - 1 : n \in S => n + 1 \in S
  PROVE  0 .. N \subseteq S
<1> DEFINE Rest == {n \in 0 .. N : n \notin S}
<1> SUFFICES ASSUME Rest # {} PROVE FALSE
  OBVIOUS
<1>1. Rest \in SUBSET Nat
  OBVIOUS
<1>2. PICK m \in Rest : \A k \in Rest : m <= k
  <2> HIDE DEF Rest
  <2> QED
    BY <1>1, LeastNatural
<1>3. m - 1 \in 0 .. N - 1 /\ m - 1 \in S
  BY <1>2
<1> QED
  BY <1>2, <1>3

\* After n copies the best is of one of them, of the highest version among those
\* with an assigned address, or there is no such copy.
Holders(store, item, n) == {j \in 1 .. n : store[j].tag /\ Assigned(store[j].item[item])}
NoneYet == [ver |-> -1, mac |-> "none"]
BestOf(store, item, n, b) ==
  \/ Holders(store, item, n) = {} /\ b = NoneYet
  \/ \E j \in Holders(store, item, n) :
       /\ b = [ver |-> store[j].ver, mac |-> store[j].item[item]]
       /\ \A k \in Holders(store, item, n) : store[k].ver <= store[j].ver

LEMMA NewerKeepsBest ==
  ASSUME NEW store \in Seq(Copy), NEW item \in {"lan", "wifi"}, NEW n \in 0 .. Len(store) - 1, NEW b,
         BestOf(store, item, n, b)
  PROVE  BestOf(store, item, n + 1, Newer(b, store[n + 1], item))
<1> DEFINE c == store[n + 1]
<1>1. c \in Copy /\ \A j \in 1 .. n + 1 : store[j] \in Copy /\ store[j].ver \in Nat
  <2>1. \A j \in 1 .. n + 1 : store[j] \in Copy
    OBVIOUS
  <2>2. \A d \in Copy : d.ver \in Nat
    BY DEF Copy
  <2> QED
    BY <2>1, <2>2
<1>2. Holders(store, item, n + 1) =
        Holders(store, item, n) \cup (IF c.tag /\ Assigned(c.item[item]) THEN {n + 1} ELSE {})
  BY DEF Holders
<1>3. Holders(store, item, n) \subseteq 1 .. n
  BY DEF Holders
<1>4. CASE ~(c.tag /\ Assigned(c.item[item]))
  <2>1. Newer(b, c, item) = b /\ Holders(store, item, n + 1) = Holders(store, item, n)
    BY <1>2, <1>4 DEF Newer
  <2> QED
    BY <2>1 DEF BestOf
<1>5. CASE c.tag /\ Assigned(c.item[item]) /\ Holders(store, item, n) = {}
  <2>1. b.ver = -1
    BY <1>5 DEF BestOf, NoneYet
  <2>2. Newer(b, c, item) = [ver |-> c.ver, mac |-> c.item[item]]
    BY <1>1, <1>5, <2>1 DEF Newer
  <2>3. Holders(store, item, n + 1) = {n + 1}
    BY <1>2, <1>5
  <2> QED
    BY <1>1, <2>2, <2>3 DEF BestOf
<1>6. CASE c.tag /\ Assigned(c.item[item]) /\ Holders(store, item, n) # {}
  <2>1. PICK j \in Holders(store, item, n) :
          /\ b = [ver |-> store[j].ver, mac |-> store[j].item[item]]
          /\ \A k \in Holders(store, item, n) : store[k].ver <= store[j].ver
    BY <1>6 DEF BestOf
  <2>2. Holders(store, item, n + 1) = Holders(store, item, n) \cup {n + 1}
    BY <1>2, <1>6
  <2>3. j \in 1 .. n /\ store[j].ver \in Nat /\ c.ver \in Nat
    BY <1>1, <1>3, <2>1
  <2>4. CASE c.ver > store[j].ver
    <3>1. Newer(b, c, item) = [ver |-> c.ver, mac |-> c.item[item]]
      BY <1>6, <2>1, <2>4 DEF Newer
    <3>2. \A k \in Holders(store, item, n + 1) : store[k].ver <= c.ver
      BY <1>1, <1>3, <2>1, <2>2, <2>3, <2>4
    <3> QED
      BY <2>2, <3>1, <3>2 DEF BestOf
  <2>5. CASE ~(c.ver > store[j].ver)
    <3>1. Newer(b, c, item) = b
      BY <2>1, <2>5 DEF Newer
    <3>2. \A k \in Holders(store, item, n + 1) : store[k].ver <= store[j].ver
      BY <2>1, <2>2, <2>3, <2>5
    <3> QED
      BY <2>1, <2>2, <3>1, <3>2 DEF BestOf
  <2> QED
    BY <2>4, <2>5
<1> QED
  BY <1>4, <1>5, <1>6

\* The loop of the reader, as the recursive function it is: it exists.
Loop(store, item, N) ==
  CHOOSE best : best = [n \in 0 .. N |-> IF n = 0 THEN NoneYet ELSE Newer(best[n - 1], store[n], item)]

LEMMA LoopUnrolls ==
  ASSUME NEW store, NEW item, NEW N \in Nat
  PROVE  Loop(store, item, N) =
           [n \in 0 .. N |-> IF n = 0 THEN NoneYet ELSE Newer(Loop(store, item, N)[n - 1], store[n], item)]
<1> DEFINE Is(g, m) == g = [n \in 0 .. m |-> IF n = 0 THEN NoneYet ELSE Newer(g[n - 1], store[n], item)]
           S == {m \in 0 .. N : \E g : Is(g, m)}
<1>1. 0 \in S
  <2>1. Is([n \in 0 .. 0 |-> NoneYet], 0)
    OBVIOUS
  <2>2. \E g : Is(g, 0)
    BY <2>1, Zenon
  <2> QED
    BY <2>2
<1>2. ASSUME NEW m \in 0 .. N - 1, m \in S PROVE m + 1 \in S
  <2>1. PICK g : Is(g, m)
    BY <1>2
  <2> DEFINE h == [n \in 0 .. m + 1 |-> IF n = m + 1 THEN Newer(g[m], store[n], item) ELSE g[n]]
  <2>2. Is(h, m + 1)
    <3>1. \A n \in 0 .. m + 1 : h[n] = IF n = 0 THEN NoneYet ELSE Newer(h[n - 1], store[n], item)
      BY <2>1
    <3> QED
      BY <3>1
  <2>3. \E f : Is(f, m + 1)
    <3> HIDE DEF h, Is
    <3> QED
      BY <2>2
  <2> QED
    BY <2>3
<1>3. N \in S
  <2> HIDE DEF S
  <2> QED
    BY <1>1, <1>2, CountedUp
<1>4. PICK g : Is(g, N)
  BY <1>3
<1> QED
  BY <1>4, Zenon DEF Loop

LEMMA ReaderIsLoop ==
  ASSUME NEW store, NEW item
  PROVE  VendorStorage(store, item) = Loop(store, item, Len(store))[Len(store)].mac
  BY Zenon DEF VendorStorage, Loop, NoneYet

\* The reader finds the address of the newest copy that holds an assigned one,
\* wherever that copy is and whatever the others hold (rk35xx-vendor-storage).
THEOREM ReaderFindsNewest ==
  ASSUME NEW store \in Seq(Copy), NEW item \in {"lan", "wifi"}
  PROVE  LET holders == {c \in Range(store) : c.tag /\ Assigned(c.item[item])}
             found   == VendorStorage(store, item)
         IN  IF holders = {} THEN found = "none"
             ELSE \E c \in holders : found = c.item[item] /\ \A d \in holders : d.ver <= c.ver
<1> DEFINE N == Len(store)
           best == Loop(store, item, N)
           S == {n \in 0 .. N : BestOf(store, item, n, best[n])}
           holders == {c \in Range(store) : c.tag /\ Assigned(c.item[item])}
<1>1. N \in Nat /\ DOMAIN store = 1 .. N
  OBVIOUS
<1>2. \A n \in 0 .. N : best[n] = IF n = 0 THEN NoneYet ELSE Newer(best[n - 1], store[n], item)
  BY <1>1, LoopUnrolls
<1> HIDE DEF best
<1>3. 0 \in S
  <2>1. Holders(store, item, 0) = {}
    BY DEF Holders
  <2> QED
    BY <1>1, <1>2, <2>1 DEF BestOf
<1>4. ASSUME NEW n \in 0 .. N - 1, n \in S PROVE n + 1 \in S
  <2>1. best[n + 1] = Newer(best[n], store[n + 1], item)
    BY <1>1, <1>2
  <2>2. BestOf(store, item, n, best[n])
    BY <1>4
  <2> QED
    BY <1>1, <2>1, <2>2, NewerKeepsBest
<1>5. N \in S
  <2> HIDE DEF S, N
  <2> QED
    BY <1>1, <1>3, <1>4, CountedUp
<1>6. VendorStorage(store, item) = best[N].mac
  BY ReaderIsLoop DEF best
<1>7. holders = {store[j] : j \in Holders(store, item, N)}
  BY <1>1 DEF Holders, Range
<1>8. CASE Holders(store, item, N) = {}
  <2>1. best[N] = NoneYet
    <3>1. BestOf(store, item, N, best[N])
      BY <1>5
    <3> HIDE DEF N
    <3> QED
      BY <1>8, <3>1, Zenon DEF BestOf
  <2>2. holders = {}
    BY <1>7, <1>8
  <2> HIDE DEF holders
  <2> QED
    BY <1>6, <2>1, <2>2 DEF holders, NoneYet
<1>9. CASE Holders(store, item, N) # {}
  <2>1. PICK j \in Holders(store, item, N) :
          /\ best[N] = [ver |-> store[j].ver, mac |-> store[j].item[item]]
          /\ \A k \in Holders(store, item, N) : store[k].ver <= store[j].ver
    BY <1>5, <1>9 DEF BestOf
  <2>2. store[j] \in holders /\ VendorStorage(store, item) = store[j].item[item]
    BY <1>6, <1>7, <2>1
  <2>3. \A d \in holders : d.ver <= store[j].ver
    BY <1>7, <2>1
  <2> QED
    BY <2>2, <2>3
<1> QED
  BY <1>8, <1>9

----------------------------------------------------------------------------
(* What the script and the network see. *)

LEMMA ItemIsItem == ASSUME NEW i, Item(i) # "none" PROVE Item(i) \in {"lan", "wifi"}
  BY DEF Item

\* The script wants for an interface what is its own.
LEMMA WantIsOwn ==
  ASSUME NEW i, box \in Boxes
  PROVE  Want(i) = Own(i)
<1> DEFINE holders == {c \in Range(box.store) : Item(i) # "none" /\ c.tag /\ Assigned(c.item[Item(i)])}
           found   == VendorStorage(box.store, Item(i))
           newest  == CHOOSE c \in holders : \A d \in holders : d.ver <= c.ver
<1>0. CASE Item(i) = "none"
  <2>1. holders = {}
    BY <1>0
  <2> QED
    BY <1>0, <2>1 DEF Want, Own
<1> SUFFICES ASSUME Item(i) # "none" PROVE Want(i) = Own(i)
  BY <1>0
<1>i. Item(i) \in {"lan", "wifi"}
  BY ItemIsItem
<1>1. box.store \in Seq(Copy) /\ \A c \in Range(box.store) : c \in Copy /\ c.ver \in Nat
  <2>1. box.store \in Seq(Copy)
    BY BoxAssumption DEF BoxAssumption, Box
  <2>2. Range(box.store) \subseteq Copy
    BY <2>1 DEF Range
  <2>3. \A c \in Copy : c.ver \in Nat
    BY DEF Copy
  <2> QED
    BY <2>1, <2>2, <2>3
<1>2. IF holders = {} THEN found = "none"
      ELSE \E c \in holders : found = c.item[Item(i)] /\ \A d \in holders : d.ver <= c.ver
  <2>1. holders = {c \in Range(box.store) : c.tag /\ Assigned(c.item[Item(i)])}
    OBVIOUS
  <2> HIDE DEF holders
  <2> QED
    BY <1>1, <1>i, <2>1, ReaderFindsNewest
<1>3. CASE holders = {}
  BY <1>2, <1>3 DEF Want, Own, Assigned
<1>4. CASE holders # {}
  <2>1. PICK c \in holders : found = c.item[Item(i)] /\ \A d \in holders : d.ver <= c.ver
    BY <1>2, <1>4
  <2>2. newest \in holders /\ \A d \in holders : d.ver <= newest.ver
    BY <2>1
  <2>3. c.ver = newest.ver
    BY <1>1, <2>1, <2>2
  <2>4. c.item = newest.item
    BY <2>1, <2>2, <2>3, VersionAssumption DEF VersionAssumption
  <2>5. Assigned(found) /\ found = newest.item[Item(i)]
    BY <2>1, <2>4
  <2> QED
    BY <1>4, <2>5 DEF Want, Own
<1> QED
  BY <1>3, <1>4

\* Some copy of any has the highest version.
Highest(store, U, j) == j \in U /\ \A k \in U : store[k].ver <= store[j].ver

LEMMA HighestVersion ==
  ASSUME NEW store \in Seq(Copy), NEW T, T # {}, \A k \in T : k \in 1 .. Len(store)
  PROVE  \E j \in T : \A k \in T : store[k].ver <= store[j].ver
<1> DEFINE N == Len(store)
           Upto(n) == {k \in T : k <= n}
           S == {n \in 0 .. N : Upto(n) = {} \/ \E j : Highest(store, Upto(n), j)}
<1>1. N \in Nat /\ \A k \in T : k \in 1 .. N /\ store[k].ver \in Nat
  <2>1. \A c \in Copy : c.ver \in Nat
    BY DEF Copy
  <2> QED
    BY <2>1
<1>2. 0 \in S
  <2>1. Upto(0) = {}
    BY <1>1
  <2> QED
    BY <1>1, <2>1
<1>3. ASSUME NEW n \in 0 .. N - 1, n \in S PROVE n + 1 \in S
  <2>1. CASE n + 1 \notin T
    <3>1. Upto(n + 1) = Upto(n)
      BY <1>1, <2>1
    <3>2. Upto(n) = {} \/ \E j : Highest(store, Upto(n), j)
      BY <1>3
    <3>3. n + 1 \in 0 .. N
      BY <1>1
    <3> HIDE DEF Upto
    <3> QED
      BY <3>1, <3>2, <3>3
  <2>2. CASE n + 1 \in T
    <3>1. Upto(n + 1) = Upto(n) \cup {n + 1} /\ store[n + 1].ver \in Nat
      BY <1>1, <2>2
    <3>2. \A k \in Upto(n) : store[k].ver \in Nat
      BY <1>1
    <3>3. Upto(n) = {} \/ \E j : Highest(store, Upto(n), j)
      BY <1>3
    <3> HIDE DEF Upto
    <3>4. CASE Upto(n) = {}
      <4>1. Highest(store, Upto(n + 1), n + 1)
        BY <3>1, <3>4 DEF Highest
      <4> QED
        BY <1>1, <4>1
    <3>5. ASSUME NEW j, Highest(store, Upto(n), j) PROVE n + 1 \in S
      <4>1. CASE store[n + 1].ver <= store[j].ver
        <5>1. Highest(store, Upto(n + 1), j)
          BY <3>1, <3>5, <4>1 DEF Highest
        <5> QED
          BY <1>1, <5>1
      <4>2. CASE ~(store[n + 1].ver <= store[j].ver)
        <5>1. Highest(store, Upto(n + 1), n + 1)
          BY <3>1, <3>2, <3>5, <4>2 DEF Highest
        <5> QED
          BY <1>1, <5>1
      <4> QED
        BY <4>1, <4>2
    <3> QED
      BY <3>3, <3>4, <3>5
  <2> QED
    BY <2>1, <2>2
<1>4. N \in S
  <2> HIDE DEF S, N
  <2>1. 0 .. N \subseteq S
    BY <1>1, <1>2, <1>3, CountedUp
  <2> QED
    BY <1>1, <2>1
<1>5. Upto(N) = T
  BY <1>1
<1> QED
  BY <1>4, <1>5 DEF Highest

\* An assigned address the kernel reads from the newest copy is the interface's own.
LEMMA ReadIsOwn ==
  ASSUME NEW i, box \in Boxes, Item(i) # "none", Assigned(KernelRead(box.store, Item(i)))
  PROVE  KernelRead(box.store, Item(i)) = Own(i)
<1> DEFINE copies  == {c \in Range(box.store) : c.tag}
           holders == {c \in Range(box.store) : Item(i) # "none" /\ c.tag /\ Assigned(c.item[Item(i)])}
           newest  == CHOOSE c \in copies : \A d \in copies : d.ver <= c.ver
           own     == CHOOSE c \in holders : \A d \in holders : d.ver <= c.ver
<1>1. \A c \in Range(box.store) : c.ver \in Nat
  <2>1. box.store \in Seq(Copy)
    BY BoxAssumption DEF BoxAssumption, Box
  <2>2. Range(box.store) \subseteq Copy
    BY <2>1 DEF Range
  <2>3. \A c \in Copy : c.ver \in Nat
    BY DEF Copy
  <2> QED
    BY <2>2, <2>3
<1>2. copies # {} /\ KernelRead(box.store, Item(i)) = newest.item[Item(i)]
  BY DEF KernelRead, Assigned
<1>3. \E c \in copies : \A d \in copies : d.ver <= c.ver
  <2> DEFINE T == {j \in DOMAIN box.store : box.store[j].tag}
  <2>1. (\A k \in T : k \in 1 .. Len(box.store)) /\ copies = {box.store[j] : j \in T}
    <3>1. box.store \in Seq(Copy)
      BY BoxAssumption DEF BoxAssumption, Box
    <3>2. DOMAIN box.store = 1 .. Len(box.store)
      BY <3>1
    <3> QED
      BY <3>2 DEF Range
  <2>2. T # {} /\ box.store \in Seq(Copy)
    BY <1>2, <2>1, BoxAssumption DEF BoxAssumption, Box
  <2>3. PICK j \in T : \A k \in T : box.store[k].ver <= box.store[j].ver
    <3> HIDE DEF T
    <3> QED
      BY <2>1, <2>2, HighestVersion
  <2> QED
    BY <2>1, <2>3
<1>4. newest \in copies /\ \A d \in copies : d.ver <= newest.ver
  BY <1>3
<1>5. newest \in holders /\ \A d \in holders : d.ver <= newest.ver
  BY <1>2, <1>4
<1>6. own \in holders /\ \A d \in holders : d.ver <= own.ver
  BY <1>5
<1>7. own.ver = newest.ver
  <2>1. own.ver \in Nat /\ newest.ver \in Nat
    BY <1>1, <1>4, <1>6
  <2>2. own.ver <= newest.ver /\ newest.ver <= own.ver
    BY <1>5, <1>6
  <2> HIDE DEF own, newest
  <2> QED
    BY <2>1, <2>2
<1>8. own.item = newest.item
  BY <1>4, <1>6, <1>7, VersionAssumption DEF VersionAssumption
<1> QED
  BY <1>2, <1>6, <1>8 DEF Own

\* The script has dealt with i: nothing to give it, missed, or given.
Done(i) == Want(i) = "none" \/ i \in missed \/ addr[i] = Want(i)

Handled ==
  /\ box \in Boxes
  /\ \A p \in Ports : port[p] # "bound" => addr[p] = "none"
  /\ managed => \A i \in Range(Listed) : Done(i)
  /\ ~managed /\ pc # "off" => \A n \in 1 .. line - 1 : Done(Listed[n])
  /\ pc = "up" => Done(iface)

\* It is inductive: addresses change only where there is none yet, or by the script.
LEMMA HandledStep == TypeOK /\ Handled /\ [Next]_vars => Handled'
<1> SUFFICES ASSUME TypeOK, Handled, [Next]_vars PROVE Handled'
  OBVIOUS
<1>t. /\ addr \in [Ifaces -> Address \cup {"none"}]
      /\ port \in [Ports -> {"unprobed", "deferred", "claiming", "bound"}]
      /\ line \in 1 .. Len(Listed) + 1
      /\ Len(Listed) \in Nat /\ DOMAIN Listed = 1 .. Len(Listed)
      /\ Ports \subseteq Ifaces /\ Radio \in Ifaces /\ Radio \notin Ports
  BY BoxAssumption DEF BoxAssumption, TypeOK, Ifaces
<1>l. \A i \in Range(Listed) : \E n \in 1 .. Len(Listed) : i = Listed[n]
  BY <1>t DEF Range
<1>e. (\A n \in 1 .. Len(Listed) : Done(Listed[n])) => \A i \in Range(Listed) : Done(i)
  BY <1>l
<1>w. UNCHANGED box => \A i : Want(i)' = Want(i)
  BY DEF Want, Item
<1>1. CASE UNCHANGED <<box, port, addr, pc, line, missed, managed>>
  BY <1>1 DEF Handled, Done, Want, Item, iface
<1>2. ASSUME NEW p \in Ports, Probe(p) PROVE Handled'
  <2>1. \A q \in Ports : port'[q] # "bound" => port[q] # "bound"
    BY <1>2, <1>t DEF Probe
  <2> QED
    BY <1>2, <2>1 DEF Probe, Handled, Done, Want, Item, iface, script
<1>3. ASSUME NEW p \in Ports, Claim(p) PROVE Handled'
  <2>1. addr[p] = "none"
    BY <1>3 DEF Claim, Handled
  <2>2. \A i : addr'[i] = addr[i] \/ addr[i] = "none"
    BY <1>3, <1>t, <2>1 DEF Claim
  <2>3. \A i : Done(i) => Done(i)'
    BY <1>3, <2>2 DEF Claim, Done, Want, Item, script
  <2>4. \A q \in Ports : port'[q] # "bound" => addr'[q] = "none"
    BY <1>3, <1>t DEF Claim, Handled
  <2> QED
    BY <1>3, <2>3, <2>4 DEF Claim, Handled, iface, script
<1>4. CASE LoadRadio
  <2>1. \A i : addr'[i] = addr[i] \/ addr[i] = "none"
    BY <1>4, <1>t DEF LoadRadio
  <2>2. \A i : Done(i) => Done(i)'
    BY <1>4, <2>1 DEF LoadRadio, Done, Want, Item, script
  <2>3. \A q \in Ports : addr'[q] = addr[q]
    BY <1>4, <1>t DEF LoadRadio
  <2> QED
    BY <1>4, <2>2, <2>3 DEF LoadRadio, Handled, iface, script, kernel
<1>5. CASE Start
  <2>1. \A i : Done(i)' = Done(i)
    BY <1>5 DEF Start, Done, Want, Item
  <2>2. line' = 1 /\ pc' = "line" /\ UNCHANGED <<box, port, addr, managed>>
    BY <1>5 DEF Start, kernel
  <2> QED
    BY <2>1, <2>2 DEF Handled
<1>6. CASE Finish
  <2>1. \A i : Done(i)' = Done(i)
    BY <1>6 DEF Finish, Done, Want, Item
  <2>2. ~managed => \A n \in 1 .. Len(Listed) : Done(Listed[n])
    BY <1>6, <1>t DEF Finish, Handled
  <2>3. \A i \in Range(Listed) : Done(i)
    BY <1>e, <2>2 DEF Handled
  <2> QED
    BY <1>6, <2>1, <2>3 DEF Finish, Handled, kernel
\* A step of the script at a line leaves that line dealt with, or stays at it.
<1>7. ASSUME NEW at, at = iface,
             pc # "off", pc' # "off", UNCHANGED <<box, port, managed>>,
             \A q \in Ports : port[q] # "bound" => addr'[q] = addr[q],
             \A i : Done(i) => Done(i)',
             \/ line' = line /\ (pc' = "up" => Done(at)')
             \/ line' = line + 1 /\ pc' = "line" /\ Done(at)'
      PROVE  Handled'
  <2>1. \A n \in 1 .. line - 1 : ~managed => Done(Listed[n])'
    BY <1>7 DEF Handled
  <2>3. ~managed' => \A n \in 1 .. line' - 1 : Done(Listed[n])'
    <3> SUFFICES ASSUME ~managed, NEW n \in 1 .. line' - 1 PROVE Done(Listed[n])'
      BY <1>7
    <3>1. CASE n \in 1 .. line - 1
      BY <2>1, <3>1
    <3>2. CASE n = line /\ line' = line + 1
      <4>1. at = Listed[n]
        BY <1>7, <3>2 DEF iface
      <4>2. Done(at)'
        BY <1>7, <1>t, <3>2
      <4> QED
        BY <4>1, <4>2
    <3>3. n \in 1 .. line - 1 \/ (n = line /\ line' = line + 1)
      BY <1>7, <1>t
    <3> QED
      BY <3>1, <3>2, <3>3
  <2>4. pc' = "up" => Done(iface)'
    <3> SUFFICES ASSUME pc' = "up" PROVE Done(iface)'
      OBVIOUS
    <3>1. line' = line /\ Done(at)'
      BY <1>7
    <3>2. at = iface'
      BY <1>7, <3>1 DEF iface
    <3> QED
      BY <3>1, <3>2
  <2>5. managed' => \A i \in Range(Listed) : Done(i)'
    BY <1>7 DEF Handled
  <2>6. \A q \in Ports : port'[q] # "bound" => addr'[q] = "none"
    BY <1>7 DEF Handled
  <2>7. box' \in Boxes
    BY <1>7 DEF Handled
  <2> QED
    BY <2>3, <2>4, <2>5, <2>6, <2>7 DEF Handled
<1>8. CASE ReadLine
  <2>1. \A i : Done(i)' = Done(i)
    BY <1>8 DEF ReadLine, NextLine, Done, Want, Item
  <2>2. Want(iface) = "none" => Done(iface)
    BY DEF Done
  <2> QED
    BY <1>7, <1>8, <2>1, <2>2 DEF ReadLine, NextLine, kernel
<1>9. CASE GiveUp
  <2>1. \A i : Done(i) \/ i = iface => Done(i)'
    BY <1>9 DEF GiveUp, NextLine, Done, Want, Item
  <2> QED
    BY <1>7, <1>9, <2>1 DEF GiveUp, NextLine, kernel
<1>10. CASE TakeDown
  <2>1. \A i : Done(i) => Done(i)'
    BY <1>10 DEF TakeDown, NextLine, Done, Want, Item
  <2>2. addr[iface] = Want(iface) => Done(iface)
    BY DEF Done
  <2> QED
    BY <1>7, <1>10, <2>1, <2>2 DEF TakeDown, NextLine, kernel
<1>11. CASE SetAddress
  <2>1. iface \in Ifaces /\ addr[iface] # "none"
    BY <1>11, <1>t, BoxAssumption DEF SetAddress, TypeOK, iface, BoxAssumption
  <2>2. ASSUME NEW i, Done(i) \/ i = iface PROVE Done(i)'
    <3>1. Want(i)' = Want(i)
      BY <1>11, <1>w DEF SetAddress
    <3>2. CASE missed' = missed \cup {iface} /\ UNCHANGED addr
      BY <2>2, <3>1, <3>2 DEF Done
    <3>3. CASE addr' = [addr EXCEPT ![iface] = Want(iface)] /\ missed' = missed \ {iface}
      <4>1. i = iface => addr'[i] = Want(i)
        BY <1>t, <2>1, <3>3
      <4>2. i # iface => addr'[i] = addr[i] /\ (i \in missed => i \in missed')
        BY <1>t, <3>3
      <4> QED
        BY <2>2, <3>1, <4>1, <4>2 DEF Done
    <3> QED
      BY <1>11, <3>2, <3>3 DEF SetAddress
  <2>3. \A q \in Ports : port[q] # "bound" => addr'[q] = addr[q]
    BY <1>11, <1>t, <2>1 DEF SetAddress, Handled
  <2> QED
    BY <1>7, <1>11, <2>2, <2>3 DEF SetAddress, kernel
<1>12. CASE BringUp
  <2>1. \A i : Done(i)' = Done(i)
    BY <1>12 DEF BringUp, NextLine, Done, Want, Item
  <2>2. Done(iface)
    BY <1>12 DEF BringUp, Handled
  <2> QED
    BY <1>7, <1>12, <2>1, <2>2 DEF BringUp, NextLine, kernel
<1>13. Register \/ Poll \/ Tick \/ UNCHANGED vars \/ (\E i \in Range(Listed) : Raise(i))
         => UNCHANGED <<box, port, addr, pc, line, missed, managed>>
  BY DEF Register, Poll, Tick, Raise, vars, kernel, script
<1> QED
  BY <1>1, <1>2, <1>3, <1>4, <1>5, <1>6, <1>8, <1>9, <1>10, <1>11, <1>12, <1>13 DEF Next, Script

LEMMA HandledAlways == Spec => [](TypeOK /\ Handled)
<1>1. Init => Handled
  BY DEF Init, Handled, Ifaces
<1> QED
  BY <1>1, HandledStep, TypeCorrect, PTL DEF Spec

\* Whatever the stores, the lines of mac-oui, drivers that load late and daemons
\* that raise what they see: network managers find an interface under its own
\* address, unless the script has missed it (MacAddress, NetworkSeesOwn).
THEOREM ManagersSeeOwn == Spec => []NetworkSeesOwn
<1>1. Handled => NetworkSeesOwn
  <2> SUFFICES ASSUME Handled, managed, NEW i \in Range(Listed)
               PROVE  addr[i] = Own(i) \/ Own(i) = "none" \/ i \in missed
    BY DEF NetworkSeesOwn
  <2>1. Want(i) = Own(i) /\ Done(i)
    BY WantIsOwn DEF Handled
  <2> QED
    BY <2>1 DEF Done
<1> QED
  BY <1>1, HandledAlways, PTL

\* Whatever the store holds and in whatever order its copies lie, as long as a newer
\* copy has a higher version: what the kernel read as assigned, the script does
\* not replace (MacAddress, KeepsLabel).
THEOREM LabelKept == Spec => KeepsLabel
<1> DEFINE A == \A i \in box.named \cup {Radio} :
                  addr[i] = KernelRead(box.store, Item(i)) /\ Assigned(addr[i]) => addr'[i] = addr[i]
<1>1. TypeOK /\ Handled /\ [Next]_vars => A
  <2> SUFFICES ASSUME TypeOK, Handled, [Next]_vars, NEW i \in box.named \cup {Radio},
                      addr[i] = KernelRead(box.store, Item(i)), Assigned(addr[i])
               PROVE  addr'[i] = addr[i]
    OBVIOUS
  <2>item. Item(i) # "none"
    BY DEF Item
  <2>1. addr[i] = Want(i)
    BY <2>item, WantIsOwn, ReadIsOwn DEF Handled
  <2>2. addr[i] # "none"
    BY DEF Assigned
  <2>3. addr \in [Ifaces -> Address \cup {"none"}]
    BY DEF TypeOK
  <2>4. ASSUME NEW p \in Ports, Claim(p) PROVE addr'[i] = addr[i]
    <3>1. addr[p] = "none"
      BY <2>4 DEF Claim, Handled
    <3> QED
      BY <2>2, <2>3, <2>4, <3>1 DEF Claim
  <2>if. i \in Ifaces
    BY DEF TypeOK, Box, Ifaces
  <2>5. CASE LoadRadio
    BY <2>2, <2>3, <2>5, <2>if DEF LoadRadio
  <2>6. CASE SetAddress
    BY <2>1, <2>3, <2>6, <2>if DEF SetAddress
  <2>7. Register \/ Start \/ Tick \/ UNCHANGED vars \/ (\E p \in Ports : Probe(p)) \/ (\E j \in Range(Listed) : Raise(j))
          => UNCHANGED addr
    BY DEF Register, Start, Tick, Probe, Raise, vars
  <2>8. ReadLine \/ Finish \/ Poll \/ GiveUp \/ TakeDown \/ BringUp => UNCHANGED addr
    BY DEF ReadLine, Finish, Poll, GiveUp, TakeDown, BringUp
  <2> QED
    BY <2>4, <2>5, <2>6, <2>7, <2>8 DEF Next, Script
<1> QED
  BY <1>1, HandledAlways, PTL DEF Spec, KeepsLabel
=============================================================================
