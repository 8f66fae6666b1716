------------------------------ MODULE RateControl -----------------------------
(***************************************************************************)
(* The rate control of the Seekwave firmware for one peer, from the        *)
(* decompiled image: a ladder of rates, statistics per rung, and a machine *)
(* that stays on the best rung it has heard of, tries one further up every *)
(* now and then, and waits the longer the more often that was in vain.     *)
(*                                                                         *)
(* rc is the peer's context with the configuration that goes with it.  The *)
(* hardware sends down a chain of eight rungs until a rate gets through,   *)
(* and counts; the radio (link) and the host are the environment.          *)
(***************************************************************************)
EXTENDS RateLadder

CONSTANTS
    Peers,          \* the capabilities a peer may come with
    Links,          \* how much gets through at each entry of the table, and is the peer far?
    MinTries,       \* cfg[0x25]
    Step,           \* cfg[0x29]: how far up a probe reaches
    Down,           \* cfg[0x2a]: how far apart the chain's further rungs are
    Loads,          \* frames sent at each rung reached, per evaluation
    Pins,           \* what a host may pin: codes and rungs
    MaxEvents       \* bound: changes of link and peer, and what the host does

ASSUME ControlAssumption ==
    /\ Links \subseteq [pct : [DOMAIN Table -> 0 .. 100], far : BOOLEAN]
    /\ MinTries \in Nat \ {0}
    /\ Step \in Nat
    /\ Down \in Nat \ {0}
    /\ Loads \subseteq Nat
    /\ MaxEvents \in Nat

\* a pinned rung is one that a ladder has room for
ASSUME HostAssumption ==
    /\ \A p \in Peers : p \in Capabilities
    /\ \A p \in Pins :
         /\ p[1] \in {"auto", "code", "rung"}
         /\ p[1] = "rung" => p[2] \in Rungs

VARIABLES
    rc,         \* the peer's context and the configuration
    link,       \* the radio
    events,     \* how many events there have been
    astray,     \* has the peer been given a shorter ladder, or a rate it does not have?
    beat        \* flips with every tick that has frames to count
vars == <<rc, link, events, astray, beat>>

Unheard == [tries |-> 0, count |-> 0, warm |-> FALSE, pct |-> 0]
Silence == [r \in Rungs |-> Unheard]

\* FUN_0012d124: a zeroed context; what is not the context's stays
Zeroed(c) ==
    [c EXCEPT !.ladder = [r \in Rungs |-> 1], !.top = 0, !.modern = 0, !.cur = 0,
              !.chain = [s \in 0 .. 7 |-> 0], !.stats = Silence, !.exponent = 0,
              !.countdown = 0, !.state = 0, !.phase = 0, !.narrowed = 0,
              !.rebuild = FALSE]

Least(a, b) == IF a < b THEN a ELSE b
\* a value as the signed char it is stored in
Char(n) == ((n + 128) % 256) - 128
Shifted(e) == <<1, 2, 4, 8, 16, 32, 64>>[e + 1]        \* 1 << e
-------------------------------------------------------------------------------
\* FUN_0012c338: the best rung that was tried often enough, or the one below all that failed
Score(c, r) == c.stats[r].pct * Table[c.ladder[r]].mbps
Best(c) ==
    LET eligible == {r \in Rungs : c.stats[r].tries >= MinTries}
        winners == {r \in eligible :
                      /\ Score(c, r) > 0
                      /\ \A q \in eligible : \/ Score(c, q) < Score(c, r)
                                             \/ Score(c, q) = Score(c, r) /\ q <= r}
        lowest == CHOOSE r \in eligible : \A q \in eligible : r <= q
    IN  IF eligible = {} THEN None
        ELSE IF winners # {} THEN CHOOSE r \in winners : TRUE
        ELSE IF lowest = 0 THEN 0 ELSE lowest - 1

\* what was heard is forgotten with every verdict
Forget(c) == [c EXCEPT !.stats = Silence]
-------------------------------------------------------------------------------
\* a variant: a probe is not held to the ladder
TargetUnclamped(c) == IF c.state = 2 THEN c.cur + Step ELSE c.cur
\* FUN_0012c478: the rung the next frames start at
Target(c) == IF c.state = 2 THEN Least(c.cur + Step, c.top) ELSE c.cur

(***************************************************************************)
(* FUN_0012c27a: below the first rung that is not a legacy one, a wide     *)
(* channel is narrowed before the rate is; two rungs above, it is widened. *)
(***************************************************************************)
Banded(c) == c.peer.width # 0 /\ c.state \in {1, 2} /\ c.modern # None
\* a variant: a channel is widened one rung later
WidensLate(c) == Banded(c) /\ c.modern + 2 < Target(c)
Widens(c) == Banded(c) /\ c.modern + 1 < Target(c)
Narrows(c) ==
    /\ Banded(c)
    /\ c.state = 1
    /\ Target(c) < c.modern
    /\ c.narrowed < c.peer.width
First(c) == IF Narrows(c) THEN c.modern ELSE Target(c)

\* a variant: the step below a low rung is not cut short
LowerUnchecked(r, k) == r - k
Lower(r, k) == IF r = 0 THEN 0 ELSE IF r < k THEN r - 1 ELSE r - k

\* the chain of a probe: Step rungs one by one, the further ones Down apart
ProbeChain(c) ==
    LET rung[s \in 0 .. 6] ==
          IF s = 0 THEN First(c)
          ELSE Lower(rung[s - 1], IF s < Step THEN 1 ELSE Down)
    IN  [s \in 0 .. 7 |->
            IF s < 7 THEN rung[s]
            ELSE IF c.modern < First(c) THEN c.modern ELSE 0]

\* any other chain: down to the bottom, behind which a few rungs above the first are tried
StayChain(c) ==
    LET rung[s \in 0 .. 6] ==
          IF s = 0 THEN First(c) ELSE Least(Lower(rung[s - 1], Down), c.top)
        bottom == IF \E s \in 0 .. 6 : rung[s] = 0
                    THEN CHOOSE s \in 0 .. 6 : rung[s] = 0 /\ \A t \in 0 .. s - 1 : rung[t] # 0
                    ELSE 7
    IN  [s \in 0 .. 7 |->
            IF s = 7 THEN IF c.modern < c.cur THEN c.modern ELSE 0
            ELSE IF s <= bottom THEN rung[s]
            ELSE IF s - bottom <= Step THEN Least(First(c) + (s - bottom), c.top)
            ELSE 0]

\* FUN_0012d15a: build the chain and hand it to the hardware
Push(c) ==
    IF c.mode # "auto" THEN [c EXCEPT !.chain = [s \in 0 .. 7 |-> c.cur]]
    ELSE [c EXCEPT !.chain = IF c.state = 2 THEN ProbeChain(c) ELSE StayChain(c),
                   !.narrowed = IF Widens(c) THEN 0
                                ELSE IF Narrows(c) THEN @ + 1 ELSE @]
-------------------------------------------------------------------------------
(***************************************************************************)
(* FUN_0012c740, the machine, by state.                                    *)
(***************************************************************************)
\* 0, a new ladder: start one below the top, or half-way up for a weak peer
Bootstrap(c) ==
    Push([c EXCEPT !.cur = IF link.far THEN c.top \div 2
                           ELSE IF c.top = 0 THEN 0 ELSE c.top - 1,
                   !.state = 1])

\* a variant: probes at every chance, whatever is left of the wait
ExploitAtOnce(c) ==
    LET best == Best(c)
        d == Forget(c)
    IN  IF best = None THEN c
        ELSE IF best # c.cur
            THEN Push([d EXCEPT !.cur = best, !.exponent = 0, !.countdown = 0,
                                !.state = IF best <= c.cur THEN 1 ELSE 2])
        ELSE IF best = c.top THEN d
        ELSE Push([d EXCEPT !.state = 2])

\* a variant: the wait is not counted down
ExploitStuck(c) ==
    LET best == Best(c)
        d == Forget(c)
    IN  IF best = None THEN c
        ELSE IF best # c.cur
            THEN Push([d EXCEPT !.cur = best, !.exponent = 0, !.countdown = 0,
                                !.state = IF best <= c.cur THEN 1 ELSE 2])
        ELSE IF best = c.top \/ c.countdown # 0 THEN d
        ELSE Push([d EXCEPT !.state = 2])

\* 1: take what is best; where nothing is better, probe once the countdown is over
Exploit(c) ==
    LET best == Best(c)
        d == Forget(c)
    IN  IF best = None THEN c
        ELSE IF best # c.cur
            THEN Push([d EXCEPT !.cur = best, !.exponent = 0, !.countdown = 0,
                                !.state = IF best <= c.cur THEN 1 ELSE 2])
        ELSE IF best = c.top THEN d
        ELSE IF c.countdown # 0 THEN [d EXCEPT !.countdown = Char(@ - 1)]
        ELSE Push([d EXCEPT !.state = 2])

\* a variant: one interval of probing less
LastPhaseEarly == 1
LastPhase == 2
\* a probe that was in vain doubles the wait for the next, up to 1 << 6
Backoff(c) ==
    LET e == IF c.exponent = 6 THEN 6 ELSE c.exponent + 1
    IN  [c EXCEPT !.exponent = e,
                  !.countdown = IF @ = -1 THEN -1 ELSE Char(@ + Shifted(e))]

\* 2: after three intervals of probing go by what was heard
Probe(c) ==
    LET counted == [c EXCEPT !.phase = @ + 1]
        best == Best(c)
        d == [Forget(c) EXCEPT !.phase = 0]
    IN  IF counted.phase <= LastPhase THEN Push([counted EXCEPT !.state = 3])
        ELSE IF best = None THEN Push([c EXCEPT !.phase = 0])
        ELSE IF c.cur < best
            THEN Push([d EXCEPT !.cur = best, !.exponent = 0, !.countdown = 0, !.state = 1])
        ELSE Push([Backoff(d) EXCEPT !.state = 1])

\* 3, between two intervals of probing
Space(c) == IF c.phase > LastPhase THEN Push(c) ELSE Push([c EXCEPT !.state = 2])

\* FUN_0012cf84: the rung of a code, one beyond the top if there is none
RungOf(c, code) ==
    LET found == {r \in 0 .. c.top : Table[c.ladder[r]].code = code}
    IN  IF found = {} THEN c.top + 1 ELSE CHOOSE r \in found : \A q \in found : r <= q
PinCode(c) ==
    IF c.sent = c.pin THEN c
    ELSE Push([c EXCEPT !.sent = c.pin, !.stats = Silence, !.cur = RungOf(c, c.pin)])

Advance(c) ==
    IF c.mode = "code" THEN PinCode(c)
    ELSE IF c.mode = "rung" THEN Push([c EXCEPT !.cur = c.pin])
    ELSE LET d == [c EXCEPT !.sent = "none"]
         IN  CASE d.state = 0 -> Bootstrap(d)
               [] d.state = 1 -> Exploit(d)
               [] d.state = 2 -> Probe(d)
               [] d.state = 3 -> Space(d)
-------------------------------------------------------------------------------
(***************************************************************************)
(* FUN_0012d284: a new ladder for what the peer can do.  A ladder without  *)
(* a rung leaves the old top.  The statistics stay.                        *)
(***************************************************************************)
Rebuild(c) ==
    Advance([c EXCEPT !.ladder = Ladder(c.peer),
                      !.top = IF Length(c.peer) = 0 THEN @ ELSE Length(c.peer) - 1,
                      !.modern = FirstModern(c.peer),
                      !.phase = 0, !.exponent = 0, !.countdown = 0,
                      !.mode = IF c.state = 0 THEN "auto" ELSE @,
                      !.state = 0])

(***************************************************************************)
(* FUN_0012d710: add what the hardware counted.  A slot of the chain is    *)
(* reached if frames are left over from those in front of it; slots of one *)
(* rung are counted as one.                                                *)
(***************************************************************************)
Average(u, pct) ==
    LET n == u.count + 1
    IN  IF ~u.warm /\ n < 8 THEN pct \div n + ((n - 1) * u.pct) \div n
        ELSE pct \div 8 + (7 * u.pct) \div 8

\* tries are only compared with MinTries, the count with 8
Heard(u, n, pct) ==
    [tries |-> Least(u.tries + n, MinTries), count |-> Least(u.count + 1, 8),
     warm |-> u.warm \/ u.count + 1 >= 8, pct |-> Average(u, pct)]

Measured(c, load) ==
    LET Pct(s) == link.pct[c.ladder[c.chain[s]]]
        reached == {s \in 0 .. 7 : \A t \in 0 .. s - 1 : Pct(t) < 100}
        Frames(r) == load * Cardinality({s \in reached : c.chain[s] = r})
    IN  [c EXCEPT !.stats = [r \in Rungs |->
            IF Frames(r) = 0 THEN @[r] ELSE Heard(@[r], Frames(r), link.pct[c.ladder[r]])]]

\* a peer that has come nearer is probed again at once, one much nearer gets a new ladder
Nearer(c, rise) ==
    IF rise = "none" THEN c
    ELSE [c EXCEPT !.exponent = 0, !.countdown = 0, !.rebuild = @ \/ rise = "much"]

\* without frames there are no statistics, and nothing moves
Evaluate(c, load, rise) ==
    IF load = 0 THEN c ELSE Advance(Nearer(Measured(c, load), rise))
-------------------------------------------------------------------------------
Present == rc.peer.speaks # {"nothing"}

Counted(n) == events + n <= MaxEvents /\ events' = events + n
Misses(c) == \/ c.mode = "code" /\ RungOf(c, c.pin) > c.top
             \/ c.mode = "rung" /\ c.pin > c.top
\* bound: a rate is missed only where the rung beyond the top is still one of the array's
Roomy(c) == Misses(c) => c.top + 1 \in Rungs

(***************************************************************************)
(* FUN_0012cc50, the periodic tick.  Of cfg[0x11] ticks all but one only   *)
(* look at the rebuild flags: they are ticks without frames.               *)
(***************************************************************************)
Tick(load, rise) ==
    /\ Present
    /\ Counted(IF rise = "none" THEN 0 ELSE 1)
    /\ LET c == IF rc.force \/ rc.rebuild
                  THEN [Rebuild(rc) EXCEPT !.force = FALSE, !.rebuild = FALSE]
                  ELSE rc
       IN  rc' = Evaluate(c, load, rise)
    /\ beat' = IF load = 0 THEN beat ELSE 1 - beat
    /\ UNCHANGED <<link, astray>>

\* thunk_FUN_0012d710: a beacon of another strength has the statistics looked at at once
Beacon(load, rise) ==
    /\ Present
    /\ Counted(IF rise = "none" THEN 1 ELSE 2)
    /\ rc' = Evaluate(rc, load, rise)
    /\ UNCHANGED <<link, astray, beat>>

\* a peer appears, or comes back with other capabilities
Associate(p) ==
    /\ Counted(IF Present THEN 1 ELSE 0)
    /\ rc' = Rebuild([rc EXCEPT !.peer = p])
    /\ Roomy(rc')
    /\ astray' = (astray \/ rc'.top < rc.top \/ Misses(rc'))
    /\ UNCHANGED <<link, beat>>

\* FUN_001388b8: the entry is taken for a peer whose capabilities are yet to
\* come, and its context zeroed; the last one's leaving, in the ROM, is no other
NewEntry ==
    /\ Present
    /\ Counted(1)
    /\ rc' = [Zeroed(rc) EXCEPT !.peer.speaks = {"nothing"}]
    /\ astray' = FALSE
    /\ UNCHANGED <<link, beat>>

\* command 0x50; bit 1 of cfg[8], which nothing in the image sets, has a rebuild
\* of its own in the tick
ForceRebuild ==
    /\ Present /\ ~rc.force
    /\ Counted(1)
    /\ rc' = [rc EXCEPT !.force = TRUE]
    /\ UNCHANGED <<link, astray, beat>>

\* the host pins a code or a rung, or lets go again
Pin(mode, pin) ==
    /\ Present /\ mode # rc.mode
    /\ Counted(IF mode = "auto" THEN 0 ELSE 1)
    /\ rc' = [rc EXCEPT !.mode = mode, !.pin = pin]
    /\ Roomy(rc')
    /\ astray' = (astray \/ Misses(rc'))
    /\ UNCHANGED <<link, beat>>

LinkChanges(l) ==
    /\ Counted(1)
    /\ link' = l
    /\ UNCHANGED <<rc, astray, beat>>
-------------------------------------------------------------------------------
Rises == {"none", "some", "much"}

Init ==
    /\ rc = [ladder |-> [r \in Rungs |-> 1], top |-> 0, modern |-> 0, cur |-> 0,
             chain |-> [s \in 0 .. 7 |-> 0], stats |-> Silence, exponent |-> 0,
             countdown |-> 0, state |-> 0, phase |-> 0, narrowed |-> 0,
             rebuild |-> FALSE, force |-> FALSE, mode |-> "auto", pin |-> "none",
             sent |-> "none", peer |-> [speaks |-> {"nothing"}]]
    /\ link \in Links
    /\ events = 0
    /\ astray = FALSE
    /\ beat = 0

Next ==
    \/ \E load \in Loads, rise \in Rises : Tick(load, rise) \/ Beacon(load, rise)
    \/ \E p \in Peers : Associate(p)
    \/ NewEntry \/ ForceRebuild
    \/ \E pin \in Pins : Pin(pin[1], pin[2])
    \/ \E l \in Links : LinkChanges(l)

Spec == Init /\ [][Next]_vars

(***************************************************************************)
(* Fairness: the tick is a timer's, and traffic goes on.  A step of Next   *)
(* that flips the beat is a tick with frames, which a peer's presence is   *)
(* enough for.                                                             *)
(***************************************************************************)
Busy == Present /\ beat' = 1 - beat
FairSpec == Spec /\ WF_beat(Busy)
-------------------------------------------------------------------------------
(***************************************************************************)
(* Properties.                                                             *)
(***************************************************************************)
TypeOK ==
    /\ rc.ladder \in [Rungs -> DOMAIN Table]
    /\ rc.top \in Rungs /\ rc.cur \in Rungs
    /\ rc.modern \in Rungs \cup {None}
    /\ rc.chain \in [0 .. 7 -> Rungs]
    /\ rc.stats \in [Rungs -> [tries : 0 .. MinTries, count : 0 .. 8, warm : BOOLEAN, pct : 0 .. 100]]
    /\ rc.state \in 0 .. 3 /\ rc.phase \in 0 .. LastPhase
    /\ rc.exponent \in 0 .. 6 /\ rc.countdown \in -128 .. 127
    /\ rc.narrowed \in 0 .. 2
    /\ rc.rebuild \in BOOLEAN /\ rc.force \in BOOLEAN
    /\ rc.mode \in {"auto", "code", "rung"}
    /\ link \in Links
    /\ events \in 0 .. MaxEvents
    /\ astray \in BOOLEAN
    /\ beat \in {0, 1}

(***************************************************************************)
(* The wait for the next probe is at most 64 evaluations however many have *)
(* been in vain: the sum that is stored into a signed char never leaves    *)
(* it, because a probe begins with nothing left of the last wait.          *)
(***************************************************************************)
BackoffBounded ==
    /\ rc.countdown \in 0 .. 64
    /\ rc.countdown # 0 => rc.state = 1

(***************************************************************************)
(* Nothing is sent at a rung beyond the ladder, unless the peer was given  *)
(* a shorter ladder, or a rate it does not have, since it appeared.        *)
(***************************************************************************)
OnLadder ==
    ~astray => /\ rc.cur <= rc.top
               /\ \A s \in 0 .. 7 : rc.chain[s] <= rc.top

\* the rung at which most gets through
Goal ==
    LET Yield(r) == link.pct[rc.ladder[r]] * Table[rc.ladder[r]].mbps
        good == {r \in 0 .. rc.top : Yield(r) > 0 /\ \A q \in 0 .. rc.top : Yield(q) <= Yield(r)}
    IN  IF good = {} THEN 0 ELSE CHOOSE r \in good : \A q \in good : q <= r

Adapting == Present /\ rc.mode = "auto"

(***************************************************************************)
(* With some traffic left, however little, the rate ends up at the rung at *)
(* which most gets through, from above and from below, and a channel that  *)
(* was narrowed on the way is widened again if that is two rungs up.       *)
(***************************************************************************)
Settles ==
    <>[](Adapting /\ ~astray =>
           /\ rc.cur = Goal
           /\ rc.modern # None /\ Goal > rc.modern + 1 => rc.narrowed = 0)

\* a peer below the top is probed again and again, astray or not
KeepsProbing == []<>(Adapting => rc.cur = rc.top \/ rc.state = 2)
===============================================================================
