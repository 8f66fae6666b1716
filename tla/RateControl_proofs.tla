--------------------------- MODULE RateControl_proofs --------------------------
(***************************************************************************)
(* Theorems of RateLadder and RateControl, for every table, ladder, peer,  *)
(* radio and configuration: the wait between two probes is bounded, the    *)
(* ladder lists what a peer can be sent at, in order, a context keeps its  *)
(* types, and nothing is sent at a rung beyond the ladder.                 *)
(***************************************************************************)
EXTENDS RateControl, FiniteSetTheorems, WellFoundedInduction, TLAPS

(* The wait. *)

Waiting == {"state", "exponent", "countdown"}

\* BackoffBounded as it is inductive, of any context
Sound(c) ==
    /\ Waiting \subseteq DOMAIN c
    /\ c.state \in 0 .. 3
    /\ c.exponent \in 0 .. 6
    /\ c.countdown \in 0 .. 64
    /\ c.countdown # 0 => c.state = 1

LEMMA PushSound == ASSUME NEW c, Sound(c) PROVE Sound(Push(c))
  BY DEF Push, Sound, Waiting

LEMMA BootstrapSound == ASSUME NEW c, Sound(c) PROVE Sound(Bootstrap(c))
<1> DEFINE d == [c EXCEPT !.cur = IF link.far THEN c.top \div 2
                                  ELSE IF c.top = 0 THEN 0 ELSE c.top - 1,
                          !.state = 1]
<1>1. Sound(d)
  BY DEF Sound, Waiting
<1> QED
  BY <1>1, PushSound DEF Bootstrap

\* counting down stays in the signed char
LEMMA CharDown == ASSUME NEW n \in 1 .. 64 PROVE Char(n - 1) = n - 1
  BY DEF Char

LEMMA ExploitSound == ASSUME NEW c, Sound(c) PROVE Sound(Exploit(c))
<1> DEFINE best == Best(c)
           d == Forget(c)
           moved == [d EXCEPT !.cur = best, !.exponent = 0, !.countdown = 0,
                              !.state = IF best <= c.cur THEN 1 ELSE 2]
           waits == [d EXCEPT !.countdown = Char(@ - 1)]
           probes == [d EXCEPT !.state = 2]
<1>1. Sound(d) /\ d.countdown = c.countdown /\ d.state = c.state
  BY DEF Forget, Sound, Waiting
<1>2. Sound(moved)
  BY <1>1 DEF Sound, Waiting
<1>3. CASE c.countdown # 0
  <2>1. Char(d.countdown - 1) = d.countdown - 1
    BY <1>1, <1>3, CharDown DEF Sound
  <2>2. Sound(waits)
    BY <1>1, <1>3, <2>1 DEF Sound, Waiting
  <2> HIDE DEF d, moved, waits, probes
  <2> QED
    BY <1>1, <1>2, <1>3, <2>2, PushSound DEF Exploit, d, moved, waits, probes
<1>4. CASE c.countdown = 0
  <2>1. Sound(probes)
    BY <1>1, <1>4 DEF Sound, Waiting
  <2> QED
    BY <1>1, <1>2, <1>4, <2>1, PushSound DEF Exploit
<1> QED
  BY <1>3, <1>4

\* the wait that follows a probe begins with nothing left of the last
LEMMA BackoffSound ==
    ASSUME NEW c, Sound(c), c.countdown = 0
    PROVE  Sound([Backoff(c) EXCEPT !.state = 1])
<1> DEFINE e == IF c.exponent = 6 THEN 6 ELSE c.exponent + 1
<1>1. e \in 1 .. 6
  BY DEF Sound
<1>2. Shifted(e) \in 2 .. 64
  BY <1>1 DEF Shifted
<1>3. Char(c.countdown + Shifted(e)) = Shifted(e)
  BY <1>2 DEF Char
<1> QED
  BY <1>1, <1>2, <1>3 DEF Backoff, Sound, Waiting

LEMMA ProbeSound == ASSUME NEW c, Sound(c), c.state = 2 PROVE Sound(Probe(c))
<1> DEFINE d == [Forget(c) EXCEPT !.phase = 0]
           on == [[c EXCEPT !.phase = @ + 1] EXCEPT !.state = 3]
           again == [c EXCEPT !.phase = 0]
           won == [d EXCEPT !.cur = Best(c), !.exponent = 0, !.countdown = 0, !.state = 1]
           lost == [Backoff(d) EXCEPT !.state = 1]
<1>1. Sound(d) /\ d.countdown = 0
  BY DEF Forget, Sound, Waiting
<1>2. Sound(on) /\ Sound(again)
  BY DEF Sound, Waiting
<1>3. Sound(won)
  BY <1>1 DEF Sound, Waiting
<1>4. Sound(lost)
  BY <1>1, BackoffSound
<1> HIDE DEF d, on, again, won, lost
<1>5. Sound(Push(on)) /\ Sound(Push(again)) /\ Sound(Push(won)) /\ Sound(Push(lost))
  BY <1>2, <1>3, <1>4, PushSound
<1> QED
  BY <1>5 DEF Probe, d, on, again, won, lost

LEMMA SpaceSound == ASSUME NEW c, Sound(c), c.state = 3 PROVE Sound(Space(c))
<1>1. Sound([c EXCEPT !.state = 2])
  BY DEF Sound, Waiting
<1> QED
  BY <1>1, PushSound DEF Space

LEMMA PinCodeSound == ASSUME NEW c, Sound(c) PROVE Sound(PinCode(c))
<1>1. Sound([c EXCEPT !.sent = c.pin, !.stats = Silence, !.cur = RungOf(c, c.pin)])
  BY DEF Sound, Waiting
<1> QED
  BY <1>1, PushSound DEF PinCode

LEMMA AdvanceSound == ASSUME NEW c, Sound(c) PROVE Sound(Advance(c))
<1>1. CASE c.mode = "code"
  BY <1>1, PinCodeSound DEF Advance
<1>2. CASE c.mode = "rung"
  <2>1. Sound([c EXCEPT !.cur = c.pin])
    BY DEF Sound, Waiting
  <2> QED
    BY <1>2, <2>1, PushSound DEF Advance
<1>3. CASE c.mode \notin {"code", "rung"}
  <2> DEFINE d == [c EXCEPT !.sent = "none"]
  <2>1. Sound(d) /\ d.state \in 0 .. 3
    BY DEF Sound, Waiting
  <2> HIDE DEF d
  <2>2. Sound(Bootstrap(d)) /\ Sound(Exploit(d))
    BY <2>1, BootstrapSound, ExploitSound
  <2>3. d.state = 2 => Sound(Probe(d))
    BY <2>1, ProbeSound
  <2>4. d.state = 3 => Sound(Space(d))
    BY <2>1, SpaceSound
  <2>5. Advance(c) = CASE d.state = 0 -> Bootstrap(d)
                       [] d.state = 1 -> Exploit(d)
                       [] d.state = 2 -> Probe(d)
                       [] d.state = 3 -> Space(d)
    BY <1>3 DEF Advance, d
  <2>6. d.state = 0 \/ d.state = 1 \/ d.state = 2 \/ d.state = 3
    BY <2>1
  <2> QED
    BY <2>2, <2>3, <2>4, <2>5, <2>6
<1> QED
  BY <1>1, <1>2, <1>3
-------------------------------------------------------------------------------
LEMMA RebuildSound == ASSUME NEW c, Sound(c) PROVE Sound(Rebuild(c))
<1> DEFINE d == [c EXCEPT !.ladder = Ladder(c.peer),
                          !.top = IF Length(c.peer) = 0 THEN @ ELSE Length(c.peer) - 1,
                          !.modern = FirstModern(c.peer),
                          !.phase = 0, !.exponent = 0, !.countdown = 0,
                          !.mode = IF c.state = 0 THEN "auto" ELSE @,
                          !.state = 0]
<1>1. Sound(d)
  BY DEF Sound, Waiting
<1> HIDE DEF d
<1>2. Sound(Advance(d))
  BY <1>1, AdvanceSound
<1> QED
  BY <1>2 DEF Rebuild, d

LEMMA EvaluateSound ==
    ASSUME NEW c, Sound(c), NEW load, NEW rise
    PROVE  Sound(Evaluate(c, load, rise))
<1>1. Sound(Measured(c, load))
  BY DEF Measured, Sound, Waiting
<1>2. \A d : Sound(d) => Sound(Nearer(d, rise))
  BY DEF Nearer, Sound, Waiting
<1>3. Sound(Advance(Nearer(Measured(c, load), rise)))
  BY <1>1, <1>2, AdvanceSound
<1> QED
  BY <1>3 DEF Evaluate

(***************************************************************************)
(* However many probes are in vain, the wait for the next one stays within *)
(* 64 evaluations, and nothing of it is left when the next one begins:     *)
(* the sum FUN_0012c740 stores into a signed char does not wrap.           *)
(***************************************************************************)
THEOREM WaitBounded == Spec => []BackoffBounded
<1>1. Init => Sound(rc)
  BY DEF Init, Sound, Waiting
<1>2. Sound(rc) /\ [Next]_vars => Sound(rc)'
  <2> SUFFICES ASSUME Sound(rc), [Next]_vars PROVE Sound(rc')
    BY DEF Sound, Waiting
  <2>1. ASSUME NEW load, NEW rise, Tick(load, rise) PROVE Sound(rc')
    <3> DEFINE fresh == [Rebuild(rc) EXCEPT !.force = FALSE, !.rebuild = FALSE]
               c == IF rc.force \/ rc.rebuild THEN fresh ELSE rc
    <3>1. Sound(Rebuild(rc))
      BY RebuildSound
    <3>2. Sound(fresh)
      BY <3>1 DEF Sound, Waiting
    <3>3. Sound(c)
      BY <3>2
    <3> HIDE DEF fresh, c
    <3>4. Sound(Evaluate(c, load, rise))
      BY <3>3, EvaluateSound
    <3> QED
      BY <2>1, <3>4 DEF Tick, c, fresh
  <2>2. ASSUME NEW load, NEW rise, Beacon(load, rise) PROVE Sound(rc')
    BY <2>2, EvaluateSound DEF Beacon
  <2>3. ASSUME NEW p, Associate(p) PROVE Sound(rc')
    <3>1. Sound([rc EXCEPT !.peer = p])
      BY DEF Sound, Waiting
    <3> QED
      BY <2>3, <3>1, RebuildSound DEF Associate
  <2>4. CASE NewEntry
    <3> DEFINE c == Zeroed(rc)
    <3>1. Sound(c)
      <4>1. DOMAIN c = DOMAIN rc
        BY Zenon DEF Zeroed
      <4>2. c.state = 0 /\ c.exponent = 0 /\ c.countdown = 0
        BY Zenon DEF Zeroed, Sound, Waiting
      <4> QED
        BY <4>1, <4>2 DEF Sound
    <3> HIDE DEF c
    <3>2. Sound([c EXCEPT !.peer.speaks = {"nothing"}])
      BY <3>1 DEF Sound, Waiting
    <3> QED
      BY <2>4, <3>2 DEF NewEntry, c
  <2>5. CASE ForceRebuild
    BY <2>5 DEF ForceRebuild, Sound, Waiting
  <2>6. ASSUME NEW m, NEW pin, Pin(m, pin) PROVE Sound(rc')
    BY <2>6 DEF Pin, Sound, Waiting
  <2>7. ASSUME NEW l, LinkChanges(l) PROVE Sound(rc')
    BY <2>7 DEF LinkChanges
  <2>8. CASE UNCHANGED vars
    BY <2>8 DEF vars
  <2> QED
    BY <2>1, <2>2, <2>3, <2>4, <2>5, <2>6, <2>7, <2>8 DEF Next
<1>3. Sound(rc) => BackoffBounded
  BY DEF Sound, BackoffBounded
<1> QED
  BY <1>1, <1>2, <1>3, PTL DEF Spec
-------------------------------------------------------------------------------
LEMMA WeightedBounded ==
    ASSUME NEW n \in 1 .. 7, NEW old \in 0 .. 100, NEW new \in 0 .. 100
    PROVE  new \div n + ((n - 1) * old) \div n \in 0 .. 100
<1>1. n = 1 \/ n = 2 \/ n = 3 \/ n = 4 \/ n = 5 \/ n = 6 \/ n = 7
  OBVIOUS
<1>2. CASE n = 1
  BY <1>2
<1>3. CASE n = 2
  BY <1>3
<1>4. CASE n = 3
  BY <1>4
<1>5. CASE n = 4
  BY <1>5
<1>6. CASE n = 5
  BY <1>6
<1>7. CASE n = 6
  BY <1>7
<1>8. CASE n = 7
  BY <1>8
<1> QED
  BY <1>1, <1>2, <1>3, <1>4, <1>5, <1>6, <1>7, <1>8

(***************************************************************************)
(* The two roundings of FUN_0012d710's running average, by the count while *)
(* a rung is new and by eighths afterwards, never carry it out of the      *)
(* percentages, so the byte it is kept in does not overflow.               *)
(***************************************************************************)
THEOREM AverageIsPercentage ==
    ASSUME NEW u, u.count \in Nat, u.pct \in 0 .. 100, NEW pct \in 0 .. 100
    PROVE  Average(u, pct) \in 0 .. 100
<1> DEFINE n == u.count + 1
<1>1. CASE ~u.warm /\ n < 8
  <2>1. n \in 1 .. 7
    BY <1>1
  <2>2. pct \div n + ((n - 1) * u.pct) \div n \in 0 .. 100
    BY <2>1, WeightedBounded
  <2> QED
    BY <1>1, <2>2 DEF Average
<1>2. CASE ~(~u.warm /\ n < 8)
  <2>1. pct \div 8 + (7 * u.pct) \div 8 \in 0 .. 100
    OBVIOUS
  <2> QED
    BY <1>2, <2>1 DEF Average
<1> QED
  BY <1>1, <1>2
-------------------------------------------------------------------------------
(* Sets of naturals. *)

\* Every set of naturals that is not empty has a least element.
LEMMA LeastNatural ==
    ASSUME NEW S \in SUBSET Nat, S # {}
    PROVE  \E m \in S : \A k \in S : m <= k
<1> DEFINE R == OpToRel(<, Nat)
<1>1. IsWellFoundedOn(R, Nat)
  BY NatLessThanWellFounded
<1>2. \A k, m \in Nat : k < m => <<k, m>> \in R
  BY DEF OpToRel
<1> HIDE DEF R
<1>3. PICK m \in S : \A k \in S : ~(<<k, m>> \in R)
  BY <1>1, WFMin
<1>4. \A k \in S : ~(k < m)
  BY <1>2, <1>3, Zenon
<1>5. \A k \in S : m <= k
  BY <1>4
<1> QED
  BY <1>5

\* And a bounded one has a greatest.
LEMMA GreatestNatural ==
    ASSUME NEW n \in Nat, NEW S, \A k \in S : k \in 0 .. n, S # {}
    PROVE  \E m \in S : \A k \in S : k <= m
<1> DEFINE D == {n - k : k \in S}
<1>1. D \in SUBSET Nat /\ D # {}
  OBVIOUS
<1>2. PICK d \in D : \A e \in D : d <= e
  <2> HIDE DEF D
  <2> QED
    BY <1>1, LeastNatural
<1>3. n - d \in S /\ d \in 0 .. n
  BY <1>2
<1>4. \A k \in S : n - k \in D
  OBVIOUS
<1>5. ASSUME NEW k \in S PROVE k <= n - d
  <2>1. d <= n - k
    BY <1>2, <1>4
  <2>2. k \in 0 .. n
    OBVIOUS
  <2> QED
    BY <1>3, <2>1, <2>2
<1> QED
  BY <1>3, <1>5
-------------------------------------------------------------------------------
(* The ladder. *)

Below(S, i) == {j \in S : j < i}
Rank(S, i) == Cardinality(Below(S, i))

LEMMA KeptFinite ==
    ASSUME NEW p
    PROVE  /\ \A i \in Kept(p) : i \in 1 .. Len(Table) /\ i \in DOMAIN Table /\ Usable(p, Table[i])
           /\ IsFiniteSet(Kept(p)) /\ Cardinality(Kept(p)) \in Nat
<1>1. Len(Table) \in Nat /\ DOMAIN Table = 1 .. Len(Table)
  BY TableAssumption DEF TableAssumption
<1>2. \A i \in Kept(p) : i \in DOMAIN Table /\ Usable(p, Table[i])
  BY Zenon DEF Kept
<1>3. \A i \in Kept(p) : i \in 1 .. Len(Table)
  BY <1>1, <1>2
<1>4. IsFiniteSet(1 .. Len(Table))
  BY <1>1, FS_Interval
<1>5. Kept(p) \in SUBSET (1 .. Len(Table))
  BY <1>3
<1>6. IsFiniteSet(Kept(p))
  BY <1>4, <1>5, FS_Subset
<1> QED
  BY <1>2, <1>3, <1>6, FS_CardinalityType

LEMMA LengthTyped ==
    ASSUME NEW p
    PROVE  /\ Length(p) \in 0 .. MaxRungs
           /\ Length(p) <= Cardinality(Kept(p))
<1>1. Cardinality(Kept(p)) \in Nat
  BY KeptFinite
<1> QED
  BY <1>1, TableAssumption DEF Length, TableAssumption

\* The element of a given rank in a finite set of naturals.
LEMMA RankReached ==
    ASSUME NEW S \in SUBSET Nat, IsFiniteSet(S), NEW r \in Nat, r < Cardinality(S),
           r = 0 \/ \E i \in S : Rank(S, i) = r - 1
    PROVE  \E i \in S : Rank(S, i) = r
<1>card. Cardinality(S) \in Nat
  BY FS_CardinalityType
<1>nat. \A k \in S : k \in Nat
  OBVIOUS
<1>1. CASE r = 0
  <2>1. S # {}
    BY <1>1, FS_EmptySet
  <2>2. PICK m \in S : \A k \in S : m <= k
    BY <2>1, LeastNatural
  <2>3. \A k \in S : ~(k < m)
    BY <1>nat, <2>2
  <2>4. Below(S, m) = {}
    BY <2>3, Zenon DEF Below
  <2> QED
    BY <1>1, <2>2, <2>4, FS_EmptySet DEF Rank
<1>2. CASE r # 0
  <2>1. PICK i \in S : Rank(S, i) = r - 1
    BY <1>2
  <2> DEFINE Rest == {k \in S : i < k}
             Low == Below(S, i)
  <2>2. Low \in SUBSET S /\ IsFiniteSet(Low) /\ i \notin Low
    <3>1. Low \in SUBSET S /\ i \notin Low
      BY DEF Below
    <3> QED
      BY <3>1, FS_Subset
  <2>3. Cardinality(Low \cup {i}) = r
    <3>1. Cardinality(Low) = r - 1
      BY <2>1 DEF Rank
    <3> HIDE DEF Low
    <3>2. Cardinality(Low \cup {i}) = Cardinality(Low) + 1
      BY <2>2, FS_AddElement
    <3> QED
      BY <3>1, <3>2
  <2>4. Rest # {}
    <3> SUFFICES ASSUME Rest = {} PROVE FALSE
      OBVIOUS
    <3>1. \A k \in S : k < i \/ k = i
      BY <1>nat
    <3>2. S = Low \cup {i}
      BY <3>1 DEF Below
    <3> HIDE DEF Low, Rest
    <3> QED
      BY <2>3, <3>2, <1>card
  <2>5. PICK m \in Rest : \A k \in Rest : m <= k
    <3>1. Rest \in SUBSET Nat
      OBVIOUS
    <3> HIDE DEF Rest
    <3> QED
      BY <2>4, <3>1, LeastNatural
  <2>6. Below(S, m) = Low \cup {i}
    <3>1. \A k \in S : k < m <=> k < i \/ k = i
      <4>1. m \in S /\ i < m /\ \A k \in S : i < k => m <= k
        BY <2>5
      <4> QED
        BY <1>nat, <4>1
    <3> QED
      BY <3>1, <2>1 DEF Below
  <2>7. m \in S
    BY <2>5
  <2> QED
    BY <2>3, <2>6, <2>7 DEF Rank
<1> QED
  BY <1>1, <1>2

LEMMA RankExists ==
    ASSUME NEW S \in SUBSET Nat, IsFiniteSet(S)
    PROVE  \A r \in Nat : r < Cardinality(S) => \E i \in S : Rank(S, i) = r
<1> DEFINE Missing == {r \in Nat : r < Cardinality(S) /\ ~\E i \in S : Rank(S, i) = r}
<1> SUFFICES ASSUME Missing # {} PROVE FALSE
  OBVIOUS
<1>1. Cardinality(S) \in Nat
  BY FS_CardinalityType
<1>2. PICK r \in Missing : \A q \in Missing : r <= q
  <2>1. Missing \in SUBSET Nat
    OBVIOUS
  <2> HIDE DEF Missing
  <2> QED
    BY <2>1, LeastNatural
<1>3. r \in Nat /\ r < Cardinality(S) /\ ~\E i \in S : Rank(S, i) = r
  BY <1>2
<1>4. r = 0 \/ \E i \in S : Rank(S, i) = r - 1
  <2> SUFFICES ASSUME r # 0, ~\E i \in S : Rank(S, i) = r - 1 PROVE FALSE
    OBVIOUS
  <2>1. r - 1 \in Nat /\ r - 1 < Cardinality(S)
    BY <1>1, <1>3
  <2>2. r - 1 \in Missing
    BY <2>1
  <2> HIDE DEF Missing
  <2> QED
    BY <1>2, <1>3, <2>2
<1>5. \E i \in S : Rank(S, i) = r
  <2> HIDE DEF Missing
  <2> QED
    BY <1>3, <1>4, RankReached
<1> QED
  BY <1>3, <1>5

\* Ranks are smaller than the size of the set, and ascend with the elements.
LEMMA RankAscends ==
    ASSUME NEW S \in SUBSET Nat, IsFiniteSet(S), NEW i \in S
    PROVE  /\ Rank(S, i) \in Nat /\ Rank(S, i) < Cardinality(S)
           /\ \A j \in S : i < j => Rank(S, i) < Rank(S, j)
<1>1. \A T : (i \notin T /\ Below(S, i) \subseteq T /\ T \subseteq S) =>
               Rank(S, i) \in Nat /\ Rank(S, i) <= Cardinality(T) /\ Cardinality(T) \in Nat /\ IsFiniteSet(T)
  <2> SUFFICES ASSUME NEW T, Below(S, i) \subseteq T, T \subseteq S
               PROVE  Rank(S, i) \in Nat /\ Rank(S, i) <= Cardinality(T) /\ Cardinality(T) \in Nat /\ IsFiniteSet(T)
    OBVIOUS
  <2>1. IsFiniteSet(T)
    BY FS_Subset
  <2>2. IsFiniteSet(Below(S, i)) /\ Cardinality(Below(S, i)) <= Cardinality(T)
    BY <2>1, FS_Subset
  <2> QED
    BY <2>1, <2>2, FS_CardinalityType DEF Rank
<1>2. \A U : Below(S, i) \cup {i} \subseteq U /\ U \subseteq S => Rank(S, i) \in Nat /\ Rank(S, i) < Cardinality(U)
  <2> SUFFICES ASSUME NEW U, Below(S, i) \cup {i} \subseteq U, U \subseteq S
               PROVE  Rank(S, i) \in Nat /\ Rank(S, i) < Cardinality(U)
    OBVIOUS
  <2> DEFINE T == U \ {i}
  <2>0. i \notin Below(S, i)
    BY DEF Below
  <2>1. i \notin T /\ Below(S, i) \subseteq T /\ T \subseteq S
    BY <2>0
  <2>2. IsFiniteSet(U)
    BY FS_Subset
  <2>3. Cardinality(U) \in Nat /\ Cardinality(T) = Cardinality(U) - 1
    BY <2>2, FS_RemoveElement, FS_CardinalityType
  <2> HIDE DEF T
  <2>4. Rank(S, i) \in Nat /\ Rank(S, i) <= Cardinality(T) /\ Cardinality(T) \in Nat
    BY <1>1, <2>1
  <2> QED
    BY <2>3, <2>4
<1>3. Below(S, i) \cup {i} \subseteq S
  BY DEF Below
<1>4. \A j \in S : i < j => Below(S, i) \cup {i} \subseteq Below(S, j) /\ Below(S, j) \subseteq S
  <2>1. \A j, k \in S : k < i /\ i < j => k < j
    <3>1. \A k \in S : k \in Nat
      OBVIOUS
    <3> QED
      BY <3>1
  <2> QED
    BY <2>1 DEF Below
<1> QED
  BY <1>2, <1>3, <1>4 DEF Rank

\* The rung r of a peer's ladder is the kept entry with r kept ones before it.
LEMMA RungIsKept ==
    ASSUME NEW p, NEW r \in Nat, r < Length(p)
    PROVE  /\ r \in Rungs
           /\ Ladder(p)[r] \in Kept(p)
           /\ Rank(Kept(p), Ladder(p)[r]) = r
<1>1. r \in Rungs
  BY LengthTyped, TableAssumption DEF Rungs, TableAssumption
<1>2. r < Cardinality(Kept(p))
  BY LengthTyped, KeptFinite
<1>3. Kept(p) \in SUBSET Nat /\ IsFiniteSet(Kept(p))
  BY KeptFinite
<1>4. \E i \in Kept(p) : Rank(Kept(p), i) = r
  BY <1>2, <1>3, RankExists
<1>5. Ladder(p)[r] = CHOOSE i \in Kept(p) : Rank(Kept(p), i) = r
  BY <1>1 DEF Ladder, Rank, Below
<1> QED
  BY <1>1, <1>4, <1>5

(***************************************************************************)
(* FUN_0012d284 fills a ladder with the entries a peer can be sent at, in  *)
(* the table's order, whatever the table and the peer: every rung below    *)
(* Length is a usable entry, a higher rung is a later entry, and as long   *)
(* as they fit, every kept entry has its rung.                             *)
(***************************************************************************)
THEOREM LadderListsKept ==
    ASSUME NEW p
    PROVE  /\ \A r \in 0 .. Length(p) - 1 : Usable(p, Table[Ladder(p)[r]])
           /\ \A r, q \in 0 .. Length(p) - 1 : r < q => Ladder(p)[r] < Ladder(p)[q]
           /\ Cardinality(Kept(p)) <= MaxRungs =>
                \A i \in Kept(p) : \E r \in 0 .. Length(p) - 1 : Ladder(p)[r] = i
<1>kept. Kept(p) \in SUBSET Nat /\ IsFiniteSet(Kept(p)) /\ Cardinality(Kept(p)) \in Nat
  BY KeptFinite
<1>len. Length(p) \in Nat
  BY LengthTyped
<1>1. \A r \in 0 .. Length(p) - 1 : Ladder(p)[r] \in Kept(p) /\ Rank(Kept(p), Ladder(p)[r]) = r
  BY <1>len, RungIsKept
<1>2. \A r \in 0 .. Length(p) - 1 : Usable(p, Table[Ladder(p)[r]])
  BY <1>1, KeptFinite
<1>3. ASSUME NEW r \in 0 .. Length(p) - 1, NEW q \in 0 .. Length(p) - 1, r < q
      PROVE  Ladder(p)[r] < Ladder(p)[q]
  <2> DEFINE a == Ladder(p)[r]
             b == Ladder(p)[q]
  <2>1. a \in Kept(p) /\ b \in Kept(p) /\ Rank(Kept(p), a) = r /\ Rank(Kept(p), b) = q
    BY <1>1
  <2> HIDE DEF a, b
  <2>2. a \in Nat /\ b \in Nat
    BY <1>kept, <2>1
  <2>3. b < a => q < r
    BY <1>kept, <2>1, RankAscends
  <2>4. a # b
    BY <1>3, <2>1
  <2>5. a < b
    BY <1>3, <2>2, <2>3, <2>4
  <2> QED
    BY <2>5 DEF a, b
<1>4. ASSUME Cardinality(Kept(p)) <= MaxRungs, NEW i \in Kept(p)
      PROVE  \E r \in 0 .. Length(p) - 1 : Ladder(p)[r] = i
  <2> DEFINE r == Rank(Kept(p), i)
             a == Ladder(p)[r]
  <2>1. r \in Nat /\ r < Cardinality(Kept(p))
    BY <1>kept, RankAscends
  <2>2. Length(p) = Cardinality(Kept(p))
    BY <1>4, <1>kept, TableAssumption DEF Length, TableAssumption
  <2>3. a \in Kept(p) /\ Rank(Kept(p), a) = r
    BY <2>1, <2>2, RungIsKept
  <2>4. r \in 0 .. Length(p) - 1
    BY <2>1, <2>2, <1>len
  <2>5. ~(a < i) /\ ~(i < a)
    <3> HIDE DEF a
    <3>1. a < i => Rank(Kept(p), a) < r
      BY <1>kept, <2>3, RankAscends
    <3>2. i < a => r < Rank(Kept(p), a)
      BY <1>kept, <2>3, RankAscends
    <3> HIDE DEF r
    <3> QED
      BY <2>1, <2>3, <3>1, <3>2
  <2>6. a = i
    <3> HIDE DEF a
    <3> QED
      BY <1>kept, <2>3, <2>5
  <2> QED
    BY <2>4, <2>6
<1> QED
  BY <1>2, <1>3, <1>4
-------------------------------------------------------------------------------
(* The chain and the rungs: what stays within a limit. *)

\* RungOf and FirstModern, of the parts of a context they look at.
Place(ladder, top, code) ==
    LET found == {r \in 0 .. top : Table[ladder[r]].code = code}
    IN  IF found = {} THEN top + 1 ELSE CHOOSE r \in found : \A q \in found : r <= q

LEMMA RungOfIsPlace == ASSUME NEW c, NEW code PROVE RungOf(c, code) = Place(c.ladder, c.top, code)
  BY DEF RungOf, Place

LEMMA PlaceTyped == ASSUME NEW ladder, NEW top \in Nat, NEW code PROVE Place(ladder, top, code) \in 0 .. top + 1
<1> DEFINE found == {r \in 0 .. top : Table[ladder[r]].code = code}
<1>1. CASE found = {}
  BY <1>1 DEF Place
<1>2. CASE found # {}
  <2>1. found \in SUBSET Nat
    OBVIOUS
  <2>5. \A r \in found : r \in 0 .. top + 1
    OBVIOUS
  <2>2. Place(ladder, top, code) = CHOOSE r \in found : \A q \in found : r <= q
    BY <1>2 DEF Place
  <2> HIDE DEF found
  <2>3. \E r \in found : \A q \in found : r <= q
    BY <1>2, <2>1, LeastNatural
  <2>4. Place(ladder, top, code) \in found
    BY <2>2, <2>3
  <2> QED
    BY <2>4, <2>5
<1> QED
  BY <1>1, <1>2

LEMMA FirstModernTyped ==
    ASSUME NEW p
    PROVE  FirstModern(p) = None \/ FirstModern(p) \in 0 .. Length(p) - 1
<1> DEFINE modern == {r \in 0 .. Length(p) - 1 : Table[Ladder(p)[r]].kind \in {"HT", "VHT", "HE"}}
           double == {r \in 0 .. Length(p) - 1 : Table[Ladder(p)[r]].nss = 2}
<1>len. Length(p) \in Nat
  BY LengthTyped
<1>1. CASE double # {}
  <2>1. \A r \in double : r \in 0 .. Length(p) - 1
    OBVIOUS
  <2>2. FirstModern(p) = CHOOSE r \in double : \A q \in double : q <= r
    BY <1>1 DEF FirstModern
  <2> HIDE DEF double
  <2>3. Length(p) - 1 \in Nat
    BY <1>1, <1>len, <2>1
  <2>4. \E r \in double : \A q \in double : q <= r
    BY <1>1, <2>1, <2>3, GreatestNatural
  <2> QED
    BY <2>1, <2>2, <2>4
<1>2. CASE double = {} /\ modern # {}
  <2>1. modern \in SUBSET Nat /\ \A r \in modern : r \in 0 .. Length(p) - 1
    BY <1>len
  <2>2. FirstModern(p) = CHOOSE r \in modern : \A q \in modern : r <= q
    BY <1>2 DEF FirstModern
  <2> HIDE DEF modern
  <2>3. \E r \in modern : \A q \in modern : r <= q
    BY <1>2, <2>1, LeastNatural
  <2> QED
    BY <2>1, <2>2, <2>3
<1>3. CASE double = {} /\ modern = {}
  BY <1>3 DEF FirstModern
<1> QED
  BY <1>1, <1>2, <1>3

Ladders == [Rungs -> DOMAIN Table]

LEMMA LadderTyped == ASSUME NEW p PROVE Ladder(p) \in Ladders
<1>1. 1 \in DOMAIN Table
  BY TableAssumption DEF TableAssumption
<1>2. \A r \in Rungs : r < Length(p) => Ladder(p)[r] \in DOMAIN Table
  <2>1. \A r \in Rungs : r \in Nat
    BY TableAssumption DEF Rungs, TableAssumption
  <2> QED
    BY <2>1, RungIsKept, KeptFinite
<1>3. ASSUME NEW r \in Rungs PROVE Ladder(p)[r] \in DOMAIN Table
  <2>1. CASE r < Length(p)
    BY <1>2, <2>1
  <2>2. CASE ~(r < Length(p))
    BY <1>1, <2>2 DEF Ladder
  <2> QED
    BY <2>1, <2>2
<1>4. Ladder(p) = [r \in Rungs |-> Ladder(p)[r]]
  BY DEF Ladder
<1> QED
  BY <1>3, <1>4 DEF Ladders
-------------------------------------------------------------------------------
\* The parts of a context, with the sets they are in.
Entries    == [tries : 0 .. MinTries, count : 0 .. 8, warm : BOOLEAN, pct : 0 .. 100]
Statistics == [Rungs -> Entries]
Chains     == [0 .. 7 -> Rungs]
Fields ==
    {"ladder", "top", "modern", "cur", "chain", "stats", "exponent", "countdown", "state",
     "phase", "narrowed", "rebuild", "force", "mode", "pin", "sent", "peer"}

Shaped(c) ==
    /\ Fields \subseteq DOMAIN c
    /\ c.ladder \in Ladders
    /\ c.top \in Rungs /\ c.cur \in Rungs
    /\ c.modern \in Rungs \cup {None}
    /\ c.chain \in Chains
    /\ c.stats \in Statistics
    /\ c.state \in 0 .. 3 /\ c.phase \in 0 .. LastPhase
    /\ c.exponent \in 0 .. 6 /\ c.countdown \in -128 .. 127
    /\ c.narrowed \in 0 .. 2
    /\ c.rebuild \in BOOLEAN /\ c.force \in BOOLEAN
    /\ c.mode \in {"auto", "code", "rung"}

\* Nothing was heard of a rung beyond the limit, and no frame is sent there.
QuietAbove(stats, limit) == \A r \in Rungs : r > limit => stats[r].tries = 0
ChainWithin(chain, limit) == \A s \in 0 .. 7 : chain[s] \in 0 .. limit

(***************************************************************************)
(* What a context keeps to: with the highest rung there is room for as the *)
(* limit it is the typing of the rungs, with the top of the ladder it is   *)
(* OnLadder with what makes it inductive.                                  *)
(***************************************************************************)
Within(c, limit) ==
    /\ Shaped(c)
    /\ c.peer.width \in 0 .. 2
    /\ c.cur <= limit /\ c.top <= limit
    /\ ChainWithin(c.chain, limit)
    /\ c.modern = None \/ c.modern <= limit
    /\ QuietAbove(c.stats, limit)
    /\ c.mode = "code" => Place(c.ladder, c.top, c.pin) \in 0 .. limit
    /\ c.mode = "rung" => c.pin \in 0 .. limit

LEMMA RungsTyped ==
    ASSUME NEW limit \in Rungs
    PROVE  /\ MaxRungs \in Nat \ {0} /\ limit \in Nat /\ limit < MaxRungs
           /\ \A r \in Rungs : r \in Nat
           /\ \A r \in 0 .. limit : r \in Rungs
           /\ None \notin Rungs /\ None = MaxRungs
  BY TableAssumption DEF Rungs, None, TableAssumption

LEMMA FirstWithin ==
    ASSUME NEW limit \in Rungs, NEW c, Within(c, limit)
    PROVE  Target(c) \in 0 .. limit /\ First(c) \in 0 .. limit
<1>1. c.cur \in Nat /\ c.cur <= limit /\ c.top \in Nat /\ c.top <= limit /\ limit \in Nat
  BY RungsTyped DEF Within, Shaped
<1>2. Step \in Nat
  BY ControlAssumption DEF ControlAssumption
<1>3. Target(c) \in 0 .. limit
  BY <1>1, <1>2 DEF Target, Least
<1>4. Narrows(c) => c.modern \in 0 .. limit
  <2>1. c.modern \in Rungs \cup {None} /\ (c.modern = None \/ c.modern <= limit)
    BY DEF Within, Shaped
  <2>2. Narrows(c) => c.modern # None
    BY DEF Narrows, Banded
  <2> QED
    BY <2>1, <2>2, RungsTyped
<1> QED
  BY <1>3, <1>4 DEF First

LEMMA LowerWithin ==
    ASSUME NEW limit \in Nat, NEW r \in 0 .. limit, NEW k \in Nat \ {0}
    PROVE  Lower(r, k) \in 0 .. limit
  BY DEF Lower

\* A recursion over the slots of a chain has the value it unrolls to.
LEMMA SlotsUnroll ==
    ASSUME NEW R, NEW first \in R, NEW next \in [1 .. 6 -> [R -> R]]
    PROVE  \E g \in [0 .. 6 -> R] : g = [s \in 0 .. 6 |-> IF s = 0 THEN first ELSE next[s][g[s - 1]]]
<1> DEFINE v1 == next[1][first]
           v2 == next[2][v1]
           v3 == next[3][v2]
           v4 == next[4][v3]
           v5 == next[5][v4]
           v6 == next[6][v5]
<1>0. \A s \in 1 .. 6 : \A x \in R : next[s][x] \in R
  OBVIOUS
<1>1. v1 \in R /\ v1 = next[1][first]
  BY <1>0
<1> HIDE DEF v1
<1>2. v2 \in R /\ v2 = next[2][v1]
  BY <1>0, <1>1
<1> HIDE DEF v2
<1>3. v3 \in R /\ v3 = next[3][v2]
  BY <1>0, <1>2
<1> HIDE DEF v3
<1>4. v4 \in R /\ v4 = next[4][v3]
  BY <1>0, <1>3
<1> HIDE DEF v4
<1>5. v5 \in R /\ v5 = next[5][v4]
  BY <1>0, <1>4
<1> HIDE DEF v5
<1>6. v6 \in R /\ v6 = next[6][v5]
  BY <1>0, <1>5
<1> HIDE DEF v6
<1> DEFINE g == [s \in 0 .. 6 |-> IF s = 0 THEN first ELSE IF s = 1 THEN v1 ELSE IF s = 2 THEN v2
                                  ELSE IF s = 3 THEN v3 ELSE IF s = 4 THEN v4 ELSE IF s = 5 THEN v5 ELSE v6]
<1>7. g \in [0 .. 6 -> R]
  BY <1>1, <1>2, <1>3, <1>4, <1>5, <1>6
<1>8. g[0] = first /\ g[1] = v1 /\ g[2] = v2 /\ g[3] = v3 /\ g[4] = v4 /\ g[5] = v5 /\ g[6] = v6
  OBVIOUS
<1> HIDE DEF g
<1>9. ASSUME NEW s \in 0 .. 6
      PROVE  g[s] = IF s = 0 THEN first ELSE next[s][g[s - 1]]
  <2>1. s = 0 \/ s = 1 \/ s = 2 \/ s = 3 \/ s = 4 \/ s = 5 \/ s = 6
    OBVIOUS
  <2>2. CASE s = 0
    BY <2>2, <1>8
  <2>3. CASE s = 1 \/ s = 2 \/ s = 3
    BY <2>3, <1>1, <1>2, <1>3, <1>8
  <2>4. CASE s = 4 \/ s = 5 \/ s = 6
    BY <2>4, <1>4, <1>5, <1>6, <1>8
  <2> QED
    BY <2>1, <2>2, <2>3, <2>4
<1>10. g = [s \in 0 .. 6 |-> IF s = 0 THEN first ELSE next[s][g[s - 1]]]
  BY <1>7, <1>9
<1> QED
  BY <1>7, <1>10

\* A property that each slot hands to the next holds in all of them.
LEMMA SlotsStay ==
    ASSUME NEW R, NEW g, g[0] \in R, \A s \in 1 .. 6 : g[s - 1] \in R => g[s] \in R
    PROVE  \A s \in 0 .. 6 : g[s] \in R
<1>1. g[1] \in R
  OBVIOUS
<1>2. g[2] \in R
  BY <1>1
<1>3. g[3] \in R
  BY <1>2
<1>4. g[4] \in R
  BY <1>3
<1>5. g[5] \in R
  BY <1>4
<1>6. g[6] \in R
  BY <1>5
<1> QED
  BY <1>1, <1>2, <1>3, <1>4, <1>5, <1>6

\* The recursions of the two chains.
ProbeRungs(c) ==
    LET rung[s \in 0 .. 6] ==
          IF s = 0 THEN First(c)
          ELSE Lower(rung[s - 1], IF s < Step THEN 1 ELSE Down)
    IN  rung
StayRungs(c) ==
    LET rung[s \in 0 .. 6] ==
          IF s = 0 THEN First(c) ELSE Least(Lower(rung[s - 1], Down), c.top)
    IN  rung

LEMMA ProbeRungsWithin ==
    ASSUME NEW limit \in Rungs, NEW c, First(c) \in 0 .. limit
    PROVE  \A s \in 0 .. 6 : ProbeRungs(c)[s] \in 0 .. limit
<1> DEFINE R == 0 .. limit
           next == [s \in 1 .. 6 |-> [r \in R |-> Lower(r, IF s < Step THEN 1 ELSE Down)]]
           Is(g) == g = [s \in 0 .. 6 |-> IF s = 0 THEN First(c)
                                          ELSE Lower(g[s - 1], IF s < Step THEN 1 ELSE Down)]
<1>1. next \in [1 .. 6 -> [R -> R]]
  <2>1. limit \in Nat /\ Down \in Nat \ {0}
    BY RungsTyped, ControlAssumption DEF ControlAssumption
  <2>2. \A s \in 1 .. 6 : \A r \in R : Lower(r, IF s < Step THEN 1 ELSE Down) \in R
    BY <2>1, LowerWithin
  <2> QED
    BY <2>2
<1>2. ASSUME NEW g, Is(g) PROVE \A s \in 0 .. 6 : g[s] \in R
  <2>1. \A s \in 0 .. 6 : g[s] = IF s = 0 THEN First(c) ELSE Lower(g[s - 1], IF s < Step THEN 1 ELSE Down)
    BY <1>2
  <2>2. \A s \in 1 .. 6 : \A r \in R : Lower(r, IF s < Step THEN 1 ELSE Down) \in R
    <3>1. limit \in Nat /\ Down \in Nat \ {0}
      BY RungsTyped, ControlAssumption DEF ControlAssumption
    <3> QED
      BY <3>1, LowerWithin
  <2>3. g[0] \in R
    BY <2>1
  <2> HIDE DEF R
  <2>4. \A s \in 1 .. 6 : g[s - 1] \in R => g[s] \in R
    BY <2>1, <2>2
  <2> QED
    BY <2>3, <2>4, SlotsStay
<1>3. \E g : Is(g)
  <2>1. PICK g \in [0 .. 6 -> R] : g = [s \in 0 .. 6 |-> IF s = 0 THEN First(c) ELSE next[s][g[s - 1]]]
    <3>1. First(c) \in R
      OBVIOUS
    <3> HIDE DEF next, R
    <3> QED
      BY <1>1, <3>1, SlotsUnroll
  <2>2. \A s \in 1 .. 6 : next[s][g[s - 1]] = Lower(g[s - 1], IF s < Step THEN 1 ELSE Down)
    OBVIOUS
  <2>3. Is(g)
    <3> HIDE DEF next
    <3>1. \A s \in 0 .. 6 : g[s] = IF s = 0 THEN First(c) ELSE Lower(g[s - 1], IF s < Step THEN 1 ELSE Down)
      BY <2>1, <2>2
    <3> QED
      BY <3>1, <2>1
  <2> HIDE DEF Is
  <2> QED
    BY <2>3
<1>4. Is(ProbeRungs(c))
  <2>1. PICK g : Is(g)
    BY <1>3
  <2> QED
    BY <2>1, Zenon DEF ProbeRungs
<1> QED
  BY <1>2, <1>4

LEMMA StayRungsWithin ==
    ASSUME NEW limit \in Rungs, NEW c, First(c) \in 0 .. limit, c.top \in 0 .. limit
    PROVE  \A s \in 0 .. 6 : StayRungs(c)[s] \in 0 .. limit
<1> DEFINE R == 0 .. limit
           next == [s \in 1 .. 6 |-> [r \in R |-> Least(Lower(r, Down), c.top)]]
           Is(g) == g = [s \in 0 .. 6 |-> IF s = 0 THEN First(c) ELSE Least(Lower(g[s - 1], Down), c.top)]
<1>0. \A r \in R : Least(Lower(r, Down), c.top) \in R
  <2>1. limit \in Nat /\ Down \in Nat \ {0}
    BY RungsTyped, ControlAssumption DEF ControlAssumption
  <2>2. \A r \in R : Lower(r, Down) \in R
    BY <2>1, LowerWithin
  <2> QED
    BY <2>2 DEF Least
<1>1. next \in [1 .. 6 -> [R -> R]]
  BY <1>0
<1>2. ASSUME NEW g, Is(g) PROVE \A s \in 0 .. 6 : g[s] \in R
  <2>1. \A s \in 0 .. 6 : g[s] = IF s = 0 THEN First(c) ELSE Least(Lower(g[s - 1], Down), c.top)
    BY <1>2
  <2>3. g[0] \in R
    BY <2>1
  <2> HIDE DEF R
  <2>4. \A s \in 1 .. 6 : g[s - 1] \in R => g[s] \in R
    BY <1>0, <2>1
  <2> QED
    BY <2>3, <2>4, SlotsStay
<1>3. \E g : Is(g)
  <2>1. PICK g \in [0 .. 6 -> R] : g = [s \in 0 .. 6 |-> IF s = 0 THEN First(c) ELSE next[s][g[s - 1]]]
    <3>1. First(c) \in R
      OBVIOUS
    <3> HIDE DEF next, R
    <3> QED
      BY <1>1, <3>1, SlotsUnroll
  <2>2. \A s \in 1 .. 6 : next[s][g[s - 1]] = Least(Lower(g[s - 1], Down), c.top)
    OBVIOUS
  <2>3. Is(g)
    <3> HIDE DEF next
    <3>1. \A s \in 0 .. 6 : g[s] = IF s = 0 THEN First(c) ELSE Least(Lower(g[s - 1], Down), c.top)
      BY <2>1, <2>2
    <3> QED
      BY <3>1, <2>1
  <2> HIDE DEF Is
  <2> QED
    BY <2>3
<1>4. Is(StayRungs(c))
  <2>1. PICK g : Is(g)
    BY <1>3
  <2> QED
    BY <2>1, Zenon DEF StayRungs
<1> QED
  BY <1>2, <1>4

LEMMA ProbeChainWithin ==
    ASSUME NEW limit \in Rungs, NEW c, Within(c, limit)
    PROVE  ProbeChain(c) \in Chains /\ ChainWithin(ProbeChain(c), limit)
<1> DEFINE rung == ProbeRungs(c)
<1>1. ProbeChain(c) = [s \in 0 .. 7 |-> IF s < 7 THEN rung[s]
                                        ELSE IF c.modern < First(c) THEN c.modern ELSE 0]
  BY Zenon DEF ProbeChain, ProbeRungs
<1>2. First(c) \in 0 .. limit
  BY FirstWithin
<1>3. \A s \in 0 .. 6 : rung[s] \in 0 .. limit
  BY <1>2, ProbeRungsWithin
<1> HIDE DEF rung
<1>4. limit \in Nat /\ c.modern \in Nat /\ \A r \in 0 .. limit : r \in Rungs
  BY RungsTyped DEF Within, Shaped
<1>5. \A s \in 0 .. 7 : ProbeChain(c)[s] \in 0 .. limit
  BY <1>1, <1>2, <1>3, <1>4
<1>6. \A s \in 0 .. 7 : ProbeChain(c)[s] \in Rungs
  BY <1>4, <1>5
<1> QED
  BY <1>1, <1>5, <1>6 DEF Chains, ChainWithin

LEMMA StayChainWithin ==
    ASSUME NEW limit \in Rungs, NEW c, Within(c, limit)
    PROVE  StayChain(c) \in Chains /\ ChainWithin(StayChain(c), limit)
<1> DEFINE rung == StayRungs(c)
           bottom == IF \E s \in 0 .. 6 : rung[s] = 0
                       THEN CHOOSE s \in 0 .. 6 : rung[s] = 0 /\ \A t \in 0 .. s - 1 : rung[t] # 0
                       ELSE 7
<1>1. StayChain(c) = [s \in 0 .. 7 |->
            IF s = 7 THEN IF c.modern < c.cur THEN c.modern ELSE 0
            ELSE IF s <= bottom THEN rung[s]
            ELSE IF s - bottom <= Step THEN Least(First(c) + (s - bottom), c.top)
            ELSE 0]
  BY Zenon DEF StayChain, StayRungs
<1>2. First(c) \in 0 .. limit
  BY FirstWithin
<1>4. limit \in Nat /\ c.modern \in Nat /\ c.cur \in 0 .. limit /\ c.top \in 0 .. limit
      /\ \A r \in 0 .. limit : r \in Rungs
  BY RungsTyped DEF Within, Shaped
<1>3. \A s \in 0 .. 6 : rung[s] \in 0 .. limit
  BY <1>2, <1>4, StayRungsWithin
<1>5. bottom \in 0 .. 7
  <2> DEFINE zeros == {s \in 0 .. 6 : rung[s] = 0}
  <2>1. CASE zeros = {}
    BY <2>1
  <2>2. CASE zeros # {}
    <3>1. zeros \in SUBSET Nat
      OBVIOUS
    <3>2. PICK m \in zeros : \A k \in zeros : m <= k
      <4> HIDE DEF zeros
      <4> QED
        BY <2>2, <3>1, LeastNatural
    <3>3. m \in 0 .. 6 /\ rung[m] = 0 /\ \A t \in 0 .. m - 1 : rung[t] # 0
      <4>1. m \in 0 .. 6 /\ rung[m] = 0
        OBVIOUS
      <4>2. \A t \in 0 .. m - 1 : t \in 0 .. 6 /\ ~(m <= t)
        BY <4>1
      <4>3. \A t \in 0 .. m - 1 : rung[t] # 0
        BY <3>2, <4>2
      <4> QED
        BY <4>1, <4>3
    <3> HIDE DEF rung, zeros
    <3>4. bottom \in 0 .. 6
      BY <3>3
    <3> QED
      BY <3>4
  <2> QED
    BY <2>1, <2>2
<1> HIDE DEF rung, bottom
<1>6. ASSUME NEW s \in 0 .. 7 PROVE StayChain(c)[s] \in 0 .. limit
  <2>1. CASE s = 7
    BY <1>1, <1>4, <2>1
  <2>2. CASE s # 7 /\ s <= bottom
    BY <1>1, <1>3, <2>2
  <2>3. CASE s # 7 /\ ~(s <= bottom)
    <3>1. First(c) + (s - bottom) \in Nat
      BY <1>2, <1>4, <1>5, <2>3
    <3>2. Least(First(c) + (s - bottom), c.top) \in 0 .. limit
      BY <1>4, <3>1 DEF Least
    <3> QED
      BY <1>1, <1>4, <2>3, <3>2
  <2> QED
    BY <2>1, <2>2, <2>3
<1>7. \A s \in 0 .. 7 : StayChain(c)[s] \in Rungs
  BY <1>4, <1>6
<1> QED
  BY <1>1, <1>6, <1>7 DEF Chains, ChainWithin

LEMMA PushWithin ==
    ASSUME NEW limit \in Rungs, NEW c, Within(c, limit)
    PROVE  Within(Push(c), limit)
<1>1. CASE c.mode # "auto"
  <2> DEFINE flat == [s \in 0 .. 7 |-> c.cur]
  <2>1. c.cur \in 0 .. limit /\ c.cur \in Rungs
    BY RungsTyped DEF Within, Shaped
  <2>2. flat \in Chains /\ ChainWithin(flat, limit)
    BY <2>1 DEF Chains, ChainWithin
  <2>3. Push(c) = [c EXCEPT !.chain = flat]
    BY <1>1 DEF Push
  <2> HIDE DEF flat
  <2>4. Within([c EXCEPT !.chain = flat], limit)
    BY <2>2 DEF Within, Shaped, Fields
  <2> QED
    BY <2>3, <2>4
<1>2. CASE c.mode = "auto"
  <2> DEFINE chain == IF c.state = 2 THEN ProbeChain(c) ELSE StayChain(c)
             n == IF Widens(c) THEN 0 ELSE IF Narrows(c) THEN c.narrowed + 1 ELSE c.narrowed
  <2>1. chain \in Chains /\ ChainWithin(chain, limit)
    BY ProbeChainWithin, StayChainWithin
  <2>2. n \in 0 .. 2
    BY DEF Within, Shaped, Narrows
  <2>3. Push(c) = [c EXCEPT !.chain = chain, !.narrowed = n]
    BY <1>2 DEF Push
  <2> HIDE DEF chain, n
  <2>4. Within([c EXCEPT !.chain = chain, !.narrowed = n], limit)
    BY <2>1, <2>2 DEF Within, Shaped, Fields
  <2> QED
    BY <2>3, <2>4
<1> QED
  BY <1>1, <1>2
-------------------------------------------------------------------------------
(* The machine keeps a context within its limit. *)

LEMMA BestWithin ==
    ASSUME NEW limit \in Rungs, NEW c, Within(c, limit)
    PROVE  Best(c) = None \/ Best(c) \in 0 .. limit
<1> DEFINE eligible == {r \in Rungs : c.stats[r].tries >= MinTries}
           winners == {r \in eligible :
                         /\ Score(c, r) > 0
                         /\ \A q \in eligible : \/ Score(c, q) < Score(c, r)
                                                \/ Score(c, q) = Score(c, r) /\ q <= r}
           lowest == CHOOSE r \in eligible : \A q \in eligible : r <= q
<1>1. \A r \in eligible : r \in 0 .. limit
  <2>1. MinTries \in Nat \ {0}
    BY ControlAssumption DEF ControlAssumption
  <2>2. QuietAbove(c.stats, limit)
    BY DEF Within
  <2>3. \A r \in eligible : r \in Rungs /\ c.stats[r].tries # 0
    BY <2>1
  <2> HIDE DEF eligible
  <2> QED
    BY <2>2, <2>3, RungsTyped DEF QuietAbove
<1>2. \A r \in winners : r \in eligible
  OBVIOUS
<1>3. limit \in Nat
  BY RungsTyped
<1>4. Best(c) = IF eligible = {} THEN None
                ELSE IF winners # {} THEN CHOOSE r \in winners : TRUE
                ELSE IF lowest = 0 THEN 0 ELSE lowest - 1
  BY Zenon DEF Best
<1> HIDE DEF winners
<1>5. CASE eligible # {} /\ winners = {}
  <2>1. eligible \in SUBSET Nat
    BY RungsTyped
  <2> HIDE DEF eligible
  <2>2. \E r \in eligible : \A q \in eligible : r <= q
    BY <1>5, <2>1, LeastNatural
  <2>3. lowest \in eligible
    BY <2>2
  <2> HIDE DEF lowest
  <2> QED
    BY <1>1, <1>3, <1>4, <1>5, <2>3
<1> HIDE DEF eligible
<1>6. CASE eligible = {}
  BY <1>4, <1>6
<1>7. CASE eligible # {} /\ winners # {}
  <2>1. Best(c) \in winners
    BY <1>4, <1>7
  <2> QED
    BY <1>1, <1>2, <2>1
<1> QED
  BY <1>5, <1>6, <1>7

LEMMA SilenceTyped == Silence \in Statistics /\ \A limit : QuietAbove(Silence, limit)
<1>1. Unheard \in Entries
  BY ControlAssumption DEF ControlAssumption, Unheard, Entries
<1> QED
  BY <1>1 DEF Silence, Statistics, QuietAbove, Unheard

LEMMA ForgetWithin ==
    ASSUME NEW limit \in Rungs, NEW c, Within(c, limit)
    PROVE  Within(Forget(c), limit)
  BY SilenceTyped DEF Forget, Within, Shaped, Fields

LEMMA CharTyped == ASSUME NEW n \in Int PROVE Char(n) \in -128 .. 127
  BY DEF Char

LEMMA BootstrapWithin ==
    ASSUME NEW limit \in Rungs, NEW c, Within(c, limit)
    PROVE  Within(Bootstrap(c), limit)
<1> DEFINE start == IF link.far THEN c.top \div 2 ELSE IF c.top = 0 THEN 0 ELSE c.top - 1
           d == [c EXCEPT !.cur = start, !.state = 1]
<1>1. c.top \in Nat /\ c.top <= limit /\ limit \in Nat /\ \A r \in 0 .. limit : r \in Rungs
  BY RungsTyped DEF Within, Shaped
<1>2. start \in 0 .. limit /\ start \in Rungs
  BY <1>1
<1>3. Bootstrap(c) = Push(d)
  BY DEF Bootstrap
<1> HIDE DEF start
<1>4. Within(d, limit)
  BY <1>2 DEF Within, Shaped, Fields
<1> HIDE DEF d
<1> QED
  BY <1>3, <1>4, PushWithin

LEMMA ExploitWithin ==
    ASSUME NEW limit \in Rungs, NEW c, Within(c, limit)
    PROVE  Within(Exploit(c), limit)
<1> DEFINE best == Best(c)
           d == Forget(c)
           moved == [d EXCEPT !.cur = best, !.exponent = 0, !.countdown = 0,
                              !.state = IF best <= c.cur THEN 1 ELSE 2]
           waits == [d EXCEPT !.countdown = Char(@ - 1)]
           probes == [d EXCEPT !.state = 2]
<1>1. Within(d, limit)
  BY ForgetWithin
<1>2. best = None \/ best \in 0 .. limit
  BY BestWithin
<1>3. Exploit(c) = IF best = None THEN c
                   ELSE IF best # c.cur THEN Push(moved)
                   ELSE IF best = c.top THEN d
                   ELSE IF c.countdown # 0 THEN waits
                   ELSE Push(probes)
  BY DEF Exploit
<1> HIDE DEF d, best
<1>4. best # None => Within(moved, limit)
  <2>1. best # None => best \in Rungs /\ best <= limit
    BY <1>2, RungsTyped
  <2> QED
    BY <1>1, <2>1 DEF Within, Shaped, Fields
<1>5. Within(waits, limit)
  <2>1. d.countdown - 1 \in Int
    BY <1>1 DEF Within, Shaped
  <2>2. Char(d.countdown - 1) \in -128 .. 127
    BY <2>1, CharTyped
  <2> QED
    BY <1>1, <2>2 DEF Within, Shaped, Fields
<1>6. Within(probes, limit)
  BY <1>1 DEF Within, Shaped, Fields
<1> HIDE DEF moved, waits, probes
<1> QED
  BY <1>1, <1>3, <1>4, <1>5, <1>6, PushWithin

LEMMA BackoffWithin ==
    ASSUME NEW limit \in Rungs, NEW c, Within(c, limit)
    PROVE  Within([Backoff(c) EXCEPT !.state = 1], limit)
<1> DEFINE e == IF c.exponent = 6 THEN 6 ELSE c.exponent + 1
           wait == IF c.countdown = -1 THEN -1 ELSE Char(c.countdown + Shifted(e))
<1>1. e \in 0 .. 6
  BY DEF Within, Shaped
<1>2. wait \in -128 .. 127
  <2>1. Shifted(e) \in Nat
    BY <1>1 DEF Shifted
  <2>2. c.countdown + Shifted(e) \in Int
    BY <2>1 DEF Within, Shaped
  <2> QED
    BY <2>2, CharTyped
<1>3. Backoff(c) = [c EXCEPT !.exponent = e, !.countdown = wait]
  BY DEF Backoff
<1> HIDE DEF e, wait
<1>4. Within([[c EXCEPT !.exponent = e, !.countdown = wait] EXCEPT !.state = 1], limit)
  BY <1>1, <1>2 DEF Within, Shaped, Fields
<1> QED
  BY <1>3, <1>4

LEMMA ProbeWithin ==
    ASSUME NEW limit \in Rungs, NEW c, Within(c, limit)
    PROVE  Within(Probe(c), limit)
<1> DEFINE best == Best(c)
           forgot == Forget(c)
           d == [forgot EXCEPT !.phase = 0]
           counted == [c EXCEPT !.phase = @ + 1]
           on == [counted EXCEPT !.state = 3]
           again == [c EXCEPT !.phase = 0]
           won == [d EXCEPT !.cur = best, !.exponent = 0, !.countdown = 0, !.state = 1]
           lost == [Backoff(d) EXCEPT !.state = 1]
<1>1. Within(forgot, limit)
  BY ForgetWithin
<1>2. best = None \/ best \in 0 .. limit
  BY BestWithin
<1>3. Probe(c) = IF counted.phase <= LastPhase THEN Push(on)
                 ELSE IF best = None THEN Push(again)
                 ELSE IF c.cur < best THEN Push(won)
                 ELSE Push(lost)
  BY DEF Probe
<1> HIDE DEF forgot, best
<1>4. Within(d, limit)
  BY <1>1 DEF Within, Shaped, Fields, LastPhase
<1>5. Within(again, limit)
  BY DEF Within, Shaped, Fields, LastPhase
<1>6. Within(lost, limit)
  <2> HIDE DEF d
  <2> QED
    BY <1>4, BackoffWithin
<1>7. best # None => Within(won, limit)
  <2> HIDE DEF d
  <2>1. best # None => best \in Rungs /\ best <= limit
    BY <1>2, RungsTyped
  <2> QED
    BY <1>4, <2>1 DEF Within, Shaped, Fields
<1>8. counted.phase <= LastPhase => Within(on, limit)
  <2> SUFFICES ASSUME counted.phase <= LastPhase PROVE Within(on, limit)
    OBVIOUS
  <2>1. counted.phase = c.phase + 1 /\ c.phase \in 0 .. LastPhase
    BY DEF Within, Shaped, Fields
  <2>2. c.phase + 1 \in 0 .. LastPhase
    BY <2>1 DEF LastPhase
  <2> QED
    BY <2>2 DEF Within, Shaped, Fields
<1> HIDE DEF d, counted, on, again, won, lost
<1> QED
  BY <1>3, <1>5, <1>6, <1>7, <1>8, PushWithin

LEMMA SpaceWithin ==
    ASSUME NEW limit \in Rungs, NEW c, Within(c, limit)
    PROVE  Within(Space(c), limit)
<1>1. Within([c EXCEPT !.state = 2], limit)
  BY DEF Within, Shaped, Fields
<1> QED
  BY <1>1, PushWithin DEF Space

LEMMA PinCodeWithin ==
    ASSUME NEW limit \in Rungs, NEW c, Within(c, limit), c.mode = "code"
    PROVE  Within(PinCode(c), limit)
<1> DEFINE rung == RungOf(c, c.pin)
           d == [c EXCEPT !.sent = c.pin, !.stats = Silence, !.cur = rung]
<1>1. rung \in 0 .. limit /\ rung \in Rungs
  <2>1. rung \in 0 .. limit
    BY RungOfIsPlace DEF Within
  <2> QED
    BY <2>1, RungsTyped
<1>2. PinCode(c) = IF c.sent = c.pin THEN c ELSE Push(d)
  BY DEF PinCode
<1> HIDE DEF rung
<1>3. Within(d, limit)
  BY <1>1, SilenceTyped, RungsTyped DEF Within, Shaped, Fields
<1> HIDE DEF d
<1> QED
  BY <1>2, <1>3, PushWithin

LEMMA AdvanceWithin ==
    ASSUME NEW limit \in Rungs, NEW c, Within(c, limit)
    PROVE  Within(Advance(c), limit)
<1>1. CASE c.mode = "code"
  BY <1>1, PinCodeWithin DEF Advance
<1>2. CASE c.mode = "rung"
  <2>1. c.pin \in 0 .. limit /\ c.pin \in Rungs
    BY <1>2, RungsTyped DEF Within
  <2>2. Within([c EXCEPT !.cur = c.pin], limit)
    BY <2>1, RungsTyped DEF Within, Shaped, Fields
  <2> QED
    BY <1>2, <2>2, PushWithin DEF Advance
<1>3. CASE c.mode \notin {"code", "rung"}
  <2> DEFINE d == [c EXCEPT !.sent = "none"]
  <2>1. Within(d, limit)
    BY DEF Within, Shaped, Fields
  <2>5. Advance(c) = CASE d.state = 0 -> Bootstrap(d)
                       [] d.state = 1 -> Exploit(d)
                       [] d.state = 2 -> Probe(d)
                       [] d.state = 3 -> Space(d)
    BY <1>3 DEF Advance
  <2> HIDE DEF d
  <2>2. Within(Bootstrap(d), limit) /\ Within(Exploit(d), limit) /\ Within(Probe(d), limit) /\ Within(Space(d), limit)
    BY <2>1, BootstrapWithin, ExploitWithin, ProbeWithin, SpaceWithin
  <2>6. d.state = 0 \/ d.state = 1 \/ d.state = 2 \/ d.state = 3
    BY <2>1 DEF Within, Shaped
  <2> QED
    BY <2>2, <2>5, <2>6
<1> QED
  BY <1>1, <1>2, <1>3
-------------------------------------------------------------------------------
(* What the machine leaves alone: the ladder, the peer and what is pinned. *)
Same(c, d) ==
    /\ Fields \subseteq DOMAIN d
    /\ d.ladder = c.ladder /\ d.top = c.top /\ d.modern = c.modern
    /\ d.mode = c.mode /\ d.pin = c.pin /\ d.peer = c.peer

LEMMA PushSame == ASSUME NEW c, Fields \subseteq DOMAIN c PROVE Same(c, Push(c))
  BY DEF Push, Same, Fields

LEMMA SameOn == ASSUME NEW c, NEW d, NEW e, Same(c, d), Same(d, e) PROVE Same(c, e)
  BY DEF Same

LEMMA AdvanceSame == ASSUME NEW c, Fields \subseteq DOMAIN c, c.state \in 0 .. 3 PROVE Same(c, Advance(c))
<1>1. \A d : Same(c, d) => Same(c, Push(d))
  BY PushSame, SameOn DEF Same
<1>2. Same(c, c)
  BY DEF Same
<1>3. \A d : Same(c, d) => Same(c, Forget(d))
  BY DEF Same, Forget, Fields
<1>4. CASE c.mode = "code"
  <2>1. Same(c, [c EXCEPT !.sent = c.pin, !.stats = Silence, !.cur = RungOf(c, c.pin)])
    BY DEF Same, Fields
  <2> QED
    BY <1>1, <1>2, <1>4, <2>1 DEF Advance, PinCode
<1>5. CASE c.mode = "rung"
  <2>1. Same(c, [c EXCEPT !.cur = c.pin])
    BY DEF Same, Fields
  <2> QED
    BY <1>1, <1>5, <2>1 DEF Advance
<1>6. CASE c.mode \notin {"code", "rung"}
  <2> DEFINE d == [c EXCEPT !.sent = "none"]
  <2>1. Same(c, d) /\ d.state \in 0 .. 3
    BY DEF Same, Fields
  <2>2. Advance(c) = CASE d.state = 0 -> Bootstrap(d)
                       [] d.state = 1 -> Exploit(d)
                       [] d.state = 2 -> Probe(d)
                       [] d.state = 3 -> Space(d)
    BY <1>6 DEF Advance
  <2> HIDE DEF d
  <2>3. Same(c, Bootstrap(d))
    <3> DEFINE e == [d EXCEPT !.cur = IF link.far THEN d.top \div 2
                                      ELSE IF d.top = 0 THEN 0 ELSE d.top - 1,
                              !.state = 1]
    <3>1. Same(c, e)
      BY <2>1 DEF Same, Fields
    <3> QED
      BY <1>1, <3>1 DEF Bootstrap
  <2>4. Same(c, Exploit(d))
    <3> DEFINE f == Forget(d)
               moved == [f EXCEPT !.cur = Best(d), !.exponent = 0, !.countdown = 0,
                                  !.state = IF Best(d) <= d.cur THEN 1 ELSE 2]
               waits == [f EXCEPT !.countdown = Char(@ - 1)]
               probes == [f EXCEPT !.state = 2]
    <3>1. Same(c, f)
      BY <1>3, <2>1
    <3>2. Exploit(d) \in {d, f, Push(moved), waits, Push(probes)}
      BY DEF Exploit
    <3> HIDE DEF f
    <3>3. Same(c, moved) /\ Same(c, waits) /\ Same(c, probes)
      BY <3>1 DEF Same, Fields
    <3> HIDE DEF moved, waits, probes
    <3> QED
      BY <1>1, <2>1, <3>1, <3>2, <3>3
  <2>5. Same(c, Probe(d))
    <3> DEFINE f == Forget(d)
               e == [f EXCEPT !.phase = 0]
               on == [[d EXCEPT !.phase = @ + 1] EXCEPT !.state = 3]
               again == [d EXCEPT !.phase = 0]
               won == [e EXCEPT !.cur = Best(d), !.exponent = 0, !.countdown = 0, !.state = 1]
               lost == [Backoff(e) EXCEPT !.state = 1]
    <3>1. Same(c, f)
      BY <1>3, <2>1
    <3>2. Probe(d) \in {Push(on), Push(again), Push(won), Push(lost)}
      BY DEF Probe
    <3> HIDE DEF f
    <3>3. Same(c, e)
      BY <3>1 DEF Same, Fields
    <3> HIDE DEF e
    <3>4. Same(c, on) /\ Same(c, again)
      BY <2>1 DEF Same, Fields
    <3>5. Same(c, won)
      BY <3>3 DEF Same, Fields
    <3>6. Same(c, lost)
      BY <3>3 DEF Same, Fields, Backoff
    <3> HIDE DEF on, again, won, lost
    <3> QED
      BY <1>1, <3>2, <3>4, <3>5, <3>6
  <2>6. Same(c, Space(d))
    <3> DEFINE e == [d EXCEPT !.state = 2]
    <3>1. Same(c, e)
      BY <2>1 DEF Same, Fields
    <3> QED
      BY <1>1, <2>1, <3>1 DEF Space
  <2>7. d.state = 0 \/ d.state = 1 \/ d.state = 2 \/ d.state = 3
    BY <2>1
  <2> QED
    BY <2>2, <2>3, <2>4, <2>5, <2>6, <2>7
<1> QED
  BY <1>4, <1>5, <1>6
-------------------------------------------------------------------------------
LEMMA HeardTyped ==
    ASSUME NEW u \in Entries, NEW n \in Nat, NEW pct \in 0 .. 100
    PROVE  Heard(u, n, pct) \in Entries
<1>1. u.tries \in 0 .. MinTries /\ u.count \in 0 .. 8 /\ u.warm \in BOOLEAN /\ u.pct \in 0 .. 100 /\ MinTries \in Nat \ {0}
  BY ControlAssumption DEF Entries, ControlAssumption
<1>2. Average(u, pct) \in 0 .. 100
  BY <1>1, AverageIsPercentage
<1>3. Least(u.tries + n, MinTries) \in 0 .. MinTries /\ Least(u.count + 1, 8) \in 0 .. 8
  BY <1>1 DEF Least
<1>4. (u.warm \/ u.count + 1 >= 8) \in BOOLEAN
  OBVIOUS
<1> QED
  BY <1>2, <1>3, <1>4 DEF Heard, Entries

LEMMA FramesTyped ==
    ASSUME NEW load \in Nat, NEW T, \A s \in T : s \in 0 .. 7
    PROVE  /\ load * Cardinality(T) \in Nat
           /\ T = {} => load * Cardinality(T) = 0
<1>1. IsFiniteSet(0 .. 7)
  <2>1. \A n \in Nat : IsFiniteSet(0 .. n)
    BY FS_Interval
  <2> QED
    BY <2>1
<1>2. T \in SUBSET (0 .. 7)
  OBVIOUS
<1>3. IsFiniteSet(T)
  BY <1>1, <1>2, FS_Subset
<1>4. Cardinality(T) \in Nat /\ (T = {} => Cardinality(T) = 0)
  BY <1>3, FS_CardinalityType, FS_EmptySet
<1> QED
  BY <1>4

LEMMA MeasuredWithin ==
    ASSUME NEW limit \in Rungs, NEW c, Within(c, limit), NEW load \in Nat, link \in Links
    PROVE  Within(Measured(c, load), limit) /\ Same(c, Measured(c, load))
<1> DEFINE Pct(s) == link.pct[c.ladder[c.chain[s]]]
           reached == {s \in 0 .. 7 : \A t \in 0 .. s - 1 : Pct(t) < 100}
           At(r) == {s \in reached : c.chain[s] = r}
           Frames(r) == load * Cardinality(At(r))
           stats == [r \in Rungs |-> IF Frames(r) = 0 THEN c.stats[r]
                                     ELSE Heard(c.stats[r], Frames(r), link.pct[c.ladder[r]])]
<1>1. Measured(c, load) = [c EXCEPT !.stats = stats]
  BY DEF Measured
<1>2. \A r \in Rungs : (\A s \in At(r) : s \in 0 .. 7)
  OBVIOUS
<1>3. \A r \in Rungs : Frames(r) \in Nat /\ (At(r) = {} => Frames(r) = 0)
  <2> HIDE DEF At
  <2> QED
    BY <1>2, FramesTyped
<1>4. \A r \in Rungs : r > limit => At(r) = {}
  <2>1. \A s \in 0 .. 7 : c.chain[s] \in 0 .. limit
    BY DEF Within, ChainWithin
  <2>2. \A r \in Rungs : r > limit => r \notin 0 .. limit
    BY RungsTyped
  <2> QED
    BY <2>1, <2>2
<1>5. \A r \in Rungs : link.pct[c.ladder[r]] \in 0 .. 100
  <2>1. link.pct \in [DOMAIN Table -> 0 .. 100]
    BY ControlAssumption DEF ControlAssumption
  <2>2. \A r \in Rungs : c.ladder[r] \in DOMAIN Table
    BY DEF Within, Shaped, Ladders
  <2> QED
    BY <2>1, <2>2
<1>6. \A r \in Rungs : c.stats[r] \in Entries
  BY DEF Within, Shaped, Statistics
<1>7. QuietAbove(c.stats, limit)
  BY DEF Within
<1> HIDE DEF At
<1>8. \A r \in Rungs : stats[r] \in Entries
  <2> HIDE DEF Frames
  <2> QED
    BY <1>3, <1>5, <1>6, HeardTyped
<1>9. \A r \in Rungs : r > limit => stats[r] = c.stats[r]
  BY <1>3, <1>4
<1>10. DOMAIN stats = Rungs /\ stats = [r \in Rungs |-> stats[r]]
  OBVIOUS
<1> HIDE DEF stats
<1>11. stats \in Statistics /\ QuietAbove(stats, limit)
  BY <1>7, <1>8, <1>9, <1>10 DEF Statistics, QuietAbove
<1>12. Within([c EXCEPT !.stats = stats], limit)
  BY <1>11 DEF Within, Shaped, Fields
<1>13. Same(c, [c EXCEPT !.stats = stats])
  BY DEF Within, Shaped, Same, Fields
<1> QED
  BY <1>1, <1>12, <1>13

LEMMA NearerWithin ==
    ASSUME NEW limit \in Rungs, NEW c, Within(c, limit), NEW rise
    PROVE  Within(Nearer(c, rise), limit) /\ Same(c, Nearer(c, rise))
<1> DEFINE d == [c EXCEPT !.exponent = 0, !.countdown = 0, !.rebuild = @ \/ rise = "much"]
<1>1. Within(d, limit)
  BY DEF Within, Shaped, Fields
<1>2. Same(c, d) /\ Same(c, c)
  BY DEF Within, Shaped, Same, Fields
<1> QED
  BY <1>1, <1>2 DEF Nearer

LEMMA EvaluateWithin ==
    ASSUME NEW limit \in Rungs, NEW c, Within(c, limit), NEW load \in Nat, NEW rise, link \in Links
    PROVE  Within(Evaluate(c, load, rise), limit) /\ Same(c, Evaluate(c, load, rise))
<1> DEFINE m == Measured(c, load)
           d == Nearer(m, rise)
<1>1. Within(m, limit) /\ Same(c, m)
  BY MeasuredWithin
<1> HIDE DEF m
<1>2. Within(d, limit) /\ Same(m, d)
  BY <1>1, NearerWithin
<1> HIDE DEF d
<1>3. Within(Advance(d), limit) /\ Same(d, Advance(d))
  BY <1>2, AdvanceWithin, AdvanceSame DEF Within, Shaped
<1>4. Same(c, Advance(d)) /\ Same(c, c)
  BY <1>1, <1>2, <1>3, SameOn DEF Within, Shaped, Same
<1> QED
  BY <1>3, <1>4 DEF Evaluate, d, m
-------------------------------------------------------------------------------
(* The invariant behind TypeOK and OnLadder. *)

\* The ladder is that of the peer; a peer that can be sent nothing keeps the last top.
Fits(c) ==
    /\ c.ladder = Ladder(c.peer)
    /\ Length(c.peer) # 0 => c.top = Length(c.peer) - 1
    /\ c.modern = FirstModern(c.peer)

Idle(c) ==
    /\ c.cur = 0 /\ c.top = 0 /\ c.state = 0 /\ c.modern = 0
    /\ ChainWithin(c.chain, 0)
    /\ c.stats = Silence

Here(c) == c.peer.speaks # {"nothing"}

\* The invariant of a context, a being its astray: a limit for every peer, and the
\* ladder's own top for one that has not gone astray.
Kempt(c, a) ==
    /\ Shaped(c)
    /\ Here(c) => /\ c.peer \in Capabilities
                  /\ Fits(c)
                  /\ Within(c, MaxRungs - 1)
                  /\ ~a => Within(c, c.top)
    /\ ~Here(c) => Idle(c)

IInv ==
    /\ Kempt(rc, astray)
    /\ link \in Links
    /\ events \in 0 .. MaxEvents
    /\ astray \in BOOLEAN
    /\ beat \in {0, 1}

LEMMA SameFits == ASSUME NEW c, NEW d, Same(c, d), Fits(c) PROVE Fits(d)
  BY DEF Same, Fits

LEMMA SpeakerHere == ASSUME NEW p \in Capabilities PROVE p.speaks # {"nothing"} /\ "speaks" \in DOMAIN p /\ p.width \in 0 .. 2
<1>1. p.speaks \in SUBSET {"HT", "VHT", "HE"} /\ "speaks" \in DOMAIN p /\ p.width \in 0 .. 2
  BY DEF Capabilities
<1>2. "nothing" \notin p.speaks
  BY <1>1
<1> QED
  BY <1>1, <1>2

\* A context that is within its limits, and of a peer that is there, is kempt.
LEMMA KemptIfWithin ==
    ASSUME NEW c, NEW d, NEW a, Same(c, d), c.peer \in Capabilities, Fits(c),
           Within(d, MaxRungs - 1), ~a => Within(d, c.top)
    PROVE  Kempt(d, a)
<1>1. d.peer \in Capabilities /\ d.top = c.top
  BY DEF Same
<1>2. Here(d)
  BY <1>1, SpeakerHere DEF Here
<1> QED
  BY <1>1, <1>2, SameFits DEF Kempt, Within

LEMMA HighestRung == MaxRungs - 1 \in Rungs /\ \A r \in Rungs : r <= MaxRungs - 1
  BY TableAssumption DEF Rungs, TableAssumption

\* What Rebuild hands to the machine.
Rebuilt(c) ==
    [c EXCEPT !.ladder = Ladder(c.peer),
              !.top = IF Length(c.peer) = 0 THEN @ ELSE Length(c.peer) - 1,
              !.modern = FirstModern(c.peer),
              !.phase = 0, !.exponent = 0, !.countdown = 0,
              !.mode = IF c.state = 0 THEN "auto" ELSE @,
              !.state = 0]

LEMMA RebuildAdvances == ASSUME NEW c PROVE Rebuild(c) = Advance(Rebuilt(c))
  BY Zenon DEF Rebuild, Rebuilt

LEMMA RebuiltFields ==
    ASSUME NEW c, Fields \subseteq DOMAIN c
    PROVE  LET d == Rebuilt(c) IN
           /\ Fields \subseteq DOMAIN d
           /\ d.ladder = Ladder(c.peer)
           /\ d.top = IF Length(c.peer) = 0 THEN c.top ELSE Length(c.peer) - 1
           /\ d.modern = FirstModern(c.peer)
           /\ d.phase = 0 /\ d.exponent = 0 /\ d.countdown = 0 /\ d.state = 0
           /\ d.mode = IF c.state = 0 THEN "auto" ELSE c.mode
           /\ d.cur = c.cur /\ d.chain = c.chain /\ d.stats = c.stats /\ d.narrowed = c.narrowed
           /\ d.rebuild = c.rebuild /\ d.force = c.force /\ d.pin = c.pin /\ d.peer = c.peer
  BY DEF Rebuilt, Fields

LEMMA RebuiltShaped ==
    ASSUME NEW c, Shaped(c)
    PROVE  Shaped(Rebuilt(c)) /\ Fits(Rebuilt(c))
<1> DEFINE d == Rebuilt(c)
           p == c.peer
<1>1. Fields \subseteq DOMAIN c
  BY DEF Shaped
<1>2. Length(p) # 0 => Length(p) - 1 \in Rungs
  BY LengthTyped, TableAssumption DEF Rungs, TableAssumption
<1>3. FirstModern(p) \in Rungs \cup {None}
  <2>1. \A r \in 0 .. Length(p) - 1 : r \in Rungs
    BY LengthTyped, TableAssumption DEF Rungs, TableAssumption
  <2> QED
    BY <2>1, FirstModernTyped
<1>4. Ladder(p) \in Ladders
  BY LadderTyped
<1>5. 0 \in 0 .. LastPhase
  BY DEF LastPhase
<1>6. Shaped(d)
  <2> HIDE DEF d
  <2> QED
    BY <1>1, <1>2, <1>3, <1>4, <1>5, RebuiltFields DEF Shaped, d
<1>7. Fits(d)
  BY <1>1, RebuiltFields DEF Fits
<1> QED
  BY <1>6, <1>7

\* A rebuild for the peer that is there changes neither its ladder nor what it keeps to.
LEMMA RebuiltWithin ==
    ASSUME NEW limit \in Rungs, NEW c, Within(c, limit), Fits(c)
    PROVE  Within(Rebuilt(c), limit) /\ Rebuilt(c).top = c.top /\ Rebuilt(c).peer = c.peer
<1> DEFINE d == Rebuilt(c)
<1>1. Fields \subseteq DOMAIN c
  BY DEF Within, Shaped
<1>2. Shaped(d)
  BY RebuiltShaped DEF Within
<1>3. d.ladder = c.ladder /\ d.top = c.top /\ d.modern = c.modern
  BY <1>1, RebuiltFields DEF Fits
<1>4. /\ d.mode \in {"auto", c.mode}
      /\ d.cur = c.cur /\ d.chain = c.chain /\ d.stats = c.stats
      /\ d.pin = c.pin /\ d.peer = c.peer
  BY <1>1, RebuiltFields
<1> HIDE DEF d
<1>5. Within(d, limit)
  BY <1>2, <1>3, <1>4 DEF Within
<1> QED
  BY <1>3, <1>4, <1>5 DEF d

LEMMA RebuildWithin ==
    ASSUME NEW limit \in Rungs, NEW c, Within(c, limit), Fits(c)
    PROVE  /\ Within(Rebuild(c), limit)
           /\ Rebuild(c).top = c.top /\ Rebuild(c).peer = c.peer /\ Fits(Rebuild(c))
<1> DEFINE d == Rebuilt(c)
<1>1. Within(d, limit) /\ d.top = c.top /\ d.peer = c.peer /\ Fits(d)
  BY RebuiltWithin, RebuiltShaped DEF Within
<1> HIDE DEF d
<1>2. Within(Advance(d), limit) /\ Same(d, Advance(d))
  BY <1>1, AdvanceWithin, AdvanceSame DEF Within, Shaped
<1>3. Rebuild(c) = Advance(d)
  BY RebuildAdvances DEF d
<1> QED
  BY <1>1, <1>2, <1>3, SameFits DEF Same

LEMMA InitKempt == ASSUME Init PROVE Kempt(rc, astray)
<1>1. ~Here(rc)
  BY DEF Init, Here
<1>3. 1 \in DOMAIN Table /\ 0 \in Rungs
  BY TableAssumption DEF TableAssumption, Rungs
<1>4. rc.ladder \in Ladders /\ rc.chain \in Chains /\ ChainWithin(rc.chain, 0)
  BY <1>3 DEF Init, Ladders, Chains, ChainWithin
<1>5. Shaped(rc)
  BY <1>3, <1>4, SilenceTyped DEF Init, Shaped, Fields, LastPhase
<1>6. Idle(rc)
  BY <1>4 DEF Init, Idle
<1> QED
  BY <1>1, <1>5, <1>6 DEF Kempt

LEMMA TickKempt ==
    ASSUME Kempt(rc, astray), link \in Links, NEW load \in Nat, NEW rise, Tick(load, rise)
    PROVE  Kempt(rc', astray)
<1> DEFINE built == Rebuild(rc)
           fresh == [built EXCEPT !.force = FALSE, !.rebuild = FALSE]
           c == IF rc.force \/ rc.rebuild THEN fresh ELSE rc
<1>1. Here(rc) /\ rc' = Evaluate(c, load, rise)
  BY DEF Tick, Present, Here
<1>2. rc.peer \in Capabilities /\ Fits(rc) /\ Within(rc, MaxRungs - 1) /\ (~astray => Within(rc, rc.top)) /\ rc.top \in Rungs
  BY <1>1 DEF Kempt, Shaped
<1>3. ASSUME NEW limit \in Rungs, Within(rc, limit)
      PROVE  Within(c, limit) /\ c.top = rc.top /\ c.peer = rc.peer /\ Fits(c)
  <2>1. Within(built, limit) /\ built.top = rc.top /\ built.peer = rc.peer /\ Fits(built)
    BY <1>2, <1>3, RebuildWithin
  <2> HIDE DEF built
  <2>2. Within(fresh, limit)
    BY <2>1 DEF Within, Shaped, Fields
  <2>3. fresh.top = rc.top /\ fresh.peer = rc.peer /\ Fits(fresh)
    BY <2>1 DEF Within, Shaped, Fields, Fits
  <2> HIDE DEF fresh
  <2> QED
    BY <1>2, <1>3, <2>2, <2>3
<1> HIDE DEF c
<1>4. Within(c, MaxRungs - 1) /\ c.top = rc.top /\ c.peer = rc.peer /\ Fits(c)
  BY <1>2, <1>3, HighestRung
<1>5. Within(rc', MaxRungs - 1) /\ Same(c, rc')
  BY <1>1, <1>4, HighestRung, EvaluateWithin
<1>6. ~astray => Within(rc', c.top)
  BY <1>1, <1>2, <1>3, EvaluateWithin
<1> QED
  BY <1>2, <1>4, <1>5, <1>6, KemptIfWithin

LEMMA BeaconKempt ==
    ASSUME Kempt(rc, astray), link \in Links, NEW load \in Nat, NEW rise, Beacon(load, rise)
    PROVE  Kempt(rc', astray)
<1>1. Here(rc) /\ rc' = Evaluate(rc, load, rise)
  BY DEF Beacon, Present, Here
<1>2. rc.peer \in Capabilities /\ Fits(rc) /\ Within(rc, MaxRungs - 1) /\ (~astray => Within(rc, rc.top)) /\ rc.top \in Rungs
  BY <1>1 DEF Kempt, Shaped
<1>3. Within(rc', MaxRungs - 1) /\ Same(rc, rc')
  BY <1>1, <1>2, HighestRung, EvaluateWithin
<1>4. ~astray => Within(rc', rc.top)
  BY <1>1, <1>2, EvaluateWithin
<1> QED
  BY <1>2, <1>3, <1>4, KemptIfWithin

\* Where a rate is missed the rung beyond the top has room, where none is the pinned
\* rung is on the ladder.
LEMMA PinnedWithin ==
    ASSUME NEW d, Shaped(d), d.mode = "rung" => d.pin \in Rungs
    PROVE  /\ Roomy(d) =>
                /\ d.mode = "code" => Place(d.ladder, d.top, d.pin) \in 0 .. MaxRungs - 1
                /\ d.mode = "rung" => d.pin \in 0 .. MaxRungs - 1
           /\ ~Misses(d) =>
                /\ d.mode = "code" => Place(d.ladder, d.top, d.pin) \in 0 .. d.top
                /\ d.mode = "rung" => d.pin \in 0 .. d.top
<1>1. d.top \in Nat /\ d.top <= MaxRungs - 1 /\ MaxRungs \in Nat
  BY HighestRung, RungsTyped DEF Shaped
<1>2. Place(d.ladder, d.top, d.pin) \in 0 .. d.top + 1
  BY <1>1, PlaceTyped
<1>3. RungOf(d, d.pin) = Place(d.ladder, d.top, d.pin)
  BY RungOfIsPlace
<1>4. d.mode = "rung" => d.pin \in Nat /\ d.pin <= MaxRungs - 1
  BY HighestRung, RungsTyped
<1>5. d.top + 1 \in Rungs => d.top + 1 <= MaxRungs - 1
  BY HighestRung
<1> QED
  BY <1>1, <1>2, <1>3, <1>4, <1>5 DEF Roomy, Misses

\* Roomy and Misses look at nothing that the machine moves.
LEMMA SameMisses == ASSUME NEW c, NEW d, Same(c, d) PROVE (Misses(d) <=> Misses(c)) /\ (Roomy(d) <=> Roomy(c))
<1>1. RungOf(d, d.pin) = RungOf(c, c.pin)
  BY RungOfIsPlace DEF Same
<1> QED
  BY <1>1 DEF Same, Misses, Roomy

LEMMA AssociateKempt ==
    ASSUME Kempt(rc, astray), NEW p \in Peers, Associate(p)
    PROVE  Kempt(rc', astray')
<1> DEFINE c == [rc EXCEPT !.peer = p]
           d == Rebuilt(c)
<1>1. p \in Capabilities /\ p.width \in 0 .. 2
  BY HostAssumption, SpeakerHere DEF HostAssumption
<1>2. rc' = Advance(d) /\ Roomy(rc') /\ astray' = (astray \/ rc'.top < rc.top \/ Misses(rc'))
  BY RebuildAdvances DEF Associate
<1>3. Shaped(rc) /\ Fields \subseteq DOMAIN rc
  BY DEF Kempt, Shaped
<1>4. Shaped(c) /\ c.peer = p /\ Fields \subseteq DOMAIN c
  BY <1>3 DEF Shaped, Fields
<1>5. /\ c.state = rc.state /\ c.mode = rc.mode /\ c.top = rc.top /\ c.cur = rc.cur
      /\ c.chain = rc.chain /\ c.stats = rc.stats /\ c.pin = rc.pin
  BY <1>3 DEF Fields
<1> HIDE DEF c
<1>6. Shaped(d) /\ Fits(d) /\ d.peer = p
  BY <1>4, RebuiltShaped, RebuiltFields
<1>7. /\ d.top = IF Length(p) = 0 THEN rc.top ELSE Length(p) - 1
      /\ d.modern = FirstModern(p)
      /\ d.mode = IF rc.state = 0 THEN "auto" ELSE rc.mode
      /\ d.cur = rc.cur /\ d.chain = rc.chain /\ d.stats = rc.stats /\ d.pin = rc.pin
      /\ d.state = 0
  BY <1>4, <1>5, RebuiltFields
<1> HIDE DEF d
<1>8. Same(d, rc')
  BY <1>2, <1>6, <1>7, AdvanceSame DEF Shaped
<1>9. Roomy(d) /\ (~astray' => ~astray /\ ~(d.top < rc.top) /\ ~Misses(d))
  <2>1. Roomy(d) /\ (Misses(d) <=> Misses(rc')) /\ rc'.top = d.top
    BY <1>2, <1>8, SameMisses DEF Same
  <2> QED
    BY <1>2, <2>1
<1>10. d.mode = "rung" => d.pin \in Rungs
  <2>1. CASE Here(rc)
    BY <1>7, <2>1, RungsTyped, HighestRung DEF Kempt, Within
  <2>2. CASE ~Here(rc)
    BY <1>7, <2>2 DEF Kempt, Idle
  <2> QED
    BY <2>1, <2>2
<1>top. d.top \in Rungs /\ rc.top \in Rungs /\ d.cur \in Rungs
  BY <1>3, <1>6 DEF Shaped
<1>11. Within(d, MaxRungs - 1)
  <2>1. ChainWithin(d.chain, MaxRungs - 1)
    <3>1. \A s \in 0 .. 7 : d.chain[s] \in Rungs
      BY <1>6 DEF Shaped, Chains
    <3> QED
      BY <3>1, HighestRung, RungsTyped DEF ChainWithin
  <2>2. QuietAbove(d.stats, MaxRungs - 1)
    BY HighestRung, RungsTyped DEF QuietAbove
  <2>3. d.modern = None \/ d.modern <= MaxRungs - 1
    BY <1>6, HighestRung DEF Shaped
  <2>4. d.cur <= MaxRungs - 1 /\ d.top <= MaxRungs - 1
    BY <1>top, HighestRung
  <2> QED
    BY <1>1, <1>6, <1>9, <1>10, <2>1, <2>2, <2>3, <2>4, PinnedWithin DEF Within
<1>12. ASSUME ~astray' PROVE Within(d, d.top)
  <2>1. ~astray /\ ~(d.top < rc.top) /\ ~Misses(d)
    BY <1>9, <1>12
  <2>2. d.top \in Nat /\ rc.top \in Nat /\ rc.top <= d.top
    BY <1>top, <2>1, RungsTyped
  <2>3. /\ rc.cur <= rc.top
        /\ ChainWithin(rc.chain, rc.top)
        /\ QuietAbove(rc.stats, rc.top)
    <3>1. CASE Here(rc)
      BY <2>1, <3>1 DEF Kempt, Within
    <3>2. CASE ~Here(rc)
      BY <3>2, SilenceTyped DEF Kempt, Idle
    <3> QED
      BY <3>1, <3>2
  <2>4. d.cur <= d.top
    BY <1>7, <1>top, <2>2, <2>3, RungsTyped
  <2>5. ChainWithin(d.chain, d.top)
    <3>1. \A s \in 0 .. 7 : rc.chain[s] \in 0 .. rc.top
      BY <2>3 DEF ChainWithin
    <3> QED
      BY <1>7, <2>2, <3>1 DEF ChainWithin
  <2>6. QuietAbove(d.stats, d.top)
    <3>1. \A r \in Rungs : r > d.top => r > rc.top
      BY <2>2, RungsTyped
    <3> QED
      BY <1>7, <2>3, <3>1 DEF QuietAbove
  <2>7. d.modern = None \/ d.modern <= d.top
    <3>1. Length(p) \in Nat
      BY LengthTyped
    <3> QED
      BY <1>7, <3>1, FirstModernTyped
  <2> QED
    BY <1>1, <1>6, <1>10, <2>1, <2>2, <2>4, <2>5, <2>6, <2>7, PinnedWithin DEF Within
<1>13. Within(rc', MaxRungs - 1)
  BY <1>2, <1>11, AdvanceWithin, HighestRung
<1>14. ~astray' => Within(rc', d.top)
  BY <1>2, <1>12, <1>top, AdvanceWithin
<1> QED
  BY <1>1, <1>6, <1>8, <1>13, <1>14, KemptIfWithin

LEMMA NewEntryKempt == ASSUME Kempt(rc, astray), NewEntry PROVE Kempt(rc', astray')
<1> DEFINE c == Zeroed(rc)
           d == [c EXCEPT !.peer.speaks = {"nothing"}]
<1>1. Here(rc) /\ rc' = d
  BY DEF NewEntry, Present, Here
<1>2. Shaped(rc) /\ Fields \subseteq DOMAIN rc /\ "speaks" \in DOMAIN rc.peer
  BY <1>1, SpeakerHere DEF Kempt, Shaped
<1>3. /\ c.ladder = [r \in Rungs |-> 1] /\ c.top = 0 /\ c.modern = 0 /\ c.cur = 0
      /\ c.chain = [s \in 0 .. 7 |-> 0] /\ c.stats = Silence /\ c.exponent = 0
      /\ c.countdown = 0 /\ c.state = 0 /\ c.phase = 0 /\ c.narrowed = 0 /\ c.rebuild = FALSE
  BY <1>2, Zenon DEF Zeroed, Fields
<1>4. DOMAIN c = DOMAIN rc /\ c.force = rc.force /\ c.mode = rc.mode /\ c.peer = rc.peer
  BY <1>2, Zenon DEF Zeroed, Fields
<1> HIDE DEF c
<1>5. 1 \in DOMAIN Table /\ 0 \in Rungs
  BY TableAssumption DEF TableAssumption, Rungs
<1>6. c.ladder \in Ladders /\ c.chain \in Chains /\ ChainWithin(c.chain, 0)
  BY <1>3, <1>5 DEF Ladders, Chains, ChainWithin
<1>7. Shaped(c)
  <2>1. Fields \subseteq DOMAIN c /\ c.force \in BOOLEAN /\ c.mode \in {"auto", "code", "rung"}
    BY <1>2, <1>4 DEF Shaped
  <2>2. c.top \in Rungs /\ c.cur \in Rungs /\ c.modern \in Rungs \cup {None} /\ c.stats \in Statistics
    BY <1>3, <1>5, SilenceTyped
  <2>3. c.state \in 0 .. 3 /\ c.phase \in 0 .. LastPhase /\ c.exponent \in 0 .. 6 /\ c.narrowed \in 0 .. 2
    BY <1>3 DEF LastPhase
  <2>4. c.countdown \in -128 .. 127
    BY <1>3
  <2>5. c.rebuild \in BOOLEAN
    BY <1>3
  <2> QED
    BY <1>6, <2>1, <2>2, <2>3, <2>4, <2>5 DEF Shaped
<1>8. Shaped(d)
  BY <1>7 DEF Shaped, Fields
<1>9. Idle(d)
  BY <1>2, <1>3, <1>4, <1>6 DEF Idle, Fields
<1>10. ~Here(d)
  BY <1>2, <1>4 DEF Here, Fields
<1> QED
  BY <1>1, <1>8, <1>9, <1>10 DEF Kempt

LEMMA ForceKempt == ASSUME Kempt(rc, astray), ForceRebuild PROVE Kempt(rc', astray)
<1> DEFINE d == [rc EXCEPT !.force = TRUE]
<1>1. Here(rc) /\ rc' = d
  BY DEF ForceRebuild, Present, Here
<1>2. Same(rc, d)
  BY DEF Kempt, Shaped, Same, Fields
<1>3. \A limit : Within(rc, limit) => Within(d, limit)
  BY DEF Within, Shaped, Fields
<1> HIDE DEF d
<1> QED
  BY <1>1, <1>2, <1>3, KemptIfWithin DEF Kempt

LEMMA PinKempt ==
    ASSUME Kempt(rc, astray), NEW p \in Pins, Pin(p[1], p[2])
    PROVE  Kempt(rc', astray')
<1> DEFINE d == [rc EXCEPT !.mode = p[1], !.pin = p[2]]
<1>1. Here(rc) /\ rc' = d /\ Roomy(d) /\ astray' = (astray \/ Misses(d))
  BY DEF Pin, Present, Here
<1>2. p[1] \in {"auto", "code", "rung"} /\ (p[1] = "rung" => p[2] \in Rungs)
  BY HostAssumption DEF HostAssumption
<1>3. rc.peer \in Capabilities /\ Fits(rc) /\ Within(rc, MaxRungs - 1) /\ (~astray => Within(rc, rc.top)) /\ Shaped(rc)
  BY <1>1 DEF Kempt
<1>4. Shaped(d) /\ d.mode = p[1] /\ d.pin = p[2] /\ d.top = rc.top /\ d.ladder = rc.ladder
      /\ d.peer = rc.peer /\ d.modern = rc.modern /\ d.cur = rc.cur /\ d.chain = rc.chain /\ d.stats = rc.stats
  BY <1>2, <1>3 DEF Shaped, Fields
<1> HIDE DEF d
<1>5. Within(d, MaxRungs - 1) /\ (~astray /\ ~Misses(d) => Within(d, d.top))
  BY <1>1, <1>2, <1>3, <1>4, PinnedWithin DEF Within
<1>6. Fits(d) /\ d.peer \in Capabilities /\ Here(d)
  BY <1>1, <1>3, <1>4 DEF Fits, Here
<1> QED
  BY <1>1, <1>4, <1>5, <1>6 DEF Kempt

LEMMA CountedTyped ==
    ASSUME events \in 0 .. MaxEvents, NEW n \in Nat, Counted(n)
    PROVE  events' \in 0 .. MaxEvents
  BY ControlAssumption DEF Counted, ControlAssumption

LEMMA NextKempt == IInv /\ [Next]_vars => IInv'
<1> SUFFICES ASSUME IInv, [Next]_vars PROVE IInv'
  OBVIOUS
<1> USE DEF IInv
<1>1. ASSUME NEW load \in Loads, NEW rise \in Rises, Tick(load, rise) PROVE IInv'
  <2>1. load \in Nat
    BY ControlAssumption DEF ControlAssumption
  <2>2. Kempt(rc', astray)
    BY <1>1, <2>1, TickKempt
  <2>3. events' \in 0 .. MaxEvents
    BY <1>1, CountedTyped DEF Tick
  <2> QED
    BY <1>1, <2>2, <2>3 DEF Tick
<1>2. ASSUME NEW load \in Loads, NEW rise \in Rises, Beacon(load, rise) PROVE IInv'
  <2>1. load \in Nat
    BY ControlAssumption DEF ControlAssumption
  <2>2. Kempt(rc', astray)
    BY <1>2, <2>1, BeaconKempt
  <2>3. events' \in 0 .. MaxEvents
    BY <1>2, CountedTyped DEF Beacon
  <2> QED
    BY <1>2, <2>2, <2>3 DEF Beacon
<1>3. ASSUME NEW p \in Peers, Associate(p) PROVE IInv'
  <2>1. Kempt(rc', astray')
    BY <1>3, AssociateKempt
  <2>2. events' \in 0 .. MaxEvents
    BY <1>3, CountedTyped DEF Associate
  <2>3. astray' \in BOOLEAN
    BY <1>3 DEF Associate, Misses
  <2> QED
    BY <1>3, <2>1, <2>2, <2>3 DEF Associate
<1>4. CASE NewEntry
  BY <1>4, NewEntryKempt, CountedTyped DEF NewEntry
<1>5. CASE ForceRebuild
  BY <1>5, ForceKempt, CountedTyped DEF ForceRebuild
<1>6. ASSUME NEW p \in Pins, Pin(p[1], p[2]) PROVE IInv'
  <2>1. Kempt(rc', astray')
    BY <1>6, PinKempt
  <2>2. events' \in 0 .. MaxEvents
    BY <1>6, CountedTyped DEF Pin
  <2>3. astray' \in BOOLEAN
    BY <1>6 DEF Pin, Misses
  <2> QED
    BY <1>6, <2>1, <2>2, <2>3 DEF Pin
<1>7. ASSUME NEW l \in Links, LinkChanges(l) PROVE IInv'
  BY <1>7, CountedTyped DEF LinkChanges
<1>8. CASE UNCHANGED vars
  BY <1>8 DEF vars
<1> QED
  BY <1>1, <1>2, <1>3, <1>4, <1>5, <1>6, <1>7, <1>8 DEF Next

LEMMA IInvAlways == Spec => []IInv
<1>1. Init => IInv
  <2> SUFFICES ASSUME Init PROVE IInv
    OBVIOUS
  <2>1. Kempt(rc, astray)
    BY InitKempt
  <2>2. link \in Links /\ events = 0 /\ astray = FALSE /\ beat = 0
    BY DEF Init
  <2>3. 0 \in 0 .. MaxEvents
    BY ControlAssumption DEF ControlAssumption
  <2> QED
    BY <2>1, <2>2, <2>3 DEF IInv
<1> QED
  BY <1>1, NextKempt, PTL DEF Spec

(***************************************************************************)
(* Every part of a peer's context keeps its type through every order of    *)
(* ticks, beacons, rebuilds, associations and pinned rates: no rung of the *)
(* chain or of the verdict is beyond the array of FUN_0012d284, and the    *)
(* statistics, the phase and the widths keep their ranges (RateControl,    *)
(* TypeOK).                                                                *)
(***************************************************************************)
THEOREM TypeCorrect == Spec => []TypeOK
<1>1. IInv => TypeOK
  BY DEF IInv, Kempt, Shaped, Ladders, Chains, Statistics, Entries, TypeOK
<1> QED
  BY <1>1, IInvAlways, PTL

(***************************************************************************)
(* Nothing is sent at a rung beyond the ladder, for every table, peer,     *)
(* radio and configuration, unless the peer was given a shorter ladder or  *)
(* a rate it does not have (RateControl, OnLadder).                        *)
(***************************************************************************)
THEOREM StaysOnLadder == Spec => []OnLadder
<1>1. IInv => OnLadder
  <2> SUFFICES ASSUME IInv, ~astray PROVE rc.cur <= rc.top /\ \A s \in 0 .. 7 : rc.chain[s] <= rc.top
    BY DEF OnLadder
  <2>1. rc.top \in Nat
    BY RungsTyped DEF IInv, Kempt, Shaped
  <2>2. CASE Here(rc)
    <3>1. rc.cur <= rc.top /\ ChainWithin(rc.chain, rc.top)
      BY <2>2 DEF IInv, Kempt, Within
    <3> QED
      BY <2>1, <3>1 DEF ChainWithin
  <2>3. CASE ~Here(rc)
    <3>1. rc.cur <= rc.top /\ ChainWithin(rc.chain, rc.top)
      BY <2>3 DEF IInv, Kempt, Idle
    <3> QED
      BY <2>1, <3>1 DEF ChainWithin
  <2> QED
    BY <2>2, <2>3
<1> QED
  BY <1>1, IInvAlways, PTL
===============================================================================
