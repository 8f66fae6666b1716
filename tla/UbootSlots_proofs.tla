------------------------- MODULE UbootSlots_proofs --------------------------
(***************************************************************************)
(* Proofs about UbootSlots, for every geometry and every set of blobs.     *)
(***************************************************************************)
EXTENDS UbootSlots, TLAPS

(* The sectors of a slot lie in the window.                                *)
LEMMA AtInWindow ==
  ASSUME NEW s \in Slots, NEW k \in 0 .. (SlotSectors - 1)
  PROVE  At(s, k) \in Window /\ At(s, k) \in Disk
<1> USE SlotAssumption
<1>1. s \in Nat /\ k \in Nat /\ s + 1 <= Copies /\ k + 1 <= SlotSectors
  BY DEF Slots
<1>2. (s + 1) * SlotSectors <= Copies * SlotSectors
  BY <1>1
<1>3. (s + 1) * SlotSectors = s * SlotSectors + SlotSectors
  BY <1>1
<1>4. s * SlotSectors \in Nat /\ Copies * SlotSectors \in Nat
  BY <1>1
<1>5. At(s, k) \in Window
  BY <1>1, <1>2, <1>3, <1>4 DEF At, Window
<1> QED
  BY <1>5

(* Two slots share no sector, and a slot holds none twice.                 *)
LEMMA AtInjective ==
  ASSUME NEW s \in Slots, NEW t \in Slots,
         NEW k \in 0 .. (SlotSectors - 1), NEW j \in 0 .. (SlotSectors - 1),
         At(s, k) = At(t, j)
  PROVE  s = t /\ k = j
<1> USE SlotAssumption
<1>1. ASSUME NEW a \in Slots, NEW b \in Slots, a < b,
             NEW c \in 0 .. (SlotSectors - 1), NEW d \in 0 .. (SlotSectors - 1)
      PROVE  At(a, c) < At(b, d)
  <2>1. a \in Nat /\ b \in Nat /\ a + 1 <= b /\ c + 1 <= SlotSectors /\ c \in Nat /\ d \in Nat
    BY <1>1 DEF Slots
  <2>2. (a + 1) * SlotSectors <= b * SlotSectors
    BY <2>1
  <2>3. (a + 1) * SlotSectors = a * SlotSectors + SlotSectors
    BY <2>1
  <2>4. a * SlotSectors \in Nat /\ b * SlotSectors \in Nat
    BY <2>1
  <2> QED
    BY <2>1, <2>2, <2>3, <2>4 DEF At
<1>2. s \in Nat /\ t \in Nat /\ k \in Nat /\ j \in Nat
  BY DEF Slots
<1>3. s * SlotSectors \in Nat /\ t * SlotSectors \in Nat
  BY <1>2
<1>4. At(s, k) \in Nat /\ At(t, j) \in Nat
  BY <1>2, <1>3 DEF At
<1>5. s = t
  BY <1>1, <1>2, <1>4
<1> QED
  BY <1>2, <1>3, <1>5 DEF At

(* What the image build leaves on the device.                              *)
LEMMA LaidContents ==
  ASSUME NEW b \in Blobs, Writable(b)
  PROVE  /\ Laid(b) \in [Disk -> (Blobs \X Nat) \cup {Zero, Other}]
         /\ \A a \in Disk \ Window : Laid(b)[a] = Other
         /\ \A s \in Slots : Head(Laid(b), s, b)
<1> USE SlotAssumption
<1>1. Length[b] \in Nat \ {0} /\ Length[b] <= SlotSectors
  BY DEF Writable
<1>2. \A a \in Disk : Laying(b, a) \subseteq 0 .. (Length[b] - 1)
  BY DEF Laying
<1>3. \A a \in Disk : Laying(b, a) # {} => (CHOOSE k \in Laying(b, a) : TRUE) \in Laying(b, a)
  OBVIOUS
<1>4. ASSUME NEW a \in Disk
      PROVE  Laid(b)[a] \in (Blobs \X Nat) \cup {Zero, Other}
  BY <1>1, <1>2, <1>3 DEF Laid
<1>5. Laid(b) \in [Disk -> (Blobs \X Nat) \cup {Zero, Other}]
  BY <1>4 DEF Laid
<1>6. ASSUME NEW a \in Disk \ Window
      PROVE  Laid(b)[a] = Other
  <2>1. Laying(b, a) = {}
    BY <1>1, AtInWindow DEF Laying
  <2> QED
    BY <2>1 DEF Laid
<1>7. ASSUME NEW s \in Slots, NEW k \in 0 .. (Length[b] - 1)
      PROVE  Laid(b)[At(s, k)] = <<b, k>>
  <2>1. k \in 0 .. (SlotSectors - 1)
    BY <1>1
  <2>2. At(s, k) \in Disk
    BY <2>1, AtInWindow
  <2>3. k \in Laying(b, At(s, k))
    BY DEF Laying
  <2>4. ASSUME NEW j \in Laying(b, At(s, k)) PROVE j = k
    <3>1. PICK t \in Slots : At(s, k) = At(t, j)
      BY DEF Laying
    <3>2. j \in 0 .. (SlotSectors - 1)
      BY <1>1, <1>2, <2>2
    <3> QED
      BY <2>1, <3>1, <3>2, AtInjective
  <2> QED
    BY <1>3, <2>2, <2>3, <2>4 DEF Laid
<1> QED
  BY <1>5, <1>6, <1>7 DEF Head

-----------------------------------------------------------------------------
BaseInv == TypeOK /\ Running /\ NeighboursIntact

(* The laid-out image satisfies the base invariant.                         *)
LEMMA BaseInit == Init => BaseInv
<1> SUFFICES ASSUME NEW b \in Blobs, Writable(b),
                    disk = Laid(b), cache = Laid(b), blob = b,
                    pc = "idle", slot = 0, sector = 0,
                    report = [s \in Slots |-> "current"],
                    faults = 0, blobs = 0
             PROVE  BaseInv
  BY DEF Init
<1>1. TypeOK
  BY LaidContents, SlotAssumption DEF TypeOK, Slots
<1>2. Running /\ NeighboursIntact
  BY LaidContents DEF Running, NeighboursIntact
<1> QED
  BY <1>1, <1>2 DEF BaseInv

(* One sector written by a dd.                                             *)
LEMMA DdStep ==
  ASSUME BaseInv, NEW step, NEW count \in 1 .. SlotSectors, NEW next,
         NEW content \in (Blobs \X Nat) \cup {Zero, Other},
         step # "idle",
         step \in {"zero", "copy"}, next \in {"copy", "fsync", "verify"},
         Dd(step, count, content, next)
  PROVE  BaseInv'
<1> USE SlotAssumption
<1>1. At(slot, sector) \in Window /\ At(slot, sector) \in Disk
  BY AtInWindow DEF BaseInv, TypeOK
<1>2. cache' \in [Disk -> (Blobs \X Nat) \cup {Zero, Other}]
  BY DEF BaseInv, TypeOK, Dd
<1>3. sector' \in 0 .. (SlotSectors - 1)
  BY DEF BaseInv, TypeOK, Dd
<1>4. TypeOK'
  BY <1>2, <1>3 DEF BaseInv, TypeOK, Dd
<1>5. Running'
  BY DEF BaseInv, Running, Dd, Writable
<1>6. NeighboursIntact'
  BY <1>1 DEF BaseInv, TypeOK, NeighboursIntact, Dd
<1> QED
  BY <1>4, <1>5, <1>6 DEF BaseInv

(* Every step, failing ones and power cuts included, keeps the base         *)
(* invariant: it only ever writes sectors inside a slot's window.           *)
LEMMA BaseStep == BaseInv /\ [Next]_vars => BaseInv'
<1> USE SlotAssumption
<1> SUFFICES ASSUME BaseInv, [Next]_vars PROVE BaseInv'
  OBVIOUS
<1>1. CASE Begin
  BY <1>1 DEF BaseInv, TypeOK, Running, NeighboursIntact, Begin, Slots, device, Writable
<1>2. CASE SlotCurrent
  BY <1>2 DEF BaseInv, TypeOK, Running, NeighboursIntact, SlotCurrent, Advance, Slots, device, Writable
<1>3. CASE SlotStale
  BY <1>3 DEF BaseInv, TypeOK, Running, NeighboursIntact, SlotStale, Misread, Slots, device, Writable
<1>4. CASE ClearSlot
  <2>1. SlotSectors \in 1 .. SlotSectors
    OBVIOUS
  <2> QED
    BY <1>4, <2>1, DdStep DEF ClearSlot
<1>5. CASE CopyBlob
  <2>1. blob \in Blobs /\ Length[blob] \in 1 .. SlotSectors
    BY <1>5 DEF BaseInv, Running, Writable, CopyBlob, Dd
  <2>2. <<blob, sector>> \in Blobs \X Nat
    BY <2>1 DEF BaseInv, TypeOK
  <2> QED
    BY <1>5, <2>1, <2>2, DdStep DEF CopyBlob
<1>6. CASE Fsync
  BY <1>6 DEF BaseInv, TypeOK, Running, NeighboursIntact, Fsync, Writable
<1>7. CASE Verify
  BY <1>7 DEF BaseInv, TypeOK, Running, NeighboursIntact, Verify, Advance, Misread, Slots, device, Writable
<1>8. CASE NewBlob
  BY <1>8 DEF BaseInv, TypeOK, Running, NeighboursIntact, NewBlob, device, loop, Writable
<1>9. CASE Writeback
  BY <1>9 DEF BaseInv, TypeOK, Running, NeighboursIntact, Writeback, loop, Writable
<1>10. CASE PowerCut
  BY <1>10 DEF BaseInv, TypeOK, Running, NeighboursIntact, PowerCut, Interrupt, Slots
<1>11. CASE Killed
  BY <1>11 DEF BaseInv, TypeOK, Running, NeighboursIntact, Killed, Interrupt, Slots
<1>12. CASE UNCHANGED vars
  BY <1>12 DEF BaseInv, TypeOK, Running, NeighboursIntact, vars, device, loop, Writable
<1> QED
  BY <1>1, <1>2, <1>3, <1>4, <1>5, <1>6, <1>7, <1>8, <1>9, <1>10, <1>11, <1>12
  DEF Next, Script

(* So the base invariant holds in every reachable state.                    *)
LEMMA BaseInvariant == Spec => []BaseInv
BY BaseInit, BaseStep, PTL DEF Spec

(* Every variable keeps its type.                                          *)
THEOREM TypeCorrect == Spec => []TypeOK
BY BaseInvariant, PTL DEF BaseInv

(* Whatever blob is installed, however the run is interrupted and whatever *)
(* its reads return, update_uboot changes no sector outside the slots: the *)
(* idbloader, the vendor storage and the trust partition stay as they are. *)
THEOREM NeighboursSafe == Spec => []NeighboursIntact
BY BaseInvariant, PTL DEF BaseInv

-----------------------------------------------------------------------------
(* One slot is whole at every instant.  The argument is Progress, which    *)
(* needs that a clear read is a true one, that a script only dies with the *)
(* power, and that a slot left cleared is rewritten before the next blob.  *)

(* What Head says, sector by sector.                                       *)
LEMMA HeadIsSectorwise ==
  ASSUME NEW b \in Blobs, Writable(b), NEW s \in Slots, NEW image, NEW other,
         \A k \in 0 .. (SlotSectors - 1) : image[At(s, k)] = other[At(s, k)]
  PROVE  Head(image, s, b) <=> Head(other, s, b)
<1>1. Length[b] \in Nat \ {0} /\ Length[b] <= SlotSectors
  BY SlotAssumption DEF Writable
<1>2. \A k \in 0 .. (Length[b] - 1) : image[At(s, k)] = other[At(s, k)]
  BY <1>1, SlotAssumption
<1> QED
  BY <1>2 DEF Head

(* Before the first run every slot holds the blob the image was laid with.  *)
LEMMA ProgressInit == Init => Progress
<1> SUFFICES ASSUME NEW b \in Blobs, Writable(b),
                    disk = Laid(b), cache = Laid(b), blob = b,
                    pc = "idle", report = [s \in Slots |-> "current"]
             PROVE  Progress
  BY DEF Init
<1>1. \A s \in Slots : Whole(s)
  BY LaidContents DEF Whole, Writable
<1> QED
  BY <1>1 DEF Progress, Settled, Synced, Torn, Passed, Writing

(* Steps that leave the device alone leave what it says alone.             *)
LEMMA DeviceFrame ==
  ASSUME UNCHANGED device
  PROVE  \A s \in Slots :
           /\ Clean(s)' <=> Clean(s)
           /\ Whole(s)' <=> Whole(s)
           /\ UNCHANGED <<blob, report>> => (Done(s)' <=> Done(s))
           /\ UNCHANGED blob => (Head(disk, s, blob)' <=> Head(disk, s, blob))
           /\ UNCHANGED <<blob, slot>> => (Head(cache, slot, blob)' <=> Head(cache, slot, blob))
BY DEF device, Clean, Whole, Done, Head, Writable, At

(* A slot whose sectors the medium keeps stays what it was.                *)
LEMMA MediumFrame ==
  ASSUME NEW s \in Slots,
         \A k \in 0 .. (SlotSectors - 1) : disk'[At(s, k)] = disk[At(s, k)]
  PROVE  /\ Whole(s) => Whole(s)'
         /\ \A b \in Blobs : Writable(b) /\ Head(disk, s, b) => Head(disk, s, b)'
<1>1. ASSUME NEW b \in Blobs, Writable(b), Head(disk, s, b)
      PROVE  Head(disk, s, b)'
  <2>1. Length[b] \in Nat \ {0} /\ Length[b] <= SlotSectors
    BY <1>1, SlotAssumption DEF Writable
  <2>2. \A k \in 0 .. (Length[b] - 1) : disk'[At(s, k)] = <<b, k>>
    BY <1>1, <2>1, SlotAssumption DEF Head
  <2> QED
    BY <2>2 DEF Head, At
<1>2. Whole(s) => Whole(s)'
  BY <1>1, SlotAssumption DEF Whole, Writable
<1> QED
  BY <1>1, <1>2

(* A dd step writes only in the slot the loop is at.                       *)
LEMMA DdFrame ==
  ASSUME BaseInv, Progress, NEW step \in {"zero", "copy"},
         NEW count, NEW content, NEW next, Dd(step, count, content, next)
  PROVE  /\ \A s \in Slots \ {slot} : Clean(s)'
         /\ Settled'
         /\ Torn'
         /\ \A s \in Slots : Done(s) => Done(s)'
         /\ \A k \in 0 .. (SlotSectors - 1) :
              k # sector => cache'[At(slot, k)] = cache[At(slot, k)]
         /\ cache'[At(slot, sector)] = content
<1> USE SlotAssumption
<1>0. slot \in Slots /\ sector \in 0 .. (SlotSectors - 1)
      /\ cache \in [Disk -> (Blobs \X Nat) \cup {Zero, Other}]
      /\ pc \in {"zero", "copy"}
      /\ cache' = [cache EXCEPT ![At(slot, sector)] = content]
      /\ disk' = disk /\ report' = report /\ slot' = slot /\ blob' = blob
  BY DEF BaseInv, TypeOK, Dd
<1>1. ASSUME NEW s \in Slots \ {slot} PROVE Clean(s)'
  <2>1. ASSUME NEW k \in 0 .. (SlotSectors - 1)
        PROVE  cache'[At(s, k)] = cache[At(s, k)]
    <3>1. At(s, k) # At(slot, sector)
      BY <1>0, AtInjective
    <3> QED
      BY <1>0, <3>1, AtInWindow
  <2>2. Clean(s)
    BY <1>0 DEF Progress, Synced
  <2> QED
    BY <1>0, <2>1, <2>2 DEF Clean, At
<1>2. ASSUME NEW s \in Slots
      PROVE  (Whole(s)' <=> Whole(s)) /\ (Done(s)' <=> Done(s))
  <2>1. \A b : Head(disk, s, b)' <=> Head(disk, s, b)
    BY <1>0 DEF Head, At
  <2> QED
    BY <1>0, <2>1 DEF Whole, Done, Writable
<1>3. Settled' /\ Torn'
  BY <1>0, <1>2 DEF Progress, Settled, Torn, Writable
<1>4. ASSUME NEW k \in 0 .. (SlotSectors - 1), k # sector
      PROVE  cache'[At(slot, k)] = cache[At(slot, k)]
  <2>1. At(slot, k) # At(slot, sector)
    BY <1>0, <1>4, AtInjective
  <2> QED
    BY <1>0, <2>1, AtInWindow
<1>5. cache'[At(slot, sector)] = content
  BY <1>0, AtInWindow
<1> QED
  BY <1>1, <1>2, <1>3, <1>4, <1>5

(* The loop leaves a slot that reads as the blob: SlotCurrent and Verify.  *)
LEMMA SlotFinished ==
  ASSUME BaseInv, Progress, pc \in {"check", "verify"},
         Head(cache, slot, blob), Advance,
         NEW word \in {"current", "written"},
         report' = [report EXCEPT ![slot] = word],
         UNCHANGED <<device, blob>>, UNCHANGED device
  PROVE  Progress'
<1> USE SlotAssumption
<1>0. /\ slot \in Nat /\ slot \in Slots /\ \A s \in Slots : s \in Nat
      /\ report \in [Slots -> {"current", "written", "failed", "cleared"}]
      /\ blob \in Blobs /\ Writable(blob) /\ Writable(blob)'
      /\ pc' \in {"check", "idle"}
      /\ slot' = slot + 1 \/ (slot' = 0 /\ pc' = "idle")
  BY DEF BaseInv, TypeOK, Running, Slots, Advance, Writable
<1>1. disk = cache /\ disk' = cache'
  BY DEF Progress, Synced, device
<1>2. Head(disk, slot, blob) /\ Whole(slot)
  BY <1>0, <1>1 DEF Whole, Writable
<1>3. \A s \in Slots : s = slot \/ Done(s) => Done(s)'
  <2>1. \A s \in Slots : Done(s)' <=> report'[s] # "cleared" /\ Head(disk, s, blob)
    BY <1>0, DeviceFrame DEF Done
  <2> QED
    BY <1>0, <1>2, <2>1 DEF Done
<1>4. Settled'
  BY <1>0, <1>2, DeviceFrame DEF Progress, Settled
<1>5. Synced'
  BY <1>0, <1>1 DEF Synced
<1>6. Torn'
  <2> SUFFICES ASSUME NEW t \in Slots, report'[t] = "cleared"
               PROVE  /\ \A s \in Slots : s < t => Done(s)'
                      /\ \A s \in Slots : s > t => report'[s] # "cleared"
                      /\ slot' <= t
    BY <1>0 DEF Torn
  <2>1. t # slot /\ report[t] = "cleared"
    BY <1>0
  <2>2. slot < t
    BY <1>0, <2>1 DEF Progress, Torn
  <2>3. \A s \in Slots : s < t => Done(s)'
    BY <1>3, <2>1 DEF Progress, Torn
  <2>4. \A s \in Slots : s > t => report'[s] # "cleared"
    BY <1>0, <2>1, <2>2 DEF Progress, Torn
  <2>5. slot' <= t
    BY <1>0, <2>2
  <2> QED
    BY <2>3, <2>4, <2>5
<1>7. Passed'
  <2> SUFFICES ASSUME NEW s \in Slots, pc' # "idle", s < slot' PROVE Done(s)'
    BY DEF Passed
  <2>1. s < slot \/ s = slot
    BY <1>0
  <2> QED
    BY <1>3, <2>1 DEF Progress, Passed
<1>8. Writing'
  BY <1>0 DEF Writing
<1> QED
  BY <1>4, <1>5, <1>6, <1>7, <1>8 DEF Progress

(* Without kills and misreads each step keeps the account of which slots    *)
(* are whole: the loop of update_uboot touches one slot at a time, and      *)
(* leaves it only once it has read the new bytes back.                      *)
LEMMA ProgressStep ==
  ASSUME RerunFirst, ~Signals, ~ReadFaults,
         BaseInv, BaseInv', Progress, [Next]_vars
  PROVE  Progress'
<1> USE SlotAssumption
<1>0. /\ slot \in Nat /\ slot \in Slots /\ \A s \in Slots : s \in Nat
      /\ report \in [Slots -> {"current", "written", "failed", "cleared"}]
      /\ sector \in 0 .. (SlotSectors - 1)
      /\ disk \in [Disk -> (Blobs \X Nat) \cup {Zero, Other}]
      /\ ~Misread
  BY DEF BaseInv, TypeOK, Slots, Misread
<1>1. CASE Begin
  <2>1. UNCHANGED device
    BY <1>1 DEF Begin
  <2> QED
    BY <1>0, <1>1, <2>1, DeviceFrame
    DEF Progress, Settled, Synced, Torn, Passed, Writing, Begin, Done, Writable, device
<1>2. CASE SlotCurrent
  BY <1>2, SlotFinished DEF SlotCurrent
<1>3. CASE SlotStale
  <2>1. /\ ~Head(cache, slot, blob) /\ UNCHANGED <<device, blob, slot>> /\ UNCHANGED device
        /\ report' = [report EXCEPT ![slot] = "cleared"]
        /\ pc = "check" /\ pc' = "zero"
    BY <1>0, <1>3 DEF SlotStale
  <2>2. disk = cache /\ blob \in Blobs /\ Writable(blob)
    BY <2>1 DEF Progress, Synced, BaseInv, Running
  <2>3. \A t \in Slots : t > slot => report[t] # "cleared"
    BY <1>0, <2>1, <2>2 DEF Progress, Torn, Done
  <2>4. \A s \in Slots \ {slot} : Done(s) => Done(s)'
    BY <1>0, <2>1, DeviceFrame DEF Done
  <2>5. Settled'
    BY <1>0, <2>1, DeviceFrame DEF Progress, Settled
  <2>6. Synced' /\ Writing'
    BY <2>1, <2>2, <1>0 DEF Synced, Writing, Clean, device
  <2>7. Torn'
    <3> SUFFICES ASSUME NEW t \in Slots, report'[t] = "cleared"
                 PROVE  /\ \A s \in Slots : s < t => Done(s)'
                        /\ \A s \in Slots : s > t => report'[s] # "cleared"
                        /\ slot' <= t
      BY <2>1, <2>2 DEF Torn, Writable
    <3>1. t = slot
      BY <1>0, <2>1, <2>3 DEF Progress, Torn
    <3> QED
      BY <1>0, <2>1, <2>3, <2>4, <3>1 DEF Progress, Passed
  <2>8. Passed'
    BY <1>0, <2>1, <2>4 DEF Progress, Passed
  <2> QED
    BY <2>5, <2>6, <2>7, <2>8 DEF Progress
<1>4. CASE ClearSlot
  <2>1. /\ pc = "zero" /\ cache' = [cache EXCEPT ![At(slot, sector)] = Zero]
        /\ UNCHANGED <<disk, report, slot, blob>>
        /\ pc' = "zero" \/ (pc' = "copy" /\ sector' = 0)
    BY <1>0, <1>4 DEF ClearSlot, Dd
  <2>2. /\ \A s \in Slots \ {slot} : Clean(s)'
        /\ Settled' /\ Torn'
        /\ \A s \in Slots : Done(s) => Done(s)'
    BY <1>4, DdFrame DEF ClearSlot
  <2>3. Synced' /\ Passed'
    BY <2>1, <2>2 DEF Progress, Synced, Passed
  <2>4. Length[blob] \in Nat \ {0}
    BY <2>1 DEF BaseInv, Running
  <2>5. Writing'
    BY <2>1, <2>4 DEF Progress, Writing
  <2> QED
    BY <2>2, <2>3, <2>5 DEF Progress
<1>5. CASE CopyBlob
  <2>1. /\ pc = "copy"
        /\ cache' = [cache EXCEPT ![At(slot, sector)] = <<blob, sector>>]
        /\ UNCHANGED <<disk, report, slot, blob>>
        /\ \/ pc' = "copy" /\ sector' = sector + 1 /\ sector + 1 < Length[blob]
           \/ pc' = "fsync" /\ sector + 1 = Length[blob]
    <3>1. pc = "copy" /\ sector < Length[blob] /\ Length[blob] \in Nat
      BY <1>5 DEF CopyBlob, Dd, Progress, Writing, BaseInv, Running
    <3> QED
      BY <1>0, <1>5, <3>1 DEF CopyBlob, Dd
  <2>2. /\ \A s \in Slots \ {slot} : Clean(s)'
        /\ Settled' /\ Torn'
        /\ \A s \in Slots : Done(s) => Done(s)'
        /\ \A k \in 0 .. (SlotSectors - 1) :
             k # sector => cache'[At(slot, k)] = cache[At(slot, k)]
        /\ cache'[At(slot, sector)] = <<blob, sector>>
    BY <1>5, DdFrame DEF CopyBlob
  <2>3. Synced' /\ Passed'
    BY <2>1, <2>2 DEF Progress, Synced, Passed
  <2>4. \A k \in 0 .. (SlotSectors - 1) :
          k < sector + 1 => cache'[At(slot, k)] = <<blob, k>>
    BY <1>0, <2>1, <2>2 DEF Progress, Writing
  <2>5. Length[blob] \in Nat \ {0} /\ Length[blob] <= SlotSectors
    BY <2>1 DEF BaseInv, Running, Writable
  <2>6. pc' = "fsync" => Head(cache, slot, blob)'
    BY <1>0, <2>1, <2>4, <2>5 DEF Head, At
  <2>7. Writing'
    BY <2>1, <2>4, <2>6 DEF Progress, Writing, At
  <2> QED
    BY <2>2, <2>3, <2>7 DEF Progress
<1>6. CASE Fsync
  <2>1. /\ pc = "fsync" /\ pc' = "verify" /\ disk' = cache /\ cache' = cache
        /\ UNCHANGED <<blob, slot, report>>
    BY <1>6 DEF Fsync
  <2>2. \A s \in Slots \ {slot} : Clean(s)
    BY <2>1 DEF Progress, Synced
  <2>3. ASSUME NEW s \in Slots, s # slot
        PROVE  /\ Whole(s) => Whole(s)'
               /\ Done(s) => Done(s)'
    <3>1. \A k \in 0 .. (SlotSectors - 1) : disk'[At(s, k)] = disk[At(s, k)]
      BY <2>1, <2>2, <2>3 DEF Clean
    <3>2. blob \in Blobs /\ Writable(blob)
      BY <2>1 DEF BaseInv, Running
    <3> QED
      BY <2>1, <3>1, <3>2, MediumFrame DEF Done, Head
  <2>4. Settled'
    BY <2>1, <2>3 DEF Progress, Settled, Writing
  <2>5. Torn'
    BY <1>0, <2>1, <2>3 DEF Progress, Torn, Writing, Writable, Done
  <2>6. Passed'
    BY <1>0, <2>1, <2>3 DEF Progress, Passed
  <2>7. Synced' /\ Writing'
    BY <2>1 DEF Progress, Synced, Writing, Head, At
  <2> QED
    BY <2>4, <2>5, <2>6, <2>7 DEF Progress
<1>7. CASE Verify
  <2>1. Head(cache, slot, blob)
    BY <1>7 DEF Progress, Writing, Verify
  <2> QED
    BY <1>0, <1>7, <2>1, SlotFinished DEF Verify
<1>8. CASE NewBlob
  <2>1. /\ UNCHANGED device /\ UNCHANGED <<disk, cache, pc, slot, sector, report>>
        /\ pc = "idle" /\ \A s \in Slots : report[s] # "cleared"
    BY <1>8 DEF NewBlob, device, loop
  <2> QED
    BY <2>1, DeviceFrame DEF Progress, Settled, Synced, Torn, Passed, Writing
<1>9. CASE Writeback
  <2>1. PICK a \in Window :
          /\ disk[a] # cache[a]
          /\ disk' = [disk EXCEPT ![a] = cache[a]]
          /\ UNCHANGED <<cache, blob, pc, slot, sector, report>>
    BY <1>9 DEF Writeback, loop
  <2>2. pc \in {"zero", "copy", "fsync"} /\ \A s \in Slots \ {slot} : Clean(s)
    BY <2>1 DEF Progress, Synced
  <2>3. ASSUME NEW s \in Slots, s # slot
        PROVE  /\ Whole(s) => Whole(s)'
               /\ Done(s) => Done(s)'
               /\ Clean(s)'
    <3>1. \A k \in 0 .. (SlotSectors - 1) : disk'[At(s, k)] = disk[At(s, k)]
      BY <1>0, <2>1, <2>2, <2>3, AtInWindow DEF Clean
    <3>2. blob \in Blobs /\ Writable(blob)
      BY <2>2 DEF BaseInv, Running
    <3>3. Whole(s) => Whole(s)'
      BY <3>1, MediumFrame
    <3>4. Done(s) => Done(s)'
      BY <2>1, <3>1, <3>2, MediumFrame DEF Done, Head
    <3>5. Clean(s)'
      BY <2>1, <2>2, <2>3, <3>1 DEF Clean, At
    <3> QED
      BY <3>3, <3>4, <3>5
  <2>4. Settled' /\ Synced'
    BY <2>1, <2>2, <2>3 DEF Progress, Settled, Synced, Writing
  <2>5. Torn'
    BY <1>0, <2>1, <2>2, <2>3 DEF Progress, Torn, Writing, Writable, Done
  <2>6. Passed'
    BY <1>0, <2>1, <2>3 DEF Progress, Passed
  <2>7. Writing'
    BY <2>1, <2>2 DEF Progress, Writing, Head, At
  <2> QED
    BY <2>4, <2>5, <2>6, <2>7 DEF Progress
<1>10. CASE PowerCut
  <2>1. /\ disk' = disk /\ cache' = disk /\ UNCHANGED <<blob, report>>
        /\ pc' = "idle" /\ slot' = 0
    BY <1>10 DEF PowerCut, Interrupt
  <2>2. ASSUME NEW s \in Slots
        PROVE  (Whole(s)' <=> Whole(s)) /\ (Done(s)' <=> Done(s))
    BY <2>1 DEF Whole, Done, Head, Writable, At
  <2>3. Settled' /\ Synced' /\ Passed' /\ Writing'
    BY <2>1, <2>2 DEF Progress, Settled, Synced, Passed, Writing
  <2>4. Torn'
    BY <1>0, <2>1, <2>2 DEF Progress, Torn, Writable
  <2> QED
    BY <2>3, <2>4 DEF Progress
<1>11. CASE Killed
  BY <1>11 DEF Killed
<1>12. CASE UNCHANGED vars
  <2>1. UNCHANGED <<device, blob, pc, slot, sector, report>> /\ UNCHANGED device
    BY <1>12 DEF vars, loop
  <2>2. Settled' /\ Torn' /\ Passed'
    BY <2>1, DeviceFrame DEF Progress, Settled, Torn, Passed, Done, Writable
  <2>3. Writing' /\ Synced'
    BY <2>1, <1>0, DeviceFrame DEF Progress, Writing, Synced, device, At
  <2> QED
    BY <2>2, <2>3 DEF Progress
<1> QED
  BY <1>1, <1>2, <1>3, <1>4, <1>5, <1>6, <1>7, <1>8, <1>9, <1>10, <1>11, <1>12
  DEF Next, Script

(* So the whole inductive invariant holds in every reachable state.         *)
LEMMA ProgressInvariant ==
  ASSUME RerunFirst, ~Signals, ~ReadFaults
  PROVE  Spec => []IInv
<1>1. Init => IInv
  BY BaseInit, ProgressInit DEF IInv, BaseInv
<1>2. IInv /\ [Next]_vars => IInv'
  BY BaseStep, ProgressStep DEF IInv, BaseInv
<1> QED
  BY <1>1, <1>2, PTL DEF Spec

(* The account implies that a slot the boot ROM can fall back on is whole.  *)
LEMMA ProgressKeepsOneWhole ==
  ASSUME IInv, Copies >= 2
  PROVE  SomeSlotWhole
<1> USE SlotAssumption
<1>1. 0 \in Slots /\ 1 \in Slots
  BY DEF Slots
<1>2. report[0] # "cleared" \/ report[1] # "cleared"
  BY <1>1 DEF IInv, Progress, Torn, Done, Slots
<1> QED
  BY <1>1, <1>2 DEF IInv, Progress, Settled, SomeSlotWhole

(* With two slots or more, and no reads that fail, no kills without power  *)
(* loss and no new blob over a cleared slot, the medium holds a whole FIT  *)
(* at every instant, however often the power is cut.                       *)
THEOREM OneSlotSurvives ==
  ASSUME Copies >= 2, RerunFirst, ~Signals, ~ReadFaults
  PROVE  Spec => []SomeSlotWhole
<1>1. IInv => SomeSlotWhole
  BY ProgressKeepsOneWhole
<1> QED
  BY <1>1, ProgressInvariant, PTL

(* Under the same assumptions what the script last said of a slot is true  *)
(* of the medium: a slot it left alone or wrote is a whole FIT until a     *)
(* later run begins to clear it.                                           *)
THEOREM ReportsWhole ==
  ASSUME RerunFirst, ~Signals, ~ReadFaults
  PROVE  Spec => []ReportedIsWhole
<1>1. IInv => ReportedIsWhole
  BY DEF IInv, Progress, Settled, ReportedIsWhole
<1> QED
  BY <1>1, ProgressInvariant, PTL

-----------------------------------------------------------------------------
(* What the script implements, a store of slots.                           *)

(* Every step of the script, the kernel and the power supply is a step of  *)
(* the slot store, or none.                                                *)
LEMMA StepOfStore ==
  ASSUME RerunFirst, ~Signals, ~ReadFaults, IInv, IInv', [Next]_vars
  PROVE  [Slotwise!Next]_<<{s \in Slots : report[s] = "cleared"}, {s \in Slots : Whole(s)}>>
<1> USE SlotAssumption
<1> DEFINE Op == {s \in Slots : report[s] = "cleared"}
           Wh == {s \in Slots : Whole(s)}
           Op2 == {s \in Slots : report'[s] = "cleared"}
           Wh2 == {s \in Slots : Whole(s)'}
<1>0. /\ slot \in Slots /\ \A s \in Slots : s \in Nat
      /\ report \in [Slots -> {"current", "written", "failed", "cleared"}]
      /\ report' \in [Slots -> {"current", "written", "failed", "cleared"}]
      /\ ~Misread
  BY DEF IInv, TypeOK, Slots, Misread
<1>1. Op \subseteq Slots /\ Wh \subseteq Slots /\ Wh2 \subseteq Slots
  OBVIOUS
<1>2. Slots \ Op \subseteq Wh /\ Slots \ Op2 \subseteq Wh2
  <2>1. Slots \ Op \subseteq Wh
    BY DEF IInv, Progress, Settled
  <2>2. Slots \ Op2 \subseteq Wh2
    BY DEF IInv, Progress, Settled
  <2> QED
    BY <2>1, <2>2
\* a step that leaves the reports alone leaves the closed slots alone
<1>3. ASSUME report' = report
      PROVE  [Slotwise!Next]_<<Op, Wh>>
  <2>1. Op2 = Op
    BY <1>3
  <2>2. Wh2 \ Op = Wh \ Op
    BY <1>2, <2>1
  <2>3. Wh2 \in SUBSET Slots
    OBVIOUS
  <2> QED
    BY <2>1, <2>2, <2>3 DEF Slotwise!Next, Slotwise!Rewrite
\* a finished slot is closed, if it was open
<1>4. ASSUME NEW word \in {"current", "written"}, UNCHANGED device,
             report' = [report EXCEPT ![slot] = word]
      PROVE  [Slotwise!Next]_<<Op, Wh>>
  <2>1. Wh2 = Wh
    BY <1>4, DeviceFrame
  <2>2. Op2 = Op \ {slot}
    BY <1>0, <1>4
  <2>3. slot \in Wh
    BY <1>0, <1>2, <2>1, <2>2
  <2>4. CASE slot \in Op
    BY <1>0, <2>1, <2>2, <2>3, <2>4 DEF Slotwise!Next, Slotwise!Close
  <2>5. CASE slot \notin Op
    BY <2>1, <2>2, <2>5
  <2> QED
    BY <2>4, <2>5
<1>5. CASE SlotCurrent
  BY <1>4, <1>5 DEF SlotCurrent, device
<1>6. CASE SlotStale
  <2>1. /\ ~Head(cache, slot, blob) /\ UNCHANGED device
        /\ report' = [report EXCEPT ![slot] = "cleared"]
        /\ pc = "check"
    BY <1>0, <1>6 DEF SlotStale, device
  <2>2. Wh2 = Wh
    BY <2>1, DeviceFrame
  <2>3. Op2 = Op \cup {slot}
    BY <1>0, <2>1
  <2>4. disk = cache
    BY <2>1 DEF IInv, Progress, Synced
  <2>5. Op \subseteq {slot}
    BY <1>0, <2>1, <2>4 DEF IInv, Progress, Torn, Done
  <2>6. CASE slot \in Op
    BY <2>2, <2>3, <2>6
  <2>7. CASE slot \notin Op
    BY <1>0, <2>2, <2>3, <2>5, <2>7 DEF Slotwise!Next, Slotwise!Open
  <2> QED
    BY <2>6, <2>7
<1>7. CASE Verify
  <2>1. Head(cache, slot, blob)
    BY <1>7 DEF IInv, Progress, Writing, Verify
  <2> QED
    BY <1>0, <1>4, <1>7, <2>1 DEF Verify, device
<1>8. CASE ~(SlotCurrent \/ SlotStale \/ Verify)
  <2>1. report' = report
    BY <1>8 DEF Next, Script, Begin, ClearSlot, CopyBlob, Dd, Fsync, NewBlob,
                Writeback, PowerCut, Killed, Interrupt, vars
  <2> QED
    BY <1>3, <2>1
<1> QED
  BY <1>5, <1>6, <1>7, <1>8

(* Under the assumptions of OneSlotSurvives, but for any number of slots,  *)
(* update_uboot implements a slot store: at most one slot is open at a     *)
(* time, no other loses its blob, and it is closed only when whole again.  *)
THEOREM ImplementsStore ==
  ASSUME RerunFirst, ~Signals, ~ReadFaults
  PROVE  Spec => KeepsStore
<1>1. Init => Slotwise!Init
  <2> SUFFICES ASSUME Init PROVE Slotwise!Init
    OBVIOUS
  <2>1. \A s \in Slots : report[s] = "current"
    BY DEF Init
  <2>2. \A s \in Slots : Whole(s)
    BY <2>1, ProgressInit DEF Progress, Settled
  <2> QED
    BY <2>1, <2>2 DEF Slotwise!Init
<1>2. IInv /\ IInv' /\ [Next]_vars
        => [Slotwise!Next]_<<{s \in Slots : report[s] = "cleared"}, {s \in Slots : Whole(s)}>>
  BY StepOfStore
<1> QED
  BY <1>1, <1>2, ProgressInvariant, PTL DEF Spec, KeepsStore, Slotwise!Spec

-----------------------------------------------------------------------------
(* What makes a rerun repair: what SlotsBecomeCurrent rests on, step by    *)
(* step.                                                                   *)

\* A slot that is current stays so until there is another blob, whatever else
\* the script, the kernel or the power supply does to the device.
CurrentStays ==
  [][blob' = blob /\ blob \in Blobs /\ Writable(blob) =>
       \A s \in Slots : Done(s) => Done(s)']_vars

\* A run that gets to the end of its loop leaves every slot current on the medium.
RunReachesMedium ==
  [][pc # "idle" /\ pc' = "idle" /\ faults' = faults => \A s \in Slots : Done(s)']_vars

LEMMA StaysCurrent ==
  ASSUME ~ReadFaults, BaseInv, Progress, [Next]_vars,
         blob' = blob, blob \in Blobs, Writable(blob), NEW t \in Slots, Done(t)
  PROVE  Done(t)'
<1> USE SlotAssumption
<1>0. /\ slot \in Slots /\ ~Misread
      /\ report \in [Slots -> {"current", "written", "failed", "cleared"}]
      /\ disk \in [Disk -> (Blobs \X Nat) \cup {Zero, Other}]
  BY DEF BaseInv, TypeOK, Misread
\* the medium keeps the slot and the report is still not "cleared"
<1>1. ASSUME \A k \in 0 .. (SlotSectors - 1) : disk'[At(t, k)] = disk[At(t, k)],
             report'[t] # "cleared"
      PROVE  Done(t)'
  <2>1. Head(disk, t, blob)'
    BY <1>1, MediumFrame DEF Done
  <2> QED
    BY <1>1, <2>1 DEF Done
<1>2. CASE disk' = disk /\ report' = report
  BY <1>1, <1>2 DEF Done
<1>3. CASE SlotCurrent
  BY <1>0, <1>1, <1>3 DEF SlotCurrent, device, Done
<1>4. CASE SlotStale
  <2>1. ~Head(cache, slot, blob) /\ disk = cache
    BY <1>0, <1>4 DEF SlotStale, Progress, Synced
  <2>2. t # slot
    BY <2>1 DEF Done
  <2> QED
    BY <1>0, <1>1, <1>4, <2>2 DEF SlotStale, device, Done
<1>5. CASE Verify
  <2>1. disk' = disk /\ report' \in {[report EXCEPT ![slot] = "written"], [report EXCEPT ![slot] = "failed"]}
    BY <1>5 DEF Verify, device
  <2> QED
    BY <1>0, <1>1, <2>1 DEF Done
<1>6. CASE Fsync
  <2>1. t # slot
    BY <1>6 DEF Fsync, Progress, Writing, Done
  <2>2. Clean(t)
    BY <1>6, <2>1 DEF Fsync, Progress, Synced
  <2> QED
    BY <1>1, <1>6, <2>2 DEF Fsync, Clean, Done
<1>7. CASE Writeback
  <2>1. PICK a \in Window : disk[a] # cache[a] /\ disk' = [disk EXCEPT ![a] = cache[a]] /\ report' = report
    BY <1>7 DEF Writeback
  <2>2. Clean(t)
    <3>1. pc \in {"zero", "copy", "fsync"} => t # slot
      BY DEF Progress, Writing, Done
    <3>2. disk # cache
      BY <2>1
    <3> QED
      BY <3>1, <3>2 DEF Progress, Synced
  <2>3. \A k \in 0 .. (SlotSectors - 1) : disk'[At(t, k)] = disk[At(t, k)]
    BY <1>0, <2>1, <2>2, AtInWindow DEF Clean
  <2> QED
    BY <1>1, <2>1, <2>3 DEF Done
<1>8. CASE Begin \/ ClearSlot \/ CopyBlob \/ NewBlob \/ PowerCut \/ Killed \/ UNCHANGED vars
  BY <1>2, <1>8 DEF Begin, ClearSlot, CopyBlob, Dd, NewBlob, PowerCut, Killed, Interrupt, vars, device, loop
<1> QED
  BY <1>3, <1>4, <1>5, <1>6, <1>7, <1>8 DEF Next, Script

LEMMA LastSlotDone ==
  ASSUME ~ReadFaults, BaseInv, Progress, Progress', [Next]_vars,
         pc # "idle", pc' = "idle", faults' = faults
  PROVE  \A s \in Slots : Done(s)'
<1> USE SlotAssumption
<1>0. /\ slot \in Slots /\ slot \in Nat /\ \A s \in Slots : s \in Nat /\ s < Copies
      /\ faults \in Nat /\ ~Misread
      /\ report \in [Slots -> {"current", "written", "failed", "cleared"}]
      /\ blob \in Blobs /\ Writable(blob)
  BY DEF BaseInv, TypeOK, Slots, Misread, Running
<1>1. SlotCurrent \/ Verify
  BY <1>0 DEF Next, Script, Begin, SlotStale, ClearSlot, CopyBlob, Dd, Fsync, NewBlob, Writeback,
              PowerCut, Killed, Interrupt, vars, loop
<1>2. UNCHANGED <<device, blob>> /\ Advance /\ Head(cache, slot, blob) /\ disk = cache
  <2>1. Head(cache, slot, blob) /\ disk = cache
    BY <1>1 DEF SlotCurrent, Verify, Progress, Writing, Synced
  <2> QED
    BY <1>1, <2>1 DEF SlotCurrent, Verify, device
<1>3. \A s \in Slots : s <= slot
  BY <1>0, <1>2 DEF Advance, Slots
<1>4. report'[slot] # "cleared" /\ \A s \in Slots \ {slot} : report'[s] = report[s]
  BY <1>0, <1>1 DEF SlotCurrent, Verify
<1>5. \A s \in Slots : Done(s)' <=> report'[s] # "cleared" /\ Head(disk, s, blob)
  BY <1>2, DeviceFrame DEF Done
<1>6. \A s \in Slots : s = slot => Done(s)'
  BY <1>0, <1>2, <1>4, <1>5
<1>7. \A s \in Slots \ {slot} : Done(s)
  BY <1>0, <1>3 DEF Progress, Passed
<1>8. \A s \in Slots \ {slot} : Done(s)'
  BY <1>4, <1>5, <1>7 DEF Done
<1> QED
  BY <1>6, <1>8

(* Under the assumptions of OneSlotSurvives, but for any number of slots:  *)
(* no step takes back what a run has brought up to date, a power cut and   *)
(* the next run's clearing included, until there is another blob.          *)
THEOREM NothingUndone ==
  ASSUME RerunFirst, ~Signals, ~ReadFaults
  PROVE  Spec => CurrentStays
<1>1. IInv /\ [Next]_vars =>
        [blob' = blob /\ blob \in Blobs /\ Writable(blob) => \A s \in Slots : Done(s) => Done(s)']_vars
  BY StaysCurrent DEF IInv, BaseInv
<1> QED
  BY <1>1, ProgressInvariant, PTL DEF Spec, CurrentStays

(* Under the same assumptions, so after power cuts but not after a run     *)
(* that was killed on a box that stayed up: a run of update_uboot that     *)
(* gets to its end leaves the installed blob on the medium in every slot,  *)
(* and none marked as cleared.                                             *)
THEOREM RerunReachesMedium ==
  ASSUME RerunFirst, ~Signals, ~ReadFaults
  PROVE  Spec => RunReachesMedium
<1>1. IInv /\ IInv' /\ [Next]_vars =>
        [pc # "idle" /\ pc' = "idle" /\ faults' = faults => \A s \in Slots : Done(s)']_vars
  BY LastSlotDone DEF IInv, BaseInv
<1> QED
  BY <1>1, ProgressInvariant, PTL DEF Spec, RunReachesMedium

-----------------------------------------------------------------------------
(* "written and verified", with every fault the model has.                 *)

(* A slot whose sectors read and lie as before.                            *)
LEMMA SlotFrame ==
  ASSUME NEW s \in Slots,
         \A k \in 0 .. (SlotSectors - 1) :
           disk'[At(s, k)] = disk[At(s, k)] /\ cache'[At(s, k)] = cache[At(s, k)]
  PROVE  /\ Clean(s) => Clean(s)'
         /\ \A b : Exact(s, b) => Exact(s, b)'
BY DEF Clean, Exact, Copied, At

(* Steps that leave the reports alone and touch no slot they speak of.     *)
LEMMA VerifiedFrame ==
  ASSUME Verified, UNCHANGED report,
         \A s \in Slots : report[s] = "written" =>
           \A k \in 0 .. (SlotSectors - 1) :
             disk'[At(s, k)] = disk[At(s, k)] /\ cache'[At(s, k)] = cache[At(s, k)]
  PROVE  Verified'
<1> SUFFICES ASSUME NEW s \in Slots, report[s] = "written"
             PROVE  Clean(s)' /\ \E b \in Fit : Writable(b)' /\ Exact(s, b)'
  BY DEF Verified
<1>1. PICK b \in Fit : Writable(b) /\ Exact(s, b)
  BY DEF Verified
<1>2. Clean(s)
  BY DEF Verified
<1>3. Clean(s)' /\ Exact(s, b)'
  BY <1>1, <1>2, SlotFrame
<1> QED
  BY <1>1, <1>3 DEF Writable

(* A sector written by a dd leaves the other slots and sectors.            *)
LEMMA DdTouches ==
  ASSUME BaseInv, Rewriting, Verified, NEW step \in {"zero", "copy"},
         NEW count, NEW content, NEW next, Dd(step, count, content, next)
  PROVE  /\ Verified'
         /\ \A k \in 0 .. (SlotSectors - 1) :
              k # sector => cache'[At(slot, k)] = cache[At(slot, k)]
         /\ cache'[At(slot, sector)] = content
<1> USE SlotAssumption
<1>0. /\ slot \in Slots /\ sector \in 0 .. (SlotSectors - 1)
      /\ cache \in [Disk -> (Blobs \X Nat) \cup {Zero, Other}]
      /\ cache' = [cache EXCEPT ![At(slot, sector)] = content]
      /\ disk' = disk /\ report' = report /\ report[slot] = "cleared"
  BY DEF BaseInv, TypeOK, Dd, Rewriting
<1>1. ASSUME NEW s \in Slots, NEW k \in 0 .. (SlotSectors - 1), s # slot \/ k # sector
      PROVE  cache'[At(s, k)] = cache[At(s, k)]
  <2>1. At(s, k) # At(slot, sector)
    BY <1>0, <1>1, AtInjective
  <2> QED
    BY <1>0, <2>1, AtInWindow
<1>2. Verified'
  BY <1>0, <1>1, VerifiedFrame
<1>3. cache'[At(slot, sector)] = content
  BY <1>0, AtInWindow
<1> QED
  BY <1>0, <1>1, <1>2, <1>3

(* Every step keeps what a verified slot, and the one being written, hold. *)
LEMMA ExactStep ==
  ASSUME BaseInv, Rewriting, Verified, [Next]_vars
  PROVE  Rewriting' /\ Verified'
<1> USE SlotAssumption
<1>0. /\ slot \in Slots /\ sector \in 0 .. (SlotSectors - 1)
      /\ report \in [Slots -> {"current", "written", "failed", "cleared"}]
      /\ disk \in [Disk -> (Blobs \X Nat) \cup {Zero, Other}]
  BY DEF BaseInv, TypeOK
<1>1. ASSUME UNCHANGED <<disk, cache, report>>, pc' \in {"idle", "check"}
      PROVE  Rewriting' /\ Verified'
  BY <1>1, VerifiedFrame DEF Rewriting
<1>2. CASE Begin
  BY <1>1, <1>2 DEF Begin, device
<1>3. CASE SlotCurrent
  <2>1. /\ UNCHANGED <<disk, cache>> /\ pc' \in {"idle", "check"}
        /\ report' = [report EXCEPT ![slot] = "current"]
    BY <1>3 DEF SlotCurrent, Advance, device
  <2>2. \A s \in Slots : report'[s] = "written" => report[s] = "written"
    BY <1>0, <2>1
  <2>3. \A s \in Slots : (Clean(s) => Clean(s)') /\ \A b : Exact(s, b) => Exact(s, b)'
    BY <2>1, SlotFrame
  <2> QED
    BY <2>1, <2>2, <2>3 DEF Rewriting, Verified, Writable
<1>4. CASE SlotStale
  <2>1. /\ UNCHANGED <<disk, cache, slot>> /\ pc' = "zero" /\ sector' = 0
        /\ report' = [report EXCEPT ![slot] = "cleared"]
    BY <1>4 DEF SlotStale, device
  <2>2. \A s \in Slots : report'[s] = "written" => report[s] = "written"
    BY <1>0, <2>1
  <2>3. \A s \in Slots : (Clean(s) => Clean(s)') /\ \A b : Exact(s, b) => Exact(s, b)'
    BY <2>1, SlotFrame
  <2>4. Verified'
    BY <2>2, <2>3 DEF Verified, Writable
  <2>5. Rewriting'
    BY <1>0, <2>1 DEF Rewriting, Blank
  <2> QED
    BY <2>4, <2>5
<1>5. CASE ClearSlot
  <2>1. /\ pc = "zero" /\ UNCHANGED <<report, slot, blob>>
        /\ \/ pc' = "zero" /\ sector' = sector + 1
           \/ pc' = "copy" /\ sector' = 0 /\ sector = SlotSectors - 1
    BY <1>0, <1>5 DEF ClearSlot, Dd
  <2>2. /\ Verified'
        /\ \A k \in 0 .. (SlotSectors - 1) :
              k # sector => cache'[At(slot, k)] = cache[At(slot, k)]
        /\ cache'[At(slot, sector)] = Zero
    BY <1>5, DdTouches DEF ClearSlot
  <2>3. \A k \in 0 .. (SlotSectors - 1) : k < sector + 1 => cache'[At(slot, k)] = Zero
    BY <1>0, <2>1, <2>2 DEF Rewriting, Blank
  <2>4. Length[blob] \in Nat \ {0}
    BY <2>1 DEF BaseInv, Running
  <2>5. Rewriting'
    BY <1>0, <2>1, <2>3, <2>4 DEF Rewriting, Blank, Copied, At
  <2> QED
    BY <2>2, <2>5
<1>6. CASE CopyBlob
  <2>0. pc = "copy" /\ Length[blob] \in Nat /\ sector < Length[blob]
        /\ Length[blob] <= SlotSectors
    BY <1>6 DEF BaseInv, Running, Writable, Rewriting, CopyBlob, Dd
  <2>1. /\ UNCHANGED <<report, slot, blob>>
        /\ \/ pc' = "copy" /\ sector' = sector + 1 /\ sector + 1 < Length[blob]
           \/ pc' = "fsync" /\ sector + 1 = Length[blob]
    BY <1>0, <1>6, <2>0 DEF CopyBlob, Dd
  <2>2. /\ Verified'
        /\ \A k \in 0 .. (SlotSectors - 1) :
              k # sector => cache'[At(slot, k)] = cache[At(slot, k)]
        /\ cache'[At(slot, sector)] = <<blob, sector>>
    BY <1>6, DdTouches DEF CopyBlob
  <2>3. Copied(slot, blob, sector)
    BY <2>0 DEF Rewriting
  <2>4. \A k \in 0 .. (SlotSectors - 1) :
          cache'[At(slot, k)] = IF k < sector + 1 THEN <<blob, k>> ELSE Zero
    <3> SUFFICES ASSUME NEW k \in 0 .. (SlotSectors - 1)
                 PROVE  cache'[At(slot, k)] = IF k < sector + 1 THEN <<blob, k>> ELSE Zero
      OBVIOUS
    <3>1. CASE k = sector
      BY <1>0, <2>2, <3>1
    <3>2. CASE k # sector
      BY <1>0, <2>2, <2>3, <3>2 DEF Copied
    <3> QED
      BY <3>1, <3>2
  <2>5. Rewriting'
    BY <2>1, <2>0, <2>4, <1>0 DEF Rewriting, Copied, Exact, At
  <2> QED
    BY <2>2, <2>5
<1>7. CASE Fsync
  <2>1. /\ pc = "fsync" /\ pc' = "verify" /\ disk' = cache /\ cache' = cache
        /\ UNCHANGED <<blob, slot, report>>
    BY <1>7 DEF Fsync
  <2>2. Verified'
    <3>1. \A s \in Slots : report[s] = "written" => Clean(s)
      BY DEF Verified
    <3> QED
      BY <2>1, <3>1, VerifiedFrame DEF Clean
  <2>3. Rewriting'
    BY <2>1 DEF Rewriting, Clean, Exact, Copied, At
  <2> QED
    BY <2>2, <2>3
<1>8. CASE Verify
  <2>1. /\ pc = "verify" /\ UNCHANGED <<disk, cache>> /\ pc' \in {"idle", "check"}
        /\ \E word \in {"written", "failed"} : report' = [report EXCEPT ![slot] = word]
    BY <1>8 DEF Verify, Advance, device
  <2>2. \A s \in Slots : report'[s] = "written" => report[s] = "written" \/ s = slot
    BY <1>0, <2>1
  <2>3. \A s \in Slots : (Clean(s) => Clean(s)') /\ \A b : Exact(s, b) => Exact(s, b)'
    BY <2>1, SlotFrame
  <2>4. Clean(slot) /\ Exact(slot, blob) /\ blob \in Fit /\ Writable(blob)
    BY <2>1 DEF Rewriting, BaseInv, Running, Writable
  <2>5. Verified'
    <3> SUFFICES ASSUME NEW s \in Slots, report'[s] = "written"
                 PROVE  Clean(s)' /\ \E b \in Fit : Writable(b)' /\ Exact(s, b)'
      BY DEF Verified
    <3>1. Clean(s) /\ \E b \in Fit : Writable(b) /\ Exact(s, b)
      BY <2>2, <2>4 DEF Verified
    <3> QED
      BY <2>3, <3>1 DEF Writable
  <2>6. Rewriting'
    BY <2>1 DEF Rewriting
  <2> QED
    BY <2>5, <2>6
<1>9. CASE NewBlob
  BY <1>1, <1>9 DEF NewBlob, device, loop
<1>10. CASE Writeback
  <2>1. PICK a \in Window :
          /\ disk[a] # cache[a]
          /\ disk' = [disk EXCEPT ![a] = cache[a]]
          /\ UNCHANGED <<cache, blob, pc, slot, sector, report>>
    BY <1>10 DEF Writeback, loop
  <2>2. ASSUME NEW s \in Slots, Clean(s), NEW k \in 0 .. (SlotSectors - 1)
        PROVE  disk'[At(s, k)] = disk[At(s, k)]
    BY <1>0, <2>1, <2>2, AtInWindow DEF Clean
  <2>3. Verified'
    <3>1. \A s \in Slots : report[s] = "written" => Clean(s)
      BY DEF Verified
    <3> QED
      BY <2>1, <2>2, <3>1, VerifiedFrame
  <2>4. Clean(slot) => Clean(slot)'
    BY <1>0, <2>1, <2>2 DEF Clean, At
  <2>5. Rewriting'
    BY <2>1, <2>4 DEF Rewriting, Blank, Copied, Exact, At
  <2> QED
    BY <2>3, <2>5
<1>11. CASE PowerCut
  <2>1. disk' = disk /\ cache' = disk /\ UNCHANGED report /\ pc' = "idle"
    BY <1>11 DEF PowerCut, Interrupt
  <2>2. \A s \in Slots : report[s] = "written" => Clean(s)
    BY DEF Verified
  <2>3. Verified'
    BY <2>1, <2>2, VerifiedFrame DEF Clean
  <2> QED
    BY <2>1, <2>3 DEF Rewriting
<1>12. CASE Killed
  BY <1>1, <1>12 DEF Killed, Interrupt
<1>13. CASE UNCHANGED vars
  <2>1. UNCHANGED <<disk, cache, blob, pc, slot, sector, report>>
    BY <1>13 DEF vars, device, loop
  <2>2. Verified'
    BY <2>1, VerifiedFrame
  <2>3. Rewriting'
    BY <2>1 DEF Rewriting, Blank, Copied, Exact, Clean, At
  <2> QED
    BY <2>2, <2>3
<1> QED
  BY <1>2, <1>3, <1>4, <1>5, <1>6, <1>7, <1>8, <1>9, <1>10, <1>11, <1>12, <1>13
  DEF Next, Script

(* So a slot that is being written, and one that was verified, hold what   *)
(* they should in every reachable state.                                   *)
LEMMA ExactInvariant == Spec => []EInv
<1>1. Init => EInv
  <2> SUFFICES ASSUME Init PROVE EInv
    OBVIOUS
  <2>1. Rewriting /\ Verified
    BY DEF Init, Rewriting, Verified
  <2> QED
    BY <2>1, BaseInit DEF EInv, BaseInv
<1>2. EInv /\ [Next]_vars => EInv'
  BY BaseStep, ExactStep DEF EInv, BaseInv
<1> QED
  BY <1>1, <1>2, PTL DEF Spec

(* With misreads, kills that leave the page cache alive, power cuts and    *)
(* new blobs over half-written slots, for any number and size of slots and *)
(* blobs: a slot reported "written and verified" is the whole blob, with   *)
(* nothing behind it, on the medium.                                       *)
THEOREM WrittenExactly == Spec => []WrittenIsExact
<1>1. EInv => WrittenIsExact
  <2> SUFFICES ASSUME EInv, NEW s \in Slots, report[s] = "written"
               PROVE  \E b \in Fit : Writable(b) /\ Head(disk, s, b) /\ Tail(disk, s, b)
    BY DEF WrittenIsExact
  <2>1. PICK b \in Fit : Writable(b) /\ Exact(s, b)
    BY DEF EInv, Verified
  <2>2. \A k \in 0 .. (SlotSectors - 1) :
          disk[At(s, k)] = IF k < Length[b] THEN <<b, k>> ELSE Zero
    BY <2>1 DEF EInv, Verified, Clean, Exact, Copied
  <2>3. Length[b] \in Nat \ {0} /\ Length[b] <= SlotSectors
    BY <2>1, SlotAssumption DEF Writable
  <2>4. \A k \in 0 .. (Length[b] - 1) : k \in 0 .. (SlotSectors - 1) /\ k < Length[b]
    BY <2>3, SlotAssumption
  <2>5. \A k \in Length[b] .. (SlotSectors - 1) :
          k \in 0 .. (SlotSectors - 1) /\ ~(k < Length[b])
    BY <2>3, SlotAssumption
  <2>6. Head(disk, s, b)
    BY <2>2, <2>4 DEF Head
  <2>7. Tail(disk, s, b)
    BY <2>2, <2>5 DEF Tail
  <2> QED
    BY <2>1, <2>6, <2>7
<1> QED
  BY <1>1, ExactInvariant, PTL

-----------------------------------------------------------------------------
(* What a rerun repairs, with every fault the model has.                   *)

\* A run that gets to the end of its loop leaves every slot reading as the blob,
\* and those it has written and verified on the medium as well.
RunRepairs ==
  [][(SlotCurrent \/ Verify) /\ pc' = "idle" =>
       \A s \in Slots : /\ Head(cache, s, blob)'
                       /\ report'[s] = "written" => Head(disk, s, blob)']_vars

\* the slots the loop has passed read as the blob
Seen == pc # "idle" => \A s \in Slots : s < slot => Head(cache, s, blob)

(* An exact copy begins with the blob.                                     *)
LEMMA ExactHead ==
  ASSUME NEW s \in Slots, NEW b \in Fit, Writable(b), Exact(s, b)
  PROVE  Head(cache, s, b)
<1>1. Length[b] \in Nat \ {0} /\ Length[b] <= SlotSectors /\ SlotSectors \in Nat
  BY SlotAssumption DEF Writable
<1>2. \A k \in 0 .. (Length[b] - 1) : k \in 0 .. (SlotSectors - 1) /\ k < Length[b]
  BY <1>1
<1> QED
  BY <1>2 DEF Exact, Copied, Head

(* The loop moves past a slot that reads as the blob only, either way.     *)
LEMMA PassedReads ==
  ASSUME BaseInv, Rewriting, SlotCurrent \/ Verify
  PROVE  Head(cache, slot, blob) /\ UNCHANGED <<disk, cache, blob>> /\ Advance
<1>1. CASE SlotCurrent
  BY <1>1 DEF SlotCurrent, device
<1>2. CASE Verify
  <2>1. slot \in Slots /\ blob \in Fit /\ Writable(blob) /\ Exact(slot, blob)
    BY <1>2 DEF Verify, Rewriting, BaseInv, TypeOK, Running, Writable
  <2> QED
    BY <1>2, <2>1, ExactHead DEF Verify, device
<1> QED
  BY <1>1, <1>2

(* A dd writes into its own slot only.                                     *)
LEMMA SeenDd ==
  ASSUME BaseInv, Seen, NEW step \in {"zero", "copy"}, NEW count, NEW content,
         NEW next \in {"copy", "fsync"}, Dd(step, count, content, next)
  PROVE  Seen'
<1> USE SlotAssumption
<1>0. /\ slot \in Slots /\ sector \in 0 .. (SlotSectors - 1) /\ UNCHANGED <<slot, blob>>
      /\ cache \in [Disk -> (Blobs \X Nat) \cup {Zero, Other}]
      /\ cache' = [cache EXCEPT ![At(slot, sector)] = content]
      /\ blob \in Blobs /\ Writable(blob) /\ pc # "idle"
  BY DEF BaseInv, TypeOK, Dd, Running
<1>1. ASSUME NEW s \in Slots, s < slot, NEW k \in 0 .. (SlotSectors - 1)
      PROVE  cache'[At(s, k)] = cache[At(s, k)]
  <2>1. s # slot
    BY <1>1 DEF Slots
  <2>2. At(s, k) # At(slot, sector)
    BY <1>0, <2>1, AtInjective
  <2> QED
    BY <1>0, <2>2, AtInWindow
<1>2. ASSUME NEW s \in Slots, s < slot PROVE Head(cache', s, blob)
  <2>1. Head(cache, s, blob)
    BY <1>0, <1>2 DEF Seen
  <2> QED
    BY <1>0, <1>1, <1>2, <2>1, HeadIsSectorwise
<1> QED
  BY <1>0, <1>2 DEF Seen, Head, At

(* Every step keeps what the loop has passed.                              *)
LEMMA SeenStep ==
  ASSUME BaseInv, Rewriting, Seen, [Next]_vars
  PROVE  Seen'
<1> USE SlotAssumption
<1>0. slot \in Slots
  BY DEF BaseInv, TypeOK
<1>1. ASSUME pc' = "idle" PROVE Seen'
  BY <1>1 DEF Seen
<1>2. ASSUME UNCHANGED <<cache, slot, blob>>, pc # "idle" PROVE Seen'
  BY <1>2 DEF Seen, Head, At
<1>3. CASE Begin
  <2>1. slot' = 0
    BY <1>3 DEF Begin
  <2>2. \A s \in Slots : ~(s < slot')
    BY <2>1 DEF Slots
  <2> QED
    BY <2>2 DEF Seen
<1>4. CASE SlotCurrent \/ Verify
  <2>1. Head(cache, slot, blob) /\ UNCHANGED <<disk, cache, blob>> /\ Advance
    BY <1>4, PassedReads
  <2>2. pc # "idle"
    BY <1>4 DEF SlotCurrent, Verify
  <2>3. ASSUME pc' # "idle", NEW s \in Slots, s < slot' PROVE Head(cache', s, blob')
    <3>1. s < slot \/ s = slot
      BY <1>0, <2>1, <2>3 DEF Advance, Slots
    <3> QED
      BY <2>1, <2>2, <3>1 DEF Seen, Head, At
  <2> QED
    BY <2>3 DEF Seen, Head, At
<1>5. CASE SlotStale \/ Fsync
  BY <1>2, <1>5 DEF SlotStale, Fsync, device
<1>6. CASE ClearSlot
  BY <1>6, SeenDd DEF ClearSlot
<1>7. CASE CopyBlob
  BY <1>7, SeenDd DEF CopyBlob
<1>8. CASE NewBlob \/ PowerCut \/ Killed
  BY <1>1, <1>8 DEF NewBlob, PowerCut, Killed, Interrupt, loop
<1>9. CASE Writeback \/ UNCHANGED vars
  <2>1. UNCHANGED <<cache, slot, blob, pc>>
    BY <1>9 DEF Writeback, vars, device, loop
  <2> QED
    BY <1>1, <1>2, <2>1
<1> QED
  BY <1>3, <1>4, <1>5, <1>6, <1>7, <1>8, <1>9 DEF Next, Script

(* Whatever interrupted the runs before it, a power cut, a kill on a box   *)
(* that stays up, or a new blob over a half-written slot, and whatever it  *)
(* misreads itself: a run of update_uboot that gets to its end leaves      *)
(* every slot reading as the installed blob, and those it reports written  *)
(* hold it on the medium.  What it found in the cache and left alone is    *)
(* the kernel's to write back.                                             *)
THEOREM RerunRepairs == Spec => RunRepairs
<1>1. Init => Seen
  BY DEF Init, Seen
<1>2. EInv /\ Seen /\ [Next]_vars => Seen'
  BY SeenStep DEF EInv, BaseInv
<1>3. EInv /\ EInv' /\ Seen /\ [Next]_vars =>
        [(SlotCurrent \/ Verify) /\ pc' = "idle" =>
           \A s \in Slots : /\ Head(cache, s, blob)'
                           /\ report'[s] = "written" => Head(disk, s, blob)']_vars
  <2> SUFFICES ASSUME EInv, EInv', Seen, SlotCurrent \/ Verify, pc' = "idle", NEW s \in Slots
               PROVE  /\ Head(cache', s, blob')
                      /\ report'[s] = "written" => Head(disk', s, blob')
    BY DEF Head, At
  <2>1. Head(cache, slot, blob) /\ UNCHANGED <<disk, cache, blob>> /\ Advance
    BY PassedReads DEF EInv, BaseInv
  <2>2. slot \in Slots /\ pc # "idle" /\ blob \in Blobs /\ Writable(blob)
    BY DEF EInv, TypeOK, Running, SlotCurrent, Verify
  <2>3. s < slot \/ s = slot
    BY <2>1, <2>2, SlotAssumption DEF Advance, Slots
  <2>4. Head(cache, s, blob)
    BY <2>1, <2>2, <2>3 DEF Seen
  <2>5. ASSUME report'[s] = "written" PROVE Head(disk', s, blob')
    <3>1. \A k \in 0 .. (SlotSectors - 1) : cache'[At(s, k)] = disk'[At(s, k)]
      BY <2>5 DEF EInv, Verified, Clean, At
    <3> QED
      BY <2>1, <2>2, <2>4, <3>1, HeadIsSectorwise
  <2> QED
    BY <2>1, <2>4, <2>5
<1> QED
  BY <1>1, <1>2, <1>3, ExactInvariant, PTL DEF Spec, RunRepairs
=============================================================================
