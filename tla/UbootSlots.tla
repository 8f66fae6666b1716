----------------------------- MODULE UbootSlots -----------------------------
(***************************************************************************)
(* The U-Boot slots of the boot device, and update_uboot of rk35xx-update, *)
(* which brings them to the uboot.itb the payload installed.               *)
(*                                                                         *)
(* The device is a flat array of sectors and the slots are a window of it. *)
(* A write lands in the page cache and reaches the medium sector by        *)
(* sector, in any order, until an fsync forces all of it; a read sees the  *)
(* cache.  Between any two sectors the power may fail, or the script may   *)
(* die while the box stays up (a hangup, Ctrl-C, a dd that fails under     *)
(* set -e).                                                                *)
(***************************************************************************)
EXTENDS Naturals

CONSTANTS
  Blobs,       \* the files ever shipped as uboot.itb
  Fit,         \* those that start with the FIT magic d00dfeed
  Length,      \* Length[b]: the sectors blob b fills
  NoBlob,      \* a board that ships no uboot.itb
  Copies,      \* UBOOT_COPIES
  SlotSectors, \* UBOOT_SLOT_SECTORS
  Seek,        \* UBOOT_SEEK
  DiskSectors, \* size of the device
  RerunFirst,  \* TRUE: no new blob comes in while a slot is left cleared
  Signals,     \* TRUE: the script can die while the box stays up
  ReadFaults,  \* TRUE: a read of a slot can go wrong
  MaxFaults,   \* bound on interruptions and read faults
  MaxBlobs     \* bound on blobs brought in

Slots  == 0 .. (Copies - 1)
Disk   == 0 .. (DiskSectors - 1)
Window == Seek .. (Seek + Copies * SlotSectors - 1)

ASSUME SlotAssumption ==
  /\ Copies \in Nat \ {0} /\ SlotSectors \in Nat \ {0}
  /\ Seek \in Nat /\ DiskSectors \in Nat /\ Window \subseteq Disk
  /\ Fit \subseteq Blobs /\ NoBlob \notin Blobs
  /\ Length \in [Blobs -> Nat \ {0}]
  /\ {RerunFirst, Signals, ReadFaults} \subseteq BOOLEAN
  /\ MaxFaults \in Nat /\ MaxBlobs \in Nat

VARIABLES
  disk,    \* what the medium holds, per sector
  cache,   \* what a read returns, per sector
  blob,    \* $SHARE/uboot.itb
  pc,      \* where update_uboot is, "idle" outside it
  slot,    \* i: the slot its loop is at
  sector,  \* the sector of the slot the running dd writes next
  report,  \* what was last printed of each slot; "cleared" once a dd has begun
  faults,  \* interruptions and read faults so far
  blobs    \* blobs brought in so far

device == <<disk, cache>>
loop   == <<pc, slot, sector>>
vars   == <<device, blob, loop, report, faults, blobs>>

-----------------------------------------------------------------------------
(* Sector k of blob b reads <<b, k>>.                                      *)
Zero  == <<"zero", 0>>
Other == <<"other", 0>>   \* idbloader, vendor storage, trust, rootfs

At(s, k) == Seek + s * SlotSectors + k

\* slot "$at" = "$want": the slot's first $bytes bytes are the blob's
Head(image, s, b) == \A k \in 0 .. (Length[b] - 1) : image[At(s, k)] = <<b, k>>

\* nothing is left in the slot behind the blob
Tail(image, s, b) ==
  \A k \in Length[b] .. (SlotSectors - 1) : image[At(s, k)] = Zero

\* a variant that forgets the size check before the loop
WritableAnySize(b) == b \in Fit

Writable(b) == b \in Fit /\ Length[b] <= SlotSectors
Whole(s)    == \E b \in Fit : Writable(b) /\ Head(disk, s, b)

\* the sectors of blob b that the image build lays at address a
Laying(b, a) == {k \in 0 .. (Length[b] - 1) : \E s \in Slots : a = At(s, k)}

\* the image build: one blob in every slot, each cleared first
Laid(b) ==
  [a \in Disk |-> IF Laying(b, a) # {} THEN <<b, CHOOSE k \in Laying(b, a) : TRUE>>
                  ELSE IF a \in Window THEN Zero ELSE Other]

Init ==
  \E b \in Blobs :
    /\ Writable(b)
    /\ disk = Laid(b) /\ cache = Laid(b) /\ blob = b
    /\ pc = "idle" /\ slot = 0 /\ sector = 0
    /\ report = [s \in Slots |-> "current"]
    /\ faults = 0 /\ blobs = 0

-----------------------------------------------------------------------------
(* update_uboot                                                            *)

\* the checks before the loop; any that fails skips the whole function, and
\* so does a root disk that cannot be resolved
Begin ==
  /\ pc = "idle"
  /\ blob \in Blobs /\ Writable(blob)
  /\ pc' = "check" /\ slot' = 0
  /\ UNCHANGED <<device, blob, sector, report, faults, blobs>>

\* a variant whose loop runs once too often
AdvancePastEnd ==
  /\ pc'   = IF slot < Copies THEN "check" ELSE "idle"
  /\ slot' = IF slot < Copies THEN slot + 1 ELSE 0

\* a variant that brings only the first slot up to date
AdvanceFirstOnly == pc' = "idle" /\ slot' = 0

\* the loop moves on to the next slot, or ends
Advance ==
  /\ pc'   = IF slot + 1 < Copies THEN "check" ELSE "idle"
  /\ slot' = IF slot + 1 < Copies THEN slot + 1 ELSE 0

Misread == ReadFaults /\ faults < MaxFaults /\ faults' = faults + 1

\* a variant that compares the FIT header instead of the blob
SlotCurrentByHeader ==
  /\ pc = "check"
  /\ cache[At(slot, 0)] = <<blob, 0>>
  /\ report' = [report EXCEPT ![slot] = "current"]
  /\ Advance
  /\ UNCHANGED <<device, blob, sector, faults, blobs>>

SlotCurrent ==
  /\ pc = "check"
  /\ Head(cache, slot, blob)
  /\ report' = [report EXCEPT ![slot] = "current"]
  /\ Advance
  /\ UNCHANGED <<device, blob, sector, faults, blobs>>

\* a variant that writes the blob without clearing the slot first
SlotStaleUncleared ==
  /\ pc = "check"
  /\ ~Head(cache, slot, blob)
  /\ report' = [report EXCEPT ![slot] = "cleared"]
  /\ pc' = "copy" /\ sector' = 0
  /\ UNCHANGED <<device, blob, slot, faults, blobs>>

SlotStale ==
  /\ pc = "check"
  /\ \/ ~Head(cache, slot, blob) /\ UNCHANGED faults
     \/ Misread
  /\ report' = [report EXCEPT ![slot] = "cleared"]
  /\ pc' = "zero" /\ sector' = 0
  /\ UNCHANGED <<device, blob, slot, blobs>>

\* a dd writes one more sector; its last one hands over to step next
Dd(step, count, content, next) ==
  /\ pc = step
  /\ cache' = [cache EXCEPT ![At(slot, sector)] = content]
  /\ pc'     = IF sector + 1 < count THEN step ELSE next
  /\ sector' = IF sector + 1 < count THEN sector + 1 ELSE 0
  /\ UNCHANGED <<disk, blob, slot, report, faults, blobs>>

ClearSlot == Dd("zero", SlotSectors, Zero, "copy")
\* a variant without conv=fsync
CopyBlobUnsynced == Dd("copy", Length[blob], <<blob, sector>>, "verify")
CopyBlob  == Dd("copy", Length[blob], <<blob, sector>>, "fsync")

\* conv=fsync of the second dd
Fsync ==
  /\ pc = "fsync"
  /\ disk' = cache
  /\ pc' = "verify"
  /\ UNCHANGED <<cache, blob, slot, sector, report, faults, blobs>>

\* either way the loop goes on
Verify ==
  /\ pc = "verify"
  /\ \/ /\ Head(cache, slot, blob)
        /\ report' = [report EXCEPT ![slot] = "written"]
        /\ UNCHANGED faults
     \/ /\ IF Head(cache, slot, blob) THEN Misread ELSE UNCHANGED faults
        /\ report' = [report EXCEPT ![slot] = "failed"]
  /\ Advance
  /\ UNCHANGED <<device, blob, sector, blobs>>

-----------------------------------------------------------------------------
(* The rest of the box                                                     *)

\* the payload install replaces uboot.itb, or a board stops shipping one
NewBlob ==
  /\ pc = "idle"
  /\ blobs < MaxBlobs /\ blobs' = blobs + 1
  /\ RerunFirst => \A s \in Slots : report[s] # "cleared"
  /\ blob' \in (Blobs \cup {NoBlob}) \ {blob}
  /\ UNCHANGED <<device, loop, report, faults>>

\* the kernel writes one dirty sector back
Writeback ==
  \E a \in Window :
    /\ disk[a] # cache[a]
    /\ disk' = [disk EXCEPT ![a] = cache[a]]
    /\ UNCHANGED <<cache, blob, loop, report, faults, blobs>>

Interrupt ==
  /\ faults < MaxFaults /\ faults' = faults + 1
  /\ pc' = "idle" /\ slot' = 0 /\ sector' = 0
  /\ UNCHANGED <<disk, blob, report, blobs>>

PowerCut == Interrupt /\ cache' = disk
Killed   == Signals /\ pc # "idle" /\ Interrupt /\ UNCHANGED cache

Script == SlotCurrent \/ SlotStale \/ ClearSlot \/ CopyBlob \/ Fsync \/ Verify

Next == Begin \/ Script \/ NewBlob \/ Writeback \/ PowerCut \/ Killed

Spec == Init /\ [][Next]_vars

\* a running script goes on, the kernel flushes dirty pages, and an operator
\* runs the update again
FairSpec ==
  /\ Spec
  /\ WF_vars(Script)
  /\ WF_vars(Writeback)
  /\ WF_vars(Begin)

-----------------------------------------------------------------------------
TypeOK ==
  /\ disk \in [Disk -> (Blobs \X Nat) \cup {Zero, Other}]
  /\ cache \in [Disk -> (Blobs \X Nat) \cup {Zero, Other}]
  /\ blob \in Blobs \cup {NoBlob}
  /\ pc \in {"idle", "check", "zero", "copy", "fsync", "verify"}
  /\ slot \in Slots
  /\ sector \in 0 .. (SlotSectors - 1)
  /\ report \in [Slots -> {"current", "written", "failed", "cleared"}]
  /\ faults \in 0 .. MaxFaults
  /\ blobs \in 0 .. MaxBlobs

\* update_uboot writes the slots and nothing else: the idbloader and the vendor
\* storage in front of them and the trust partition behind them never change,
\* whatever blob is installed (the size check before the loop)
NeighboursIntact ==
  \A a \in Disk \ Window : disk[a] = Other /\ cache[a] = Other

\* at every instant, power cuts included, the medium holds one whole FIT: the
\* second slot is cleared only after the fsync that made the first one whole
SomeSlotWhole == \E s \in Slots : Whole(s)

\* "slot written and verified" is a promise about the medium: the whole blob is
\* on it and no tail of a longer predecessor is left behind it
WrittenIsExact ==
  \A s \in Slots :
    report[s] = "written" =>
      \E b \in Fit : Writable(b) /\ Head(disk, s, b) /\ Tail(disk, s, b)

\* a slot the last run left alone or wrote stays whole on the medium until a
\* later run begins to clear it
ReportedIsWhole == \A s \in Slots : report[s] # "cleared" => Whole(s)

\* a rerun repairs what an interrupted run left: in the end every slot is the
\* installed blob on the medium ("Idempotent", the slots "kept identical")
SlotsBecomeCurrent ==
  <>[](blob \in Blobs /\ Writable(blob) =>
         \A s \in Slots : Head(disk, s, blob))

\* "clear first, or the tail of a longer predecessor survives": a slot an update
\* reports as current holds no tail of another blob
NoTailSurvives ==
  \A s \in Slots :
    report[s] \in {"current", "written"} =>
      \E b \in Fit : Writable(b) /\ Head(disk, s, b) /\ Tail(disk, s, b)

\* the script is a slot store: whatever the power does, one slot at a time is
\* open, no other loses its blob, and it is closed only when whole again
Slotwise ==
  INSTANCE SlotStore WITH
    Store <- Slots,
    open  <- {s \in Slots : report[s] = "cleared"},
    whole <- {s \in Slots : Whole(s)}
KeepsStore == Slotwise!Spec

-----------------------------------------------------------------------------
(* The inductive invariants the proofs rest on.                            *)

\* a run is only ever under way for a blob that passed the checks
Running == pc # "idle" => blob \in Blobs /\ Writable(blob)

Clean(s) == \A k \in 0 .. (SlotSectors - 1) : cache[At(s, k)] = disk[At(s, k)]
Done(s)  == report[s] # "cleared" /\ Head(disk, s, blob)

\* a slot not left cleared is whole
Settled == \A s \in Slots : report[s] # "cleared" => Whole(s)

\* only the slot a dd is at differs between the cache and the medium
Synced ==
  IF pc \in {"zero", "copy", "fsync"} THEN \A s \in Slots \ {slot} : Clean(s)
  ELSE disk = cache

\* at most one slot is cleared; those in front of it are current, and no run
\* gets past it without rewriting it
Torn ==
  \A t \in Slots : report[t] = "cleared" =>
    /\ blob \in Blobs /\ Writable(blob)
    /\ \A s \in Slots : s < t => Done(s)
    /\ \A s \in Slots : s > t => report[s] # "cleared"
    /\ slot <= t

\* the slots the loop has passed are current
Passed == pc # "idle" => \A s \in Slots : s < slot => Done(s)

\* how far the two dd commands have come
Writing ==
  /\ pc \in {"zero", "copy", "fsync", "verify"} => report[slot] = "cleared"
  /\ pc = "copy" =>
       /\ sector < Length[blob]
       /\ \A k \in 0 .. (SlotSectors - 1) :
            k < sector => cache[At(slot, k)] = <<blob, k>>
  /\ pc \in {"fsync", "verify"} => Head(cache, slot, blob)

Progress == Settled /\ Synced /\ Torn /\ Passed /\ Writing

IInv == TypeOK /\ Running /\ NeighboursIntact /\ Progress

\* what is left of a run that died does not count: a slot reported written, and
\* the one a dd is at, whatever interrupted earlier runs and whatever they read
Blank(s, n) == \A k \in 0 .. (SlotSectors - 1) : k < n => cache[At(s, k)] = Zero
Copied(s, b, n) ==
  \A k \in 0 .. (SlotSectors - 1) :
    cache[At(s, k)] = IF k < n THEN <<b, k>> ELSE Zero
Exact(s, b) == Copied(s, b, Length[b])

Rewriting ==
  /\ pc \in {"zero", "copy", "fsync", "verify"} => report[slot] = "cleared"
  /\ pc = "zero" => Blank(slot, sector)
  /\ pc = "copy" => sector < Length[blob] /\ Copied(slot, blob, sector)
  /\ pc \in {"fsync", "verify"} => Exact(slot, blob)
  /\ pc = "verify" => Clean(slot)

Verified ==
  \A s \in Slots : report[s] = "written" =>
    Clean(s) /\ \E b \in Fit : Writable(b) /\ Exact(s, b)

EInv == TypeOK /\ Running /\ NeighboursIntact /\ Rewriting /\ Verified
=============================================================================
