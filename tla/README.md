# rk35xx: TLA+ models, model checking and proofs

rk35xx turns Armbian images into images for a handful of RK3518 and RK3528 TV boxes and keeps the
boxes up to date. This directory holds TLA+ modules for the parts of it whose mistakes cost a
reflash, a soldering iron or a box that is no longer on the network, the TLC configurations that
check them on small instances, and TLAPS proofs of the properties that matter most.

Contents: [the system](#the-system) · [the modules](#the-modules) · [the runs](#the-runs) ·
[fairness](#fairness) · [the proofs](#the-proofs) · [disagreements](#disagreements-found) · [not
modelled](#what-is-not-modelled) · [plan](#plan)

## The system

The program is a collection of shell scripts, kernel and driver patches and Python tools. What makes
it hard is not size: the scripts write to places where a half-finished write is fatal, are run again
after anything has gone wrong, and meet apt, dpkg, dkms, the kernel and a power plug that do not
wait for them.

| Component | State it keeps | Operations | Must be true of it |
|---|---|---|---|
| **U-Boot slots** (`rk35xx-update` [4/6], `build-image.sh` replicate) | two slots of the boot device, the page cache over them, `$SHARE/uboot.itb` | check, clear, write, fsync and verify each slot | one slot boots at every instant; nothing outside is written; what is called written is on the medium |
| **DKMS driver trees** ([2/6], `fetch-dkms-src.sh`, `fetch-seekwave-src.sh`) | `/usr/src` trees, a staged tree, modules, the loaded module | fetch, patch, swap, remove, build | the box keeps the driver its network depends on, or what it takes to build it |
| **Update pipeline and device tree** (`rk35xx-update`, `rk35xx-dtb-persist`) | `board.dtb`, a directory of trees per kernel, the boot links, `OLD_DTB` | payload, [3/6], verdict, postinst hook, kernel upgrade | every kernel boots with the board's tree; the verdict about the reboot is right |
| **First boot** (`rk35xx-firstboot`, its service, the board's script) | package hold, done file, DKMS state | prepare, hold, build, mark done, retry | loaders are never replaced; done means done |
| **Seekwave TX block-ack sessions** (patch 0002) | a bitmap and timers per peer, a work queue, the firmware's sessions | claim, probe, clear | a dropped session is noticed; no flood of commands |
| **MAC address chain** (`rk35xx-vendor-storage`, `rk35xx-mac-pin`, dwmac and aic8800 patches) | copies of the vendor store, interface addresses, a deadline all ports share | defer the probe, claim, wait, take down, set, bring up | the address is the box's own, on every boot; no port waits for ever |
| **Kernel upgrade hooks** (`rk35xx-kernel-prepare`, beside dkms' own) | headers and their host tools, the driver per kernel | postinst hooks in order, retried by dpkg | the tools are there before dkms builds; the next kernel has its driver |
| **Seekwave rate control** (decompiled firmware, `research/`) | a ladder of rates, statistics per rung, a probing machine | associate, tick, evaluate, probe, back off | the best rate is found from anywhere; the wait never wraps |
| **Device tree tools** (`upstream/scripts`, `upstream/build.sh`) | two trees, the overrides between them | dump, generate, compile, gate | base plus overrides is the target; what is verified is the same hardware |
| armbian-install override (`rk35xx-platform-install`) | the target medium | write loaders and slots | the layout is the one the updater expects |
| Suspend handshake (Bluetooth research driver) | two GPIO lines, wake locks | suspend, wake, 200 ms wait | host and chip agree on who sleeps |
| Image builder (`build-image.sh`) | the output image | checks, then writes | nothing is written before all is checked |
| Bluetooth H:4 serdev driver, `rk35xx-bt` | a UART, `hci0` | attach | one owner of the port |
| Console sizing, output choice | modes, connectors | choose, centre | no write outside the buffer |
| IR receiver interrupts | shared PWM lines | share, acknowledge | a line is always answered |
| Patched e2tools | bitmaps, link counts | rm, ln | an image that fsck accepts |
| Build scripts, deploy, branding, board data, research | files | sequential | — |

How they interact. `rk35xx-update` is the hub: it installs the payload (device tree and `uboot.itb`
among it), runs the fetch scripts, rebuilds the drivers, calls the postinst hook for the running
kernel, rewrites the U-Boot slots and decides about a reboot, under `set -e`. dpkg calls the same
hook, and the dkms and kernel-prepare hooks beside it, on kernel upgrades. The image builder fixes
the states everything starts in. First boot builds what the builder staged and sets the hold that
keeps apt away from the loaders. The Seekwave driver carries the ssh session in which updates run,
and depends on [2/6] for its own existence. First boot and every update also run `rk35xx-mac-pin`
again, which otherwise runs once per boot, in front of the network managers and behind two kernel
drivers that have already picked an address.

The hard behaviours: power cuts between any two sectors of a write, and page-cache writes that reach
the medium in any order; updates that die half-way under `set -e` and are run again; a kernel
upgrade between two steps of an update; fetches that fail because the driver being fetched is what
the network runs on; truncated archives; two threads updating one bitmap with no common lock; a
firmware that drops state without saying so; a probe that waits for a device that may not exist; a
script racing a network manager for an interface; a search for the best rate that hears of most
rates only through the probes it sends. `PROJECT.json` lists each at its line under "hazards",
with the properties that would catch it going wrong.

## The modules

| Module | Models | Composition |
|---|---|---|
| `UbootSlots` | `update_uboot`, the image build's layout, page cache, power | implements `SlotStore`; `MCUbootSlots` instantiates it for TLC |
| `SlotStore` | what slots promise the boot ROM: opened one at a time, closed whole | the abstract specification |
| `DkmsTrees` | [2/6] of `rk35xx-update` with both fetch scripts | fetch, swap and rebuild in one state machine, with network and kernel |
| `DeviceTree` | the update run from payload to reboot, the postinst hook, kernel upgrades | abstracts [2/6] to a step that may end the run: what `DkmsTrees` details |
| `FirstBoot` | the service, the script and its retries | leaves the drivers as `DkmsTrees` finds them |
| `TxBa` | the transmit path, the worker, the firmware | three processes over one peer |
| `KernelUpgrade` | apt, dpkg, the hooks in their order, `dkms_rebuild` beside them | details the step `DeviceTree` takes as `Configure`; the third hook is there |
| `RateLadder`, `RateControl` | which rates a peer may be sent at; statistics, probes and backoff of one peer | the second extends the first; `MCRateControl` gives table, peers and links |
| `MacAddress` | both drivers' probes, the reader of the store, `rk35xx-mac-pin`, an early daemon, a network manager | kernel and script over the same interfaces; `MCMacAddress` gives the boxes |
| `DtOverrides` | `gen-overrides.py` and the gate, over what dtc compiles and prints | pure functions of two trees, in the order of `build.sh`; `MCDtOverrides` gives the trees |
| `*_proofs` | theorems about the module of that name; `DeviceTree_proofs` also those about `DtOverrides`, the other module about device trees | |

Each has one action per step that changes state outside the script, variables named after the
script's where it has a name for them, and history variables only where a property needs to know
what has gone wrong so far. Definitions introduced as "a variant" are mistakes one could plausibly
make in the code; the checks use them to show that each property notices the mistake it is there
for. Nothing else refers to them.

### UbootSlots

The device is an array of sectors, `disk` what the medium holds and `cache` what a read returns. A
sector of blob `b` is `<<b, k>>`, so that a slot's content can be compared without bytes. `pc`,
`slot` and `sector` are the position in `update_uboot`: `Begin` is the function's checks (FIT magic,
size), `SlotCurrent` and `SlotStale` the md5 comparison of the slot's head, `ClearSlot` and
`CopyBlob` the two `dd`s one sector at a time, `Fsync` the `conv=fsync` of the second, `Verify` the
second comparison, which lets the loop go on whatever it says. `Writeback` lets any dirty sector
reach the medium at any time. `PowerCut` drops the cache; `Killed` ends the script and keeps it, as
an ssh hangup does. `NewBlob` is the payload install of a later update. `report` remembers what was
last printed of each slot and is "cleared" from the moment the first `dd` begins. Bounds:
`MaxFaults`, `MaxBlobs`.

- `NeighboursIntact` — idbloader and vendor storage in front, trust behind: never written.
- `SomeSlotWhole` — the medium holds a whole FIT at every instant. It needs three assumptions, all
  constants of the module, and TLC finds a state without a whole slot if any is dropped.
  `RerunFirst`: no new blob comes in over a slot left cleared, or slot 0 is rewritten while slot 1
  is still half-written. No misread (`ReadFaults`): a read error on a whole slot makes the script
  clear it while the other is torn. No kill (`Signals`): a script that dies before the fsync leaves
  a slot whole in the cache only, the rerun calls it current and clears the next one.
- `WrittenIsExact` — "written and verified" is true of the medium, under kills and misreads too.
- `KeepsStore` — the script implements `SlotStore`: a slot is open from the moment its clearing
  begins until it is reported, whole is what the medium says, one slot is open at a time and none is
  closed before it is whole (`ReportedIsWhole`, proved by itself, is the invariant in it). It needs
  the assumptions of `SomeSlotWhole`.
- `SlotsBecomeCurrent` — reruns repair everything that was left, once faults and new blobs stop.

### DkmsTrees

A tree is whole, raw (unpatched), part or none, and a module is known by the tree it was built from.
`Online` is a cable or a loaded wifi module; one built from a torn tree may work or not
(`MayFetch`). `IrFetch` and `IrPatch` write over the live tree file by file, and a failure of either
ends the update; `WifiFetch` and `WifiPatch` work beside the live tree, and their failure, be it a
curl, a truncated archive or a patch that does not apply, is swallowed; `RmTree` and `MvTree` are
the swap; `Remove` and `Build` are `dkms_rebuild`, which removes before it builds, and a torn tree
may or may not build; the running kernel keeps its module until `Reboot`. `Interrupt` is power or a
lost session at any step; `swaps` is "cut" from one that fell inside the swap until the next swap is
through. `hasIR` is whether the board ships the receiver's driver.

- `Rebuildable` — unless the last swap was cut: the module, or a whole tree to build it from. An
  update interrupted between `rm -rf` and `mv` loses both with the next failed fetch; the condition
  says so.
- `OnlyWholeTreesBuilt` — nothing is installed from a tree some failure left unpatched or
  incomplete, except the tree a cut swap left torn, which dkms may be able to build.
- `OnlyDriverComesBack` — a box that lost its driver gets it back by updating again, where wifi is
  the only driver. On a board that ships both (`DriverComesBack`) it does not.

`Truncations` is what a truncated archive may lack with `tar` still exiting 0. The run takes
dkms.conf and the patched files, which the script notices. With "other file" in the set
`Rebuildable` fails: an archive that lacks neither replaces a good tree. That is why the proofs
assume it away.

### DeviceTree

`share` is `board.dtb`, `boot` the tree in each kernel's directory, `live` the tree the running
kernel was given, `default` the kernel the next boot takes. An update is `Begin` (which takes
`OLD_DTB`), `InstallPayload`, `RebuildDrivers`, `InstallTree` and one of the three verdicts; `Abort`
ends it anywhere. `Unpack` and `Configure` are dpkg's two steps of a kernel upgrade, `Configure`
with the hook; `Restart` is a reboot or a power cycle at any time. `strays` collects what has
happened so far that an update does not provide for: a run that died, a reboot turned down, a
half-finished kernel upgrade, an update made before an upgraded kernel's first boot.

- `OurTreesOnly`, `NotNeededIsInstalled` — hold whatever happens.
- `NotNeededIsTrue`, `TreeTakesEffect` — hold while `strays` is empty: the verdict is right, the box
  ends up on the tree of the checkout (and, proved only, `RebootLoads`: the reboot loads it).
- `NewKernelLoads` — the same with an upgraded kernel awaiting its first boot, as the script's
  message promises. Violated.

The hook's early exits (`rk35xx-dtb-persist:5-6`: no version, no `board.dtb`, no `fdtfile`) are not
taken in any state here: dpkg and the update pass a version, and the image and the payload have both
files. The hook's `cp` writes in one step; a power cut inside it truncates the tree the box boots
with. Nothing in the repository promises otherwise, so there is no claim to check.

### FirstBoot

`Start` honours the done file; `PrepareBoard` is the board's script, which removes the conflicting
packages that `dpkg -l` shows as installed (`listed`) and no others; `Hold` is `apt-mark`; `Skip`,
`AddFresh`, `Build`, `Install` are the loop's body for one package, in any order of packages;
`Depmod` and `MarkDone` end the run. `PowerCut` tears what is being built or removed (`TearRemoval`)
and may lose the done file just created. `UpgradeUboot` is apt's upgrade of the u-boot package
whenever no hold is set. `missed` collects what went wrong without ending a run for good: the hold,
a build, an upgrade before first boot was done, and a removal that took its package off dpkg's list
but not its files out of `/usr/src`.

- `LoadersIntact` — retries and power cuts included.
- `ConflictNeverBuilt` — the same, unless a removal was torn: the retry then does not find the
  package listed, skips it, and the loop builds what is left of it.
- `DriversGetBuilt` — a box booted often enough has its drivers, whatever a power cut left of a
  build.

### TxBa

`bitmap` is the peer's word of claimed sessions. `Probe`, `Setup`, `Load` and `Store` are
`skw_setup_txba`; its unlocked `|=` is a load and a store, and so is the worker's `SKW_CLEAR`.
Frames of one TID are sent one at a time, those of different TIDs at once. `due` is the set of
expired timers. The worker takes `queue` in order. Its probe asks the firmware (`Refresh`), which
shows a legacy rate if the sampled TID has no session, then takes the peer's lock and looks at the
bit (`Check`). `Accept`, `Refuse`, `Delete` and `Drop` are the firmware, `Drop` the silent loss the
patch is about. `Send`, `Event` and the firmware are not in this repository: they are modelled from
the driver's use in the patch and marked external. The blacklist of the unpatched code only delays a
TID's next frame and is left out.

- `OneProbePerTid` — one GET_STA per TID and interval, however many frames are sent.
- `Renegotiated` — a TID that goes on sending ends up with a session for good, unless other TIDs'
  `|=` overwrite the worker's clear of its bit for ever (`Restores`). Without that condition TLC
  finds such a schedule with two TIDs: every clear falls between the load and the store of the
  other's `|=`. Each time the next interval's probe tries again.

### KernelUpgrade

`image` and `headers` are the states of the two packages of each kernel, `tools` the host tools in
its headers' tree, `modules` the kernels that have the driver. `Upgrade` and `Resume` are apt;
`Unpack`, `ConfigureImage`, `ConfigureHeaders` dpkg, which configures the image first; `Prepare`,
`MakeScripts`, `MakeModpost` the hook `00-rk35xx-kernel-prepare`, whose makes may fail and whose
failure is swallowed; `DkmsSkips`, `DkmsRefuses`, `DkmsBegins`, `DkmsEnds` dkms' own hook behind it.
`Fetch`, `Remove`, `Add`, `Build` are an update, which may run meanwhile: `Fetch` the receiver's
sources, which a board with a receiver (`hasIR`) fetches first, under `set -e`; the others
`dkms_rebuild`. Of the boards with the Seekwave driver `h96max` and `hs86-mini13` have a receiver's
driver too, `h96max-3518d` has not. `AptDies` is the full `/tmp` of `docs/apt-upgrade.md`;
`PowerCut` leaves a package half-configured and half of the tools. `lost` names the kernels whose
driver went in a way the code allows: headers that never came, a build that failed, and `dkms remove
--all` while an upgraded kernel waits for its first boot.

- `BuildsHaveTools` — no dkms build meets headers without their tools, unless a make of this very
  hook failed; one that was cut short is made up for.
- `DefaultDrives` — the next boot's kernel has its driver or is in `lost`.
- `DriverReturns` — a box that goes on updating gets its driver back: on a board without a receiver
  offline as it is, unless its headers never came; on one with a receiver only while the driver it
  has loaded keeps it online, since offline every update ends at `Fetch`.

### RateLadder and RateControl

`research/seekwave-tx-latch-bug/decomp/decomp-iram.c` is the decompiled firmware of the wifi chip;
this is the one self-contained object in it. `Table` is the firmware's rate table (data of its DRAM
image, so a parameter), `Ladder` the entries a peer is sent at, after `FUN_0012d284`. `rc` is the
peer's context: `cur` and `top` rungs, the `chain` of eight the hardware goes down, `stats` per
rung, and a machine with `state` (staying, probing), `countdown` and `exponent`. `Tick` is the timer
and counts frames; it ends in `Evaluate`, that is `Measured`, `Nearer` and `Advance`: `Bootstrap`,
`Exploit`, `Probe` with `Backoff`, then `Push`. `Associate`, `NewEntry`, `ForceRebuild`, `Pin` and
`LinkChanges` are the events; `NewEntry` clears the entry a peer is given, and what happens when one
leaves is in the ROM. `Char` keeps the wait in its signed byte. `astray` is set when a ladder is
rebuilt shorter, or a rate is pinned that is not on it: the current rung then stays beyond the top,
for good.

`HostAssumption` says what the driver hands in: capabilities that are in the peer's element, and a
pinned rung that the array has. `Roomy` is a bound: a code that is not on a ladder that fills its
whole array is not pinned. `FUN_0012cf84` answers such a code with one past the top, and the
firmware then reads and writes past the array's 28 entries, into fields whose layout the
decompilation does not tell; with one rung of room that entry is an unused rung, and the model goes
on with it.

- `BackoffBounded` — the wait stays in 0..64 and never wraps, because a probe begins with nothing
  left of the last one.
- `OnLadder` — nothing is sent beyond the ladder, unless astray.
- `Settles` — with some traffic the rate ends at the rung that yields most, from above and below, and
  a narrowed channel is widened again.
- `KeepsProbing` — below the top the machine probes again and again, astray or not.

### MacAddress

An address is known by where it comes from: two assigned ones and an invented one in the store, the
bootloader's invention, the radio's efuse and SoC identifier, the script's own derived one, a random
one. A store is a sequence of copies with a version, the radio's item and one slot of the `LAN_MAC`
item per port (`Slot`). `box.named` are the ports `rk35xx-mac-pin` asks an item for (`end0`,
`eth*`); for a port of another name it skips the store and derives. The script reads the item's
first slot for all of them; no board lists an `eth*`. `Probe` is the first half of `rk_gmac_probe`,
`Claim` the second with `rk_get_eth_addr`; `left` counts down the deadline the first waiting port
has set, in ticks. `LoadRadio` is the aic8800's choice (or another chip's random address), at any
time, since the driver may have to be built first. `ReadLine` to `BringUp` are the script, with
`VendorStorage` its reader; `Raise` is a network manager once the unit is through, and before that
anything that does not wait for `network-pre.target`; a driver may refuse a new address if a manager
was faster. `missed` names the interfaces the script has last given up on or was refused for.
`Register` is the store, which may never come.

- `PaysOnce` — no port is deferred after the one shared deadline and the retry behind it.
- `NeverFresh` — a port the bootloader gave an address never comes up with a random one, whenever the
  store registers between the probe's two looks at it.
- `KeepsLabel` — the two readers agree where it matters: the script never replaces an assigned
  address the kernel took from the newest copy.
- `NetworkSeesOwn` — once the managers may start, every listed interface that has an address of its
  own has it, unless missed. What comes up before them may see another.
- `BoxAddress` — each ends up with its own address for good, unless missed.
- `NotLeftDown` — an interface that was up does not stay down behind the script.

The reader takes `-gt` for an order and the writer increments, so copies with one version hold the
same items (`VersionAssumption`). Nothing persistent is written here, so reboots need no action of
their own. Two runs of the script at once and the kernel's habit of storing an invented address
(outside this repository) are left out; stores that already hold one are in.

### DtOverrides

A tree is a function from paths to a label and properties; a property is data, a reference by name
that dtc prints as one (`ref`), or one it prints as a number (`loose`). `Printed` is a compilation
followed by `dtc -P -n`, for an order in which nodes get their numbers; `BuildSpec` is a run of
`build.sh`. `Deleted`, `Changed` and
`Added` are the three loops of `gen-overrides.py`, over printed trees; `Applied` is dtc's merge into
the included *source*, so that a name is resolved among the nodes the merge leaves. `Compile` fails
as dtc does. `Check` and `Diff` are the gate.

- `Regenerates` — where the labels of common nodes agree and all references are printed as such, the
  submission compiles and passes, whatever was deleted, changed, added and relabelled together.
- `VerifiedIsSame` — what passes has the same nodes, labels and data, and each reference goes to the
  same node, unless its property is printed as a reference nowhere in either tree.

## The runs

| Run | Checks | Bounds |
|---|---|---|
| `uboot_power` | `TypeOK` `NeighboursIntact` `SomeSlotWhole` `KeepsStore`, power cuts only | 2 slots of 3 sectors, 4 blobs (short, full, too long, no FIT), 3 faults, 2 new blobs; 8 408 states |
| `uboot_faults` | `WrittenIsExact` `SlotsBecomeCurrent` with kills and misreads, new blobs at any time | same, 2 faults; 130 617 states |
| `dkms_trees` | `TypeOK` `Rebuildable` `OnlyWholeTreesBuilt` `OnlyDriverComesBack` | both kinds of board, no cable, 4 faults; 3 359 states |
| `device_tree` | `TypeOK` `OurTreesOnly` `NotNeededIsInstalled` `NotNeededIsTrue` `TreeTakesEffect` | 2 kernels, 2 trees, 2 aborts, 2 upgrades, 2 revisions; 102 992 states |
| `kernel_upgrade` | `TypeOK` `DefaultDrives` `BuildsHaveTools` `DriverReturns` | 2 kernels, both kinds of board, 2 upgrades, 2 faults; 127 420 states |
| `firstboot` | `TypeOK` `LoadersIntact` `ConflictNeverBuilt` `DriversGetBuilt` | 4 packages: one provided, one conflicting, two wanted; 3 faults; 12 978 states |
| `mac_address` | `TypeOK` `PaysOnce` `NeverFresh` `NetworkSeesOwn` `KeepsLabel` `BoxAddress` `NotLeftDown` | 2 ports and a radio, one port and the radio listed; 10 boxes, on one of them a listed port whose name gets no item; a deadline of 1 tick, 2 polls; the script run any number of times; 267 290 states |
| `txba` | `TypeOK` `OneProbePerTid` `Renegotiated` | 2 TIDs, queue of 1, 1 fault; 104 999 states |
| `rate_control` | `TypeOK` `BackoffBounded` `OnLadder` `Settles` `KeepsProbing` | 6 rungs, 2 peers, 4 links, loads of 0, 1 and 3 frames, 3 tries to count, 1 event; 173 539 states |
| `dt_overrides` | `VerifiedIsSame` `Regenerates` | a node, one below it, one beside it; 2 properties, 2 labels, 2 orders; 186 224 pairs of trees, 1 438 492 states |
| `uboot_tail` | `NoTailSurvives`, violated | as `uboot_power` |
| `dtb_new_kernel` | `NewKernelLoads`, violated | no aborts |

Why the bounds are enough. The slots: two is the code's own number; three sectors give a first, a
middle and a last one, so that a head, a tail and a short blob are distinct, and four blobs cover
fitting exactly, fitting with room, not fitting and not being a FIT. Two faults reach an interrupted
run, its interrupted repair and the repair of that. The drivers: four faults reach a fetch that
fails half-way, a build that fails after it, and a second round of both. The device tree: two
kernels and two revisions are the fewest that tell "this kernel's tree" from "another's" and "new"
from "old", and a third would only repeat them; two aborts reach a rerun that dies too. First boot:
the two wanted packages let one fail while the other succeeds. The upgrade: two upgrades of two
kernels reach one that meets the debris of another, and two faults a failed make followed by a cut.
The block-ack sessions: with two TIDs one fault is enough to leave a claim without a session, and
the race needs none (a probe may read the other TID's legacy rate and clear a good claim); one TID
with a queue of three and three faults, a drop and two repairs going wrong, passes as well. The rate
control: six rungs hold a legacy part, a first modern rung and room for a channel two rungs above
it; the backoff runs through its whole range at any size, and loads of 0, 1 and 3 are nothing, less
than what makes a rung count, and enough. The addresses: two ports are what a shared deadline needs;
the boxes cover no store, one copy, the newest copy in front and behind, without the item, with an
invented address in it, and an untagged one, under each bootloader and radio, and a listed port that
gets no item; a deadline of one tick and two polls already order every expiry against every arrival.
The trees: deleting, adding and nesting meet in three nodes, a label can move to another node, and
the two orders give every node a different number in the two blobs.

`CHECK_DEADLOCK FALSE` stands only in the U-Boot configurations, where a board whose payload ships no
writable blob has nothing left to do once faults are used up, and in `DtOverrides`, where `build.sh`
ends.

## Fairness

Safety runs use `Spec` or `FairSpec`, which allow the same behaviours up to any point. The liveness
properties assume:

- **UbootSlots** — a running script goes on (`Script`), the kernel flushes dirty pages
  (`Writeback`), an operator runs the update again (`Begin`). Nothing about faults: they are finite.
- **DkmsTrees** — the script goes on and the update is run again. `Reboot` is not fair: the property
  has to hold whether or not the operator reboots.
- **DeviceTree** — the update is run again and goes on. A kernel upgrade that was unpacked is
  configured, as dpkg insists on, and a box with a new default kernel is rebooted at some time.
- **FirstBoot** — the script goes on and a box whose first boot failed is booted again (`~done /\
  Reboot`).
- **KernelUpgrade** — `dpkg --configure -a` and the upgrade are run until they are through, as
  `docs/apt-upgrade.md` tells the operator to, the update is run again, and a box that waits for a
  reboot gets one. Strong where apt and an update may keep each other away.
- **RateControl** — the timer ticks and some traffic goes on: weak fairness of the steps that flip
  `beat`, which are the ticks with frames. Nothing about the radio.
- **MacAddress** — the kernel probes each port and tries a deferred probe again ("deferred probe
  retries are frequent", says the patch), the unit is started once and the script goes on, and time
  goes by (strongly: a rerun of the script may disable a tick again and again). Nobody has to load
  the radio's driver, raise an interface or run the script a second time.
- **TxBa** — the worker and the firmware's answer go on. Strong fairness stands where a step is
  enabled only now and then: a TID goes on sending and time goes by while the queue has room (a real
  queue is bounded by memory, and one that is full just when a given timer is looked at, for ever,
  is not the code's doing); and a TID without a session that is looked at again and again is at some
  time seen at a legacy rate.

## The proofs

All are checked by TLAPS for every value of the constants that satisfies the module's named
assumption.

| Theorem | Says | Rests on |
|---|---|---|
| `UbootSlots_proofs!TypeCorrect`, `NeighboursSafe` | no sector outside the slots changes, for any number and size of slots and blobs | the arithmetic of `At` (`AtInWindow`, `AtInjective`) and `Running`: a loop is under way only for a blob that passed the size check |
| `UbootSlots_proofs!OneSlotSurvives` | one slot is whole at every instant, for two slots or more, under `RerunFirst` and without kills and misreads | `Progress`, below |
| `UbootSlots_proofs!ImplementsStore` | `update_uboot` implements `SlotStore`, for any number of slots, under the same assumptions | `Progress`: every step maps to `Open`, `Rewrite`, `Close` or a stutter |
| `UbootSlots_proofs!RerunRepairs` | whatever came before, kills, misreads, power cuts and new blobs: a run that gets to its end leaves every slot reading as the blob, and on the medium what it reports written | `EInv` (below) and `Seen`: the slots the loop has passed read as the blob |
| `UbootSlots_proofs!NothingUndone`, `RerunReachesMedium` | with power cuts only: a current slot stays current until there is another blob; a run that gets to its end leaves all of them current on the medium | `Progress`, its parts `Synced`, `Torn` and `Passed`: what `SlotsBecomeCurrent` needs besides fairness |
| `UbootSlots_proofs!WrittenExactly` | a slot reported written is the whole blob with nothing behind it, on the medium, with kills, misreads and new blobs at any time | `EInv`: what the cache of the slot in work holds at each sector (`Rewriting`), and that a slot reported written is clean (`Verified`) |
| `UbootSlots_proofs!ReportsWhole` | a slot reported current or written is whole on the medium, for any number of slots, under the same assumptions | `Progress`, its part `Settled` |
| `DkmsTrees_proofs!TypeCorrect`, `DriverRebuildable`, `NothingPartialInstalled` | unless the last swap was cut: the module or a whole tree, and nothing partial installed | `TreeKept`: the live wifi tree is whole outside the swap, what the swap moves in is whole; and that the receiver's tree is whole when dkms reaches it |
| `DeviceTree_proofs!TypeCorrect`, `OurTreesSurvive`, `VerdictInstalled` | no stock tree behind dpkg's back, and the verdict over an installed tree | `IInv` |
| `DeviceTree_proofs!VerdictTrue`, `RequiredRebootLoads` | while nothing has gone astray the verdict is right and its reboot loads the tree | `Orderly`, which says at each step which of `old`, `share`, `live` and `boot[default]` agree |
| `DeviceTree_proofs!GateTellsTrue` | what `build.sh` calls verified is the board's hardware, for any two trees, properties and orders | names of nodes are unique where labels are and none is a path (`NameIsUnique`), so cells that print alike go to the same node (`AlikeIsSame`) |
| `DeviceTree_proofs!RoundTrip` | the overrides turn the one tree into the other and the gate lets it pass, for trees of any depth | `Restored`: what is built is exactly what the board prints as (`MergeIsBoard`, below), and that prints as itself (`PrintedTwice`) |
| `FirstBoot_proofs!TypeCorrect`, `LoadersSurvive`, `ConflictNever` | loaders stay; conflicting packages stay unbuilt unless a removal was torn | the hold is set before the loop and under every done file; a conflicting package is either listed or gone, and gone once the loop runs |
| `KernelUpgrade_proofs!TypeCorrect`, `ToolsFirst`, `NextBootDrives` | tools before every build; the next kernel's driver is there or lost in a named way | what holds between the hook's steps: which makes have been through, and which kernel dpkg and the rebuild are at |
| `MacAddress_proofs!TypeCorrect`, `WaitPaidOnce`, `NeverRandom` | one wait for all ports; no random address over a bootloader's | a deferred port implies a deadline that is running, and age and what is left of it add up |
| `MacAddress_proofs!ReaderFindsNewest` | the script's loop finds the address of the newest copy that holds an assigned one, in every store | `BestOf`: what the loop has kept after n copies (`NewerKeepsBest`) |
| `MacAddress_proofs!LabelKept` | an assigned address the kernel took from the newest copy stays | both readers answer alike where the kernel's answer is assigned |
| `MacAddress_proofs!ManagersSeeOwn` | the managers find no listed interface under a foreign address, unless missed | `Handled`: the lines read so far are done, and stay so, since a probe only fills in an address where there is none |
| `RateControl_proofs!WaitBounded` | the wait is in 0..64 and never wraps, for any table and configuration | a probe begins with `countdown = 0`, and `2^exponent` is at most 64 |
| `RateControl_proofs!AverageIsPercentage` | the average of percentages, with the code's truncating divisions, is one | arithmetic of the two weights |
| `RateControl_proofs!LadderListsKept` | a ladder holds usable codes, in ascending order, all of them if they fit, for any table and peer | an entry's rung is its rank: how many kept entries lie below it (`RankExists`, `RankAscends`) |
| `RateControl_proofs!TypeCorrect`, `StaysOnLadder` | every rung is one of the array's; none sent at is beyond the top, unless astray | `Within` and `Kempt`, below |
| `TxBa_proofs!TypeCorrect`, `ProbesBounded` | the queue keeps its bound; one probe per TID and interval, any number of TIDs | a busy worker has a job in the queue; a probe in this interval has put the timer into the future |

`OneSlotSurvives` is the one that takes an argument. `SomeSlotWhole` says nothing about the slot
being written, so it is not inductive. `Progress` adds: a slot not left cleared is whole on the
medium (`Settled`); only the slot a `dd` is at differs between cache and medium (`Synced`), so
write-back and a power cut cannot harm another; at most one slot is cleared, and those in front of
it hold the blob (`Torn`), so that no later run clears a second one while the first is torn; the
slots the loop has passed are current (`Passed`); and how far each `dd` has come (`Writing`). With
two slots or more, one is then always outside the torn slot, and whole. `Fsync` is where it matters:
it makes the slot whole on the medium before the loop moves on. Without it TLC finds a power cut
that leaves no slot whole.

`StaysOnLadder` needs to know where every rung a chain can hold comes from: the current one, the
one aimed at, the nearest with statistics on either side, the first modern one, the pinned one.
`Within(c, limit)` says that all of them are at most `limit` and that no rung above it has seen a
frame (`QuietAbove`), which is what keeps `Measured` and `Nearer` from wandering off. One set of
lemmas, from `FirstWithin` to the step, then serves twice: with the last rung of the array as the
limit it is the typing, and with the top of the ladder it is `OnLadder`. `Kempt` asks for the first
always and for the second unless the context is astray. A rebuild keeps it because it clears the
statistics, and because a current rung left beyond a shorter ladder is what makes a context astray.

`RoundTrip` comes down to `MergeIsBoard`: deleting, changing and adding, read over the design the
three lists were computed from, give the board node by node. What the board lacks lies below a
deleted node, because a path that leaves a set of nodes somewhere leaves it at a first prefix
(`LeavesSomewhere`); nothing else does, because a tree has every prefix of its paths
(`PrefixesThere`); and the same two lemmas, with the trees exchanged, say that what is added is all
that is new. The numbers dtc gives out need no argument: they are compared as they are.

Where an argument goes by induction over a length (prefixes, the copies of the store, ranks), it is
made with the least element of a set of naturals (`LeastNatural`, from the library's well-founded
minimum, and `CountedUp`), since the library's own induction theorems take an operator.

The proofs asked for some assumptions the models had not stated: that trees are built from paths and
of nothing but labels and properties (`TreesAssumption`), that copies of one version agree
(`VersionAssumption`), and what the driver may hand in (`HostAssumption`). TLC evaluates all of them
in the runs.

Model-checked only: every liveness property (`SlotsBecomeCurrent`, `OnlyDriverComesBack`,
`TreeTakesEffect`, `DriverReturns`, `DriversGetBuilt`, `Renegotiated`, `Settles`, `KeepsProbing`,
`BoxAddress`, `NotLeftDown`), since liveness under fairness is outside what the prover does; and the
two that are violated. Every invariant and every action property of the passing runs has its
theorem. The proofs are about the modules, not about the shell: that an action says what the line
says is for the reader, and `PROJECT.json` maps each definition to its lines.

## Disagreements found

With a run that shows it:

| Run | Code | Documented |
|---|---|---|
| `uboot_tail` | the clearing `dd` has no fsync: a power cut can leave the new head over an old tail, and the rerun compares heads only | `rk35xx-update:212` "clear first, or the tail of a longer predecessor survives" |
| `dtb_new_kernel` | the tree is installed for `uname -r` only, and the reboot goes to the upgraded kernel | `rk35xx-update:235` "a reboot is required to load it" |

Met on the way, without a run of their own:

- On a board that ships both drivers the receiver's fetch (`rk35xx-update:162`) runs unguarded before
  the loop that rebuilds the wifi driver: once that driver is gone, every update ends offline at the
  fetch. `fetch-seekwave-src.sh:14` says the box "has to be able to rebuild from the tree it already
  has". `DriverComesBack` in `DkmsTrees` is that claim.
- A rerun of an update that died behind the payload compares `board.dtb` with itself
  (`rk35xx-update:75,234`) and never asks for the reboot the dead run owed; line 2 says "Idempotent".
- A failing `apt-mark` or a failing build in `rk35xx-firstboot` (lines 13, 32-33) is swallowed and
  the done file is written; its unit says "done-file written only on success".
- `rk35xx-update:164` says a rebuild is what "a new kernel actually takes"; `dkms remove --all` and a
  build for `uname -r` take the driver away from an upgraded kernel that awaits its first boot. The
  rerun on that kernel restores it, on a board without an IR receiver offline too (`DriverReturns`);
  one with a receiver boots that kernel offline and then dies at the fetch of line 162.
- A box whose image package was configured without headers, and which was then rebooted, has neither
  a driver nor the network to fetch the headers with.
- `upstream/README.md:29` says that `check-refs.py` "proves no reference survived as a bare number".
  It looks at properties printed symbolically somewhere, which are those dtc knows; a reference in
  one it does not know passes the gate and names another node. Without the exemption in
  `VerifiedIsSame` TLC shows one.
- The research notes on the rate control (`seekwave-tx-latch-bug/README.md:313-316`) have the doubled
  wait wrap into a negative number; `WaitBounded` shows that it cannot. An idle link is not what
  keeps the rate low (324-326): any load that is not zero suffices (`Settles`).
- The dwmac patch's message says U-Boot invents the address with `net_random_ethaddr()`;
  `docs/r69/upstream.md:64-69` says `rockchip_setup_macaddr()`, which is deterministic.
- `firmware/r69/rk35xx-firstboot-board:2` says "Idempotent", and `rk35xx-firstboot:6-7` runs it first
  because "the loop below would otherwise build" the conflicting package. Line 6 looks for `^ii`: a
  removal that power or apt stopped half-way is skipped by the retry, and the loop builds what is
  left of it in `/usr/src`.
- `docs/todo/rk35xx-mac-pinning.md:11-12` says that DHCP and an early daemon see the old address in
  the window before the script. The unit is ordered before `network-pre.target`
  (`rk35xx-mac-pin.service:4-5`), so a manager that waits for that target, and DHCP under it, sees
  it only on an interface the script missed (`NetworkSeesOwn`); a daemon that does not wait sees it,
  as the document says.
- An interface that appears after `rk35xx-mac-pin` has given up keeps its address until the script is
  run again, as `docs/todo/rk35xx-mac-pinning.md` knows.
- `rk35xx-update:13-14` and `README.md:188` say that an update never touches the bootloader; [4/6]
  writes `uboot.itb` into both slots. Line 13 names that very file.
- The swap of the Seekwave tree is `rm -rf` and `mv`; an interruption between them, then a failed
  fetch, loses both trees.
- The check for a truncated archive asks for dkms.conf only, and the patches for the files they
  touch.
- Patch 0002 line 29 promises one command "per peer per interval"; the timer is per TID.
- The aic8800 patch's message says the chip's own efuse still wins; the code lets vendor storage
  win.
- `build-image.sh:83` says everything is checked before the first byte is written; the partition
  check (119-121) and the factory dump's (125-137) come after the image has been copied out.

## What is not modelled

`PROJECT.json` lists every component with a reason. Left out for good: the build scripts, deploy,
branding and policy files, board data and research notes, which are sequential, stateless or data;
the remaining driver patches, each a guard of one condition; dtc's printing beyond what `Printed`
says, and rkdeveloptool, which pack and are covered by the repository's own round-trip builds.

The decompiled firmware (64 000 lines, nearly all the C there is here) is the vendor's, not this
project's: most of it calls into a ROM that was never dumped and works on tables in a DRAM image,
so that what a function does to its state cannot be read off it. The rate control is the exception,
and of it the protection rates and aggregate lengths (`FUN_0012c900`), the retry counts, the fixed
mode (`FUN_0012d012`) and an access point's loop over its peers are left out. That loop clears the
shared rebuild flag at the first peer (line 34405), which a model of one peer cannot show.

Hazards seen and left aside, for want of a claim to check or because nothing installs the code: a
power cut inside the hook's `cp` over the tree the box boots with (`rk35xx-dtb-persist:8`); the
research driver's suspend handshake, a set of patches that are parked; `hciattach` against the
serdev driver's resets (`firmware/r69/rk35xx-bt:5`); e2rm stopping between two inode writes, on an
image that is then thrown away; the arithmetic of the console's offset.

Within the modelled parts: bit 1 of `cfg[8]`, a second way to force a rebuild of the ladder
(`decomp-iram.c:34399,34460`) that nothing in the image sets; explicit phandles on nodes nothing
refers to, nodes with several labels (`gen-overrides.py:24` reads one) and the root's own properties
in `DtOverrides`; wording of messages; migrations, service restarts and the hwdb in `rk35xx-update`,
which change no state any property speaks of; bytes within a sector; a power cut that tears a host
tool or a kernel image; the dual-carrier conditions of the HE rate table; text items of the vendor
store; and `armbian-install`'s own write of the slots.

## Plan

In this order, each with its runs and, where noted, its theorems:

1. Proofs: what the other liveness properties rest on that is safety, as `NothingUndone` and
   `RerunRepairs` are for `SlotsBecomeCurrent`: that `RateControl`'s machine returns to staying in a
   bounded number of evaluations, that a rebuild which ends leaves the driver, that a first boot
   which is marked done has built what the board wants or missed it.
2. `PlatformInstall`: the second writer of the slots' layout, as another implementation of
   `SlotStore` on a medium nothing boots from yet.
3. `BuildImage`: the order of its checks and writes.
4. `BtAttach`, `RemotectlIrq`: small machines of two actors each.
5. `E2rm` (bitmap and link counts) and `FbdevConsole` (geometry within the buffer), pure algorithms
   for TLC.
