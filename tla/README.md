# Verification of the mt7902 driver

TLA+ models, TLC runs and TLAPS proofs for the MT7902 Wi-Fi and Bluetooth
driver under `src/`.  Paths below are relative to `src/src/`.  The driver is a
copy of the kernel's mt76 core (`mt76/`), of its MT7921 PCIe part
(`mt76/mt7921/`, which drives the MT7902), and of the MediaTek half of btusb
(`bluetooth/`).

Contents: [1 The system](#1-the-system), [2 Plan](#2-plan),
[3 The models](#3-the-models), [4 Runs](#4-runs),
[5 Fairness](#5-fairness), [6 Proofs](#6-proofs),
[7 What the models found](#7-what-the-models-found),
[8 What is not modelled](#8-what-is-not-modelled),
[9 Running it](#9-running-it).

## 1 The system

### Who runs

| context | what it does |
|---|---|
| mac80211 callers (any CPU) | send frames (`mt792x_tx`), configure (`mt7921/main.c`, under `dev->mutex`), start and stop block-ack sessions |
| NAPI polls | receive ring and firmware events (`mt792x_poll_rx`), transmit cleanup (`mt792x_poll_tx`) |
| transmit worker | a kernel thread of its own (`mt76_worker`), moves frames from the stations' queues to the ring |
| `dev->wq`, ordered | `ps_work` (sleep), `wake_work`, `reset_work`, never two at once |
| mac80211's workqueue | `mac_work` (watchdog, statistics), scan, remain-on-channel and coredump works |
| PM core, driver core, cfg80211 | suspend and resume, removal, the regulatory notifier |
| system workqueue, timers | `init_work`, `reorder_work` of each block-ack session, the remain-on-channel timer |
| interrupt and its tasklet | mask the interrupt, schedule the polls |
| firmware | serves commands, answers late or never, sends events, may hang |
| Bluetooth USB callbacks | URB completions on any CPU, against the command, reset and suspend paths |

### Components

For each: state, operations, how it is connected, what is hard about it and what makes it correct.
`PROJECT.json` has the same list with its state of completion, and under `hazards` the lines where
each thing can go wrong.

**Receive reorder buffer** (`mt76/agg-rx.c`). State: per station and TID a published session
pointer; in the session the head sequence number, the slots, the number of frames, `started`,
`stopped`; a delayed work. Operations: a data frame, a block-ack request, the release work, start
and stop. Called from the receive poll (RCU and `tid->lock`), the system workqueue, and block-ack
configuration under `dev->mutex`. Hard: the pointer is read before the lock is taken; the work
decides about its requeue after the unlock; sequence numbers wrap. Correct when frames come out in
order and once, only duplicates are lost, no frame waits without a timer, and a freed session is out
of reach.

**Runtime power management** (`mt76_connac.h`, `mt76_connac_mac.c`, `mt792x_mac.c`, `mt792x_core.c`,
`mt792x_dma.c`). State: `MT76_STATE_PM`, wake references, the parked frames, stopped queues,
`pm->enable`, the last activity. Operations: take and drop a reference, park a frame, acquire and
release the device mutex, the sleep and wake works; the debugfs file and a monitor interface
(`mt7921_config`) change `pm->enable`. Everything that touches the chip goes through it. Hard:
`ps_work` tests the mutex, the tokens and the references one after the other and under different
locks; works cancel each other synchronously; waking can fail or time out. Correct when nobody who
was told the chip is awake meets it asleep, and nothing (frame, queue, awake chip) is forgotten.
(The MT7902 starts with runtime power management off and it is switched on through debugfs; the
MT7921 and MT7922 the driver also serves start with it on, `mt7921/init.c`.)

**MCU command transport** (`mcu.c`, `mt7921/mcu.c`, `mt7921/pci_mcu.c`, message header in
`mt76_connac_mcu.c`). State: `dev->mcu.mutex`, the four-bit sequence number, the answer queue
`res_q`, the command ring. Operations: send and wait, route a received event. Hard: answers that
arrive after the timeout, a reset that empties the queues under the waiters, senders that do not
hold `dev->mutex`. Correct when a call never takes another's answer, always returns, and a hung
firmware is reset.

**Chip reset** (`mt7921/mac.c`, `mt7921/pci_mac.c`, `mt792x_dma.c`). State: `hw_full_reset`,
`MT76_MCU_RESET`, `MT76_RESET`, its tries. It quiesces and restarts all the other components, and is
started by any of them. Seen by the models of power management, commands, transmit passes and
frames, each with the part that concerns it.

**Transmit worker thread** (`util.c`, `util.h`). State: two bits and the state of the task, without
a lock. Operations: schedule from anywhere, disable and enable. Hard: the wake-up is skipped if the
worker looks busy; disabling wipes a request. Correct when no request is lost and the worker is
quiet while disabled.

**Transmit scheduling, tokens, status** (`tx.c`, `mt76_connac_mac.c`, `mt7921/mac.c`). State: per
station two lists of waiting frames, the schedule list, tokens, packet ids, `blocked`. Operations:
queue, schedule, free (firmware event), status event, timeout, flush by a reset or a removed
station. Hard: a frame is completed by whichever of two events comes last, or by the timeout, or by
the reset. Correct when every frame is reported exactly once and none waits without somebody coming
for it.

**DMA rings** (`dma.c`, `dma.h`). State: head, tail, queued and descriptors of each ring.
Operations: add, clean up, refill, reset. All transmit queues of the MT7921 family share one ring.
Hard: the ring's limits, and a reset while the chip may still write.

**Interrupts and NAPI** (`mt792x_dma.c`, `mt7921/pci.c`). State: the interrupt mask, `MT76_REMOVED`
and the chip's status bits. Hard: an event must not be missed between the end of a poll and
unmasking.

**Suspend and resume** (`mt7921/pci.c`). State: `pm->suspended`, what is switched off (NAPIs,
worker, interrupts, DMA), the `hif_*` completions. Operations: suspend and resume, each with an
error path per step. Hard: neither takes `dev->mutex`; suspend sets the flag and then flushes a
reset whose end clears it; what an error path switches on again must be what was switched off.
Correct when the sleeping chip is left alone and the data path is open afterwards.

**Start-up, regulatory notifier, removal** (`mt7921/init.c`, `mt7921/pci.c`, `mt792x_core.c`).
State: `hw_init_done`, the tries, `regd_in_progress`. Hard: the start-up is a work that the removal
waits for; the notifier tests the flags before it announces itself.

**Firmware download** (`mt76_connac_mcu.c`, `mt792x_core.c`, `mt7921/mcu.c`). The patch semaphore,
regions, start, called by the start-up and by every attempt of a reset. Correct when the semaphore
is given back on every path, and only what was sent in full runs.

**Remain-on-channel and scan** (`mt7921/main.c`, `mt7921/mcu.c`). State: `MT76_STATE_ROC`, the
grant, timer and work; `MT76_HW_SCANNING` and the queued scan events. Hard: events and the timer
take no lock, the abort is synchronous, a grant may arrive after its request was given up. Correct
when a request always has somebody who ends it.

**Interfaces, stations, keys** (`mt7921/main.c`, `mac80211.c`, `mt7921/mac.c`). State: the interface
mask, the wcid mask, and what the firmware was told. Hard: a command may fail in the middle of an
operation; a reset restarts a firmware that knows nothing, and tells it again without the mutex;
numbers are reused. Correct when both sides agree once no reset is due.

**Frame and command formats** (`mt7921/mac.c`, `mt76_connac_mac.c`, `mt76_connac_mcu.c`,
`mac80211.c`, `mt792x_mac.c`). Pure functions: descriptor to status, header translation, packet
numbers, power save of stations, descriptor of a transmitted frame, the TLVs of commands.

**Power limits** (`eeprom.c`, `mac80211.c`, `mt792x_acpi_sar.c`, `mt7921/{mcu,init}.c`,
`mt76_connac_mcu.c`). Pure functions: device tree, user and ACPI limits to the table of the
firmware; the rules of a country.

**Bluetooth USB transport** (`bluetooth/btusb.c`). State: running bits, URB anchors, `tx_in_flight`,
the deferred list, `suspend_count`, the alternate setting. Operations: open, close, send,
completions, notify, suspend and resume per interface, the audio work. Hard: every one of these
posts or kills URBs, guided by bits that the others change.

**Bluetooth MediaTek support** (`bluetooth/btmtk.c`). State: a wait bit, an event buffer and a URB
for vendor (WMT) commands, the coredump, the reset flag. Operations: command, setup, shutdown, dump,
reset. Hard: late answers, the URB of a command given up that still polls, error paths that leave a
flag set.

Not modelled at all: connac3 formats (not used by this driver), register access, WED and testmode
(absent on this chip), the vendor headers of other Bluetooth chips, scripts and unit files.

## 2 Plan

In the order of what matters most to the system; all of it is in place except the last row.

| | module | models | abstract specification, composition | theorems |
|---|---|---|---|---|
| done | `RxReorder` | `agg-rx.c` | | all safety properties: `RxReorderProofs` |
| done | `PowerMgmt` | power management and its reset | | all safety properties: `PowerMgmtProofs` |
| done | `McuTransport` | commands and their reset | `McuCall`, implemented | all safety properties and the refinement: `McuProofs` |
| done | `WorkerThread` | `mt76_worker` | | all safety properties: `McuProofs` |
| done | `TxSched` | `tx.c` up to the ring of `dma.c`, tokens, blocked queues | takes the worker from `WorkerThread`: a request is not lost, a parked worker is quiet | all safety properties: `TxSchedProofs` |
| done | `TxStatus` | a frame from the ring to its report | takes a frame where `TxSched` puts it on the ring | all safety properties: `TxStatusProofs` |
| done | `FwLoad` | the firmware download | | `SemReturned`: `DriverProofs` |
| done | `Lifecycle` | start-up, suspend, reset, notifier, removal | extends `FwLoad`: start-up and reset load the firmware | all its properties: `DriverProofs` |
| done | `OffChannel` | remain-on-channel, scan | extends `Lifecycle`: suspend and reset end what is under way | `OffChannelEnds`: `DriverProofs` |
| done | `FwTables` | interfaces, stations, keys | extends `OffChannel`: a reset clears the tables | all its properties: `TablesProofs` |
| done | `BtUsb` | the USB transport of Bluetooth | | all its properties: `BtProofs` |
| done | `BtMtk` | WMT commands, setup, dump, reset | extends `BtUsb`: commands are frames | all its properties: `BtProofs` |
| done | `ConnacMcu`, `TxPower`, `RxDesc`, `TxDesc` | pure functions | evaluated with `MCDriver` | |
| left | | an abstract "each frame is reported once", implemented by `TxStatus` | | |

## 3 The models

A C critical section, a bit operation or a single unlocked access is one action; where the code
drops a lock or waits (`cancel_work_sync`, `wait_event_timeout`, RCU), a process stops between two
actions. The value of a program counter (`pc`, `wq`, `rpc`, `ctl`) says how far a process is in the
function. `PROJECT.json` maps each definition to its lines. Definitions with an underscore in their
name (`Lock_Shared`, `PsLock_NoCount`) are variants with a plausible bug; no specification uses
them, each makes one property fail when it replaces the definition of the same name.

**RxReorder.** `aggr` is `wcid->aggr[tidno]`, `tid` the session objects, `napi`, `work`, `ctl` the
three actors. A frame is its sequence number; `jiffies` is the age of a frame, up to the timeout.
`Reorder`, `CheckRelease` and `CheckCtl` compute what the critical sections do, built on `ReleaseN`
(the loop of `mt76_aggr_release`) with the head taken modulo the number space and slots modulo the
window, as in the code. RCU is: an object is freed when no poll holds its pointer.
`cancel_delayed_work_sync` is two actions: dequeue and refuse requeueing; wait for the running
instance.

**PowerMgmt.** `own` is the owner the chip's register shows, `pm` the flag in the driver. Clients
(polls, worker, `mt792x_tx`) are `idle`, `hold` a reference or `miss`ed it. Users acquire and
release the mutex; one is `mac_work`, and the others may do in their section what `pm->enable`
depends on (`task`): turn the debugfs file, which clears `pm->enable` before the chip is woken and
makes it again in `SetEnable`, or follow a monitor interface (`Config`, `SetEnable`), which clears
it only after. `switch` is what it is made from, with the history `late`: a `ps_work` was queued
when `mt7921_config` cleared `pm->enable`. `wq` is what the ordered queue runs and where in it.
`PmUnref` leaves out the test of `MT76_STATE_MCU_RUNNING`, which is set once the firmware runs and
cleared nowhere. Idle time is one bit. `pm->mutex` is left out: only works of the ordered queue take
it. A failed chip reset leaves `dead`; after it, as after a failed request for ownership until the
reset it starts, nothing is promised (`Recovering`).

**McuTransport** and **McuCall.** A message is its identity (the draw of its sequence number) and
the number. Two receive stages, the ring (`rx`) and `res_q`. The firmware takes messages in order,
answers or not, sends events, hangs. Waiting may end at any moment. One command of the reset stands
for the sequence that starts the firmware: the first failure ends it. `Locked` callers hold
`dev->mutex`, the others are suspend and resume, which do not. `McuCall` is the promise: one command
in flight, served before a waiting call succeeds.

**TxSched.** `q` counts the frames that wait per station: on `tx_pending`, on `tx_offchannel`, and
in mac80211's own queue (`txq`). `txList` is `phy->tx_list`; `run` is a pass of
`mt76_txq_schedule_all`, by the worker or by the reset work, with the list it spliced off, the
station in its hands and its `ret`. `queued` is `q->queued` of the ring all transmit queues share,
one descriptor and one token a frame; `Clean` is what the chip has fetched when
`mt76_dma_tx_cleanup` looks. A step is what runs under one lock: `mt76_txq_stopped` is asked in one
(`Take`, `Offer`) and the frame is put on the ring in another (`Post`, `Put`), which is where two
passes meet. `ctl` has `MT76_RESET`, `offchannel`, the mutex, the reset and the channel change,
which share the bit and the worker. From the moment a channel change has parked the worker until it
lets it go nobody reads the bit, so this is one action. mac80211 is there by its promises:
`ieee80211_next_txq` hands a queue out once a round, a station is removed after the readers that
could have it are through (`gp`). `ghost` records what the properties name as exceptions: `passed`,
the queues a pass walked away from with frames left; `stuck`, a reset that took the tokens away from
a blocked queue or left the chip dead.

**TxStatus.** A frame is a record: where it is (`at`), its station, packet id, whether it is in the
packet id table of its station (`entry`), whether its status came (`txs`), and how often it was
reported to mac80211 (`told`). `polled` is `dev->wcid_list`, `due` the reports the chip has sent and
the poll not yet read; a report names station and packet id, not the frame, so it can meet a newer
frame of the same id. `Complete` and `StatusDone` are the two halves of `__mt76_tx_status_skb_done`,
whichever comes second reports. The post is two steps because `mt76_tx_status_skb_add` tests
`dev->wcid` outside `status_lock`. The flush of the reset can be skipped (`mt792x_wpdma_reset`
returns early when the chip or its DMA engine does not reset, and its caller ignores it).

**WorkerThread.** The two bits of `w->state`, the task state, the thread's and callers' counters.
Memory is sequentially consistent: the bit operations used return a value and so order memory,
`set_current_state` has a full barrier.

The next four modules extend each other. Each adds its variables and its steps, and conjoins to the
steps of the module below what these do to its variables (`RocAlong`, `ScanAlong`, `TabAlong`): a
reset ends a scan, suspend a stay off channel, a stopped firmware owes no grant and forgets its
tables. A command that waits for its answer is one step (`McuTransport` has what happens in it):
`Answered` needs the whole `path` (interrupts, DMA, rings, receive NAPI, a chip that is awake),
`Unanswered` covers a lost command, a lost answer and a path that is down.

**FwLoad.** `chip` is the ROM and what it has: semaphore, regions, running firmware. `load` is how
far the loader is, one action a command, and whether the chip may or may not have taken the
semaphore (`unsure`: the answer to the semaphore command was lost). `stale` marks a chip whose reset
failed.

**Lifecycle.** Six threads, each with a variable that says where in its function it is: `init`,
`pm`, `work`, `regd`, `report` (whoever finds a hung chip, between his test in `mt792x_reset` and
queueing the work) and `removal`. `path` is the set of parts that can be off. `napi_disable` waits
for a NAPI that is enabled, so a second one never ends: the state is there (`work.at = "rx"`, NAPI
off) and `NapiBalanced` is about it. `seen` records what the properties except: the races, and a
refused command of the resume. `Scenes` says how a behaviour begins.

**OffChannel.** `roc` is the bit, grant, timer, pending and running work, a grant handler between
its writes, and the requests that the firmware still owes a grant (`flight`). `scan` is the bit, the
work and its events. `task` is the operation of mac80211 that waits for a grant or in an abort.

**FwTables.** An operation of mac80211 is a list of commands (`op.todo`), sent one by one under the
mutex; a strict operation ends with the first that fails, with what the driver's own tables (`drv`)
then hold. A command has one of four ends: `Understood`; `Refused` by the firmware, or not sent for
want of memory or of a beacon that fits, which is an error and asks for no reset; `Ignored`, without
an answer, which asks for one and may have reached the firmware or not; and `Posted`, for those of
`set_bss_pm`, which await no answer. `iter.refused` is history: the entries about which the last
command that had an answer or an error had the error. `iter` is `mt7921_vif_connect_iter`, which
sends its list at the end of a reset without the mutex. `fw` is what the firmware was told: by index
of an interface its owner and its BSS, by wcid the entry with its keys and sessions. A key is its
station.

**BtUsb.** `posted` counts URBs by kind, `run` has the running bits. `sender` is a frame between the
test of `BTUSB_SUSPENDING` with the count, under `txlock`, and its submission or deferral. `pm` is a
suspend or resume, interface by interface (`pm.i`); the device autosuspends when nobody has a
reference (`refs`). `work` moves the isochronous interface (`alt`) after the links. A reposted URB
that completes changes nothing; `Gone` is one that is not posted again. `lost`, `stray`, `leaks` and
`stranded` record what the properties except.

**BtMtk.** `cmd` is the WMT command under way: reference, frame, URB, wait for the bit; `wait` and
`evt` are shared with the completion of the URB (`ctrl`), which may belong to an earlier command.
`dev` is the device: the frame on its way, the events it keeps, the blocks it got. `plan` is where
setup or shutdown is, with the retries of the query. `dump`, `active` and `rst` are the dump of a
hung firmware and the reset after it.

**ConnacMcu, TxPower, RxDesc, TxDesc.** Functions from the arguments (or descriptor fields) the code
reads to the fields it writes, with named `ASSUME`s that TLC evaluates with the run `driver`. Each
is about more than one function, over all the inputs named in it: what is written is read back
(`RateReportedBack`, `HeaderReversed`, `LegacyRatesFound`), what is cut up is whole again
(`BurstsWhole`, `FragmentsMarked`, `TableSent`), limits hold (`RateBounded`, `AcpiHolds`,
`SkuWithin`), numbers do not collide or repeat (`QueuesApart`, `PnsIncrease`, `PacketsTakenOnce`,
`RefsNotZero`), and a few name a surprise in the code (`HeMuBandwidthLost`, `AckSignalOfThree`,
section 7).

## 4 Runs

| run | question | properties | size |
|---|---|---|---|
| `rx_safety` | Order, loss, timers and lifetime in the reorder buffer, with sessions replaced under the poll and the work | `WindowInv`, `SessionSound`, `ReleaseInOrder`, `LossOnlyDuplicates` | two session objects, window 3, number space 9; two scenes |
| `rx_live` | Does a session with frames keep advancing? | `HeadKeepsAdvancing` | one session object, window 2, space 6, timeout 1, three numbers |
| `pm_safety` | Can the chip sleep under somebody, or something be forgotten? | `ChipAwake`, `NobodyForgotten`, `SleepOnlyEnabled` | `mac_work` and any two of a receive poll, the worker, a sender, another user; two tries |
| `pm_live` | Are stopped queues woken, do mutex users proceed? | `StoppedWoken`, `UserProgress` | `mac_work` and a sender or another user, one try |
| `pm_mutex` | *Violated.*  The chip is put to sleep while the mutex is held | `SleepOnlyUnlocked` | a receive poll, the worker, a sender, `mac_work`, another user, one try |
| `mcu` | Own answers, termination, recovery, refinement of `McuCall` | `AnswersMatched`, `ImplementsCall`, `CallReturns`, `HangNoticed` | two callers and the reset, two calls besides those that start the firmware, numbers modulo 3, rings of 2, two tries |
| `tx_sched` | Is a waiting frame lost from sight, a queue blocked for good, a full ring met, a busy path torn down? | `NoFrameForgotten`, `BlockedReleased`, `NoOverrun`, `TornQuiet` | two stations, the second with pending frames only, a ring of four entries with a margin of three, four tokens; up to three frames, a reset of two attempts, a channel change, four of these in a behaviour |
| `tx_live` | Does what waits get out? Does a removed station leave nothing behind? | `Drains`, `StationGone` | one station that may be removed, three tokens, the ring as in `tx_sched`; up to two frames of any kind, a reset of one attempt, a channel change, three of these in a behaviour |
| `tx_status` | Is every frame reported once, whatever comes first, late or never? | `Accounted`, `StationGone`, `Answered` | a station, three frames, one packet id, a reset of two attempts, a channel change |
| `worker` | Lost wake-ups, quiet while disabled | `ScheduleKept`, `DisabledQuiet`, `WorkDone` | three callers and the controller |
| `bluetooth` | URBs, frames, links and WMT commands through open, setup, suspend, resume, close, dump and reset | `RxPosted`, `AutoSuspendQuiet`, `CountBalanced`, `DeferredHasWaker`, `IsoFollowsLinks`, `SetupSound`, `ResetNotRefused` | two interfaces, one failing USB request, two firmware blocks, two retries, an event the device keeps; a link, or a frame, or a hang |
| `driver` | A device through start-up, suspend, resume, resets, regulatory updates, off-channel requests, stations and removal; the pure functions | `SemReturned`, `SleepExclusive`, `NapiBalanced`, `DataPathUp`, `OffChannelEnds`, `TablesRestored`, `NumbersMeet` | one region per image, two faults, two tries, two suspends, two requests in flight, an access point with clients or a station, two peers, two entries; seven scenes |

Each property is one question. Some are a conjunction of named parts, so that its parts can be read,
and broken, one by one: `SessionSound`, `ChipAwake`, `NobodyForgotten`, `AnswersMatched`,
`Accounted`, `ScheduleKept`, `SleepExclusive`, `SetupSound`, `NumbersMeet`. The type invariants are
parts of these.

*Why these sizes are enough.* What `SessionSound`, `WindowInv`, `ChipAwake`, `NobodyForgotten`,
`AnswersMatched`, `ImplementsCall`, `NoFrameForgotten`, `StationGone`, `BlockedReleased`,
`NoOverrun`, `TornQuiet`, `Accounted`, `ScheduleKept`, `DisabledQuiet` and the properties of
`bluetooth` and `driver` say is proved for all sizes (section 6). For these the runs show that the
interesting cases happen at all, and that each plausible bug is noticed; where a run leaves out
behaviours to stay small, the theorem does not. The sizes matter most for the others.

The number space of `rx_safety` is three windows, so numbers are behind, inside and far beyond the
window, and every comparison wraps; with a timeout of no tick a frame is fresh or, after one tick,
expired; two objects are needed for a session to be replaced while the old one is in use, and no
third can be (the control path waits). `MCRxReorder` has two scenes: one session at a time, with any
frame and any starting number, which is what order and loss are about; and sessions that replace
each other, with some numbers on both sides of the wrap, which is what lifetime and timers are
about. `rx_live` has the second, with three numbers that are next, buffered, or beyond the window.

The power model has one process of each kind that behaves differently; `MCPowerMgmt` lets two of
them (`Company`; the worker and a mutex user never both: a sender or a poll with that user takes and
drops references as the worker does) meet `mac_work` and the works of the ordered queue, which hold
references, take the mutex and cancel each other without them; a third would wait for the mutex or
share a count. Users of `pm_safety` turn the debugfs file and follow a monitor interface, those of
`pm_live` only the former (`Doing`). `idle` becomes true only when `ps_work` is about to look, as
nobody else does. Two tries of the reset show what the first leaves to the second. `pm_live` has
`mac_work` with one thread more, a sender or a user of the mutex, which is what the circular wait
takes.

Three sequence numbers, of which 0 is skipped, make them repeat after two commands; a call, a
timed-out one before it and the reset's are the most that can leave answers behind for each other.

In `tx_sched` a ring of four entries with a margin of three has room for one tested frame and for
the two passes that may share the test, which is the tightest the assumption `FreeThr >
Cardinality(Runners)` allows, and is full two descriptors later; four tokens with a threshold of one
make the queue blocked while tokens are left; with three frames a pass, a list and a sender can each
have one. Three frames with a reset or a channel change, or two with both, are at most four
(`Together`). A pass that gives up at one station and skips the next needs two of them; the lists
treat a third like the second, and one kind of frame on the second is enough for it to be skipped.
Two passes transmit at the same time only when a channel change has cleared the bit of a reset that
still waits for the mutex, so `NoOverrun` needs the channel change, the reset and two frames
together. Removal and liveness concern the steps of one station, so `tx_live` has one, with frames
of all kinds. `MCTxSched` defines which kinds each station gets. In `tx_status` three frames compete
for one packet id: one that timed out, one that has its id now, and one that found no id free. Three
callers let one be overtaken by another while a third skips the wake-up.

`bluetooth` has two interfaces because suspend and resume go through them one by one, and a refusal
must find one that is already down. Two blocks let an answer to the first be taken for the second's;
a query and two retries let a late answer to a query meet another. One fault is enough for each
error path; two in a row are what the two retries give. What links, frames to send and a hung
firmware do is apart in the driver except for the suspend they all meet, so a behaviour of
`MCBluetooth` has one of them (`SomeLoads`): the frame meets everything from open and setup to
close, the links and the hang a device whose setup went through undisturbed. `cvsd16` gives a link
an alternate setting that is not the number of links.

In `driver` two faults make a reset fail after the fault that caused it, and two tries let the
second attempt meet what the first left. Two suspends let the second find what a failed first one
left. The scenes (`MCDriver`) keep apart what is sequential in the driver or meets only in the
reset: a device that boots and may be removed meanwhile; one that sleeps, or is removed, while the
chip dozes and the notifier runs; one that listens on another channel; one that scans; one that
serves interfaces and stations, two at a time (`Few`), where one of two stations can take the number
of the other that left; and one that is suspended while it serves an interface, because the reset
that follows a failed resume has to tell it again. In the scenes off channel and in the first that
serves one thing has already gone wrong (`spent`), which leaves one fault for each: the reset that
this fault starts, or the failure of a reset started by a reporter.

*Bounds.* `MaxSends`, `MaxResets`, `MaxChannels`, `Removable`, `Uses` in TxSched, `N`, `PidMax` (127
in the code), `MaxResets`, `MaxChannels` in TxStatus; `MaxCalls`, `RxSize`, `Fresh` in McuTransport;
`MaxFaults`, `Regions` in FwLoad; `MaxSuspends`, `Scenes` in Lifecycle; `MaxFlight` in OffChannel;
`Records` in FwTables; `Loads`, `MaxFaults` in BtUsb; `Blocks`, `Retries` (20 in the code),
`MaxEvents` in BtMtk; `Company`, `Doing`, `Together` and the scenes of `MCPowerMgmt`, `MCTxSched`,
`MCRxReorder`, `MCBluetooth` and `MCDriver`. `Fresh` lets a call start only while there is a number
for everybody who has not sent yet, and no message that is left anywhere will share its number with
one of theirs; in the code 15 others are sent in between. Whether the firmware answers commands
nobody waits for, so that such messages could survive, cannot be known from the source (see
`hazards`). `MaxTries` is 10 in the code, `Timeo` counts ticks of one timeout. `Tries` is 10 as
well. Deadlock is checked in all runs but `pm_live`, where the circular wait (below) stops everybody
there is, `mcu`, `tx_sched`, `tx_live` and `tx_status`, which stop when their calls, frames and
resets are used up, `bluetooth`, where a reset that cannot be followed by another one is the end,
and `driver`, where removal is the end and the hangs of section 7 are reachable.

*Exceptions the properties name.* Each is a behaviour of the code, listed in section 7 or here.
`NoFrameForgotten` and `Drains` except the frames of a queue that a pass left behind
(`ghost.passed`): `tx.c:673` lists a station again only with frames on both of its queues, and
`tx.c:546` takes a queue met during a reset or off channel from mac80211 without giving it back;
they move when the next frame of that station is sent. `BlockedReleased` and `Drains` except
`ghost.stuck`: `mt76_connac2_tx_token_put` (`mt76_connac_mac.c:1203`) returns the tokens of a reset
without the unblocking that `mt76_token_release` does. `Answered` excepts a driver whose last reset
attempt failed, where nothing queues `mac_work` any more. `SleepExclusive`, `NapiBalanced` and
`DataPathUp` except the lost races `seen.raced` (a reset that was not kept out of a suspend) and
`seen.stranded` (a resume or reset that failed without being able to ask for another reset),
`SleepExclusive` the notifier that `seen.late` saw, and `DataPathUp` the host interface after a
resume whose command to wake it was refused (`seen.refused`). `SleepOnlyEnabled` excepts the
`ps_work` that was queued when a monitor interface cleared `pm->enable`, until it ends or somebody
cancels it (`switch.late`), and only while the debugfs file leaves power management on.
`NapiBalanced` says nothing of a removal that has disabled the NAPI. `OffChannelEnds` excepts a scan
command that was lost (`scan.lost`). `TablesRestored` excepts an interface removed under the
iteration, and a command of the iteration that is lost after the system has begun to suspend (both
`iter.crossed`), and, entry by entry, what was last told by a command that was refused or not sent
(`iter.refused`): no other entry may be missing. `RxPosted` excepts kinds given up after a failed
request (`lost`) and, from above, those whose state changed under a resume (`stray`);
`AutoSuspendQuiet` counts the frames whose submission failed (`leaks`); `DeferredHasWaker` excepts a
frame deferred with nobody left to wake (`stranded`). `SetupSound` excepts a late event of the
*same* operation (`late`), which the protocol cannot tell apart, and a device that was reset under
the driver.

*The violation.* `pm_mutex`: `mt792x_mac.c:365` says that the chip is not put to sleep while the
mutex is held; the test is made long before the sleep. Those who take the mutex through
`mt792x_mutex_acquire` are safe all the same, because it cancels `ps_work` synchronously
(`MutexAwake`), and this cancelling, together with `ps_work`'s own cancelling of `mac_work`, is a
circular wait when the three meet (`MutualWait`); the liveness properties name it as their only
exception.

## 5 Fairness

*RxReorder*: the works run, time passes, the poll and the shutdown end (softirq, the scheduler). No
frame has to arrive.

*PowerMgmt*: every work, once queued, is run and its waits end; weak fairness for what is running,
strong for starting a work (the queue is ordered, so a work waits only for those before it) and for
taking a mutex (kernel mutexes hand over to waiters). Holders of references and of the mutex let go.
Nobody has to send or to become idle.

*McuTransport*: threads run, waits time out, mutexes as above, `dev->wq` runs the reset. The
firmware owes nothing: it may never answer.

*TxSched*: senders finish what they began; a pass under way, the worker once it is requested and not
parked, the poll (the chip frees what it has while it is up; a running poll ends), the reset and the
channel change proceed. Nobody has to send. The poll's part is the one assumption about the chip: an
awake chip frees the frames it was given, else nothing could drain.

*TxStatus*: a post under way ends, a freed token's poll ends, time passes, `mac_work` runs when it
is queued, the reset proceeds. The chip owes neither a tx_free event nor a status report.

*WorkerThread*: the thread and those in the middle of a call are run.

`bluetooth` and `driver` are safety only: what must eventually happen there hangs on the firmware,
the USB core or mac80211, which promise nothing. Their properties say instead who is left to do what
is owed (`DeferredHasWaker`, `OffChannelEnds`).

## 6 Proofs

`tlapm` checks `RxReorderProofs`, `PowerMgmtProofs`, `McuProofs`, `TxSchedProofs`, `TxStatusProofs`,
`BtProofs`, `DriverProofs` and `TablesProofs`. The theorems are about the modules' own
specifications (`Spec`, `WorkerSpec`, `MtkSpec`, `TabSpec`), of which the scenes of the MC modules
are parts, and assume what the modules assume of their constants.

**RxReorderProofs**: `SessionSound` for any session objects, window, number space and timeout.
`IInv` is `TypeOK`, the count of frames in `Numbers`, `StoppedEmpty`, `TimerArmed` and where a
session is in its life: `Published` (a session that can be found is neither freed nor stopped),
`Closing` and `Reading` (what the control path and the poll hold is not freed), `Works` (a session
that nobody publishes or closes has no work left: this is the synchronous cancel). The count rests
on lemmas about what the locked sections do to the slots (`ReleaseNKeeps` to `ReorderKept`), by
cardinality of the sets of used slots. `WindowHolds` proves `WindowInv` for a window of at least two
that divides the number space. That space is 4096, so the window has to be a power of two, as the
usual 64 and 256 are; `mt7921/main.c:947` takes whatever size was negotiated, and with another one
two numbers across the wrap can share a slot. Its argument: what `n` steps of release leave behind
is at least `n` ahead (`LeftBehind`), the head advances past no buffered frame (`HeadAhead`), two
numbers less than a window apart have different slots (`SlotsDiffer`, where divisibility enters),
and a frame beyond the window is inside it once `RoomSteps` steps are made (`RoomMakesRoom`, where
two enters: with a window of one, and a frame half the number space ahead, no step is made).
`OrderHolds` and `LossHolds` prove `ReleaseInOrder` and `LossOnlyDuplicates` under the same two
conditions. A released list is a function on ranks (`ReleasedIs`): step `k` hands up the frame `k`
ahead or none (`GotNear`), so a list is `Sorted`, and the second list of a section goes on where the
first stops (`Shifted`, `Joined`). A section `Moves` the head at most half the number space and past
all it hands up: the steps to a new head are less than half (`StepsBound`), and a run at the head
ends within the window the session had before, one more if the section put a frame in
(`RunInWindow`, `RunWithFrame`). A new frame that finds its slot taken finds its own number there
(`BufferRoom`). The least, the greatest and the `i`-th number of a finite set come from
`WellFoundedInduction`'s facts on strict inclusion, as induction over data is not available.

**PowerMgmtProofs**: `Spec => []P` for `TypeOK`, `ChipAwake` (`RefAwake`, `MutexAwake`,
`DequeueAwake`), `NobodyForgotten` (`ParkedHasWaker`, `StoppedHasWaker`, `AwakeHasSleeper`) and the
action property `SleepOnlyEnabled`, for any finite set of clients, any users, queues and number of
tries. Assumptions: those of PowerMgmt (the processes are different, finitely many clients), and for
`AwakeHasSleeper` that there is a poll. `IInv` adds to the properties what they rest on: `Counting`
(the count is the number of holders, from the library's facts on cardinality), `Resets` and `Stages`
(what each work knows at each line), `Owner`, `HeldAwake` (no reference is held on a sleeping chip:
the count is tested and the flag set in one section), `Exclusive` (the key: a user past the
synchronous cancel holds the mutex and `ps_work` is not past its test of it, because it could only
have started again from a test that sees the mutex), `Switched`, `Parked`, `Sleeper`. `Switched`
says that with `pm->enable` clear a `ps_work` that is queued or past its test is one that the
debugfs file will cancel and wait for, or the one that `late` remembers. `ParkedHasWaker` is not
inductive as it stands: during a reset frames parked before and after the point where the reset
frees them have different rescuers; `Parked` tells them apart. Each process has a lemma that its
steps preserve `IInv`.

**McuProofs** has two components, what a thread is promised by the firmware and by the worker.

*The command transport*: `AnswersMatched` (`OwnAnswer`, `AnswersQueued`) and `ImplementsCall`, for
any callers, with or without `dev->mutex`, any modulus above two, any ring and number of attempts,
under the bound `Fresh`. `OwnAnswer` speaks of one step; what makes it true is how the number of
each message on the way relates to the counter. `OneHolder`: the call between lock and unlock is the
one `mcuMutex` names. `Shapes`: from the draw to the return a call has the number drawn last, as
nobody else draws under the mutex. `Numbers`: the number of a message follows from how many were
drawn since (`Since`), and fewer than a round were or will be by those who wait (`Numbered`);
`Draws` is the step that counts over the wrap and past 0, and `OwnNumber` the conclusion, that a
message with the number drawn last is the message drawn last. `Told`: if an answer is on the way to
the call that holds the mutex, the firmware served it. `Bounded` (with `PostRoom`) says that those
who wait fit in a round, and `Resetting` that the reset work is in no call when it starts one.
`SendStep` is the one lemma behind all steps of a call: it says what such a step may do, and each
step instantiates it.

For the refinement `Stages`, `Waits` and `Results` map each call; `Moved` is what `McuCall` sees of
one that moves. Starting is `Call`, numbering `Send` (nobody else is in flight, by `OneHolder`),
serving `Serve` when the message is still its call's and a stutter when that call gave up, accepting
and posting without a wait `Return` (by `AcceptsOwn` after `Serve`), failing `Fail`; all the rest
stutters.

*The worker*: `ScheduleKept` (`NoLostWake`, `WorkAnnounced`) and `DisabledQuiet` for any set of
contexts that schedule it. The invariant adds `RunningBit` (the bit is set exactly around `w->fn`,
so a caller that sees it knows the loop's next test is still to come) and `Parking`.

**TxSchedProofs**: `NoOverrun`, `BlockedReleased`, `TornQuiet`, `NoFrameForgotten` and `StationGone`
for any stations, senders, ring, margin, token pool and threshold. Assumption (`TxAssumption`): the
margin `FreeThr` exceeds the number of passes that can run at once (32 and two in the code), the
threshold is below the size of the pool, and a sender and a pass are different contexts. The
invariant adds `Room`, the argument for the margin: while a pass is between its test of the ring and
its post, the descriptors on the ring and the passes that are about to post fit below the end
together, because the last of them to test saw `FreeThr` entries free and the others can add one
each; `Locked` and `Quiet`, which say who holds the mutex in each stage, so that a channel change
cannot let the worker go while a reset has it parked; and `Carried`, that the poll takes its
decision to unblock nowhere but to `FreeEnd`. Sequences are left untyped (`Shape`): none of these
three rests on the contents of a list.

The other two do, and have an invariant of their own (`LInv`). A station has one list node, so it is
on a list at most once (`Node`) and taking it off one leaves it on none (`Unlisted`). `Emptied`: a
pass that splices `tx_list` has none left of its own, so splicing forgets nobody. `FrameSeen` and
`TxqSeen` are `NoFrameForgotten` kind by kind, which is needed because a pass in the middle of a
station (`Covers`) still comes to one of its two queues and no longer to the other. `Unused`: a
removal waits for every sender that found the station, and nobody finds it after that.

**TxStatusProofs**: `Accounted` (`ReportedOnce`, `FrameKept`) and `StationGone` for any frames,
stations, packet ids and resets. The invariant adds `Life` (an entry exists exactly from the packet
id until the status, and a frame is reported when both that and its token are behind it), `Listed`
(the stations of all entries are on `wcid_list`, so timeout and flush see them) and `Waited` (a post
that saw its station in `dev->wcid` is among those the removal waits for, which closes the gap
between the test and `status_lock`). `TakeOut` and `TokensBack` are the two ways a frame changes;
the lemma of each event cites one.

**BtProofs**: `CountBalanced`, `AutoSuspendQuiet`, `DeferredHasWaker`, `IsoFollowsLinks`,
`RxPosted`, `SetupSound` and `ResetNotRefused` for any number of interfaces, faults, frames, links,
blocks and retries. Five of them are about the transport, and are proved of its composition with the
MediaTek part, whose commands, setup and reset also post and kill URBs. The parts of the inductive
invariant: `Balanced` says what `suspend_count` is at every interface of a suspend and of a resume,
since `CountBalanced` speaks of rest only. `Quiet` extends `AutoSuspendQuiet` to the window from
`BTUSB_SUSPENDING` to sleep, in which nobody counts a frame. `Course` ties the states of the HCI
core to commands, senders and deferred frames, and `Woken` rests on it. `Iso` follows the audio work
through the links it read and those that changed since: a change has queued it again (`IsoWork`),
and a suspend that cancels it is followed by a resume that queues it (`Calm`). `Urbs` is the upper
half of `RxPosted`, with the ISO data interface's place in setup and shutdown (`PktCourse`);
`UrbLeast` the lower half, told apart for the kinds that a resume has dealt with and those still to
come. `Resets` says where `BTMTK_HW_RESET_ACTIVE` may be set. `Firm` is the argument for
`SetupSound`: `Progress` says how far the device is at each step of the setup; `Sent` and `Polls`
what is on the way to it and what the control endpoint asks for; `Kept` and `Taken` that an event
the driver would take for the answer to its command is that answer. All of it holds until a late
event is taken or the device is reset, which is what `SetupSound` excepts.

**DriverProofs**: `SemReturned`, `SleepExclusive`, `OffChannelEnds`, `NapiBalanced` and `DataPathUp`
for any number of regions, faults, tries, suspends, requests, interfaces and stations, and in any
scene. They are proved of `TabSpec`, the composition of `FwLoad`, `Lifecycle`, `OffChannel` and
`FwTables`; the first lemmas (`Ways`) show that a step of the composition is one of the device's
life, or changes nothing of it but `work.queued`, the lock and the faults spent, so that each part
is proved over `LifeNext` once. All five properties speak of ends (a load that is over, a device at
rest), so the invariant says what holds at each place before. `Shape`: the loader runs exactly while
a reset or the start-up has called it, nothing is reset before the start-up is over, removal and
suspend exclude one another. `Sem`: along the load, where the semaphore is, and that the chip holds
as many regions as were sent. `Excl`: the two exclusions with their windows, from the test of a
reporter or of the notifier to what it does after it. `Ends`: what is still to come for a stay off
channel and a scan, and that cancelling leaves nothing. `Napi`: the two NAPIs at every place of
reset, suspend, resume and removal, and who owns them. `Runs` and `Data`: which parts of the data
path are on at each place, and that a suspend that fails after it has turned something off asks for
a reset that turns it on; a host interface that is suspended at rest is one whose waking was
refused.

**TablesProofs**: `NumbersMeet` and `TablesRestored` for any finite set of interfaces and any
stations and entries. `TabInv` adds five parts to the invariant of the device's life. `Locks`: who
has `dev->mutex`; an operation runs only under it, on a registered and awake device, and the
firmware forgets only before the start-up is over, in a reset or after the removal (`ForgetsIdle`).
`OpDrv`: what an operation may still have to send (`Allowed`) and what it began with is still so, as
the number for a new interface still being free; no two interfaces share a number, no two stations
an entry (`DrvShape`). That `mt7921_add_interface` finds a number is the pigeonhole principle
(`FreeIndex`), and needs the set to be finite. `IterShape`: the iteration after a reset only adds,
about one interface, which is there under its number unless the crossing is marked. `Entries`:
`EntriesFresh` and what makes it survive a new station, whose entry the operation's first command
has reset. `Tables` is `TablesRestored` at every point: what the firmware does not know is due
(`Due`), or on the iteration's list, or on the operation's, or crossed, or was told last in vain.
`TablesCommand` and `TablesIterCommand` go through the ends of a command; one that awaits no answer
is about no table (`Unawaited`). `TablesRestored` itself is not inductive for want of all three.

Only model-checked: all liveness properties (`HeadKeepsAdvancing`, `StoppedWoken`, `UserProgress`,
`CallReturns`, `HangNoticed`, `WorkDone`, `Drains`, `Answered`), and the assumptions of the pure
modules, which are evaluated on the inputs they name. TLAPS does not prove liveness under fairness
or `ENABLED`, induction over data, or anything about RECURSIVE operators; the modules use none.

## 7 What the models found

Behaviours of the code that the models contain, or that were met while translating it. None of them
is hidden by a property: they are the exceptions above, named in an `ASSUME`, or outside what a
property says.

*Power.*
- `mt7921_sniffer_interface_iter` clears `pm->enable` (`main.c:606`) under the mutex but after
  `pm_wake` has cancelled `ps_work`. The last reference dropped in between queues `ps_work` again,
  which does not look at `pm->enable`: it puts the chip to sleep once although a monitor listens.
  The debugfs file clears the flag first (`debugfs.c:163`).

*Suspend, reset, removal.*
- The firmware may answer `mt76_connac_mcu_set_hif_suspend` with a status, which is positive
  (`mcu.c:44-54`); `pci.c:581` tests for less than zero. A resume whose command is refused goes on
  and returns 0 with the host interface suspended, and asks for no reset. Suspend refuses to go on.
- A resume that fails at `drv_pmctrl` returns with the NAPIs disabled, and the reset it queues waits
  for ever in `napi_disable`, holding `dev->mutex` (`pci.c`, `pci_mac.c:119`).
- Suspend sets `pm->suspended`, then flushes `reset_work`, which clears it at its end; a reporter
  can also have tested the flag before (`mt792x_reset`).
- The regulatory notifier tests the flags before it sets `regd_in_progress` (`init.c:147` and
  `150`), and suspend waits for it no longer than five seconds.
- Removal disables the receive NAPI before it cancels the works that may be about to disable it, and
  does not cancel `coredump.work`.
- A suspend that fails before `hw_init_done` asks in vain for a reset; a failing
  `mt792x_wpdma_reinit_cond` is ignored by its callers and leaves interrupts off; `mt792x_stop`
  drops a reset that is queued.

*Stations, off-channel, regulatory.*
- `mt7921_mac_sta_remove` cancels `roc_work` synchronously under `dev->mutex`, which `roc_work`
  takes (`main.c:882`, `mac80211.c:1630`): both wait for ever. `OffChannel` has this wait
  (`AbortSync`, `RocWork`).
- A failing `sta_add` keeps its bit in the wcid mask (`main.c:810-836`) and leaves `mvif->wep_sta`
  behind.
- A grant, timer or scan-done event of an earlier request can end the next one: nothing compares
  tokens.
- After a reset the peers of an access point and group keys are not told again; the iteration has no
  mutex, so an interface removed meanwhile can be added again, under an index the next one takes.
- A command of that iteration that fails asks for another reset, except when a suspend has set
  `pm->suspended` meanwhile, which `mt792x_reset` obeys: then the interface stays unknown to the
  firmware until the next reset.
- A command that is refused, or a beacon without a template or too long (`mcu.c:1279-1287`), is an
  error that asks for no reset, and `bss_info_changed` (`main.c:711`) and `mt7921_vif_connect_iter`
  (`mac.c:637-649`) take no notice: the entry stays unknown to the firmware.
- `mt7921_vif_connect_iter` does not repeat `set_bss_pm` of an access point; `mt7921_stop_ap` does
  not take the BSS down when `set_bss_pm` could not be sent (`main.c:1349-1354`).
- A chip reset ends a scheduled scan silently; a lost scan command leaves `MT76_HW_SCANNING` set
  until a reset or cancel.
- `CONF_CHANGE_POWER` and each regulatory update call `mt7921_set_tx_sar_pwr(hw, NULL)`, which with
  ACPI tables discards the limits set by user space. `set_clc` without "00" rules fails and drops
  the tables after it.

*Data.*
- A window size that does not divide 4096 lets two numbers across the wrap share a slot, and a frame
  be dropped although space was made for it (`agg-rx.c:216-230`); a window of one buffers a frame
  2048 ahead beyond it.
- `mt76_connac_mcu_add_key` leaks its skb when a cipher is refused (2767-2769); `he->dcm_rx_max_nss`
  is assigned twice (749-752); the number of scheduled-scan channels is cut to a byte before it is
  limited.
- ACPI: version 3, or no MTCL, makes the dynamic and geographic tables invalid; EU countries use the
  US entry of the BE list (`mt792x_acpi_sar.c:436-439`); channel 185 needs both UNII-7 and UNII-8;
  two SAR ranges overlap from 5945 to 5950 MHz.
- Receive: `mt76_check_ccmp_pn` asks `ieee80211_is_first_frag` of the frame control field; the
  bandwidth in a HE-MU radiotap header is read after it was overwritten (`HeMuBandwidthLost`); a HE
  radiotap header without group 5 reads past a two-word P-RXV; `fill_rx_rate` tests
  `MT_PHY_TYPE_HE_EXT_SU` bitwise and accepts HE MCS 12 to 15.
- Transmit: `mt7921_mac_tx_free` keeps a ten-bit count in a byte; the station poll's mask of the
  fourth signal is harmless up to three antennas (`AckSignalOfThree`).

*Bluetooth.*
- Open or close overlapping with suspend or resume can post receive URBs twice (`stray`).
- `btusb_suspend` waits for the audio work, which may be waiting for that suspend in
  `usb_autopm_get_interface`.
- An audio work that a link queues during a system suspend, after `btusb_suspend` has cancelled it,
  posts its URBs when the device wakes, and sets `BTUSB_ISOC_RUNNING`; `btusb_resume` then posts
  them again. (Found with two links; `stray` covers it.)
- `btusb_work` reads `sco_num` again when it chooses the setting (`btusb.c:2391`, `2395`): a link
  that went away in between makes it choose setting 5, or 0, until the work that its end queued
  runs.
- A failed submission leaves `tx_in_flight` counted; a sender that defers after resume has played
  the list leaves its frame until the next resume.
- A reset that cannot wake the interface leaves `BTMTK_HW_RESET_ACTIVE` set, and later ones are
  refused. `ResetNotRefused` says that nothing else does.

## 8 What is not modelled

Register access (the bus may answer wrongly, which is seen only as a failed request for ownership or
reset); the bits of the interrupt mask and the tasklet; the refill of the receive rings; memory
ordering weaker than sequential consistency; the order in which frames handed up by two contexts
reach mac80211 after the reorder lock is dropped (`agg-rx.c:112`). In the transmit path: frames
released to a station in power save, block-ack requests, airtime limits, several descriptors or
tokens per frame, the pause while the chip wakes (PowerMgmt has it), and what a pass may still read
of a station whose memory mac80211 frees. In the life of the device: PCI state on the bus,
wake-on-wireless, rekeying, IPv6 offload, scheduled scan, the contents of the coredump; the coredump
work is there as a reporter. In the formats: software airtime of received frames, multi-link fields,
and the fields of other chips of the family. In Bluetooth: reassembly, transmitted SCO frames,
diagnostics, out-of-band wake, the set-up of the MT7663 and MT7668 and of other vendors. Sequential,
and left out for that: channel tables, survey, LEDs, reading of the EEPROM and device tree, the
capability tables given to mac80211, `__mt76_poll`, debugfs other than the runtime-pm switch.
`channel.c` and `scan.c` (software channel contexts and scan) are not reached by this driver except
through `mt76_set_channel`.

`TxStatus` and `TxSched`, and each model of the reset, are composed by what one promises the other
and not in one state space; where `Lifecycle` and its extensions are one, a reset is in them with
all its stages.

## 9 Running it

    tlc -config pm_safety.cfg MCPowerMgmt.tla      # a run: module and cfg as in PROJECT.json
    tlapm PowerMgmtProofs.tla

The largest runs are `pm_safety` with 2.4 million states, `bluetooth` with 2.2, `tx_sched` with 1.9
and `driver` with 1.1; each takes about a minute. The longest proofs are `RxReorderProofs` and
`TablesProofs`, some minutes each.
