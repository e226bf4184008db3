----------------------------- MODULE OffChannel -----------------------------
(***************************************************************************)
(* Remain-on-channel and hardware scan over the life of the device:        *)
(* mt7921_set_roc, mt7921_abort_roc, mt7921_roc_work, mt7921_hw_scan and   *)
(* mt7921_scan_work of src/src/mt76/mt7921/main.c, their events of         *)
(* mt7921/mcu.c, and what suspend and the chip reset do to them.           *)
(*                                                                         *)
(* mac80211 calls one operation at a time (the wiphy mutex) and runs       *)
(* roc_work and scan_work one at a time, on its own work queue, where      *)
(* nothing is queued while the system sleeps. Events come from the receive *)
(* NAPI, the timer from a softirq: neither takes a lock.                   *)
(*                                                                         *)
(* Names with an underscore are the same step with a bug, for checking     *)
(* that the properties notice.                                             *)
(***************************************************************************)
EXTENDS Lifecycle

CONSTANT MaxFlight    \* bound: requests the firmware has not answered yet
ASSUME OffAssumption == MaxFlight \in Nat \ {0}

VARIABLES
    task,   \* the mac80211 operation under way
    roc,    \* remain-on-channel: MT76_STATE_ROC, roc_grant, roc_timer, roc_work,
            \* the event handler, and the requests the firmware will still grant
    scan    \* MT76_HW_SCANNING, scan_work and its events, the firmware's scan

offvars == <<task, roc, scan>>

RocIdle == [bit |-> FALSE, grant |-> FALSE, timer |-> FALSE, pend |-> FALSE, runs |-> FALSE,
            isr |-> FALSE, flight |-> 0]
ScanIdle == [bit |-> FALSE, work |-> FALSE, event |-> FALSE, fw |-> FALSE, lost |-> FALSE]

OffInit == LifeInit /\ task = "idle" /\ roc = RocIdle /\ scan = ScanIdle

OffTypeOK ==
    /\ task \in {"idle", "roc", "abort work", "abort lock", "abort sync"}
    /\ roc \in [bit : BOOLEAN, grant : BOOLEAN, timer : BOOLEAN, pend : BOOLEAN, runs : BOOLEAN,
                isr : BOOLEAN, flight : 0 .. MaxFlight]
    /\ scan \in [bit : BOOLEAN, work : BOOLEAN, event : BOOLEAN, fw : BOOLEAN, lost : BOOLEAN]

(* mac80211 may start an operation: the device is registered and the       *)
(* system awake. A command that waits for no answer may still get nowhere. *)
Calm == done /\ pm = "up" /\ removal = "no" /\ task = "idle"
Delivered == path["dma"] /\ path["rings"] /\ path["awake"] /\ chip.running
OnlyRoc == UNCHANGED <<chip, path, load, scene, pm, suspended, regd, work, full, init, done,
                       report, removal, seen, scan>>

-----------------------------------------------------------------------------
(* mt7921_set_roc: the request, then a second for the grant, all of it     *)
(* with the device mutex.                                                  *)
SetRoc ==
    /\ "roc" \in scene.ops /\ Calm /\ mutex = "free" /\ ~roc.bit /\ roc.flight < MaxFlight
    /\ \/ /\ roc' = [roc EXCEPT !.bit = TRUE, !.grant = FALSE,
                                !.flight = IF Delivered THEN @ + 1 ELSE @]
          /\ mutex' = "mac" /\ task' = "roc" /\ UNCHANGED faults
       \/ roc' = [roc EXCEPT !.grant = FALSE] /\ Fault /\ UNCHANGED <<mutex, task>>
    /\ OnlyRoc

RocReturns == task' = "idle" /\ mutex' = "free" /\ UNCHANGED faults /\ OnlyRoc

SetRocGranted == task = "roc" /\ roc.grant /\ UNCHANGED roc /\ RocReturns

SetRocTimeout_KeepBit == task = "roc" /\ ~roc.grant /\ UNCHANGED roc /\ RocReturns

SetRocTimeout ==
    task = "roc" /\ ~roc.grant /\ roc' = [roc EXCEPT !.bit = FALSE] /\ RocReturns

-----------------------------------------------------------------------------
(* mt7921_mcu_uni_roc_event: the waiter is woken, then the timer is armed. *)
(* Which request is granted is not looked at.                              *)
OnlyEvents == UNCHANGED <<fwvars, scene, lifevars, task, scan>>

GrantEvent ==
    /\ roc.flight > 0 /\ ~roc.isr /\ Alive
    /\ roc' = [roc EXCEPT !.grant = TRUE, !.isr = TRUE, !.flight = @ - 1] /\ OnlyEvents

GrantArm == roc.isr /\ roc' = [roc EXCEPT !.isr = FALSE, !.timer = TRUE] /\ OnlyEvents

GrantNever == roc.flight > 0 /\ roc' = [roc EXCEPT !.flight = @ - 1] /\ OnlyEvents

(* mt792x_roc_timer; mac80211 queues nothing while the system sleeps.      *)
TimerFires ==
    /\ roc.timer /\ roc' = [roc EXCEPT !.timer = FALSE, !.pend = @ \/ pm = "up"] /\ OnlyEvents

(* mt7921_roc_work clears the bit before it asks for the device mutex.     *)
RocWork ==
    /\ roc.pend /\ ~roc.runs
    /\ roc' = [roc EXCEPT !.pend = FALSE, !.runs = roc.bit, !.bit = FALSE] /\ OnlyEvents

RocWorkAbort ==
    /\ roc.runs /\ mutex = "free" /\ roc' = [roc EXCEPT !.runs = FALSE] /\ OnlyEvents

-----------------------------------------------------------------------------
(* mt7921_abort_roc, for cancel_remain_on_channel and mgd_complete_tx.     *)
Stop(r) == [r EXCEPT !.timer = FALSE, !.pend = FALSE, !.bit = FALSE]

AbortTimer ==
    /\ "roc" \in scene.ops /\ Calm /\ roc # RocIdle
    /\ task' = "abort work" /\ roc' = [roc EXCEPT !.timer = FALSE]
    /\ UNCHANGED <<faults, mutex>> /\ OnlyRoc

AbortWork ==
    /\ task = "abort work" /\ ~roc.runs
    /\ task' = "abort lock" /\ roc' = [roc EXCEPT !.pend = FALSE]
    /\ UNCHANGED <<faults, mutex>> /\ OnlyRoc

AbortClear ==
    /\ task = "abort lock" /\ mutex = "free"
    /\ task' = "idle" /\ roc' = [roc EXCEPT !.bit = FALSE]
    /\ UNCHANGED <<faults, mutex>> /\ OnlyRoc

(* mt7921_mac_sta_remove calls mt7921_roc_abort_sync with the device mutex *)
(* that mt76_sta_remove took: a roc_work that runs will not end.           *)
AbortSync ==
    /\ "roc" \in scene.ops /\ Calm /\ mutex = "free" /\ roc # RocIdle
    /\ task' = "abort sync" /\ mutex' = "mac" /\ roc' = [roc EXCEPT !.timer = FALSE]
    /\ UNCHANGED faults /\ OnlyRoc

AbortSynced == task = "abort sync" /\ ~roc.runs /\ roc' = Stop(roc) /\ RocReturns

RocStep == \/ SetRoc \/ SetRocGranted \/ SetRocTimeout \/ GrantEvent \/ GrantArm \/ GrantNever
           \/ TimerFires \/ RocWork \/ RocWorkAbort \/ AbortTimer \/ AbortWork \/ AbortClear
           \/ AbortSync \/ AbortSynced

-----------------------------------------------------------------------------
(* mt7921_hw_scan: the request waits for no answer; lost (history) says    *)
(* that it did not reach a running firmware.                               *)
OnlyScan == UNCHANGED <<chip, path, load, scene, lifevars, task, roc>>

HwScan ==
    /\ "scan" \in scene.ops /\ Calm /\ mutex = "free" /\ ~scan.bit
    /\ scan' = [scan EXCEPT !.bit = TRUE, !.fw = @ \/ Delivered, !.lost = ~Delivered]
    /\ UNCHANGED faults /\ OnlyScan

(* The firmware reports the end of a scan, or of one that was cancelled.   *)
ScanDone ==
    /\ scan.fw /\ Alive /\ scan' = [scan EXCEPT !.fw = FALSE, !.event = TRUE, !.work = @ \/ pm = "up"]
    /\ UNCHANGED faults /\ OnlyScan

ScanWork ==
    /\ scan.work /\ ~roc.runs
    /\ scan' = [scan EXCEPT !.work = FALSE, !.event = FALSE, !.bit = @ /\ ~scan.event]
    /\ UNCHANGED faults /\ OnlyScan

(* mt76_connac_mcu_cancel_hw_scan.                                         *)
CancelScan ==
    /\ Calm /\ mutex = "free" /\ scan.bit
    /\ \E goes_on \in {FALSE, scan.fw} : scan' = [scan EXCEPT !.bit = FALSE, !.fw = goes_on]
    /\ UNCHANGED faults /\ OnlyScan

ScanStep == HwScan \/ ScanDone \/ ScanWork \/ CancelScan

-----------------------------------------------------------------------------
(* What the life of the device does to them. mac80211 ends its operations, *)
(* scans and works before the driver is suspended and when it unregisters  *)
(* the device; NAPIs are disabled once their handlers are through; a       *)
(* firmware that stops forgets.                                            *)
Quiesce == (pm = "up" /\ pm' = "flush") \/ (removal = "unregister" /\ removal' = "napi")
Sync == pm = "cancel" /\ pm' = "own"                \* mt7921_roc_abort_sync in suspend
Forgets == chip.running /\ ~chip'.running

RocAlong ==
    /\ Quiesce => task = "idle" /\ ~roc.pend /\ ~roc.runs
    /\ Sync => ~roc.runs
    /\ path["rx"] /\ ~path'["rx"] => ~roc.isr
    /\ roc' = IF Sync THEN Stop(roc) ELSE IF Forgets THEN [roc EXCEPT !.flight = 0] ELSE roc

(* The reset work reports an aborted scan before it lets new resets in.    *)
ScanAborted_Not == FALSE

ScanAborted == work.at = "end" /\ work'.at = "clear"
ScanAlong ==
    scan' = [scan EXCEPT !.bit = @ /\ ~Quiesce /\ ~ScanAborted, !.fw = @ /\ ~Forgets,
                         !.work = @ /\ ~Quiesce]

OffNext == \/ LifeNext /\ RocAlong /\ ScanAlong /\ UNCHANGED task
           \/ RocStep \/ ScanStep

OffSpec == OffInit /\ [][OffNext]_<<vars, offvars>>

-----------------------------------------------------------------------------
(* An off-channel request always has somebody who will end it, so that the *)
(* next one is not refused for ever: the operation that waits for the      *)
(* grant, the timer, the work or the handler that arms the timer; for a    *)
(* scan the firmware, the event that is queued or a reset. A scan request  *)
(* that reached no firmware waits for the next reset or cancellation       *)
(* (mt7921_set_roc, mt7921_roc_work, mt7921_scan_work,                     *)
(* mt7921_mac_reset_work).                                                 *)
ScanReset == work.queued \/ work.at \notin {"idle", "clear", "ifaces"}

OffChannelEnds ==
    /\ roc.bit => \/ task # "idle" \/ roc.timer \/ roc.pend \/ roc.isr
                  \/ pm \in {"flush", "cancel"}
    /\ scan.bit /\ ~scan.lost => scan.fw \/ (scan.event /\ scan.work) \/ ScanReset
=============================================================================
