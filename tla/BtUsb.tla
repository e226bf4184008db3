-------------------------------- MODULE BtUsb --------------------------------
(***************************************************************************)
(* The USB transport of the Bluetooth function (src/src/bluetooth/btusb.c):*)
(* the receive URBs, the transmit path with its deferred list, opening and *)
(* closing, suspend and resume of the interfaces, and the work that moves  *)
(* the isochronous interface with the SCO links.                           *)
(*                                                                         *)
(* Outside the driver: the HCI core calls open, close, send and notify,    *)
(* the first two never at once, and sends from one ordered queue; the USB  *)
(* core suspends the interfaces from the last to the first and resumes     *)
(* them from the first to the last, wakes an autosuspended device for      *)
(* whoever takes a reference, and lets nothing be submitted to a device it *)
(* has suspended; usb_kill_anchored_urbs waits for completion handlers.    *)
(***************************************************************************)
EXTENDS Naturals

CONSTANTS
    Intfs,      \* interfaces of the device the driver is bound to
    Air,        \* voice setting of the SCO links: "cvsd8", "cvsd16" or "transp"
    Loads,      \* bounds, one of which a behaviour has: how many SCO links, how
                \* many frames on the way at a time, and whether the firmware hangs
    MaxFaults   \* bound: USB requests that fail

ASSUME UsbAssumption ==
    /\ Intfs \in Nat \ {0} /\ Air \in {"cvsd8", "cvsd16", "transp"}
    /\ Loads \subseteq [sco : Nat, tx : Nat, hangs : BOOLEAN] /\ MaxFaults \in Nat

(* Receive URBs: events, ACL data, SCO data, MediaTek ISO data; and how    *)
(* many of each open, work, setup and resume post.                         *)
Kinds == {"intr", "bulk", "isoc", "isopkt"}
Want == [intr |-> 1, bulk |-> 2, isoc |-> 2, isopkt |-> 1]

VARIABLES
    hci,        \* where the HCI core is with the device
    run,        \* BTUSB_INTR_, BULK_, ISOC_RUNNING and BTMTK_ISOPKT_RUNNING
    posted,     \* receive URBs submitted, by kind
    ctrl,       \* the URB on ctrl_anchor: "none", "posted", or in its handler
    refs,       \* references that keep the device from autosuspending
    pm,         \* the suspend or resume under way
    asleep,     \* "no", or how the device was suspended
    count,      \* suspend_count
    suspending, \* BTUSB_SUSPENDING
    sender,     \* where the sender of a frame is in submit_or_queue_tx_urb
    inflight,   \* tx_in_flight
    out,        \* frames on tx_anchor that btusb_tx_complete will see
    deferred,   \* frames on the deferred anchor
    waker,      \* the waker work: "queued", and "get" while it runs
    links,      \* connections: an ACL link, the SCO links the driver was told of
    work,       \* the work: queued, and where it is
    alt,        \* isoc_altsetting
    frag,       \* the setting under which the SCO fragment in sco_skb arrived
    lost,       \* history: kinds an URB of which was given up
    stray,      \* history: kinds whose state changed under the feet of resume
    leaks,      \* history: frames counted in tx_in_flight but never submitted
    stranded,   \* history: a frame was deferred with nobody left to wake for it
    faults,     \* history: requests that failed
    load        \* the bounds of this behaviour

rx == <<run, posted, ctrl>>
tx == <<sender, inflight, out, deferred, waker>>
iso == <<links, work, alt, frag>>
power == <<refs, pm, asleep, count, suspending>>
history == <<lost, stray, leaks, stranded, faults, load>>
vars == <<hci, rx, tx, iso, power, history>>

NoUrbs == [k \in Kinds |-> 0]
Rest == [op |-> "none", auto |-> FALSE, i |-> 0, at |-> "none"]

Init ==
    /\ hci = "down" /\ run = [k \in Kinds |-> FALSE] /\ posted = NoUrbs /\ ctrl = "none"
    /\ refs = {} /\ pm = Rest /\ asleep = "no" /\ count = 0 /\ suspending = FALSE
    /\ sender = "idle" /\ inflight = 0 /\ out = 0 /\ deferred = 0 /\ waker = {}
    /\ links = [acl |-> FALSE, sco |-> 0]
    /\ work = [queued |-> FALSE, at |-> "idle"] /\ alt = 0 /\ frag = 0
    /\ lost = {} /\ stray = {} /\ leaks = 0 /\ stranded = FALSE /\ faults = 0
    /\ load \in Loads

Closing == {"closing", "close_stop", "close_put"}
Awaited == pm.op = "none" /\ asleep # "system"             \* no suspend under way
HciRunning == hci \in {"setup", "up", "shutdown"}          \* HCI_RUNNING
CanSubmit == asleep = "no"                                 \* usb_submit_urb
Handling == ctrl \notin {"none", "posted"}                 \* a handler is running

(* A request to an awake device may fail; one to a suspended device does.  *)
Fault == faults < MaxFaults /\ faults' = faults + 1
Denied(able) == IF able THEN Fault ELSE UNCHANGED faults
Rejected == Denied(CanSubmit)

(* usb_autopm_get_interface: it waits while the device autosuspends, is    *)
(* autosuspended or comes back from it; a system suspend does not delay it.*)
GetOk == asleep # "auto" /\ ~(pm.op # "none" /\ pm.auto)

-----------------------------------------------------------------------------
(* Receive URBs.  (Definitions with a suffix, Kill_Not and the like, are   *)
(* the same step with a bug, to see that a property notices it.)           *)

(* An URB of kind k completes and its handler does not post it again: the  *)
(* HCI core or the kind is not running, or the submission fails.  (When it *)
(* is posted again nothing changes but what the data says, below.  What a  *)
(* close is about to kill is left to it.)                                  *)
Gone(k) ==
    /\ posted[k] > 0 /\ hci \notin {"closing", "close_stop"}
    /\ IF HciRunning /\ (run[k] \/ k = "isopkt") THEN Fault ELSE UNCHANGED faults
    /\ posted' = [posted EXCEPT ![k] = @ - 1]
    /\ lost' = IF run[k] THEN lost \cup {k} ELSE lost
    /\ UNCHANGED <<hci, run, ctrl, power, tx, iso, stray, leaks, stranded, load>>

IntrComplete == Gone("intr")
BulkComplete == Gone("bulk")
IsocComplete == Gone("isoc")
IsoPktComplete == Gone("isopkt")

(* btusb_recv_isoc: an SCO packet arrives in pieces, each under the        *)
(* setting of the moment; the last piece completes it.                     *)
IsocData ==
    /\ HciRunning /\ posted["isoc"] > 0
    /\ frag' = IF frag = 0 THEN alt ELSE 0
    /\ UNCHANGED <<hci, rx, power, tx, links, work, alt, history>>

(* Some of the URBs of kind k wanted are posted: all but after a failure.  *)
Post(k, n, wanted) ==
    /\ posted' = [posted EXCEPT ![k] = @ + n]
    /\ IF n < wanted THEN Fault /\ lost' = lost \cup {k}
                     ELSE lost' = lost \ {k} /\ UNCHANGED faults
SubmitIntr == Post("intr", 1, 1)
SubmitBulk == \E n \in {1, 2} : Post("bulk", n, 2)
SubmitIsoc == \E n \in {1, 2} : Post("isoc", n, 2)
(* In setting 0 the interface has no isochronous endpoint.                 *)
CanPost(k) == CanSubmit /\ (k = "isoc" => alt # 0)
Kill(ks) == posted' = [k \in Kinds |-> IF k \in ks THEN 0 ELSE posted[k]]

-----------------------------------------------------------------------------
(* btusb_open, and the HCI core setting HCI_RUNNING after it.  (An open or *)
(* a close that overlaps a suspend or a resume is not explored: resume     *)
(* would post URBs that open posts too, or that close has killed.)         *)
OpenGet ==
    /\ hci = "down" /\ pm.op = "none" /\ asleep = "no"
    /\ hci' = "open_intr" /\ refs' = refs \cup {"open"}
    /\ UNCHANGED <<rx, pm, asleep, count, suspending, tx, iso, history>>

OpenFail == /\ Rejected /\ hci' = "down" /\ run' = [run EXCEPT !["intr"] = FALSE]
            /\ refs' = refs \ {"open"} /\ lost' = {}

(* test_and_set_bit(BTUSB_INTR_RUNNING) and the interrupt URB.             *)
OpenIntr ==
    /\ hci = "open_intr"
    /\ \/ /\ CanSubmit
          /\ run' = [run EXCEPT !["intr"] = TRUE]
          /\ SubmitIntr
          /\ hci' = "open_bulk" /\ UNCHANGED refs
       \/ OpenFail /\ UNCHANGED posted
    /\ UNCHANGED <<ctrl, pm, asleep, count, suspending, tx, iso, stray, leaks, stranded, load>>

(* The two bulk URBs; without the first the interrupt URB is killed.       *)
OpenBulk ==
    /\ hci = "open_bulk"
    /\ \/ /\ CanSubmit
          /\ run' = [run EXCEPT !["bulk"] = TRUE]
          /\ SubmitBulk
          /\ hci' = "opened" /\ refs' = refs \ {"open"}
       \/ OpenFail /\ Kill({"intr"})
    /\ UNCHANGED <<ctrl, pm, asleep, count, suspending, tx, iso, stray, leaks, stranded, load>>

SetRunning ==
    /\ hci = "opened" /\ hci' = "setup"
    /\ UNCHANGED <<rx, power, tx, iso, lost, stray, leaks, stranded, faults, load>>
-----------------------------------------------------------------------------
(* Transmission.  submit_or_queue_tx_urb tests BTUSB_SUSPENDING and counts *)
(* the frame under txlock; the rest happens outside the lock.  A device    *)
(* being set up or shut down is sent the commands of BtMtk only.           *)
SendTest_Uncounted ==
    /\ sender = "idle"
    /\ sender' = (IF suspending THEN "defer" ELSE "submit") /\ UNCHANGED inflight

SendTest ==
    /\ sender = "idle"
    /\ IF suspending THEN sender' = "defer" /\ UNCHANGED inflight
                     ELSE sender' = "submit" /\ inflight' = inflight + 1

SendFrame ==
    /\ hci = "up" /\ out + deferred < load.tx /\ SendTest
    /\ UNCHANGED <<hci, rx, power, out, deferred, waker, iso, history>>

(* submit_tx_urb.  A submission that fails does not give the count back.   *)
SendSubmit ==
    /\ sender = "submit" /\ sender' = "idle"
    /\ \/ CanSubmit /\ out' = out + 1 /\ UNCHANGED <<leaks, faults, load>>
       \/ Fault /\ leaks' = leaks + 1 /\ UNCHANGED out
    /\ UNCHANGED <<hci, rx, power, inflight, deferred, waker, iso, lost, stray, stranded, load>>

(* usb_anchor_urb(urb, &data->deferred), then schedule_work(&data->waker). *)
SendDefer ==
    /\ sender = "defer" /\ sender' = "wake"
    /\ deferred' = deferred + 1
    /\ stranded' = (stranded \/ ~suspending \/ pm.at = "done")
    /\ UNCHANGED <<hci, rx, power, inflight, out, waker, iso, lost, stray, leaks, faults, load>>

SendWake_Not ==
    /\ sender = "wake" /\ sender' = "idle"
    /\ UNCHANGED <<hci, rx, power, inflight, out, deferred, waker, iso, history>>

SendWake ==
    /\ sender = "wake" /\ sender' = "idle"
    /\ waker' = waker \cup {"queued"}
    /\ UNCHANGED <<hci, rx, power, inflight, out, deferred, iso, history>>

Send == SendFrame \/ SendSubmit \/ SendDefer \/ SendWake

(* btusb_tx_complete.                                                      *)
TxDone == out > 0 /\ out' = out - 1 /\ inflight' = inflight - 1

(* usb_kill_anchored_urbs(&data->tx_anchor).                               *)
KillTx == out' = 0 /\ inflight' = inflight - out

(* btusb_waker: a reference, which resumes the device, and back.           *)
WakerStart ==
    /\ waker = {"queued"} /\ waker' = {"get"}
    /\ UNCHANGED <<hci, rx, power, sender, inflight, out, deferred, iso, history>>
WakerGet ==
    /\ "get" \in waker /\ waker' = waker \ {"get"}
    /\ \/ GetOk /\ UNCHANGED <<stranded, faults, load>>
       \/ Fault /\ stranded' = (deferred > 0)
    /\ UNCHANGED <<hci, rx, power, sender, inflight, out, deferred, iso, lost, stray, leaks, load>>
-----------------------------------------------------------------------------
(* Connections.  An event brings a link up or down; btusb_notify records   *)
(* the SCO links and queues the work.  An SCO link is set up over an ACL   *)
(* link by commands, which a suspending driver holds back; and no event    *)
(* falls between the end of the autosuspend delay and btusb_suspend.       *)
Events == posted["intr"] > 0 /\ ~(pm.op = "suspend" /\ pm.auto /\ ~suspending)
AclUp ==
    /\ hci = "up" /\ Events /\ ~links.acl
    /\ links' = [links EXCEPT !.acl = TRUE]
    /\ UNCHANGED <<hci, rx, power, tx, work, alt, frag, history>>
ScoChange ==
    /\ hci = "up" /\ links.acl
    /\ \E n \in 0..load.sco \ {links.sco} :
         /\ n > links.sco => Events /\ ~suspending
         /\ links' = [links EXCEPT !.sco = n]
    /\ work' = [work EXCEPT !.queued = TRUE]
    /\ UNCHANGED <<hci, rx, power, tx, alt, frag, history>>
LinksDown ==
    /\ links' = [acl |-> FALSE, sco |-> 0]
    /\ work' = [work EXCEPT !.queued = @ \/ links.sco > 0]
AclDown ==
    /\ hci = "up" /\ links.acl /\ LinksDown
    /\ UNCHANGED <<hci, rx, power, tx, alt, frag, history>>

(* btusb_work.  It reads sco_num again when it chooses the setting; the    *)
(* subtraction is unsigned, so that no link selects the last entry.        *)
AltFor(n) ==
    CASE Air = "cvsd8" -> n
      [] Air = "cvsd16" -> IF n = 1 THEN 2 ELSE IF n = 2 THEN 4 ELSE 5
      [] OTHER -> 1

WorkStart ==
    /\ work.queued /\ work.at = "idle"
    /\ work' = [queued |-> FALSE,
                at |-> IF links.sco = 0 THEN "stop"
                       ELSE IF "iso" \in refs THEN "alt" ELSE "get"]
    /\ UNCHANGED <<hci, rx, power, tx, links, alt, frag, history>>

(* BTUSB_DID_ISO_RESUME is set while the reference "iso" is held.          *)
WorkGet ==
    /\ work.at = "get"
    /\ \/ /\ GetOk
          /\ refs' = refs \cup {"iso"} /\ work' = [work EXCEPT !.at = "alt"]
          /\ UNCHANGED <<run, posted, lost, faults>>
       \/ /\ Fault /\ run' = [run EXCEPT !["isoc"] = FALSE] /\ Kill({"isoc"})
          /\ work' = [work EXCEPT !.at = "idle"]
          /\ lost' = lost \cup {"isoc"} /\ UNCHANGED refs
    /\ UNCHANGED <<hci, ctrl, pm, asleep, count, suspending, tx, links, alt, frag,
                   stray, leaks, stranded, load>>

(* btusb_switch_alt_setting: another setting stops the URBs, drops the     *)
(* fragment and sets the interface, which may fail; then the URBs.         *)
Switch(f) ==
    /\ work.at = "alt"
    /\ IF alt = AltFor(links.sco)
       THEN /\ work' = [work EXCEPT !.at = "start"]
            /\ UNCHANGED <<run, posted, alt, frag, lost, stray, faults>>
       ELSE /\ run' = [run EXCEPT !["isoc"] = FALSE] /\ Kill({"isoc"})
            /\ stray' = stray \ {"isoc"} /\ frag' = f
            /\ \/ /\ CanSubmit /\ alt' = AltFor(links.sco)
                  /\ work' = [work EXCEPT !.at = "start"] /\ UNCHANGED <<lost, faults>>
               \/ /\ Rejected /\ work' = [work EXCEPT !.at = "idle"]
                  /\ lost' = lost \cup {"isoc"} /\ UNCHANGED alt
    /\ UNCHANGED <<hci, ctrl, power, tx, links, leaks, stranded, load>>
WorkSwitch_KeepFragment == Switch(frag)
WorkSwitch == Switch(0)

WorkPost ==
    /\ work.at = "start" /\ work' = [work EXCEPT !.at = "idle"]
    /\ IF run["isoc"] \/ alt = 0 THEN UNCHANGED <<run, posted, lost, faults>>
       ELSE \/ /\ CanSubmit /\ run' = [run EXCEPT !["isoc"] = TRUE]
               /\ SubmitIsoc
            \/ /\ Rejected /\ lost' = lost \cup {"isoc"} /\ UNCHANGED <<run, posted>>
    /\ UNCHANGED <<hci, ctrl, power, tx, links, alt, frag, stray, leaks, stranded, load>>

WorkStop ==
    /\ work.at = "stop" /\ work' = [work EXCEPT !.at = "idle"]
    /\ Kill({"isoc"}) /\ stray' = stray \ {"isoc"} /\ lost' = lost \ {"isoc"}
    /\ run' = [run EXCEPT !["isoc"] = FALSE]
    /\ \/ run["isoc"] /\ CanSubmit /\ alt' = 0
       \/ UNCHANGED alt
    /\ refs' = refs \ {"iso"}
    /\ UNCHANGED <<hci, ctrl, pm, asleep, count, suspending, tx, links, frag, leaks, stranded,
                   faults, load>>

Work == WorkStart \/ WorkGet \/ WorkSwitch \/ WorkPost \/ WorkStop
-----------------------------------------------------------------------------
(* The HCI core takes a running device down: it drains its queue, drops    *)
(* the links, calls btusb_flush and clears HCI_RUNNING; then btusb_close.  *)
CloseBegin(from) ==
    /\ hci = from /\ sender = "idle" /\ Awaited
    /\ hci' = "closing" /\ LinksDown /\ KillTx /\ frag' = 0
    /\ UNCHANGED <<rx, power, sender, deferred, waker, alt, history>>

CloseCancel ==
    /\ hci = "closing" /\ work.at = "idle" /\ "get" \notin waker
    /\ work' = [work EXCEPT !.queued = FALSE] /\ waker' = {}
    /\ hci' = "close_stop"
    /\ UNCHANGED <<rx, power, sender, inflight, out, deferred, links, alt, frag, history>>

(* btusb_stop_traffic, as close, suspend and reset call it.                *)
StopTraffic_NotCtrl == Kill({"intr", "bulk", "isoc"}) /\ UNCHANGED ctrl
StopTraffic == ~Handling /\ Kill({"intr", "bulk", "isoc"}) /\ ctrl' = "none"

CloseStop ==
    /\ hci = "close_stop" /\ hci' = "close_put"
    /\ run' = [k \in Kinds |-> k = "isopkt" /\ run[k]]
    /\ StopTraffic /\ frag' = 0 /\ lost' = lost \cap {"isopkt"} /\ stray' = stray \cap {"isopkt"}
    /\ UNCHANGED <<power, tx, links, work, alt, leaks, stranded, faults, load>>

(* A reference to set needs_remote_wakeup, if it can be had, and back; the *)
(* deferred frames are dropped.                                            *)
CloseEnd ==
    /\ hci = "close_put" /\ hci' = "down" /\ GetOk
    /\ deferred' = 0 /\ stranded' = FALSE
    /\ UNCHANGED <<rx, power, sender, inflight, out, waker, iso, lost, stray, leaks, faults, load>>
-----------------------------------------------------------------------------
(* Suspend.  The USB core autosuspends a device that nobody holds and that *)
(* no event has reached for the autosuspend delay, which outlasts the work *)
(* the last event queued.  A system that suspends has its tasks frozen,    *)
(* none of them half way through taking the device up or down.             *)
SuspendBegin(auto) ==
    /\ pm.op = "none" /\ asleep = "no"
    /\ hci \in {"up", "down"} \/ (auto /\ hci = "setup")
    /\ auto => refs = {} /\ work = [queued |-> FALSE, at |-> "idle"]
    /\ pm' = [Rest EXCEPT !.op = "suspend", !.auto = auto, !.i = Intfs, !.at = "enter"]
    /\ UNCHANGED <<hci, rx, refs, asleep, count, suspending, tx, iso, history>>

NextDown == pm' = [pm EXCEPT !.i = @ - 1, !.at = IF pm.i = 1 THEN "flush" ELSE "enter"]
(* An interface refused: the core resumes those it had suspended.          *)
Refused == pm' = IF pm.i = Intfs THEN Rest
                 ELSE [pm EXCEPT !.op = "resume", !.i = @ + 1, !.at = "enter"]

(* btusb_suspend(interface pm.i): links and, for the first to come, frames *)
(* in flight refuse an autosuspend; BTUSB_SUSPENDING under txlock.         *)
Enter(busy, n) ==
    /\ pm.op = "suspend" /\ pm.at = "enter"
    /\ \/ /\ pm.auto /\ links.acl /\ Refused /\ UNCHANGED <<count, suspending>>
       \/ /\ ~(pm.auto /\ links.acl) /\ count > 0
          /\ count' = count + 1 /\ NextDown /\ UNCHANGED suspending
       \/ /\ ~(pm.auto /\ links.acl) /\ count = 0
          /\ IF pm.auto /\ busy
             THEN Refused /\ count' = n /\ UNCHANGED suspending
             ELSE count' = 1 /\ suspending' = TRUE /\ pm' = [pm EXCEPT !.at = "cancel"]
    /\ UNCHANGED <<hci, rx, refs, asleep, tx, iso, history>>
SuspendEnter_KeepCount == Enter(inflight > 0, 1)
SuspendEnter == Enter(inflight > 0, 0)

(* cancel_work_sync(&data->work).                                          *)
SuspendCancel ==
    /\ pm.op = "suspend" /\ pm.at = "cancel" /\ work.at = "idle"
    /\ work' = [work EXCEPT !.queued = FALSE]
    /\ pm' = [pm EXCEPT !.at = "kill"]
    /\ UNCHANGED <<hci, rx, refs, asleep, count, suspending, tx, links, alt, frag, history>>

(* btmtk_usb_suspend, btusb_stop_traffic and the frames on tx_anchor.      *)
SuspendKill ==
    /\ pm.op = "suspend" /\ pm.at = "kill" /\ ~Handling
    /\ Kill({"intr", "bulk", "isoc"} \cup {k \in {"isopkt"} : run[k]}) /\ ctrl' = "none"
    /\ stray' = {} /\ KillTx /\ NextDown
    /\ UNCHANGED <<hci, run, refs, asleep, count, suspending, sender, deferred, waker, iso,
                   lost, leaks, stranded, faults, load>>

(* The core lets nothing be submitted any more and flushes the endpoints.  *)
SuspendEnd ==
    /\ pm.op = "suspend" /\ pm.at = "flush" /\ ~Handling
    /\ asleep' = (IF pm.auto THEN "auto" ELSE "system") /\ pm' = Rest
    /\ posted' = NoUrbs /\ ctrl' = "none" /\ KillTx
    /\ lost' = lost \cup {k \in Kinds : posted[k] > 0}
    /\ UNCHANGED <<hci, run, refs, count, suspending, sender, deferred, waker, iso,
                   stray, leaks, stranded, faults, load>>

Suspend == SuspendEnter \/ SuspendCancel \/ SuspendKill \/ SuspendEnd
-----------------------------------------------------------------------------
(* Resume: somebody takes a reference, the device wakes, the system does.  *)
ResumeBegin ==
    /\ asleep # "no" /\ pm.op = "none" /\ hci \notin Closing \ {"close_put"}
    /\ asleep' = "no"
    /\ pm' = [Rest EXCEPT !.op = "resume", !.auto = (asleep = "auto"), !.i = 1, !.at = "enter"]
    /\ UNCHANGED <<hci, rx, refs, count, suspending, tx, iso, history>>

NextUp == pm' = IF pm.i = Intfs THEN Rest ELSE [pm EXCEPT !.i = @ + 1, !.at = "enter"]

(* btusb_resume(interface pm.i): the last one brings the device back.      *)
ResumeEnter ==
    /\ pm.op = "resume" /\ pm.at = "enter"
    /\ count' = count - 1
    /\ IF count > 1 THEN NextUp /\ UNCHANGED lost
       ELSE IF HciRunning THEN pm' = [pm EXCEPT !.at = "intr"] /\ UNCHANGED lost
       ELSE pm' = [pm EXCEPT !.at = "done"] /\ lost' = lost \cup {k \in Kinds : run[k]}
    /\ UNCHANGED <<hci, rx, refs, asleep, suspending, tx, iso, stray, leaks, stranded,
                   faults, load>>

(* Each kind whose bit is set is posted again; the bit is tested first.    *)
After == [intr |-> "bulk", bulk |-> "isoc", isoc |-> "isopkt", isopkt |-> "play"]
Posting == [intr |-> "post intr", bulk |-> "post bulk", isoc |-> "post isoc",
            isopkt |-> "post isopkt"]
ResumeTest(k) ==
    /\ pm.op = "resume" /\ pm.at = k
    /\ pm' = IF run[k] THEN [pm EXCEPT !.at = Posting[k]]
                       ELSE [pm EXCEPT !.at = After[k]]
    /\ UNCHANGED <<hci, rx, refs, asleep, count, suspending, tx, iso, history>>

(* Events and ACL data must come back; the others may fail.                *)
ResumeAs(k, full) ==
    /\ pm.op = "resume" /\ pm.at = Posting[k]
    /\ stray' = IF run[k] /\ posted[k] = 0 THEN stray ELSE stray \cup {k}
    /\ \/ \E n \in 1..full :
            /\ CanPost(k) /\ Post(k, n, full)
            /\ pm' = [pm EXCEPT !.at = After[k]] /\ UNCHANGED run
       \/ /\ Denied(CanPost(k)) /\ run' = [run EXCEPT ![k] = FALSE]
          /\ lost' = lost \cup IF k \in {"intr", "bulk"} THEN Kinds ELSE {k}
          /\ pm' = [pm EXCEPT !.at = IF k \in {"intr", "bulk"} THEN "failed" ELSE After[k]]
          /\ UNCHANGED posted
    /\ UNCHANGED <<hci, ctrl, refs, asleep, count, suspending, tx, iso, leaks, stranded, load>>
ResumePost_One(k) == ResumeAs(k, 1)
ResumePost(k) == ResumeAs(k, Want[k])

(* Under txlock: play_deferred, which drops what follows a failure, and    *)
(* the end of BTUSB_SUSPENDING; then the work is queued.                   *)
ResumePlay ==
    /\ pm.op = "resume" /\ pm.at = "play"
    /\ \E n \in 0..deferred : out' = out + n /\ inflight' = inflight + n
    /\ deferred' = 0 /\ stranded' = FALSE
    /\ suspending' = FALSE /\ pm' = [pm EXCEPT !.at = "work"]
    /\ UNCHANGED <<hci, rx, refs, asleep, count, sender, waker, iso, lost, stray, leaks,
                   faults, load>>
ResumeWork_Not ==
    /\ pm.op = "resume" /\ pm.at = "work" /\ NextUp
    /\ UNCHANGED <<hci, rx, refs, asleep, count, suspending, tx, iso, history>>
ResumeWork ==
    /\ pm.op = "resume" /\ pm.at = "work" /\ NextUp
    /\ work' = [work EXCEPT !.queued = TRUE]
    /\ UNCHANGED <<hci, rx, refs, asleep, count, suspending, tx, links, alt, frag, history>>

ResumeFailed ==
    /\ pm.op = "resume" /\ pm.at = "failed"
    /\ deferred' = 0 /\ stranded' = FALSE /\ pm' = [pm EXCEPT !.at = "done"]
    /\ UNCHANGED <<hci, rx, refs, asleep, count, suspending, sender, inflight, out, waker,
                   iso, lost, stray, leaks, faults, load>>
ResumeDone ==
    /\ pm.op = "resume" /\ pm.at = "done"
    /\ suspending' = FALSE /\ NextUp
    /\ UNCHANGED <<hci, rx, refs, asleep, count, tx, iso, history>>

Resume == \/ ResumeBegin \/ ResumeEnter \/ ResumePlay \/ ResumeWork \/ ResumeFailed \/ ResumeDone
          \/ \E k \in Kinds : ResumeTest(k) \/ ResumePost(k)
-----------------------------------------------------------------------------
UsbNext ==
    \/ OpenGet \/ OpenIntr \/ OpenBulk \/ SetRunning
    \/ CloseCancel \/ CloseStop \/ CloseEnd
    \/ Send \/ WakerStart \/ WakerGet
    \/ AclUp \/ AclDown \/ ScoChange \/ Work \/ IsocData
    \/ IntrComplete \/ BulkComplete \/ IsocComplete \/ IsoPktComplete
    \/ (\E auto \in BOOLEAN : SuspendBegin(auto)) \/ Suspend \/ Resume
-----------------------------------------------------------------------------
(* Nobody is left deaf and nobody hears twice: while a kind's bit is set   *)
(* and nobody suspends, all its URBs are posted, and never more than that, *)
(* whatever open, close, the work, suspend and resume do meanwhile; except *)
(* for URBs given up after a failure, and for those resume posted although *)
(* its test of the bit had become stale, or the work had posted them since *)
(* the device woke.                                                        *)
RxPosted ==
    \A k \in Kinds :
      /\ k \notin stray => posted[k] <= Want[k]
      /\ run[k] /\ k \notin lost /\ ~suspending => posted[k] >= Want[k]

(* The frames in flight are counted exactly, but for those whose           *)
(* submission failed: the count protects an autosuspended device from a    *)
(* sender that tested the flag before it was set.                          *)
AutoSuspendQuiet ==
    /\ inflight = out + leaks + (IF sender = "submit" THEN 1 ELSE 0)
    /\ asleep = "auto" => inflight = 0

(* suspend_count: every interface's suspend, refused or not, is balanced,  *)
(* so that the device comes back with its last interface.                  *)
CountBalanced ==
    pm.op = "none" => IF asleep = "no" THEN count = 0 /\ ~suspending
                                       ELSE count = Intfs /\ suspending

(* A deferred frame does not wait for somebody else to wake the device: as *)
(* long as it waits the waker is on its way, or the system will resume, or *)
(* the device is being resumed or closed; unless it was deferred after the *)
(* resume had played the list, or the device could not be woken.           *)
DeferredHasWaker ==
    deferred > 0 /\ ~stranded =>
       \/ waker # {} \/ sender = "wake"
       \/ pm.op = "resume" \/ asleep = "system" \/ (pm.op = "suspend" /\ ~pm.auto)
       \/ ~HciRunning

(* The isochronous interface follows the SCO links: once no work is queued *)
(* or running, it runs if and only if there are links, in their setting,   *)
(* also when the links changed while the device was suspended; and while   *)
(* it runs the fragment waiting for its rest arrived under this setting.   *)
IsoFollowsLinks ==
    /\ hci = "up" /\ pm.op = "none" /\ asleep = "no" /\ work = [queued |-> FALSE, at |-> "idle"]
          /\ "isoc" \notin lost =>
       /\ run["isoc"] <=> links.sco > 0
       /\ links.sco > 0 => alt = AltFor(links.sco)
    /\ run["isoc"] /\ frag # 0 => frag = alt
=============================================================================
