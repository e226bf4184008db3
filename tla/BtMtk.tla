-------------------------------- MODULE BtMtk --------------------------------
(***************************************************************************)
(* The MediaTek part of the Bluetooth driver (src/src/bluetooth/btmtk.c)   *)
(* on top of its USB transport: the WMT command, which polls the control   *)
(* endpoint for an answer; the setup, which downloads the firmware and     *)
(* turns the function on; the shutdown; the ISO data interface; the dump   *)
(* of a hung firmware and the reset that follows it.                       *)
(*                                                                         *)
(* Outside the driver: the HCI core opens a device, sets it up, shuts it   *)
(* down and closes it one step after the other, and closes it also when    *)
(* the setup failed; the device answers each WMT command it receives with  *)
(* one event, late or never, and keeps its firmware until it is reset.     *)
(*                                                                         *)
(* Names with an underscore are the same step with a bug, for checking     *)
(* that the properties notice.                                             *)
(***************************************************************************)
EXTENDS BtUsb, Sequences

CONSTANTS
    Blocks,     \* blocks of the firmware (of its one section)
    Retries,    \* how often setup asks again while the device is not ready
    MaxEvents   \* bound: events the device keeps for the control endpoint

ASSUME MtkAssumption == {Blocks, Retries, MaxEvents} \subseteq Nat \ {0}

VARIABLES
    plan,       \* where setup or shutdown is, and what it still has to do
    cmd,        \* the WMT command under way
    wait,       \* BTMTK_TX_WAIT_VND_EVT
    evt,        \* evt_skb
    late,       \* history: an event of a command given up was taken for an answer
    dev,        \* the device: command on its way to it, events, blocks, function,
                \* and whether it was reset under the driver
    dump,       \* a coredump is being collected
    rst,        \* where btusb_mtk_reset is
    active      \* BTMTK_HW_RESET_ACTIVE

(* All of BtUsb but the count of failures.                                 *)
usb == <<hci, rx, power, tx, iso, lost, stray, leaks, stranded, load>>
wmt == <<plan, cmd, wait, evt, late>>
reset == <<dump, rst, active>>
mvars == <<wmt, dev, reset>>
allvars == <<vars, mvars>>

Nothing == [ask |-> "none", says |-> "none", own |-> FALSE]
Idle == [at |-> "idle", ask |-> "none"]
Fresh == [sent |-> "none", events |-> <<>>, blocks |-> 0, on |-> FALSE, reset |-> FALSE]

MtkInit ==
    /\ Init
    /\ plan = [at |-> "none", left |-> 0, retry |-> 0] /\ cmd = Idle /\ wait = FALSE
    /\ evt = Nothing /\ late = FALSE /\ dev = Fresh
    /\ dump = FALSE /\ rst = "idle" /\ active = FALSE

(* The operation of a command: PATCH_DWNLD for the firmware, FUNC_CTRL.    *)
Op(ask) == IF ask \in {"on", "off"} THEN "func" ELSE IF ask = "none" THEN "none" ELSE "patch"

-----------------------------------------------------------------------------
(* The device receives the frame that carries a WMT command (or the frame  *)
(* is lost) and prepares an event; it has room for some.                   *)
Answers(ask) ==
    IF ask = "query" THEN IF dev.blocks = Blocks THEN {"DONE"} ELSE {"UNDONE", "PROGRESS"}
    ELSE {"ok"}
DeviceGets ==
    /\ dev.sent # "none" /\ sender = "idle" /\ TxDone
    /\ \E says \in Answers(dev.sent) :
         dev' = [dev EXCEPT
             !.sent = "none",
             !.events = IF Len(@) = MaxEvents THEN @
                        ELSE Append(@, [ask |-> dev.sent, says |-> says,
                                        own |-> cmd.at \in {"urb", "wait"}]),
             !.blocks = CASE dev.sent = "first" -> 1
                          [] dev.sent = "next" /\ @ \in 1 .. Blocks - 1 -> @ + 1
                          [] OTHER -> @,
             !.on = (@ \/ dev.sent = "on") /\ dev.sent # "off"]
    /\ UNCHANGED <<hci, rx, power, sender, deferred, waker, iso, history, wmt, reset>>

FrameGone ==
    /\ TxDone
    /\ IF dev.sent # "none" THEN Fault /\ dev' = [dev EXCEPT !.sent = "none"]
                            ELSE UNCHANGED <<faults, dev>>
    /\ UNCHANGED <<hci, rx, power, sender, deferred, waker, iso, lost, stray, leaks, stranded,
                   wmt, reset, load>>

-----------------------------------------------------------------------------
(* btmtk_usb_hci_wmt_sync.  Begin is the caller's step, which sets the bit.*)
Begin(ask) ==
    /\ cmd = Idle
    /\ cmd' = [at |-> "get", ask |-> ask] /\ wait' = TRUE
    /\ dev' = [dev EXCEPT !.events = [i \in DOMAIN @ |-> [@[i] EXCEPT !.own = FALSE]]]

Give(result) == cmd' = [cmd EXCEPT !.at = result]

(* usb_autopm_get_interface; a failure leaves the bit set.                 *)
WmtGet ==
    /\ cmd.at = "get"
    /\ \/ GetOk /\ refs' = refs \cup {"wmt"} /\ Give("send") /\ UNCHANGED faults
       \/ Fault /\ Give("fail") /\ UNCHANGED refs
    /\ UNCHANGED <<hci, rx, pm, asleep, count, suspending, tx, iso, lost, stray, leaks, stranded,
                   plan, wait, evt, late, dev, reset, load>>

(* __hci_cmd_send: the frame goes the way of every frame, and nobody tells *)
(* the caller of one that could not be submitted.                          *)
WmtSend ==
    /\ cmd.at = "send"
    /\ \/ /\ SendTest /\ Give("urb")
          /\ dev' = [dev EXCEPT !.sent = cmd.ask] /\ UNCHANGED <<refs, wait, faults>>
       \/ /\ Fault /\ Give("fail") /\ refs' = refs \ {"wmt"} /\ wait' = FALSE
          /\ UNCHANGED <<sender, inflight, dev>>
    /\ UNCHANGED <<hci, rx, pm, asleep, count, suspending, out, deferred, waker, iso, lost, stray,
                   leaks, stranded, plan, evt, late, reset, load>>

(* The control URB; then the reference goes.  A failure leaves the bit set.*)
WmtUrb ==
    /\ cmd.at = "urb" /\ sender = "idle"
    /\ \/ /\ CanSubmit /\ ctrl' = IF ctrl = "none" THEN "posted" ELSE ctrl
          /\ Give("wait") /\ UNCHANGED faults
       \/ Rejected /\ Give("fail") /\ UNCHANGED ctrl
    /\ refs' = refs \ {"wmt"}
    /\ UNCHANGED <<hci, run, posted, pm, asleep, count, suspending, tx, iso, lost, stray, leaks,
                   stranded, plan, wait, evt, late, dev, reset, load>>

(* wait_on_bit_timeout.  (It runs out at no cost when no answer can come.) *)
Answerable == Handling \/ (ctrl = "posted" /\ (dev.sent # "none" \/ dev.events # <<>>))
WmtTimeout ==
    /\ cmd.at = "wait" /\ wait
    /\ IF Answerable THEN Fault ELSE UNCHANGED faults
    /\ wait' = FALSE /\ Give("fail")
    /\ UNCHANGED <<usb, plan, evt, late, dev, reset>>

(* Parsing: no event at all passes for success; another operation does not.*)
Parse(agrees) ==
    /\ cmd.at = "wait" /\ ~wait
    /\ Give(IF evt = Nothing \/ (agrees /\ evt.says = "ok") THEN "ok"
            ELSE IF agrees THEN evt.says ELSE "fail")
    /\ evt' = Nothing
    /\ late' = (late \/ (evt # Nothing /\ Op(evt.ask) = Op(cmd.ask) /\ ~evt.own))
    /\ UNCHANGED <<vars, plan, wait, dev, reset>>
WmtParse_AnyOp == Parse(TRUE)
WmtParse == Parse(Op(evt.ask) = Op(cmd.ask))

(* btmtk_usb_wmt_recv, which polls until there is an event.  It tests the  *)
(* bit to keep a copy, passes the event on, and tests the bit again.       *)
RecvTest ==
    /\ ctrl = "posted" /\ dev.events # <<>>
    /\ dev' = [dev EXCEPT !.events = Tail(@)]
    /\ \/ /\ ctrl' = "handler" /\ UNCHANGED faults
          /\ evt' = IF wait THEN Head(dev.events) ELSE evt
       \/ Fault /\ ctrl' = "none" /\ evt' \in (IF wait THEN {evt, Nothing} ELSE {evt})
    /\ UNCHANGED <<hci, run, posted, power, tx, iso, lost, stray, leaks, stranded,
                   plan, cmd, wait, late, reset, load>>
RecvClear ==
    /\ ctrl = "handler" /\ ctrl' = "none"
    /\ \/ HciRunning /\ wait' = FALSE /\ UNCHANGED <<evt, faults>>
       \/ ~HciRunning /\ evt' = Nothing /\ UNCHANGED <<wait, faults>>
       \/ HciRunning /\ Fault /\ evt' = Nothing /\ UNCHANGED wait
    /\ UNCHANGED <<hci, run, posted, power, tx, iso, lost, stray, leaks, stranded,
                   plan, cmd, late, dev, reset, load>>
RecvGone ==
    /\ ctrl = "posted" /\ dev.events = <<>> /\ Fault /\ ctrl' = "none"
    /\ UNCHANGED <<hci, run, posted, power, tx, iso, lost, stray, leaks, stranded, load,
                   wmt, dev, reset>>

Wmt == WmtGet \/ WmtSend \/ WmtUrb \/ WmtTimeout \/ WmtParse \/ RecvTest \/ RecvClear \/ RecvGone
-----------------------------------------------------------------------------
(* btmtk_usb_setup: the identity, the firmware of the 79xx, the end point  *)
(* option, the function, the ISO interface.                                *)
Over == [at |-> "over", left |-> 0, retry |-> 0]
NoPlan == [Over EXCEPT !.at = "none"]
Goto(at) == plan' = [plan EXCEPT !.at = at]
Told == cmd.at \in {"ok", "DONE", "UNDONE", "PROGRESS", "fail"}
Step(at) == hci = "setup" /\ plan.at = at

SetupId ==
    /\ Step("none") /\ late' = FALSE
    /\ \/ /\ CanSubmit /\ UNCHANGED faults
          /\ plan' = [at |-> "query", left |-> Blocks, retry |-> Retries]
       \/ Rejected /\ plan' = Over
    /\ UNCHANGED <<usb, cmd, wait, evt, dev, reset>>

(* btmtk_setup_firmware_79xx asks whether the section is wanted, again     *)
(* while the device is busy, and downloads it block by block.              *)
SetupAsk ==
    /\ \/ Step("query") /\ Begin("query")
       \/ Step("block") /\ Begin(IF plan.left = Blocks THEN "first" ELSE "next")
       \/ Step("func") /\ Begin("on")
    /\ UNCHANGED <<vars, plan, evt, late, reset>>

Answered(at) == Step(at) /\ Told /\ cmd' = Idle /\ UNCHANGED <<vars, wait, evt, late, dev, reset>>
SetupQueried ==
    /\ Answered("query")
    /\ \E status \in IF cmd.at = "ok" THEN {"UNDONE", "PROGRESS", "DONE"} ELSE {cmd.at} :
         plan' = CASE status = "fail" -> Over
                   [] status = "DONE" -> [plan EXCEPT !.at = "reg"]
                   [] status = "UNDONE" -> [plan EXCEPT !.at = "block"]
                   [] OTHER -> [plan EXCEPT !.retry = @ - 1,
                                            !.at = IF plan.retry = 1 THEN "block" ELSE "query"]
SetupSent ==
    /\ Answered("block")
    /\ plan' = IF cmd.at = "fail" THEN Over
               ELSE [plan EXCEPT !.left = @ - 1, !.at = IF plan.left = 1 THEN "reg" ELSE "block"]
SetupFunc ==
    /\ Answered("func")
    /\ IF cmd.at = "fail" THEN plan' = Over ELSE Goto("iso")

SetupReg ==
    /\ Step("reg")
    /\ \/ CanSubmit /\ Goto("func") /\ UNCHANGED faults
       \/ Rejected /\ plan' = Over
    /\ UNCHANGED <<usb, cmd, wait, evt, late, dev, reset>>

(* btmtk_usb_isointf_init: the URB, then a command; the bit only if both   *)
(* worked.  Setup succeeds either way.  (A resume meanwhile posts the URB  *)
(* a second time, or a suspend loses it: stray, lost.)                     *)
SetupIso ==
    /\ Step("iso")
    /\ \/ /\ CanSubmit /\ Goto("isocmd") /\ posted' = [posted EXCEPT !["isopkt"] = @ + 1]
          /\ UNCHANGED <<hci, faults>>
       \/ Rejected /\ plan' = NoPlan /\ hci' = "up" /\ UNCHANGED posted
    /\ UNCHANGED <<run, ctrl, power, tx, iso, lost, stray, leaks, stranded, load,
                   cmd, wait, evt, late, dev, reset>>
SetupIsoCmd ==
    /\ Step("isocmd") /\ plan' = NoPlan /\ hci' = "up"
    /\ \/ /\ run' = [run EXCEPT !["isopkt"] = TRUE] /\ UNCHANGED faults
          /\ lost' = IF posted["isopkt"] = 0 THEN lost \cup {"isopkt"} ELSE lost
          /\ stray' = IF pm.op = "resume" THEN stray \cup {"isopkt"} ELSE stray
       \/ Fault /\ UNCHANGED <<run, lost, stray>>
    /\ UNCHANGED <<posted, ctrl, power, tx, iso, leaks, stranded, load,
                   cmd, wait, evt, late, dev, reset>>

SetupFailed ==
    /\ Step("over") /\ CloseBegin("setup") /\ plan' = NoPlan
    /\ UNCHANGED <<cmd, wait, evt, late, dev, reset>>

Setup == SetupId \/ SetupAsk \/ SetupQueried \/ SetupSent \/ SetupFunc \/ SetupReg
            \/ SetupIso \/ SetupIsoCmd \/ SetupFailed

(* btusb_mtk_release_iso_intf.                                             *)
ReleaseIso == run' = [run EXCEPT !["isopkt"] = FALSE]

(* btusb_mtk_shutdown, before the HCI core closes the device.              *)
ShutdownBegin ==
    /\ hci = "up" /\ rst \notin {"get", "stop", "toggle", "gone"} /\ Awaited
    /\ hci' = "shutdown"
    /\ \/ GetOk /\ refs' = refs \cup {"shutdown"} /\ Goto("off") /\ UNCHANGED faults
       \/ Fault /\ Goto("release") /\ UNCHANGED refs
    /\ UNCHANGED <<rx, pm, asleep, count, suspending, tx, iso, lost, stray, leaks, stranded,
                   cmd, wait, evt, late, dev, reset, load>>
ShutdownAsk ==
    /\ hci = "shutdown" /\ plan.at = "off" /\ Begin("off")
    /\ UNCHANGED <<vars, plan, evt, late, reset>>
ShutdownTold ==
    /\ hci = "shutdown" /\ plan.at = "off" /\ Told /\ cmd' = Idle
    /\ refs' = refs \ {"shutdown"} /\ Goto("release")
    /\ UNCHANGED <<hci, rx, pm, asleep, count, suspending, tx, iso, history,
                   wait, evt, late, dev, reset>>
ShutdownEnd ==
    /\ hci = "shutdown" /\ plan.at = "release" /\ Awaited /\ plan' = Over
    /\ ReleaseIso /\ Kill({"isopkt"}) /\ lost' = lost \ {"isopkt"} /\ stray' = stray \ {"isopkt"}
    /\ UNCHANGED <<hci, ctrl, power, tx, iso, leaks, stranded, faults, load,
                   cmd, wait, evt, late, dev, reset>>
ShutdownClose ==
    /\ plan = Over /\ CloseBegin("shutdown") /\ plan' = NoPlan
    /\ UNCHANGED <<cmd, wait, evt, late, dev, reset>>

Shutdown == ShutdownBegin \/ ShutdownAsk \/ ShutdownTold \/ ShutdownEnd \/ ShutdownClose
-----------------------------------------------------------------------------
(* A hung firmware sends a dump over the ACL endpoint: btmtk_usb_recv_acl  *)
(* keeps the device from autosuspending from then on.  When the dump is    *)
(* complete, or takes too long, btmtk_coredump_notify queues the reset.    *)
DumpPacket ==
    /\ hci = "up" /\ ~dump /\ posted["bulk"] > 0 /\ rst = "idle" /\ load.hangs
    /\ dump' = TRUE /\ refs' = refs \cup {"dump"}
    /\ UNCHANGED <<hci, rx, pm, asleep, count, suspending, tx, iso, history, wmt, dev, rst, active>>
DumpEnd ==
    /\ dump /\ HciRunning /\ dump' = FALSE
    /\ rst' = IF rst = "idle" THEN "wanted" ELSE rst
    /\ UNCHANGED <<vars, wmt, dev, active>>

(* btusb_mtk_reset, run by the core's command work, which opens and closes *)
(* nothing meanwhile.                                                      *)
ResetBegin ==
    /\ rst = "wanted" /\ hci \in {"up", "down"}
    /\ active' = TRUE /\ rst' = IF active THEN "refused" ELSE "get"
    /\ UNCHANGED <<vars, wmt, dev, dump>>
ResetGet ==
    /\ rst = "get"
    /\ \/ GetOk /\ refs' = refs \cup {"reset"} /\ rst' = "stop" /\ UNCHANGED faults
       \/ Fault /\ rst' = "unwoken" /\ UNCHANGED refs
    /\ UNCHANGED <<hci, rx, pm, asleep, count, suspending, tx, iso, lost, stray, leaks, stranded,
                   wmt, dev, dump, active, load>>
ResetStop ==
    /\ rst = "stop" /\ rst' = "toggle"
    /\ ~Handling /\ posted' = NoUrbs /\ ctrl' = "none" /\ KillTx /\ ReleaseIso
    /\ lost' = Kinds /\ stray' = {}
    /\ UNCHANGED <<hci, power, sender, deferred, waker, iso, leaks, stranded, faults,
                   wmt, dev, dump, active, load>>

(* btmtk_usb_subsys_reset: register accesses one after the other, the      *)
(* first that fails being the last.                                        *)
SubsysReset == \/ dev' = [Fresh EXCEPT !.reset = TRUE] /\ UNCHANGED faults
               \/ Fault /\ UNCHANGED dev

(* By the reset line, where the board has one: the device vanishes; or by  *)
(* registers, and whatever came of it the USB core is asked for a reset.   *)
ResetEnd_KeepFlag ==
    /\ rst = "toggle" /\ UNCHANGED active
    /\ \/ rst' = "gone" /\ dev' = [Fresh EXCEPT !.reset = TRUE] /\ UNCHANGED faults
       \/ rst' = "queued" /\ SubsysReset
    /\ UNCHANGED <<usb, wmt, dump>>
ResetEnd ==
    /\ rst = "toggle"
    /\ \/ /\ rst' = "gone" /\ dev' = [Fresh EXCEPT !.reset = TRUE]
          /\ UNCHANGED <<active, faults>>
       \/ rst' = "queued" /\ SubsysReset /\ active' = FALSE
    /\ UNCHANGED <<usb, wmt, dump>>

(* The USB core resets the device and binds the driver anew; or fails to.  *)
UsbReset ==
    /\ rst = "queued" /\ pm.op = "none" /\ asleep = "no"
    /\ \/ rst' = "gone" /\ UNCHANGED faults
       \/ Fault /\ rst' = "idle"
    /\ UNCHANGED <<usb, wmt, dev, dump, active>>

(* The driver is unbound, the device closed and its state freed; what is   *)
(* bound then starts as MtkInit says.                                      *)
Disconnect ==
    /\ rst = "gone" /\ CloseBegin("up") /\ UNCHANGED mvars
Reset == DumpPacket \/ DumpEnd \/ ResetBegin \/ ResetGet \/ ResetStop \/ ResetEnd \/ UsbReset
            \/ Disconnect
-----------------------------------------------------------------------------
MtkNext ==
    \/ /\ UsbNext /\ UNCHANGED mvars
       /\ rst \in {"get", "stop", "toggle", "gone"} => hci' \notin {"open_intr"} \/ hci = hci'
    \/ DeviceGets \/ FrameGone \/ Wmt \/ Setup \/ Shutdown \/ Reset
MtkSpec == MtkInit /\ [][MtkNext]_allvars
-----------------------------------------------------------------------------
(* Types of the variables of both modules.                                 *)
MtkTypeOK ==
    /\ hci \in {"down", "open_intr", "open_bulk", "opened", "setup", "up", "shutdown", "closing",
                "close_stop", "close_put"}
    /\ run \in [Kinds -> BOOLEAN] /\ posted \in [Kinds -> Nat]
    /\ ctrl \in {"none", "posted", "handler"}
    /\ refs \subseteq {"open", "iso", "wmt", "shutdown", "dump", "reset"}
    /\ pm.op \in {"none", "suspend", "resume"} /\ pm.auto \in BOOLEAN /\ pm.i \in 0 .. Intfs
    /\ asleep \in {"no", "auto", "system"} /\ count \in 0 .. Intfs /\ suspending \in BOOLEAN
    /\ sender \in {"idle", "submit", "defer", "wake"} /\ {inflight, out, deferred} \subseteq Nat
    /\ waker \subseteq {"queued", "get"}
    /\ links \in [acl : BOOLEAN, sco : 0 .. load.sco]
    /\ work \in [queued : BOOLEAN, at : {"idle", "get", "alt", "start", "stop"}]
    /\ plan \in [at : {"none", "query", "block", "reg", "func", "iso", "isocmd", "over", "off", "release"},
                 left : 0 .. Blocks, retry : 0 .. Retries]
    /\ cmd.at \in {"idle", "get", "send", "urb", "wait", "ok", "DONE", "UNDONE", "PROGRESS", "fail"}
    /\ {wait, late, dump, active} \subseteq BOOLEAN
    /\ Len(dev.events) <= MaxEvents /\ dev.blocks \in 0 .. Blocks /\ dev.on \in BOOLEAN
    /\ rst \in {"idle", "wanted", "refused", "get", "unwoken", "stop", "toggle", "queued", "gone"}

(* Setup that succeeds leaves the firmware downloaded and the function on: *)
(* an event that arrives late, an URB of a command given up that is still  *)
(* polling, or one that clears the bit of the next command, never passes   *)
(* for the answer of another operation; unless it was an event of the same *)
(* operation, which the driver cannot tell from its own.                   *)
UpMeansLoaded ==
    hci = "up" /\ ~late /\ ~dev.reset => dev.blocks = Blocks /\ dev.on

(* The function works when the driver says so, whatever order the answers, *)
(* timeouts and URBs of the WMT commands come in (btmtk_usb_hci_wmt_sync,  *)
(* btmtk_usb_wmt_recv).                                                    *)
SetupSound == MtkTypeOK /\ UpMeansLoaded

(* When the firmware hangs a reset is refused only after one that could    *)
(* not wake the device; one whose USB reset failed can be tried again.     *)
ResetNotRefused == rst # "refused"
=============================================================================
