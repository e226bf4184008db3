------------------------------ MODULE Lifecycle ------------------------------
(***************************************************************************)
(* The life of an mt7921e device: start-up (init_work), system suspend and *)
(* resume, the chip reset, the regulatory notifier and removal             *)
(* (src/src/mt76/mt7921/{pci,init,mac,pci_mac}.c, mt792x_{core,dma,mac}.c) *)
(* over the firmware download of FwLoad. Each runs on a thread of its own: *)
(*   init    the start-up work, which probe queues;                        *)
(*   pm      the PM core, which suspends and resumes the device;           *)
(*   work    the reset work;                                               *)
(*   regd    cfg80211's regulatory work, in the notifier;                  *)
(*   report  whoever reports a hung chip, such as the coredump work;       *)
(*   removal the driver core, which serialises removal with pm.            *)
(* The device mutex is taken by the reset, the notifier and the mac80211   *)
(* operations, not by suspend and resume; pm->suspended, hw_full_reset and *)
(* hw_init_done are flags that mt792x_reset tests without any lock.        *)
(*                                                                         *)
(* Names with an underscore are the same step with a bug, for checking     *)
(* that the properties notice.                                             *)
(***************************************************************************)
EXTENDS FwLoad

CONSTANTS
    Tries,        \* attempts of the reset and of the start-up (10)
    MaxSuspends,  \* bound: system suspends
    Scenes        \* how the behaviours begin: what is up, who acts, faults not to come

ASSUME LifeAssumption ==
    /\ Tries \in Nat \ {0} /\ MaxSuspends \in Nat
    /\ Scenes \subseteq [up : BOOLEAN, doze : BOOLEAN, regd : BOOLEAN, suspend : BOOLEAN,
                         remove : BOOLEAN, spent : 0 .. MaxFaults, ops : SUBSET {"roc", "scan", "tables"}]

VARIABLES
    scene,      \* the scene chosen
    pm,         \* where suspend or resume is
    suspended,  \* pm->suspended
    regd,       \* where mt7921_regd_notifier is
    mutex,      \* dev->mutex: who has it
    work,       \* dev->reset_work: queued, where it is, its attempts
    full,       \* hw_full_reset
    init,       \* where mt7921_init_work is, and its attempts
    done,       \* hw_init_done
    report,     \* where the reporter of a hang is in mt792x_reset
    removal,    \* where mt7921_pci_remove is
    seen        \* history: count of suspends, and which of the races below were lost

lifevars == <<pm, suspended, regd, mutex, work, full, init, done, report, removal, seen>>
vars == <<fwvars, scene, lifevars>>

(* At rest and told to nobody: a suspend goes on while no reset runs.      *)
Idle == [queued |-> FALSE, at |-> "idle", try |-> 0, ok |-> TRUE]
Progress == regd \in {"wait", "update", "unlock"}     \* regd_in_progress

AllOn == [p \in Parts |-> TRUE]
Loaded == [Fresh EXCEPT !.patch = Regions, !.patched = TRUE, !.ram = Regions, !.running = TRUE]

LifeInit ==
    /\ scene \in Scenes
    /\ chip = IF scene.up THEN Loaded ELSE Fresh
    /\ path = [AllOn EXCEPT !["worker"] = scene.up]
    /\ load = NoLoad /\ faults = scene.spent
    /\ pm = "up" /\ suspended = FALSE /\ regd = "idle" /\ mutex = "free"
    /\ work = Idle /\ full = FALSE /\ init = [at |-> IF scene.up THEN "done" ELSE "queued", try |-> 0]
    /\ done = scene.up /\ report = "idle" /\ removal = "no"
    /\ seen = [suspends |-> 0, raced |-> FALSE, late |-> FALSE, stranded |-> FALSE, refused |-> FALSE]

LifeTypeOK ==
    /\ FwTypeOK /\ scene \in Scenes
    /\ pm \in {"up", "flush", "cancel", "own", "regd", "hif", "quiet", "rx", "dma", "fw",
               "refused", "resume hif", "failed", "asleep", "wake", "hw", "napi", "wake hif", "update", "woken"}
    /\ {suspended, full, done} \subseteq BOOLEAN
    /\ regd \in {"idle", "tested", "wait", "update", "unlock"}
    /\ mutex \in {"free", "regd", "reset", "mac"}
    /\ work \in [queued : BOOLEAN, try : 0 .. Tries, ok : BOOLEAN,
                 at : {"idle", "lock", "own", "worker", "rx", "tx", "dma", "open", "down", "load",
                       "start", "out", "end", "clear", "ifaces"}]
    /\ init \in [at : {"queued", "own", "load", "config", "reset", "register", "finish", "done", "failed"},
                 try : 0 .. Tries]
    /\ report \in {"idle", "tested"}
    /\ removal \in {"no", "init", "unregister", "napi", "cancel", "own", "free", "gone"}
    /\ seen \in [suspends : 0 .. MaxSuspends, raced : BOOLEAN, late : BOOLEAN, stranded : BOOLEAN,
                refused : BOOLEAN]

-----------------------------------------------------------------------------
(* mt792x_reset: a reset is queued, unless the start-up is not over, one   *)
(* runs, or the system sleeps. AskReset is a caller's view of it.          *)
Queue == [work EXCEPT !.queued = TRUE]
AskReset == work' = IF done /\ ~full /\ ~suspended THEN Queue ELSE work

(* The coredump work and other reporters may be preempted in between: what *)
(* they tested may have changed when they queue the work.                  *)
PastFlush == pm \notin {"up", "flush"}

ReportTest ==
    /\ report = "idle" /\ done /\ ~full /\ ~suspended /\ removal # "gone" /\ Fault
    /\ report' = "tested"
    /\ UNCHANGED <<chip, path, load, scene, pm, suspended, regd, mutex, work, full, init, done,
                   removal, seen>>

ReportQueue ==
    /\ report = "tested" /\ report' = "idle" /\ work' = Queue
    /\ seen' = [seen EXCEPT !.raced = @ \/ PastFlush]
    /\ UNCHANGED <<fwvars, scene, pm, suspended, regd, mutex, full, init, done, removal>>

(* mt792x_wpdma_reinit_cond: a chip that lost its rings in sleep gets them *)
(* again, but interrupts stay off when the DMA engine does not come to     *)
(* rest; the callers do not look at the result.                            *)
Reinit == \/ path' = [path EXCEPT !["awake"] = TRUE] /\ UNCHANGED faults
          \/ path' = [path EXCEPT !["awake"] = TRUE, !["irq"] = FALSE, !["dma"] = FALSE,
                                  !["rings"] = FALSE] /\ Fault

(* mt792x_mcu_drv_pmctrl and mt792xe_mcu_drv_pmctrl: ten tries to own an   *)
(* awake chip, then an error.                                              *)
DrvOwn(good, bad) ==
    \/ path["awake"] /\ good /\ UNCHANGED <<path, faults, work>>
    \/ ~path["awake"] /\ good /\ Reinit /\ UNCHANGED work
    \/ ~path["awake"] /\ bad /\ Fault /\ AskReset /\ UNCHANGED path

-----------------------------------------------------------------------------
(* Runtime power management, in short: an idle chip dozes until somebody   *)
(* wants it (the module PowerMgmt has it in full).                         *)
Quiet == pm \in {"up", "flush"} /\ work.at = "idle" /\ mutex = "free" /\ done /\ removal = "no"

Doze ==
    /\ scene.doze /\ Quiet /\ ~suspended /\ path["awake"]
    /\ path' = [path EXCEPT !["awake"] = FALSE]
    /\ UNCHANGED <<chip, load, faults, scene, lifevars>>

WakeUp ==
    /\ ~path["awake"] /\ (pm \in {"up", "flush"} \/ ~suspended)
    /\ DrvOwn(TRUE, TRUE)
    /\ seen' = [seen EXCEPT !.stranded = @ \/ ~path'["rings"]]
    /\ UNCHANGED <<chip, load, scene, pm, suspended, regd, mutex, full, init, done, report, removal>>

-----------------------------------------------------------------------------
(* mt7921_regd_notifier. The flag suspended is tested before the mark      *)
(* regd_in_progress is made.                                               *)
RegdTest ==
    /\ scene.regd /\ regd = "idle" /\ ~suspended /\ regd' = "tested"
    /\ removal \in {"no", "init"} /\ init.at \in {"finish", "done"}
    /\ UNCHANGED <<fwvars, scene, pm, suspended, mutex, work, full, init, done, report, removal, seen>>

RegdMark ==
    /\ regd = "tested" /\ regd' = "wait"
    /\ UNCHANGED <<fwvars, scene, pm, suspended, mutex, work, full, init, done, report, removal, seen>>

(* mt792x_mutex_acquire: the mutex, and a chip that is awake, unless the   *)
(* system is being suspended or the chip does not wake.                    *)
RegdLock ==
    /\ regd = "wait" /\ mutex = "free" /\ mutex' = "regd" /\ regd' = "update"
    /\ UNCHANGED <<fwvars, scene, pm, suspended, work, full, init, done, report, removal, seen>>

RegdUpdate ==
    /\ regd = "update" /\ regd' = "unlock"
    /\ \/ Answered /\ UNCHANGED work
       \/ Unanswered /\ AskReset /\ (path["awake"] \/ suspended)
       \/ ~path["awake"] /\ ~suspended /\ Fault /\ AskReset
    /\ UNCHANGED <<chip, path, load, scene, pm, suspended, mutex, full, init, done, report, removal, seen>>

RegdDone ==
    /\ regd = "unlock" /\ regd' = "idle" /\ mutex' = "free"
    /\ UNCHANGED <<fwvars, scene, pm, suspended, work, full, init, done, report, removal, seen>>

RegdStep == RegdTest \/ RegdMark \/ RegdLock \/ RegdUpdate \/ RegdDone

-----------------------------------------------------------------------------
(* mt7921_pci_suspend. The PM core suspends a device that is not being     *)
(* removed, be its start-up over or not.                                   *)
Asleep == <<scene, regd, mutex, full, init, done, report, removal>>   \* not of pm
Off(parts) == path' = [p \in Parts |-> path[p] /\ p \notin parts]
On(parts) == path' = [p \in Parts |-> path[p] \/ p \in parts]

SuspendBegin ==
    /\ scene.suspend /\ pm = "up" /\ removal = "no" /\ seen.suspends < MaxSuspends
    /\ pm' = "flush" /\ suspended' = TRUE /\ seen' = [seen EXCEPT !.suspends = @ + 1]
    /\ UNCHANGED <<fwvars, work, Asleep>>

(* flush_work(reset_work): a reset that was queued or ran until now has    *)
(* cleared the flag suspended at its end.                                  *)
SuspendFlush_Not ==
    /\ pm = "flush" /\ pm' = "cancel"
    /\ seen' = [seen EXCEPT !.raced = @ \/ ~suspended]
    /\ UNCHANGED <<fwvars, suspended, work, Asleep>>

SuspendFlush ==
    /\ pm = "flush" /\ work.at = "idle" /\ ~work.queued /\ pm' = "cancel"
    /\ seen' = [seen EXCEPT !.raced = @ \/ ~suspended]
    /\ UNCHANGED <<fwvars, suspended, work, Asleep>>

(* ps_work, wake_work and the remain-on-channel are cancelled.             *)
SuspendCancel ==
    /\ pm = "cancel" /\ pm' = "own" /\ UNCHANGED <<fwvars, suspended, work, seen, Asleep>>

SuspendOwn ==
    /\ pm = "own" /\ DrvOwn(pm' = "regd", pm' = "failed")
    /\ UNCHANGED <<chip, load, suspended, seen, Asleep>>

(* wait_event_timeout(!regd_in_progress), for five seconds at most. An     *)
(* update that was only tested for is not seen.                            *)
SuspendRegd_NoWait ==
    /\ pm = "regd" /\ pm' = "hif"
    /\ seen' = [seen EXCEPT !.late = regd = "tested"]
    /\ UNCHANGED <<fwvars, suspended, work, Asleep>>

SuspendRegd ==
    /\ pm = "regd" /\ pm' = "hif" /\ ~Progress
    /\ seen' = [seen EXCEPT !.late = regd = "tested"]
    /\ UNCHANGED <<fwvars, suspended, work, Asleep>>

SuspendLate ==
    /\ pm = "regd" /\ pm' = "hif" /\ Progress /\ seen' = [seen EXCEPT !.late = TRUE]
    /\ UNCHANGED <<fwvars, suspended, work, Asleep>>

(* mt7921_mcu_radio_led_ctrl, which may not be sent, and                   *)
(* mt76_connac_mcu_set_hif_suspend: no answer is a negative error, a       *)
(* refusal of the firmware a positive one.                                 *)
SuspendHif ==
    /\ pm = "hif"
    /\ \/ Answered /\ pm' = "quiet" /\ chip' = [chip EXCEPT !.hif = TRUE] /\ UNCHANGED work
       \/ Alive /\ Fault /\ pm' = "refused" /\ UNCHANGED <<chip, work>>
       \/ Unanswered /\ pm' = "failed" /\ MayReach([chip EXCEPT !.hif = TRUE]) /\ AskReset
    /\ UNCHANGED <<path, load, suspended, seen, Asleep>>

SuspendTx ==
    /\ pm = "quiet" /\ path["tx"] /\ Off({"tx", "worker"}) /\ pm' = "rx"
    /\ UNCHANGED <<chip, load, faults, suspended, work, seen, Asleep>>

SuspendRx ==
    /\ pm = "rx" /\ path["rx"] /\ Off({"rx"}) /\ pm' = "dma"
    /\ UNCHANGED <<chip, load, faults, suspended, work, seen, Asleep>>

SuspendDma ==
    /\ pm = "dma" /\ Off({"dma", "irq"}) /\ pm' = "fw"
    /\ UNCHANGED <<chip, load, faults, suspended, work, seen, Asleep>>

(* mt792x_mcu_fw_pmctrl, and restore_napi when the chip refuses to sleep;  *)
(* a chip that somebody holds a reference to is left awake.                *)
SuspendFw ==
    /\ pm = "fw"
    /\ \/ pm' = "asleep" /\ (Off({"awake"}) \/ UNCHANGED path) /\ UNCHANGED <<faults, work>>
       \/ path["awake"] /\ Fault /\ pm' = "resume hif" /\ On({"rx", "tx"}) /\ AskReset
    /\ UNCHANGED <<chip, load, suspended, seen, Asleep>>

(* What this command comes to is not looked at: the suspend has failed.    *)
SuspendUnhif ==
    /\ pm = "resume hif" /\ pm' = "failed"
    /\ \/ Answered /\ chip' = [chip EXCEPT !.hif = FALSE] /\ UNCHANGED work
       \/ Unanswered /\ MayReach([chip EXCEPT !.hif = FALSE]) /\ AskReset
    /\ UNCHANGED <<path, load, suspended, seen, Asleep>>

(* restore_suspend, and the end of a resume that failed: a negative error  *)
(* asks for a reset, which is refused as long as the start-up is not over. *)
Strands == seen' = [seen EXCEPT !.stranded = @ \/ (pm = "failed" /\ ~done)]

SuspendEnd_NoReset ==
    /\ pm \in {"failed", "refused"} /\ pm' = "up" /\ suspended' = FALSE
    /\ Strands /\ UNCHANGED <<fwvars, work, Asleep>>

SuspendEnd ==
    /\ pm \in {"failed", "refused"} /\ pm' = "up" /\ suspended' = FALSE
    /\ work' = IF pm = "failed" /\ done /\ ~full THEN Queue ELSE work
    /\ Strands /\ UNCHANGED <<fwvars, Asleep>>

SuspendStep == \/ SuspendBegin \/ SuspendFlush \/ SuspendCancel \/ SuspendOwn \/ SuspendRegd \/ SuspendLate
               \/ SuspendHif \/ SuspendTx \/ SuspendRx \/ SuspendDma \/ SuspendFw
               \/ SuspendUnhif \/ SuspendEnd

-----------------------------------------------------------------------------
(* mt7921_pci_resume. One that cannot own the chip leaves its NAPIs off.   *)
ResumeOwn ==
    /\ pm = "asleep" /\ DrvOwn(pm' = "hw", pm' = "failed")
    /\ seen' = [seen EXCEPT !.stranded = pm' = "failed"]
    /\ UNCHANGED <<chip, load, suspended, Asleep>>

ResumeHw ==
    /\ pm = "hw" /\ On({"irq", "dma", "worker"}) /\ pm' = "napi"
    /\ UNCHANGED <<chip, load, faults, suspended, work, seen, Asleep>>

ResumeNapi ==
    /\ pm = "napi" /\ On({"rx", "tx"}) /\ pm' = "wake hif"
    /\ UNCHANGED <<chip, load, faults, suspended, work, seen, Asleep>>

(* Here a refusal, which is positive, passes for a success: the resume     *)
(* goes on and ends well, with the host interface suspended.               *)
ResumeHif ==
    /\ pm = "wake hif"
    /\ \/ /\ Answered /\ pm' = "update" /\ chip' = [chip EXCEPT !.hif = FALSE] /\ UNCHANGED work
          /\ seen' = [seen EXCEPT !.refused = FALSE]
       \/ /\ Alive /\ Fault /\ pm' = "update" /\ UNCHANGED <<chip, work>>
          /\ seen' = [seen EXCEPT !.refused = TRUE]
       \/ /\ Unanswered /\ pm' = "failed" /\ MayReach([chip EXCEPT !.hif = FALSE]) /\ AskReset
          /\ UNCHANGED seen
    /\ UNCHANGED <<path, load, suspended, Asleep>>

(* mt7921_regd_update, without the mutex and without looking at errors.    *)
ResumeUpdate ==
    /\ pm = "update" /\ pm' = "woken"
    /\ \/ Answered /\ UNCHANGED work
       \/ Unanswered /\ AskReset
    /\ UNCHANGED <<chip, path, load, suspended, seen, Asleep>>

(* mt7921_mcu_radio_led_ctrl, which awaits no answer, may not be sent.     *)
ResumeEnd ==
    /\ pm = "woken"
    /\ \/ pm' = "up" /\ suspended' = FALSE /\ UNCHANGED faults
       \/ pm' = "failed" /\ Fault /\ UNCHANGED suspended
    /\ UNCHANGED <<chip, path, load, work, seen, Asleep>>

ResumeStep == ResumeOwn \/ ResumeHw \/ ResumeNapi \/ ResumeHif \/ ResumeUpdate \/ ResumeEnd

-----------------------------------------------------------------------------
(* mt792x_wpdma_reset(force): rings emptied, chip reset, DMA stopped and   *)
(* started, rings filled again; a step that fails leaves the rest undone.  *)
WpdmaReset(p) ==
    \/ WfsysReset /\ path' = [p EXCEPT !["rings"] = ~chip'.stale, !["dma"] = @ \/ ~chip'.stale]
    \/ Fault /\ chip' = Fresh /\ path' = [p EXCEPT !["rings"] = FALSE, !["dma"] = FALSE]

(* mt7921_mac_reset_work and mt7921e_mac_reset.                            *)
Resetting == <<scene, pm, regd, init, done, report, removal>>        \* not of the reset
At(place) == work' = [work EXCEPT !.at = place]

ResetBegin ==
    /\ work.queued /\ work.at = "idle" /\ removal # "gone"
    /\ work' = [Idle EXCEPT !.at = "lock"] /\ full' = TRUE
    /\ UNCHANGED <<fwvars, suspended, mutex, seen, Resetting>>

ResetLock ==
    /\ work.at = "lock" /\ mutex = "free" /\ mutex' = "reset" /\ At("own")
    /\ UNCHANGED <<fwvars, suspended, full, seen, Resetting>>

(* The chip is owned, or not: the result is not looked at.                 *)
ResetOwn ==
    /\ work.at = "own" /\ At("worker")
    /\ \/ path' = [path EXCEPT !["irq"] = FALSE, !["awake"] = TRUE] /\ UNCHANGED faults
       \/ ~path["awake"] /\ Fault /\ Off({"irq"})
    /\ UNCHANGED <<chip, load, suspended, mutex, full, seen, Resetting>>

ResetWorker ==
    /\ work.at = "worker" /\ Off({"worker"}) /\ At("rx")
    /\ UNCHANGED <<chip, load, faults, suspended, mutex, full, seen, Resetting>>

(* napi_disable waits until the NAPI is not disabled by somebody else.     *)
ResetRx ==
    /\ work.at = "rx" /\ path["rx"] /\ Off({"rx"}) /\ At("tx")
    /\ UNCHANGED <<chip, load, faults, suspended, mutex, full, seen, Resetting>>

ResetTx ==
    /\ work.at = "tx" /\ path["tx"] /\ Off({"tx"}) /\ At("dma")
    /\ UNCHANGED <<chip, load, faults, suspended, mutex, full, seen, Resetting>>

ResetDma ==
    /\ work.at = "dma" /\ WpdmaReset(path) /\ At("open")
    /\ UNCHANGED <<load, suspended, mutex, full, seen, Resetting>>

ResetOpen ==
    /\ work.at = "open" /\ On({"rx", "irq"}) /\ At("down")
    /\ seen' = [seen EXCEPT !.stranded = FALSE, !.refused = FALSE]
    /\ UNCHANGED <<chip, load, faults, suspended, mutex, full, Resetting>>

ResetDown ==
    /\ work.at = "down" /\ UNCHANGED <<chip, path, suspended, mutex, full, seen, Resetting>>
    /\ \/ Call /\ At("load") /\ UNCHANGED faults
       \/ Fault /\ work' = [work EXCEPT !.at = "out", !.ok = FALSE] /\ UNCHANGED load

ResetLoaded ==
    /\ work.at = "load" /\ load.at = "done" /\ load' = [load EXCEPT !.at = "idle"]
    /\ work' = [work EXCEPT !.at = IF load.ok THEN "start" ELSE "out", !.ok = load.ok]
    /\ UNCHANGED <<chip, path, faults, suspended, mutex, full, seen, Resetting>>

(* mt7921_mcu_set_eeprom, mt7921_mac_init and __mt7921_start.              *)
ResetStart ==
    /\ work.at = "start"
    /\ \/ Answered /\ At("out")
       \/ Unanswered /\ work' = [work EXCEPT !.at = "out", !.ok = FALSE]
    /\ UNCHANGED <<chip, path, load, suspended, mutex, full, seen, Resetting>>

(* An attempt that fails is repeated; also the last gives all back.        *)
Again == [work EXCEPT !.at = "lock", !.try = @ + 1, !.ok = TRUE]

ResetOut_NotWhenFailed ==
    /\ work.at = "out" /\ On(IF work.ok THEN {"tx", "worker"} ELSE {}) /\ mutex' = "free"
    /\ IF ~work.ok /\ work.try + 1 < Tries THEN work' = Again ELSE At("end")
    /\ UNCHANGED <<chip, load, faults, suspended, full, seen, Resetting>>

ResetOut ==
    /\ work.at = "out" /\ On({"tx", "worker"}) /\ mutex' = "free"
    /\ IF ~work.ok /\ work.try + 1 < Tries THEN work' = Again ELSE At("end")
    /\ UNCHANGED <<chip, load, faults, suspended, full, seen, Resetting>>

ResetEnd ==
    /\ work.at = "end" /\ full' = FALSE /\ At("clear")
    /\ UNCHANGED <<fwvars, suspended, mutex, seen, Resetting>>

ResetClear ==
    /\ work.at = "clear" /\ suspended' = FALSE /\ At("ifaces")
    /\ seen' = [seen EXCEPT !.raced = @ \/ suspended]
    /\ UNCHANGED <<fwvars, mutex, full, Resetting>>

(* mt7921_vif_connect_iter, for every interface.                           *)
ResetIfaces ==
    /\ work.at = "ifaces"
    /\ \/ Answered /\ At("idle")
       \/ Unanswered /\ work' = [work EXCEPT !.at = "idle", !.queued = @ \/ ~suspended]
    /\ UNCHANGED <<chip, path, load, suspended, mutex, full, seen, Resetting>>

ResetStep == \/ ResetBegin \/ ResetLock \/ ResetOwn \/ ResetWorker \/ ResetRx \/ ResetTx
             \/ ResetDma \/ ResetOpen \/ ResetDown \/ ResetLoaded \/ ResetStart \/ ResetOut
             \/ ResetEnd \/ ResetClear \/ ResetIfaces

-----------------------------------------------------------------------------
(* mt7921_init_work: the hardware is initialised, with a chip reset after  *)
(* every attempt that fails, and the device is registered.                 *)
Starting == <<scene, pm, suspended, regd, mutex, work, full, report, removal, seen>>
Goes(place) == init' = [init EXCEPT !.at = place]

InitOwn ==
    /\ init.at \in {"queued", "own"} /\ UNCHANGED <<chip, path, done, Starting>>
    /\ \/ Goes("load") /\ Call /\ UNCHANGED faults
       \/ Goes("reset") /\ Fault /\ UNCHANGED load

InitLoaded ==
    /\ init.at = "load" /\ load.at = "done" /\ load' = [load EXCEPT !.at = "idle"]
    /\ Goes(IF load.ok THEN "config" ELSE "reset")
    /\ UNCHANGED <<chip, path, faults, done, Starting>>

InitConfig ==
    /\ init.at = "config" /\ UNCHANGED <<chip, path, load, done, Starting>>
    /\ \/ Answered /\ Goes("register")
       \/ Unanswered /\ Goes("reset")

InitReset_Not ==
    /\ init.at = "reset" /\ UNCHANGED <<chip, path, faults>>
    /\ init' = IF init.try + 1 = Tries THEN [init EXCEPT !.at = "failed"]
               ELSE [at |-> "own", try |-> init.try + 1]
    /\ UNCHANGED <<load, done, Starting>>

InitReset ==
    /\ init.at = "reset" /\ WpdmaReset(path)
    /\ init' = IF init.try + 1 = Tries THEN [init EXCEPT !.at = "failed"]
               ELSE [at |-> "own", try |-> init.try + 1]
    /\ UNCHANGED <<load, done, Starting>>

InitRegister ==
    /\ init.at = "register" /\ UNCHANGED <<chip, load, done, Starting>>
    /\ \/ Goes("finish") /\ On({"worker"}) /\ UNCHANGED faults
       \/ Goes("failed") /\ Fault /\ UNCHANGED path

InitFinish ==
    /\ init.at = "finish" /\ Goes("done") /\ done' = TRUE /\ UNCHANGED <<fwvars, Starting>>

InitStep == InitOwn \/ InitLoaded \/ InitConfig \/ InitReset \/ InitRegister \/ InitFinish

-----------------------------------------------------------------------------
(* mt7921_pci_remove and mt7921e_unregister_device.                        *)
Removing == <<scene, pm, suspended, regd, mutex, full, done, report>>
Next1(a, b) == removal = a /\ removal' = b

RemoveBegin ==
    /\ scene.remove /\ pm = "up" /\ Next1("no", "init")
    /\ init' = IF init.at = "queued" THEN [init EXCEPT !.at = "failed"] ELSE init
    /\ UNCHANGED <<fwvars, work, seen, Removing>>

RemoveInit ==
    /\ Next1("init", "unregister") /\ init.at \in {"done", "failed"}
    /\ UNCHANGED <<fwvars, work, init, seen, Removing>>

RemoveUnregister ==
    /\ Next1("unregister", "napi") /\ regd = "idle"
    /\ UNCHANGED <<fwvars, work, init, seen, Removing>>

(* The receive NAPIs go off for good: a reset that is queued or runs now   *)
(* will wait for them.                                                     *)
RemoveNapi ==
    /\ Next1("napi", "cancel") /\ path["rx"] /\ Off({"rx"})
    /\ UNCHANGED <<chip, load, faults, work, init, seen, Removing>>

RemoveCancel ==
    /\ Next1("cancel", "own") /\ work.at = "idle" /\ work' = [work EXCEPT !.queued = FALSE]
    /\ UNCHANGED <<fwvars, init, seen, Removing>>

RemoveOwn ==
    /\ Next1("own", "free")
    /\ \/ On({"awake"}) /\ UNCHANGED faults
       \/ ~path["awake"] /\ Fault /\ UNCHANGED path
    /\ UNCHANGED <<chip, load, work, init, seen, Removing>>

RemoveFree ==
    /\ Next1("free", "gone") /\ Off(Parts \ {"awake"}) /\ WfsysReset
    /\ UNCHANGED <<load, work, init, seen, Removing>>

RemoveStep == \/ RemoveBegin \/ RemoveInit \/ RemoveUnregister \/ RemoveNapi \/ RemoveCancel
              \/ RemoveOwn \/ RemoveFree

-----------------------------------------------------------------------------
Load == LoadStep /\ UNCHANGED <<scene, lifevars>>

LifeNext == \/ Load \/ ReportTest \/ ReportQueue \/ Doze \/ WakeUp \/ RegdStep
            \/ SuspendStep \/ ResumeStep \/ ResetStep \/ InitStep \/ RemoveStep

LifeSpec == LifeInit /\ [][LifeNext]_vars

-----------------------------------------------------------------------------
(* From suspend's flush of the reset work to the end of resume no reset    *)
(* runs and none is queued: the flag keeps new ones out. The exceptions    *)
(* are in the code: a reset that ends after suspend set the flag clears    *)
(* it, and a reporter may have tested the flag before                      *)
(* (mt7921_pci_suspend, mt792x_reset, mt7921_mac_reset_work).              *)
ResetExcluded ==
    PastFlush /\ ~seen.raced => suspended /\ ~work.queued /\ work.at = "idle"

(* The chip does not sleep under a regulatory update: suspend waits for    *)
(* one that has begun and none begins later, unless five seconds were not  *)
(* enough or the notifier was between its test and its mark                *)
(* (mt7921_regd_notifier, mt7921_pci_suspend).                             *)
RegdExcluded ==
    /\ pm \in {"quiet", "rx", "dma", "fw", "asleep", "hw", "napi"}
    /\ ~seen.raced /\ ~seen.late
    => regd = "idle"

(* The sleeping system is left alone, by resets and by updates alike.      *)
SleepExclusive == ResetExcluded /\ RegdExcluded

(* A NAPI is enabled only when it is disabled, and nobody waits for ever   *)
(* to disable one. The exceptions: the reset that follows a resume without *)
(* the chip's ownership, and one that runs while the driver is removed     *)
(* (mt7921e_mac_reset, mt7921_pci_suspend, mt7921e_unregister_device).     *)
NapiBalanced ==
    ~seen.raced /\ ~seen.stranded /\ removal \in {"no", "init", "unregister", "napi"} =>
        /\ pm = "napi" => ~path["rx"] /\ ~path["tx"]
        /\ work.at = "open" => ~path["rx"]
        /\ work.at = "out" => ~path["tx"]
        /\ work.at = "rx" \/ pm = "rx" => path["rx"]
        /\ work.at = "tx" \/ pm = "quiet" => path["tx"]

(* When suspend, resume and reset are over, however they ended, the data   *)
(* path is open again: NAPIs, worker and interrupts on and the host        *)
(* interface resumed, the firmware running unless the reset failed for     *)
(* good. The exceptions: a resume that asked for a reset and was not given *)
(* one (seen.stranded), and the host interface when the firmware refused   *)
(* to resume it, of which the code takes no notice                         *)
(* (mt7921_pci_suspend, mt7921_pci_resume, mt7921e_mac_reset).             *)
Settled == pm = "up" /\ work.at = "idle" /\ ~work.queued /\ done /\ removal = "no"

DataPathUp ==
    Settled /\ ~seen.raced /\ ~seen.stranded =>
        /\ \A p \in {"rx", "tx", "worker", "irq"} : path[p]
        /\ work.ok => path["dma"] /\ path["rings"] /\ chip.running /\ (chip.hif => seen.refused)
=============================================================================
