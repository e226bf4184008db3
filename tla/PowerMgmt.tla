------------------------------ MODULE PowerMgmt ------------------------------
(***************************************************************************)
(* Runtime power management: who may put the chip to sleep, and how the    *)
(* actors that touch it are kept from doing so while it sleeps             *)
(* (mt76_connac.h 345-428, mt76_connac_mac.c 36-147, mt792x_mac.c,         *)
(* mt792x_core.c 810-924, mt792x_dma.c 332-370, mt7921/mac.c 653-700,      *)
(* mt7921/main.c 598-660, mt7921/debugfs.c 144-175).                       *)
(*                                                                         *)
(*   clients  mt792x_tx, the NAPI polls and the tx worker: hold a wake     *)
(*            reference (pm->wake.count) while they touch the chip;        *)
(*   users    mt792x_mutex_acquire .. mt792x_mutex_release sections; the   *)
(*            watchdog mac_work is one of them, on a workqueue of its own; *)
(*   wq       the ordered workqueue dev->wq: ps_work (sleep), wake_work    *)
(*            (wake) and reset_work never overlap.                         *)
(*                                                                         *)
(* Time is one bit, "no activity for idle_timeout".  pm->mutex is taken    *)
(* only on dev->wq here, where it is never contended, and is left out.     *)
(***************************************************************************)
EXTENDS Integers, FiniteSets

CONSTANTS
    RxPolls,     \* receive NAPI polls (mt792x_poll_rx)
    TxPolls,     \* the transmit NAPI poll and the tx worker
    Txs,         \* threads in mt792x_tx
    Users,       \* threads that use mt792x_mutex_acquire
    Mac,         \* the one of them that runs mac_work
    Acs,         \* hardware queues with a pm->tx_q slot
    Nobody,      \* dev->mutex is free
    Reset,       \* dev->mutex is held by reset_work
    MaxTries     \* chip resets attempted by one reset_work (10 in the code)

Polls   == RxPolls \cup TxPolls
Clients == Polls \cup Txs

ASSUME MacAssumption     == Mac \in Users
ASSUME ClientsAssumption ==
    IsFiniteSet(Clients) /\ RxPolls \cap TxPolls = {} /\ Polls \cap Txs = {}
ASSUME HolderAssumption  == Nobody \notin Users /\ Reset \notin Users /\ Nobody # Reset
ASSUME TriesAssumption   == MaxTries \in Nat \ {0}

VARIABLES
    pm,        \* MT76_STATE_PM: the chip sleeps, or is being put to sleep
    own,       \* who owns the chip: "driver" or "fw"
    count,     \* pm->wake.count
    client,    \* clients: "idle", "hold" a reference, or "miss"ed it
    resched,   \* polls, and the worker, that are scheduled
    tokens,    \* dev->token_count is not zero
    txq,       \* pm->tx_q slots that hold an skb
    stopped,   \* the mac80211 queues are stopped
    enable,    \* pm->enable
    switch,    \* what pm->enable is made of, see Switches below
    idle,      \* last_activity + idle_timeout has passed
    mutex,     \* dev->mutex
    user,      \* program counters of the users
    pending,   \* works that are queued or whose timer runs
    cancel,    \* per work, who is inside cancel_(delayed_)work_sync on it
    wq,        \* what dev->wq is executing
    tries,     \* failed attempts of the running reset_work
    hwreset,   \* dev->hw_full_reset
    dead       \* the last chip reset failed

vars == <<pm, own, count, client, resched, tokens, txq, stopped, enable, switch,
          idle, mutex, user, pending, cancel, wq, tries, hwreset, dead>>

-----------------------------------------------------------------------------
Works == {"ps", "wake", "reset", "mac"}
PsPc  == {"ps_check", "ps_idle", "ps_tokens", "ps_lock", "ps_own",
          "ps_mac", "ps_macwait"}
WkPc  == {"wk_own", "wk_clear", "wk_dequeue", "wk_queues"}
RsPc  == {"rs_mac", "rs_macwait", "rs_ps", "rs_lock", "rs_own",
          "rs_drain", "rs_dma", "rs_fw", "rs_end"}
UserPc == {"idle", "lock", "cancel", "sync", "test", "wait", "crit", "requeue"}

(* What a user does in its section: change pm->enable_user (the debugfs    *)
(* file runtime-pm), follow a change of IEEE80211_CONF_MONITOR             *)
(* (mt7921_config), or nothing that pm->enable depends on.                 *)
Tasks == {"switch", "monitor", "none"}

(* pm->enable_user, IEEE80211_CONF_MONITOR, and a history variable: a      *)
(* ps_work was queued when mt7921_config cleared pm->enable, and has       *)
(* neither been cancelled nor ended since.                                 *)
Switches == [user : BOOLEAN, monitor : BOOLEAN, late : BOOLEAN]
Cancellers == Users \cup {"ps", "reset"}

(* queue_work / queue_delayed_work: refused while the work is cancelled.   *)
Queue(p, w) == IF cancel[w] = {} THEN p \cup {w} ELSE p

(* mt792x_reset: not during a reset.                                       *)
QueueReset(p) == IF hwreset THEN p ELSE Queue(p, "reset")

(* mt76_connac_power_save_sched, given pm->enable: the works pending after *)
(* it.  It also refreshes last_activity.                                   *)
Sched(p, en) == IF en /\ ~pm THEN Queue(p \ {"mac"}, "ps") ELSE p

Init ==
    /\ pm = FALSE /\ own = "driver" /\ count = 0 /\ tokens = FALSE
    /\ client = [c \in Clients |-> "idle"] /\ resched = {}
    /\ txq = {} /\ stopped = FALSE /\ enable = TRUE /\ idle = FALSE
    /\ switch = [user |-> TRUE, monitor |-> FALSE, late |-> FALSE]
    /\ mutex = Nobody
    /\ user = [u \in Users |-> [pc |-> "idle", ok |-> FALSE, task |-> "none"]]
    /\ pending = {"ps", "mac"}
    /\ cancel = [w \in Works |-> {}]
    /\ wq = "idle" /\ tries = 0 /\ hwreset = FALSE /\ dead = FALSE

(* Groups of variables that most actions leave alone.                      *)
chip   == <<pm, own>>
data   == <<tokens, txq, stopped>>
refs   == <<count, client, resched>>
timing == <<enable, switch, idle>>
locks  == <<mutex, user>>
works  == <<pending, cancel>>
reset  == <<tries, hwreset, dead>>

-----------------------------------------------------------------------------
(* Clients.                                                                *)

(* Drained by a reset: the receive polls until its DMA reset, the transmit *)
(* poll and the worker until its end.                                      *)
Disabled(c) == \/ wq = "rs_dma" /\ c \in Polls
               \/ wq = "rs_fw" /\ c \in TxPolls

(* mt76_connac_pm_ref, under pm->wake.lock.                                *)
PmRef(c) ==
    /\ client[c] = "idle"
    /\ ~Disabled(c)
    /\ IF pm THEN /\ client' = [client EXCEPT ![c] = "miss"]
                  /\ UNCHANGED count
             ELSE /\ client' = [client EXCEPT ![c] = "hold"]
                  /\ count' = count + 1
    /\ resched' = resched \ {c}
    /\ UNCHANGED <<chip, data, timing, locks, works, wq, reset>>

(* While it holds a reference, the worker puts frames on the hardware, each *)
(* with a token, and a receive poll may take the last token back.          *)
Transmit(c) ==
    /\ c \in TxPolls /\ client[c] = "hold" /\ tokens' = TRUE
    /\ UNCHANGED <<chip, refs, txq, stopped, timing, locks, works, wq, reset>>

TxFree(c) ==
    /\ c \in RxPolls /\ client[c] = "hold" /\ tokens' = FALSE
    /\ UNCHANGED <<chip, refs, txq, stopped, timing, locks, works, wq, reset>>

(* (PmUnref_AfterMiss, PsLock_NoCount and the other names with an underscore *)
(* are the same step with a bug, for checking that the properties notice.) *)
PmUnref_AfterMiss(c) ==
    /\ client[c] # "idle"
    /\ client' = [client EXCEPT ![c] = "idle"]
    /\ count' = count - 1
    /\ idle' = FALSE
    /\ pending' = IF count' = 0 THEN Sched(pending, enable) ELSE pending
    /\ UNCHANGED <<chip, resched, data, enable, switch, locks, cancel, wq, reset>>

(* mt76_connac_pm_unref, under pm->wake.lock.  Before it mt792x_tx hands   *)
(* its frame to mt76_tx, which schedules the worker.  (It also tests       *)
(* MT76_STATE_MCU_RUNNING, which nothing clears once the firmware runs.)   *)
PmUnref(c) ==
    /\ client[c] = "hold"
    /\ client' = [client EXCEPT ![c] = "idle"]
    /\ count' = count - 1
    /\ resched' = IF c \in Txs THEN resched \cup TxPolls ELSE resched
    /\ idle' = FALSE
    /\ pending' = IF count' = 0 THEN Sched(pending, enable) ELSE pending
    /\ UNCHANGED <<chip, data, enable, switch, locks, cancel, wq, reset>>

(* A poll or the worker that finds the chip asleep queues wake_work.       *)
PollKick(c) ==
    /\ c \in Polls /\ client[c] = "miss"
    /\ client' = [client EXCEPT ![c] = "idle"]
    /\ pending' = Queue(pending, "wake")
    /\ UNCHANGED <<chip, count, resched, data, timing, locks, cancel, wq, reset>>

(* mt76_connac_pm_queue_skb: one parked skb per queue, the others dropped. *)
PmQueueSkb(c, ac) ==
    /\ c \in Txs /\ client[c] = "miss"
    /\ client' = [client EXCEPT ![c] = "idle"]
    /\ txq' = txq \cup {ac}
    /\ IF ac \in txq THEN UNCHANGED <<stopped, pending>>
       ELSE stopped' = TRUE /\ pending' = Queue(pending, "wake")
    /\ UNCHANGED <<chip, count, resched, tokens, timing, locks, cancel, wq, reset>>

-----------------------------------------------------------------------------
(* Users: mt792x_mutex_acquire, the section, mt792x_mutex_release.         *)

(* mac_work starts on the mac80211 workqueue.                              *)
MacStart ==
    /\ "mac" \in pending /\ user[Mac].pc = "idle"
    /\ pending' = pending \ {"mac"}
    /\ user' = [user EXCEPT ![Mac].pc = "lock"]
    /\ UNCHANGED <<chip, refs, data, timing, mutex, cancel, wq, reset>>

(* mac80211 changes IEEE80211_CONF_MONITOR and calls mt7921_config; it has *)
(* one such call at a time.                                                *)
Config(u) ==
    /\ u # Mac /\ user[u].pc = "idle"
    /\ \A v \in Users : user[v].task # "monitor"
    /\ switch' = [switch EXCEPT !.monitor = ~@]
    /\ user' = [user EXCEPT ![u].pc = "lock", ![u].task = "monitor"]
    /\ UNCHANGED <<chip, refs, data, enable, idle, mutex, works, wq, reset>>

(* mutex_lock.  The debugfs file clears pm->enable before it wakes the     *)
(* chip.                                                                   *)
Lock_StillEnabled(u, task) ==
    /\ \/ user[u].pc = "lock" /\ task = user[u].task
       \/ user[u].pc = "idle" /\ u # Mac /\ task # "monitor"
    /\ mutex = Nobody
    /\ mutex' = u
    /\ user' = [user EXCEPT ![u] = [pc |-> "cancel", ok |-> FALSE, task |-> task]]
    /\ UNCHANGED <<chip, refs, data, timing, works, wq, reset>>

Lock(u, task) ==
    /\ \/ user[u].pc = "lock" /\ task = user[u].task
       \/ user[u].pc = "idle" /\ u # Mac /\ task # "monitor"
    /\ mutex = Nobody
    /\ mutex' = u
    /\ user' = [user EXCEPT ![u] = [pc |-> "cancel", ok |-> FALSE, task |-> task]]
    /\ enable' = (enable /\ task # "switch")
    /\ UNCHANGED <<chip, refs, data, switch, idle, works, wq, reset>>

(* mt76_connac_pm_wake: cancel_delayed_work_sync(&pm->ps_work) ...         *)
WakeCancelPs(u) ==
    /\ user[u].pc = "cancel"
    /\ user' = [user EXCEPT ![u].pc = "sync"]
    /\ pending' = pending \ {"ps"}
    /\ cancel' = [cancel EXCEPT !["ps"] = @ \cup {u}]
    /\ UNCHANGED <<chip, refs, data, timing, mutex, wq, reset>>

WakeSyncPs_NoWait(u) ==
    /\ user[u].pc = "sync"
    /\ user' = [user EXCEPT ![u].pc = "test"]
    /\ cancel' = [cancel EXCEPT !["ps"] = @ \ {u}]
    /\ switch' = [switch EXCEPT !.late = FALSE]
    /\ UNCHANGED <<chip, refs, data, enable, idle, mutex, pending, wq, reset>>

WakeSyncPs(u) ==
    /\ user[u].pc = "sync"
    /\ wq \notin PsPc
    /\ user' = [user EXCEPT ![u].pc = "test"]
    /\ cancel' = [cancel EXCEPT !["ps"] = @ \ {u}]
    /\ switch' = [switch EXCEPT !.late = FALSE]
    /\ UNCHANGED <<chip, refs, data, enable, idle, mutex, pending, wq, reset>>

(* ... then nothing more if the chip is awake, else queue wake_work ...    *)
WakeTest(u) ==
    /\ user[u].pc = "test"
    /\ IF pm THEN /\ user' = [user EXCEPT ![u].pc = "wait"]
                  /\ pending' = Queue(pending, "wake")
             ELSE /\ user' = [user EXCEPT ![u].pc = "crit", ![u].ok = TRUE]
                  /\ UNCHANGED pending
    /\ UNCHANGED <<chip, refs, data, timing, mutex, cancel, wq, reset>>

(* ... and wait for it, ...                                                *)
WakeDone(u) ==
    /\ user[u].pc = "wait" /\ ~pm
    /\ user' = [user EXCEPT ![u].pc = "crit", ![u].ok = TRUE]
    /\ UNCHANGED <<chip, refs, data, timing, mutex, works, wq, reset>>

WakeTimeout_Never(u) == FALSE /\ UNCHANGED vars

(* ... at most three seconds; the caller ignores the error.                *)
WakeTimeout(u) ==
    /\ user[u].pc = "wait" /\ pm
    /\ user' = [user EXCEPT ![u].pc = "crit"]
    /\ stopped' = FALSE
    /\ UNCHANGED <<chip, refs, tokens, txq, timing, mutex, works, wq, reset>>

(* pm->enable is made again: mt7921_set_runtime_pm after the debugfs file  *)
(* has changed pm->enable_user (it does nothing unless the value is new),  *)
(* and mt7921_sniffer_interface_iter.  ps_work may be queued by then.      *)
SetEnable(u) ==
    /\ user[u].pc = "crit" /\ user[u].task # "none"
    /\ LET on == IF user[u].task = "switch" THEN ~switch.user ELSE switch.user
       IN  /\ enable' = (on /\ ~switch.monitor)
           /\ switch' = [switch EXCEPT
                 !.user = on,
                 !.late = enable /\ ~enable' /\ ("ps" \in pending \/ wq \in PsPc)]
    /\ user' = [user EXCEPT ![u].task = "none"]
    /\ UNCHANGED <<chip, refs, data, idle, mutex, works, wq, reset>>

Release_NoSched(u) ==
    /\ user[u].pc = "crit" /\ user[u].task # "switch"
    /\ mutex' = Nobody
    /\ user' = [user EXCEPT ![u] =
                  [pc |-> IF u = Mac THEN "requeue" ELSE "idle",
                   ok |-> FALSE, task |-> "none"]]
    /\ UNCHANGED <<chip, refs, data, timing, works, wq, reset>>

(* mt76_connac_power_save_sched and mutex_unlock.  mt7921_config gets here *)
(* without SetEnable when it fails or finds no active interface.           *)
Release(u) ==
    /\ user[u].pc = "crit" /\ user[u].task # "switch"
    /\ idle' = (idle /\ ~enable)
    /\ pending' = Sched(pending, enable)
    /\ mutex' = Nobody
    /\ user' = [user EXCEPT ![u] =
                  [pc |-> IF u = Mac THEN "requeue" ELSE "idle",
                   ok |-> FALSE, task |-> "none"]]
    /\ UNCHANGED <<chip, refs, data, enable, switch, cancel, wq, reset>>

(* mac_work queues itself again and ends.                                  *)
MacRequeue ==
    /\ user[Mac].pc = "requeue"
    /\ user' = [user EXCEPT ![Mac].pc = "idle"]
    /\ pending' = Queue(pending, "mac")
    /\ UNCHANGED <<chip, refs, data, timing, mutex, cancel, wq, reset>>

-----------------------------------------------------------------------------
(* cancel_delayed_work_sync(&mphy->mac_work) from a work of dev->wq, in    *)
(* its two halves.                                                         *)
CancelMac(by, from, to) ==
    /\ wq = from /\ wq' = to
    /\ pending' = pending \ {"mac"}
    /\ cancel' = [cancel EXCEPT !["mac"] = @ \cup {by}]
    /\ UNCHANGED <<chip, refs, data, timing, locks, reset>>

SyncMac(by, from, to) ==
    /\ wq = from /\ wq' = to
    /\ user[Mac].pc = "idle"
    /\ cancel' = [cancel EXCEPT !["mac"] = @ \ {by}]
    /\ UNCHANGED <<chip, refs, data, enable, idle, locks, pending, reset>>

(* ps_work: mt792x_pm_power_save_work.                                     *)
PsStart ==
    /\ wq = "idle" /\ "ps" \in pending
    /\ wq' = "ps_check" /\ pending' = pending \ {"ps"}
    /\ UNCHANGED <<chip, refs, data, timing, locks, cancel, reset>>

PsOut == wq' = "idle" /\ pending' = Queue(pending, "ps")

(* Scanning or a firmware assert (either may be so), or the mutex is held: *)
(* not now.                                                                *)
PsCheck ==
    /\ wq = "ps_check"
    /\ \/ PsOut
       \/ mutex = Nobody /\ wq' = "ps_idle" /\ UNCHANGED pending
    /\ UNCHANGED <<chip, refs, data, timing, locks, cancel, reset>>

PsIdle ==
    /\ wq = "ps_idle"
    /\ IF idle THEN wq' = "ps_tokens" /\ UNCHANGED pending ELSE PsOut
    /\ UNCHANGED <<chip, refs, data, timing, locks, cancel, reset>>

(* mt76_connac_skip_fw_pmctrl: the token count outside any lock ...        *)
PsTokens ==
    /\ wq = "ps_tokens"
    /\ wq' = IF tokens THEN "ps_mac" ELSE "ps_lock"
    /\ UNCHANGED <<chip, refs, data, timing, locks, works, reset>>

(* ... then count and MT76_STATE_PM under pm->wake.lock.                   *)
PsLock_NoCount ==
    /\ wq = "ps_lock"
    /\ IF pm THEN wq' = "ps_mac" /\ UNCHANGED pm
             ELSE wq' = "ps_own" /\ pm' = TRUE
    /\ UNCHANGED <<own, refs, data, timing, locks, works, reset>>

PsLock ==
    /\ wq = "ps_lock"
    /\ IF count > 0 \/ pm THEN wq' = "ps_mac" /\ UNCHANGED pm
                          ELSE wq' = "ps_own" /\ pm' = TRUE
    /\ UNCHANGED <<own, refs, data, timing, locks, works, reset>>

(* mt792xe_mcu_fw_pmctrl hands the chip to the firmware.                   *)
PsOwn ==
    /\ wq = "ps_own"
    /\ own' = "fw" /\ wq' = "ps_mac"
    /\ UNCHANGED <<pm, refs, data, timing, locks, works, reset>>

(* The firmware does not answer: who owns the chip is then unknown.        *)
PsOwnFail ==
    /\ wq = "ps_own"
    /\ own' \in {"driver", "fw"} /\ pm' = FALSE
    /\ wq' = "idle"
    /\ pending' = QueueReset(Queue(pending, "ps"))
    /\ UNCHANGED <<refs, data, timing, locks, cancel, reset>>

PsMac     == CancelMac("ps", "ps_mac", "ps_macwait")
PsMacWait ==
    /\ SyncMac("ps", "ps_macwait", "idle")
    /\ switch' = [switch EXCEPT !.late = @ /\ "ps" \in pending]

-----------------------------------------------------------------------------
(* wake_work: mt792x_pm_wake_work.                                         *)
WkStart ==
    /\ wq = "idle" /\ "wake" \in pending
    /\ wq' = "wk_own" /\ pending' = pending \ {"wake"}
    /\ UNCHANGED <<chip, refs, data, timing, locks, cancel, reset>>

(* mt792x_mcu_drv_pmctrl: nothing to do if awake, else take ownership ...  *)
WkOwn ==
    /\ wq = "wk_own"
    /\ IF pm THEN own' = "driver" /\ wq' = "wk_clear"
             ELSE wq' = "wk_dequeue" /\ UNCHANGED own
    /\ UNCHANGED <<pm, refs, data, timing, locks, works, reset>>

WkOwnFail_GoOn ==
    /\ wq = "wk_own" /\ pm
    /\ wq' = "wk_dequeue" /\ pending' = QueueReset(pending)
    /\ UNCHANGED <<chip, refs, data, timing, locks, cancel, reset>>

WkOwnFail ==
    /\ wq = "wk_own" /\ pm
    /\ wq' = "wk_queues" /\ pending' = QueueReset(pending)
    /\ UNCHANGED <<chip, refs, data, timing, locks, cancel, reset>>

(* ... and, after the rings were set up again, clear MT76_STATE_PM.        *)
WkClear ==
    /\ wq = "wk_clear" /\ wq' = "wk_dequeue" /\ pm' = FALSE
    /\ UNCHANGED <<own, refs, data, timing, locks, works, reset>>

(* Schedule the polls, send the parked skbs, schedule the tx worker, and   *)
(* queue mac_work.                                                         *)
WkDequeue_NoFrames ==
    /\ wq = "wk_dequeue" /\ wq' = "wk_queues"
    /\ resched' = Polls /\ pending' = Queue(pending, "mac")
    /\ UNCHANGED <<chip, count, client, data, timing, locks, cancel, reset>>

WkDequeue ==
    /\ wq = "wk_dequeue" /\ wq' = "wk_queues"
    /\ txq' = {} /\ resched' = Polls /\ pending' = Queue(pending, "mac")
    /\ UNCHANGED <<chip, count, client, tokens, stopped, timing, locks, cancel, reset>>

WkQueues_Forget ==
    /\ wq = "wk_queues" /\ wq' = "idle"
    /\ UNCHANGED <<chip, refs, data, timing, locks, works, reset>>

WkQueues ==
    /\ wq = "wk_queues" /\ wq' = "idle" /\ stopped' = FALSE
    /\ UNCHANGED <<chip, refs, tokens, txq, timing, locks, works, reset>>

-----------------------------------------------------------------------------
(* reset_work: mt7921_mac_reset_work.                                      *)
RsStart ==
    /\ wq = "idle" /\ "reset" \in pending
    /\ wq' = "rs_mac" /\ pending' = pending \ {"reset"}
    /\ hwreset' = TRUE /\ stopped' = TRUE
    /\ UNCHANGED <<chip, refs, tokens, txq, timing, locks, cancel, tries, dead>>

RsMac     == CancelMac("reset", "rs_mac", "rs_macwait")
RsMacWait == SyncMac("reset", "rs_macwait", "rs_ps") /\ UNCHANGED switch

(* Cancel ps_work and wake_work, which cannot be running here.             *)
RsPs ==
    /\ wq = "rs_ps" /\ wq' = "rs_lock"
    /\ pending' = pending \ {"ps", "wake"}
    /\ switch' = [switch EXCEPT !.late = FALSE]
    /\ UNCHANGED <<chip, refs, data, enable, idle, locks, cancel, reset>>

RsLock ==
    /\ wq = "rs_lock" /\ wq' = "rs_own"
    /\ mutex = Nobody /\ mutex' = Reset
    /\ UNCHANGED <<chip, refs, data, timing, user, works, reset>>

(* mt7921e_mac_reset: take ownership, whatever the outcome, free the       *)
(* parked skbs, ...                                                        *)
RsOwn ==
    /\ wq = "rs_own" /\ wq' = "rs_drain"
    /\ \/ own' = "driver" /\ pm' = FALSE
       \/ UNCHANGED chip
    /\ txq' = {}
    /\ UNCHANGED <<refs, tokens, stopped, timing, locks, works, reset>>

(* ... wait for the polls and the worker, give back the tokens, ...        *)
RsDrain ==
    /\ wq = "rs_drain" /\ wq' = "rs_dma"
    /\ \A c \in Polls : client[c] = "idle"
    /\ tokens' = FALSE
    /\ UNCHANGED <<chip, refs, txq, stopped, timing, locks, works, reset>>

(* ... reset the rings and let the receive polls run again, ...            *)
RsDma ==
    /\ wq = "rs_dma" /\ wq' = "rs_fw"
    /\ resched' = resched \cup RxPolls
    /\ UNCHANGED <<chip, count, client, data, timing, locks, works, reset>>

(* ... restart the firmware and enable the rest; again if that failed.     *)
RsFw ==
    /\ wq = "rs_fw"
    /\ mutex' = Nobody /\ resched' = resched \cup TxPolls
    /\ \/ own' = "driver" /\ dead' = FALSE /\ wq' = "rs_end" /\ UNCHANGED tries
       \/ /\ tries' = tries + 1 /\ UNCHANGED own
          /\ IF tries' < MaxTries THEN wq' = "rs_lock" /\ UNCHANGED dead
                                  ELSE wq' = "rs_end" /\ dead' = TRUE
    /\ UNCHANGED <<pm, count, client, data, timing, user, works, hwreset>>

RsEnd ==
    /\ wq = "rs_end" /\ wq' = "idle"
    /\ hwreset' = FALSE /\ stopped' = FALSE /\ tries' = 0
    /\ idle' = (idle /\ ~enable) /\ pending' = Sched(pending, enable)
    /\ UNCHANGED <<chip, refs, tokens, txq, enable, switch, locks, cancel, dead>>

(* idle_timeout passes without activity.                                   *)
IdleTimeout ==
    /\ ~idle /\ idle' = TRUE
    /\ UNCHANGED <<chip, refs, data, enable, switch, locks, works, wq, reset>>

-----------------------------------------------------------------------------
Client(c) == \/ PmRef(c) \/ Transmit(c) \/ TxFree(c) \/ PmUnref(c) \/ PollKick(c)
             \/ \E ac \in Acs : PmQueueSkb(c, ac)
Wake(u)   == WakeCancelPs(u) \/ WakeSyncPs(u) \/ WakeTest(u) \/ WakeDone(u)
                 \/ WakeTimeout(u)
User(u)   == \/ Config(u)
             \/ \E task \in Tasks : Lock(u, task)
             \/ Wake(u)
             \/ SetEnable(u) \/ Release(u)
PsRun     == PsCheck \/ PsIdle \/ PsTokens \/ PsLock \/ PsOwn \/ PsOwnFail
                 \/ PsMac \/ PsMacWait
WkRun     == WkOwn \/ WkOwnFail \/ WkClear \/ WkDequeue \/ WkQueues
RsRun     == RsMac \/ RsMacWait \/ RsPs \/ RsLock \/ RsOwn \/ RsDrain
                 \/ RsDma \/ RsFw \/ RsEnd

Next == \/ \E c \in Clients : Client(c)
        \/ \E u \in Users : User(u)
        \/ MacStart \/ MacRequeue
        \/ PsStart \/ PsRun \/ WkStart \/ WkRun \/ RsStart \/ RsRun
        \/ IdleTimeout

Spec == Init /\ [][Next]_vars
(* Works run, locks are handed on, waits end, timers fire, and whoever     *)
(* holds a reference or the mutex lets go of it.  dev->wq runs its works   *)
(* in the order they were queued, and mutexes are handed to waiters, hence *)
(* the strong fairness of starting a work and of taking the mutex.         *)
Fairness ==
    /\ SF_vars(PsStart) /\ SF_vars(WkStart) /\ SF_vars(RsStart)
    /\ WF_vars(PsRun) /\ WF_vars(WkRun) /\ WF_vars(RsRun) /\ SF_vars(RsLock)
    /\ WF_vars(MacStart) /\ SF_vars(Lock(Mac, "none")) /\ WF_vars(MacRequeue)
    /\ \A u \in Users : WF_vars(Wake(u)) /\ WF_vars(SetEnable(u) \/ Release(u))
    /\ \A c \in Clients : WF_vars(client[c] # "idle" /\ Client(c))
    /\ \A c \in Polls : WF_vars(c \in resched /\ PmRef(c))

FairSpec == Spec /\ Fairness

-----------------------------------------------------------------------------
TypeOK ==
    /\ pm \in BOOLEAN /\ own \in {"driver", "fw"} /\ count \in Nat
    /\ client \in [Clients -> {"idle", "hold", "miss"}]
    /\ resched \in SUBSET Polls /\ tokens \in BOOLEAN
    /\ txq \in SUBSET Acs /\ stopped \in BOOLEAN
    /\ enable \in BOOLEAN /\ switch \in Switches /\ idle \in BOOLEAN
    /\ mutex \in Users \cup {Nobody, Reset}
    /\ user \in [Users -> [pc : UserPc, ok : BOOLEAN, task : Tasks]]
    /\ pending \in SUBSET Works
    /\ cancel \in [Works -> SUBSET Cancellers]
    /\ wq \in {"idle"} \cup PsPc \cup WkPc \cup RsPc
    /\ tries \in 0 .. MaxTries /\ hwreset \in BOOLEAN /\ dead \in BOOLEAN

(* A reset is due or under way, or the last one failed: the firmware did   *)
(* not answer a request for ownership and nothing can be relied on.        *)
Recovering == dead \/ "reset" \in pending \/ wq \in RsPc \ {"rs_end"}
Awake      == ~pm /\ (own = "driver" \/ Recovering)

(* Whoever holds a wake reference finds the chip awake and the driver its  *)
(* owner, for as long as it holds it: ps_work tests the count and sets     *)
(* MT76_STATE_PM in one critical section.                                  *)
RefAwake == \A c \in Clients : client[c] = "hold" => Awake

(* A user whose pm_wake succeeded finds the chip awake until it releases   *)
(* the mutex, although ps_work tests the mutex long before it sets         *)
(* MT76_STATE_PM: cancelling ps_work synchronously closes the gap.         *)
MutexAwake == \A u \in Users : user[u].pc = "crit" /\ user[u].ok => Awake

(* wake_work sends the parked skbs to an awake chip, relying on the        *)
(* ordering of dev->wq alone (it holds no reference).                      *)
DequeueAwake == wq = "wk_dequeue" => Awake

(* Nobody who was told that the chip is awake touches it asleep: holders   *)
(* of a wake reference, holders of the mutex that woke it, and wake_work,  *)
(* each of which relies on another rule (mt76_connac_pm_ref,               *)
(* mt76_connac_mutex_acquire, mt76_connac_pm_dequeue_skbs).  By TypeOK no  *)
(* reference is given back twice, which would let ps_work in too early.    *)
ChipAwake == TypeOK /\ RefAwake /\ MutexAwake /\ DequeueAwake

(* A parked skb always has a wake_work, or a reset, coming to take it.     *)
ParkedHasWaker ==
    txq # {} => \/ "wake" \in pending \/ wq \in {"wk_own", "wk_clear", "wk_dequeue"}
                \/ Recovering

(* Stopped mac80211 queues always have somebody who will wake them.        *)
StoppedHasWaker ==
    stopped => "wake" \in pending \/ wq \in WkPc \cup RsPc

(* An awake chip always has something that will let it sleep again: ps_work *)
(* queued or running, or somebody active whose last act is to schedule it. *)
AwakeHasSleeper ==
    enable /\ ~pm /\ ~Recovering =>
        \/ "ps" \in pending \/ wq \in PsPc \cup WkPc \cup RsPc \/ resched # {}
        \/ tokens \/ count > 0 \/ mutex \in Users

(* Nothing that waits for the chip is forgotten, and neither is the chip:  *)
(* each of the three has somebody queued or running who will see to it,    *)
(* also after a wake-up that failed (mt792x_pm_wake_work,                  *)
(* mt792x_pm_power_save_work).                                             *)
NobodyForgotten == ParkedHasWaker /\ StoppedHasWaker /\ AwakeHasSleeper

(* With pm->enable clear the chip is put to sleep only by a ps_work that   *)
(* was queued before.  Switching runtime power management off in debugfs   *)
(* leaves none behind: pm->enable is cleared before the chip is woken, and *)
(* the switch waits for a ps_work already past its tests.  mt7921_config   *)
(* clears it after, when a poll may have queued ps_work again: that one,   *)
(* until somebody cancels it, is the only one that sleeps with the monitor *)
(* on.                                                                     *)
Switching(u) == user[u].task = "switch" /\ user[u].pc \in {"cancel", "sync"}

SleepOnlyEnabled ==
    [][~pm /\ pm' => \/ enable
                     \/ \E u \in Users : Switching(u)
                     \/ switch.user /\ switch.late]_vars

(* mt792x_mac.c:365: "if mt76 mutex is held we should not put the device   *)
(* to sleep since we are currently accessing device register map".         *)
SleepOnlyUnlocked == [][~pm /\ pm' => mutex = Nobody]_vars

(* ps_work waits for mac_work to end, mac_work is running (it may be       *)
(* waiting for the mutex), and the holder of the mutex waits for ps_work.  *)
MutualWait ==
    /\ wq = "ps_macwait" /\ user[Mac].pc # "idle"
    /\ \E u \in Users : user[u].pc = "sync"

(* Stopped queues are woken in the end, unless the three wait for each     *)
(* other.                                                                  *)
StoppedWoken == stopped ~> (~stopped \/ MutualWait)

(* Whoever holds the mutex gets into its section, under the same proviso:  *)
(* that circular wait is the only way to be stuck.                         *)
UserProgress ==
    \A u \in Users : (mutex = u) ~> (user[u].pc = "crit" \/ MutualWait)
=============================================================================
