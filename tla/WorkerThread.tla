----------------------------- MODULE WorkerThread -----------------------------
(***************************************************************************)
(* mt76_worker (src/src/mt76/util.c, util.h): the kernel thread that runs  *)
(* the transmit worker.  Callers hand it work and call                     *)
(* mt76_worker_schedule from any context, also while it runs; a controller *)
(* (channel change, reset, suspend) disables it and enables it again.      *)
(*                                                                         *)
(* The two bits of w->state and the task state are touched without a lock; *)
(* every access is a step of its own.  Bit operations and                  *)
(* set_current_state order memory accesses, so steps are taken to be       *)
(* sequentially consistent.                                                *)
(***************************************************************************)
CONSTANT Schedulers  \* contexts that schedule the worker

VARIABLES
    work,        \* something waits for w->fn to be run
    scheduled,   \* MT76_WORKER_SCHEDULED
    running,     \* MT76_WORKER_RUNNING
    task,        \* the state of the thread as the scheduler sees it
    pc,          \* where the thread is in __mt76_worker_fn
    caller,      \* where each caller is in mt76_worker_schedule
    ctl,         \* where the controller is
    park         \* kthread_should_park

workerVars == <<work, scheduled, running, task, pc, caller, ctl, park>>

WorkerInit ==
    /\ work = FALSE /\ scheduled = FALSE /\ running = FALSE
    /\ task = "running" /\ pc = "top"
    /\ caller = [c \in Schedulers |-> "idle"]
    /\ ctl = "idle" /\ park = FALSE

-----------------------------------------------------------------------------
(* __mt76_worker_fn.  (Definitions with a suffix, Clear_Not and the like,  *)
(* are the same step with a bug, to see that a property notices it.)       *)

(* set_current_state(TASK_INTERRUPTIBLE), before the bit is tested; in the *)
(* variant only between the test and schedule().                           *)
SetInterruptible_Late ==
    /\ \/ pc = "top" /\ pc' = "park" /\ UNCHANGED task
       \/ pc = "sleep" /\ task' = "interruptible" /\ UNCHANGED pc
    /\ UNCHANGED <<work, scheduled, running, caller, ctl, park>>

SetInterruptible ==
    /\ pc = "top"
    /\ task' = "interruptible" /\ pc' = "park"
    /\ UNCHANGED <<work, scheduled, running, caller, ctl, park>>

(* kthread_should_park: kthread_parkme, or go on.                          *)
CheckPark ==
    /\ pc = "park"
    /\ IF park THEN pc' = "parked" /\ task' = "parked"
               ELSE pc' = "test" /\ UNCHANGED task
    /\ UNCHANGED <<work, scheduled, running, caller, ctl, park>>

(* kthread_parkme returns once kthread_unpark cleared the request.         *)
Unparked ==
    /\ pc = "parked" /\ ~park
    /\ pc' = "top" /\ task' = "running"
    /\ UNCHANGED <<work, scheduled, running, caller, ctl, park>>

(* test_and_clear_bit(MT76_WORKER_SCHEDULED).                              *)
Test ==
    /\ pc = "test"
    /\ scheduled' = FALSE
    /\ pc' = IF scheduled THEN "mark" ELSE "sleep"
    /\ UNCHANGED <<work, running, task, caller, ctl, park>>

(* schedule() returns when somebody made the thread runnable, at once if   *)
(* that has happened already.                                              *)
Awake ==
    /\ pc = "sleep" /\ task = "running"
    /\ pc' = "top"
    /\ UNCHANGED <<work, scheduled, running, task, caller, ctl, park>>

(* set_bit(MT76_WORKER_RUNNING) and set_current_state(TASK_RUNNING).       *)
Mark ==
    /\ pc = "mark"
    /\ running' = TRUE /\ task' = "running" /\ pc' = "fn"
    /\ UNCHANGED <<work, scheduled, caller, ctl, park>>

(* w->fn takes whatever work there is when it looks.                       *)
Fn ==
    /\ pc = "fn"
    /\ work' = FALSE /\ pc' = "clear"
    /\ UNCHANGED <<scheduled, running, task, caller, ctl, park>>

(* The end of w->fn, and clear_bit(MT76_WORKER_RUNNING).                   *)
Clear_Not ==
    /\ pc = "clear"
    /\ pc' = "top"
    /\ UNCHANGED <<work, scheduled, running, task, caller, ctl, park>>

Clear ==
    /\ pc = "clear"
    /\ running' = FALSE /\ pc' = "top"
    /\ UNCHANGED <<work, scheduled, task, caller, ctl, park>>

Thread == SetInterruptible \/ CheckPark \/ Unparked \/ Test \/ Awake \/ Mark \/ Fn \/ Clear

-----------------------------------------------------------------------------
(* mt76_worker_schedule by caller c, after it left work for w->fn.         *)
PostWork(c) ==
    /\ caller[c] = "idle"
    /\ work' = TRUE
    /\ caller' = [caller EXCEPT ![c] = "set"]
    /\ UNCHANGED <<scheduled, running, task, pc, ctl, park>>

(* test_and_set_bit(MT76_WORKER_SCHEDULED): nothing more if it was set.    *)
SetScheduled(c) ==
    /\ caller[c] = "set"
    /\ scheduled' = TRUE
    /\ caller' = [caller EXCEPT ![c] = IF scheduled THEN "idle" ELSE "look"]
    /\ UNCHANGED <<work, running, task, pc, ctl, park>>

(* test_bit(MT76_WORKER_RUNNING).                                          *)
Look(c) ==
    /\ caller[c] = "look"
    /\ caller' = [caller EXCEPT ![c] = IF running THEN "idle" ELSE "wake"]
    /\ UNCHANGED <<work, scheduled, running, task, pc, ctl, park>>

(* wake_up_process, which leaves a parked thread alone.                    *)
Woken == IF task = "interruptible" THEN "running" ELSE task
Wake(c) ==
    /\ caller[c] = "wake"
    /\ task' = Woken
    /\ caller' = [caller EXCEPT ![c] = "idle"]
    /\ UNCHANGED <<work, scheduled, running, pc, ctl, park>>

Schedule(c) == SetScheduled(c) \/ Look(c) \/ Wake(c)

-----------------------------------------------------------------------------
(* mt76_worker_disable: kthread_park requests and wakes the thread ...     *)
Park ==
    /\ ctl = "idle"
    /\ park' = TRUE /\ task' = Woken
    /\ ctl' = "parking"
    /\ UNCHANGED <<work, scheduled, running, pc, caller>>

Disable_NoWait ==
    /\ ctl = "parking"
    /\ scheduled' = FALSE /\ running' = FALSE
    /\ ctl' = "disabled"
    /\ UNCHANGED <<work, task, pc, caller, park>>

(* ... and waits until it has parked; then w->state = 0.                   *)
Disable ==
    /\ ctl = "parking" /\ pc = "parked"
    /\ scheduled' = FALSE /\ running' = FALSE
    /\ ctl' = "disabled"
    /\ UNCHANGED <<work, task, pc, caller, park>>

(* mt76_worker_enable: kthread_unpark, then mt76_worker_schedule.          *)
Unpark ==
    /\ ctl = "disabled"
    /\ park' = FALSE
    /\ ctl' = "set"
    /\ UNCHANGED <<work, scheduled, running, task, pc, caller>>

EnableSet_Not ==
    /\ ctl = "set"
    /\ ctl' = "idle"
    /\ UNCHANGED <<work, scheduled, running, task, pc, caller, park>>

EnableSet ==
    /\ ctl = "set"
    /\ scheduled' = TRUE
    /\ ctl' = IF scheduled THEN "idle" ELSE "look"
    /\ UNCHANGED <<work, running, task, pc, caller, park>>

EnableLook ==
    /\ ctl = "look"
    /\ ctl' = IF running THEN "idle" ELSE "wake"
    /\ UNCHANGED <<work, scheduled, running, task, pc, caller, park>>

EnableWake ==
    /\ ctl = "wake"
    /\ task' = Woken /\ ctl' = "idle"
    /\ UNCHANGED <<work, scheduled, running, pc, caller, park>>

Controller == Disable \/ Unpark \/ EnableSet \/ EnableLook \/ EnableWake

WorkerNext == Thread \/ Park \/ Controller \/ \E c \in Schedulers : PostWork(c) \/ Schedule(c)

(* The thread gets the CPU, and a caller or a controller finishes what it   *)
(* began; nobody has to leave work or to disable the worker.               *)
WorkerSpec == /\ WorkerInit /\ [][WorkerNext]_workerVars
        /\ WF_workerVars(Thread) /\ WF_workerVars(Controller)
        /\ \A c \in Schedulers : WF_workerVars(Schedule(c))
-----------------------------------------------------------------------------
(* Somebody is on the way to wake the thread.                              *)
Waking == \/ \E c \in Schedulers : caller[c] \in {"look", "wake"}
          \/ ctl \in {"look", "wake"}

(* No wake-up is lost: the thread sleeps with MT76_WORKER_SCHEDULED set    *)
(* only while the context that set the bit is about to wake it, although   *)
(* callers skip the wake-up when they see MT76_WORKER_RUNNING.             *)
NoLostWake ==
    scheduled /\ pc = "sleep" /\ task = "interruptible" => Waking

(* Work is never left behind unannounced: while any waits, the bit is set, *)
(* the thread is on its way to w->fn, or a caller or controller is still   *)
(* going to set the bit.                                                   *)
WorkAnnounced ==
    work => \/ scheduled \/ pc \in {"mark", "fn"} \/ ctl \in {"disabled", "set"}
            \/ \E c \in Schedulers : caller[c] = "set"

(* Scheduling is never in vain: neither the wake-up nor the work it        *)
(* announces is lost, although the callers look at RUNNING and the         *)
(* controller wipes SCHEDULED (mt76_worker_schedule, mt76_worker_disable). *)
ScheduleKept == NoLostWake /\ WorkAnnounced

(* Between mt76_worker_disable and mt76_worker_enable w->fn does not run:   *)
(* a channel change, a reset and a suspend rely on it.                     *)
DisabledQuiet == ctl = "disabled" => pc = "parked" /\ ~running

(* Work is done in the end, unless the worker is disabled over and over.   *)
WorkDone == []<>(ctl # "idle") \/ (work ~> ~work)
=============================================================================
