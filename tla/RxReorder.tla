------------------------------ MODULE RxReorder ------------------------------
(***************************************************************************)
(* The receive reorder buffer of one block-ack session slot                *)
(* (wcid->aggr[tidno], src/src/mt76/agg-rx.c).  Three actors share it:     *)
(*                                                                         *)
(*   NAPI     the receive poll: fetches the session pointer under RCU,     *)
(*            runs one frame through the buffer under tid->lock, hands the *)
(*            released frames to mt76_rx_complete after unlocking;         *)
(*   work[t]  tid->reorder_work: releases frames that waited too long,     *)
(*            unlocks, requeues itself, hands its frames up;               *)
(*   ctl      ADDBA / DELBA handling (mt76_rx_aggr_start / _stop, under    *)
(*            dev->mutex): unpublishes the pointer, shuts the session      *)
(*            down, cancels the work, frees it after an RCU grace period.  *)
(*                                                                         *)
(* A section under tid->lock is one action.  A frame is its sequence       *)
(* number; time is the age of a buffered frame in timeout periods.         *)
(***************************************************************************)
EXTENDS Integers, Sequences, FiniteSets

CONSTANTS
    Tids,      \* memory for sessions (struct mt76_rx_tid objects)
    NoTid,     \* the NULL pointer
    SN,        \* size of the sequence number space (4096 in the code)
    Size,      \* tid->size, the negotiated window
    Timeo      \* mt76_aggr_tid_to_timeo, in ticks

ASSUME NoTidAssumption == NoTid \notin Tids
ASSUME SizeAssumption  == Size \in Nat \ {0}
ASSUME SnAssumption    == SN \in Nat /\ Size * 2 < SN
ASSUME TimeoAssumption == Timeo \in Nat

VARIABLES
    aggr,      \* the published session pointer
    tid,       \* the session objects
    napi,      \* the receive poll
    work,      \* the reorder work of each session
    ctl        \* the control path

vars == <<aggr, tid, napi, work, ctl>>

-----------------------------------------------------------------------------
(* Sequence number arithmetic (ieee80211_sn_less, _sn_inc, _sn_sub).       *)

Sn           == 0 .. SN - 1
Dist(a, b)   == (a - b) % SN
SnLess(a, b) == 2 * Dist(a, b) > SN
SnInc(a)     == (a + 1) % SN
SnSub(a, b)  == (a - b) % SN

(* Slots.  Empty is a NULL entry of reorder_buf; age counts the ticks      *)
(* since reorder_time.                                                     *)
Slots   == 0 .. Size - 1
Frames  == [sn : Sn, age : 0 .. Timeo + 1]
Empty   == [sn |-> -1, age |-> 0]
Used(t) == {i \in Slots : t.buf[i] # Empty}
Expired(f) == f.age > Timeo

Sessions ==
    [head : Sn, buf : [Slots -> Frames \cup {Empty}], nframes : Int,
     started : BOOLEAN, stopped : BOOLEAN]

Freed == [head |-> 0, buf |-> [i \in Slots |-> Empty], nframes |-> -1,
          started |-> FALSE, stopped |-> TRUE]

(* The slot tid->head indexes after k steps.                               *)
Slot(t, k) == ((t.head + k) % SN) % Size
Revisit(t, k) == \E j \in 0 .. k - 1 : Slot(t, j) = Slot(t, k)

ReleaseN_NoMask(t, n) ==
    LET freed == {Slot(t, k) : k \in 0 .. n - 1}
    IN  [t EXCEPT
           !.head = t.head + n,
           !.buf = [i \in Slots |-> IF i \in freed THEN Empty ELSE t.buf[i]],
           !.nframes = t.nframes - Cardinality(freed \cap Used(t))]

(* mt76_aggr_release repeated n times from tid->head.                      *)
ReleaseN(t, n) ==
    LET freed == {Slot(t, k) : k \in 0 .. n - 1}
    IN  [t EXCEPT
           !.head = (t.head + n) % SN,
           !.buf = [i \in Slots |-> IF i \in freed THEN Empty ELSE t.buf[i]],
           !.nframes = t.nframes - Cardinality(freed \cap Used(t))]

(* The frames those n steps append to the list, oldest first.              *)
Released(t, n) ==
    LET got == {k \in 0 .. n - 1 :
                   t.buf[Slot(t, k)] # Empty /\ ~Revisit(t, k)}
        nth(i) == CHOOSE k \in got : Cardinality({j \in got : j <= k}) = i
    IN  [i \in 1 .. Cardinality(got) |-> t.buf[Slot(t, nth(i))].sn]

(* How many steps mt76_rx_aggr_release_frames(.., head) takes.             *)
StepsTo(t, head) == IF SnLess(t.head, head) THEN Dist(head, t.head) ELSE 0

(* How many steps mt76_rx_aggr_release_head takes: up to the first empty   *)
(* slot, a slot already released in this loop counting as empty.           *)
Gap(t, k) == t.buf[Slot(t, k)] = Empty \/ Revisit(t, k)
HeadRun(t) ==
    CHOOSE k \in 0 .. SN : Gap(t, k) /\ \A j \in 0 .. k - 1 : ~Gap(t, j)

ReleaseFrames(t, head) == ReleaseN(t, StepsTo(t, head))
ReleaseHead(t)         == ReleaseN(t, HeadRun(t))

(* release_frames(head) followed by release_head: the session afterwards   *)
(* and what was appended to the frame list.                                *)
Advance(t, head) ==
    LET a == ReleaseFrames(t, head)
    IN  [tid |-> ReleaseHead(a),
         out |-> Released(t, StepsTo(t, head)) \o Released(a, HeadRun(a))]

CheckRelease_HeadOnly(t) ==
    IF t.nframes = 0 THEN [tid |-> t, out |-> <<>>]
    ELSE [tid |-> ReleaseHead(t), out |-> Released(t, HeadRun(t))]

(* mt76_rx_aggr_check_release: the contiguous head, then everything before *)
(* the furthest expired frame, then the contiguous head again.             *)
CheckRelease(t) ==
    LET a    == ReleaseHead(t)
        exp  == {i \in Used(a) : Expired(a.buf[i])}
        last == CHOOSE i \in exp : \A j \in exp :
                   Dist(a.buf[j].sn, a.head) <= Dist(a.buf[i].sn, a.head)
        b    == IF exp = {} THEN [tid |-> a, out |-> <<>>]
                            ELSE Advance(a, a.buf[last].sn)
    IN  IF t.nframes = 0 THEN [tid |-> t, out |-> <<>>]
        ELSE [tid |-> b.tid, out |-> Released(t, HeadRun(t)) \o b.out]

(* mt76_rx_aggr_check_ctl on a block-ack request.                          *)
CheckCtl(t, ssn) ==
    IF t.stopped THEN [tid |-> t, out |-> <<>>] ELSE Advance(t, ssn)

-----------------------------------------------------------------------------
(* mt76_rx_aggr_reorder under tid->lock, as the outcomes of its branches:  *)
(* the session afterwards, the list handed up, whether the frame itself    *)
(* was freed, and whether the reorder work was queued.                     *)

Pass(t, sn) == [tid |-> t, out |-> <<sn>>, drop |-> FALSE, queue |-> FALSE]
Drop(t, out) == [tid |-> t, out |-> out, drop |-> TRUE, queue |-> FALSE]

(* (AtHead_RunFirst, RoomSteps_*, Buffer_*, Reorder_* and the like: the     *)
(* same step with a bug, for checking that the properties notice.)         *)
AtHead_RunFirst(t, sn) ==
    LET a == [t EXCEPT !.head = SnInc(@)]
        n == IF t.nframes = 0 THEN 0 ELSE HeadRun(a)
    IN  [tid |-> ReleaseN(a, n), out |-> Released(a, n) \o <<sn>>,
         drop |-> FALSE, queue |-> FALSE]

(* seqno = head: the frame goes up first, then the run behind it.          *)
AtHead(t, sn) ==
    LET a == [t EXCEPT !.head = SnInc(@)]
        n == IF t.nframes = 0 THEN 0 ELSE HeadRun(a)
    IN  [tid |-> ReleaseN(a, n), out |-> <<sn>> \o Released(a, n),
         drop |-> FALSE, queue |-> FALSE]

(* seqno beyond head: make room if it exceeds the window, then buffer it.  *)
RoomSteps_Short(t, sn) ==
    IF SnLess(sn, (t.head + Size) % SN) THEN 0
    ELSE StepsTo(t, SnSub(sn, Size))
RoomSteps_None(t, sn) == 0
RoomSteps(t, sn) ==
    IF SnLess(sn, (t.head + Size) % SN) THEN 0
    ELSE StepsTo(t, SnInc(SnSub(sn, Size)))

Buffer_Overwrite(t, sn) ==
    LET a == ReleaseN(t, RoomSteps(t, sn))
        b == [a EXCEPT !.buf[sn % Size] = [sn |-> sn, age |-> 0],
                       !.nframes = @ + 1]
    IN  [tid |-> ReleaseHead(b), drop |-> FALSE, queue |-> TRUE,
         out |-> Released(t, RoomSteps(t, sn)) \o Released(b, HeadRun(b))]

Buffer(t, sn) ==
    LET a == ReleaseN(t, RoomSteps(t, sn))
        out == Released(t, RoomSteps(t, sn))
        b == [a EXCEPT !.buf[sn % Size] = [sn |-> sn, age |-> 0],
                       !.nframes = @ + 1]
    IN  IF a.buf[sn % Size] # Empty THEN Drop(a, out)
        ELSE [tid |-> ReleaseHead(b), out |-> out \o Released(b, HeadRun(b)),
              drop |-> FALSE, queue |-> TRUE]

Reorder_IgnoreStopped(t0, sn) ==
    LET old == SnLess(sn, t0.head)
        t   == [t0 EXCEPT !.started = TRUE]
    IN  IF ~t0.started /\ old THEN Pass(t0, sn)
        ELSE IF old THEN Drop(t, <<>>)
        ELSE IF sn = t.head THEN AtHead(t, sn)
        ELSE Buffer(t, sn)

Reorder(t0, sn) ==
    LET old == SnLess(sn, t0.head)
        t   == [t0 EXCEPT !.started = TRUE]
    IN  IF t0.stopped \/ (~t0.started /\ old) THEN Pass(t0, sn)
        ELSE IF old THEN Drop(t, <<>>)
        ELSE IF sn = t.head THEN AtHead(t, sn)
        ELSE Buffer(t, sn)

-----------------------------------------------------------------------------
NoFrame == [kind |-> "none", sn |-> 0]
Inputs  == [kind : {"data", "bar"}, sn : Sn]
IdleNapi == [pc |-> "idle", tid |-> NoTid, skb |-> NoFrame, frames |-> <<>>]
IdleWork == [pending |-> FALSE, pc |-> "idle", more |-> FALSE,
             canceling |-> FALSE, frames |-> <<>>]
IdleCtl  == [pc |-> "idle", tid |-> NoTid, start |-> FALSE]

Init ==
    /\ aggr = NoTid
    /\ tid  = [t \in Tids |-> Freed]
    /\ napi = IdleNapi
    /\ work = [t \in Tids |-> IdleWork]
    /\ ctl  = IdleCtl

(* queue_delayed_work: refused while the work is being cancelled.          *)
Queue(w) == IF w.canceling THEN w ELSE [w EXCEPT !.pending = TRUE]

(* The poll loop takes an skb and dereferences wcid->aggr[tidno].  With no *)
(* session the frame goes straight up, which leaves this state alone.      *)
NapiFetch(skb) ==
    /\ napi.pc = "idle"
    /\ aggr # NoTid
    /\ napi' = [IdleNapi EXCEPT !.pc = "lock", !.tid = aggr, !.skb = skb]
    /\ UNCHANGED <<aggr, tid, work, ctl>>

(* A data frame of the session, under tid->lock.                           *)
NapiReorder ==
    /\ napi.pc = "lock"
    /\ napi.skb.kind = "data"
    /\ LET r == Reorder(tid[napi.tid], napi.skb.sn)
       IN  /\ tid' = [tid EXCEPT ![napi.tid] = r.tid]
           /\ napi' = [napi EXCEPT !.pc = "complete", !.skb = NoFrame,
                                   !.frames = r.out]
           /\ work' = IF r.queue
                      THEN [work EXCEPT ![napi.tid] = Queue(@)] ELSE work
    /\ UNCHANGED <<aggr, ctl>>

(* A block-ack request, under tid->lock.                                   *)
NapiBar ==
    /\ napi.pc = "lock"
    /\ napi.skb.kind = "bar"
    /\ LET r == CheckCtl(tid[napi.tid], napi.skb.sn)
       IN  /\ tid' = [tid EXCEPT ![napi.tid] = r.tid]
           /\ napi' = [napi EXCEPT !.pc = "complete", !.skb = NoFrame,
                                   !.frames = r.out]
    /\ UNCHANGED <<aggr, work, ctl>>

(* mt76_rx_complete for the poll, and the end of its RCU section.          *)
NapiComplete ==
    /\ napi.pc = "complete"
    /\ napi' = IdleNapi
    /\ UNCHANGED <<aggr, tid, work, ctl>>

(* The reorder work runs: its section under tid->lock.                     *)
WorkRelease(t) ==
    /\ work[t].pending
    /\ work[t].pc = "idle"
    /\ LET r == CheckRelease(tid[t])
       IN  /\ tid' = [tid EXCEPT ![t] = r.tid]
           /\ work' = [work EXCEPT ![t].pending = FALSE, ![t].pc = "requeue",
                         ![t].more = r.tid.nframes > 0, ![t].frames = r.out]
    /\ UNCHANGED <<aggr, napi, ctl>>

WorkRequeue_Never(t) ==
    /\ work[t].pc = "requeue"
    /\ work' = [work EXCEPT ![t].pc = "idle", ![t].more = FALSE,
                            ![t].frames = <<>>]
    /\ UNCHANGED <<aggr, tid, napi, ctl>>

(* After the unlock: requeue if the count it read under the lock says so,  *)
(* then hand its frames to mt76_rx_complete and end.                       *)
WorkRequeue(t) ==
    /\ work[t].pc = "requeue"
    /\ work' = [work EXCEPT ![t] =
                  [(IF @.more THEN Queue(@) ELSE @)
                     EXCEPT !.pc = "idle", !.more = FALSE, !.frames = <<>>]]
    /\ UNCHANGED <<aggr, tid, napi, ctl>>

(* mt76_rx_aggr_stop (start = FALSE), or mt76_rx_aggr_start, which stops   *)
(* the previous session first: the pointer is replaced by NULL.            *)
CtlUnpublish(start) ==
    /\ ctl.pc = "idle"
    /\ start \/ aggr # NoTid
    /\ aggr' = NoTid
    /\ ctl' = [pc |-> IF aggr # NoTid THEN "shutdown" ELSE "alloc",
               tid |-> aggr, start |-> start]
    /\ UNCHANGED <<tid, napi, work>>

(* The loop of mt76_rx_aggr_shutdown frees slots while nframes is not 0.   *)
Purge(t) ==
    LET n == Cardinality(Used(t))
        gone == CHOOSE S \in SUBSET Used(t) :
                  /\ Cardinality(S) = IF t.nframes < n THEN t.nframes ELSE n
                  /\ \A i \in S : \A j \in Used(t) \ S : i < j
    IN  [t EXCEPT !.stopped = TRUE, !.nframes = @ - Cardinality(gone),
            !.buf = [i \in Slots |-> IF i \in gone THEN Empty ELSE @[i]]]

CtlShutdown ==
    /\ ctl.pc = "shutdown"
    /\ tid' = [tid EXCEPT ![ctl.tid] = Purge(@)]
    /\ ctl' = [ctl EXCEPT !.pc = "cancel"]
    /\ UNCHANGED <<aggr, napi, work>>

(* cancel_delayed_work_sync: takes the work off the queue and keeps it     *)
(* from being queued again ...                                             *)
CtlCancel ==
    /\ ctl.pc = "cancel"
    /\ work' = [work EXCEPT ![ctl.tid].pending = FALSE,
                            ![ctl.tid].canceling = TRUE]
    /\ ctl' = [ctl EXCEPT !.pc = "sync"]
    /\ UNCHANGED <<aggr, tid, napi>>

CtlSync_NoWait ==
    /\ ctl.pc = "sync"
    /\ work' = [work EXCEPT ![ctl.tid].canceling = FALSE]
    /\ ctl' = IF ctl.start THEN [ctl EXCEPT !.pc = "alloc", !.tid = NoTid]
                           ELSE IdleCtl
    /\ UNCHANGED <<aggr, tid, napi>>

(* ... and waits for a running instance; then kfree_rcu.                   *)
CtlSync ==
    /\ ctl.pc = "sync"
    /\ work[ctl.tid].pc = "idle"
    /\ work' = [work EXCEPT ![ctl.tid].canceling = FALSE]
    /\ ctl' = IF ctl.start THEN [ctl EXCEPT !.pc = "alloc", !.tid = NoTid]
                           ELSE IdleCtl
    /\ UNCHANGED <<aggr, tid, napi>>

(* The grace period of kfree_rcu ends: no reader holds the pointer.        *)
Free(t) ==
    /\ tid[t] # Freed
    /\ aggr # t /\ ctl.tid # t /\ napi.tid # t
    /\ tid' = [tid EXCEPT ![t] = Freed]
    /\ UNCHANGED <<aggr, napi, work, ctl>>

(* The allocation of mt76_rx_aggr_start, and rcu_assign_pointer.           *)
CtlAlloc(t, ssn) ==
    /\ ctl.pc = "alloc"
    /\ tid[t] = Freed
    /\ tid' = [tid EXCEPT ![t] =
                 [head |-> ssn, buf |-> [i \in Slots |-> Empty],
                  nframes |-> 0, started |-> FALSE, stopped |-> FALSE]]
    /\ aggr' = t
    /\ ctl' = IdleCtl
    /\ UNCHANGED <<napi, work>>

(* kzalloc fails: -ENOMEM, and the slot stays without a session.           *)
CtlAllocFail ==
    /\ ctl.pc = "alloc"
    /\ ctl' = IdleCtl
    /\ UNCHANGED <<aggr, tid, napi, work>>

(* A tick of jiffies: every buffered frame grows older.  Ages above Timeo  *)
(* are not told apart.                                                     *)
Older(f) == IF f = Empty \/ Expired(f) THEN f ELSE [f EXCEPT !.age = @ + 1]
Tick ==
    /\ \E t \in Tids : \E i \in Used(tid[t]) : ~Expired(tid[t].buf[i])
    /\ tid' = [t \in Tids |-> [tid[t] EXCEPT
                 !.buf = [i \in Slots |-> Older(@[i])]]]
    /\ UNCHANGED <<aggr, napi, work, ctl>>

Napi == (\E skb \in Inputs : NapiFetch(skb)) \/ NapiReorder \/ NapiBar
            \/ NapiComplete
Work(t) == WorkRelease(t) \/ WorkRequeue(t)
Ctl == (\E start \in BOOLEAN : CtlUnpublish(start)) \/ CtlShutdown
            \/ CtlCancel \/ CtlSync \/ CtlAllocFail
            \/ (\E t \in Tids, ssn \in Sn : CtlAlloc(t, ssn))

Next == Napi \/ Ctl \/ Tick \/ \E t \in Tids : Work(t) \/ Free(t)

Spec == Init /\ [][Next]_vars

(* Timers fire, queued work runs, time passes, and the poll and the        *)
(* shutdown finish what they started.  Nothing obliges frames or control   *)
(* requests to arrive.                                                     *)
Fairness ==
    /\ WF_vars(NapiReorder \/ NapiBar \/ NapiComplete)
    /\ WF_vars(CtlShutdown \/ CtlCancel \/ CtlSync)
    /\ WF_vars(Tick)
    /\ \A t \in Tids : WF_vars(Work(t))

FairSpec == Spec /\ Fairness
-----------------------------------------------------------------------------
(* Types of every variable.                                                *)
TypeOK ==
    /\ aggr \in Tids \cup {NoTid}
    /\ tid \in [Tids -> Sessions \cup {Freed}]
    /\ napi \in [pc : {"idle", "lock", "complete"}, tid : Tids \cup {NoTid},
                 skb : Inputs \cup {NoFrame}, frames : Seq(Sn)]
    /\ work \in [Tids -> [pending : BOOLEAN,
                          pc : {"idle", "requeue"}, more : BOOLEAN,
                          canceling : BOOLEAN, frames : Seq(Sn)]]
    /\ ctl \in [pc : {"idle", "shutdown", "cancel", "sync", "alloc"},
                tid : Tids \cup {NoTid}, start : BOOLEAN]

Live(t) == tid[t] # Freed /\ ~tid[t].stopped

(* Every buffered frame lies strictly inside the window above the head, in *)
(* the slot its number selects, so that mt76_aggr_release takes from       *)
(* reorder_buf[head % size] the frame numbered head and no other.          *)
WindowInv ==
    \A t \in Tids : \A i \in Used(tid[t]) :
        LET f == tid[t].buf[i]
        IN  f.sn % Size = i /\ Dist(f.sn, tid[t].head) \in 1 .. Size - 1

(* tid->nframes counts the occupied slots: the shutdown loop and           *)
(* check_release stop when it reaches zero.                                *)
CountInv ==
    \A t \in Tids : tid[t] # Freed =>
        tid[t].nframes = Cardinality(Used(tid[t]))

(* A session that holds frames has its release timer armed, or its work is *)
(* between the unlock and the requeue with a nonzero count: no interleaving *)
(* of the poll and the work strands a frame until the next one arrives.    *)
TimerArmed ==
    \A t \in Tids : Live(t) /\ Used(tid[t]) # {} =>
        work[t].pending \/ (work[t].pc = "requeue" /\ work[t].more)

(* A stopped session holds no frame: a poll that fetched the pointer before *)
(* mt76_rx_aggr_stop and takes the lock after the purge leaks nothing.     *)
StoppedEmpty == \A t \in Tids : tid[t].stopped => Used(tid[t]) = {}

(* Once a session's memory is freed neither the poll nor the work can      *)
(* reach it: kfree_rcu follows cancel_delayed_work_sync.                   *)
FreedUnreachable ==
    \A t \in Tids : tid[t] = Freed =>
        /\ aggr # t /\ napi.tid # t
        /\ ~work[t].pending /\ work[t].pc = "idle"

(* The life of a session's frames and memory, in whatever order the poll,  *)
(* the work and the control path take tid->lock: counted, never stranded   *)
(* without a timer, never left in a stopped session, and out of reach once *)
(* freed (mt76_rx_aggr_reorder, _reorder_work, _shutdown, _stop).          *)
SessionSound ==
    TypeOK /\ CountInv /\ TimerArmed /\ StoppedEmpty /\ FreedUnreachable

(* What one locked section appends to its list, from session t.            *)
InOrder(t, list) ==
    LET h == tid[t].head
    IN  /\ \A i \in DOMAIN list : Dist(list[i], h) < Dist(tid'[t].head, h)
        /\ \A i, j \in DOMAIN list : i < j => Dist(list[i], h) < Dist(list[j], h)

(* Every locked section releases frames in sequence order, none of them    *)
(* behind the head it found and all behind the head it leaves, and the     *)
(* head never moves back: a session never hands a frame up twice or out of *)
(* order.  Frames that only pass through (a stopped session, or one that   *)
(* has not yet seen its starting number) are outside the promise.          *)
Passing(t, sn) == tid[t].stopped \/ (~tid[t].started /\ SnLess(sn, tid[t].head))
ReleaseInOrder ==
    [][/\ napi.pc = "lock" /\ napi'.pc = "complete" =>
            Passing(napi.tid, napi.skb.sn) \/ InOrder(napi.tid, napi'.frames)
       /\ \A t \in Tids : work[t].pc = "idle" /\ work'[t].pc = "requeue" =>
            InOrder(t, work'[t].frames)
       /\ \A t \in Tids : tid[t] # Freed /\ tid'[t] # Freed =>
            2 * Dist(tid'[t].head, tid[t].head) <= SN]_vars

(* A data frame that is not old is lost only as a duplicate of a frame     *)
(* already buffered: handed up, or left in the buffer, or its number was   *)
(* there before.                                                           *)
LossOnlyDuplicates ==
    [][NapiReorder /\ ~SnLess(napi.skb.sn, tid[napi.tid].head) =>
          LET sns(t) == {t.buf[i].sn : i \in Used(t)}
          IN  \/ \E i \in DOMAIN napi'.frames : napi'.frames[i] = napi.skb.sn
              \/ napi.skb.sn \in sns(tid'[napi.tid])
              \/ napi.skb.sn \in sns(tid[napi.tid])]_vars

(* A session that holds frames for ever keeps advancing its head.  By      *)
(* WindowInv a buffered frame is less than Size ahead of the head, so each *)
(* one is released in the end: by its turn, by the window, by the timer or *)
(* by the shutdown.                                                        *)
HeadKeepsAdvancing ==
    \A t \in Tids :
        \/ []<>(Used(tid[t]) = {})
        \/ []<><<tid'[t].head # tid[t].head>>_vars
=============================================================================
