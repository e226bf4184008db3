------------------------------ MODULE TxSched ------------------------------
(***************************************************************************)
(* Transmit scheduling (tx.c): how a frame gets from mac80211 onto the DMA *)
(* ring.  mt76_tx puts frames on the two queues of a station, pending and  *)
(* off channel, lists the station and schedules the worker; data frames    *)
(* wait in mac80211's own queue of the station, which is on its list of    *)
(* active queues.  A pass (mt76_txq_schedule_all) is run by the worker and *)
(* by the reset work; it stops at a ring that is nearly full, at a queue   *)
(* blocked for want of tokens, during a reset, and off channel.            *)
(*                                                                         *)
(* All transmit queues of this chip are one ring (connac_init_tx_queues),  *)
(* every frame takes one descriptor and one token.  A step here is what    *)
(* runs under one lock.  mac80211's side (its queues, the list of active   *)
(* ones, the grace period before a station is removed) is modelled by what *)
(* the driver sees of it; power-saving stations are left out.              *)
(*                                                                         *)
(* Definitions with a suffix, Reached_Held and the like, are the same thing*)
(* with a bug, to see that a property notices it.                          *)
(***************************************************************************)
EXTENDS Integers, Sequences, FiniteSets, SequencesExt

CONSTANTS
    Wcids,         \* stations
    Senders,       \* contexts that transmit
    Ndesc,         \* q->ndesc
    FreeThr,       \* MT_TXQ_FREE_THR
    TokenSize,     \* dev->token_size
    TokenThr,      \* MT76_TOKEN_FREE_THR
    MaxSends,      \* bound: frames
    MaxResets,     \* bound: chip resets
    MaxTries,      \* bound: attempts of one reset (10 in the code)
    MaxChannels,   \* bound: channel changes
    Removable,     \* bound: stations that may be removed
    Uses           \* bound: the kinds of frames each station gets

Runners == {"worker", "reset"}
Limit   == TokenSize - TokenThr

ASSUME TxAssumption ==
    /\ Ndesc \in Nat /\ FreeThr \in Nat /\ TokenSize \in Nat /\ TokenThr \in Nat
    /\ TokenThr < TokenSize
    /\ FreeThr > Cardinality(Runners)
    /\ Senders \cap Runners = {}

VARIABLES
    q,         \* per station: frames in pend, off and mac80211's txq
    txList,    \* phy->tx_list
    active,    \* stations whose txq is on mac80211's active list
    sta,       \* "up", then "unlinked" (no new users), then "gone"
    gp,        \* contexts whose read-side section a removal waits for
    send,      \* the senders
    run,       \* the passes
    worker,    \* sched: MT76_WORKER_SCHEDULED, parked: by mt76_worker_disable
    queued,    \* q->queued, the descriptors on the ring
    tokens,    \* dev->token_count
    blocked,   \* q->blocked
    napi,      \* the poll that handles tx_free events
    chip,      \* "up" or "dead"
    ctl,       \* RESET bit, offchannel, dev->mutex, reset and channel change
    ghost      \* what the properties except, see below

vars == <<q, txList, active, sta, gp, send, run, worker, queued, tokens,
          blocked, napi, chip, ctl, ghost>>
hw   == <<queued, tokens, blocked, napi, chip>>

Idle == [pc |-> "idle", list |-> <<>>, w |-> "none", head |-> "off", ret |-> 0,
         skip |-> FALSE, seen |-> {}, more |-> FALSE]

(* ghost.passed: per station, the queues the last pass walked away from    *)
(* with frames left; ghost.stuck: a reset threw the tokens away while the  *)
(* queue was blocked, or left the chip dead; ghost.overrun: a frame met a  *)
(* full ring.                                                              *)
Init ==
    /\ q = [w \in Wcids |-> [pend |-> 0, off |-> 0, txq |-> 0]]
    /\ txList = <<>> /\ active = {}
    /\ sta = [w \in Wcids |-> "up"] /\ gp = [w \in Wcids |-> {}]
    /\ send = [c \in Senders |-> [pc |-> "idle", w |-> "none", k |-> "pend"]]
    /\ run = [r \in Runners |-> Idle]
    /\ worker = [sched |-> FALSE, parked |-> FALSE]
    /\ queued = 0 /\ tokens = 0 /\ blocked = FALSE
    /\ napi = [pc |-> "idle", wake |-> FALSE] /\ chip = "up"
    /\ ctl = [reset |-> FALSE, offch |-> FALSE, mutex |-> "none", rs |-> "idle",
              ch |-> "idle", sends |-> 0, resets |-> 0, tries |-> 0, chans |-> 0]
    /\ ghost = [passed |-> [w \in Wcids |-> {}], stuck |-> FALSE, overrun |-> FALSE]

-----------------------------------------------------------------------------
(* The ring, the tokens and the worker.                                    *)

Announce  == worker' = [worker EXCEPT !.sched = TRUE]
Near_Full(n) == n >= Ndesc
Near(n)   == n + FreeThr >= Ndesc
Stopped   == blocked \/ Near(queued)          \* mt76_txq_stopped
RingFull  == queued + 1 >= Ndesc - 1
InFw      == tokens - queued                  \* frames past the ring
Reached_Held(w) ==
    \/ w \in Range(txList)
    \/ \E r \in Runners : w = run[r].w \/ w \in Range(run[r].list)
(* list_empty(&wcid->tx_list) is false: phy->tx_list or a pass's own list. *)
Reached(w) ==
    \/ w \in Range(txList)
    \/ \E r \in Runners : w \in Range(run[r].list)

(* mt76_dma_tx_queue_skb: the frame is on the ring with a token, or it is   *)
(* handed back at once (reset, no memory, ring full, no token).            *)
Posted ==
    /\ ~ctl.reset /\ ~RingFull /\ tokens < TokenSize
    /\ queued' = queued + 1
    /\ tokens' = tokens + 1
    /\ blocked' = (blocked \/ tokens + 1 >= Limit)

Refused == UNCHANGED <<queued, tokens, blocked>>

(* mt76_dma_tx_cleanup: the descriptors the chip has fetched meanwhile.    *)
Clean == \E k \in 0 .. IF chip = "up" THEN queued ELSE 0 : queued' = queued - k

Overrun == ghost.overrun \/ (~ctl.reset /\ RingFull)

Leave(c) == gp' = [w \in Wcids |-> gp[w] \ {c}]
PassOver(w, kind) == [ghost EXCEPT !.passed[w] = @ \cup {kind}]

-----------------------------------------------------------------------------
(* mt76_tx and mac80211's own queueing: three steps each, because the      *)
(* frame, the list and the worker are touched under different locks.       *)

Enqueue(c, w, k) ==
    /\ send[c].pc = "idle" /\ sta[w] = "up" /\ ctl.sends < MaxSends /\ <<w, k>> \in Uses
    /\ q' = [q EXCEPT ![w][k] = @ + 1]
    /\ send' = [send EXCEPT ![c] = [pc |-> "list", w |-> w, k |-> k]]
    /\ ctl' = [ctl EXCEPT !.sends = @ + 1]
    /\ UNCHANGED <<txList, active, sta, gp, run, worker, hw, ghost>>

List(c) ==
    LET w == send[c].w IN
    /\ send[c].pc = "list"
    /\ \/ /\ send[c].k = "txq"
          /\ active' = active \cup {w} /\ UNCHANGED txList
          /\ ghost' = [ghost EXCEPT !.passed[w] = @ \ {"txq"}]
       \/ /\ send[c].k # "txq"
          /\ txList' = IF Reached(w) THEN txList ELSE Append(txList, w)
          /\ UNCHANGED active
          /\ ghost' = [ghost EXCEPT !.passed[w] = @ \ {"list"}]
    /\ send' = [send EXCEPT ![c].pc = "wake"]
    /\ UNCHANGED <<q, sta, gp, run, worker, hw, ctl>>

WakeWorker(c) ==
    /\ send[c].pc = "wake"
    /\ Announce /\ Leave(c)
    /\ send' = [send EXCEPT ![c] = [pc |-> "idle", w |-> "none", k |-> "pend"]]
    /\ UNCHANGED <<q, txList, active, sta, run, hw, ctl, ghost>>

-----------------------------------------------------------------------------
(* A pass over the listed stations (mt76_txq_schedule_pending).            *)

StartWorker ==
    /\ run["worker"].pc = "idle" /\ worker.sched /\ ~worker.parked
    /\ worker' = [worker EXCEPT !.sched = FALSE]
    /\ run' = [run EXCEPT !["worker"].pc = "splice"]
    /\ UNCHANGED <<q, txList, active, sta, gp, send, hw, ctl, ghost>>

Splice(r) ==
    /\ run[r].pc = "splice"
    /\ run' = [run EXCEPT ![r].pc = "pop", ![r].list = txList]
    /\ txList' = <<>>
    /\ UNCHANGED <<q, active, sta, gp, send, worker, hw, ctl, ghost>>

Pop(r) ==
    /\ run[r].pc = "pop" /\ run[r].list # <<>>
    /\ run' = [run EXCEPT ![r].w = Head(run[r].list), ![r].list = Tail(@),
                          ![r].head = "off",
                          ![r].skip = run[r].ret < 0,
                          ![r].pc = IF run[r].ret < 0 THEN "readd" ELSE "drain"]
    /\ ghost' = [ghost EXCEPT !.passed[Head(run[r].list)] = @ \ {"list"}]
    /\ UNCHANGED <<q, txList, active, sta, gp, send, worker, hw, ctl>>

PendingDone(r) ==
    /\ run[r].pc = "pop" /\ run[r].list = <<>>
    /\ run' = [run EXCEPT ![r] = [Idle EXCEPT !.pc = "next"]]
    /\ Leave(r)
    /\ UNCHANGED <<q, txList, active, sta, send, worker, hw, ctl, ghost>>

(* mt76_txq_schedule_pending_wcid, for tx_offchannel and then tx_pending:  *)
(* the queue is empty, the ring is not available, or a frame is taken.     *)
NextHead(r) ==
    IF run[r].head = "pend" THEN [run[r] EXCEPT !.pc = "readd"]
    ELSE IF ctl.offch THEN [run[r] EXCEPT !.pc = "readd", !.skip = TRUE]
    ELSE [run[r] EXCEPT !.head = "pend"]

Drained(r) ==
    /\ run[r].pc = "drain" /\ q[run[r].w][run[r].head] = 0
    /\ run' = [run EXCEPT ![r] = NextHead(r)]
    /\ UNCHANGED <<q, txList, active, sta, gp, send, worker, hw, ctl, ghost>>

NotNow(r) ==
    /\ run[r].pc = "drain" /\ q[run[r].w][run[r].head] > 0
    /\ Stopped \/ ctl.reset
    /\ run' = [run EXCEPT ![r].ret = -1, ![r].skip = TRUE, ![r].pc = "readd"]
    /\ UNCHANGED <<q, txList, active, sta, gp, send, worker, hw, ctl, ghost>>

Take(r) ==
    /\ run[r].pc = "drain" /\ q[run[r].w][run[r].head] > 0
    /\ ~Stopped /\ ~ctl.reset
    /\ q' = [q EXCEPT ![run[r].w][run[r].head] = @ - 1]
    /\ run' = [run EXCEPT ![r].pc = "post"]
    /\ UNCHANGED <<txList, active, sta, gp, send, worker, hw, ctl, ghost>>

Post(r) ==
    /\ run[r].pc = "post"
    /\ \/ Posted /\ UNCHANGED ghost
       \/ Refused /\ ghost' = [ghost EXCEPT !.overrun = Overrun]
    /\ run' = [run EXCEPT ![r].pc = "drain"]
    /\ UNCHANGED <<q, txList, active, sta, gp, send, worker, napi, chip, ctl>>

(* tx.c:673: back on the list only with frames in both queues.             *)
BackOnList(w) == q[w].pend > 0 /\ q[w].off > 0 /\ ~Reached(w)

Readd(r) ==
    LET w == run[r].w IN
    /\ run[r].pc = "readd"
    /\ txList' = IF BackOnList(w) THEN Append(txList, w) ELSE txList
    /\ ghost' = IF run[r].skip /\ q[w].pend + q[w].off > 0
                THEN PassOver(w, "list") ELSE ghost
    /\ run' = [run EXCEPT ![r].pc = "pop", ![r].w = "none", ![r].head = "off",
                          ![r].skip = FALSE]
    /\ UNCHANGED <<q, active, sta, gp, send, worker, hw, ctl>>

-----------------------------------------------------------------------------
(* The pass over mac80211's active queues (mt76_txq_schedule, _list).      *)

(* ieee80211_next_txq hands out each active queue once a round; a station  *)
(* met during a reset or off channel is not given back.                    *)
Offer(r, w) ==
    /\ run[r].pc = "next" /\ w \in active \ run[r].seen
    /\ active' = active \ {w}
    /\ LET here == sta[w] = "up" /\ ~ctl.reset /\ ~ctl.offch
           tidy == here /\ queued + 2 * FreeThr >= Ndesc
       IN  /\ IF tidy THEN Clean ELSE UNCHANGED queued
           /\ run' = [run EXCEPT ![r].seen = @ \cup {w},
                                 ![r].w = IF here THEN w ELSE "none",
                                 ![r].ret = 0,
                                 ![r].pc = IF ~here THEN "next"
                                           ELSE IF blocked \/ Near(queued')
                                           THEN "return" ELSE "burst"]
           /\ ghost' = IF ~here /\ q[w].txq > 0 THEN PassOver(w, "txq")
                       ELSE [ghost EXCEPT !.passed[w] = @ \ {"txq"}]
    /\ UNCHANGED <<q, txList, sta, gp, send, worker, tokens, blocked, napi, chip, ctl>>

Round(r) ==
    /\ run[r].pc = "next" /\ active \subseteq run[r].seen
    /\ \/ /\ run[r].more
          /\ run' = [run EXCEPT ![r].seen = {}, ![r].more = FALSE]
          /\ UNCHANGED gp
       \/ /\ ~run[r].more
          /\ run' = [run EXCEPT ![r] = Idle]
          /\ Leave(r)
    /\ UNCHANGED <<q, txList, active, sta, send, worker, hw, ctl, ghost>>

(* mt76_txq_send_burst: the tests are repeated after the first frame.      *)
Dequeue(r) ==
    LET w == run[r].w
        go == run[r].ret = 0 \/ (~ctl.reset /\ ~ctl.offch /\ ~Stopped)
    IN
    /\ run[r].pc = "burst"
    /\ IF go /\ q[w].txq > 0
       THEN /\ q' = [q EXCEPT ![w].txq = @ - 1]
            /\ run' = [run EXCEPT ![r].pc = "put"]
       ELSE run' = [run EXCEPT ![r].pc = "return"] /\ UNCHANGED q
    /\ UNCHANGED <<txList, active, sta, gp, send, worker, hw, ctl, ghost>>

Put(r) ==
    /\ run[r].pc = "put"
    /\ \/ /\ Posted /\ UNCHANGED ghost
          /\ run' = [run EXCEPT ![r].ret = 1, ![r].pc = "burst"]
       \/ /\ Refused /\ ghost' = [ghost EXCEPT !.overrun = Overrun]
          /\ run' = [run EXCEPT ![r].ret = IF @ = 0 THEN -1 ELSE @, ![r].pc = "return"]
    /\ UNCHANGED <<q, txList, active, sta, gp, send, worker, napi, chip, ctl>>

(* ieee80211_return_txq; a burst whose first frame failed ends the pass.   *)
Return(r) ==
    LET w == run[r].w IN
    /\ run[r].pc = "return"
    /\ active' = IF q[w].txq > 0 THEN active \cup {w} ELSE active
    /\ IF run[r].ret < 0
       THEN /\ run' = [run EXCEPT ![r] = Idle] /\ Leave(r)
            /\ ghost' = [ghost EXCEPT !.passed = [v \in Wcids |->
                 IF v \in active' THEN @[v] \cup {"txq"} ELSE @[v]]]
       ELSE /\ run' = [run EXCEPT ![r].pc = "next", ![r].w = "none",
                                  ![r].more = @ \/ run[r].ret > 0]
            /\ UNCHANGED <<gp, ghost>>
    /\ UNCHANGED <<q, txList, sta, send, worker, hw, ctl>>

-----------------------------------------------------------------------------
(* The chip and the poll (mt7921_mac_tx_free).                             *)

FreeStart ==
    /\ napi.pc = "idle" /\ chip = "up" /\ tokens > 0
    /\ Clean /\ tokens > queued'
    /\ napi' = [pc |-> "free", wake |-> FALSE]
    /\ UNCHANGED <<q, txList, active, sta, gp, send, run, worker, tokens, blocked,
                   chip, ctl, ghost>>

(* mt76_token_release: under token_lock it also decides to unblock.        *)
WakeNeeded_Before(n) == n + 1 < Limit /\ blocked
WakeNeeded(n) == n < Limit /\ blocked

FreeToken ==
    /\ napi.pc = "free"
    /\ tokens' = tokens - 1
    /\ \E more \in {m \in BOOLEAN : m => InFw > 1} :
         napi' = [pc |-> IF more THEN "free" ELSE "end",
                  wake |-> napi.wake \/ WakeNeeded(tokens - 1)]
    /\ UNCHANGED <<q, txList, active, sta, gp, send, run, worker, queued, blocked,
                   chip, ctl, ghost>>

FreeEnd_Quiet ==
    /\ napi.pc = "end"
    /\ blocked' = (blocked /\ ~napi.wake)
    /\ IF blocked /\ napi.wake THEN Announce ELSE UNCHANGED worker
    /\ napi' = [pc |-> "idle", wake |-> FALSE]
    /\ UNCHANGED <<q, txList, active, sta, gp, send, run, queued, tokens, chip, ctl, ghost>>

FreeEnd ==
    /\ napi.pc = "end"
    /\ blocked' = (blocked /\ ~napi.wake)
    /\ Announce
    /\ napi' = [pc |-> "idle", wake |-> FALSE]
    /\ UNCHANGED <<q, txList, active, sta, gp, send, run, queued, tokens, chip, ctl, ghost>>

-----------------------------------------------------------------------------
(* The reset work: mt7921_mac_reset_work, mt7921e_mac_reset.               *)

RsStart ==
    /\ ctl.rs = "idle" /\ ctl.resets < MaxResets
    /\ ctl' = [ctl EXCEPT !.rs = "lock", !.reset = TRUE, !.resets = @ + 1, !.tries = 0]
    /\ chip' \in {"dead", chip}
    /\ UNCHANGED <<q, txList, active, sta, gp, send, run, worker, queued, tokens,
                   blocked, napi, ghost>>

RsLock ==
    /\ ctl.rs = "lock" /\ ctl.mutex = "none"
    /\ ctl' = [ctl EXCEPT !.rs = "park", !.mutex = "rs", !.tries = @ + 1]
    /\ run' = [run EXCEPT !["reset"].pc = "splice"]
    /\ UNCHANGED <<q, txList, active, sta, gp, send, worker, hw, ghost>>

(* mt76_worker_disable returns; mt76_worker_enable.                        *)
Parked  == run["worker"].pc = "idle" /\ worker' = [sched |-> FALSE, parked |-> TRUE]
Unparked == worker' = [sched |-> TRUE, parked |-> FALSE]

RsParked ==
    /\ ctl.rs = "park" /\ run["reset"].pc = "idle" /\ Parked
    /\ ctl' = [ctl EXCEPT !.rs = "napi"]
    /\ UNCHANGED <<q, txList, active, sta, gp, send, run, hw, ghost>>

RsNapi ==
    /\ ctl.rs = "napi" /\ napi.pc = "idle"
    /\ napi' = [napi EXCEPT !.pc = "off"]
    /\ ctl' = [ctl EXCEPT !.rs = "tear"]
    /\ UNCHANGED <<q, txList, active, sta, gp, send, run, worker, queued, tokens,
                   blocked, chip, ghost>>

(* mt76_connac2_tx_token_put, which leaves q->blocked as it is, and        *)
(* mt792x_wpdma_reset.                                                     *)
RsTear ==
    /\ ctl.rs = "tear"
    /\ tokens' = 0 /\ queued' = 0
    /\ ghost' = [ghost EXCEPT !.stuck = @ \/ blocked]
    /\ napi' = [napi EXCEPT !.pc = "idle"] /\ chip' = "dead"
    /\ ctl' = [ctl EXCEPT !.rs = "fw"]
    /\ UNCHANGED <<q, txList, active, sta, gp, send, run, worker, blocked>>

(* The firmware starts, or it does not and the reset is tried again; after *)
(* the last attempt the driver goes on without a chip.                     *)
RsFw ==
    /\ ctl.rs = "fw"
    /\ Unparked
    /\ \/ /\ chip' = "up" /\ UNCHANGED ghost
          /\ ctl' = [ctl EXCEPT !.rs = "end", !.mutex = "none"]
       \/ /\ ctl.tries < MaxTries
          /\ ctl' = [ctl EXCEPT !.rs = "lock", !.mutex = "none"]
          /\ UNCHANGED <<chip, ghost>>
       \/ /\ ctl.tries = MaxTries
          /\ ctl' = [ctl EXCEPT !.rs = "end", !.mutex = "none"]
          /\ ghost' = [ghost EXCEPT !.stuck = TRUE]
          /\ UNCHANGED chip
    /\ UNCHANGED <<q, txList, active, sta, gp, send, run, queued, tokens, blocked, napi>>

RsEnd ==
    /\ ctl.rs = "end"
    /\ ctl' = [ctl EXCEPT !.rs = "idle", !.reset = FALSE, !.tries = 0]
    /\ UNCHANGED <<q, txList, active, sta, gp, send, run, worker, hw, ghost>>

-----------------------------------------------------------------------------
(* A channel change (mt76_set_channel) uses the same bit and the worker.   *)

ChStart_NoMutex ==
    /\ ctl.ch = "idle" /\ ctl.chans < MaxChannels
    /\ ctl' = [ctl EXCEPT !.ch = "park", !.reset = TRUE, !.chans = @ + 1]
    /\ UNCHANGED <<q, txList, active, sta, gp, send, run, worker, hw, ghost>>

ChStart ==
    /\ ctl.ch = "idle" /\ ctl.chans < MaxChannels /\ ctl.mutex = "none"
    /\ ctl' = [ctl EXCEPT !.ch = "park", !.mutex = "ch", !.reset = TRUE, !.chans = @ + 1]
    /\ UNCHANGED <<q, txList, active, sta, gp, send, run, worker, hw, ghost>>

(* From the parking of the worker to its release nobody reads the bit.     *)
ChEnd ==
    /\ ctl.ch = "park" /\ run["worker"].pc = "idle"
    /\ \E b \in BOOLEAN :
         ctl' = [ctl EXCEPT !.ch = "idle", !.mutex = "none", !.reset = FALSE, !.offch = b]
    /\ Unparked
    /\ UNCHANGED <<q, txList, active, sta, gp, send, run, hw, ghost>>

-----------------------------------------------------------------------------
(* Removing a station: mt76_sta_pre_rcu_remove unlinks it, mac80211 waits  *)
(* for the read-side sections then under way, mt76_wcid_cleanup drops what *)
(* is left, under tx_lock.                                                 *)

Inside == {c \in Senders : send[c].pc # "idle"} \cup
          {r \in Runners : run[r].pc \notin {"idle", "splice"}}

Unlink_NoWait(w) ==
    /\ sta[w] = "up" /\ w \in Removable /\ ctl.mutex = "none"
    /\ sta' = [sta EXCEPT ![w] = "unlinked"]
    /\ UNCHANGED gp
    /\ UNCHANGED <<q, txList, active, send, run, worker, hw, ctl, ghost>>

Unlink(w) ==
    /\ sta[w] = "up" /\ w \in Removable /\ ctl.mutex = "none"
    /\ sta' = [sta EXCEPT ![w] = "unlinked"]
    /\ gp' = [gp EXCEPT ![w] = Inside]
    /\ UNCHANGED <<q, txList, active, send, run, worker, hw, ctl, ghost>>

Cleanup(w) ==
    /\ sta[w] = "unlinked" /\ gp[w] = {} /\ ctl.mutex = "none"
    /\ sta' = [sta EXCEPT ![w] = "gone"]
    /\ txList' = RemoveFirst(txList, w)
    /\ run' = [r \in Runners |-> [run[r] EXCEPT !.list = RemoveFirst(@, w)]]
    /\ q' = [q EXCEPT ![w] = [pend |-> 0, off |-> 0, txq |-> 0]]
    /\ active' = active \ {w}
    /\ ghost' = [ghost EXCEPT !.passed[w] = {}]
    /\ UNCHANGED <<gp, send, worker, hw, ctl>>

-----------------------------------------------------------------------------
Kinds == {"pend", "off", "txq"}

SendStep(c) == List(c) \/ WakeWorker(c)
RunStep(r)  == \/ Splice(r) \/ Pop(r) \/ PendingDone(r) \/ Drained(r) \/ NotNow(r)
               \/ Take(r) \/ Post(r) \/ Readd(r) \/ Round(r) \/ Dequeue(r)
               \/ Put(r) \/ Return(r)
               \/ \E w \in Wcids : Offer(r, w)
Poll        == FreeStart \/ FreeToken \/ FreeEnd
Reset       == \/ RsLock \/ RsParked \/ RsNapi \/ RsTear \/ RsFw \/ RsEnd

Next ==
    \/ \E c \in Senders : SendStep(c) \/ \E w \in Wcids, k \in Kinds : Enqueue(c, w, k)
    \/ \E r \in Runners : RunStep(r)
    \/ StartWorker \/ Poll
    \/ RsStart \/ Reset \/ ChStart \/ ChEnd
    \/ \E w \in Wcids : Unlink(w) \/ Cleanup(w)

Fairness ==
    /\ \A c \in Senders : WF_vars(SendStep(c))
    /\ \A r \in Runners : WF_vars(RunStep(r))
    /\ WF_vars(StartWorker) /\ WF_vars(Poll)
    /\ WF_vars(Reset) /\ WF_vars(ChEnd)
    /\ \A w \in Wcids : WF_vars(Cleanup(w))

Spec == Init /\ [][Next]_vars /\ Fairness

-----------------------------------------------------------------------------
(* Properties.                                                             *)

Held(w, pcs) == \E r \in Runners : run[r].w = w /\ run[r].pc \in pcs
Adding(w, kinds) == \E c \in Senders : send[c].pc = "list" /\ send[c].w = w /\ send[c].k \in kinds

(* A frame that waits is on a station somebody will look at: it is listed, *)
(* in the hands of a pass, or its sender is about to list it.  The only    *)
(* exception is a station that a pass left behind: tx.c:673 lists it again *)
(* only with frames in both queues, and tx.c:546 gives a queue met during  *)
(* a reset or off channel not back.                                        *)
NoFrameForgotten == \A w \in Wcids :
    /\ q[w].pend + q[w].off > 0 =>
          \/ Reached(w) \/ Held(w, {"drain", "post", "readd"})
          \/ Adding(w, {"pend", "off"}) \/ "list" \in ghost.passed[w]
    /\ q[w].txq > 0 =>
          \/ w \in active \/ Held(w, {"burst", "put", "return"})
          \/ Adding(w, {"txq"}) \/ "txq" \in ghost.passed[w]

(* A blocked queue has the tokens out that block it, or the poll that took *)
(* the last of them back is about to unblock it (mt76_token_consume and    *)
(* _release).  Exception: a reset that took the tokens away.               *)
BlockedReleased == blocked => tokens >= Limit \/ napi.wake \/ ghost.stuck

(* The margin of mt76_txq_stopped keeps every pass off a full ring, though *)
(* the test and the post are under different locks and two passes may run. *)
NoOverrun == ~ghost.overrun

(* A removed station is on no list and has no frames, whatever pass was    *)
(* working on it (mt76_wcid_cleanup against tx.c:650-676).                 *)
StationGone == \A w \in Wcids : sta[w] = "gone" =>
    ~Reached(w) /\ q[w].pend + q[w].off = 0

(* While a reset releases the tokens and empties the rings, no pass and no *)
(* poll runs, a channel change that enables the worker notwithstanding.    *)
TornQuiet == ctl.rs = "tear" =>
    /\ \A r \in Runners : run[r].pc = "idle"
    /\ worker.parked /\ napi.pc = "off"

(* A waiting frame gets out, unless a pass left it behind, or a reset left *)
(* the queue blocked or the chip dead.                                     *)
Drains == \A w \in Wcids :
    /\ q[w].txq > 0 ~> \/ q[w].txq = 0 \/ "txq" \in ghost.passed[w] \/ ghost.stuck
    /\ q[w].pend + q[w].off > 0 ~>
          \/ q[w].pend + q[w].off = 0 \/ "list" \in ghost.passed[w] \/ ghost.stuck
=============================================================================
