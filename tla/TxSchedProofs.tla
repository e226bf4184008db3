---------------------------- MODULE TxSchedProofs ----------------------------
(***************************************************************************)
(* Safety properties of TxSched for any number of stations, senders,       *)
(* frames, resets and channel changes and any size of the ring and of the  *)
(* token pool.                                                             *)
(***************************************************************************)
EXTENDS TxSched, FiniteSetTheorems, TLAPS

CtlRec == [reset : BOOLEAN, offch : BOOLEAN, mutex : {"none", "rs", "ch"},
           rs : {"idle", "lock", "park", "napi", "tear", "fw", "end"},
           ch : {"idle", "park"}, sends : Nat, resets : Nat, tries : Nat, chans : Nat]

Fields == {"pc", "list", "w", "head", "ret", "skip", "seen", "more"}
IsRun(x) == x = [k \in Fields |-> x[k]]

(* What the proofs need of the types.                                      *)
Shape ==
    /\ run = [r \in Runners |-> run[r]] /\ \A r \in Runners : IsRun(run[r])
    /\ worker \in [sched : BOOLEAN, parked : BOOLEAN]
    /\ queued \in Nat /\ tokens \in Int /\ blocked \in BOOLEAN
    /\ napi \in [pc : {"idle", "free", "end", "off"}, wake : BOOLEAN]
    /\ ctl \in CtlRec
    /\ ghost = [passed |-> ghost.passed, stuck |-> ghost.stuck, overrun |-> ghost.overrun]

(* r is past a test of the ring and about to put a frame on it.            *)
Posting(r) == run[r].pc \in {"post", "put"} \/ (run[r].pc = "burst" /\ run[r].ret = 0)
One(r)     == IF Posting(r) THEN 1 ELSE 0

(* What the margin of mt76_txq_stopped leaves is shared by those who are   *)
(* about to post: every test of the ring was made with room for them all.  *)
Room == \A r \in Runners : Posting(r) =>
           queued + One("worker") + One("reset") <= Ndesc - FreeThr + 1

(* dev->mutex is held by a reset past its lock and by a channel change.    *)
Locked == /\ ctl.rs \in {"park", "napi", "tear", "fw"} <=> ctl.mutex = "rs"
          /\ ctl.ch = "park" <=> ctl.mutex = "ch"

(* From mt76_worker_disable to mt76_worker_enable no pass runs.            *)
Quiet == /\ ctl.rs \in {"napi", "tear"} => worker.parked /\ \A r \in Runners : run[r].pc = "idle"
         /\ ctl.rs = "tear" <=> napi.pc = "off"

(* The poll carries the wake decision only from a release to its end.      *)
Carried == napi.pc \in {"idle", "off"} => ~napi.wake

IInv == Shape /\ Room /\ Locked /\ Quiet /\ Carried /\ BlockedReleased /\ NoOverrun

-----------------------------------------------------------------------------
(* A step of r alone, to one of pcs.                                       *)
Step(r, pcs) == /\ \A s \in Runners \ {r} : run'[s] = run[s]
                /\ run' = [s \in Runners |-> run'[s]] /\ IsRun(run'[r])
                /\ run'[r].pc \in pcs

(* An assignment to a pass's record, as such a step.                       *)
LEMMA Update ==
  ASSUME Shape, NEW r \in Runners, NEW y, IsRun(y), run' = [run EXCEPT ![r] = y],
         NEW pcs, y.pc \in pcs
  PROVE  Step(r, pcs) /\ run'[r] = y
  BY DEF Shape, Step

(* Where each step of mt76_txq_schedule_pending leaves its pass.           *)
LEMMA PendingMoves ==
  ASSUME Shape, NEW r \in Runners
  PROVE  /\ Splice(r) => Step(r, {"pop"})
         /\ Pop(r) => Step(r, {"readd", "drain"})
         /\ PendingDone(r) => Step(r, {"next"})
         /\ Drained(r) => Step(r, {"drain", "readd"})
         /\ NotNow(r) => Step(r, {"readd"})
         /\ Take(r) => Step(r, {"post"})
         /\ Post(r) => Step(r, {"drain"})
         /\ Readd(r) => Step(r, {"pop"})
  <1>1. IsRun(run[r])  BY DEF Shape
  <1>2. Splice(r) => Step(r, {"pop"})  BY DEF Splice, Shape, IsRun, Fields, Step
  <1>3. ASSUME Pop(r) PROVE Step(r, {"readd", "drain"})
    <2> DEFINE p == IF run[r].ret < 0 THEN "readd" ELSE "drain"
               b == run[r].ret < 0
               u == Head(run[r].list)
               t == Tail(run[r].list)
               y == [run[r] EXCEPT !.w = u, !.list = t, !.head = "off", !.skip = b, !.pc = p]
    <2>1. run' = [run EXCEPT ![r] = y]  BY <1>3 DEF Pop
    <2>2. p \in {"readd", "drain"}  OBVIOUS
    <2> HIDE DEF p, b, u, t
    <2>3. IsRun(y) /\ y.pc = p  BY <1>1 DEF IsRun, Fields
    <2> HIDE DEF y
    <2> QED BY <2>1, <2>2, <2>3, Update
  <1>4. PendingDone(r) => Step(r, {"next"})
    BY DEF PendingDone, Idle, Shape, IsRun, Fields, Step
  <1>5. ASSUME Drained(r) PROVE Step(r, {"drain", "readd"})
    <2> DEFINE y == NextHead(r)
    <2>1. run' = [run EXCEPT ![r] = y]  BY <1>5 DEF Drained
    <2>2. IsRun(y) /\ y.pc \in {run[r].pc, "readd"}  BY <1>1 DEF IsRun, Fields, NextHead
    <2>3. run[r].pc = "drain"  BY <1>5 DEF Drained
    <2> HIDE DEF y
    <2> QED BY <2>1, <2>2, <2>3, Update
  <1>6. ASSUME NotNow(r) PROVE Step(r, {"readd"})
    <2> DEFINE y == [run[r] EXCEPT !.ret = -1, !.skip = TRUE, !.pc = "readd"]
    <2>1. run' = [run EXCEPT ![r] = y]  BY <1>6 DEF NotNow
    <2>2. IsRun(y) /\ y.pc = "readd"  BY <1>1 DEF IsRun, Fields
    <2> HIDE DEF y
    <2> QED BY <2>1, <2>2, Update
  <1>7. ASSUME Take(r) PROVE Step(r, {"post"})
    <2> DEFINE y == [run[r] EXCEPT !.pc = "post"]
    <2>1. run' = [run EXCEPT ![r] = y]  BY <1>7 DEF Take
    <2>2. IsRun(y) /\ y.pc \in {"post"}  BY <1>1 DEF IsRun, Fields
    <2> HIDE DEF y
    <2> QED BY <2>1, <2>2, Update
  <1>8. Post(r) => Step(r, {"drain"})  BY DEF Post, Shape, IsRun, Fields, Step
  <1>9. ASSUME Readd(r) PROVE Step(r, {"pop"})
    <2> DEFINE y == [run[r] EXCEPT !.pc = "pop", !.w = "none", !.head = "off", !.skip = FALSE]
    <2>1. run' = [run EXCEPT ![r] = y]  BY <1>9 DEF Readd
    <2>2. IsRun(y) /\ y.pc = "pop"  BY <1>1 DEF IsRun, Fields
    <2> HIDE DEF y
    <2> QED BY <2>1, <2>2, Update
  <1> QED BY <1>2, <1>3, <1>4, <1>5, <1>6, <1>7, <1>8, <1>9

(* The same for mt76_txq_schedule; a burst begins after a test of the ring, *)
(* and goes on only after another.                                         *)
LEMMA TxqMoves ==
  ASSUME Shape, NEW r \in Runners
  PROVE  /\ Round(r) => Step(r, {"next", "idle"})
         /\ \A w \in Wcids : Offer(r, w) =>
               /\ Step(r, {"next", "return", "burst"})
               /\ run'[r].pc = "burst" => ~Near(queued')
         /\ Dequeue(r) => /\ Step(r, {"put", "return"})
                          /\ run'[r].pc = "put" => Posting(r) \/ ~Near(queued)
         /\ Put(r) => /\ Step(r, {"burst", "return"})
                      /\ run'[r].pc = "burst" => run'[r].ret = 1
         /\ Return(r) => Step(r, {"idle", "next"})
  <1>1. IsRun(run[r])  BY DEF Shape
  <1>2. Round(r) => Step(r, {"next", "idle"})
    BY DEF Round, Idle, Shape, IsRun, Fields, Step
  <1>3. ASSUME NEW w \in Wcids, Offer(r, w)
        PROVE  /\ Step(r, {"next", "return", "burst"})
               /\ run'[r].pc = "burst" => ~Near(queued')
    <2> DEFINE here == sta[w] = "up" /\ ~ctl.reset /\ ~ctl.offch
               a == run[r].seen \cup {w}
               u == IF here THEN w ELSE "none"
               p == IF ~here THEN "next" ELSE IF blocked \/ Near(queued')
                                            THEN "return" ELSE "burst"
               y == [run[r] EXCEPT !.seen = a, !.w = u, !.ret = 0, !.pc = p]
    <2>1. run' = [run EXCEPT ![r] = y]  BY <1>3 DEF Offer
    <2>2. p \in {"next", "return", "burst"} /\ (p = "burst" => ~Near(queued'))  OBVIOUS
    <2> HIDE DEF p, u, a
    <2>3. IsRun(y) /\ y.pc = p  BY <1>1 DEF IsRun, Fields
    <2> HIDE DEF y
    <2> QED BY <2>1, <2>2, <2>3, Update
  <1>4. ASSUME Dequeue(r)
        PROVE  /\ Step(r, {"put", "return"})
               /\ run'[r].pc = "put" => Posting(r) \/ ~Near(queued)
    <2>1. Step(r, {"put", "return"})
      BY <1>4 DEF Dequeue, Shape, IsRun, Fields, Step
    <2>2. run'[r].pc = "put" => run[r].ret = 0 \/ ~Stopped
      BY <1>4, <1>1 DEF Dequeue, Shape, IsRun, Fields
    <2> QED BY <1>4, <2>1, <2>2 DEF Dequeue, Posting, Stopped
  <1>5. ASSUME Put(r)
        PROVE  /\ Step(r, {"burst", "return"})
               /\ run'[r].pc = "burst" => run'[r].ret = 1
    <2> DEFINE n == IF run[r].ret = 0 THEN -1 ELSE run[r].ret
               y == [run[r] EXCEPT !.ret = 1, !.pc = "burst"]
               z == [run[r] EXCEPT !.ret = n, !.pc = "return"]
    <2>1. run' = [run EXCEPT ![r] = y] \/ run' = [run EXCEPT ![r] = z]  BY <1>5 DEF Put
    <2> HIDE DEF n
    <2>2. IsRun(y) /\ y.pc = "burst" /\ y.ret = 1  BY <1>1 DEF IsRun, Fields
    <2>3. IsRun(z) /\ z.pc = "return"  BY <1>1 DEF IsRun, Fields
    <2> HIDE DEF y, z
    <2>4. y.pc \in {"burst", "return"} /\ z.pc \in {"burst", "return"}  BY <2>2, <2>3
    <2>5. CASE run' = [run EXCEPT ![r] = y]  BY <2>2, <2>4, <2>5, Update
    <2>6. CASE run' = [run EXCEPT ![r] = z]  BY <2>3, <2>4, <2>6, Update
    <2> QED BY <2>1, <2>5, <2>6
  <1>6. ASSUME Return(r) PROVE Step(r, {"idle", "next"})
    <2> DEFINE m == run[r].more \/ run[r].ret > 0
               y == [run[r] EXCEPT !.pc = "next", !.w = "none", !.more = m]
    <2>1. run' = [run EXCEPT ![r] = y] \/ run' = [run EXCEPT ![r] = Idle]
      BY <1>6 DEF Return
    <2> HIDE DEF m
    <2>2. IsRun(y) /\ y.pc \in {"idle", "next"}  BY <1>1 DEF IsRun, Fields
    <2>3. IsRun(Idle) /\ Idle.pc \in {"idle", "next"}  BY DEF Idle, IsRun, Fields
    <2> HIDE DEF y
    <2>4. CASE run' = [run EXCEPT ![r] = y]     BY <2>2, <2>4, Update
    <2>5. CASE run' = [run EXCEPT ![r] = Idle]  BY <2>3, <2>5, Update
    <2> QED BY <2>1, <2>4, <2>5
  <1> QED BY <1>2, <1>3, <1>4, <1>5, <1>6

-----------------------------------------------------------------------------
(* MT_TXQ_FREE_THR leaves an entry for each pass, and one more.            *)
LEMMA Margin == FreeThr >= 3 /\ Ndesc \in Nat /\ FreeThr \in Nat
  <1>1. IsFiniteSet({"worker"}) /\ Cardinality({"worker"}) = 1
    BY FS_Singleton
  <1>2. Cardinality({"worker"} \cup {"reset"}) = 2
    BY <1>1, FS_AddElement
  <1>3. Runners = {"worker"} \cup {"reset"}
    BY DEF Runners
  <1> QED BY <1>2, <1>3, TxAssumption

(* The count behind RoomStep: n is q->queued before and m after the step   *)
(* of a pass that was and will be about to post as b and c say; the other  *)
(* pass is about to post or not, as a says.                                *)
LEMMA Count ==
  ASSUME NEW n \in Nat, NEW m \in Nat, NEW D \in Nat, NEW F \in Nat,
         NEW a \in {0, 1}, NEW b \in {0, 1}, NEW c \in {0, 1},
         a = 1 \/ b = 1 => n + (b + a) <= D - F + 1,
         a = 1 \/ c = 1,
         \/ m <= n /\ (c = 1 => b = 1 \/ ~(m + F >= D))
         \/ m = n + 1 /\ b = 1 /\ c = 0
  PROVE  m + (c + a) <= D - F + 1
  OBVIOUS

(* Room is kept by a pass that takes a test with room or posts, if the     *)
(* ring otherwise only empties.                                            *)
LEMMA RoomStep ==
  ASSUME IInv, NEW r \in Runners, NEW pcs, Step(r, pcs), queued' \in Nat,
         \/ queued' <= queued /\ (Posting(r)' => Posting(r) \/ ~Near(queued'))
         \/ queued' = queued + 1 /\ Posting(r) /\ ~Posting(r)'
  PROVE  Room'
  <1>1. Ndesc \in Nat /\ FreeThr \in Nat /\ queued \in Nat
    BY Margin DEF IInv, Shape
  <1>2. PICK s \in Runners : Runners = {r, s} /\ s # r
    BY DEF Runners
  <1>3. Posting(s)' <=> Posting(s)
    BY <1>2 DEF Step, Posting
  <1>4. \A t \in Runners : /\ One(t) = IF Posting(t) THEN 1 ELSE 0
                           /\ One(t)' = IF Posting(t)' THEN 1 ELSE 0
    BY DEF One
  <1>5. /\ One("worker") + One("reset") = One(r) + One(s)
        /\ One("worker")' + One("reset")' = One(r)' + One(s)'
    BY <1>2, <1>4 DEF Runners
  <1>6. \A t \in Runners : /\ Posting(t) => queued + (One(r) + One(s)) <= Ndesc - FreeThr + 1
    <2>1. \A t \in Runners : One(t) \in Int
      BY <1>4
    <2>2. queued + One("worker") + One("reset") = queued + (One("worker") + One("reset"))
      BY <1>1, <2>1 DEF Runners
    <2> QED BY <1>5, <2>2 DEF IInv, Room
  <1>7. \A t \in Runners : Posting(t)' => queued' + (One(r)' + One(s)') <= Ndesc - FreeThr + 1
    <2> SUFFICES ASSUME NEW t \in Runners, Posting(t)'
                 PROVE  queued' + (One(r)' + One(s)') <= Ndesc - FreeThr + 1
      OBVIOUS
    <2>1. /\ One(r) \in {0, 1} /\ One(s) \in {0, 1} /\ One(r)' \in {0, 1}
          /\ One(s)' = One(s)
          /\ Posting(r) <=> One(r) = 1
          /\ Posting(s) <=> One(s) = 1
          /\ Posting(r)' <=> One(r)' = 1
      BY <1>2, <1>3, <1>4
    <2>2. One(s) = 1 \/ One(r) = 1 => queued + (One(r) + One(s)) <= Ndesc - FreeThr + 1
      BY <1>2, <1>6, <2>1
    <2>3. One(s) = 1 \/ One(r)' = 1
      BY <1>2, <1>3, <2>1
    <2>4. \/ queued' <= queued /\ (One(r)' = 1 => One(r) = 1 \/ ~(queued' + FreeThr >= Ndesc))
          \/ queued' = queued + 1 /\ One(r) = 1 /\ One(r)' = 0
      BY <2>1 DEF Near
    <2> QED BY <1>1, <2>1, <2>2, <2>3, <2>4, Count
  <1>8. queued' + One("worker")' + One("reset")' = queued' + (One("worker")' + One("reset")')
    <2>1. One("worker")' \in Int /\ One("reset")' \in Int
      BY <1>4 DEF Runners
    <2> QED BY <2>1
  <1> QED BY <1>5, <1>7, <1>8 DEF Room

(* A pass that is about to post does not meet a full ring.                 *)
LEMMA PostingHasRoom ==
  ASSUME IInv, NEW r \in Runners, Posting(r)
  PROVE  ~RingFull
  <1>1. queued \in Nat /\ One("worker") + One("reset") >= 1
    BY DEF IInv, Shape, One, Runners
  <1>2. queued + One("worker") + One("reset") <= Ndesc - FreeThr + 1
    BY DEF IInv, Room
  <1>3. One("worker") \in {0, 1} /\ One("reset") \in {0, 1}
    BY DEF One
  <1> QED BY <1>1, <1>2, <1>3, Margin DEF RingFull

(* The passes keep the invariant, step by step: what is left is that the   *)
(* ring and the tokens change as one of three cases says.                  *)
LEMMA PassKeeps ==
  ASSUME IInv, NEW r \in Runners, NEW pcs, Step(r, pcs), run[r].pc # "idle",
         UNCHANGED <<worker, napi, ctl>>,
         ghost' = [passed |-> ghost'.passed, stuck |-> ghost'.stuck, overrun |-> ghost'.overrun],
         ghost'.stuck = ghost.stuck, ~ghost'.overrun,
         \/ /\ Posted /\ Posting(r) /\ ~Posting(r)'
         \/ /\ queued' \in Nat /\ queued' <= queued /\ UNCHANGED <<tokens, blocked>>
            /\ Posting(r)' => Posting(r) \/ ~Near(queued')
  PROVE  IInv'
  <1>1. queued' \in Nat /\ tokens' \in Int /\ blocked' \in BOOLEAN
    <2>1. queued \in Nat /\ tokens \in Int /\ blocked \in BOOLEAN
      BY DEF IInv, Shape
    <2>2. CASE Posted  BY <2>1, <2>2 DEF Posted
    <2>3. CASE ~Posted  BY <2>1, <2>3
    <2> QED BY <2>2, <2>3
  <1>2. Shape'
    BY <1>1 DEF IInv, Shape, Step
  <1>3. Room'
    BY <1>1, RoomStep DEF Posted
  <1>4. ctl.rs \notin {"napi", "tear"}
    BY DEF IInv, Quiet
  <1>5. Locked' /\ Quiet' /\ Carried'
    BY <1>4 DEF IInv, Locked, Quiet, Carried
  <1>6. BlockedReleased'
    <2>1. Limit \in Int /\ tokens \in Int
      BY TxAssumption DEF Limit, IInv, Shape
    <2>2. CASE Posted
      <3>1. blocked' <=> blocked \/ tokens' >= Limit
        BY <2>2 DEF Posted
      <3>2. tokens >= Limit => tokens' >= Limit
        BY <2>1, <2>2 DEF Posted
      <3>3. napi'.wake = napi.wake
        OBVIOUS
      <3> QED BY <3>1, <3>2, <3>3 DEF IInv, BlockedReleased
    <2>3. CASE ~Posted  BY <2>3 DEF IInv, BlockedReleased
    <2> QED BY <2>2, <2>3
  <1> QED BY <1>2, <1>3, <1>5, <1>6 DEF IInv, NoOverrun

-----------------------------------------------------------------------------
(* A driver that starts has no passes.                                     *)
LEMMA InitIInv == Init => IInv
  <1> SUFFICES ASSUME Init PROVE IInv  OBVIOUS
  <1>1. \A r \in Runners : run[r] = Idle
    BY DEF Init
  <1>2. Shape
    <2>1. IsRun(Idle)
      BY DEF Idle, IsRun, Fields
    <2>2. run = [r \in Runners |-> run[r]] /\ \A r \in Runners : IsRun(run[r])
      BY <1>1, <2>1 DEF Init
    <2>3. /\ worker = [sched |-> FALSE, parked |-> FALSE]
          /\ queued = 0 /\ tokens = 0 /\ blocked = FALSE
          /\ napi = [pc |-> "idle", wake |-> FALSE]
      BY DEF Init
    <2>4. /\ worker \in [sched : BOOLEAN, parked : BOOLEAN]
          /\ napi \in [pc : {"idle", "free", "end", "off"}, wake : BOOLEAN]
      <3>1. worker \in [sched : BOOLEAN, parked : BOOLEAN]
        BY <2>3
      <3>2. napi \in [pc : {"idle", "free", "end", "off"}, wake : BOOLEAN]
        BY <2>3
      <3> QED BY <3>1, <3>2
    <2>5. queued \in Nat /\ tokens \in Int /\ blocked \in BOOLEAN
      <3>1. queued \in Nat /\ tokens \in Int
        BY <2>3
      <3>2. blocked \in BOOLEAN
        BY <2>3
      <3> QED BY <3>1, <3>2
    <2>6. ctl \in CtlRec
      BY DEF Init, CtlRec
    <2>7. ghost = [passed |-> ghost.passed, stuck |-> ghost.stuck, overrun |-> ghost.overrun]
      BY DEF Init
    <2> QED BY <2>2, <2>4, <2>5, <2>6, <2>7 DEF Shape
  <1>3. Room /\ Quiet
    BY <1>1 DEF Init, Room, Quiet, Posting, Idle
  <1>4. Locked /\ Carried /\ BlockedReleased /\ NoOverrun
    BY DEF Init, Locked, Carried, BlockedReleased, NoOverrun
  <1> QED BY <1>2, <1>3, <1>4 DEF IInv

(* Steps that touch neither the passes nor the ring.                       *)
LEMMA Elsewhere ==
  ASSUME IInv, UNCHANGED <<run, queued, tokens, blocked, napi>>,
         worker' \in [sched : BOOLEAN, parked : BOOLEAN], ctl' \in CtlRec,
         ghost' = [passed |-> ghost'.passed, stuck |-> ghost'.stuck, overrun |-> ghost'.overrun],
         ghost.stuck => ghost'.stuck, ghost'.overrun = ghost.overrun,
         Locked', Quiet'
  PROVE  IInv'
  <1>1. Shape'
    BY DEF IInv, Shape
  <1>2. Room' /\ Carried'
    BY DEF IInv, Room, One, Posting, Carried
  <1>3. BlockedReleased' /\ NoOverrun'
    BY DEF IInv, BlockedReleased, NoOverrun
  <1> QED BY <1>1, <1>2, <1>3 DEF IInv

(* mt76_tx and mt76_wake_tx_queue keep the invariant.                      *)
LEMMA SenderPreserves ==
  ASSUME IInv, NEW c \in Senders,
         SendStep(c) \/ \E w \in Wcids, k \in Kinds : Enqueue(c, w, k)
  PROVE  IInv'
  <1>1. /\ UNCHANGED <<run, queued, tokens, blocked, napi>>
        /\ ghost'.stuck = ghost.stuck /\ ghost'.overrun = ghost.overrun
        /\ ghost' = [passed |-> ghost'.passed, stuck |-> ghost'.stuck, overrun |-> ghost'.overrun]
    BY DEF SendStep, List, WakeWorker, Enqueue, hw, IInv, Shape
  <1>2. worker' \in [sched : BOOLEAN, parked : BOOLEAN] /\ worker'.parked = worker.parked
    <2>1. worker' = worker \/ worker' = [worker EXCEPT !.sched = TRUE]
      BY DEF SendStep, List, WakeWorker, Enqueue, Announce
    <2> QED BY <2>1 DEF IInv, Shape
  <1>3. ctl' \in CtlRec /\ ctl'.rs = ctl.rs /\ ctl'.ch = ctl.ch /\ ctl'.mutex = ctl.mutex
    <2>1. ctl' = ctl \/ ctl' = [ctl EXCEPT !.sends = @ + 1]
      BY DEF SendStep, List, WakeWorker, Enqueue
    <2>2. ctl \in CtlRec
      BY DEF IInv, Shape
    <2>3. ctl.sends + 1 \in Nat
      BY <2>2 DEF CtlRec
    <2> QED BY <2>1, <2>2, <2>3 DEF CtlRec
  <1>4. Locked' /\ Quiet'
    BY <1>1, <1>2, <1>3 DEF IInv, Locked, Quiet
  <1> QED BY <1>1, <1>2, <1>3, <1>4, Elsewhere

(* mt76_txq_schedule_all keeps the invariant, whoever runs it.             *)
LEMMA PassPreserves ==
  ASSUME IInv, NEW r \in Runners, RunStep(r)
  PROVE  IInv'
  <1> DEFINE Marked == /\ ghost' = [passed |-> ghost'.passed, stuck |-> ghost'.stuck,
                                    overrun |-> ghost'.overrun]
                       /\ ghost'.stuck = ghost.stuck /\ ghost'.overrun = ghost.overrun
             Still == UNCHANGED <<worker, napi, ctl, queued, tokens, blocked>>
  <1>1. Shape /\ queued \in Nat /\ ~ghost.overrun
    BY DEF IInv, Shape, NoOverrun
  <1>2. ASSUME NEW pcs, Step(r, pcs), run[r].pc # "idle", Marked, Still,
               ~Posting(r)' \/ Posting(r) \/ ~Near(queued')
        PROVE  IInv'
    BY <1>1, <1>2, PassKeeps
  <1>3. CASE Splice(r)
    <2>1. Step(r, {"pop"}) /\ run[r].pc # "idle" /\ Marked /\ Still
      BY <1>1, <1>3, PendingMoves DEF Splice, hw, Shape
    <2> QED BY <1>2, <2>1 DEF Step, Posting
  <1>4. CASE Pop(r)
    <2>1. Step(r, {"readd", "drain"}) /\ run[r].pc # "idle" /\ Still
      BY <1>1, <1>4, PendingMoves DEF Pop, hw
    <2>2. Marked
      BY <1>1, <1>4 DEF Pop, Shape
    <2> QED BY <1>2, <2>1, <2>2 DEF Step, Posting
  <1>5. CASE PendingDone(r)
    <2>1. Step(r, {"next"}) /\ run[r].pc # "idle" /\ Marked /\ Still
      BY <1>1, <1>5, PendingMoves DEF PendingDone, hw, Shape
    <2> QED BY <1>2, <2>1 DEF Step, Posting
  <1>6. CASE Drained(r)
    <2>1. Step(r, {"drain", "readd"}) /\ run[r].pc # "idle" /\ Marked /\ Still
      BY <1>1, <1>6, PendingMoves DEF Drained, hw, Shape
    <2> QED BY <1>2, <2>1 DEF Step, Posting
  <1>7. CASE NotNow(r)
    <2>1. Step(r, {"readd"}) /\ run[r].pc # "idle" /\ Marked /\ Still
      BY <1>1, <1>7, PendingMoves DEF NotNow, hw, Shape
    <2> QED BY <1>2, <2>1 DEF Step, Posting
  <1>8. CASE Take(r)
    <2>1. Step(r, {"post"}) /\ run[r].pc # "idle" /\ Marked /\ Still
      BY <1>1, <1>8, PendingMoves DEF Take, hw, Shape
    <2>2. ~Near(queued')
      BY <1>8, <2>1 DEF Take, Stopped
    <2> QED BY <1>2, <2>1, <2>2
  <1>9. ASSUME NEW pcs, Step(r, pcs), Posting(r), ~Posting(r)', run[r].pc # "idle",
               UNCHANGED <<worker, napi, ctl>>,
               \/ Posted /\ UNCHANGED ghost
               \/ Refused /\ ghost' = [ghost EXCEPT !.overrun = Overrun]
        PROVE  IInv'
    <2>1. ~Overrun
      BY <1>1, <1>9, PostingHasRoom DEF Overrun
    <2>2. /\ ghost' = [passed |-> ghost'.passed, stuck |-> ghost'.stuck, overrun |-> ghost'.overrun]
          /\ ghost'.stuck = ghost.stuck /\ ~ghost'.overrun
      BY <1>1, <1>9, <2>1 DEF Shape
    <2>3. CASE Posted
      BY <1>9, <2>2, <2>3, PassKeeps
    <2>4. CASE Refused
      BY <1>1, <1>9, <2>2, <2>4, PassKeeps DEF Refused
    <2> QED BY <1>9, <2>3, <2>4
  <1>10. CASE Post(r)
    <2>1. Step(r, {"drain"})
      BY <1>1, <1>10, PendingMoves
    <2>2. Posting(r) /\ ~Posting(r)' /\ run[r].pc # "idle"
      BY <1>10, <2>1 DEF Post, Step, Posting
    <2> QED BY <1>9, <1>10, <2>1, <2>2 DEF Post
  <1>11. CASE Readd(r)
    <2>1. Step(r, {"pop"}) /\ run[r].pc # "idle" /\ Still
      BY <1>1, <1>11, PendingMoves DEF Readd, hw
    <2>2. Marked
      BY <1>1, <1>11 DEF Readd, PassOver, Shape
    <2> QED BY <1>2, <2>1, <2>2 DEF Step, Posting
  <1>12. CASE Round(r)
    <2>1. Step(r, {"next", "idle"}) /\ run[r].pc # "idle" /\ Marked /\ Still
      BY <1>1, <1>12, TxqMoves DEF Round, hw, Shape
    <2> QED BY <1>2, <2>1 DEF Step, Posting
  <1>13. CASE Dequeue(r)
    <2>1. /\ Step(r, {"put", "return"}) /\ run[r].pc # "idle" /\ Marked /\ Still
          /\ run'[r].pc = "put" => Posting(r) \/ ~Near(queued)
      BY <1>1, <1>13, TxqMoves DEF Dequeue, hw, Shape
    <2>2. ~Posting(r)' \/ Posting(r) \/ ~Near(queued')
      BY <2>1 DEF Step, Posting
    <2> QED BY <1>2, <2>1, <2>2
  <1>14. CASE Put(r)
    <2>1. /\ Step(r, {"burst", "return"})
          /\ run'[r].pc = "burst" => run'[r].ret = 1
      BY <1>1, <1>14, TxqMoves
    <2>2. Posting(r) /\ ~Posting(r)' /\ run[r].pc # "idle"
      BY <1>14, <2>1 DEF Put, Step, Posting
    <2> QED BY <1>9, <1>14, <2>1, <2>2 DEF Put
  <1>15. CASE Return(r)
    <2>1. Step(r, {"idle", "next"}) /\ run[r].pc # "idle" /\ Still
      BY <1>1, <1>15, TxqMoves DEF Return, hw
    <2>2. Marked
      BY <1>1, <1>15 DEF Return, Shape
    <2> QED BY <1>2, <2>1, <2>2 DEF Step, Posting
  <1>16. CASE \E w \in Wcids : Offer(r, w)
    <2>1. PICK w \in Wcids : Offer(r, w)
      BY <1>16
    <2>2. /\ Step(r, {"next", "return", "burst"})
          /\ run'[r].pc = "burst" => ~Near(queued')
      BY <1>1, <2>1, TxqMoves
    <2>3. Marked /\ run[r].pc # "idle" /\ UNCHANGED <<worker, napi, ctl, tokens, blocked>>
      BY <1>1, <2>1 DEF Offer, PassOver, Shape
    <2>4. queued' \in Nat /\ queued' <= queued
      BY <1>1, <2>1 DEF Offer, Clean
    <2>5. Posting(r)' => ~Near(queued')
      BY <2>2 DEF Step, Posting
    <2> QED BY <1>1, <2>2, <2>3, <2>4, <2>5, PassKeeps
  <1> QED BY <1>3, <1>4, <1>5, <1>6, <1>7, <1>8, <1>10, <1>11, <1>12, <1>13, <1>14,
             <1>15, <1>16 DEF RunStep

(* The worker starts a pass only while it is not parked.                   *)
LEMMA StartPreserves == IInv /\ StartWorker => IInv'
  <1> SUFFICES ASSUME IInv, StartWorker PROVE IInv'  OBVIOUS
  <1>1. Shape /\ "worker" \in Runners
    BY DEF IInv, Runners
  <1>2. Step("worker", {"splice"}) /\ ~worker.parked
    BY <1>1 DEF StartWorker, Shape, Step, IsRun, Fields
  <1>3. /\ worker' \in [sched : BOOLEAN, parked : BOOLEAN]
        /\ UNCHANGED <<queued, tokens, blocked, napi, ctl, ghost>>
    BY <1>1 DEF StartWorker, hw, Shape
  <1>4. Shape'
    BY <1>1, <1>2, <1>3 DEF Shape, Step
  <1>5. Room'
    <2>1. ~Posting("worker")' /\ queued' \in Nat /\ queued' <= queued
      BY <1>1, <1>2, <1>3 DEF Posting, Step, Shape
    <2> QED BY <1>1, <1>2, <2>1, RoomStep
  <1>6. Locked' /\ Carried' /\ BlockedReleased' /\ NoOverrun'
    BY <1>3 DEF IInv, Locked, Carried, BlockedReleased, NoOverrun
  <1>7. Quiet'
    BY <1>2, <1>3 DEF IInv, Quiet
  <1> QED BY <1>4, <1>5, <1>6, <1>7 DEF IInv

(* The ring empties, and nothing else happens to it or to the passes.      *)
LEMMA RoomLess ==
  ASSUME IInv, UNCHANGED run, queued' \in Nat, queued' <= queued
  PROVE  Room'
  <1>1. \A r \in Runners : (Posting(r)' <=> Posting(r)) /\ One(r)' = One(r) /\ One(r) \in Nat
    BY DEF Posting, One
  <1>2. One("worker") \in Nat /\ One("reset") \in Nat
        /\ One("worker")' = One("worker") /\ One("reset")' = One("reset")
    BY <1>1 DEF Runners
  <1>3. queued \in Nat
    BY DEF IInv, Shape
  <1>4. queued' + One("worker") + One("reset") <= queued + One("worker") + One("reset")
    BY <1>2, <1>3
  <1> SUFFICES ASSUME NEW r \in Runners, Posting(r)'
               PROVE  queued' + One("worker")' + One("reset")' <= Ndesc - FreeThr + 1
    BY DEF Room
  <1>5. queued + One("worker") + One("reset") <= Ndesc - FreeThr + 1
    BY <1>1 DEF IInv, Room
  <1> QED BY <1>2, <1>3, <1>4, <1>5, Margin

(* The poll: the last token below the limit carries the wake-up along.     *)
LEMMA PollPreserves == IInv /\ Poll => IInv'
  <1> SUFFICES ASSUME IInv, Poll PROVE IInv'  OBVIOUS
  <1>1. Shape
    BY DEF IInv
  <1>2. CASE FreeStart
    <2>1. /\ queued' \in Nat /\ queued' <= queued /\ napi' = [pc |-> "free", wake |-> FALSE]
          /\ UNCHANGED <<run, worker, tokens, blocked, ctl, ghost>> /\ napi.pc = "idle"
      BY <1>1, <1>2 DEF FreeStart, Clean, Shape
    <2>2. Shape'
      BY <1>1, <2>1 DEF Shape
    <2>3. Room'
      BY <2>1, RoomLess
    <2>4. Locked' /\ Quiet' /\ Carried'
      BY <2>1 DEF IInv, Locked, Quiet, Carried
    <2>5. BlockedReleased' /\ NoOverrun'
      BY <2>1 DEF IInv, Carried, BlockedReleased, NoOverrun
    <2> QED BY <2>2, <2>3, <2>4, <2>5 DEF IInv
  <1>3. CASE FreeToken
    <2>1. /\ tokens' = tokens - 1 /\ UNCHANGED <<run, worker, queued, blocked, ctl, ghost>>
          /\ napi.pc = "free"
      BY <1>3 DEF FreeToken
    <2>2. PICK more \in BOOLEAN :
            napi' = [pc |-> IF more THEN "free" ELSE "end",
                     wake |-> napi.wake \/ WakeNeeded(tokens - 1)]
      BY <1>3 DEF FreeToken
    <2>3. /\ napi'.pc \in {"free", "end"}
          /\ napi' \in [pc : {"idle", "free", "end", "off"}, wake : BOOLEAN]
          /\ napi'.wake <=> napi.wake \/ WakeNeeded(tokens - 1)
      BY <1>1, <2>2 DEF Shape, WakeNeeded
    <2>4. Shape'
      BY <1>1, <2>1, <2>3 DEF Shape
    <2>5. Room'
      BY <1>1, <2>1, RoomLess DEF Shape
    <2>6. Locked' /\ Quiet' /\ Carried'
      BY <2>1, <2>3 DEF IInv, Locked, Quiet, Carried
    <2>7. NoOverrun'
      BY <2>1 DEF IInv, NoOverrun
    <2>8. BlockedReleased'
      <3>1. tokens' >= Limit \/ tokens - 1 < Limit
        <4>1. tokens \in Int /\ Limit \in Int
          BY <1>1, TxAssumption DEF Shape, Limit
        <4> QED BY <2>1, <4>1
      <3>2. blocked => WakeNeeded(tokens - 1) \/ tokens' >= Limit
        BY <3>1 DEF WakeNeeded
      <3> QED BY <2>1, <2>3, <3>2 DEF BlockedReleased
    <2> QED BY <2>4, <2>5, <2>6, <2>7, <2>8 DEF IInv
  <1>4. CASE FreeEnd
    <2>1. /\ blocked' = (blocked /\ ~napi.wake) /\ napi' = [pc |-> "idle", wake |-> FALSE]
          /\ UNCHANGED <<run, queued, tokens, ctl, ghost>> /\ napi.pc = "end"
          /\ worker' = [worker EXCEPT !.sched = TRUE]
      BY <1>4 DEF FreeEnd, Announce
    <2>2. Shape'
      BY <1>1, <2>1 DEF Shape
    <2>3. Room'
      BY <1>1, <2>1, RoomLess DEF Shape
    <2>4. worker'.parked = worker.parked
      BY <1>1, <2>1 DEF Shape
    <2>5. Locked' /\ Quiet' /\ Carried'
      BY <2>1, <2>4 DEF IInv, Locked, Quiet, Carried
    <2>6. NoOverrun' /\ BlockedReleased'
      BY <2>1 DEF IInv, NoOverrun, BlockedReleased
    <2> QED BY <2>2, <2>3, <2>5, <2>6 DEF IInv
  <1> QED BY <1>2, <1>3, <1>4 DEF Poll

(* Removing a station does not touch the ring, and empties lists only.     *)
LEMMA RemovalPreserves ==
  ASSUME IInv, NEW w \in Wcids, Unlink(w) \/ Cleanup(w)
  PROVE  IInv'
  <1>1. Shape
    BY DEF IInv
  <1>2. CASE Unlink(w)
    <2>1. UNCHANGED <<run, worker, queued, tokens, blocked, napi, ctl, ghost>>
      BY <1>2 DEF Unlink, hw
    <2>2. Locked' /\ Quiet'
      BY <2>1 DEF IInv, Locked, Quiet
    <2> QED BY <1>1, <2>1, <2>2, Elsewhere DEF Shape
  <1>3. CASE Cleanup(w)
    <2>1. /\ run' = [r \in Runners |-> [run[r] EXCEPT !.list = RemoveFirst(@, w)]]
          /\ UNCHANGED <<worker, queued, tokens, blocked, napi, ctl>>
          /\ ghost' = [ghost EXCEPT !.passed[w] = {}]
      BY <1>3 DEF Cleanup, hw
    <2>2. ASSUME NEW r \in Runners
          PROVE  IsRun(run'[r]) /\ run'[r].pc = run[r].pc /\ run'[r].ret = run[r].ret
      <3> DEFINE l == RemoveFirst(run[r].list, w)
      <3>1. run'[r] = [run[r] EXCEPT !.list = l]
        BY <2>1
      <3> HIDE DEF l
      <3> QED BY <1>1, <3>1 DEF Shape, IsRun, Fields
    <2>3. run' = [r \in Runners |-> run'[r]]
      BY <2>1
    <2>4. /\ ghost' = [passed |-> ghost'.passed, stuck |-> ghost'.stuck, overrun |-> ghost'.overrun]
          /\ ghost'.stuck = ghost.stuck /\ ghost'.overrun = ghost.overrun
      BY <1>1, <2>1 DEF Shape
    <2>5. Shape'
      BY <1>1, <2>1, <2>2, <2>3, <2>4 DEF Shape
    <2>6. Room'
      BY <2>1, <2>2 DEF IInv, Room, One, Posting, Runners
    <2>7. Locked' /\ Quiet' /\ Carried'
      BY <2>1, <2>2 DEF IInv, Locked, Quiet, Carried
    <2>8. BlockedReleased' /\ NoOverrun'
      BY <2>1, <2>4 DEF IInv, BlockedReleased, NoOverrun
    <2> QED BY <2>5, <2>6, <2>7, <2>8 DEF IInv
  <1> QED BY <1>2, <1>3

(* The reset work: it takes the mutex, runs a pass of its own, parks the   *)
(* worker and stops the poll, and only then releases the tokens.           *)
LEMMA ResetPreserves == IInv /\ (RsStart \/ Reset) => IInv'
  <1> SUFFICES ASSUME IInv, RsStart \/ Reset PROVE IInv'  OBVIOUS
  <1>1. /\ Shape /\ ctl \in CtlRec
        /\ ctl.tries + 1 \in Nat /\ ctl.resets + 1 \in Nat
    BY DEF IInv, Shape, CtlRec
  <1>2. CASE RsStart
    <2>1. /\ UNCHANGED <<run, worker, queued, tokens, blocked, napi, ghost>>
          /\ ctl.rs = "idle"
          /\ ctl' = [ctl EXCEPT !.rs = "lock", !.reset = TRUE, !.resets = @ + 1, !.tries = 0]
      BY <1>2 DEF RsStart
    <2>2. ctl' \in CtlRec /\ ctl'.rs = "lock" /\ ctl'.mutex = ctl.mutex /\ ctl'.ch = ctl.ch
      BY <1>1, <2>1 DEF CtlRec
    <2>3. Locked' /\ Quiet'
      BY <2>1, <2>2 DEF IInv, Locked, Quiet
    <2> QED BY <1>1, <2>1, <2>2, <2>3, Elsewhere DEF Shape
  <1>3. CASE RsLock
    <2>1. /\ UNCHANGED <<worker, queued, tokens, blocked, napi, ghost>>
          /\ ctl.rs = "lock" /\ ctl.mutex = "none"
          /\ ctl' = [ctl EXCEPT !.rs = "park", !.mutex = "rs", !.tries = @ + 1]
          /\ run' = [run EXCEPT !["reset"].pc = "splice"]
      BY <1>3 DEF RsLock, hw
    <2>2. ctl' \in CtlRec /\ ctl'.rs = "park" /\ ctl'.mutex = "rs" /\ ctl'.ch = ctl.ch
      BY <1>1, <2>1 DEF CtlRec
    <2>3. "reset" \in Runners /\ Step("reset", {"splice"})
      BY <1>1, <2>1 DEF Shape, Step, IsRun, Fields, Runners
    <2>4. Shape'
      BY <1>1, <2>1, <2>2, <2>3 DEF Shape, Step
    <2>5. Room'
      <3>1. ~Posting("reset")' /\ queued' \in Nat /\ queued' <= queued
        BY <1>1, <2>1, <2>3 DEF Posting, Step, Shape
      <3> QED BY <2>3, <3>1, RoomStep
    <2>6. Locked' /\ Quiet' /\ Carried'
      BY <2>1, <2>2 DEF IInv, Locked, Quiet, Carried
    <2>7. BlockedReleased' /\ NoOverrun'
      BY <2>1 DEF IInv, BlockedReleased, NoOverrun
    <2> QED BY <2>4, <2>5, <2>6, <2>7 DEF IInv
  <1>4. CASE RsParked
    <2>1. /\ UNCHANGED <<run, queued, tokens, blocked, napi, ghost>>
          /\ ctl.rs = "park" /\ ctl' = [ctl EXCEPT !.rs = "napi"]
          /\ run["reset"].pc = "idle" /\ run["worker"].pc = "idle"
          /\ worker' = [sched |-> FALSE, parked |-> TRUE]
      BY <1>4 DEF RsParked, Parked, hw
    <2>2. ctl' \in CtlRec /\ ctl'.rs = "napi" /\ ctl'.mutex = ctl.mutex /\ ctl'.ch = ctl.ch
      BY <1>1, <2>1 DEF CtlRec
    <2>3. Locked' /\ Quiet'
      BY <2>1, <2>2 DEF IInv, Locked, Quiet, Runners
    <2> QED BY <1>1, <2>1, <2>2, <2>3, Elsewhere DEF Shape
  <1>5. CASE RsNapi
    <2>1. /\ UNCHANGED <<run, worker, queued, tokens, blocked, ghost>>
          /\ ctl.rs = "napi" /\ ctl' = [ctl EXCEPT !.rs = "tear"]
          /\ napi.pc = "idle" /\ napi' = [napi EXCEPT !.pc = "off"]
      BY <1>5 DEF RsNapi
    <2>2. ctl' \in CtlRec /\ ctl'.rs = "tear" /\ ctl'.mutex = ctl.mutex /\ ctl'.ch = ctl.ch
      BY <1>1, <2>1 DEF CtlRec
    <2>3. /\ napi'.pc = "off" /\ napi'.wake = napi.wake
          /\ napi' \in [pc : {"idle", "free", "end", "off"}, wake : BOOLEAN]
      BY <1>1, <2>1 DEF Shape
    <2>4. Shape'
      BY <1>1, <2>1, <2>2, <2>3 DEF Shape
    <2>5. Room'
      BY <1>1, <2>1, RoomLess DEF Shape
    <2>6. Locked' /\ Quiet' /\ Carried'
      BY <2>1, <2>2, <2>3 DEF IInv, Locked, Quiet, Carried
    <2>7. BlockedReleased' /\ NoOverrun'
      BY <2>1, <2>3 DEF IInv, BlockedReleased, NoOverrun
    <2> QED BY <2>4, <2>5, <2>6, <2>7 DEF IInv
  <1>6. CASE RsTear
    <2>1. /\ UNCHANGED <<run, worker, blocked>> /\ tokens' = 0 /\ queued' = 0
          /\ ctl.rs = "tear" /\ ctl' = [ctl EXCEPT !.rs = "fw"]
          /\ napi' = [napi EXCEPT !.pc = "idle"]
          /\ ghost' = [ghost EXCEPT !.stuck = @ \/ blocked]
      BY <1>6 DEF RsTear
    <2>2. ctl' \in CtlRec /\ ctl'.rs = "fw" /\ ctl'.mutex = ctl.mutex /\ ctl'.ch = ctl.ch
      BY <1>1, <2>1 DEF CtlRec
    <2>3. /\ napi'.pc = "idle" /\ napi'.wake = napi.wake
          /\ napi' \in [pc : {"idle", "free", "end", "off"}, wake : BOOLEAN]
      BY <1>1, <2>1 DEF Shape
    <2>4. /\ ghost' = [passed |-> ghost'.passed, stuck |-> ghost'.stuck, overrun |-> ghost'.overrun]
          /\ blocked => ghost'.stuck
          /\ ghost'.overrun = ghost.overrun
      BY <1>1, <2>1 DEF Shape
    <2>5. Shape'
      BY <1>1, <2>1, <2>2, <2>3, <2>4 DEF Shape
    <2>6. Room'
      BY <2>1 DEF IInv, Quiet, Room, Posting
    <2>7. Locked' /\ Quiet' /\ Carried'
      BY <2>1, <2>2, <2>3 DEF IInv, Locked, Quiet, Carried
    <2>8. BlockedReleased' /\ NoOverrun'
      BY <2>1, <2>4 DEF IInv, BlockedReleased, NoOverrun
    <2> QED BY <2>5, <2>6, <2>7, <2>8 DEF IInv
  <1>7. CASE RsFw
    <2>1. /\ UNCHANGED <<run, queued, tokens, blocked, napi>>
          /\ ctl.rs = "fw" /\ worker' = [sched |-> TRUE, parked |-> FALSE]
      BY <1>7 DEF RsFw, Unparked
    <2>2. \E p \in {"end", "lock"} : ctl' = [ctl EXCEPT !.rs = p, !.mutex = "none"]
      BY <1>7 DEF RsFw
    <2>3. ctl' \in CtlRec /\ ctl'.rs \in {"end", "lock"} /\ ctl'.mutex = "none" /\ ctl'.ch = ctl.ch
      BY <1>1, <2>2 DEF CtlRec
    <2>4. ghost' = ghost \/ ghost' = [ghost EXCEPT !.stuck = TRUE]
      BY <1>7 DEF RsFw
    <2>5. /\ ghost' = [passed |-> ghost'.passed, stuck |-> ghost'.stuck, overrun |-> ghost'.overrun]
          /\ ghost.stuck => ghost'.stuck
          /\ ghost'.overrun = ghost.overrun
      BY <1>1, <2>4 DEF Shape
    <2>6. Locked' /\ Quiet'
      BY <2>1, <2>3 DEF IInv, Locked, Quiet
    <2> QED BY <2>1, <2>3, <2>5, <2>6, Elsewhere
  <1>8. CASE RsEnd
    <2>1. /\ UNCHANGED <<run, worker, queued, tokens, blocked, napi, ghost>>
          /\ ctl.rs = "end" /\ ctl' = [ctl EXCEPT !.rs = "idle", !.reset = FALSE, !.tries = 0]
      BY <1>8 DEF RsEnd, hw
    <2>2. ctl' \in CtlRec /\ ctl'.rs = "idle" /\ ctl'.mutex = ctl.mutex /\ ctl'.ch = ctl.ch
      BY <1>1, <2>1 DEF CtlRec
    <2>3. Locked' /\ Quiet'
      BY <2>1, <2>2 DEF IInv, Locked, Quiet
    <2> QED BY <1>1, <2>1, <2>2, <2>3, Elsewhere DEF Shape
  <1> QED BY <1>2, <1>3, <1>4, <1>5, <1>6, <1>7, <1>8 DEF Reset

(* A channel change enables the worker, but only with the mutex, which a   *)
(* reset that is past its lock holds.                                      *)
LEMMA ChannelPreserves == IInv /\ (ChStart \/ ChEnd) => IInv'
  <1> SUFFICES ASSUME IInv, ChStart \/ ChEnd PROVE IInv'  OBVIOUS
  <1>1. Shape /\ ctl \in CtlRec /\ ctl.chans + 1 \in Nat
    BY DEF IInv, Shape, CtlRec
  <1>2. CASE ChStart
    <2>1. /\ UNCHANGED <<run, worker, queued, tokens, blocked, napi, ghost>>
          /\ ctl.mutex = "none"
          /\ ctl' = [ctl EXCEPT !.ch = "park", !.mutex = "ch", !.reset = TRUE, !.chans = @ + 1]
      BY <1>2 DEF ChStart, hw
    <2>2. ctl' \in CtlRec /\ ctl'.rs = ctl.rs /\ ctl'.mutex = "ch" /\ ctl'.ch = "park"
      BY <1>1, <2>1 DEF CtlRec
    <2>3. Locked' /\ Quiet'
      BY <2>1, <2>2 DEF IInv, Locked, Quiet
    <2> QED BY <1>1, <2>1, <2>2, <2>3, Elsewhere DEF Shape
  <1>3. CASE ChEnd
    <2>1. /\ UNCHANGED <<run, queued, tokens, blocked, napi, ghost>>
          /\ ctl.ch = "park" /\ worker' = [sched |-> TRUE, parked |-> FALSE]
      BY <1>3 DEF ChEnd, Unparked, hw
    <2>2. PICK b \in BOOLEAN :
            ctl' = [ctl EXCEPT !.ch = "idle", !.mutex = "none", !.reset = FALSE, !.offch = b]
      BY <1>3 DEF ChEnd
    <2>3. ctl' \in CtlRec /\ ctl'.rs = ctl.rs /\ ctl'.mutex = "none" /\ ctl'.ch = "idle"
      BY <1>1, <2>2 DEF CtlRec
    <2>4. ctl.rs \notin {"park", "napi", "tear", "fw"}
      BY <2>1 DEF IInv, Locked
    <2>5. Locked' /\ Quiet'
      BY <2>1, <2>3, <2>4 DEF IInv, Locked, Quiet
    <2> QED BY <1>1, <2>1, <2>3, <2>5, Elsewhere DEF Shape
  <1> QED BY <1>2, <1>3

-----------------------------------------------------------------------------
(* IInv is an inductive invariant of the specification.                    *)
LEMMA Inductive == Spec => []IInv
  <1>1. IInv /\ [Next]_vars => IInv'
    <2> SUFFICES ASSUME IInv, [Next]_vars PROVE IInv'  OBVIOUS
    <2>1. CASE \E c \in Senders : SendStep(c) \/ \E w \in Wcids, k \in Kinds : Enqueue(c, w, k)
      BY <2>1, SenderPreserves
    <2>2. CASE \E r \in Runners : RunStep(r)
      BY <2>2, PassPreserves
    <2>3. CASE StartWorker \/ Poll
      BY <2>3, StartPreserves, PollPreserves
    <2>4. CASE RsStart \/ Reset
      BY <2>4, ResetPreserves
    <2>5. CASE ChStart \/ ChEnd
      BY <2>5, ChannelPreserves
    <2>6. CASE \E w \in Wcids : Unlink(w) \/ Cleanup(w)
      BY <2>6, RemovalPreserves
    <2>7. CASE UNCHANGED vars
      <3>1. UNCHANGED <<run, worker, queued, tokens, blocked, napi, ctl, ghost>>
        BY <2>7 DEF vars
      <3>2. Locked' /\ Quiet' /\ Shape
        BY <3>1 DEF IInv, Locked, Quiet
      <3> QED BY <3>1, <3>2, Elsewhere DEF Shape
    <2> QED BY <2>1, <2>2, <2>3, <2>4, <2>5, <2>6, <2>7 DEF Next
  <1> QED BY <1>1, InitIInv, PTL DEF Spec

(* The margin that mt76_txq_stopped leaves suffices for every interleaving *)
(* of the passes, whatever the size of the ring: no frame meets a full one.*)
THEOREM RingNeverOverrun == Spec => []NoOverrun
  <1>1. IInv => NoOverrun  BY DEF IInv
  <1> QED BY <1>1, Inductive, PTL

(* A blocked queue has its tokens out, or the poll is about to unblock it, *)
(* for any number of tokens and any threshold.                             *)
THEOREM BlockedIsReleased == Spec => []BlockedReleased
  <1>1. IInv => BlockedReleased  BY DEF IInv
  <1> QED BY <1>1, Inductive, PTL

(* A reset tears the transmit path down while no pass and no poll runs.    *)
THEOREM TearsDownQuiet == Spec => []TornQuiet
  <1>1. IInv => TornQuiet  BY DEF IInv, Quiet, TornQuiet
  <1> QED BY <1>1, Inductive, PTL

-----------------------------------------------------------------------------
(* The lists: where the frames of a station are seen.  What the rest needs *)
(* of the types; a station's one list node is on a list once.              *)
Working == {"drain", "post", "readd", "burst", "put", "return"}
Pcs == Working \cup {"idle", "splice", "pop", "next"}
Node(s) == s \in Seq(Wcids) /\ IsInjective(s)
Queues == [Wcids -> [Kinds -> Nat]]
SendRec == [pc : {"idle", "list", "wake"}, w : Wcids \cup {"none"}, k : Kinds]
RunTypes(r) == /\ Node(run[r].list) /\ run[r].head \in {"off", "pend"}
               /\ run[r].skip \in BOOLEAN /\ run[r].pc \in Pcs
               /\ run[r].pc \in Working => run[r].w \in Wcids
Types ==
    /\ q \in Queues
    /\ Node(txList) /\ active \subseteq Wcids
    /\ sta \in [Wcids -> {"up", "unlinked", "gone"}]
    /\ gp \in [Wcids -> SUBSET (Senders \cup Runners)]
    /\ send \in [Senders -> SendRec]
    /\ \A c \in Senders : send[c].pc # "idle" => send[c].w \in Wcids
    /\ ghost.passed \in [Wcids -> SUBSET {"list", "txq"}]
    /\ \A r \in Runners : RunTypes(r)

(* A pass has a list of its own only while it works through it, so that    *)
(* the next list_splice_init finds the list empty; the reset's own pass is *)
(* over when it goes on.                                                   *)
EmptyAt(r) == run[r].pc \notin {"pop", "drain", "post", "readd"} => run[r].list = <<>>
Emptied == /\ \A r \in Runners : EmptyAt(r)
           /\ ctl.rs # "park" => run["reset"].pc = "idle"

(* Pass r will still look at the frames of kind k of station w, or note    *)
(* that it passed them over.                                               *)
Covers(r, w, k) ==
    /\ run[r].w = w
    /\ \/ run[r].pc \in {"drain", "post"} /\ (k = "off" => run[r].head = "off")
       \/ run[r].pc = "readd" /\ run[r].skip
HeldBy(r, w) == run[r].w = w /\ run[r].pc \in {"burst", "put", "return"}

(* NoFrameForgotten, kind by kind: a pass that is at one queue of a station *)
(* sees the frames of the other only if it comes to that later.            *)
FrameSeen == \A w \in Wcids, k \in {"pend", "off"} : q[w][k] > 0 =>
    \/ Reached(w) \/ \E r \in Runners : Covers(r, w, k)
    \/ Adding(w, {k}) \/ "list" \in ghost.passed[w]
TxqSeen == \A w \in Wcids : q[w]["txq"] > 0 =>
    \/ w \in active \/ \E r \in Runners : HeldBy(r, w)
    \/ Adding(w, {"txq"}) \/ "txq" \in ghost.passed[w]

(* StationGone, and before: a removal waits for every sender that saw the  *)
(* station.                                                                *)
Using(w) == {c \in Senders : send[c].pc # "idle" /\ send[c].w = w}
Unused == \A w \in Wcids :
    /\ sta[w] = "unlinked" => Using(w) \subseteq gp[w]
    /\ sta[w] = "gone" => /\ Using(w) = {} /\ ~Reached(w)
                          /\ q[w]["pend"] = 0 /\ q[w]["off"] = 0

LInv == Types /\ Emptied /\ FrameSeen /\ TxqSeen /\ Unused

(* list_del_init of the first station of a list,                           *)
LEMMA Popped ==
  ASSUME NEW s, Node(s), s # <<>>
  PROVE  /\ Head(s) \in Wcids /\ Node(Tail(s))
         /\ Range(s) = Range(Tail(s)) \cup {Head(s)}
  <1>1. /\ s \in Seq(Wcids) /\ Len(s) \in Nat /\ Len(s) > 0 /\ DOMAIN s = 1 .. Len(s)
        /\ \A j, k \in DOMAIN s : s[j] = s[k] => j = k
    BY DEF Node, IsInjective
  <1>2. /\ Tail(s) \in Seq(Wcids) /\ Len(Tail(s)) = Len(s) - 1
        /\ \A j \in 1 .. Len(s) - 1 : Tail(s)[j] = s[j + 1]
        /\ Head(s) = s[1] /\ s[1] \in Wcids
    BY <1>1
  <1> DEFINE t == Tail(s)
  <1>3. DOMAIN t = 1 .. Len(s) - 1
    BY <1>2
  <1> HIDE DEF t
  <1>4. IsInjective(t)
    <2>1. ASSUME NEW j \in DOMAIN t, NEW k \in DOMAIN t, t[j] = t[k]
          PROVE  j = k
      <3>1. j + 1 \in DOMAIN s /\ k + 1 \in DOMAIN s /\ s[j + 1] = s[k + 1]
        BY <1>1, <1>2, <1>3, <2>1 DEF t
      <3> QED BY <1>1, <1>3, <3>1
    <2> QED BY <2>1 DEF IsInjective
  <1>5. Range(s) = Range(t) \cup {s[1]}
    <2>1. ASSUME NEW j \in DOMAIN t PROVE t[j] \in Range(s)
      <3>1. j + 1 \in DOMAIN s /\ t[j] = s[j + 1]
        BY <1>1, <1>2, <1>3 DEF t
      <3> QED BY <3>1 DEF Range
    <2>2. ASSUME NEW k \in DOMAIN s, k # 1 PROVE s[k] \in Range(t)
      <3>1. k - 1 \in DOMAIN t /\ t[k - 1] = s[k]
        BY <1>1, <1>2, <1>3, <2>2 DEF t
      <3> QED BY <3>1 DEF Range
    <2>3. s[1] \in Range(s)
      BY <1>1 DEF Range
    <2> QED BY <2>1, <2>2, <2>3 DEF Range
  <1> QED BY <1>2, <1>4, <1>5 DEF Node, t

(* list_add_tail of one that is on no list, and an empty list.             *)
LEMMA Added ==
  ASSUME NEW s, Node(s), NEW w \in Wcids, w \notin Range(s)
  PROVE  Node(Append(s, w)) /\ Range(Append(s, w)) = Range(s) \cup {w}
  <1> DEFINE t == Append(s, w)
  <1>1. /\ s \in Seq(Wcids) /\ Len(s) \in Nat /\ DOMAIN s = 1 .. Len(s)
        /\ \A j, k \in DOMAIN s : s[j] = s[k] => j = k
        /\ \A j \in DOMAIN s : s[j] # w
    BY DEF Node, IsInjective, Range
  <1>2. /\ t \in Seq(Wcids) /\ Len(t) = Len(s) + 1 /\ DOMAIN t = 1 .. Len(s) + 1
        /\ t[Len(s) + 1] = w /\ \A j \in 1 .. Len(s) : t[j] = s[j]
    BY <1>1
  <1> HIDE DEF t
  <1>3. IsInjective(t)
    <2>1. ASSUME NEW j \in DOMAIN t, NEW k \in DOMAIN t, t[j] = t[k]
          PROVE  j = k
      <3>1. /\ j = Len(s) + 1 \/ j \in DOMAIN s
            /\ k = Len(s) + 1 \/ k \in DOMAIN s
        BY <1>1, <1>2
      <3> QED BY <1>1, <1>2, <2>1, <3>1
    <2> QED BY <2>1 DEF IsInjective
  <1>4. Range(t) = Range(s) \cup {w}
    <2>1. ASSUME NEW j \in DOMAIN t PROVE t[j] \in Range(s) \cup {w}
      <3>1. t[j] = w \/ (j \in DOMAIN s /\ t[j] = s[j])
        BY <1>1, <1>2
      <3> QED BY <3>1 DEF Range
    <2>2. ASSUME NEW k \in DOMAIN s PROVE s[k] \in Range(t)
      <3>1. k \in DOMAIN t /\ t[k] = s[k]
        BY <1>1, <1>2
      <3> QED BY <3>1 DEF Range
    <2>3. w \in Range(t)
      <3>1. Len(s) + 1 \in DOMAIN t
        BY <1>1, <1>2
      <3> QED BY <1>2, <3>1 DEF Range
    <2> QED BY <2>1, <2>2, <2>3 DEF Range
  <1> QED BY <1>2, <1>3, <1>4 DEF Node, t

(* The empty list.                                                         *)
LEMMA NoList == Node(<<>>) /\ Range(<<>>) = {}
  BY DEF Node, IsInjective, Range

(* list_del_init of any one (SelectInSeq finds the only one).              *)
LEMMA Unlisted ==
  ASSUME NEW S, NEW s \in Seq(S), NEW e, IsInjective(s)
  PROVE  /\ RemoveFirst(s, e) \in Seq(S) /\ IsInjective(RemoveFirst(s, e))
         /\ Range(RemoveFirst(s, e)) = Range(s) \ {e}
  <1>1. CASE ~ \E i \in 1 .. Len(s) : s[i] = e
    <2>1. RemoveFirst(s, e) = s
      BY <1>1 DEF RemoveFirst
    <2> QED BY <1>1, <2>1 DEF Range
  <1>2. CASE \E i \in 1 .. Len(s) : s[i] = e
    <2>1. PICK i \in 1 .. Len(s) : s[i] = e
      BY <1>2
    <2>2. {j \in 1 .. Len(s) : s[j] = e} = {i}
      BY <2>1 DEF IsInjective
    <2>3. SelectInSeq(s, LAMBDA v: v = e) = Min({i})
      BY <2>2 DEF SelectInSeq
    <2>4. Min({i}) = i
      BY <2>1 DEF Min
    <2>5. RemoveFirst(s, e) = SubSeq(s, 1, i - 1) \o SubSeq(s, i + 1, Len(s))
      BY <1>2, <2>3, <2>4 DEF RemoveFirst, RemoveAt
    <2> DEFINE t == SubSeq(s, 1, i - 1) \o SubSeq(s, i + 1, Len(s))
    <2>6. /\ t \in Seq(S) /\ Len(t) = Len(s) - 1
          /\ \A j \in 1 .. Len(t) : t[j] = IF j < i THEN s[j] ELSE s[j + 1]
      <3> DEFINE a == SubSeq(s, 1, i - 1)
                 b == SubSeq(s, i + 1, Len(s))
      <3>1. a \in Seq(S) /\ Len(a) = i - 1 /\ \A j \in 1 .. i - 1 : a[j] = s[j]
        BY <2>1
      <3>2. b \in Seq(S) /\ Len(b) = Len(s) - i /\ \A j \in 1 .. Len(s) - i : b[j] = s[i + j]
        BY <2>1
      <3> HIDE DEF a, b
      <3>3. /\ a \o b \in Seq(S) /\ Len(a \o b) = Len(s) - 1
            /\ \A j \in 1 .. Len(s) - 1 : (a \o b)[j] = IF j <= i - 1 THEN a[j] ELSE b[j - (i - 1)]
        BY <2>1, <3>1, <3>2
      <3>4. ASSUME NEW j \in 1 .. Len(s) - 1
            PROVE  (a \o b)[j] = IF j < i THEN s[j] ELSE s[j + 1]
        BY <2>1, <3>1, <3>2, <3>3
      <3> QED BY <3>3, <3>4 DEF a, b
    <2> HIDE DEF t
    <2>9. DOMAIN t = 1 .. Len(s) - 1 /\ DOMAIN s = 1 .. Len(s) /\ Len(s) \in Nat
      BY <2>6
    <2>10. \A j, k \in 1 .. Len(s) : s[j] = s[k] => j = k
      BY <2>9 DEF IsInjective
    <2>7. IsInjective(t)
      <3>1. ASSUME NEW j \in DOMAIN t, NEW k \in DOMAIN t, t[j] = t[k]
            PROVE  j = k
        <4> DEFINE u == IF j < i THEN j ELSE j + 1
                   v == IF k < i THEN k ELSE k + 1
        <4>1. u \in 1 .. Len(s) /\ v \in 1 .. Len(s) /\ t[j] = s[u] /\ t[k] = s[v]
          BY <2>1, <2>6, <2>9
        <4>2. u = v
          BY <2>10, <3>1, <4>1
        <4> QED BY <2>1, <2>9, <4>2
      <3> QED BY <3>1 DEF IsInjective
    <2>8. Range(t) = Range(s) \ {e}
      <3>1. ASSUME NEW j \in DOMAIN t
            PROVE  t[j] \in Range(s) \ {e}
        <4> DEFINE u == IF j < i THEN j ELSE j + 1
        <4>1. u \in 1 .. Len(s) /\ t[j] = s[u] /\ u # i
          BY <2>1, <2>6, <2>9
        <4>2. s[u] # e
          BY <2>1, <2>10, <4>1
        <4> QED BY <2>9, <4>1, <4>2 DEF Range
      <3>2. ASSUME NEW k \in DOMAIN s, s[k] # e
            PROVE  s[k] \in Range(t)
        <4> DEFINE j == IF k < i THEN k ELSE k - 1
        <4>1. j \in DOMAIN t /\ t[j] = s[k]
          BY <2>1, <2>6, <2>9, <3>2
        <4> QED BY <4>1 DEF Range
      <3> QED BY <3>1, <3>2 DEF Range
    <2> QED BY <2>5, <2>6, <2>7, <2>8 DEF t
  <1> QED BY <1>1, <1>2

(* Nothing is taken from an empty list.                                    *)
LEMMA EmptyUnlisted ==
  ASSUME NEW e
  PROVE  RemoveFirst(<<>>, e) = <<>>
  BY DEF RemoveFirst

(* Frames come and go one at a time.                                       *)
LEMMA OneFrame ==
  ASSUME q \in Queues, NEW w \in Wcids, NEW k \in Kinds
  PROVE  /\ q[w].pend = q[w]["pend"] /\ q[w].off = q[w]["off"] /\ q[w].txq = q[w]["txq"]
         /\ q[w].pend + q[w].off > 0 <=> q[w]["pend"] > 0 \/ q[w]["off"] > 0
         /\ q' = [q EXCEPT ![w][k] = @ + 1] =>
               /\ q' \in Queues
               /\ \A v \in Wcids, j \in Kinds :
                    q'[v][j] = IF v = w /\ j = k THEN q[v][j] + 1 ELSE q[v][j]
         /\ q[w][k] > 0 /\ q' = [q EXCEPT ![w][k] = @ - 1] =>
               /\ q' \in Queues
               /\ \A v \in Wcids, j \in Kinds : q'[v][j] <= q[v][j]
         /\ q[w].txq > 0 /\ q' = [q EXCEPT ![w].txq = @ - 1] =>
               /\ q' \in Queues
               /\ \A v \in Wcids, j \in Kinds : q'[v][j] <= q[v][j]
         /\ q' = [q EXCEPT ![w] = [pend |-> 0, off |-> 0, txq |-> 0]] =>
               /\ q' \in Queues
               /\ \A v \in Wcids, j \in Kinds : q'[v][j] = IF v = w THEN 0 ELSE q[v][j]
  <1>1. \A v \in Wcids, j \in Kinds : q[v][j] \in Nat
    BY DEF Queues
  <1>2. q[w].pend = q[w]["pend"] /\ q[w].off = q[w]["off"] /\ q[w].txq = q[w]["txq"]
    BY DEF Queues, Kinds
  <1>3. q[w].pend + q[w].off > 0 <=> q[w]["pend"] > 0 \/ q[w]["off"] > 0
    BY <1>1, <1>2 DEF Kinds
  <1>4. ASSUME q' = [q EXCEPT ![w][k] = @ + 1]
        PROVE  /\ q' \in Queues
               /\ \A v \in Wcids, j \in Kinds :
                    q'[v][j] = IF v = w /\ j = k THEN q[v][j] + 1 ELSE q[v][j]
    BY <1>4 DEF Queues
  <1>5. ASSUME q[w][k] > 0, q' = [q EXCEPT ![w][k] = @ - 1]
        PROVE  /\ q' \in Queues
               /\ \A v \in Wcids, j \in Kinds : q'[v][j] <= q[v][j]
    BY <1>1, <1>5 DEF Queues
  <1>6. ASSUME q[w].txq > 0, q' = [q EXCEPT ![w].txq = @ - 1]
        PROVE  /\ q' \in Queues
               /\ \A v \in Wcids, j \in Kinds : q'[v][j] <= q[v][j]
    <2>1. /\ q' \in Queues
          /\ \A v \in Wcids, j \in Kinds :
               q'[v][j] = IF v = w /\ j = "txq" THEN q[v][j] - 1 ELSE q[v][j]
      BY <1>6 DEF Queues, Kinds
    <2> QED BY <1>1, <2>1
  <1>7. ASSUME q' = [q EXCEPT ![w] = [pend |-> 0, off |-> 0, txq |-> 0]]
        PROVE  /\ q' \in Queues
               /\ \A v \in Wcids, j \in Kinds : q'[v][j] = IF v = w THEN 0 ELSE q[v][j]
    BY <1>7 DEF Queues, Kinds
  <1> QED BY <1>2, <1>3, <1>4, <1>5, <1>6, <1>7

(* A step of pass r to place p, with what is left of its list, its station,*)
(* the queue it is at and whether it passes the station over.              *)
At(r, p, l, u, h, b) ==
    /\ Step(r, {p}) /\ run'[r].list = l /\ run'[r].w = u /\ run'[r].head = h
    /\ run'[r].skip = b
Same(r, p) == At(r, p, run[r].list, run[r].w, run[r].head, run[r].skip)

(* Where each step of mt76_txq_schedule_pending leaves the lists.          *)
LEMMA Places ==
  ASSUME Shape, NEW r \in Runners
  PROVE  /\ Splice(r) => At(r, "pop", txList, run[r].w, run[r].head, run[r].skip)
         /\ Pop(r) => At(r, IF run[r].ret < 0 THEN "readd" ELSE "drain", Tail(run[r].list),
                         Head(run[r].list), "off", run[r].ret < 0)
         /\ PendingDone(r) => At(r, "next", <<>>, "none", "off", FALSE)
         /\ Drained(r) => \/ run[r].head = "pend" /\ Same(r, "readd")
                          \/ run[r].head # "pend"
                             /\ At(r, "readd", run[r].list, run[r].w, run[r].head, TRUE)
                          \/ run[r].head # "pend"
                             /\ At(r, "drain", run[r].list, run[r].w, "pend", run[r].skip)
         /\ NotNow(r) => At(r, "readd", run[r].list, run[r].w, run[r].head, TRUE)
         /\ Take(r) => Same(r, "post")
         /\ Post(r) => Same(r, "drain")
         /\ Readd(r) => At(r, "pop", run[r].list, "none", "off", FALSE)
  <1>1. IsRun(run[r])  BY DEF Shape
  <1>0. ASSUME NEW y, IsRun(y), run' = [run EXCEPT ![r] = y]
        PROVE  At(r, y.pc, y.list, y.w, y.head, y.skip)
    <2>1. y.pc \in {y.pc}  OBVIOUS
    <2>2. Step(r, {y.pc}) /\ run'[r] = y  BY <1>0, <2>1, Update
    <2> QED BY <2>2 DEF At
  <1>2. ASSUME Splice(r) PROVE At(r, "pop", txList, run[r].w, run[r].head, run[r].skip)
    <2> DEFINE y == [run[r] EXCEPT !.pc = "pop", !.list = txList]
    <2>1. run' = [run EXCEPT ![r] = y]  BY <1>2 DEF Splice
    <2>2. IsRun(y) /\ y.pc = "pop" /\ y.list = txList /\ y.w = run[r].w /\ y.head = run[r].head
          /\ y.skip = run[r].skip
      BY <1>1 DEF IsRun, Fields
    <2> HIDE DEF y
    <2>3. At(r, y.pc, y.list, y.w, y.head, y.skip)  BY <2>1, <2>2, <1>0
    <2> QED BY <2>2, <2>3
  <1>3. ASSUME Pop(r)
        PROVE  At(r, IF run[r].ret < 0 THEN "readd" ELSE "drain", Tail(run[r].list),
                  Head(run[r].list), "off", run[r].ret < 0)
    <2> DEFINE p == IF run[r].ret < 0 THEN "readd" ELSE "drain"
               b == run[r].ret < 0
               u == Head(run[r].list)
               t == Tail(run[r].list)
               y == [run[r] EXCEPT !.w = u, !.list = t, !.head = "off", !.skip = b, !.pc = p]
    <2>1. run' = [run EXCEPT ![r] = y]  BY <1>3 DEF Pop
    <2> HIDE DEF p, b, u, t
    <2>2. IsRun(y) /\ y.pc = p /\ y.list = t /\ y.w = u /\ y.head = "off" /\ y.skip = b
      BY <1>1 DEF IsRun, Fields
    <2> HIDE DEF y
    <2>3. At(r, y.pc, y.list, y.w, y.head, y.skip)  BY <2>1, <2>2, <1>0
    <2>4. At(r, p, t, u, "off", b)  BY <2>2, <2>3
    <2> QED BY <2>4 DEF p, b, u, t
  <1>4. ASSUME PendingDone(r) PROVE At(r, "next", <<>>, "none", "off", FALSE)
    <2> DEFINE y == [Idle EXCEPT !.pc = "next"]
    <2>1. run' = [run EXCEPT ![r] = y]  BY <1>4 DEF PendingDone
    <2>2. IsRun(y) /\ y.pc = "next" /\ y.list = <<>> /\ y.w = "none" /\ y.head = "off"
          /\ y.skip = FALSE
      BY DEF IsRun, Fields, Idle
    <2> HIDE DEF y
    <2>3. At(r, y.pc, y.list, y.w, y.head, y.skip)  BY <2>1, <2>2, <1>0
    <2> QED BY <2>2, <2>3
  <1>5. ASSUME Drained(r)
        PROVE  \/ run[r].head = "pend" /\ Same(r, "readd")
               \/ run[r].head # "pend" /\ At(r, "readd", run[r].list, run[r].w, run[r].head, TRUE)
               \/ run[r].head # "pend" /\ At(r, "drain", run[r].list, run[r].w, "pend", run[r].skip)
    <2> DEFINE x == [run[r] EXCEPT !.pc = "readd"]
               y == [run[r] EXCEPT !.pc = "readd", !.skip = TRUE]
               z == [run[r] EXCEPT !.head = "pend"]
    <2>1. run[r].pc = "drain"
          /\ \/ run[r].head = "pend" /\ run' = [run EXCEPT ![r] = x]
             \/ run[r].head # "pend" /\ run' = [run EXCEPT ![r] = y]
             \/ run[r].head # "pend" /\ run' = [run EXCEPT ![r] = z]
      BY <1>5 DEF Drained, NextHead
    <2>2. IsRun(x) /\ x.pc = "readd" /\ x.list = run[r].list /\ x.w = run[r].w
          /\ x.head = run[r].head /\ x.skip = run[r].skip
      BY <1>1 DEF IsRun, Fields
    <2>3. IsRun(y) /\ y.pc = "readd" /\ y.list = run[r].list /\ y.w = run[r].w
          /\ y.head = run[r].head /\ y.skip = TRUE
      BY <1>1 DEF IsRun, Fields
    <2>4. IsRun(z) /\ z.pc = run[r].pc /\ z.list = run[r].list /\ z.w = run[r].w
          /\ z.head = "pend" /\ z.skip = run[r].skip
      BY <1>1 DEF IsRun, Fields
    <2> HIDE DEF x, y, z
    <2>5. CASE run[r].head = "pend" /\ run' = [run EXCEPT ![r] = x]
      <3>1. At(r, x.pc, x.list, x.w, x.head, x.skip)  BY <2>5, <2>2, <1>0
      <3> QED BY <2>2, <2>5, <3>1 DEF Same
    <2>6. CASE run[r].head # "pend" /\ run' = [run EXCEPT ![r] = y]
      <3>1. At(r, y.pc, y.list, y.w, y.head, y.skip)  BY <2>6, <2>3, <1>0
      <3> QED BY <2>3, <2>6, <3>1
    <2>7. CASE run[r].head # "pend" /\ run' = [run EXCEPT ![r] = z]
      <3>1. At(r, z.pc, z.list, z.w, z.head, z.skip)  BY <2>7, <2>4, <1>0
      <3> QED BY <2>1, <2>4, <2>7, <3>1
    <2> QED BY <2>1, <2>5, <2>6, <2>7
  <1>6. ASSUME NotNow(r) PROVE At(r, "readd", run[r].list, run[r].w, run[r].head, TRUE)
    <2> DEFINE y == [run[r] EXCEPT !.ret = -1, !.skip = TRUE, !.pc = "readd"]
    <2>1. run' = [run EXCEPT ![r] = y]  BY <1>6 DEF NotNow
    <2>2. IsRun(y) /\ y.pc = "readd" /\ y.list = run[r].list /\ y.w = run[r].w
          /\ y.head = run[r].head /\ y.skip = TRUE
      BY <1>1 DEF IsRun, Fields
    <2> HIDE DEF y
    <2>3. At(r, y.pc, y.list, y.w, y.head, y.skip)  BY <2>1, <2>2, <1>0
    <2> QED BY <2>2, <2>3
  <1>7. ASSUME NEW p, run' = [run EXCEPT ![r].pc = p] PROVE Same(r, p)
    <2> DEFINE y == [run[r] EXCEPT !.pc = p]
    <2>1. run' = [run EXCEPT ![r] = y]  BY <1>7
    <2>2. IsRun(y) /\ y.pc = p /\ y.list = run[r].list /\ y.w = run[r].w
          /\ y.head = run[r].head /\ y.skip = run[r].skip
      BY <1>1 DEF IsRun, Fields
    <2> HIDE DEF y
    <2>3. At(r, y.pc, y.list, y.w, y.head, y.skip)  BY <2>1, <2>2, <1>0
    <2> QED BY <2>2, <2>3 DEF Same
  <1>8. ASSUME Readd(r) PROVE At(r, "pop", run[r].list, "none", "off", FALSE)
    <2> DEFINE y == [run[r] EXCEPT !.pc = "pop", !.w = "none", !.head = "off", !.skip = FALSE]
    <2>1. run' = [run EXCEPT ![r] = y]  BY <1>8 DEF Readd
    <2>2. IsRun(y) /\ y.pc = "pop" /\ y.list = run[r].list /\ y.w = "none" /\ y.head = "off"
          /\ y.skip = FALSE
      BY <1>1 DEF IsRun, Fields
    <2> HIDE DEF y
    <2>3. At(r, y.pc, y.list, y.w, y.head, y.skip)  BY <2>1, <2>2, <1>0
    <2> QED BY <2>2, <2>3
  <1>9. (Take(r) => Same(r, "post")) /\ (Post(r) => Same(r, "drain"))
    BY <1>7 DEF Take, Post
  <1> QED BY <1>2, <1>3, <1>4, <1>5, <1>6, <1>8, <1>9

(* The passes over mac80211's queues leave the lists alone.                *)
LEMMA TxqPlaces ==
  ASSUME Shape, NEW r \in Runners
  PROVE  /\ Round(r) => Same(r, "next") \/ At(r, "idle", <<>>, "none", "off", FALSE)
         /\ \A w \in Wcids : Offer(r, w) =>
               IF sta[w] = "up" /\ ~ctl.reset /\ ~ctl.offch
               THEN \E p \in {"return", "burst"} :
                       At(r, p, run[r].list, w, run[r].head, run[r].skip)
               ELSE At(r, "next", run[r].list, "none", run[r].head, run[r].skip)
         /\ Dequeue(r) => Same(r, "put") \/ Same(r, "return")
         /\ Put(r) => Same(r, "burst") \/ Same(r, "return")
         /\ Return(r) => \/ run[r].ret < 0 /\ At(r, "idle", <<>>, "none", "off", FALSE)
                         \/ ~(run[r].ret < 0)
                            /\ At(r, "next", run[r].list, "none", run[r].head, run[r].skip)
  <1>1. IsRun(run[r])  BY DEF Shape
  <1>0. ASSUME NEW y, IsRun(y), run' = [run EXCEPT ![r] = y]
        PROVE  At(r, y.pc, y.list, y.w, y.head, y.skip)
    <2>1. y.pc \in {y.pc}  OBVIOUS
    <2>2. Step(r, {y.pc}) /\ run'[r] = y  BY <1>0, <2>1, Update
    <2> QED BY <2>2 DEF At
  <1>2. ASSUME run' = [run EXCEPT ![r] = Idle] PROVE At(r, "idle", <<>>, "none", "off", FALSE)
    <2>1. /\ IsRun(Idle) /\ Idle.pc = "idle" /\ Idle.list = <<>> /\ Idle.w = "none"
          /\ Idle.head = "off" /\ Idle.skip = FALSE
      BY DEF IsRun, Fields, Idle
    <2>2. At(r, Idle.pc, Idle.list, Idle.w, Idle.head, Idle.skip)  BY <1>2, <2>1, <1>0
    <2> QED BY <2>1, <2>2
  <1>3. ASSUME Round(r)
        PROVE  Same(r, "next") \/ At(r, "idle", <<>>, "none", "off", FALSE)
    <2> DEFINE y == [run[r] EXCEPT !.seen = {}, !.more = FALSE]
    <2>1. run[r].pc = "next"
          /\ (run' = [run EXCEPT ![r] = y] \/ run' = [run EXCEPT ![r] = Idle])
      BY <1>3 DEF Round
    <2>2. IsRun(y) /\ y.pc = run[r].pc /\ y.list = run[r].list /\ y.w = run[r].w
          /\ y.head = run[r].head /\ y.skip = run[r].skip
      BY <1>1 DEF IsRun, Fields
    <2> HIDE DEF y
    <2>3. CASE run' = [run EXCEPT ![r] = y]
      <3>1. At(r, y.pc, y.list, y.w, y.head, y.skip)  BY <2>2, <2>3, <1>0
      <3> QED BY <2>1, <2>2, <3>1 DEF Same
    <2> QED BY <2>1, <2>3, <1>2
  <1>4. ASSUME NEW w \in Wcids, Offer(r, w)
        PROVE  IF sta[w] = "up" /\ ~ctl.reset /\ ~ctl.offch
               THEN \E p \in {"return", "burst"} :
                       At(r, p, run[r].list, w, run[r].head, run[r].skip)
               ELSE At(r, "next", run[r].list, "none", run[r].head, run[r].skip)
    <2> DEFINE here == sta[w] = "up" /\ ~ctl.reset /\ ~ctl.offch
               a == run[r].seen \cup {w}
               u == IF here THEN w ELSE "none"
               p == IF ~here THEN "next" ELSE IF blocked \/ Near(queued')
                                            THEN "return" ELSE "burst"
               y == [run[r] EXCEPT !.seen = a, !.w = u, !.ret = 0, !.pc = p]
    <2>1. run' = [run EXCEPT ![r] = y]  BY <1>4 DEF Offer
    <2>2. IF here THEN p \in {"return", "burst"} /\ u = w ELSE p = "next" /\ u = "none"
      OBVIOUS
    <2> HIDE DEF p, u, a
    <2>3. IsRun(y) /\ y.pc = p /\ y.list = run[r].list /\ y.w = u
          /\ y.head = run[r].head /\ y.skip = run[r].skip
      BY <1>1 DEF IsRun, Fields
    <2> HIDE DEF y
    <2>4. At(r, y.pc, y.list, y.w, y.head, y.skip)  BY <2>1, <2>3, <1>0
    <2>5. At(r, p, run[r].list, u, run[r].head, run[r].skip)  BY <2>3, <2>4
    <2> QED BY <2>2, <2>5
  <1>5. ASSUME NEW p, run' = [run EXCEPT ![r].pc = p] PROVE Same(r, p)
    <2> DEFINE y == [run[r] EXCEPT !.pc = p]
    <2>1. run' = [run EXCEPT ![r] = y]  BY <1>5
    <2>2. IsRun(y) /\ y.pc = p /\ y.list = run[r].list /\ y.w = run[r].w
          /\ y.head = run[r].head /\ y.skip = run[r].skip
      BY <1>1 DEF IsRun, Fields
    <2> HIDE DEF y
    <2>3. At(r, y.pc, y.list, y.w, y.head, y.skip)  BY <2>1, <2>2, <1>0
    <2> QED BY <2>2, <2>3 DEF Same
  <1>6. Dequeue(r) => Same(r, "put") \/ Same(r, "return")
    BY <1>5 DEF Dequeue
  <1>7. ASSUME Put(r) PROVE Same(r, "burst") \/ Same(r, "return")
    <2> DEFINE n == IF run[r].ret = 0 THEN -1 ELSE run[r].ret
               y == [run[r] EXCEPT !.ret = 1, !.pc = "burst"]
               z == [run[r] EXCEPT !.ret = n, !.pc = "return"]
    <2>1. run' = [run EXCEPT ![r] = y] \/ run' = [run EXCEPT ![r] = z]  BY <1>7 DEF Put
    <2> HIDE DEF n
    <2>2. IsRun(y) /\ y.pc = "burst" /\ y.list = run[r].list /\ y.w = run[r].w
          /\ y.head = run[r].head /\ y.skip = run[r].skip
      BY <1>1 DEF IsRun, Fields
    <2>3. IsRun(z) /\ z.pc = "return" /\ z.list = run[r].list /\ z.w = run[r].w
          /\ z.head = run[r].head /\ z.skip = run[r].skip
      BY <1>1 DEF IsRun, Fields
    <2> HIDE DEF y, z
    <2>4. CASE run' = [run EXCEPT ![r] = y]
      <3>1. At(r, y.pc, y.list, y.w, y.head, y.skip)  BY <2>2, <2>4, <1>0
      <3> QED BY <2>2, <3>1 DEF Same
    <2>5. CASE run' = [run EXCEPT ![r] = z]
      <3>1. At(r, z.pc, z.list, z.w, z.head, z.skip)  BY <2>3, <2>5, <1>0
      <3> QED BY <2>3, <3>1 DEF Same
    <2> QED BY <2>1, <2>4, <2>5
  <1>8. ASSUME Return(r)
        PROVE  \/ run[r].ret < 0 /\ At(r, "idle", <<>>, "none", "off", FALSE)
               \/ ~(run[r].ret < 0)
                  /\ At(r, "next", run[r].list, "none", run[r].head, run[r].skip)
    <2> DEFINE m == run[r].more \/ run[r].ret > 0
               y == [run[r] EXCEPT !.pc = "next", !.w = "none", !.more = m]
    <2>1. \/ run[r].ret < 0 /\ run' = [run EXCEPT ![r] = Idle]
          \/ ~(run[r].ret < 0) /\ run' = [run EXCEPT ![r] = y]
      BY <1>8 DEF Return
    <2> HIDE DEF m
    <2>2. IsRun(y) /\ y.pc = "next" /\ y.list = run[r].list /\ y.w = "none"
          /\ y.head = run[r].head /\ y.skip = run[r].skip
      BY <1>1 DEF IsRun, Fields
    <2> HIDE DEF y
    <2>3. CASE ~(run[r].ret < 0) /\ run' = [run EXCEPT ![r] = y]
      <3>1. At(r, y.pc, y.list, y.w, y.head, y.skip)  BY <2>2, <2>3, <1>0
      <3> QED BY <2>2, <2>3, <3>1
    <2> QED BY <2>1, <2>3, <1>2
  <1> QED BY <1>3, <1>4, <1>6, <1>7, <1>8

(* What is kept by a step of one pass: its own record is right, nobody     *)
(* lists a station without frames, and what was seen through the lists,    *)
(* through this pass or among the stations passed over still is.           *)
LEMMA PassLists ==
  ASSUME LInv, TxAssumption, NEW r \in Runners, NEW pcs, Step(r, pcs),
         RunTypes(r)', EmptyAt(r)', ctl'.rs # "park" => run'["reset"].pc = "idle",
         UNCHANGED <<sta, send>>, gp' = gp \/ Leave(r),
         q' \in Queues, \A w \in Wcids, k \in Kinds : q'[w][k] <= q[w][k],
         Node(txList'), active' \subseteq Wcids,
         ghost'.passed \in [Wcids -> SUBSET {"list", "txq"}],
         \A w \in Wcids : Reached(w)' => Reached(w) \/ q[w]["pend"] > 0,
         \A w \in Wcids, k \in {"pend", "off"} :
            q'[w][k] > 0 /\ (Reached(w) \/ Covers(r, w, k) \/ "list" \in ghost.passed[w])
            => Reached(w)' \/ Covers(r, w, k)' \/ "list" \in ghost'.passed[w],
         \A w \in Wcids :
            q'[w]["txq"] > 0 /\ (w \in active \/ HeldBy(r, w) \/ "txq" \in ghost.passed[w])
            => w \in active' \/ HeldBy(r, w)' \/ "txq" \in ghost'.passed[w]
  PROVE  LInv'
  <1>1. \A s \in Runners : s = r \/ run'[s] = run[s]
    BY DEF Step
  <1>2. \A w \in Wcids, k \in Kinds : q'[w][k] > 0 => q[w][k] > 0
    BY DEF LInv, Types, Queues
  <1>3. {"pend", "off", "txq"} \subseteq Kinds
    BY DEF Kinds
  <1>4. \A w \in Wcids, k \in Kinds : Adding(w, {k})' <=> Adding(w, {k})
    BY DEF Adding
  <1>5. Types'
    <2>1. \A s \in Runners : RunTypes(s)'
      BY <1>1 DEF LInv, Types, RunTypes
    <2>2. gp' \in [Wcids -> SUBSET (Senders \cup Runners)]
      <3>1. CASE gp' = gp
        BY <3>1 DEF LInv, Types
      <3>2. CASE Leave(r)
        BY <3>2 DEF LInv, Types, Leave
      <3> QED BY <3>1, <3>2
    <2> QED BY <2>1, <2>2 DEF LInv, Types
  <1>6. Emptied'
    BY <1>1 DEF LInv, Emptied, EmptyAt
  <1>7. FrameSeen'
    <2> SUFFICES ASSUME NEW w \in Wcids, NEW k \in {"pend", "off"}, q'[w][k] > 0
                 PROVE  \/ Reached(w)' \/ \E s \in Runners : Covers(s, w, k)'
                        \/ Adding(w, {k})' \/ "list" \in ghost'.passed[w]
      BY DEF FrameSeen
    <2>1. \/ Reached(w) \/ \E s \in Runners : Covers(s, w, k)
          \/ Adding(w, {k}) \/ "list" \in ghost.passed[w]
      BY <1>2, <1>3 DEF LInv, FrameSeen
    <2>2. CASE Reached(w) \/ Covers(r, w, k) \/ "list" \in ghost.passed[w]
      BY <2>2
    <2>3. CASE \E s \in Runners \ {r} : Covers(s, w, k)
      BY <1>1, <2>3 DEF Covers
    <2>4. CASE Adding(w, {k})
      BY <1>3, <1>4, <2>4
    <2> QED BY <2>1, <2>2, <2>3, <2>4
  <1>8. TxqSeen'
    <2> SUFFICES ASSUME NEW w \in Wcids, q'[w]["txq"] > 0
                 PROVE  \/ w \in active' \/ \E s \in Runners : HeldBy(s, w)'
                        \/ Adding(w, {"txq"})' \/ "txq" \in ghost'.passed[w]
      BY DEF TxqSeen
    <2>1. \/ w \in active \/ \E s \in Runners : HeldBy(s, w)
          \/ Adding(w, {"txq"}) \/ "txq" \in ghost.passed[w]
      BY <1>2, <1>3 DEF LInv, TxqSeen
    <2>2. CASE w \in active \/ HeldBy(r, w) \/ "txq" \in ghost.passed[w]
      BY <2>2
    <2>3. CASE \E s \in Runners \ {r} : HeldBy(s, w)
      BY <1>1, <2>3 DEF HeldBy
    <2>4. CASE Adding(w, {"txq"})
      BY <1>3, <1>4, <2>4
    <2> QED BY <2>1, <2>2, <2>3, <2>4
  <1>9. Unused'
    <2> SUFFICES ASSUME NEW w \in Wcids
                 PROVE  /\ sta[w] = "unlinked" => Using(w)' \subseteq gp'[w]
                        /\ sta[w] = "gone" => /\ Using(w)' = {} /\ ~Reached(w)'
                                              /\ q'[w]["pend"] = 0 /\ q'[w]["off"] = 0
      BY DEF Unused
    <2>1. Using(w)' = Using(w) /\ r \notin Using(w)
      BY TxAssumption DEF Using, LInv, Types
    <2>2. gp[w] \ {r} \subseteq gp'[w]
      BY DEF Leave
    <2>3. q[w]["pend"] = 0 /\ q[w]["off"] = 0 => q'[w]["pend"] = 0 /\ q'[w]["off"] = 0
      <3>1. \A k \in Kinds : q[w][k] \in Nat /\ q'[w][k] \in Nat /\ q'[w][k] <= q[w][k]
        BY DEF LInv, Types, Queues
      <3> QED BY <1>3, <3>1
    <2> QED BY <2>1, <2>2, <2>3 DEF LInv, Unused
  <1> QED BY <1>5, <1>6, <1>7, <1>8, <1>9 DEF LInv

(* What a step of pass r leaves of the others, and the reset's own pass.   *)
LEMMA OtherPasses ==
  ASSUME NEW r \in Runners, NEW pcs, Step(r, pcs)
  PROVE  /\ \A w : Reached(w)' <=> \/ w \in Range(txList') \/ w \in Range(run'[r].list)
                                   \/ \E s \in Runners \ {r} : w \in Range(run[s].list)
         /\ Emptied /\ run[r].pc # "idle" /\ ctl' = ctl =>
               (ctl'.rs # "park" => run'["reset"].pc = "idle")
  <1>1. \A s \in Runners : s = r \/ run'[s] = run[s]
    BY DEF Step
  <1>2. ASSUME NEW w
        PROVE  Reached(w)' <=> \/ w \in Range(txList') \/ w \in Range(run'[r].list)
                               \/ \E s \in Runners \ {r} : w \in Range(run[s].list)
    BY <1>1 DEF Reached
  <1>3. Emptied /\ run[r].pc # "idle" /\ ctl' = ctl =>
          (ctl'.rs # "park" => run'["reset"].pc = "idle")
    BY <1>1 DEF Emptied, Runners
  <1> QED BY <1>2, <1>3

(* list_splice_init: what was on phy->tx_list is on the pass's own list.    *)
LEMMA SpliceLists ==
  ASSUME IInv, LInv, NEW r \in Runners, Splice(r)
  PROVE  LInv'
  <1>1. At(r, "pop", txList, run[r].w, run[r].head, run[r].skip) /\ Step(r, {"pop"})
    BY Places DEF IInv, At
  <1>2. /\ run'[r].pc = "pop" /\ run'[r].list = txList /\ txList' = <<>>
        /\ run'[r].head = run[r].head /\ run'[r].skip = run[r].skip
        /\ run[r].pc = "splice" /\ run[r].list = <<>>
        /\ UNCHANGED <<q, active, sta, gp, send, ctl, ghost>>
    BY <1>1 DEF At, Step, Splice, LInv, Emptied, EmptyAt
  <1>3. RunTypes(r)' /\ EmptyAt(r)' /\ Node(txList')
    BY <1>2, NoList DEF RunTypes, EmptyAt, LInv, Types, Pcs, Working
  <1>4. \A w : Reached(w)' <=> Reached(w)
    BY <1>1, <1>2, OtherPasses, NoList DEF Reached
  <1>5. ctl'.rs # "park" => run'["reset"].pc = "idle"
    BY <1>1, <1>2, OtherPasses DEF LInv
  <1>6. \A w, k : ~Covers(r, w, k) /\ ~HeldBy(r, w)
    BY <1>2 DEF Covers, HeldBy
  <1>7. \A w \in Wcids, k \in Kinds : q'[w][k] <= q[w][k]
    BY <1>2 DEF LInv, Types, Queues
  <1> QED BY <1>1, <1>2, <1>3, <1>4, <1>5, <1>6, <1>7, PassLists, TxAssumption DEF LInv, Types

(* The next station of the list is in the hands of the pass.               *)
LEMMA PopLists ==
  ASSUME IInv, LInv, NEW r \in Runners, Pop(r)
  PROVE  LInv'
  <1> DEFINE u == Head(run[r].list)
             p == IF run[r].ret < 0 THEN "readd" ELSE "drain"
             b == run[r].ret < 0
  <1>1. At(r, p, Tail(run[r].list), u, "off", b) /\ Step(r, {p})
    BY Places DEF IInv, At
  <1>2. /\ run'[r].pc = p /\ run'[r].list = Tail(run[r].list) /\ run'[r].w = u
        /\ run'[r].head = "off" /\ run'[r].skip = b
        /\ run[r].pc = "pop" /\ UNCHANGED <<q, txList, active, sta, gp, send, ctl>>
        /\ ghost' = [ghost EXCEPT !.passed[u] = @ \ {"list"}]
    BY <1>1 DEF At, Step, Pop
  <1>3. /\ u \in Wcids /\ Node(Tail(run[r].list))
        /\ Range(run[r].list) = Range(Tail(run[r].list)) \cup {u}
    BY Popped DEF LInv, Types, RunTypes, Pop
  <1>4. p \in {"readd", "drain"} /\ b \in BOOLEAN /\ (p = "readd" => b)
    OBVIOUS
  <1>5. /\ ghost'.passed \in [Wcids -> SUBSET {"list", "txq"}]
        /\ \A w \in Wcids : /\ w # u => ghost'.passed[w] = ghost.passed[w]
                            /\ "txq" \in ghost.passed[w] => "txq" \in ghost'.passed[w]
    <2>1. ghost'.passed = [ghost.passed EXCEPT ![u] = @ \ {"list"}]
      BY <1>2 DEF IInv, Shape
    <2> QED BY <1>3, <2>1 DEF LInv, Types
  <1> HIDE DEF u, p, b
  <1>6. RunTypes(r)' /\ EmptyAt(r)'
    BY <1>2, <1>3, <1>4 DEF RunTypes, EmptyAt, Pcs, Working
  <1>7. \A w : /\ Reached(w)' => Reached(w)
               /\ Reached(w) /\ w # u => Reached(w)'
    BY <1>1, <1>2, <1>3, OtherPasses DEF Reached
  <1>8. ctl'.rs # "park" => run'["reset"].pc = "idle"
    BY <1>1, <1>2, OtherPasses DEF LInv
  <1>9. \A w, k : ~Covers(r, w, k) /\ ~HeldBy(r, w)
    BY <1>2 DEF Covers, HeldBy
  <1>10. \A w, k : w = u => Covers(r, w, k)'
    <2>1. run'[r].pc \in {"readd", "drain"} /\ (run'[r].pc = "readd" => run'[r].skip)
      BY <1>2, <1>4
    <2> QED BY <1>2, <2>1 DEF Covers
  <1>11. \A w \in Wcids, k \in Kinds : q'[w][k] <= q[w][k]
    BY <1>2 DEF LInv, Types, Queues
  <1>12. \A w \in Wcids, k \in {"pend", "off"} :
           Reached(w) \/ "list" \in ghost.passed[w]
           => Reached(w)' \/ Covers(r, w, k)' \/ "list" \in ghost'.passed[w]
    BY <1>5, <1>7, <1>10
  <1>13. /\ q' \in Queues /\ Node(txList') /\ active' \subseteq Wcids
    BY <1>2 DEF LInv, Types
  <1> QED BY <1>1, <1>2, <1>5, <1>6, <1>7, <1>8, <1>9, <1>11, <1>12, <1>13, PassLists,
             TxAssumption

(* The frames of one station: a pass that goes on to the other queue has   *)
(* found this one empty.                                                   *)
LEMMA StationLists ==
  ASSUME IInv, LInv, NEW r \in Runners, Drained(r) \/ NotNow(r) \/ Take(r) \/ Post(r)
  PROVE  LInv'
  <1> DEFINE h == run[r].head
             u == run[r].w
  <1>1. PICK p \in {"drain", "post", "readd"}, j \in {"off", "pend"}, b \in BOOLEAN :
           /\ At(r, p, run[r].list, u, j, b)
           /\ \/ j = h /\ (p = "readd" => b \/ (h = "pend" /\ q[u][h] = 0))
              \/ h = "off" /\ q[u][h] = 0 /\ (p = "readd" => b)
    <2>1. h \in {"off", "pend"} /\ run[r].skip \in BOOLEAN
      BY DEF LInv, Types, RunTypes
    <2>2. CASE Drained(r)
      BY <2>1, <2>2, Places DEF IInv, Drained, Same
    <2>3. CASE NotNow(r)
      BY <2>1, <2>3, Places DEF IInv
    <2>4. CASE Take(r) \/ Post(r)
      BY <2>1, <2>4, Places DEF IInv, Same
    <2> QED BY <2>2, <2>3, <2>4
  <1>2. /\ run'[r].pc = p /\ run'[r].list = run[r].list /\ run'[r].w = u
        /\ run'[r].head = j /\ run'[r].skip = b /\ Step(r, {p})
    BY <1>1 DEF At, Step
  <1>3. /\ run[r].pc \in {"drain", "post"}
        /\ UNCHANGED <<txList, active, sta, gp, send, ctl>>
        /\ q' = q \/ (q[u][h] > 0 /\ q' = [q EXCEPT ![u][h] = @ - 1])
        /\ ghost'.passed = ghost.passed
    <2>1. /\ run[r].pc \in {"drain", "post"}
          /\ UNCHANGED <<txList, active, sta, gp, send, ctl>>
          /\ q' = q \/ (q[u][h] > 0 /\ q' = [q EXCEPT ![u][h] = @ - 1])
      BY DEF Drained, NotNow, Take, Post
    <2>2. ghost' = ghost \/ ghost' = [ghost EXCEPT !.overrun = Overrun]
      BY DEF Drained, NotNow, Take, Post
    <2>3. ghost'.passed = ghost.passed
      BY <2>2 DEF IInv, Shape
    <2> QED BY <2>1, <2>3
  <1>4. u \in Wcids /\ h \in {"off", "pend"} /\ {"off", "pend"} \subseteq Kinds
    BY <1>3 DEF LInv, Types, RunTypes, Working, Kinds
  <1>5. q' \in Queues /\ \A w \in Wcids, k \in Kinds : q'[w][k] <= q[w][k]
    <2>1. CASE q' = q
      BY <2>1 DEF LInv, Types, Queues
    <2>2. CASE q[u][h] > 0 /\ q' = [q EXCEPT ![u][h] = @ - 1]
      BY <1>4, <2>2, OneFrame DEF LInv, Types
    <2> QED BY <1>3, <2>1, <2>2
  <1>6. \A w \in Wcids, k \in Kinds : q[w][k] \in Nat /\ q'[w][k] \in Nat
    BY <1>5 DEF LInv, Types, Queues
  <1> HIDE DEF u, h
  <1>7. RunTypes(r)' /\ EmptyAt(r)'
    BY <1>1, <1>2, <1>4 DEF RunTypes, EmptyAt, Pcs, Working, LInv, Types
  <1>8. \A w : Reached(w)' <=> Reached(w)
    BY <1>2, <1>3, OtherPasses DEF Reached
  <1>9. ctl'.rs # "park" => run'["reset"].pc = "idle"
    BY <1>2, <1>3, OtherPasses DEF LInv
  <1>10. ASSUME NEW w \in Wcids, NEW k \in {"pend", "off"}, q'[w][k] > 0, Covers(r, w, k)
         PROVE  Covers(r, w, k)'
    <2>1. w = u /\ (k = "off" => h = "off") /\ q[w][k] > 0
      BY <1>3, <1>4, <1>5, <1>6, <1>10 DEF Covers, u, h
    <2>2. CASE j = h /\ (p = "readd" => b \/ (h = "pend" /\ q[u][h] = 0))
      BY <1>1, <1>2, <2>1, <2>2 DEF Covers
    <2>3. CASE h = "off" /\ q[u][h] = 0 /\ (p = "readd" => b)
      BY <1>1, <1>2, <2>1, <2>3 DEF Covers
    <2> QED BY <1>1, <2>2, <2>3
  <1>11. \A w : ~HeldBy(r, w)
    BY <1>3 DEF HeldBy
  <1>12. Node(txList') /\ active' \subseteq Wcids
         /\ ghost'.passed \in [Wcids -> SUBSET {"list", "txq"}]
    BY <1>3 DEF LInv, Types
  <1> QED BY <1>2, <1>3, <1>5, <1>7, <1>8, <1>9, <1>10, <1>11, <1>12, PassLists, TxAssumption

(* tx.c:673: a station left with frames is noted as passed over.           *)
LEMMA ReaddLists ==
  ASSUME IInv, LInv, NEW r \in Runners, Readd(r)
  PROVE  LInv'
  <1> DEFINE u == run[r].w
  <1>1. /\ At(r, "pop", run[r].list, "none", "off", FALSE) /\ Step(r, {"pop"})
        /\ run'[r].pc = "pop" /\ run'[r].list = run[r].list
        /\ run'[r].head = "off" /\ run'[r].skip = FALSE
    BY Places DEF IInv, At, Step
  <1>2. /\ run[r].pc = "readd" /\ UNCHANGED <<q, active, sta, gp, send, ctl>>
        /\ txList' = IF BackOnList(u) THEN Append(txList, u) ELSE txList
        /\ ghost' = IF run[r].skip /\ q[u].pend + q[u].off > 0
                    THEN PassOver(u, "list") ELSE ghost
    BY DEF Readd
  <1>3. u \in Wcids /\ {"off", "pend"} \subseteq Kinds
    BY <1>2 DEF LInv, Types, RunTypes, Working, Kinds
  <1> HIDE DEF u
  <1>4. /\ q[u].pend + q[u].off > 0 <=> q[u]["pend"] > 0 \/ q[u]["off"] > 0
        /\ q[u].pend = q[u]["pend"]
    BY <1>3, OneFrame DEF LInv, Types
  <1>5. /\ ghost'.passed \in [Wcids -> SUBSET {"list", "txq"}]
        /\ \A w \in Wcids : ghost.passed[w] \subseteq ghost'.passed[w]
        /\ run[r].skip /\ (q[u]["pend"] > 0 \/ q[u]["off"] > 0) => "list" \in ghost'.passed[u]
    <2>1. CASE run[r].skip /\ q[u].pend + q[u].off > 0
      <3>1. ghost'.passed = [ghost.passed EXCEPT ![u] = @ \cup {"list"}]
        BY <1>2, <2>1 DEF IInv, Shape, PassOver
      <3> QED BY <1>3, <3>1 DEF LInv, Types
    <2>2. CASE ~(run[r].skip /\ q[u].pend + q[u].off > 0)
      BY <1>2, <1>4, <2>2 DEF LInv, Types
    <2> QED BY <2>1, <2>2
  <1>6. /\ Node(txList') /\ Range(txList) \subseteq Range(txList')
        /\ \A w \in Range(txList') : w \in Range(txList) \/ (w = u /\ q[u]["pend"] > 0)
    <2>1. CASE BackOnList(u)
      <3>1. u \notin Range(txList) /\ q[u]["pend"] > 0
        BY <1>4, <2>1 DEF BackOnList, Reached
      <3>2. Node(Append(txList, u)) /\ Range(Append(txList, u)) = Range(txList) \cup {u}
        BY <1>3, <3>1, Added DEF LInv, Types
      <3> QED BY <1>2, <2>1, <3>1, <3>2
    <2>2. CASE ~BackOnList(u)
      BY <1>2, <2>2 DEF LInv, Types
    <2> QED BY <2>1, <2>2
  <1>7. RunTypes(r)' /\ EmptyAt(r)'
    BY <1>1 DEF RunTypes, EmptyAt, Pcs, Working, LInv, Types
  <1>8. \A w : (Reached(w) => Reached(w)') /\ (Reached(w)' => Reached(w) \/ q[w]["pend"] > 0)
    BY <1>1, <1>6, OtherPasses DEF Reached
  <1>9. ctl'.rs # "park" => run'["reset"].pc = "idle"
    BY <1>1, <1>2, OtherPasses DEF LInv
  <1>10. ASSUME NEW w \in Wcids, NEW k \in {"pend", "off"}, q[w][k] > 0, Covers(r, w, k)
         PROVE  "list" \in ghost'.passed[w]
    BY <1>2, <1>5, <1>10 DEF Covers, u
  <1>11. \A w : ~HeldBy(r, w)
    BY <1>2 DEF HeldBy
  <1>12. /\ q' \in Queues /\ active' \subseteq Wcids
         /\ \A w \in Wcids, k \in Kinds : q'[w][k] <= q[w][k]
    BY <1>2 DEF LInv, Types, Queues
  <1>13. \A w \in Wcids, k \in {"pend", "off"} :
           q'[w][k] > 0 /\ (Reached(w) \/ Covers(r, w, k) \/ "list" \in ghost.passed[w])
           => Reached(w)' \/ Covers(r, w, k)' \/ "list" \in ghost'.passed[w]
    BY <1>2, <1>5, <1>8, <1>10
  <1>14. \A w \in Wcids : "txq" \in ghost.passed[w] => "txq" \in ghost'.passed[w]
    BY <1>5
  <1> QED BY <1>1, <1>2, <1>5, <1>6, <1>7, <1>8, <1>9, <1>11, <1>12, <1>13, <1>14, PassLists,
             TxAssumption

(* A pass with an empty list is now at p, with station u.                  *)
Txq(r, p, u) == /\ Step(r, {p}) /\ run'[r].list = <<>> /\ run'[r].w = u
                /\ run'[r].head \in {"off", "pend"} /\ run'[r].skip \in BOOLEAN

(* A step of the pass over mac80211's queues, or to it: its list is empty. *)
LEMMA TxqStep ==
  ASSUME LInv, NEW r \in Runners, NEW p, NEW u, Txq(r, p, u), run[r].list = <<>>,
         run[r].pc \in {"pop", "next", "burst", "put", "return"},
         p \in {"idle", "next", "burst", "put", "return"}, p \notin {"idle", "next"} => u \in Wcids,
         UNCHANGED <<txList, sta, send, ctl>>, gp' = gp \/ Leave(r),
         q' \in Queues, \A w \in Wcids, k \in Kinds : q'[w][k] <= q[w][k],
         active' \subseteq Wcids, ghost'.passed \in [Wcids -> SUBSET {"list", "txq"}],
         \A w \in Wcids : "list" \in ghost.passed[w] => "list" \in ghost'.passed[w],
         \A w \in Wcids :
            q'[w]["txq"] > 0 /\ (w \in active \/ HeldBy(r, w) \/ "txq" \in ghost.passed[w])
            => \/ w \in active' \/ (w = u /\ p \notin {"idle", "next"})
               \/ "txq" \in ghost'.passed[w]
  PROVE  LInv'
  <1>1. /\ run'[r].pc = p /\ run'[r].list = <<>> /\ run'[r].w = u /\ Step(r, {p})
        /\ run'[r].head \in {"off", "pend"} /\ run'[r].skip \in BOOLEAN
    BY DEF Txq, Step
  <1>2. RunTypes(r)' /\ EmptyAt(r)'
    BY <1>1, NoList DEF RunTypes, EmptyAt, Pcs, Working
  <1>3. \A w : Reached(w)' <=> Reached(w)
    BY <1>1, OtherPasses DEF Reached
  <1>4. ctl'.rs # "park" => run'["reset"].pc = "idle"
    BY <1>1, OtherPasses DEF LInv
  <1>5. \A w, k : ~Covers(r, w, k)
    BY DEF Covers
  <1>6. \A w \in Wcids : w = u /\ p \notin {"idle", "next"} => HeldBy(r, w)'
    BY <1>1 DEF HeldBy
  <1>7. Node(txList')
    BY DEF LInv, Types
  <1> QED BY <1>1, <1>2, <1>3, <1>4, <1>5, <1>6, <1>7, PassLists, TxAssumption

(* mt76_txq_schedule: a station taken from the active ones is held until   *)
(* it is given back, or is passed over.                                    *)
LEMMA TxqLists ==
  ASSUME IInv, LInv, NEW r \in Runners,
         \/ PendingDone(r) \/ Round(r) \/ Dequeue(r) \/ Put(r) \/ Return(r)
         \/ \E w \in Wcids : Offer(r, w)
  PROVE  LInv'
  <1>0. PICK v \in {run[r].w} : TRUE
    OBVIOUS
  <1>1. /\ run[r].head \in {"off", "pend"} /\ run[r].skip \in BOOLEAN /\ Shape
        /\ run[r].pc \in {"burst", "put", "return"} => v \in Wcids
    BY <1>0 DEF LInv, Types, RunTypes, IInv, Working
  <1>2. run[r].list = <<>> /\ run[r].pc \in {"pop", "next", "burst", "put", "return"}
    BY DEF PendingDone, Round, Dequeue, Put, Return, Offer, LInv, Emptied, EmptyAt
  <1>3. UNCHANGED <<txList, sta, send, ctl>>
    BY DEF PendingDone, Round, Dequeue, Put, Return, Offer
  <1>4. /\ q \in Queues /\ active \subseteq Wcids
        /\ ghost.passed \in [Wcids -> SUBSET {"list", "txq"}]
        /\ \A w \in Wcids, k \in Kinds : q[w][k] \in Nat /\ q[w][k] <= q[w][k]
    BY DEF LInv, Types, Queues
  <1>5. {"off", "pend", "txq"} \subseteq Kinds
    BY DEF Kinds
  <1>6. \A w \in Wcids : HeldBy(r, w) <=> w = v /\ run[r].pc \in {"burst", "put", "return"}
    BY <1>0 DEF HeldBy
  <1>7. CASE PendingDone(r)
    <2>1. Txq(r, "next", "none")
      BY <1>1, <1>7, Places DEF At, Txq
    <2>2. UNCHANGED <<q, active, ghost>> /\ Leave(r) /\ run[r].pc = "pop"
      BY <1>7 DEF PendingDone
    <2> QED BY <1>2, <1>3, <1>4, <1>5, <1>6, <2>1, <2>2, TxqStep
  <1>8. CASE Round(r)
    <2>1. UNCHANGED <<q, active, ghost>> /\ (gp' = gp \/ Leave(r)) /\ run[r].pc = "next"
      BY <1>8 DEF Round
    <2>2. Txq(r, "next", v) \/ Txq(r, "idle", "none")
      BY <1>0, <1>1, <1>2, <1>8, TxqPlaces DEF Same, At, Txq
    <2>3. CASE Txq(r, "next", v)
      BY <1>1, <1>2, <1>3, <1>4, <1>5, <1>6, <2>1, <2>3, TxqStep
    <2>4. CASE Txq(r, "idle", "none")
      BY <1>2, <1>3, <1>4, <1>5, <1>6, <2>1, <2>4, TxqStep
    <2> QED BY <2>2, <2>3, <2>4
  <1>9. CASE Dequeue(r)
    <2>1. /\ UNCHANGED <<active, ghost, gp>> /\ run[r].pc = "burst"
          /\ q' = q \/ (q[v].txq > 0 /\ q' = [q EXCEPT ![v].txq = @ - 1])
      BY <1>0, <1>9 DEF Dequeue
    <2>2. q' \in Queues /\ \A w \in Wcids, k \in Kinds : q'[w][k] <= q[w][k]
      <3>1. CASE q' = q
        BY <1>4, <3>1
      <3>2. CASE q[v].txq > 0 /\ q' = [q EXCEPT ![v].txq = @ - 1]
        BY <1>1, <1>4, <1>5, <2>1, <3>2, OneFrame
      <3> QED BY <2>1, <3>1, <3>2
    <2>3. PICK p \in {"put", "return"} : Txq(r, p, v)
      BY <1>0, <1>1, <1>2, <1>9, TxqPlaces DEF Same, At, Txq
    <2> QED BY <1>1, <1>2, <1>3, <1>4, <1>5, <1>6, <2>1, <2>2, <2>3, TxqStep
  <1>10. CASE Put(r)
    <2>1. /\ UNCHANGED <<q, active, gp>> /\ run[r].pc = "put"
          /\ ghost' = ghost \/ ghost' = [ghost EXCEPT !.overrun = Overrun]
      BY <1>10 DEF Put
    <2>2. ghost'.passed = ghost.passed
      BY <1>1, <2>1 DEF Shape
    <2>3. PICK p \in {"burst", "return"} : Txq(r, p, v)
      BY <1>0, <1>1, <1>2, <1>10, TxqPlaces DEF Same, At, Txq
    <2> QED BY <1>1, <1>2, <1>3, <1>4, <1>5, <1>6, <2>1, <2>2, <2>3, TxqStep
  <1>11. CASE Return(r)
    <2>1. /\ UNCHANGED q /\ run[r].pc = "return"
          /\ active' = IF q[v].txq > 0 THEN active \cup {v} ELSE active
      BY <1>0, <1>11 DEF Return
    <2>2. /\ active' \subseteq Wcids /\ active \subseteq active'
          /\ q[v]["txq"] > 0 => v \in active'
      <3>1. v \in Wcids /\ q[v].txq = q[v]["txq"]
        BY <1>1, <1>4, <1>5, <2>1, OneFrame
      <3> QED BY <1>4, <2>1, <3>1
    <2>3. CASE run[r].ret < 0
      <3>1. Txq(r, "idle", "none") /\ Leave(r)
        BY <1>1, <1>11, <2>3, TxqPlaces DEF Return, At, Txq
      <3>2. ghost'.passed = [w \in Wcids |-> IF w \in active' THEN ghost.passed[w] \cup {"txq"}
                                             ELSE ghost.passed[w]]
        BY <1>1, <1>11, <2>3 DEF Return, Shape
      <3>3. /\ ghost'.passed \in [Wcids -> SUBSET {"list", "txq"}]
            /\ \A w \in Wcids : ghost.passed[w] \subseteq ghost'.passed[w]
        BY <1>4, <3>2
      <3> QED BY <1>1, <1>2, <1>3, <1>4, <1>5, <1>6, <2>1, <2>2, <3>1, <3>3, TxqStep
    <2>4. CASE ~(run[r].ret < 0)
      <3>1. Txq(r, "next", "none")
        BY <1>0, <1>1, <1>2, <1>11, <2>4, TxqPlaces DEF At, Txq
      <3>2. UNCHANGED <<gp, ghost>>
        BY <1>11, <2>4 DEF Return
      <3> QED BY <1>1, <1>2, <1>3, <1>4, <1>5, <1>6, <2>1, <2>2, <3>1, <3>2, TxqStep
    <2> QED BY <2>3, <2>4
  <1>12. CASE \E w \in Wcids : Offer(r, w)
    <2>1. PICK w \in Wcids : Offer(r, w)
      BY <1>12
    <2> DEFINE here == sta[w] = "up" /\ ~ctl.reset /\ ~ctl.offch
               over == ~here /\ q[w].txq > 0
    <2>2. /\ UNCHANGED <<q, gp>> /\ run[r].pc = "next" /\ active' = active \ {w}
          /\ ghost' = IF over THEN PassOver(w, "txq")
                      ELSE [ghost EXCEPT !.passed[w] = @ \ {"txq"}]
      BY <2>1 DEF Offer
    <2>3. PICK p \in {"next", "return", "burst"}, x \in {"none", w} :
            Txq(r, p, x) /\ (here => p # "next") /\ (p # "next" => x = w)
      BY <1>0, <1>1, <1>2, <2>1, TxqPlaces DEF At, Txq
    <2>4. q[w].txq = q[w]["txq"]
      BY <1>4, <1>5, OneFrame
    <2> HIDE DEF here
    <2>5. /\ ghost'.passed \in [Wcids -> SUBSET {"list", "txq"}]
          /\ \A z \in Wcids : /\ "list" \in ghost.passed[z] => "list" \in ghost'.passed[z]
                              /\ z # w => ghost'.passed[z] = ghost.passed[z]
          /\ over => "txq" \in ghost'.passed[w]
      <3>1. CASE over
        <4>1. ghost'.passed = [ghost.passed EXCEPT ![w] = @ \cup {"txq"}]
          BY <1>1, <2>2, <3>1 DEF Shape, PassOver
        <4> QED BY <1>4, <4>1
      <3>2. CASE ~over
        <4>1. ghost'.passed = [ghost.passed EXCEPT ![w] = @ \ {"txq"}]
          BY <1>1, <2>2, <3>2 DEF Shape
        <4> QED BY <1>4, <3>2, <4>1
      <3> QED BY <3>1, <3>2
    <2>6. ASSUME NEW z \in Wcids, q[z]["txq"] > 0,
                 z \in active \/ HeldBy(r, z) \/ "txq" \in ghost.passed[z]
          PROVE  \/ z \in active' \/ (z = x /\ p \notin {"idle", "next"})
                 \/ "txq" \in ghost'.passed[z]
      <3>1. ~HeldBy(r, z)
        BY <1>6, <2>2
      <3>2. CASE z # w
        BY <2>2, <2>5, <2>6, <3>1, <3>2
      <3>3. CASE z = w
        BY <2>3, <2>4, <2>5, <2>6, <3>3
      <3> QED BY <3>2, <3>3
    <2> QED BY <1>1, <1>2, <1>3, <1>4, <1>5, <2>1, <2>2, <2>3, <2>5, <2>6, TxqStep
  <1> QED BY <1>7, <1>8, <1>9, <1>10, <1>11, <1>12

(* A step that begins a pass finds its list empty.                         *)
LEMMA StartLists ==
  ASSUME IInv, LInv, NEW r \in Runners, run[r].pc = "idle",
         run' = [run EXCEPT ![r].pc = "splice"], ctl'.rs # "park" => r # "reset" /\ ctl.rs # "park",
         UNCHANGED <<q, txList, active, sta, gp, send, ghost>>
  PROVE  LInv'
  <1>1. /\ Step(r, {"splice"}) /\ run'[r].pc = "splice" /\ run'[r].list = run[r].list
        /\ run'[r].w = run[r].w /\ run'[r].head = run[r].head /\ run'[r].skip = run[r].skip
    <2>1. IsRun(run[r])
      BY DEF IInv, Shape
    <2> DEFINE y == [run[r] EXCEPT !.pc = "splice"]
    <2>2. run' = [run EXCEPT ![r] = y]
      OBVIOUS
    <2>3. /\ IsRun(y) /\ y.pc = "splice" /\ y.list = run[r].list
          /\ y.w = run[r].w /\ y.head = run[r].head /\ y.skip = run[r].skip
      BY <2>1 DEF IsRun, Fields
    <2> HIDE DEF y
    <2>4. y.pc \in {"splice"}
      BY <2>3
    <2> QED BY <2>2, <2>3, <2>4, Update DEF IInv
  <1>2. RunTypes(r)' /\ EmptyAt(r)'
    BY <1>1 DEF RunTypes, EmptyAt, Pcs, Working, LInv, Types, Emptied
  <1>3. \A w : Reached(w)' <=> Reached(w)
    BY <1>1, OtherPasses DEF Reached
  <1>4. ctl'.rs # "park" => run'["reset"].pc = "idle"
    BY <1>1 DEF LInv, Emptied, Step, Runners
  <1>5. \A w, k : ~Covers(r, w, k) /\ ~HeldBy(r, w)
    BY DEF Covers, HeldBy
  <1>6. /\ q' \in Queues /\ \A w \in Wcids, k \in Kinds : q'[w][k] <= q[w][k]
        /\ Node(txList') /\ active' \subseteq Wcids
        /\ ghost'.passed \in [Wcids -> SUBSET {"list", "txq"}]
    BY DEF LInv, Types, Queues
  <1> QED BY <1>1, <1>2, <1>3, <1>4, <1>5, <1>6, PassLists, TxAssumption

(* A step that touches neither passes nor lists.                           *)
LEMMA ListsElsewhere ==
  ASSUME LInv, UNCHANGED <<run, q, txList, active, sta, gp, send>>,
         ghost'.passed = ghost.passed, ctl'.rs # "park" => run["reset"].pc = "idle"
  PROVE  LInv'
  <1>1. Types'
    BY DEF LInv, Types, RunTypes
  <1>2. Emptied'
    BY DEF LInv, Emptied, EmptyAt
  <1>3. FrameSeen' /\ TxqSeen'
    BY DEF LInv, FrameSeen, TxqSeen, Reached, Covers, HeldBy, Adding
  <1>4. Unused'
    BY DEF LInv, Unused, Using, Reached
  <1> QED BY <1>1, <1>2, <1>3, <1>4 DEF LInv

(* A frame is queued for a station that is up, by a sender that lists it   *)
(* next.                                                                   *)
LEMMA EnqueueLists ==
  ASSUME LInv, NEW c \in Senders, NEW w \in Wcids, NEW k \in Kinds, Enqueue(c, w, k),
         ctl'.rs = ctl.rs
  PROVE  LInv'
  <1>1. /\ send[c].pc = "idle" /\ sta[w] = "up" /\ q' = [q EXCEPT ![w][k] = @ + 1]
        /\ send' = [send EXCEPT ![c] = [pc |-> "list", w |-> w, k |-> k]]
        /\ UNCHANGED <<txList, active, sta, gp, run, ghost>>
    BY DEF Enqueue
  <1>2. /\ q' \in Queues
        /\ \A v \in Wcids, j \in Kinds :
             q'[v][j] = IF v = w /\ j = k THEN q[v][j] + 1 ELSE q[v][j]
    <2>1. q \in Queues
      BY DEF LInv, Types
    <2> QED BY <1>1, <2>1, OneFrame
  <1>3. /\ send' \in [Senders -> SendRec]
        /\ send'[c].pc = "list" /\ send'[c].w = w /\ send'[c].k = k
        /\ \A d \in Senders : d # c => send'[d] = send[d]
    <2>1. send \in [Senders -> SendRec]
      BY DEF LInv, Types
    <2>2. [pc |-> "list", w |-> w, k |-> k] \in SendRec
      BY DEF SendRec
    <2> QED BY <1>1, <2>1, <2>2
  <1>4. Types'
    BY <1>1, <1>2, <1>3 DEF LInv, Types, RunTypes
  <1>5. Emptied'
    BY <1>1 DEF LInv, Emptied, EmptyAt
  <1>6. \A v, j : Adding(v, {j}) \/ (v = w /\ j = k) => Adding(v, {j})'
    BY <1>1, <1>3 DEF Adding
  <1>7. {"pend", "off", "txq"} \subseteq Kinds
    BY DEF Kinds
  <1>8. /\ \A v : Reached(v)' <=> Reached(v)
        /\ \A r, v : HeldBy(r, v)' <=> HeldBy(r, v)
        /\ \A r, v, j : Covers(r, v, j)' <=> Covers(r, v, j)
    BY <1>1 DEF Reached, HeldBy, Covers
  <1>9. FrameSeen'
    <2> SUFFICES ASSUME NEW v \in Wcids, NEW j \in {"pend", "off"}, q'[v][j] > 0
                 PROVE  \/ Reached(v)' \/ \E r \in Runners : Covers(r, v, j)'
                        \/ Adding(v, {j})' \/ "list" \in ghost'.passed[v]
      BY DEF FrameSeen
    <2>1. CASE v = w /\ j = k
      BY <1>6, <2>1
    <2>2. CASE ~(v = w /\ j = k)
      <3>1. q[v][j] > 0
        BY <1>2, <1>7, <2>2
      <3>2. \/ Reached(v) \/ \E r \in Runners : Covers(r, v, j)
            \/ Adding(v, {j}) \/ "list" \in ghost.passed[v]
        BY <3>1 DEF LInv, FrameSeen
      <3> QED BY <1>1, <1>6, <1>8, <3>2
    <2> QED BY <2>1, <2>2
  <1>10. TxqSeen'
    <2> SUFFICES ASSUME NEW v \in Wcids, q'[v]["txq"] > 0
                 PROVE  \/ v \in active' \/ \E r \in Runners : HeldBy(r, v)'
                        \/ Adding(v, {"txq"})' \/ "txq" \in ghost'.passed[v]
      BY DEF TxqSeen
    <2>1. CASE v = w /\ k = "txq"
      BY <1>6, <2>1
    <2>2. CASE ~(v = w /\ k = "txq")
      <3>1. q[v]["txq"] > 0
        BY <1>2, <1>7, <2>2
      <3>2. \/ v \in active \/ \E r \in Runners : HeldBy(r, v)
            \/ Adding(v, {"txq"}) \/ "txq" \in ghost.passed[v]
        BY <3>1 DEF LInv, TxqSeen
      <3> QED BY <1>1, <1>6, <1>8, <3>2
    <2> QED BY <2>1, <2>2
  <1>11. Unused'
    <2>1. \A v \in Wcids : v # w => Using(v)' = Using(v)
      BY <1>1, <1>3 DEF Using
    <2> QED BY <1>1, <1>2, <1>7, <1>8, <2>1 DEF LInv, Unused
  <1> QED BY <1>4, <1>5, <1>9, <1>10, <1>11 DEF LInv

(* The sender lists the station, unless it is on a list already.           *)
LEMMA ListLists ==
  ASSUME LInv, IInv, NEW c \in Senders, List(c)
  PROVE  LInv'
  <1> DEFINE w == send[c].w
  <1>1. /\ send[c].pc = "list" /\ UNCHANGED <<q, sta, gp, run, ctl>>
        /\ send' = [send EXCEPT ![c].pc = "wake"]
        /\ \/ /\ send[c].k = "txq" /\ active' = active \cup {w} /\ UNCHANGED txList
              /\ ghost' = [ghost EXCEPT !.passed[w] = @ \ {"txq"}]
           \/ /\ send[c].k # "txq" /\ UNCHANGED active
              /\ txList' = IF Reached(w) THEN txList ELSE Append(txList, w)
              /\ ghost' = [ghost EXCEPT !.passed[w] = @ \ {"list"}]
    BY DEF List
  <1>2. PICK u \in Wcids : u = w
    BY <1>1 DEF LInv, Types
  <1>3. /\ send' \in [Senders -> SendRec]
        /\ send'[c].pc = "wake" /\ send'[c].w = u /\ send'[c].k = send[c].k
        /\ \A d \in Senders : d # c => send'[d] = send[d]
    <2>1. send \in [Senders -> SendRec] /\ send' = [send EXCEPT ![c].pc = "wake"]
      BY <1>1 DEF LInv, Types
    <2>2. /\ send' \in [Senders -> SendRec]
          /\ send'[c].pc = "wake" /\ send'[c].w = send[c].w /\ send'[c].k = send[c].k
          /\ \A d \in Senders : d # c => send'[d] = send[d]
      BY <2>1 DEF SendRec
    <2> QED BY <1>2, <2>2 DEF w
  <1> HIDE DEF w
  <1>4. \A v \in Wcids : Using(v)' = Using(v)
    BY <1>1, <1>2, <1>3 DEF Using, w
  <1>5. \A v, j : Adding(v, {j}) => Adding(v, {j})' \/ (v = u /\ j = send[c].k)
    BY <1>1, <1>2, <1>3 DEF Adding, w
  <1>6. u \in Wcids /\ sta[u] # "gone"
    BY <1>1, <1>2 DEF LInv, Unused, Using, w
  <1>7. \A r, v, j : /\ HeldBy(r, v)' <=> HeldBy(r, v)
                     /\ Covers(r, v, j)' <=> Covers(r, v, j)
    BY <1>1 DEF HeldBy, Covers
  <1>8. CASE send[c].k = "txq"
    <2>1. /\ active' = active \cup {u} /\ txList' = txList
          /\ ghost'.passed = [ghost.passed EXCEPT ![u] = @ \ {"txq"}]
      BY <1>1, <1>2, <1>8 DEF IInv, Shape
    <2>2. /\ ghost'.passed \in [Wcids -> SUBSET {"list", "txq"}]
          /\ \A v \in Wcids : /\ "list" \in ghost.passed[v] => "list" \in ghost'.passed[v]
                              /\ v # u => ghost'.passed[v] = ghost.passed[v]
      BY <1>2, <2>1 DEF LInv, Types
    <2>3. \A v : Reached(v)' <=> Reached(v)
      BY <1>1, <2>1 DEF Reached
    <2>4. Types'
      <3>1. /\ q' \in Queues /\ Node(txList') /\ active' \subseteq Wcids
            /\ sta' \in [Wcids -> {"up", "unlinked", "gone"}]
            /\ gp' \in [Wcids -> SUBSET (Senders \cup Runners)]
        BY <1>1, <2>1 DEF LInv, Types
      <3>2. \A d \in Senders : send'[d].pc # "idle" => send'[d].w \in Wcids
        BY <1>3 DEF LInv, Types
      <3>3. \A r \in Runners : RunTypes(r)'
        BY <1>1 DEF LInv, Types, RunTypes
      <3> QED BY <1>3, <2>2, <3>1, <3>2, <3>3 DEF Types
    <2>5. Emptied'
      BY <1>1 DEF LInv, Emptied, EmptyAt
    <2>6. FrameSeen'
      BY <1>1, <1>5, <1>7, <1>8, <2>2, <2>3 DEF LInv, FrameSeen
    <2>7. TxqSeen'
      BY <1>1, <1>5, <1>7, <2>1, <2>2 DEF LInv, TxqSeen
    <2>8. Unused'
      BY <1>1, <1>4, <2>3 DEF LInv, Unused
    <2> QED BY <2>4, <2>5, <2>6, <2>7, <2>8 DEF LInv
  <1>9. CASE send[c].k # "txq"
    <2>1. /\ active' = active /\ txList' = IF Reached(u) THEN txList ELSE Append(txList, u)
          /\ ghost'.passed = [ghost.passed EXCEPT ![u] = @ \ {"list"}]
      BY <1>1, <1>2, <1>9 DEF IInv, Shape
    <2>2. /\ ghost'.passed \in [Wcids -> SUBSET {"list", "txq"}]
          /\ \A v \in Wcids : /\ "txq" \in ghost.passed[v] => "txq" \in ghost'.passed[v]
                              /\ v # u => ghost'.passed[v] = ghost.passed[v]
      BY <1>2, <2>1 DEF LInv, Types
    <2>3. Node(txList') /\ \A v : Reached(v)' <=> Reached(v) \/ v = u
      <3>1. CASE Reached(u)
        BY <1>1, <2>1, <3>1 DEF Reached, LInv, Types
      <3>2. CASE ~Reached(u)
        <4>1. u \notin Range(txList) /\ Node(txList)
          BY <3>2 DEF Reached, LInv, Types
        <4>2. Node(txList') /\ Range(txList') = Range(txList) \cup {u}
          BY <1>2, <2>1, <3>2, <4>1, Added
        <4> QED BY <1>1, <4>2 DEF Reached
      <3> QED BY <3>1, <3>2
    <2>4. Types'
      <3>1. /\ q' \in Queues /\ active' \subseteq Wcids
            /\ sta' \in [Wcids -> {"up", "unlinked", "gone"}]
            /\ gp' \in [Wcids -> SUBSET (Senders \cup Runners)]
        BY <1>1, <2>1 DEF LInv, Types
      <3>2. \A d \in Senders : send'[d].pc # "idle" => send'[d].w \in Wcids
        BY <1>3 DEF LInv, Types
      <3>3. \A r \in Runners : RunTypes(r)'
        BY <1>1 DEF LInv, Types, RunTypes
      <3> QED BY <1>3, <2>2, <2>3, <3>1, <3>2, <3>3 DEF Types
    <2>5. Emptied'
      BY <1>1 DEF LInv, Emptied, EmptyAt
    <2>6. FrameSeen'
      BY <1>1, <1>5, <1>7, <2>2, <2>3 DEF LInv, FrameSeen
    <2>7. TxqSeen'
      BY <1>1, <1>5, <1>7, <1>9, <2>1, <2>2 DEF LInv, TxqSeen
    <2>8. Unused'
      BY <1>1, <1>4, <1>6, <2>3 DEF LInv, Unused
    <2> QED BY <2>4, <2>5, <2>6, <2>7, <2>8 DEF LInv
  <1> QED BY <1>8, <1>9

(* It leaves its read-side section when it has scheduled the worker.       *)
LEMMA WakeLists ==
  ASSUME LInv, NEW c \in Senders, WakeWorker(c)
  PROVE  LInv'
  <1>1. /\ send[c].pc = "wake" /\ Leave(c)
        /\ send' = [send EXCEPT ![c] = [pc |-> "idle", w |-> "none", k |-> "pend"]]
        /\ UNCHANGED <<q, txList, active, sta, run, ctl, ghost>>
    BY DEF WakeWorker
  <1>2. /\ send' \in [Senders -> SendRec]
        /\ send'[c].pc = "idle" /\ \A d \in Senders : d # c => send'[d] = send[d]
    <2>1. send \in [Senders -> SendRec]
      BY DEF LInv, Types
    <2>2. [pc |-> "idle", w |-> "none", k |-> "pend"] \in SendRec
      BY DEF Kinds, SendRec
    <2> QED BY <1>1, <2>1, <2>2
  <1>3. /\ gp' \in [Wcids -> SUBSET (Senders \cup Runners)]
        /\ \A v \in Wcids : gp'[v] = gp[v] \ {c}
    BY <1>1 DEF LInv, Types, Leave
  <1>4. Types'
    BY <1>1, <1>2, <1>3 DEF LInv, Types, RunTypes
  <1>5. Emptied'
    BY <1>1 DEF LInv, Emptied, EmptyAt
  <1>6. \A v, j : Adding(v, {j}) => Adding(v, {j})'
    BY <1>1, <1>2 DEF Adding
  <1>7. /\ \A v : Reached(v)' <=> Reached(v)
        /\ \A r, v : HeldBy(r, v)' <=> HeldBy(r, v)
        /\ \A r, v, j : Covers(r, v, j)' <=> Covers(r, v, j)
    BY <1>1 DEF Reached, HeldBy, Covers
  <1>8. FrameSeen' /\ TxqSeen'
    BY <1>1, <1>6, <1>7 DEF LInv, FrameSeen, TxqSeen
  <1>9. Unused'
    <2>1. \A v \in Wcids : Using(v)' = Using(v) \ {c}
      BY <1>1, <1>2 DEF Using
    <2> QED BY <1>1, <1>3, <1>7, <2>1 DEF LInv, Unused
  <1> QED BY <1>4, <1>5, <1>8, <1>9 DEF LInv

(* mt76_sta_pre_rcu_remove: those inside may still use the station.        *)
LEMMA UnlinkLists ==
  ASSUME LInv, NEW w \in Wcids, Unlink(w)
  PROVE  LInv'
  <1>1. /\ sta[w] = "up" /\ sta' = [sta EXCEPT ![w] = "unlinked"]
        /\ gp' = [gp EXCEPT ![w] = Inside]
        /\ UNCHANGED <<q, txList, active, send, run, ctl, ghost>>
    BY DEF Unlink
  <1>2. Inside \subseteq Senders \cup Runners /\ Using(w) \subseteq Inside
    BY DEF Inside, Using
  <1>3. /\ gp' \in [Wcids -> SUBSET (Senders \cup Runners)] /\ gp'[w] = Inside
        /\ \A v \in Wcids : v # w => gp'[v] = gp[v]
    BY <1>1, <1>2 DEF LInv, Types
  <1>4. /\ sta' \in [Wcids -> {"up", "unlinked", "gone"}] /\ sta'[w] = "unlinked"
        /\ \A v \in Wcids : v # w => sta'[v] = sta[v]
    BY <1>1 DEF LInv, Types
  <1>5. Types'
    BY <1>1, <1>3, <1>4 DEF LInv, Types, RunTypes
  <1>6. Emptied'
    BY <1>1 DEF LInv, Emptied, EmptyAt
  <1>7. FrameSeen' /\ TxqSeen'
    BY <1>1 DEF LInv, FrameSeen, TxqSeen, Reached, Covers, HeldBy, Adding
  <1>8. \A v : Using(v)' = Using(v) /\ (Reached(v)' <=> Reached(v))
    BY <1>1 DEF Using, Reached
  <1>9. Unused'
    BY <1>1, <1>2, <1>3, <1>4, <1>8 DEF LInv, Unused
  <1> QED BY <1>5, <1>6, <1>7, <1>9 DEF LInv

(* mt76_wcid_cleanup: the station is taken off whatever list it is on.     *)
LEMMA CleanupLists ==
  ASSUME IInv, LInv, NEW w \in Wcids, Cleanup(w)
  PROVE  LInv'
  <1>1. /\ sta[w] = "unlinked" /\ gp[w] = {} /\ sta' = [sta EXCEPT ![w] = "gone"]
        /\ txList' = RemoveFirst(txList, w) /\ active' = active \ {w}
        /\ run' = [r \in Runners |-> [run[r] EXCEPT !.list = RemoveFirst(@, w)]]
        /\ q' = [q EXCEPT ![w] = [pend |-> 0, off |-> 0, txq |-> 0]]
        /\ ghost' = [ghost EXCEPT !.passed[w] = {}] /\ UNCHANGED <<gp, send, ctl>>
    BY DEF Cleanup
  <1>2. ASSUME NEW r \in Runners
        PROVE  /\ run'[r].list = RemoveFirst(run[r].list, w) /\ run'[r].pc = run[r].pc
               /\ run'[r].w = run[r].w /\ run'[r].head = run[r].head
               /\ run'[r].skip = run[r].skip
    <2> DEFINE l == RemoveFirst(run[r].list, w)
    <2>1. run'[r] = [run[r] EXCEPT !.list = l]
      BY <1>1
    <2> HIDE DEF l
    <2>2. IsRun(run[r])
      BY DEF IInv, Shape
    <2>3. run'[r].list = l /\ run'[r].pc = run[r].pc /\ run'[r].w = run[r].w
          /\ run'[r].head = run[r].head /\ run'[r].skip = run[r].skip
      BY <2>1, <2>2 DEF IsRun, Fields
    <2> QED BY <2>3 DEF l
  <1>3. ASSUME NEW s, Node(s)
        PROVE  Node(RemoveFirst(s, w)) /\ Range(RemoveFirst(s, w)) = Range(s) \ {w}
    BY <1>3, Unlisted DEF Node
  <1>4. Node(txList') /\ Range(txList') = Range(txList) \ {w}
    BY <1>1, <1>3 DEF LInv, Types
  <1>5. \A r \in Runners : Node(run'[r].list) /\ Range(run'[r].list) = Range(run[r].list) \ {w}
    BY <1>2, <1>3 DEF LInv, Types, RunTypes
  <1>6. \A v : Reached(v)' <=> Reached(v) /\ v # w
    BY <1>4, <1>5 DEF Reached
  <1>7. /\ q' \in Queues
        /\ \A v \in Wcids, j \in Kinds : q'[v][j] = IF v = w THEN 0 ELSE q[v][j]
    <2>1. "txq" \in Kinds
      BY DEF Kinds
    <2> QED BY <1>1, <2>1, OneFrame DEF LInv, Types
  <1>8. /\ ghost'.passed \in [Wcids -> SUBSET {"list", "txq"}]
        /\ \A v \in Wcids : v # w => ghost'.passed[v] = ghost.passed[v]
    <2>1. ghost'.passed = [ghost.passed EXCEPT ![w] = {}]
      BY <1>1 DEF IInv, Shape
    <2> QED BY <2>1 DEF LInv, Types
  <1>9. /\ sta' \in [Wcids -> {"up", "unlinked", "gone"}] /\ sta'[w] = "gone"
        /\ \A v \in Wcids : v # w => sta'[v] = sta[v]
    BY <1>1 DEF LInv, Types
  <1>10. Types'
    <2>1. \A r \in Runners : RunTypes(r)'
      BY <1>2, <1>5 DEF LInv, Types, RunTypes
    <2> QED BY <1>1, <1>4, <1>7, <1>8, <1>9, <2>1 DEF LInv, Types
  <1>11. Emptied'
    <2>1. ASSUME NEW r \in Runners PROVE EmptyAt(r)'
      <3>1. run[r].list = <<>> => run'[r].list = <<>>
        BY <1>2, EmptyUnlisted
      <3> QED BY <1>2, <3>1 DEF LInv, Emptied, EmptyAt
    <2>2. run'["reset"].pc = run["reset"].pc
      BY <1>2 DEF Runners
    <2> QED BY <1>1, <2>1, <2>2 DEF LInv, Emptied
  <1>12. /\ \A r \in Runners : \A v : HeldBy(r, v)' <=> HeldBy(r, v)
         /\ \A r \in Runners : \A v, j : Covers(r, v, j)' <=> Covers(r, v, j)
         /\ \A v, j : Adding(v, {j})' <=> Adding(v, {j})
         /\ \A v : Using(v)' = Using(v)
    BY <1>1, <1>2 DEF HeldBy, Covers, Adding, Using
  <1>13. {"pend", "off", "txq"} \subseteq Kinds
    BY DEF Kinds
  <1>14. FrameSeen'
    <2> SUFFICES ASSUME NEW v \in Wcids, NEW j \in {"pend", "off"}, q'[v][j] > 0
                 PROVE  \/ Reached(v)' \/ \E r \in Runners : Covers(r, v, j)'
                        \/ Adding(v, {j})' \/ "list" \in ghost'.passed[v]
      BY DEF FrameSeen
    <2>1. v # w /\ q[v][j] > 0
      BY <1>7, <1>13
    <2>2. \/ Reached(v) \/ \E r \in Runners : Covers(r, v, j)
          \/ Adding(v, {j}) \/ "list" \in ghost.passed[v]
      BY <2>1 DEF LInv, FrameSeen
    <2> QED BY <1>6, <1>8, <1>12, <2>1, <2>2
  <1>15. TxqSeen'
    <2> SUFFICES ASSUME NEW v \in Wcids, q'[v]["txq"] > 0
                 PROVE  \/ v \in active' \/ \E r \in Runners : HeldBy(r, v)'
                        \/ Adding(v, {"txq"})' \/ "txq" \in ghost'.passed[v]
      BY DEF TxqSeen
    <2>1. v # w /\ q[v]["txq"] > 0
      BY <1>7, <1>13
    <2>2. \/ v \in active \/ \E r \in Runners : HeldBy(r, v)
          \/ Adding(v, {"txq"}) \/ "txq" \in ghost.passed[v]
      BY <2>1 DEF LInv, TxqSeen
    <2> QED BY <1>1, <1>8, <1>12, <2>1, <2>2
  <1>16. Unused'
    BY <1>1, <1>6, <1>7, <1>9, <1>12, <1>13 DEF LInv, Unused
  <1> QED BY <1>10, <1>11, <1>14, <1>15, <1>16 DEF LInv

(* A driver that starts has nothing listed.                                *)
LEMMA InitLInv == Init => LInv
  <1> SUFFICES ASSUME Init PROVE LInv  OBVIOUS
  <1>1. \A r \in Runners : /\ run[r].pc = "idle" /\ run[r].list = <<>> /\ run[r].w = "none"
                           /\ run[r].head = "off" /\ run[r].skip = FALSE
    BY DEF Init, Idle
  <1>2. q \in Queues /\ \A w \in Wcids, k \in Kinds : q[w][k] = 0
    BY DEF Init, Queues, Kinds
  <1>3. /\ txList = <<>> /\ active = {} /\ sta \in [Wcids -> {"up", "unlinked", "gone"}]
        /\ \A w \in Wcids : sta[w] = "up"
        /\ gp \in [Wcids -> SUBSET (Senders \cup Runners)]
        /\ ghost.passed \in [Wcids -> SUBSET {"list", "txq"}]
    BY DEF Init
  <1>4. /\ send \in [Senders -> SendRec]
        /\ \A c \in Senders : send[c].pc = "idle"
    <2>1. send = [c \in Senders |-> [pc |-> "idle", w |-> "none", k |-> "pend"]]
      BY DEF Init
    <2>2. [pc |-> "idle", w |-> "none", k |-> "pend"] \in SendRec
      BY DEF Kinds, SendRec
    <2> QED BY <2>1, <2>2
  <1>5. Types
    <2>1. \A r \in Runners : RunTypes(r)
      BY <1>1, NoList DEF RunTypes, Pcs, Working
    <2> QED BY <1>2, <1>3, <1>4, <2>1, NoList DEF Types
  <1>6. Emptied
    BY <1>1 DEF Emptied, EmptyAt, Runners
  <1>7. FrameSeen /\ TxqSeen
    BY <1>2 DEF FrameSeen, TxqSeen, Kinds
  <1>8. Unused
    BY <1>3 DEF Unused
  <1> QED BY <1>5, <1>6, <1>7, <1>8 DEF LInv

(* The reset work and a channel change leave the lists alone; the reset's  *)
(* own pass begins at its lock and is over when the worker is parked.      *)
LEMMA ControlLists ==
  ASSUME IInv, LInv, RsStart \/ Reset \/ ChStart \/ ChEnd
  PROVE  LInv'
  <1>1. /\ ctl \in CtlRec /\ "reset" \in Runners /\ Shape
        /\ ctl.rs # "park" => run["reset"].pc = "idle"
    BY DEF IInv, Shape, LInv, Emptied, Runners
  <1>2. CASE RsLock
    <2>1. /\ ctl.rs = "lock" /\ run' = [run EXCEPT !["reset"].pc = "splice"]
          /\ ctl' = [ctl EXCEPT !.rs = "park", !.mutex = "rs", !.tries = @ + 1]
          /\ UNCHANGED <<q, txList, active, sta, gp, send, ghost>>
      BY <1>2 DEF RsLock
    <2>2. ctl'.rs = "park"
      BY <1>1, <2>1 DEF CtlRec
    <2> QED BY <1>1, <2>1, <2>2, StartLists
  <1>3. ASSUME ~RsLock
        PROVE  /\ UNCHANGED <<run, q, txList, active, sta, gp, send>>
               /\ ghost'.passed = ghost.passed
    <2>1. UNCHANGED <<run, q, txList, active, sta, gp, send>>
      BY <1>3 DEF RsStart, Reset, RsParked, RsNapi, RsTear, RsFw, RsEnd, ChStart, ChEnd
    <2>2. \/ ghost' = ghost \/ ghost' = [ghost EXCEPT !.stuck = @ \/ blocked]
          \/ ghost' = [ghost EXCEPT !.stuck = TRUE]
      BY <1>3 DEF RsStart, Reset, RsParked, RsNapi, RsTear, RsFw, RsEnd, ChStart, ChEnd
    <2> QED BY <1>1, <2>1, <2>2 DEF Shape
  <1>4. ~RsLock => (ctl'.rs # "park" => run["reset"].pc = "idle")
    <2>1. CASE ChStart \/ ChEnd
      <3>1. ctl'.rs = ctl.rs
        BY <1>1, <2>1 DEF ChStart, ChEnd, CtlRec
      <3> QED BY <1>1, <3>1
    <2>2. CASE RsStart \/ RsNapi \/ RsTear \/ RsFw \/ RsEnd
      BY <1>1, <2>2 DEF RsStart, RsNapi, RsTear, RsFw, RsEnd
    <2>3. CASE RsParked
      BY <2>3 DEF RsParked
    <2> QED BY <2>1, <2>2, <2>3 DEF Reset
  <1> QED BY <1>2, <1>3, <1>4, ListsElsewhere

(* LInv is an inductive invariant, given what holds of the passes.         *)
LEMMA ListsInductive == Spec => []LInv
  <1>1. IInv /\ LInv /\ [Next]_vars => LInv'
    <2> SUFFICES ASSUME IInv, LInv, [Next]_vars PROVE LInv'  OBVIOUS
    <2>0. Shape /\ ctl \in CtlRec /\ (ctl.rs # "park" => run["reset"].pc = "idle")
      BY DEF IInv, Shape, LInv, Emptied
    <2>1. CASE \E c \in Senders : SendStep(c) \/ \E w \in Wcids, k \in Kinds : Enqueue(c, w, k)
      <3>1. ASSUME NEW c \in Senders, NEW w \in Wcids, NEW k \in Kinds, Enqueue(c, w, k)
            PROVE  LInv'
        <4>1. ctl'.rs = ctl.rs
          BY <2>0, <3>1 DEF Enqueue, CtlRec
        <4> QED BY <3>1, <4>1, EnqueueLists
      <3> QED BY <2>1, <3>1, ListLists, WakeLists DEF SendStep
    <2>2. CASE \E r \in Runners : RunStep(r)
      BY <2>2, SpliceLists, PopLists, StationLists, ReaddLists, TxqLists DEF RunStep
    <2>3. CASE StartWorker
      <3>1. /\ run["worker"].pc = "idle" /\ run' = [run EXCEPT !["worker"].pc = "splice"]
            /\ UNCHANGED <<q, txList, active, sta, gp, send, ctl, ghost>>
        BY <2>3 DEF StartWorker
      <3>2. "worker" \in Runners /\ "worker" # "reset"
        BY DEF Runners
      <3> QED BY <3>1, <3>2, StartLists
    <2>4. CASE Poll
      <3>1. UNCHANGED <<run, q, txList, active, sta, gp, send, ctl, ghost>>
        BY <2>4 DEF Poll, FreeStart, FreeToken, FreeEnd
      <3> QED BY <2>0, <3>1, ListsElsewhere
    <2>5. CASE RsStart \/ Reset \/ ChStart \/ ChEnd
      BY <2>5, ControlLists
    <2>6. CASE \E w \in Wcids : Unlink(w) \/ Cleanup(w)
      BY <2>6, UnlinkLists, CleanupLists
    <2>7. CASE UNCHANGED vars
      <3>1. UNCHANGED <<run, q, txList, active, sta, gp, send, ctl, ghost>>
        BY <2>7 DEF vars
      <3> QED BY <2>0, <3>1, ListsElsewhere
    <2> QED BY <2>1, <2>2, <2>3, <2>4, <2>5, <2>6, <2>7 DEF Next
  <1> QED BY <1>1, Inductive, InitLInv, PTL DEF Spec

(* A waiting frame is on a station that somebody will look at, or that a   *)
(* pass left behind, for any number of stations, senders and frames and    *)
(* whatever passes, resets, channel changes and removals overlap.          *)
THEOREM NoFrameIsForgotten == Spec => []NoFrameForgotten
  <1>1. LInv => NoFrameForgotten
    <2> SUFFICES ASSUME LInv, NEW w \in Wcids
                 PROVE  /\ q[w].pend + q[w].off > 0 =>
                             \/ Reached(w) \/ Held(w, {"drain", "post", "readd"})
                             \/ Adding(w, {"pend", "off"}) \/ "list" \in ghost.passed[w]
                        /\ q[w].txq > 0 =>
                             \/ w \in active \/ Held(w, {"burst", "put", "return"})
                             \/ Adding(w, {"txq"}) \/ "txq" \in ghost.passed[w]
      BY DEF NoFrameForgotten
    <2>1. /\ q[w].pend + q[w].off > 0 => q[w]["pend"] > 0 \/ q[w]["off"] > 0
          /\ q[w].txq = q[w]["txq"]
      <3>1. "txq" \in Kinds
        BY DEF Kinds
      <3> QED BY <3>1, OneFrame DEF LInv, Types
    <2>2. \A r, k : Covers(r, w, k) => run[r].w = w /\ run[r].pc \in {"drain", "post", "readd"}
      BY DEF Covers
    <2>3. \A k \in {"pend", "off"} : Adding(w, {k}) => Adding(w, {"pend", "off"})
      BY DEF Adding
    <2>4. ASSUME NEW k \in {"pend", "off"}, q[w][k] > 0
          PROVE  \/ Reached(w) \/ Held(w, {"drain", "post", "readd"})
                 \/ Adding(w, {"pend", "off"}) \/ "list" \in ghost.passed[w]
      BY <2>2, <2>3, <2>4 DEF LInv, FrameSeen, Held
    <2>5. q[w]["txq"] > 0 =>
            \/ w \in active \/ Held(w, {"burst", "put", "return"})
            \/ Adding(w, {"txq"}) \/ "txq" \in ghost.passed[w]
      BY DEF LInv, TxqSeen, HeldBy, Held
    <2> QED BY <2>1, <2>4, <2>5
  <1> QED BY <1>1, ListsInductive, PTL

(* A removed station is on no list and has no frames, whatever pass was    *)
(* working on it when it went.                                             *)
THEOREM GoneStationIsOff == Spec => []StationGone
  <1>1. LInv => StationGone
    <2> SUFFICES ASSUME LInv, NEW w \in Wcids, sta[w] = "gone"
                 PROVE  ~Reached(w) /\ q[w].pend + q[w].off = 0
      BY DEF StationGone
    <2>1. q[w].pend = 0 /\ q[w].off = 0
      <3>1. "pend" \in Kinds
        BY DEF Kinds
      <3> QED BY <3>1, OneFrame DEF LInv, Types, Unused
    <2> QED BY <2>1 DEF LInv, Unused
  <1> QED BY <1>1, ListsInductive, PTL
=============================================================================
