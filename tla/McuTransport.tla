----------------------------- MODULE McuTransport -----------------------------
(***************************************************************************)
(* Commands to the firmware (mcu.c 32-136, mt7921/pci_mcu.c 22-39,         *)
(* mt76_connac_mcu.c 3188-3261, mt7921/mcu.c 18-75 and 353-385) and the    *)
(* chip reset that a missing answer starts (mt792x_mac.c 267-283,          *)
(* mt7921/mac.c 653-700, mt7921/pci_mac.c 56-129).                         *)
(*                                                                         *)
(*   callers    threads that send a command; those in Locked hold          *)
(*              dev->mutex during the call (mac80211 callbacks), the       *)
(*              others do not (suspend and resume);                        *)
(*   Reset      reset_work, which sends the commands that start the        *)
(*              firmware again and reconnect the interfaces;               *)
(*   firmware   takes messages off the command ring and puts answers and   *)
(*              events on the receive ring; it may hang;                   *)
(*   NAPI       routes what is on the receive ring.                        *)
(*                                                                         *)
(* Waiting is bounded in the code (3 s a message); here the time-out may   *)
(* fall at any moment of the wait.  Names with an underscore are the same  *)
(* step with a bug, for checking that the properties notice.               *)
(***************************************************************************)
EXTENDS Integers, Sequences, FiniteSets

CONSTANTS
    Callers,    \* threads that send commands
    Locked,     \* those of them that hold dev->mutex
    Reset,      \* the thread of reset_work
    NoOne,      \* a mutex is free
    SeqMod,     \* sequence numbers are taken modulo this (16)
    RingSize,   \* messages the command ring takes
    RxSize,     \* bound: messages on the receive ring
    MaxCalls,   \* bound: calls started
    MaxTries    \* chip resets attempted by one reset_work (10)

Senders == Callers \cup {Reset}

ASSUME SendersAssumption == Locked \subseteq Callers /\ Reset \notin Callers
ASSUME NoOneAssumption   == NoOne \notin Senders
ASSUME SeqAssumption     == SeqMod \in Nat /\ SeqMod > 2
ASSUME BoundAssumption   == /\ RingSize \in Nat /\ RxSize \in Nat
                            /\ MaxCalls \in Nat /\ MaxTries \in Nat \ {0}

VARIABLES
    devMutex,   \* dev->mutex
    mcuMutex,   \* dev->mcu.mutex
    seq,        \* dev->mcu.msg_seq, modulo SeqMod
    drawn,      \* how many sequence numbers were drawn: identifies a message
    calls,      \* how many calls were started
    call,       \* per sender, its call
    ring,       \* command ring: messages the firmware has not taken
    rx,         \* receive ring: answers and events not yet polled
    resq,       \* dev->mcu.res_q
    hung,       \* the firmware has stopped
    mcuReset,   \* MT76_MCU_RESET
    hwReset,    \* dev->hw_full_reset
    queued,     \* reset_work is queued
    rpc,        \* program counter of reset_work
    tries       \* its failed attempts

vars == <<devMutex, mcuMutex, seq, drawn, calls, call, ring, rx, resq, hung,
          mcuReset, hwReset, queued, rpc, tries>>

locks  == <<devMutex, mcuMutex>>
ids    == <<seq, drawn>>
queues == <<ring, rx, resq>>
reset  == <<mcuReset, hwReset, queued, rpc, tries>>

-----------------------------------------------------------------------------
Message == [id : Nat, seq : 0 .. SeqMod - 1]
Event   == [id |-> 0, seq |-> 0]

(* A sender between calls; "how" is what its last call returned.           *)
Idle(how) == [pc |-> "idle", id |-> 0, seq |-> 0, wait |-> FALSE,
              served |-> FALSE, expired |-> FALSE, result |-> how]

Begun(w)  == [Idle("none") EXCEPT !.pc = "lock", !.wait = w]

Goto(s, pc) == call' = [call EXCEPT ![s].pc = pc]

Init ==
    /\ devMutex = NoOne /\ mcuMutex = NoOne
    /\ seq = 0 /\ drawn = 0 /\ calls = 0
    /\ call = [s \in Senders |-> Idle("none")]
    /\ ring = <<>> /\ rx = <<>> /\ resq = <<>> /\ hung = FALSE
    /\ mcuReset = FALSE /\ hwReset = FALSE /\ queued = FALSE
    /\ rpc = "idle" /\ tries = 0

(* The four-bit sequence number of the next command: never 0, which marks  *)
(* the firmware's unsolicited events.                                      *)
NextSeq_Zero(q) == (q + 1) % SeqMod
NextSeq(q) == IF (q + 1) % SeqMod = 0 THEN 1 ELSE (q + 1) % SeqMod

Waiting == {s \in Senders : call[s].pc \in {"lock", "prepare"}}
Unsent  == {s \in Senders : call[s].pc \in {"lock", "prepare", "post"}}

(* Bound: a call starts only while there is a number for everybody, and    *)
(* nothing is left of a message that shares its number with one of the     *)
(* next.  In the code 15 commands must be sent in the meantime.            *)
Fresh ==
    /\ Cardinality(Unsent) < SeqMod - 1
    /\ \A q \in {ring, rx, resq} : \A i \in 1 .. Len(q) :
          q[i].id # 0 => drawn + Cardinality(Waiting) + 1 - q[i].id < SeqMod - 1

-----------------------------------------------------------------------------
(* mt76_mcu_skb_send_and_get_msg.                                          *)

(* A caller, which may have to take dev->mutex first, ...                  *)
Start(s, w) ==
    /\ calls < MaxCalls /\ calls' = calls + 1
    /\ Fresh
    /\ call[s].pc = "idle" /\ call' = [call EXCEPT ![s] = Begun(w)]
    /\ s \in Locked => devMutex = NoOne
    /\ devMutex' = IF s \in Locked THEN s ELSE devMutex
    /\ UNCHANGED <<mcuMutex, ids, queues, hung, reset>>

Lock_Shared(s) ==
    /\ call[s].pc = "lock" /\ Goto(s, "prepare")
    /\ mcuMutex' = s
    /\ UNCHANGED <<devMutex, ids, calls, queues, hung, reset>>

(* ... takes dev->mcu.mutex, ...                                           *)
Lock(s) ==
    /\ call[s].pc = "lock" /\ Goto(s, "prepare")
    /\ mcuMutex = NoOne /\ mcuMutex' = s
    /\ UNCHANGED <<devMutex, ids, calls, queues, hung, reset>>

(* ... numbers the message and tests the reset flag and the ring ...       *)
Prepare(s) ==
    /\ call[s].pc = "prepare"
    /\ ~mcuReset /\ Len(ring) < RingSize
    /\ seq' = NextSeq(seq) /\ drawn' = drawn + 1
    /\ call' = [call EXCEPT ![s] = [@ EXCEPT !.pc = "post", !.id = drawn', !.seq = seq']]
    /\ UNCHANGED <<locks, calls, queues, hung, reset>>

(* Returning: unlock, and the caller lets go of dev->mutex.                *)
Return(s, how) ==
    /\ call' = [call EXCEPT ![s] = Idle(how)]
    /\ mcuMutex' = NoOne
    /\ devMutex' = IF s \in Locked THEN NoOne ELSE devMutex

(* ... and fails, with the number used up, if a reset is under way, the    *)
(* ring is full or the message cannot be mapped.                           *)
PrepareFail_Locked(s) ==
    /\ call[s].pc = "prepare"
    /\ seq' = NextSeq(seq) /\ drawn' = drawn + 1
    /\ call' = [call EXCEPT ![s] = Idle("failed")]
    /\ devMutex' = IF s \in Locked THEN NoOne ELSE devMutex
    /\ UNCHANGED <<mcuMutex, calls, queues, hung, reset>>

PrepareFail(s) ==
    /\ call[s].pc = "prepare"
    /\ seq' = NextSeq(seq) /\ drawn' = drawn + 1
    /\ Return(s, "failed")
    /\ UNCHANGED <<calls, queues, hung, reset>>

(* The message goes on the ring later than the test of the reset flag, and *)
(* only the ring's lock is held.                                           *)
Post(s) ==
    /\ call[s].pc = "post"
    /\ ring' = Append(ring, [id |-> call[s].id, seq |-> call[s].seq])
    /\ IF call[s].wait THEN Goto(s, "get") /\ UNCHANGED locks ELSE Return(s, "ok")
    /\ UNCHANGED <<ids, calls, rx, resq, hung, reset>>

(* mt76_mcu_get_response: sleep, unless the time is over, ...              *)
Sleep(s) ==
    /\ call[s].pc = "get" /\ ~call[s].expired /\ Goto(s, "sleep")
    /\ UNCHANGED <<locks, ids, calls, queues, hung, reset>>

(* ... and wake with the first message of res_q.  mt7921_mcu_parse_response *)
(* accepts it ...                                                          *)
Accept_AnySeq(s) ==
    /\ call[s].pc = "sleep" /\ resq # <<>>
    /\ resq' = Tail(resq)
    /\ Return(s, "ok")
    /\ UNCHANGED <<ids, calls, ring, rx, hung, reset>>

Accept(s) ==
    /\ call[s].pc = "sleep" /\ resq # <<>>
    /\ Head(resq).seq = call[s].seq
    /\ resq' = Tail(resq)
    /\ Return(s, "ok")
    /\ UNCHANGED <<ids, calls, ring, rx, hung, reset>>

(* ... or drops it with -EAGAIN: another number, another command in the    *)
(* answer, or a register whose value reads as -EAGAIN.                     *)
Again(s) ==
    /\ call[s].pc = "sleep" /\ resq # <<>>
    /\ resq' = Tail(resq) /\ Goto(s, "get")
    /\ UNCHANGED <<locks, ids, calls, ring, rx, hung, reset>>

(* Without a message, because time is over or a reset is under way, it     *)
(* calls mt792x_reset, which does nothing during a reset, and fails.       *)
NoResponse_NoReset(s) ==
    /\ \/ call[s].pc = "get" /\ call[s].expired
       \/ call[s].pc = "sleep" /\ resq = <<>> /\ (call[s].expired \/ mcuReset)
    /\ Return(s, "failed")
    /\ UNCHANGED <<ids, calls, queues, hung, reset>>

NoResponse(s) ==
    /\ \/ call[s].pc = "get" /\ call[s].expired
       \/ call[s].pc = "sleep" /\ resq = <<>> /\ (call[s].expired \/ mcuReset)
    /\ queued' = (queued \/ ~hwReset)
    /\ Return(s, "failed")
    /\ UNCHANGED <<ids, calls, queues, hung, mcuReset, hwReset, rpc, tries>>

Expire(s) ==
    /\ call[s].pc \in {"get", "sleep"} /\ ~call[s].expired
    /\ call' = [call EXCEPT ![s].expired = TRUE]
    /\ UNCHANGED <<locks, ids, calls, queues, hung, reset>>

-----------------------------------------------------------------------------
(* The firmware takes a message and serves it, and answers or not.         *)
FwServe ==
    /\ ~hung /\ ring # <<>>
    /\ ring' = Tail(ring)
    /\ call' = [s \in Senders |->
                  [call[s] EXCEPT !.served = @ \/ call[s].id = Head(ring).id]]
    /\ \/ UNCHANGED rx
       \/ Len(rx) < RxSize /\ rx' = Append(rx, Head(ring))
    /\ UNCHANGED <<locks, ids, calls, resq, hung, reset>>

FwEvent ==
    /\ ~hung /\ Len(rx) < RxSize
    /\ rx' = Append(rx, Event)
    /\ UNCHANGED <<locks, ids, calls, call, ring, resq, hung, reset>>

FwHang ==
    /\ ~hung /\ hung' = TRUE
    /\ UNCHANGED <<locks, ids, calls, call, queues, reset>>

(* mt7921_mcu_rx_event: number 0 is for the handlers of events, the rest   *)
(* for res_q.                                                              *)
RxEvent ==
    /\ rx # <<>>
    /\ rx' = Tail(rx)
    /\ resq' = IF Head(rx).seq = 0 THEN resq ELSE Append(resq, Head(rx))
    /\ UNCHANGED <<locks, ids, calls, call, ring, hung, reset>>

-----------------------------------------------------------------------------
(* reset_work: mt7921_mac_reset_work and mt7921e_mac_reset.                *)
RsGoto(from, to) == rpc = from /\ rpc' = to

RsStart ==
    /\ RsGoto("idle", "lock")
    /\ queued /\ queued' = FALSE /\ hwReset' = TRUE
    /\ UNCHANGED <<locks, ids, calls, call, queues, hung, mcuReset, tries>>

RsLock ==
    /\ RsGoto("lock", "flag")
    /\ devMutex = NoOne /\ devMutex' = Reset
    /\ UNCHANGED <<mcuMutex, ids, calls, call, queues, hung, mcuReset, hwReset, queued, tries>>

(* MT76_MCU_RESET is set, waiters are woken and res_q is emptied, while    *)
(* NAPI still runs, ...                                                    *)
RsFlag ==
    /\ RsGoto("flag", "dma")
    /\ mcuReset' = TRUE /\ resq' = <<>>
    /\ UNCHANGED <<locks, ids, calls, call, ring, rx, hung, hwReset, queued, tries>>

(* ... the rings are emptied, with NAPI disabled, and the chip is reset;   *)
(* that the reset of the chip failed goes unnoticed, ...                   *)
RsDma ==
    /\ RsGoto("dma", "clear")
    /\ ring' = <<>> /\ rx' = <<>>
    /\ hung' \in {FALSE, hung}
    /\ UNCHANGED <<locks, ids, calls, call, resq, mcuReset, hwReset, queued, tries>>

RsClear ==
    /\ RsGoto("clear", "firmware")
    /\ mcuReset' = FALSE
    /\ UNCHANGED <<locks, ids, calls, call, queues, hung, hwReset, queued, tries>>

(* ... and the commands that start the firmware are sent (one stands for   *)
(* all).                                                                   *)
RsCall ==
    /\ RsGoto("firmware", "started") /\ Fresh
    /\ call' = [call EXCEPT ![Reset] = Begun(TRUE)]
    /\ UNCHANGED <<locks, ids, calls, queues, hung, mcuReset, hwReset, queued, tries>>

(* The attempt fails, already when the chip is not handed over, or with    *)
(* the command: again, unless this was the last one.                       *)
RsFail ==
    /\ \/ rpc = "firmware"
       \/ rpc = "started" /\ call[Reset].pc = "idle" /\ call[Reset].result = "failed"
    /\ rpc' = IF tries + 1 < MaxTries THEN "lock" ELSE "end"
    /\ tries' = tries + 1 /\ devMutex' = NoOne
    /\ UNCHANGED <<mcuMutex, ids, calls, call, queues, hung, mcuReset, hwReset, queued>>

RsDone ==
    /\ RsGoto("started", "end")
    /\ call[Reset].pc = "idle" /\ call[Reset].result = "ok"
    /\ devMutex' = NoOne
    /\ UNCHANGED <<mcuMutex, ids, calls, call, queues, hung, mcuReset, hwReset, queued, tries>>

RsEnd_KeepTries ==
    /\ RsGoto("end", "reconnect")
    /\ hwReset' = FALSE
    /\ UNCHANGED <<locks, ids, calls, call, queues, hung, mcuReset, queued, tries>>

RsEnd ==
    /\ RsGoto("end", "reconnect")
    /\ hwReset' = FALSE /\ tries' = 0
    /\ UNCHANGED <<locks, ids, calls, call, queues, hung, mcuReset, queued>>

(* mt7921_vif_connect_iter: commands for each interface, without           *)
(* dev->mutex and with timeouts that start a reset again.                  *)
RsConnect(w) ==
    /\ rpc = "reconnect" /\ call[Reset].pc = "idle"
    /\ calls < MaxCalls /\ calls' = calls + 1 /\ Fresh
    /\ call' = [call EXCEPT ![Reset] = Begun(w)]
    /\ UNCHANGED <<locks, ids, queues, hung, reset>>

RsConnected ==
    /\ RsGoto("reconnect", "idle")
    /\ call[Reset].pc = "idle"
    /\ UNCHANGED <<locks, ids, calls, call, queues, hung, mcuReset, hwReset, queued, tries>>

-----------------------------------------------------------------------------
Send(s) == \/ Lock(s) \/ Prepare(s) \/ PrepareFail(s) \/ Post(s)
           \/ Sleep(s) \/ Accept(s) \/ Again(s) \/ NoResponse(s)
RsRun   == \/ RsFlag \/ RsDma \/ RsClear \/ RsCall \/ RsFail
           \/ RsDone \/ RsEnd \/ RsConnected

Next == \/ \E s \in Callers, w \in BOOLEAN : Start(s, w)
        \/ \E s \in Senders : Send(s) \/ Expire(s)
        \/ FwServe \/ FwEvent \/ FwHang \/ RxEvent
        \/ RsStart \/ RsLock \/ RsRun
        \/ \E w \in BOOLEAN : RsConnect(w)

(* Threads run, time passes, mutexes are handed to those who wait and      *)
(* dev->wq runs its works.  The firmware owes nothing.                     *)
Fairness ==
    /\ \A s \in Senders : SF_vars(Lock(s)) /\ WF_vars(Send(s)) /\ WF_vars(Expire(s))
    /\ WF_vars(RsStart) /\ SF_vars(RsLock) /\ WF_vars(RsRun)

Spec == Init /\ [][Next]_vars /\ Fairness

-----------------------------------------------------------------------------
Pcs == {"idle", "lock", "prepare", "post", "get", "sleep"}

TypeOK ==
    /\ devMutex \in Locked \cup {Reset, NoOne} /\ mcuMutex \in Senders \cup {NoOne}
    /\ seq \in 0 .. SeqMod - 1 /\ drawn \in Nat /\ calls \in 0 .. MaxCalls
    /\ call \in [Senders -> [pc : Pcs, id : 0 .. drawn, seq : 0 .. SeqMod - 1,
                             wait : BOOLEAN, served : BOOLEAN, expired : BOOLEAN,
                             result : {"none", "ok", "failed"}]]
    /\ ring \in Seq(Message) /\ rx \in Seq(Message) /\ resq \in Seq(Message)
    /\ hung \in BOOLEAN /\ mcuReset \in BOOLEAN /\ hwReset \in BOOLEAN /\ queued \in BOOLEAN
    /\ rpc \in {"idle", "lock", "flag", "dma", "clear", "firmware",
                "started", "end", "reconnect"}
    /\ tries \in 0 .. MaxTries

(* The message that ends a wait without an error is the answer to the very *)
(* message this call sent, also after timeouts and resets that left the    *)
(* answers of others behind: the sequence numbers tell them apart.         *)
OwnAnswer ==
    \A s \in Senders : call[s].wait /\ call'[s].result = "ok" =>
        Head(resq).id = call[s].id

(* No answer that is polled is mistaken for an unsolicited event: it       *)
(* reaches res_q.                                                          *)
AnswersQueued ==
    rx # <<>> /\ rx' = Tail(rx) /\ rpc' = rpc /\ Head(rx).id # 0 =>
        resq' = Append(resq, Head(rx))

(* No answer is taken for another or for an event, whatever timeouts and   *)
(* resets leave in res_q (mt76_mcu_get_response, mt7921_mcu_parse_response, *)
(* mt7921_mcu_rx_event).                                                   *)
AnswersMatched == [][TypeOK /\ OwnAnswer /\ AnswersQueued]_vars

(* What McuCall sees of the calls.                                         *)
StageOf(c) == CASE c.pc = "idle" -> "idle"
                [] c.pc \in {"lock", "prepare"} -> "called"
                [] OTHER -> IF c.served THEN "served" ELSE "sent"
Stages  == [s \in Senders |-> StageOf(call[s])]
Waits   == [s \in Senders |-> call[s].wait]
Results == [s \in Senders |-> call[s].result]

(* The calls implement McuCall: one command in flight, served before a     *)
(* waiting call returns without an error.                                  *)
Abstract == INSTANCE McuCall WITH stage <- Stages, waits <- Waits, result <- Results
ImplementsCall == Abstract!Spec

(* Every call returns, whatever the firmware and the reset do: nobody      *)
(* keeps dev->mcu.mutex.                                                   *)
CallReturns ==
    \A s \in Senders : call[s].pc # "idle" ~> call[s].pc = "idle"

(* A firmware that hangs before it serves a call that waits is reset; a    *)
(* reset already under way swallows the report of the timeout.             *)
HangNoticed ==
    \A s \in Callers :
        hung /\ call[s].pc = "sleep" /\ ~call[s].served ~> ~hung \/ hwReset
=============================================================================
