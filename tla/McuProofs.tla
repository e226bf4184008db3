------------------------------ MODULE McuProofs ------------------------------
(***************************************************************************)
(* What the threads of the driver are promised: the safety of McuTransport *)
(* for any number of callers, sequence numbers and sizes, that its calls   *)
(* implement McuCall, and the safety of WorkerThread for any number of     *)
(* contexts that schedule the worker.                                      *)
(***************************************************************************)
EXTENDS McuTransport, WorkerThread, FiniteSetTheorems, TLAPS

-----------------------------------------------------------------------------
(* The command transport.                                                  *)

(* The sections of a call in which it holds dev->mcu.mutex.                *)
Holding == {"prepare", "post", "get", "sleep"}
OneHolder == \A s \in Senders : call[s].pc \in Holding <=> mcuMutex = s

(* Not more calls wait to be sent than there are numbers.                  *)
Bounded == IsFiniteSet(Unsent) /\ Cardinality(Unsent) < SeqMod

(* A call has the number drawn last from when it draws it until it         *)
(* returns, and a result only when it has returned.                        *)
Shape(s) ==
    /\ call[s].pc = "idle" => ~call[s].wait
    /\ call[s].pc # "idle" => call[s].result = "none"
    /\ call[s].pc \in {"idle", "lock", "prepare"} => call[s].id = 0 /\ ~call[s].served
    /\ call[s].pc \in {"post", "get", "sleep"} =>
          call[s].id = drawn /\ call[s].seq = seq /\ drawn > 0
Shapes == \A s \in Senders : Shape(s)

(* The number of a message on the way follows from how many were drawn     *)
(* since, and is still its own when all the calls that wait have drawn.    *)
Held(q) == {q[i] : i \in 1 .. Len(q)}
Since(m) == drawn - m.id
Numbered(m) ==
    /\ m.id \in 1 .. drawn
    /\ Since(m) + Cardinality(Waiting) < SeqMod - 1
    /\ m.seq = IF Since(m) < seq THEN seq - Since(m) ELSE seq - Since(m) + SeqMod - 1
Numbers ==
    /\ IF drawn = 0 THEN seq = 0 ELSE seq \in 1 .. SeqMod - 1
    /\ \A m \in Held(ring) : Numbered(m)
    /\ \A m \in Held(rx) \cup Held(resq) : m = Event \/ Numbered(m)

(* Where the answer of a call is, the firmware has served the call.        *)
Told ==
    \A s \in Senders : \A m \in Held(rx) \cup Held(resq) :
        m.id = call[s].id /\ call[s].pc \in {"post", "get", "sleep"} => call[s].served

(* The reset work is in a call only where it sent one, and tries again     *)
(* only while it may.                                                      *)
Resetting ==
    /\ rpc \notin {"started", "reconnect"} => call[Reset].pc = "idle"
    /\ rpc # "end" => tries < MaxTries

IInv == TypeOK /\ OneHolder /\ Bounded /\ Shapes /\ Numbers /\ Told /\ Resetting

CallRec(d) == [pc : Pcs, id : 0 .. d, seq : 0 .. SeqMod - 1, wait : BOOLEAN,
               served : BOOLEAN, expired : BOOLEAN, result : {"none", "ok", "failed"}]

-----------------------------------------------------------------------------
(* What is in a queue after the operations on it.                          *)
LEMMA Appended ==
  ASSUME NEW S, NEW q \in Seq(S), NEW m \in S
  PROVE  /\ Append(q, m) \in Seq(S) /\ Held(Append(q, m)) = Held(q) \cup {m}
         /\ Len(Append(q, m)) = Len(q) + 1
  <1> DEFINE a == Append(q, m)
  <1>1. /\ a \in Seq(S) /\ Len(a) = Len(q) + 1 /\ Len(q) \in Nat
        /\ \A i \in 1 .. Len(q) : a[i] = q[i]
        /\ a[Len(q) + 1] = m
    OBVIOUS
  <1> HIDE DEF a
  <1>2. \A i : i \in 1 .. Len(a) <=> i \in 1 .. Len(q) \/ i = Len(q) + 1
    BY <1>1
  <1>3. Len(q) + 1 \notin 1 .. Len(q)
    BY <1>1
  <1>4. Held(a) \subseteq Held(q) \cup {m}
    BY <1>1, <1>2 DEF Held
  <1>5. Held(q) \subseteq Held(a) /\ m \in Held(a)
    BY <1>1, <1>2 DEF Held
  <1> QED BY <1>1, <1>4, <1>5 DEF a

LEMMA Taken ==
  ASSUME NEW S, NEW q \in Seq(S), q # <<>>
  PROVE  /\ Tail(q) \in Seq(S) /\ Held(Tail(q)) \subseteq Held(q)
         /\ Head(q) \in S /\ Head(q) \in Held(q)
         /\ Len(Tail(q)) = Len(q) - 1 /\ Len(q) \in Nat
  <1> DEFINE t == Tail(q)
  <1>1. /\ t \in Seq(S) /\ Len(t) = Len(q) - 1 /\ Len(q) \in Nat /\ Len(q) >= 1
        /\ \A i \in 1 .. Len(q) - 1 : t[i] = q[i + 1]
        /\ Head(q) = q[1] /\ q[1] \in S
    OBVIOUS
  <1> HIDE DEF t
  <1>2. \A i \in 1 .. Len(t) : i + 1 \in 1 .. Len(q) /\ t[i] = q[i + 1]
    BY <1>1
  <1>3. Held(t) \subseteq Held(q)
    BY <1>2 DEF Held
  <1>4. q[1] \in Held(q)
    <2>1. 1 \in 1 .. Len(q)
      BY <1>1
    <2> QED BY <2>1 DEF Held
  <1> QED BY <1>1, <1>3, <1>4 DEF t

LEMMA Nothing == ASSUME NEW S PROVE <<>> \in Seq(S) /\ Held(<<>>) = {}
  BY DEF Held

-----------------------------------------------------------------------------
LEMMA CountWaiting ==
  ASSUME Bounded
  PROVE  IsFiniteSet(Waiting) /\ Cardinality(Waiting) \in Nat
  <1>1. Waiting \subseteq Unsent /\ IsFiniteSet(Unsent)
    BY DEF Waiting, Unsent, Bounded
  <1> QED BY <1>1, FS_Subset, FS_CardinalityType

(* The calls that wait, when one call moves.                               *)
LEMMA OneMoves ==
  ASSUME Bounded, NEW s \in Senders,
         \A o \in Senders \ {s} : call'[o].pc = call[o].pc
  PROVE  /\ Cardinality(Waiting) \in Nat /\ Cardinality(Waiting') \in Nat
         /\ (s \in Waiting <=> s \in Waiting') => Cardinality(Waiting') = Cardinality(Waiting)
         /\ s \notin Waiting /\ s \in Waiting' =>
               Cardinality(Waiting') = Cardinality(Waiting) + 1
         /\ s \in Waiting /\ s \notin Waiting' =>
               Cardinality(Waiting') = Cardinality(Waiting) - 1
         /\ s \in Unsent \/ s \notin Unsent' \/ Fresh => Bounded'
  <1>1. Waiting \subseteq Unsent /\ IsFiniteSet(Unsent)
    BY DEF Waiting, Unsent, Bounded
  <1>2. IsFiniteSet(Waiting) /\ Cardinality(Waiting) \in Nat
    BY <1>1, FS_Subset, FS_CardinalityType
  <1>3. Waiting' \ {s} = Waiting \ {s} /\ Unsent' \ {s} = Unsent \ {s}
    BY DEF Waiting, Unsent
  <1>4. (s \in Waiting <=> s \in Waiting') => Cardinality(Waiting') = Cardinality(Waiting)
    <2> SUFFICES ASSUME s \in Waiting <=> s \in Waiting'
                 PROVE  Waiting' = Waiting
      OBVIOUS
    <2> QED BY <1>3
  <1>5. s \notin Waiting /\ s \in Waiting' =>
           Cardinality(Waiting') = Cardinality(Waiting) + 1
    <2> SUFFICES ASSUME s \notin Waiting, s \in Waiting'
                 PROVE  Cardinality(Waiting') = Cardinality(Waiting) + 1
      OBVIOUS
    <2>1. Waiting' = Waiting \cup {s}
      BY <1>3
    <2> QED BY <2>1, <1>2, FS_AddElement
  <1>6. s \in Waiting /\ s \notin Waiting' =>
           Cardinality(Waiting') = Cardinality(Waiting) - 1
    <2> SUFFICES ASSUME s \in Waiting, s \notin Waiting'
                 PROVE  Cardinality(Waiting') = Cardinality(Waiting) - 1
      OBVIOUS
    <2>1. Waiting' = Waiting \ {s}
      BY <1>3
    <2> QED BY <2>1, <1>2, FS_RemoveElement
  <1>7. Cardinality(Waiting') \in Nat
    <2>1. Waiting' \subseteq Waiting \cup {s}
      BY <1>3
    <2>2. IsFiniteSet(Waiting \cup {s})
      BY <1>2, FS_AddElement
    <2> QED BY <2>1, <2>2, FS_Subset, FS_CardinalityType
  <1>8. ASSUME s \in Unsent \/ s \notin Unsent'
        PROVE  Bounded'
    <2>1. Unsent' \subseteq Unsent
      BY <1>3, <1>8
    <2>2. IsFiniteSet(Unsent') /\ Cardinality(Unsent') <= Cardinality(Unsent)
      BY <2>1, <1>1, FS_Subset
    <2>3. Cardinality(Unsent) \in Nat /\ Cardinality(Unsent') \in Nat /\ SeqMod \in Nat
      BY <2>2, <1>1, FS_CardinalityType, SeqAssumption
    <2> QED BY <2>2, <2>3 DEF Bounded
  <1>9. ASSUME s \notin Unsent, s \in Unsent', Fresh
        PROVE  Bounded'
    <2>1. Unsent' = Unsent \cup {s}
      BY <1>3, <1>9
    <2>2. IsFiniteSet(Unsent') /\ Cardinality(Unsent') = Cardinality(Unsent) + 1
      BY <2>1, <1>1, <1>9, FS_AddElement
    <2>3. Cardinality(Unsent) \in Nat /\ SeqMod \in Nat
      BY <1>1, FS_CardinalityType, SeqAssumption
    <2>4. Cardinality(Unsent) < SeqMod - 1
      BY <1>9 DEF Fresh
    <2> QED BY <2>2, <2>3, <2>4 DEF Bounded
  <1> QED BY <1>2, <1>4, <1>5, <1>6, <1>7, <1>8, <1>9

(* A step that moves no call leaves them alone, ...                        *)
LEMMA NoneMoves ==
  ASSUME Bounded, \A s \in Senders : call'[s].pc = call[s].pc
  PROVE  Waiting' = Waiting /\ Cardinality(Waiting) \in Nat /\ Bounded'
  <1>1. Waiting' = Waiting /\ Unsent' = Unsent
    BY DEF Waiting, Unsent
  <1>2. Waiting \subseteq Unsent
    BY DEF Waiting, Unsent
  <1> QED BY <1>1, <1>2, FS_Subset, FS_CardinalityType DEF Bounded

(* ... and a call that begins finds the numbers it counts on.              *)
LEMMA Begins ==
  ASSUME Fresh, NEW m \in Held(ring) \cup Held(rx) \cup Held(resq), m.id # 0
  PROVE  drawn + Cardinality(Waiting) + 1 - m.id < SeqMod - 1
  BY DEF Fresh, Held

-----------------------------------------------------------------------------
(* The numbers of the messages on the way, when another is drawn, ...      *)
LEMMA Draws ==
  ASSUME drawn \in Nat, IF drawn = 0 THEN seq = 0 ELSE seq \in 1 .. SeqMod - 1,
         Cardinality(Waiting) \in Nat, Cardinality(Waiting') = Cardinality(Waiting) - 1,
         Cardinality(Waiting') \in Nat,
         drawn' = drawn + 1, seq' = NextSeq(seq)
  PROVE  /\ seq' \in 1 .. SeqMod - 1
         /\ \A m : Numbered(m) => Numbered(m)'
  <1>1. SeqMod \in Nat /\ SeqMod > 2
    BY SeqAssumption
  <1>2. seq \in 0 .. SeqMod - 1
    BY <1>1
  <1>3. seq' = IF seq = SeqMod - 1 THEN 1 ELSE seq + 1
    <2>1. CASE seq = SeqMod - 1
      <3>1. seq + 1 = SeqMod /\ SeqMod % SeqMod = 0
        BY <2>1, <1>1
      <3> QED BY <3>1, <2>1 DEF NextSeq
    <2>2. CASE seq # SeqMod - 1
      <3>1. seq + 1 \in 1 .. SeqMod - 1
        BY <2>2, <1>1, <1>2
      <3>2. (seq + 1) % SeqMod = seq + 1
        BY <3>1, <1>1
      <3> QED BY <3>1, <3>2, <2>2 DEF NextSeq
    <2> QED BY <2>1, <2>2
  <1>4. seq' \in 1 .. SeqMod - 1
    BY <1>1, <1>2, <1>3
  <1>5. ASSUME NEW m, Numbered(m) PROVE Numbered(m)'
    <2>1. /\ m.id \in 1 .. drawn
          /\ drawn - m.id + Cardinality(Waiting) < SeqMod - 1
          /\ m.seq = IF drawn - m.id < seq THEN seq - (drawn - m.id)
                     ELSE seq - (drawn - m.id) + SeqMod - 1
      BY <1>5 DEF Numbered, Since
    <2>2. m.id \in 1 .. drawn' /\ drawn' - m.id = drawn - m.id + 1
      BY <2>1
    <2>3. drawn' - m.id + Cardinality(Waiting') < SeqMod - 1
      BY <2>1, <2>2, <1>1
    <2>4. seq \in 1 .. SeqMod - 1
      BY <2>1
    <2>5. m.seq = IF drawn' - m.id < seq' THEN seq' - (drawn' - m.id)
                  ELSE seq' - (drawn' - m.id) + SeqMod - 1
      <3> DEFINE d == drawn - m.id
      <3>1. d \in Nat /\ d + 1 < SeqMod
        BY <2>1, <1>1
      <3>2. m.seq = IF d < seq THEN seq - d ELSE seq - d + SeqMod - 1
        BY <2>1
      <3>3. drawn' - m.id = d + 1
        BY <2>2
      <3> HIDE DEF d
      <3> QED BY <3>1, <3>2, <3>3, <2>4, <1>1, <1>3
    <2> QED BY <2>2, <2>3, <2>5 DEF Numbered, Since
  <1> QED BY <1>4, <1>5

(* ... when a call begins to wait, ...                                     *)
LEMMA NumbersBegin ==
  ASSUME Numbers, Fresh, drawn \in Nat, Cardinality(Waiting) \in Nat,
         Cardinality(Waiting') = Cardinality(Waiting) + 1,
         UNCHANGED <<seq, drawn, ring, rx, resq>>
  PROVE  Numbers'
  <1>1. ASSUME NEW m \in Held(ring) \cup Held(rx) \cup Held(resq), Numbered(m)
        PROVE  Numbered(m)'
    <2>1. m.id \in 1 .. drawn /\ drawn + Cardinality(Waiting) + 1 - m.id < SeqMod - 1
      BY <1>1, Begins DEF Numbered
    <2>2. drawn - m.id + Cardinality(Waiting') < SeqMod - 1
      BY <2>1, SeqAssumption
    <2> QED BY <1>1, <2>1, <2>2 DEF Numbered, Since
  <1>2. \A m : m \in Held(ring) => Numbered(m)'
    BY <1>1 DEF Numbers
  <1>3. \A m : m \in Held(rx) \cup Held(resq) => m = Event \/ Numbered(m)'
    BY <1>1 DEF Numbers
  <1>4. Held(ring)' = Held(ring) /\ Held(rx)' = Held(rx) /\ Held(resq)' = Held(resq)
    OBVIOUS
  <1> QED BY <1>2, <1>3, <1>4 DEF Numbers

(* ... and when messages only move on.                                     *)
LEMMA NumbersMove ==
  ASSUME Numbers, Cardinality(Waiting') = Cardinality(Waiting), UNCHANGED <<seq, drawn>>,
         \A m : m \in Held(ring)' => Numbered(m),
         \A m : m \in Held(rx)' \cup Held(resq)' => m = Event \/ Numbered(m)
  PROVE  Numbers'
  <1>1. \A m : Numbered(m) => Numbered(m)'
    BY DEF Numbered, Since
  <1> QED BY <1>1 DEF Numbers

(* The number of the call that holds the mutex is on no message of another *)
(* call: a whole round of numbers lies between them.                       *)
LEMMA OwnNumber ==
  ASSUME Numbers, drawn \in Nat, drawn > 0, Cardinality(Waiting) \in Nat,
         NEW m, Numbered(m), m.seq = seq
  PROVE  m.id = drawn
  <1> DEFINE d == drawn - m.id
  <1>1. /\ d \in Nat /\ d + Cardinality(Waiting) < SeqMod - 1
        /\ m.seq = (IF d < seq THEN seq - d ELSE seq - d + SeqMod - 1)
        /\ m.id \in Nat
    BY DEF Numbered, Since
  <1>2. seq \in 1 .. SeqMod - 1 /\ SeqMod \in Nat
    BY SeqAssumption DEF Numbers
  <1>3. d = 0
    <2> HIDE DEF d
    <2>1. d < SeqMod - 1
      BY <1>1, <1>2
    <2> QED BY <1>1, <1>2, <2>1
  <1> QED BY <1>1, <1>3

LEMMA NumberedSeq ==
  ASSUME Numbers, drawn \in Nat, Cardinality(Waiting) \in Nat, NEW m, Numbered(m)
  PROVE  m.id # 0 /\ m.seq # 0 /\ m.id \in Nat /\ m.id <= drawn
  <1> DEFINE d == drawn - m.id
  <1>1. /\ d \in Nat /\ d + Cardinality(Waiting) < SeqMod - 1
        /\ m.seq = (IF d < seq THEN seq - d ELSE seq - d + SeqMod - 1)
        /\ m.id \in 1 .. drawn
    BY DEF Numbered, Since
  <1>2. seq \in 1 .. SeqMod - 1 /\ SeqMod \in Nat
    BY <1>1, SeqAssumption DEF Numbers
  <1> HIDE DEF d
  <1>3. m.seq # 0
    BY <1>1, <1>2
  <1> QED BY <1>1, <1>3

-----------------------------------------------------------------------------
(* One call moves: what its caller does to the mutex and to its own record *)
(* leaves the mutex with at most one call, and the records in shape.       *)
LEMMA CallMoves ==
  ASSUME IInv, NEW s \in Senders, NEW r \in CallRec(drawn'),
         call' = [call EXCEPT ![s] = r],
         IF call[s].pc = "prepare" THEN drawn' = drawn + 1 ELSE UNCHANGED <<drawn, seq>>,
         r.pc = "idle" => ~r.wait,
         r.pc # "idle" => r.result = "none",
         r.pc \in {"idle", "lock", "prepare"} => r.id = 0 /\ ~r.served,
         r.pc \in {"post", "get", "sleep"} => r.id = drawn' /\ r.seq = seq' /\ drawn' > 0,
         mcuMutex' = IF r.pc \in Holding THEN s ELSE IF mcuMutex = s THEN NoOne ELSE mcuMutex,
         r.pc \in Holding => mcuMutex \in {s, NoOne}
  PROVE  /\ call' \in [Senders -> CallRec(drawn')] /\ drawn' \in Nat
         /\ call'[s] = r /\ \A o \in Senders \ {s} : call'[o] = call[o]
         /\ mcuMutex' \in Senders \cup {NoOne}
         /\ OneHolder' /\ Shapes'
  <1>1. /\ call \in [Senders -> CallRec(drawn)] /\ drawn \in Nat
        /\ mcuMutex \in Senders \cup {NoOne} /\ NoOne \notin Senders
    BY NoOneAssumption DEF IInv, TypeOK, CallRec
  <1>2. drawn' \in Nat /\ drawn <= drawn'
    BY <1>1
  <1>3. \A o \in Senders : call[o] \in CallRec(drawn')
    <2> SUFFICES ASSUME NEW o \in Senders PROVE call[o] \in CallRec(drawn')
      OBVIOUS
    <2>1. call[o] \in CallRec(drawn)
      BY <1>1
    <2>2. 0 .. drawn \subseteq 0 .. drawn'
      BY <1>1, <1>2
    <2> QED BY <2>1, <2>2 DEF CallRec
  <1>4. /\ call' \in [Senders -> CallRec(drawn')]
        /\ call'[s] = r /\ \A o \in Senders \ {s} : call'[o] = call[o]
    BY <1>1, <1>3
  <1>5. \A o \in Senders : call[o].pc \in Holding <=> mcuMutex = o
    BY DEF IInv, OneHolder
  <1>6. OneHolder'
    <2> SUFFICES ASSUME NEW o \in Senders
                 PROVE  call'[o].pc \in Holding <=> mcuMutex' = o
      BY DEF OneHolder
    <2>1. CASE o = s
      BY <2>1, <1>1, <1>4
    <2>2. CASE o # s
      <3>1. call'[o].pc \in Holding <=> mcuMutex = o
        BY <2>2, <1>4, <1>5
      <3>2. mcuMutex' = o <=> mcuMutex = o
        BY <2>2, <1>1
      <3> QED BY <3>1, <3>2
    <2> QED BY <2>1, <2>2
  <1>7. Shapes'
    <2> SUFFICES ASSUME NEW o \in Senders PROVE Shape(o)'
      BY DEF Shapes
    <2>1. CASE o = s
      BY <2>1, <1>4 DEF Shape
    <2>2. CASE o # s
      <3>1. call'[o] = call[o] /\ Shape(o)
        BY <2>2, <1>4 DEF IInv, Shapes
      <3>2. CASE call[o].pc \in {"post", "get", "sleep"}
        <4>1. mcuMutex = o
          BY <3>2, <1>5 DEF Holding
        <4>2. call[s].pc # "prepare"
          BY <4>1, <2>2, <1>5 DEF Holding
        <4> QED BY <3>1, <4>2 DEF Shape
      <3>3. CASE call[o].pc \notin {"post", "get", "sleep"}
        BY <3>1, <3>3 DEF Shape
      <3> QED BY <3>2, <3>3
    <2> QED BY <2>1, <2>2
  <1> QED BY <1>1, <1>2, <1>4, <1>6, <1>7

(* A posted message finds its number free for as long as calls wait.       *)
LEMMA PostRoom ==
  ASSUME IInv, NEW s \in Senders, call[s].pc = "post"
  PROVE  Numbered([id |-> drawn, seq |-> seq])
  <1>1. s \notin Waiting /\ Waiting \cup {s} \subseteq Unsent
    BY DEF Waiting, Unsent
  <1>2. IsFiniteSet(Unsent) /\ Cardinality(Unsent) < SeqMod
    BY DEF IInv, Bounded
  <1>3. IsFiniteSet(Waiting)
    BY <1>1, <1>2, FS_Subset
  <1>4. Cardinality(Waiting \cup {s}) = Cardinality(Waiting) + 1 /\ IsFiniteSet(Waiting \cup {s})
    BY <1>1, <1>3, FS_AddElement
  <1>5. Cardinality(Waiting \cup {s}) <= Cardinality(Unsent)
    BY <1>1, <1>2, FS_Subset
  <1>6. Cardinality(Waiting) \in Nat /\ Cardinality(Unsent) \in Nat /\ SeqMod \in Nat
    BY <1>2, <1>3, FS_CardinalityType, SeqAssumption
  <1>7. Cardinality(Waiting) < SeqMod - 1
    BY <1>2, <1>4, <1>5, <1>6
  <1>8. drawn \in Nat /\ drawn > 0 /\ seq \in 1 .. SeqMod - 1
    BY DEF IInv, TypeOK, Shapes, Shape, Numbers
  <1> DEFINE m == [id |-> drawn, seq |-> seq]
  <1>9. m.id = drawn /\ m.seq = seq
    OBVIOUS
  <1> HIDE DEF m
  <1>10. Since(m) = 0
    BY <1>8, <1>9 DEF Since
  <1>11. Numbered(m)
    BY <1>6, <1>7, <1>8, <1>9, <1>10 DEF Numbered
  <1> QED BY <1>11 DEF m

(* What is known of the messages on the way.                               *)
LEMMA OnTheWay ==
  ASSUME IInv
  PROVE  /\ \A m \in Held(ring) : m.id # 0 /\ m.id <= drawn
         /\ \A m \in Held(rx) \cup Held(resq) :
               /\ m.id \in Nat /\ m.id <= drawn
               /\ m.id = 0 <=> m = Event
               /\ m.seq = 0 <=> m = Event
  <1>1. Numbers /\ drawn \in Nat /\ Cardinality(Waiting) \in Nat
    BY CountWaiting DEF IInv, TypeOK
  <1>2. \A m : Numbered(m) => m.id # 0 /\ m.seq # 0 /\ m.id \in Nat /\ m.id <= drawn
    BY <1>1, NumberedSeq
  <1>3. Event.id = 0 /\ Event.seq = 0
    BY DEF Event
  <1> QED BY <1>1, <1>2, <1>3 DEF Numbers

-----------------------------------------------------------------------------
(* One step of a call in mt76_mcu_skb_send_and_get_msg: whatever it writes *)
(* into the call's record, the invariant holds if it draws a number only   *)
(* when it prepares, posts only its own message, and takes messages only   *)
(* from res_q.                                                             *)
LEMMA SendStep ==
  ASSUME IInv, NEW s \in Senders, NEW r \in CallRec(drawn'),
         call' = [call EXCEPT ![s] = r], call[s].pc # "idle",
         IF call[s].pc = "prepare" THEN drawn' = drawn + 1 /\ seq' = NextSeq(seq)
                                   ELSE UNCHANGED <<drawn, seq>>,
         IF call[s].pc = "lock" THEN r.pc = "prepare" ELSE r.pc \notin {"lock", "prepare"},
         r.pc = "post" => call[s].pc \in {"prepare", "post"},
         r.pc = "idle" => ~r.wait,
         r.pc # "idle" => r.result = "none",
         r.pc \in {"idle", "lock", "prepare"} => r.id = 0 /\ ~r.served,
         r.pc \in {"post", "get", "sleep"} =>
            /\ r.id = drawn' /\ r.seq = seq' /\ r.served = call[s].served
            /\ call[s].pc \in {"prepare", "post", "get", "sleep"},
         mcuMutex' = IF r.pc \in Holding THEN s ELSE IF mcuMutex = s THEN NoOne ELSE mcuMutex,
         r.pc \in Holding => mcuMutex \in {s, NoOne},
         devMutex' \in Locked \cup {Reset, NoOne}, queued' \in BOOLEAN,
         UNCHANGED <<calls, rx, hung, mcuReset, hwReset, rpc, tries>>,
         ring' \in Seq(Message), resq' \in Seq(Message), Held(resq') \subseteq Held(resq),
         \A m : m \in Held(ring') =>
                   m \in Held(ring) \/ (call[s].pc = "post" /\ m = [id |-> drawn, seq |-> seq])
  PROVE  IInv'
  <1>1. /\ call' \in [Senders -> CallRec(drawn')] /\ drawn' \in Nat
        /\ call'[s] = r /\ \A o \in Senders \ {s} : call'[o] = call[o]
        /\ mcuMutex' \in Senders \cup {NoOne}
        /\ OneHolder' /\ Shapes'
    <2>1. /\ IF call[s].pc = "prepare" THEN drawn' = drawn + 1 ELSE UNCHANGED <<drawn, seq>>
          /\ r.pc \in {"post", "get", "sleep"} => r.id = drawn' /\ r.seq = seq'
      OBVIOUS
    <2>2. r.pc \in {"post", "get", "sleep"} => drawn' > 0
      <3>1. call[s].pc \in {"post", "get", "sleep"} => drawn > 0
        BY DEF IInv, Shapes, Shape
      <3>2. drawn \in Nat
        BY DEF IInv, TypeOK
      <3> QED BY <3>1, <3>2
    <2> QED BY <2>1, <2>2, CallMoves
  <1>2. /\ drawn \in Nat /\ Numbers /\ Told /\ Bounded /\ Resetting
        /\ Cardinality(Waiting) \in Nat /\ Reset \in Senders
    BY CountWaiting DEF IInv, TypeOK, Senders
  <1>3. /\ s \in Waiting <=> call[s].pc \in {"lock", "prepare"}
        /\ s \in Waiting' <=> r.pc \in {"lock", "prepare"}
        /\ s \in Unsent <=> call[s].pc \in {"lock", "prepare", "post"}
        /\ s \in Unsent' <=> r.pc \in {"lock", "prepare", "post"}
    BY <1>1 DEF Waiting, Unsent
  <1>4. Bounded' /\ Cardinality(Waiting') \in Nat
        /\ IF call[s].pc = "prepare" THEN Cardinality(Waiting') = Cardinality(Waiting) - 1
                                     ELSE Cardinality(Waiting') = Cardinality(Waiting)
    BY <1>1, <1>2, <1>3, OneMoves
  <1>5. Numbers'
    <2>1. \A m : m \in Held(ring') => Numbered(m)
      BY <1>2, PostRoom DEF Numbers
    <2>2. \A m : m \in Held(rx') \cup Held(resq') => m = Event \/ Numbered(m)
      BY <1>2 DEF Numbers
    <2>3. CASE call[s].pc = "prepare"
      <3>1. seq' \in 1 .. SeqMod - 1 /\ \A m : Numbered(m) => Numbered(m)'
        BY <1>2, <1>4, <2>3, Draws DEF Numbers
      <3>2. drawn' # 0
        BY <1>2, <2>3
      <3> QED BY <2>1, <2>2, <3>1, <3>2 DEF Numbers
    <2>4. CASE call[s].pc # "prepare"
      BY <1>2, <1>4, <2>1, <2>2, <2>4, NumbersMove
    <2> QED BY <2>3, <2>4
  <1>6. Told'
    <2>1. Held(rx)' = Held(rx) /\ Held(resq)' \subseteq Held(resq)
      OBVIOUS
    <2> SUFFICES ASSUME NEW o \in Senders, NEW m \in Held(rx) \cup Held(resq),
                        m.id = call'[o].id, call'[o].pc \in {"post", "get", "sleep"}
                 PROVE  call'[o].served
      BY <2>1 DEF Told
    <2>2. CASE o # s
      BY <1>1, <1>2, <2>2 DEF Told
    <2>3. CASE o = s /\ call[s].pc = "prepare"
      <3>1. m.id <= drawn /\ m.id = drawn + 1 /\ m.id \in Nat
        BY <1>1, <2>3, OnTheWay
      <3> QED BY <3>1, <1>2
    <2>4. CASE o = s /\ call[s].pc # "prepare"
      <3>1. r.id = drawn /\ r.served = call[s].served /\ call[s].pc \in {"post", "get", "sleep"}
        BY <1>1, <2>4
      <3>2. call[s].id = drawn
        BY <3>1 DEF IInv, Shapes, Shape
      <3> QED BY <1>1, <1>2, <2>4, <3>1, <3>2 DEF Told
    <2> QED BY <2>2, <2>3, <2>4
  <1>7. Resetting'
    BY <1>1, <1>2 DEF Resetting
  <1>8. TypeOK'
    <2>1. seq' \in 0 .. SeqMod - 1
      BY <1>5, SeqAssumption DEF Numbers
    <2> QED BY <1>1, <2>1 DEF IInv, TypeOK, CallRec
  <1> QED BY <1>1, <1>4, <1>5, <1>6, <1>7, <1>8 DEF IInv

(* A call at work, for the lemma above: its record, and what it holds.     *)
LEMMA AtWork ==
  ASSUME IInv, NEW s \in Senders
  PROVE  /\ call \in [Senders -> CallRec(drawn)] /\ call[s] \in CallRec(drawn)
         /\ drawn \in Nat /\ seq \in 0 .. SeqMod - 1
         /\ ring \in Seq(Message) /\ rx \in Seq(Message) /\ resq \in Seq(Message)
         /\ devMutex \in Locked \cup {Reset, NoOne} /\ queued \in BOOLEAN
         /\ call[s].pc \in Holding <=> mcuMutex = s
         /\ NoOne # s
         /\ Shape(s)
  BY NoOneAssumption DEF IInv, TypeOK, CallRec, OneHolder, Shapes

(* A call that returns.                                                    *)
LEMMA Returns ==
  ASSUME IInv, NEW s \in Senders, NEW how \in {"ok", "failed"},
         call[s].pc \in Holding, Return(s, how),
         IF call[s].pc = "prepare" THEN drawn' = drawn + 1 /\ seq' = NextSeq(seq)
                                   ELSE UNCHANGED <<drawn, seq>>,
         queued' \in BOOLEAN,
         UNCHANGED <<calls, rx, hung, mcuReset, hwReset, rpc, tries>>,
         ring' \in Seq(Message), resq' \in Seq(Message), Held(resq') \subseteq Held(resq),
         \A m : m \in Held(ring') =>
                   m \in Held(ring) \/ (call[s].pc = "post" /\ m = [id |-> drawn, seq |-> seq])
  PROVE  IInv'
  <1> DEFINE r == Idle(how)
  <1>1. r \in CallRec(drawn') /\ r.pc = "idle" /\ ~r.wait /\ r.id = 0 /\ ~r.served
    <2>1. 0 \in 0 .. drawn' /\ 0 \in 0 .. SeqMod - 1
      BY AtWork, SeqAssumption
    <2> QED BY <2>1 DEF Idle, CallRec, Pcs
  <1> HIDE DEF r
  <1>2. call' = [call EXCEPT ![s] = r] /\ mcuMutex' = NoOne
    BY DEF Return, r
  <1>3. call[s].pc \notin {"idle", "lock"} /\ mcuMutex = s
    BY AtWork DEF Holding
  <1>4. devMutex' \in Locked \cup {Reset, NoOne}
    BY AtWork DEF Return
  <1>5. r.pc \notin Holding
    BY <1>1 DEF Holding
  <1> QED BY <1>1, <1>2, <1>3, <1>4, <1>5, SendStep

(* A call that goes from one of its sections to another.                   *)
LEMMA Goes ==
  ASSUME IInv, NEW s \in Senders, NEW pc1, NEW x \in BOOLEAN,
         call' = [call EXCEPT ![s] = [@ EXCEPT !.pc = pc1, !.expired = x]],
         \/ call[s].pc = "lock" /\ pc1 = "prepare" /\ mcuMutex = NoOne
         \/ call[s].pc \in {"post", "get", "sleep"} /\ pc1 \in {"get", "sleep"},
         mcuMutex' = s,
         UNCHANGED <<devMutex, ids, calls, rx, hung, reset>>,
         ring' \in Seq(Message), resq' \in Seq(Message), Held(resq') \subseteq Held(resq),
         \A m : m \in Held(ring') =>
                   m \in Held(ring) \/ (call[s].pc = "post" /\ m = [id |-> drawn, seq |-> seq])
  PROVE  IInv'
  <1> DEFINE r == [call[s] EXCEPT !.pc = pc1, !.expired = x]
  <1>0. UNCHANGED <<devMutex, drawn, seq, calls, rx, hung, mcuReset, hwReset, queued, rpc, tries>>
    BY DEF ids, reset
  <1>1. /\ r \in CallRec(drawn') /\ r.pc = pc1
        /\ r.id = call[s].id /\ r.seq = call[s].seq /\ r.served = call[s].served
        /\ r.result = call[s].result
    <2>1. call[s] \in CallRec(drawn') /\ pc1 \in Pcs
      BY <1>0, AtWork DEF Pcs
    <2> QED BY <2>1 DEF CallRec
  <1>2. call' = [call EXCEPT ![s] = r]
    BY AtWork
  <1> HIDE DEF r
  <1>3. /\ call[s].pc = "lock" => mcuMutex = NoOne
        /\ call[s].pc # "lock" => mcuMutex = s
        /\ r.pc \in Holding
    BY <1>1, AtWork DEF Holding
  <1>4. /\ r.pc # "idle" => r.result = "none"
        /\ r.pc \in {"idle", "lock", "prepare"} => r.id = 0 /\ ~r.served
        /\ r.pc \in {"post", "get", "sleep"} => r.id = drawn' /\ r.seq = seq'
    BY <1>0, <1>1, AtWork DEF Shape
  <1>5. devMutex' \in Locked \cup {Reset, NoOne} /\ queued' \in BOOLEAN
    BY <1>0, AtWork
  <1> QED BY <1>0, <1>1, <1>2, <1>3, <1>4, <1>5, SendStep

-----------------------------------------------------------------------------
(* Every step of a call keeps the invariant.                               *)
LEMMA SendKeeps ==
  ASSUME IInv, NEW s \in Senders, Send(s) \/ Expire(s)
  PROVE  IInv'
  <1>0. /\ ring \in Seq(Message) /\ resq \in Seq(Message) /\ queued \in BOOLEAN
        /\ call[s].pc \in Holding <=> mcuMutex = s
        /\ call \in [Senders -> CallRec(drawn)] /\ call[s] \in CallRec(drawn)
    BY AtWork
  <1>1. CASE Lock(s)
    <2> DEFINE x == call[s].expired
    <2>1. x \in BOOLEAN /\ call' = [call EXCEPT ![s] = [@ EXCEPT !.pc = "prepare", !.expired = x]]
      BY <1>0, <1>1 DEF Lock, Goto, CallRec
    <2> HIDE DEF x
    <2> QED BY <1>0, <1>1, <2>1, Goes DEF Lock, queues
  <1>2. CASE Prepare(s)
    <2> DEFINE r == [call[s] EXCEPT !.pc = "post", !.id = drawn', !.seq = seq']
    <2>0. /\ call[s].pc = "prepare" /\ seq' = NextSeq(seq) /\ drawn' = drawn + 1
          /\ UNCHANGED <<devMutex, mcuMutex, calls, ring, rx, resq, hung, mcuReset, hwReset,
                         queued, rpc, tries>>
          /\ call' = [call EXCEPT ![s] = r]
      BY <1>2 DEF Prepare, locks, queues, reset
    <2>1. drawn' \in Nat /\ drawn' > 0 /\ seq' \in 0 .. SeqMod - 1
      BY <2>0, AtWork, SeqAssumption DEF NextSeq
    <2>2. /\ r \in CallRec(drawn') /\ r.pc = "post" /\ r.id = drawn' /\ r.seq = seq'
          /\ r.served = call[s].served /\ r.result = call[s].result
      <3>1. drawn' \in 0 .. drawn' /\ "post" \in Pcs
        BY <2>1 DEF Pcs
      <3> DEFINE n == drawn'
                 q == seq'
      <3>2. n \in 0 .. n /\ q \in 0 .. SeqMod - 1
        BY <2>1, <3>1
      <3>3. r = [call[s] EXCEPT !.pc = "post", !.id = n, !.seq = q]
        OBVIOUS
      <3> HIDE DEF n, q
      <3>4. r \in CallRec(n) /\ r.pc = "post" /\ r.id = n /\ r.seq = q
            /\ r.served = call[s].served /\ r.result = call[s].result
        BY <1>0, <3>1, <3>2, <3>3 DEF CallRec
      <3> QED BY <3>4 DEF n, q
    <2>3. call[s].result = "none" /\ mcuMutex = s
      BY <2>0, AtWork DEF Shape, Holding
    <2> HIDE DEF r
    <2>4. "post" \in Holding
      BY DEF Holding
    <2>5. devMutex' \in Locked \cup {Reset, NoOne} /\ queued' \in BOOLEAN
      BY <2>0, AtWork
    <2> QED BY <1>0, <2>0, <2>1, <2>2, <2>3, <2>4, <2>5, SendStep
  <1>3. CASE PrepareFail(s)
    <2>1. call[s].pc = "prepare" /\ call[s].pc \in Holding
      BY <1>3 DEF PrepareFail, Holding
    <2> QED BY <1>0, <1>3, <2>1, Returns DEF PrepareFail, queues, reset
  <1>4. CASE Post(s)
    <2> DEFINE m == [id |-> call[s].id, seq |-> call[s].seq]
    <2>1. call[s].pc = "post" /\ call[s].pc \in Holding /\ mcuMutex = s
      BY <1>0, <1>4 DEF Post, Holding
    <2>2. m = [id |-> drawn, seq |-> seq] /\ m \in Message
      <3>1. call[s].id = drawn /\ call[s].seq = seq
        BY <2>1, AtWork DEF Shape
      <3> QED BY <3>1, AtWork DEF Message
    <2> HIDE DEF m
    <2>3. ring' = Append(ring, m)
      BY <1>4 DEF Post, m
    <2>4. ring' \in Seq(Message) /\ Held(ring') = Held(ring) \cup {m}
      BY <1>0, <2>2, <2>3, Appended
    <2>5. UNCHANGED <<ids, seq, drawn, calls, rx, resq, hung, reset, mcuReset, hwReset, queued,
                      rpc, tries>>
      BY <1>4 DEF Post, ids, reset
    <2>6. CASE call[s].wait
      <3> DEFINE x == call[s].expired
      <3>1. /\ x \in BOOLEAN
            /\ call' = [call EXCEPT ![s] = [@ EXCEPT !.pc = "get", !.expired = x]]
            /\ UNCHANGED <<devMutex, mcuMutex>>
        BY <1>0, <1>4, <2>6 DEF Post, Goto, CallRec, locks
      <3> HIDE DEF x
      <3> QED BY <1>0, <2>1, <2>2, <2>4, <2>5, <3>1, Goes
    <2>7. CASE ~call[s].wait
      <3>1. Return(s, "ok")
        BY <1>4, <2>7 DEF Post
      <3> QED BY <1>0, <2>1, <2>2, <2>4, <2>5, <3>1, Returns
    <2> QED BY <2>6, <2>7
  <1>5. CASE Sleep(s)
    <2> DEFINE x == call[s].expired
    <2>1. x \in BOOLEAN /\ call' = [call EXCEPT ![s] = [@ EXCEPT !.pc = "sleep", !.expired = x]]
      BY <1>0, <1>5 DEF Sleep, Goto, CallRec
    <2>2. mcuMutex = s
      BY <1>0, <1>5 DEF Sleep, Holding
    <2> HIDE DEF x
    <2> QED BY <1>0, <1>5, <2>1, <2>2, Goes DEF Sleep, queues, locks
  <1>6. CASE Accept(s)
    <2>1. call[s].pc = "sleep" /\ call[s].pc \in Holding
      BY <1>6 DEF Accept, Holding
    <2>2. resq' \in Seq(Message) /\ Held(resq') \subseteq Held(resq)
      BY <1>0, <1>6, Taken DEF Accept
    <2> QED BY <1>0, <1>6, <2>1, <2>2, Returns DEF Accept, ids, reset
  <1>7. CASE Again(s)
    <2> DEFINE x == call[s].expired
    <2>1. x \in BOOLEAN /\ call' = [call EXCEPT ![s] = [@ EXCEPT !.pc = "get", !.expired = x]]
      BY <1>0, <1>7 DEF Again, Goto, CallRec
    <2>2. mcuMutex = s
      BY <1>0, <1>7 DEF Again, Holding
    <2>3. resq' \in Seq(Message) /\ Held(resq') \subseteq Held(resq)
      BY <1>0, <1>7, Taken DEF Again
    <2> HIDE DEF x
    <2> QED BY <1>0, <1>7, <2>1, <2>2, <2>3, Goes DEF Again, locks
  <1>8. CASE NoResponse(s)
    <2>1. call[s].pc \in {"get", "sleep"} /\ call[s].pc \in Holding
      BY <1>8 DEF NoResponse, Holding
    <2>2. queued' \in BOOLEAN
      BY <1>0, <1>8 DEF NoResponse
    <2> QED BY <1>0, <1>8, <2>1, <2>2, Returns DEF NoResponse, ids, queues
  <1>9. CASE Expire(s)
    <2> DEFINE p == call[s].pc
    <2>1. p \in {"get", "sleep"} /\ call' = [call EXCEPT ![s] = [@ EXCEPT !.pc = p, !.expired = TRUE]]
      BY <1>0, <1>9 DEF Expire, CallRec
    <2>2. mcuMutex = s
      BY <1>0, <1>9 DEF Expire, Holding
    <2>3. call[s].pc \in {"post", "get", "sleep"}
      BY <2>1
    <2> HIDE DEF p
    <2> QED BY <1>0, <1>9, <2>1, <2>2, <2>3, Goes DEF Expire, locks, queues
  <1> QED BY <1>1, <1>2, <1>3, <1>4, <1>5, <1>6, <1>7, <1>8, <1>9 DEF Send

(* A call that begins takes no number and no mutex yet.                    *)
LEMMA BeginKeeps ==
  ASSUME IInv, NEW s \in Senders, NEW w \in BOOLEAN,
         Fresh, call[s].pc = "idle", call' = [call EXCEPT ![s] = Begun(w)],
         UNCHANGED <<mcuMutex, ids, queues, hung>>,
         devMutex' \in Locked \cup {Reset, NoOne}, calls' \in 0 .. MaxCalls,
         UNCHANGED <<mcuReset, hwReset, queued, tries>>,
         IF s = Reset THEN rpc' \in {"started", "reconnect"} /\ tries < MaxTries
                      ELSE rpc' = rpc
  PROVE  IInv'
  <1> DEFINE r == Begun(w)
  <1>1. UNCHANGED <<mcuMutex, seq, drawn, ring, rx, resq, hung>>
    BY DEF ids, queues
  <1>2. /\ r \in CallRec(drawn') /\ r.pc = "lock" /\ r.id = 0 /\ ~r.served /\ r.result = "none"
    <2>1. 0 \in 0 .. drawn' /\ 0 \in 0 .. SeqMod - 1
      BY <1>1, AtWork, SeqAssumption
    <2> QED BY <2>1 DEF Begun, Idle, CallRec, Pcs
  <1> HIDE DEF r
  <1>3. r.pc \notin Holding /\ mcuMutex # s
    BY <1>2, AtWork DEF Holding
  <1>4. /\ call' \in [Senders -> CallRec(drawn')] /\ drawn' \in Nat
        /\ call'[s] = r /\ \A o \in Senders \ {s} : call'[o] = call[o]
        /\ mcuMutex' \in Senders \cup {NoOne}
        /\ OneHolder' /\ Shapes'
    <2>1. call' = [call EXCEPT ![s] = r]
      BY DEF r
    <2> QED BY <1>1, <1>2, <1>3, <2>1, CallMoves
  <1>5. /\ drawn \in Nat /\ Numbers /\ Told /\ Bounded /\ Resetting
        /\ Cardinality(Waiting) \in Nat /\ Reset \in Senders
    BY CountWaiting DEF IInv, TypeOK, Senders
  <1>6. s \notin Waiting /\ s \in Waiting'
    BY <1>2, <1>4 DEF Waiting
  <1>7. Bounded' /\ Cardinality(Waiting') = Cardinality(Waiting) + 1
    BY <1>4, <1>5, <1>6, OneMoves
  <1>8. Numbers'
    BY <1>1, <1>5, <1>7, NumbersBegin
  <1>9. Told'
    <2>1. Held(rx)' = Held(rx) /\ Held(resq)' = Held(resq)
      BY <1>1
    <2> SUFFICES ASSUME NEW o \in Senders, NEW m \in Held(rx) \cup Held(resq),
                        m.id = call'[o].id, call'[o].pc \in {"post", "get", "sleep"}
                 PROVE  call'[o].served
      BY <2>1 DEF Told
    <2> QED BY <1>2, <1>4, <1>5 DEF Told
  <1>10. Resetting'
    BY <1>4, <1>5 DEF Resetting
  <1>11. TypeOK'
    BY <1>1, <1>4 DEF IInv, TypeOK, CallRec
  <1> QED BY <1>4, <1>7, <1>8, <1>9, <1>10, <1>11 DEF IInv

Rpcs == {"idle", "lock", "flag", "dma", "clear", "firmware", "started", "end", "reconnect"}

(* A step that moves no call and brings no message but an event.           *)
LEMMA RestKeeps ==
  ASSUME IInv, UNCHANGED <<call, mcuMutex, seq, drawn, calls>>,
         ring' \in Seq(Message), rx' \in Seq(Message), resq' \in Seq(Message),
         Held(ring') \subseteq Held(ring),
         \A m : m \in Held(rx') \cup Held(resq') =>
                   m = Event \/ m \in Held(rx) \cup Held(resq),
         devMutex' \in Locked \cup {Reset, NoOne}, hung' \in BOOLEAN,
         mcuReset' \in BOOLEAN, hwReset' \in BOOLEAN, queued' \in BOOLEAN,
         rpc' \in Rpcs, tries' \in 0 .. MaxTries, Resetting'
  PROVE  IInv'
  <1>1. Numbers /\ Told /\ Bounded /\ Shapes /\ OneHolder /\ TypeOK
    BY DEF IInv
  <1>2. Waiting' = Waiting /\ Bounded'
    BY <1>1, NoneMoves
  <1>3. OneHolder' /\ Shapes'
    BY <1>1 DEF OneHolder, Shapes, Shape
  <1>4. Numbers'
    <2>1. \A m : m \in Held(ring') => Numbered(m)
      BY <1>1 DEF Numbers
    <2>2. \A m : m \in Held(rx') \cup Held(resq') => m = Event \/ Numbered(m)
      BY <1>1 DEF Numbers
    <2> QED BY <1>1, <1>2, <2>1, <2>2, NumbersMove
  <1>5. Told'
    <2> SUFFICES ASSUME NEW o \in Senders, NEW m, m \in Held(rx') \cup Held(resq'),
                        m.id = call[o].id, call[o].pc \in {"post", "get", "sleep"}
                 PROVE  call[o].served
      BY DEF Told
    <2>1. CASE m = Event
      <3>1. call[o].id = drawn /\ drawn > 0 /\ drawn \in Nat
        BY <1>1 DEF Shapes, Shape, TypeOK
      <3> QED BY <3>1, <2>1 DEF Event
    <2>2. CASE m \in Held(rx) \cup Held(resq)
      BY <1>1, <2>2 DEF Told
    <2> QED BY <2>1, <2>2
  <1>6. TypeOK'
    BY <1>1 DEF TypeOK, Rpcs
  <1> QED BY <1>2, <1>3, <1>4, <1>5, <1>6 DEF IInv

(* The firmware serves the message at the head of the ring.                *)
LEMMA ServeKeeps ==
  ASSUME IInv, FwServe
  PROVE  IInv'
  <1> DEFINE h == Head(ring)
  <1>1. /\ call \in [Senders -> CallRec(drawn)] /\ ring \in Seq(Message) /\ rx \in Seq(Message)
        /\ Numbers /\ Told /\ Bounded /\ Shapes /\ OneHolder /\ TypeOK
    BY DEF IInv, TypeOK, CallRec
  <1>2. /\ ring' \in Seq(Message) /\ Held(ring') \subseteq Held(ring)
        /\ h \in Held(ring) /\ h \in Message
    BY <1>1, Taken DEF FwServe
  <1>3. rx' \in Seq(Message) /\ \A m \in Held(rx') : m = h \/ m \in Held(rx)
    <2>1. rx' = rx \/ rx' = Append(rx, h)
      BY DEF FwServe
    <2>2. Append(rx, h) \in Seq(Message) /\ Held(Append(rx, h)) = Held(rx) \cup {h}
      BY <1>1, <1>2, Appended
    <2> QED BY <1>1, <2>1, <2>2
  <1>4. Numbered(h) /\ h.id # 0
    BY <1>1, <1>2, OnTheWay DEF Numbers
  <1>5. UNCHANGED <<devMutex, mcuMutex, seq, drawn, calls, resq, hung, mcuReset, hwReset,
                    queued, rpc, tries>>
    BY DEF FwServe, locks, ids, reset
  <1>6. call' = [s \in Senders |-> [call[s] EXCEPT !.served = @ \/ call[s].id = h.id]]
    BY DEF FwServe
  <1> HIDE DEF h
  <1>7. \A s \in Senders :
          /\ call'[s] \in CallRec(drawn) /\ call'[s].pc = call[s].pc
          /\ call'[s].id = call[s].id /\ call'[s].seq = call[s].seq
          /\ call'[s].wait = call[s].wait /\ call'[s].result = call[s].result
          /\ call'[s].served <=> call[s].served \/ call[s].id = h.id
    <2> SUFFICES ASSUME NEW s \in Senders
                 PROVE  /\ call'[s] \in CallRec(drawn) /\ call'[s].pc = call[s].pc
                        /\ call'[s].id = call[s].id /\ call'[s].seq = call[s].seq
                        /\ call'[s].wait = call[s].wait /\ call'[s].result = call[s].result
                        /\ call'[s].served <=> call[s].served \/ call[s].id = h.id
      OBVIOUS
    <2> DEFINE b == call[s].served \/ call[s].id = h.id
    <2>1. b \in BOOLEAN /\ call'[s] = [call[s] EXCEPT !.served = b] /\ call[s] \in CallRec(drawn)
      BY <1>1, <1>6
    <2> HIDE DEF b
    <2>2. /\ call'[s] \in CallRec(drawn) /\ call'[s].pc = call[s].pc
          /\ call'[s].id = call[s].id /\ call'[s].seq = call[s].seq
          /\ call'[s].wait = call[s].wait /\ call'[s].result = call[s].result
          /\ call'[s].served = b
      BY <2>1 DEF CallRec
    <2> QED BY <2>2 DEF b
  <1>8. call' \in [Senders -> CallRec(drawn)]
    BY <1>6, <1>7
  <1>9. Waiting' = Waiting /\ Bounded'
    BY <1>1, <1>7, NoneMoves
  <1>10. OneHolder'
    BY <1>1, <1>5, <1>7 DEF OneHolder
  <1>11. Shapes'
    BY <1>1, <1>4, <1>5, <1>7 DEF Shapes, Shape
  <1>12. Numbers'
    <2>1. \A m : m \in Held(ring') => Numbered(m)
      BY <1>1, <1>2 DEF Numbers
    <2>2. \A m : m \in Held(rx') \cup Held(resq') => m = Event \/ Numbered(m)
      BY <1>1, <1>3, <1>4, <1>5 DEF Numbers
    <2> QED BY <1>1, <1>5, <1>9, <2>1, <2>2, NumbersMove
  <1>13. Told'
    <2> SUFFICES ASSUME NEW o \in Senders, NEW m, m \in Held(rx') \cup Held(resq'),
                        m.id = call'[o].id, call'[o].pc \in {"post", "get", "sleep"}
                 PROVE  call'[o].served
      BY DEF Told
    <2>1. CASE m = h
      BY <1>7, <2>1
    <2>2. CASE m \in Held(rx) \cup Held(resq)
      BY <1>1, <1>7, <2>2 DEF Told
    <2> QED BY <1>3, <1>5, <2>1, <2>2
  <1>14. Resetting'
    BY <1>5, <1>7 DEF IInv, Resetting, Senders
  <1>15. TypeOK'
    BY <1>1, <1>2, <1>3, <1>5, <1>8 DEF TypeOK, CallRec
  <1> QED BY <1>9, <1>10, <1>11, <1>12, <1>13, <1>14, <1>15 DEF IInv

(* The firmware's other steps and the receive path.                        *)
LEMMA ReceiveKeeps ==
  ASSUME IInv, FwEvent \/ FwHang \/ RxEvent
  PROVE  IInv'
  <1>1. /\ ring \in Seq(Message) /\ rx \in Seq(Message) /\ resq \in Seq(Message)
        /\ devMutex \in Locked \cup {Reset, NoOne} /\ hung \in BOOLEAN /\ mcuReset \in BOOLEAN
        /\ hwReset \in BOOLEAN /\ queued \in BOOLEAN /\ rpc \in Rpcs /\ tries \in 0 .. MaxTries
        /\ Resetting
    BY DEF IInv, TypeOK, Rpcs
  <1>2. UNCHANGED <<call, mcuMutex, devMutex, seq, drawn, calls, ring, mcuReset, hwReset,
                    queued, rpc, tries>> /\ Resetting'
    BY <1>1 DEF FwEvent, FwHang, RxEvent, locks, ids, queues, reset, Resetting
  <1>3. CASE FwEvent
    <2>1. Event \in Message
      BY SeqAssumption DEF Event, Message
    <2>2. /\ rx' \in Seq(Message) /\ Held(rx') = Held(rx) \cup {Event}
          /\ resq' = resq /\ hung' = hung
      BY <1>1, <1>3, <2>1, Appended DEF FwEvent
    <2> QED BY <1>1, <1>2, <2>2, RestKeeps
  <1>4. CASE FwHang
    <2>1. rx' = rx /\ resq' = resq /\ hung' = TRUE
      BY <1>4 DEF FwHang, queues
    <2> QED BY <1>1, <1>2, <2>1, RestKeeps
  <1>5. CASE RxEvent
    <2>1. rx' \in Seq(Message) /\ Held(rx') \subseteq Held(rx) /\ hung' = hung
      BY <1>1, <1>5, Taken DEF RxEvent
    <2>2. Head(rx) \in Message /\ Head(rx) \in Held(rx)
      BY <1>1, <1>5, Taken DEF RxEvent
    <2>3. resq' \in Seq(Message) /\ Held(resq') \subseteq Held(resq) \cup {Head(rx)}
      BY <1>1, <1>5, <2>2, Appended DEF RxEvent
    <2> QED BY <1>1, <1>2, <2>1, <2>2, <2>3, RestKeeps
  <1> QED BY <1>3, <1>4, <1>5

(* The reset work, where it sends no command.                              *)
LEMMA ResetKeeps ==
  ASSUME IInv, \/ RsStart \/ RsLock \/ RsFlag \/ RsDma \/ RsClear
               \/ RsFail \/ RsDone \/ RsEnd \/ RsConnected
  PROVE  IInv'
  <1>1. /\ ring \in Seq(Message) /\ rx \in Seq(Message) /\ resq \in Seq(Message)
        /\ devMutex \in Locked \cup {Reset, NoOne} /\ hung \in BOOLEAN /\ mcuReset \in BOOLEAN
        /\ hwReset \in BOOLEAN /\ queued \in BOOLEAN /\ rpc \in Rpcs /\ tries \in 0 .. MaxTries
        /\ Resetting
    BY DEF IInv, TypeOK, Rpcs
  <1>2. UNCHANGED <<call, mcuMutex, seq, drawn, calls>>
    BY DEF RsStart, RsLock, RsFlag, RsDma, RsClear, RsFail, RsDone, RsEnd, RsConnected,
           locks, ids
  <1>3. /\ devMutex' \in Locked \cup {Reset, NoOne} /\ hung' \in BOOLEAN
        /\ mcuReset' \in BOOLEAN /\ hwReset' \in BOOLEAN /\ queued' \in BOOLEAN
    BY <1>1 DEF RsStart, RsLock, RsFlag, RsDma, RsClear, RsFail, RsDone, RsEnd, RsConnected,
                locks
  <1>4. /\ ring' \in {ring, <<>>} /\ rx' \in {rx, <<>>} /\ resq' \in {resq, <<>>}
    BY DEF RsStart, RsLock, RsFlag, RsDma, RsClear, RsFail, RsDone, RsEnd, RsConnected,
           queues
  <1>5. rpc' \in Rpcs /\ tries' \in 0 .. MaxTries /\ Resetting'
    <2> MaxTries \in Nat \ {0}
      BY BoundAssumption
    <2>1. CASE RsFail
      <3>1. /\ rpc' = IF tries + 1 < MaxTries THEN "lock" ELSE "end"
            /\ tries' = tries + 1 /\ call' = call
            /\ rpc # "end" /\ call[Reset].pc = "idle"
        BY <1>1, <2>1 DEF RsFail, Resetting
      <3>2. tries < MaxTries
        BY <1>1, <3>1 DEF Resetting
      <3> QED BY <1>1, <3>1, <3>2 DEF Resetting, Rpcs
    <2>2. CASE RsEnd
      BY <1>1, <1>2, <2>2 DEF RsEnd, RsGoto, Resetting, Rpcs
    <2>3. CASE RsDone \/ RsConnected
      BY <1>1, <1>2, <2>3 DEF RsDone, RsConnected, RsGoto, Resetting, Rpcs
    <2>4. CASE RsStart \/ RsLock \/ RsFlag \/ RsDma \/ RsClear
      BY <1>1, <1>2, <2>4
      DEF RsStart, RsLock, RsFlag, RsDma, RsClear, RsGoto, Resetting, Rpcs
    <2> QED BY <2>1, <2>2, <2>3, <2>4
  <1>6. /\ ring' \in Seq(Message) /\ rx' \in Seq(Message) /\ resq' \in Seq(Message)
        /\ Held(ring') \subseteq Held(ring) /\ Held(rx') \subseteq Held(rx)
        /\ Held(resq') \subseteq Held(resq)
    BY <1>1, <1>4, Nothing
  <1> QED BY <1>2, <1>3, <1>5, <1>6, RestKeeps

(* Every step keeps the invariant.                                         *)
LEMMA NextKeeps == IInv /\ [Next]_vars => IInv'
  <1> SUFFICES ASSUME IInv, [Next]_vars PROVE IInv'
    OBVIOUS
  <1>0. Reset \in Senders /\ Reset \notin Callers /\ Callers \subseteq Senders
    BY SendersAssumption DEF Senders
  <1>a. /\ devMutex \in Locked \cup {Reset, NoOne} /\ calls \in 0 .. MaxCalls
        /\ MaxCalls \in Nat /\ Resetting
    BY BoundAssumption DEF IInv, TypeOK
  <1>1. ASSUME NEW s \in Callers, NEW w \in BOOLEAN, Start(s, w)
        PROVE  IInv'
    <2>1. /\ Fresh /\ call[s].pc = "idle" /\ call' = [call EXCEPT ![s] = Begun(w)]
          /\ UNCHANGED <<mcuMutex, ids, queues, hung, mcuReset, hwReset, queued, rpc, tries>>
      BY <1>1 DEF Start, reset
    <2>2. devMutex' \in Locked \cup {Reset, NoOne}
      BY <1>a, <1>1 DEF Start
    <2>3. calls' \in 0 .. MaxCalls
      BY <1>a, <1>1 DEF Start
    <2>4. s # Reset /\ s \in Senders
      BY <1>0
    <2> QED BY <2>1, <2>2, <2>3, <2>4, BeginKeeps
  <1>2. ASSUME NEW s \in Senders, Send(s) \/ Expire(s)
        PROVE  IInv'
    BY <1>2, SendKeeps
  <1>3. CASE RsCall
    <2>1. /\ call[Reset].pc = "idle" /\ rpc' = "started" /\ tries < MaxTries
          /\ Fresh /\ call' = [call EXCEPT ![Reset] = Begun(TRUE)]
          /\ UNCHANGED <<devMutex, mcuMutex, ids, calls, queues, hung, mcuReset, hwReset,
                         queued, tries>>
      BY <1>3, <1>a DEF RsCall, RsGoto, Resetting, locks
    <2> QED BY <1>0, <1>a, <2>1, BeginKeeps
  <1>4. ASSUME NEW w \in BOOLEAN, RsConnect(w)
        PROVE  IInv'
    <2>1. /\ call[Reset].pc = "idle" /\ rpc' = "reconnect" /\ tries < MaxTries
          /\ Fresh /\ call' = [call EXCEPT ![Reset] = Begun(w)]
          /\ UNCHANGED <<devMutex, mcuMutex, ids, queues, hung, mcuReset, hwReset,
                         queued, tries>>
      BY <1>4, <1>a DEF RsConnect, Resetting, locks, reset
    <2>2. calls' \in 0 .. MaxCalls
      BY <1>4, <1>a DEF RsConnect
    <2> QED BY <1>0, <1>a, <2>1, <2>2, BeginKeeps
  <1>5. CASE UNCHANGED vars
    <2>1. UNCHANGED <<devMutex, mcuMutex, seq, drawn, calls, call, ring, rx, resq, hung,
                      mcuReset, hwReset, queued, rpc, tries>>
      BY <1>5 DEF vars
    <2>2. Resetting'
      BY <2>1, <1>a DEF Resetting
    <2>3. TypeOK
      BY DEF IInv
    <2> QED BY <2>1, <2>2, <2>3, RestKeeps DEF TypeOK, Rpcs
  <1> QED
    BY <1>1, <1>2, <1>3, <1>4, <1>5, ServeKeeps, ReceiveKeeps, ResetKeeps DEF Next, RsRun

LEMMA InitInv == Init => IInv
  <1> SUFFICES ASSUME Init PROVE IInv
    OBVIOUS
  <1> USE DEF Init
  <1>1. \A s \in Senders : call[s] = Idle("none")
    OBVIOUS
  <1>2. Idle("none") \in CallRec(0)
    BY SeqAssumption DEF Idle, CallRec, Pcs
  <1>3. <<>> \in Seq(Message) /\ Held(<<>>) = {}
    BY Nothing
  <1>4. TypeOK
    <2>1. call \in [Senders -> CallRec(drawn)]
      BY <1>2
    <2>2. /\ devMutex \in Locked \cup {Reset, NoOne} /\ mcuMutex \in Senders \cup {NoOne}
          /\ rpc \in Rpcs
      BY DEF Rpcs
    <2>3. seq \in 0 .. SeqMod - 1 /\ drawn \in Nat /\ calls \in 0 .. MaxCalls
          /\ tries \in 0 .. MaxTries
      BY SeqAssumption, BoundAssumption
    <2>4. ring \in Seq(Message) /\ rx \in Seq(Message) /\ resq \in Seq(Message)
      BY <1>3
    <2>5. /\ hung \in BOOLEAN /\ mcuReset \in BOOLEAN /\ hwReset \in BOOLEAN
          /\ queued \in BOOLEAN
      OBVIOUS
    <2> QED BY <2>1, <2>2, <2>3, <2>4, <2>5 DEF TypeOK, CallRec, Rpcs
  <1>5. OneHolder
    BY <1>1, NoOneAssumption DEF OneHolder, Holding, Idle
  <1>6. Bounded
    <2>1. Unsent = {}
      BY <1>1 DEF Unsent, Idle
    <2> QED BY <2>1, FS_EmptySet, SeqAssumption DEF Bounded
  <1>7. Shapes
    BY <1>1 DEF Shapes, Shape, Idle
  <1>8. Numbers /\ Told
    BY <1>3 DEF Numbers, Told
  <1>9. Resetting
    BY <1>1, BoundAssumption DEF Resetting, Idle, Senders
  <1> QED BY <1>4, <1>5, <1>6, <1>7, <1>8, <1>9 DEF IInv

(* The inductive invariant holds.                                          *)
THEOREM Inductive == Spec => []IInv
  BY InitInv, NextKeeps, PTL DEF Spec

-----------------------------------------------------------------------------
(* A call accepts its own answer only, which the firmware gave after it    *)
(* served the call.                                                        *)
LEMMA AcceptsOwn ==
  ASSUME IInv, NEW s \in Senders, Accept(s)
  PROVE  Head(resq).id = call[s].id /\ call[s].served
  <1>1. /\ call[s].pc = "sleep" /\ resq \in Seq(Message) /\ resq # <<>>
        /\ Head(resq).seq = call[s].seq
    BY AtWork DEF Accept
  <1>2. call[s].id = drawn /\ call[s].seq = seq /\ drawn > 0 /\ drawn \in Nat
    BY <1>1, AtWork DEF Shape
  <1>3. Head(resq) \in Held(resq)
    BY <1>1, Taken
  <1>4. /\ Numbers /\ Told /\ Cardinality(Waiting) \in Nat
    BY CountWaiting DEF IInv
  <1>5. seq # 0
    BY <1>2, <1>4 DEF Numbers
  <1>6. Head(resq) # Event
    BY <1>1, <1>2, <1>5 DEF Event
  <1>7. Numbered(Head(resq))
    BY <1>3, <1>4, <1>6 DEF Numbers
  <1>8. Head(resq).id = drawn
    BY <1>1, <1>2, <1>4, <1>7, OwnNumber
  <1>9. call[s].served
    BY <1>1, <1>2, <1>3, <1>4, <1>8 DEF Told
  <1> QED BY <1>2, <1>8, <1>9

(* A call that waits returns without an error only by accepting.           *)
LEMMA OnlyAccept ==
  ASSUME IInv, NEW s \in Senders, Next, call[s].wait, call'[s].result = "ok"
  PROVE  Accept(s)
  <1>1. /\ call[s].pc # "idle" /\ call[s].result = "none" /\ call[s] \in CallRec(drawn)
        /\ call \in [Senders -> CallRec(drawn)]
    BY AtWork DEF Shape
  <1>2. ASSUME NEW o \in Senders, NEW r, call' = [call EXCEPT ![o] = r]
        PROVE  o = s /\ call'[s] = r
    BY <1>1, <1>2
  <1>3. ASSUME NEW o \in Senders, NEW w \in BOOLEAN, call' = [call EXCEPT ![o] = Begun(w)]
        PROVE  FALSE
    <2>1. Begun(w).result = "none"
      BY DEF Begun, Idle
    <2> DEFINE r == Begun(w)
    <2>2. call' = [call EXCEPT ![o] = r] /\ r.result = "none"
      BY <1>3, <2>1
    <2> HIDE DEF r
    <2> QED BY <1>2, <2>2
  <1>4. call' # call
    BY <1>1
  <1>5. ASSUME NEW o \in Senders, NEW how, Return(o, how)
        PROVE  o = s /\ how = "ok"
    <2>1. Idle(how).result = how
      BY DEF Idle
    <2> DEFINE r == Idle(how)
    <2>2. call' = [call EXCEPT ![o] = r] /\ r.result = how
      BY <1>5, <2>1 DEF Return
    <2> HIDE DEF r
    <2> QED BY <1>2, <2>2
  <1>6. ASSUME NEW o \in Senders, NEW pc1, NEW x, NEW n, NEW q,
               call' = [call EXCEPT ![o] = [@ EXCEPT !.pc = pc1, !.expired = x,
                                                     !.id = n, !.seq = q]]
        PROVE  FALSE
    <2> DEFINE r == [call[o] EXCEPT !.pc = pc1, !.expired = x, !.id = n, !.seq = q]
    <2>1. r.result = call[o].result
      BY <1>1 DEF CallRec
    <2>2. call' = [call EXCEPT ![o] = r]
      BY <1>6
    <2> HIDE DEF r
    <2> QED BY <1>1, <1>2, <2>1, <2>2
  <1>7. ASSUME NEW o \in Senders, NEW pc1, Goto(o, pc1)
        PROVE  FALSE
    <2> DEFINE r == [call[o] EXCEPT !.pc = pc1]
    <2>1. r.result = call[o].result
      BY <1>1 DEF CallRec
    <2>2. call' = [call EXCEPT ![o] = r]
      BY <1>7 DEF Goto
    <2> HIDE DEF r
    <2> QED BY <1>1, <1>2, <2>1, <2>2
  <1>8. ASSUME NEW o \in Senders, Prepare(o) \/ Expire(o)
        PROVE  FALSE
    <2> DEFINE r == call'[o]
    <2>1. r.result = call[o].result /\ call' = [call EXCEPT ![o] = r]
      BY <1>1, <1>8 DEF Prepare, Expire, CallRec
    <2> HIDE DEF r
    <2> QED BY <1>1, <1>2, <2>1
  <1>9. ASSUME NEW o \in Senders, Send(o) \/ Expire(o)
        PROVE  Accept(s)
    <2>1. CASE Lock(o) \/ Sleep(o) \/ Again(o)
      BY <1>7, <2>1 DEF Lock, Sleep, Again
    <2>2. CASE PrepareFail(o) \/ NoResponse(o)
      BY <1>5, <2>2 DEF PrepareFail, NoResponse
    <2>3. CASE Post(o)
      BY <1>5, <1>7, <2>3 DEF Post
    <2>4. CASE Accept(o)
      BY <1>5, <2>4 DEF Accept
    <2> QED BY <1>8, <1>9, <2>1, <2>2, <2>3, <2>4 DEF Send
  <1>10. CASE FwServe
    <2>1. call'[s] = [call[s] EXCEPT !.served = @ \/ call[s].id = Head(ring).id]
      BY <1>10 DEF FwServe
    <2> QED BY <1>1, <2>1 DEF CallRec
  <1>11. CASE FwEvent \/ FwHang \/ RxEvent \/ RsStart \/ RsLock
    BY <1>4, <1>11 DEF FwEvent, FwHang, RxEvent, RsStart, RsLock
  <1>12. CASE RsRun
    <2>1. Reset \in Senders
      BY DEF Senders
    <2> QED BY <1>3, <1>4, <1>12, <2>1
            DEF RsRun, RsFlag, RsDma, RsClear, RsCall, RsFail, RsDone, RsEnd, RsConnected
  <1>13. ASSUME NEW o \in Senders, NEW w \in BOOLEAN, Start(o, w) \/ RsConnect(w)
         PROVE  FALSE
    <2>1. Reset \in Senders
      BY DEF Senders
    <2> QED BY <1>3, <1>13, <2>1 DEF Start, RsConnect
  <1> QED BY <1>9, <1>10, <1>11, <1>12, <1>13 DEF Next, Senders

(* Only the receive path takes messages off the receive ring one by one.   *)
LEMMA OnlyReceive ==
  ASSUME IInv, Next, rx # <<>>, rx' = Tail(rx), rpc' = rpc
  PROVE  RxEvent
  <1>1. rx \in Seq(Message) /\ ring \in Seq(Message)
    BY DEF IInv, TypeOK
  <1>2. Len(rx') = Len(rx) - 1 /\ Len(rx) \in Nat
    BY <1>1, Taken
  <1>3. rx' # rx
    <2> SUFFICES ASSUME rx' = rx PROVE FALSE
      OBVIOUS
    <2>1. Len(rx') = Len(rx)
      OBVIOUS
    <2> DEFINE n == Len(rx)
               m == Len(rx')
    <2>2. m = n - 1 /\ n \in Nat /\ m = n
      BY <1>2, <2>1
    <2> HIDE DEF n, m
    <2> QED BY <2>2
  <1>4. ASSUME NEW e \in Message PROVE rx' # Append(rx, e)
    <2> SUFFICES ASSUME rx' = Append(rx, e) PROVE FALSE
      OBVIOUS
    <2>1. Len(Append(rx, e)) = Len(rx) + 1
      BY <1>1, Appended
    <2> DEFINE n == Len(rx)
               m == Len(rx')
    <2>2. m = n + 1
      BY <2>1
    <2>3. m = n - 1 /\ n \in Nat
      BY <1>2
    <2> HIDE DEF n, m
    <2> QED BY <2>2, <2>3
  <1>5. ASSUME NEW o \in Senders, Send(o) \/ Expire(o)
        PROVE  FALSE
    BY <1>3, <1>5 DEF Send, Lock, Prepare, PrepareFail, Post, Sleep, Accept, Again,
                      NoResponse, Expire, queues
  <1>6. CASE FwServe
    <2>1. Head(ring) \in Message
      BY <1>1, <1>6, Taken DEF FwServe
    <2> QED BY <1>3, <1>4, <1>6, <2>1 DEF FwServe
  <1>7. CASE FwEvent
    <2>1. Event \in Message
      BY SeqAssumption DEF Event, Message
    <2> QED BY <1>4, <1>7, <2>1 DEF FwEvent
  <1>8. CASE FwHang \/ RsStart \/ RsLock
    BY <1>3, <1>8 DEF FwHang, RsStart, RsLock, queues
  <1>9. CASE RsRun
    BY <1>3, <1>9 DEF RsRun, RsFlag, RsDma, RsClear, RsCall, RsFail, RsDone, RsEnd,
                      RsConnected, RsGoto, queues
  <1>10. ASSUME NEW o \in Callers, NEW w \in BOOLEAN, Start(o, w) \/ RsConnect(w)
         PROVE  FALSE
    BY <1>3, <1>10 DEF Start, RsConnect, queues
  <1>11. ASSUME NEW w \in BOOLEAN, RsConnect(w)
         PROVE  FALSE
    BY <1>3, <1>11 DEF RsConnect, queues
  <1> QED BY <1>5, <1>6, <1>7, <1>8, <1>9, <1>10, <1>11 DEF Next

(* A call that waits ends without an error with the answer to its own      *)
(* message, and every answer polled reaches res_q: mt76_mcu_get_response,  *)
(* mt7921_mcu_parse_response and mt7921_mcu_rx_event, whatever time-outs,  *)
(* hangs and resets leave behind.                                          *)
THEOREM EachItsAnswer == Spec => AnswersMatched
  <1>1. ASSUME IInv, Next
        PROVE  TypeOK /\ OwnAnswer /\ AnswersQueued
    <2>1. TypeOK
      BY <1>1 DEF IInv
    <2>2. OwnAnswer
      BY <1>1, OnlyAccept, AcceptsOwn DEF OwnAnswer
    <2>3. ASSUME rx # <<>>, rx' = Tail(rx), rpc' = rpc, Head(rx).id # 0
          PROVE  resq' = Append(resq, Head(rx))
      <3>1. RxEvent /\ rx \in Seq(Message)
        BY <1>1, <2>1, <2>3, OnlyReceive DEF TypeOK
      <3>2. Head(rx) \in Held(rx)
        BY <2>3, <3>1, Taken
      <3>3. Head(rx).seq # 0
        BY <1>1, <2>3, <3>2, OnTheWay
      <3> QED BY <3>1, <3>3 DEF RxEvent
    <2> QED BY <2>1, <2>2, <2>3 DEF AnswersQueued
  <1>2. IInv /\ [Next]_vars => [TypeOK /\ OwnAnswer /\ AnswersQueued]_vars
    BY <1>1
  <1> QED BY <1>2, Inductive, PTL DEF Spec, AnswersMatched

-----------------------------------------------------------------------------
(* What McuCall sees of a call that moves: its own part and no other.      *)
LEMMA Moved ==
  ASSUME IInv, NEW s \in Senders, NEW r, call' = [call EXCEPT ![s] = r]
  PROVE  /\ Stages' = [Stages EXCEPT ![s] = StageOf(r)]
         /\ Waits' = [Waits EXCEPT ![s] = r.wait]
         /\ Results' = [Results EXCEPT ![s] = r.result]
  <1>1. call \in [Senders -> CallRec(drawn)]
    BY AtWork
  <1>2. call'[s] = r /\ \A o \in Senders \ {s} : call'[o] = call[o]
    BY <1>1
  <1>3. Stages' = [o \in Senders |-> StageOf(call'[o])]
    BY DEF Stages, StageOf
  <1>4. Stages' = [Stages EXCEPT ![s] = StageOf(r)]
    <2>1. Stages = [o \in Senders |-> StageOf(call[o])]
      BY DEF Stages
    <2> QED BY <1>2, <1>3, <2>1
  <1>5. Waits' = [Waits EXCEPT ![s] = r.wait]
    <2>1. /\ Waits = [o \in Senders |-> call[o].wait]
          /\ Waits' = [o \in Senders |-> call'[o].wait]
      BY DEF Waits
    <2> DEFINE x == r.wait
    <2>2. call'[s].wait = x /\ \A o \in Senders \ {s} : call'[o].wait = call[o].wait
      BY <1>2
    <2> HIDE DEF x
    <2>3. Waits' = [Waits EXCEPT ![s] = x]
      BY <2>1, <2>2
    <2> QED BY <2>3 DEF x
  <1>6. Results' = [Results EXCEPT ![s] = r.result]
    <2>1. /\ Results = [o \in Senders |-> call[o].result]
          /\ Results' = [o \in Senders |-> call'[o].result]
      BY DEF Results
    <2> DEFINE x == r.result
    <2>2. call'[s].result = x /\ \A o \in Senders \ {s} : call'[o].result = call[o].result
      BY <1>2
    <2> HIDE DEF x
    <2>3. Results' = [Results EXCEPT ![s] = x]
      BY <2>1, <2>2
    <2> QED BY <2>3 DEF x
  <1> QED BY <1>4, <1>5, <1>6

(* Nothing, when the call only gets on.                                    *)
LEMMA Unseen ==
  ASSUME IInv, NEW s \in Senders, NEW r, call' = [call EXCEPT ![s] = r],
         StageOf(r) = StageOf(call[s]), r.wait = call[s].wait, r.result = call[s].result
  PROVE  UNCHANGED Abstract!vars
  <1>1. /\ Stages' = [Stages EXCEPT ![s] = StageOf(r)]
        /\ Waits' = [Waits EXCEPT ![s] = r.wait]
        /\ Results' = [Results EXCEPT ![s] = r.result]
    BY Moved
  <1>2. Stages[s] = StageOf(call[s]) /\ Waits[s] = call[s].wait /\ Results[s] = call[s].result
    BY DEF Stages, Waits, Results
  <1>3. Stages' = Stages /\ Waits' = Waits /\ Results' = Results
    BY <1>1, <1>2 DEF Stages, Waits, Results
  <1> QED BY <1>3 DEF Abstract!vars

LEMMA SameCalls == ASSUME call' = call PROVE UNCHANGED Abstract!vars
  BY DEF Abstract!vars, Stages, Waits, Results, StageOf

(* A call begins ...                                                       *)
LEMMA BeginCalls ==
  ASSUME IInv, NEW s \in Senders, NEW w \in BOOLEAN,
         call[s].pc = "idle", call' = [call EXCEPT ![s] = Begun(w)]
  PROVE  Abstract!Next
  <1> DEFINE r == Begun(w)
  <1>1. StageOf(r) = "called" /\ r.wait = w /\ r.result = "none"
    BY DEF Begun, Idle, StageOf
  <1> HIDE DEF r
  <1>2. call' = [call EXCEPT ![s] = r]
    BY DEF r
  <1>3. Stages[s] = "idle"
    BY DEF Stages, StageOf
  <1>4. /\ Stages' = [Stages EXCEPT ![s] = StageOf(r)]
        /\ Waits' = [Waits EXCEPT ![s] = r.wait]
        /\ Results' = [Results EXCEPT ![s] = r.result]
    BY <1>2, Moved
  <1>5. /\ Stages' = [Stages EXCEPT ![s] = "called"]
        /\ Waits' = [Waits EXCEPT ![s] = w]
        /\ Results' = [Results EXCEPT ![s] = "none"]
    BY <1>1, <1>4
  <1>6. Abstract!Call(s)
    BY <1>3, <1>5 DEF Abstract!Call, Abstract!Goto
  <1> QED BY <1>6 DEF Abstract!Next

(* ... and returns.                                                        *)
LEMMA ReturnEnds ==
  ASSUME IInv, NEW s \in Senders, NEW how, Return(s, how), call[s].pc # "idle",
         \/ how = "failed"
         \/ /\ how = "ok" /\ call[s].pc \in {"post", "get", "sleep"}
            /\ call[s].wait => call[s].served
  PROVE  Abstract!Next
  <1> DEFINE r == Idle(how)
  <1>1. StageOf(r) = "idle" /\ r.wait = FALSE /\ r.result = how
    BY DEF Idle, StageOf
  <1> HIDE DEF r
  <1>2. call' = [call EXCEPT ![s] = r]
    BY DEF Return, r
  <1>3. Abstract!End(s, how)
    <2>1. /\ Stages' = [Stages EXCEPT ![s] = StageOf(r)]
          /\ Waits' = [Waits EXCEPT ![s] = r.wait]
          /\ Results' = [Results EXCEPT ![s] = r.result]
      BY <1>2, Moved
    <2> QED BY <1>1, <2>1 DEF Abstract!End, Abstract!Goto
  <1>4. Stages[s] = StageOf(call[s]) /\ Waits[s] = call[s].wait
    BY DEF Stages, Waits
  <1>5. CASE how = "failed"
    <2>1. Stages[s] # "idle"
      BY <1>4 DEF StageOf
    <2>2. Abstract!Fail(s)
      BY <1>3, <1>5, <2>1 DEF Abstract!Fail
    <2> QED BY <2>2 DEF Abstract!Next
  <1>6. CASE how # "failed"
    <2>1. /\ Stages[s] = IF call[s].served THEN "served" ELSE "sent"
          /\ how = "ok" /\ call[s].wait => call[s].served
      BY <1>4, <1>6 DEF StageOf
    <2>2. Abstract!InFlight(s) /\ (Waits[s] => Stages[s] = "served")
      BY <1>4, <1>6, <2>1 DEF Abstract!InFlight
    <2>3. Abstract!Return(s)
      BY <1>3, <1>6, <2>2 DEF Abstract!Return
    <2> QED BY <2>3 DEF Abstract!Next
  <1> QED BY <1>5, <1>6

(* Who has drawn a number holds the mutex: one command is in flight.       *)
LEMMA OneInFlight ==
  ASSUME IInv, NEW s \in Senders, NEW o \in Senders,
         call[s].pc \in Holding, call[o].pc \in {"post", "get", "sleep"}
  PROVE  o = s
  BY DEF IInv, OneHolder, Holding

(* A step of a call.                                                       *)
LEMMA SendImplements ==
  ASSUME IInv, NEW s \in Senders, Send(s) \/ Expire(s)
  PROVE  [Abstract!Next]_(Abstract!vars)
  <1>0. call[s] \in CallRec(drawn) /\ Shape(s)
    BY AtWork
  <1>1. ASSUME NEW pc1, NEW x, call' = [call EXCEPT ![s] = [@ EXCEPT !.pc = pc1, !.expired = x]],
               \/ call[s].pc = "lock" /\ pc1 = "prepare"
               \/ call[s].pc \in {"post", "get", "sleep"} /\ pc1 \in {"get", "sleep"}
        PROVE  UNCHANGED Abstract!vars
    <2> DEFINE r == [call[s] EXCEPT !.pc = pc1, !.expired = x]
    <2>1. /\ r.pc = pc1 /\ r.served = call[s].served
          /\ r.wait = call[s].wait /\ r.result = call[s].result
      BY <1>0 DEF CallRec
    <2>2. call' = [call EXCEPT ![s] = r]
      BY <1>1, AtWork
    <2> HIDE DEF r
    <2>3. StageOf(r) = StageOf(call[s])
      BY <1>1, <2>1 DEF StageOf
    <2> QED BY <2>1, <2>2, <2>3, Unseen
  <1>2. ASSUME NEW pc1, Goto(s, pc1),
               \/ call[s].pc = "lock" /\ pc1 = "prepare"
               \/ call[s].pc \in {"post", "get", "sleep"} /\ pc1 \in {"get", "sleep"}
        PROVE  UNCHANGED Abstract!vars
    <2> DEFINE x == call[s].expired
    <2>1. call' = [call EXCEPT ![s] = [@ EXCEPT !.pc = pc1, !.expired = x]]
      BY <1>0, <1>2 DEF Goto, CallRec
    <2> HIDE DEF x
    <2> QED BY <1>1, <1>2, <2>1
  <1>3. CASE Lock(s) \/ Sleep(s) \/ Again(s)
    BY <1>2, <1>3 DEF Lock, Sleep, Again
  <1>4. CASE Prepare(s)
    <2> DEFINE r == [call[s] EXCEPT !.pc = "post", !.id = drawn', !.seq = seq']
    <2>1. call[s].pc = "prepare" /\ call' = [call EXCEPT ![s] = r]
      BY <1>4 DEF Prepare
    <2>2. /\ r.pc = "post" /\ r.served = call[s].served
          /\ r.wait = call[s].wait /\ r.result = call[s].result
      BY <1>0 DEF CallRec
    <2> HIDE DEF r
    <2>3. StageOf(r) = "sent" /\ Stages[s] = "called"
      BY <1>0, <2>1, <2>2 DEF StageOf, Stages, Shape
    <2>4. /\ Stages' = [Stages EXCEPT ![s] = StageOf(r)]
          /\ Waits' = [Waits EXCEPT ![s] = r.wait]
          /\ Results' = [Results EXCEPT ![s] = r.result]
      BY <2>1, Moved
    <2>5. Waits' = Waits /\ Results' = Results
      BY <2>2, <2>4 DEF Waits, Results
    <2>6. \A o \in Senders : ~Abstract!InFlight(o)
      <3> SUFFICES ASSUME NEW o \in Senders, Stages[o] \in {"sent", "served"}
                   PROVE  FALSE
        BY DEF Abstract!InFlight
      <3>1. call[o].pc \notin {"idle", "lock", "prepare"} /\ call[o] \in CallRec(drawn)
        BY AtWork DEF Stages, StageOf
      <3>2. call[o].pc \in {"post", "get", "sleep"}
        BY <3>1 DEF CallRec, Pcs
      <3> QED BY <2>1, <3>2, OneInFlight DEF Holding
    <2>7. Abstract!Send(s)
      BY <2>3, <2>4, <2>5, <2>6 DEF Abstract!Send, Abstract!Goto
    <2> QED BY <2>7 DEF Abstract!Next
  <1>5. CASE PrepareFail(s) \/ NoResponse(s)
    <2>1. Return(s, "failed") /\ call[s].pc # "idle"
      BY <1>5 DEF PrepareFail, NoResponse
    <2> QED BY <2>1, ReturnEnds
  <1>6. CASE Post(s)
    <2>1. call[s].pc = "post" /\ IF call[s].wait THEN Goto(s, "get") ELSE Return(s, "ok")
      BY <1>6 DEF Post
    <2>2. CASE call[s].wait
      BY <1>2, <2>1, <2>2
    <2>3. CASE ~call[s].wait
      BY <2>1, <2>3, ReturnEnds
    <2> QED BY <2>2, <2>3
  <1>7. CASE Accept(s)
    <2>1. call[s].served /\ Return(s, "ok") /\ call[s].pc = "sleep"
      BY <1>7, AcceptsOwn DEF Accept
    <2> QED BY <2>1, ReturnEnds
  <1>8. CASE Expire(s)
    <2> DEFINE p == call[s].pc
    <2>1. p \in {"get", "sleep"} /\ call' = [call EXCEPT ![s] = [@ EXCEPT !.pc = p, !.expired = TRUE]]
      BY <1>0, <1>8 DEF Expire, CallRec
    <2>2. call[s].pc \in {"post", "get", "sleep"}
      BY <2>1
    <2> HIDE DEF p
    <2> QED BY <1>1, <2>1, <2>2
  <1> QED BY <1>3, <1>4, <1>5, <1>6, <1>7, <1>8 DEF Send

(* The firmware serves a call only if the call still holds the mutex: then *)
(* the message is its own.                                                 *)
LEMMA ServeImplements ==
  ASSUME IInv, FwServe
  PROVE  [Abstract!Next]_(Abstract!vars)
  <1> DEFINE h == Head(ring)
             Own(s) == call[s].id = h.id
  <1>1. h.id # 0
    <2>1. ring \in Seq(Message) /\ ring # <<>>
      BY DEF IInv, TypeOK, FwServe
    <2> QED BY <2>1, Taken, OnTheWay
  <1>2. call' = [s \in Senders |-> [call[s] EXCEPT !.served = @ \/ call[s].id = h.id]]
    BY DEF FwServe
  <1> HIDE DEF h
  <1>3. \A s \in Senders :
          /\ call'[s].pc = call[s].pc /\ call'[s].wait = call[s].wait
          /\ call'[s].result = call[s].result
          /\ call'[s].served <=> call[s].served \/ Own(s)
    <2> SUFFICES ASSUME NEW s \in Senders
                 PROVE  /\ call'[s].pc = call[s].pc /\ call'[s].wait = call[s].wait
                        /\ call'[s].result = call[s].result
                        /\ call'[s].served <=> call[s].served \/ Own(s)
      OBVIOUS
    <2> DEFINE b == call[s].served \/ Own(s)
    <2>1. call'[s] = [call[s] EXCEPT !.served = b] /\ call[s] \in CallRec(drawn)
      BY <1>2, AtWork
    <2> HIDE DEF b
    <2>2. /\ call'[s].pc = call[s].pc /\ call'[s].wait = call[s].wait
          /\ call'[s].result = call[s].result /\ call'[s].served = b
      BY <2>1 DEF CallRec
    <2> QED BY <2>2 DEF b
  <1>4. Waits' = Waits /\ Results' = Results
    BY <1>3 DEF Waits, Results
  <1>5. \A s \in Senders : Own(s) => call[s].pc \in {"post", "get", "sleep"}
    <2> SUFFICES ASSUME NEW s \in Senders, Own(s)
                 PROVE  call[s].pc \in {"post", "get", "sleep"}
      OBVIOUS
    <2>1. Shape(s) /\ call[s] \in CallRec(drawn)
      BY AtWork
    <2> QED BY <1>1, <2>1 DEF Shape, CallRec, Pcs
  <1> HIDE DEF Own
  <1>6. Stages' = [s \in Senders |-> StageOf(call'[s])]
    BY DEF Stages, StageOf
  <1>7. CASE \E s \in Senders : Own(s) /\ ~call[s].served
    <2>1. PICK s \in Senders : Own(s) /\ ~call[s].served
      BY <1>7
    <2>2. call[s].pc \in {"post", "get", "sleep"}
      BY <1>5, <2>1
    <2>3. Stages[s] = "sent" /\ StageOf(call'[s]) = "served"
      BY <1>3, <2>1, <2>2 DEF StageOf, Stages
    <2>4. \A o \in Senders \ {s} : StageOf(call'[o]) = StageOf(call[o])
      <3> SUFFICES ASSUME NEW o \in Senders, o # s
                   PROVE  StageOf(call'[o]) = StageOf(call[o])
        OBVIOUS
      <3>1. ~Own(o)
        BY <1>5, <2>2, OneInFlight DEF Holding
      <3> QED BY <1>3, <3>1 DEF StageOf
    <2>5. Stages' = [Stages EXCEPT ![s] = "served"]
      BY <1>6, <2>3, <2>4 DEF Stages
    <2>6. Abstract!Serve(s)
      BY <1>4, <2>3, <2>5 DEF Abstract!Serve, Abstract!Goto
    <2> QED BY <2>6 DEF Abstract!Next
  <1>8. CASE ~\E s \in Senders : Own(s) /\ ~call[s].served
    <2>1. \A o \in Senders : StageOf(call'[o]) = StageOf(call[o])
      BY <1>3, <1>8 DEF StageOf
    <2>2. Stages' = Stages
      BY <1>6, <2>1 DEF Stages
    <2> QED BY <1>4, <2>2 DEF Abstract!vars
  <1> QED BY <1>7, <1>8

LEMMA NextImplements == IInv /\ [Next]_vars => [Abstract!Next]_(Abstract!vars)
  <1> SUFFICES ASSUME IInv, [Next]_vars PROVE [Abstract!Next]_(Abstract!vars)
    OBVIOUS
  <1>0. Reset \in Senders /\ Callers \subseteq Senders
    BY DEF Senders
  <1>1. ASSUME NEW s \in Callers, NEW w \in BOOLEAN, Start(s, w)
        PROVE  Abstract!Next
    BY <1>0, <1>1, BeginCalls DEF Start
  <1>2. ASSUME NEW w \in BOOLEAN, RsConnect(w)
        PROVE  Abstract!Next
    BY <1>0, <1>2, BeginCalls DEF RsConnect
  <1>3. CASE RsCall
    <2>1. call[Reset].pc = "idle" /\ call' = [call EXCEPT ![Reset] = Begun(TRUE)]
      BY <1>3 DEF RsCall, RsGoto, IInv, Resetting
    <2> QED BY <1>0, <2>1, BeginCalls
  <1>4. CASE FwEvent \/ FwHang \/ RxEvent \/ RsStart \/ RsLock \/ UNCHANGED vars
    <2>1. call' = call
      BY <1>4 DEF FwEvent, FwHang, RxEvent, RsStart, RsLock, vars
    <2> QED BY <2>1, SameCalls
  <1>5. CASE RsFlag \/ RsDma \/ RsClear \/ RsFail \/ RsDone \/ RsEnd \/ RsConnected
    <2>1. call' = call
      BY <1>5 DEF RsFlag, RsDma, RsClear, RsFail, RsDone, RsEnd, RsConnected
    <2> QED BY <2>1, SameCalls
  <1> QED
    BY <1>1, <1>2, <1>3, <1>4, <1>5, SendImplements, ServeImplements DEF Next, RsRun

LEMMA InitImplements == Init => Abstract!Init
  <1> SUFFICES ASSUME Init PROVE Abstract!Init
    OBVIOUS
  <1>1. \A s \in Senders : /\ StageOf(call[s]) = "idle" /\ call[s].wait = FALSE
                           /\ call[s].result = "none"
    BY DEF Init, Idle, StageOf
  <1> QED BY <1>1 DEF Abstract!Init, Stages, Waits, Results

(* The calls implement McuCall: one command is in flight at a time, and a  *)
(* call that waits returns without an error only after the firmware served *)
(* it (mt76_mcu_skb_send_and_get_msg under dev->mcu.mutex).                *)
THEOREM Implements == Spec => ImplementsCall
  BY Inductive, InitImplements, NextImplements, PTL DEF Spec, ImplementsCall, Abstract!Spec

-----------------------------------------------------------------------------
(* The worker thread: __mt76_worker_fn, whoever schedules it.              *)

WorkerPcs == {"top", "park", "parked", "test", "sleep", "mark", "fn", "clear"}
Calling   == {"idle", "set", "look", "wake"}

WorkerTypeOK ==
    /\ work \in BOOLEAN /\ scheduled \in BOOLEAN /\ running \in BOOLEAN
    /\ task \in {"running", "interruptible", "parked"} /\ pc \in WorkerPcs
    /\ caller \in [Schedulers -> Calling]
    /\ ctl \in Calling \cup {"parking", "disabled"} /\ park \in BOOLEAN

(* MT76_WORKER_RUNNING is set exactly around w->fn, so a caller that sees  *)
(* it has the loop's next test of MT76_WORKER_SCHEDULED still before it.   *)
RunningBit == running <=> pc \in {"fn", "clear"}

(* The thread stays parked until kthread_unpark.                           *)
Parking == /\ park <=> ctl \in {"parking", "disabled"}
           /\ ctl = "disabled" => pc = "parked"

WorkerInv == WorkerTypeOK /\ RunningBit /\ Parking /\ NoLostWake /\ WorkAnnounced

-----------------------------------------------------------------------------
(* A loaded driver has an idle worker and nothing to send.                 *)
LEMMA InitWorkerInv == WorkerInit => WorkerInv
  BY DEF WorkerInit, WorkerInv, WorkerTypeOK, RunningBit, Parking, NoLostWake, WorkAnnounced,
         WorkerPcs, Calling

(* The steps of __mt76_worker_fn keep the invariant.                       *)
LEMMA ThreadPreserves == WorkerInv /\ Thread => WorkerInv'
  <1> SUFFICES ASSUME WorkerInv, Thread PROVE WorkerInv'  OBVIOUS
  <1> USE DEF WorkerInv, WorkerTypeOK, RunningBit, Parking, NoLostWake, WorkAnnounced,
              Waking, WorkerPcs, Calling
  <1>1. CASE SetInterruptible   BY <1>1 DEF SetInterruptible
  <1>2. CASE CheckPark BY <1>2 DEF CheckPark
  <1>3. CASE Unparked  BY <1>3 DEF Unparked
  <1>4. CASE Test      BY <1>4 DEF Test
  <1>5. CASE Awake     BY <1>5 DEF Awake
  <1>6. CASE Mark      BY <1>6 DEF Mark
  <1>7. CASE Fn        BY <1>7 DEF Fn
  <1>8. CASE Clear     BY <1>8 DEF Clear
  <1> QED BY <1>1, <1>2, <1>3, <1>4, <1>5, <1>6, <1>7, <1>8 DEF Thread

(* mt76_worker_schedule keeps the invariant in every context.              *)
LEMMA CallerPreserves ==
  ASSUME WorkerInv, NEW c \in Schedulers, PostWork(c) \/ Schedule(c)
  PROVE  WorkerInv'
  <1> USE DEF WorkerInv, WorkerTypeOK, RunningBit, Parking, NoLostWake, WorkAnnounced,
              Waking, Woken, WorkerPcs, Calling
  <1>1. CASE PostWork(c)         BY <1>1 DEF PostWork
  <1>2. CASE SetScheduled(c) BY <1>2 DEF SetScheduled
  <1>3. CASE Look(c)         BY <1>3 DEF Look
  <1>4. CASE Wake(c)         BY <1>4 DEF Wake
  <1> QED BY <1>1, <1>2, <1>3, <1>4 DEF Schedule

(* mt76_worker_disable and mt76_worker_enable keep the invariant.          *)
LEMMA ControllerPreserves == WorkerInv /\ (Park \/ Controller) => WorkerInv'
  <1> SUFFICES ASSUME WorkerInv, Park \/ Controller PROVE WorkerInv'  OBVIOUS
  <1> USE DEF WorkerInv, WorkerTypeOK, RunningBit, Parking, NoLostWake, WorkAnnounced,
              Waking, Woken, WorkerPcs, Calling
  <1>1. CASE Park       BY <1>1 DEF Park
  <1>2. CASE Disable    BY <1>2 DEF Disable
  <1>3. CASE Unpark     BY <1>3 DEF Unpark
  <1>4. CASE EnableSet  BY <1>4 DEF EnableSet
  <1>5. CASE EnableLook BY <1>5 DEF EnableLook
  <1>6. CASE EnableWake BY <1>6 DEF EnableWake
  <1> QED BY <1>1, <1>2, <1>3, <1>4, <1>5, <1>6 DEF Controller

(* The invariant holds throughout.                                         *)
THEOREM WorkerInductive == WorkerSpec => []WorkerInv
  <1>1. WorkerInv /\ [WorkerNext]_workerVars => WorkerInv'
    <2> SUFFICES ASSUME WorkerInv, [WorkerNext]_workerVars PROVE WorkerInv'  OBVIOUS
    <2>1. CASE UNCHANGED workerVars
      BY <2>1 DEF workerVars, WorkerInv, WorkerTypeOK, RunningBit, Parking, NoLostWake,
                  WorkAnnounced, Waking
    <2> QED BY <2>1, ThreadPreserves, CallerPreserves, ControllerPreserves DEF WorkerNext
  <1> QED BY InitWorkerInv, <1>1, PTL DEF WorkerSpec

(* No wake-up is lost (mt76_worker_schedule against __mt76_worker_fn).     *)
THEOREM NoLostWakeHolds == WorkerSpec => []NoLostWake
  <1>1. WorkerInv => NoLostWake  BY DEF WorkerInv
  <1> QED BY <1>1, WorkerInductive, PTL

(* Work that waits for w->fn is announced, whoever disables the worker.    *)
THEOREM WorkAnnouncedHolds == WorkerSpec => []WorkAnnounced
  <1>1. WorkerInv => WorkAnnounced  BY DEF WorkerInv
  <1> QED BY <1>1, WorkerInductive, PTL

(* Together: scheduling the worker is never in vain.                       *)
THEOREM ScheduleKeptHolds == WorkerSpec => []ScheduleKept
  <1>1. NoLostWake /\ WorkAnnounced => ScheduleKept  BY DEF ScheduleKept
  <1> QED BY <1>1, NoLostWakeHolds, WorkAnnouncedHolds, PTL

(* w->fn does not run between mt76_worker_disable and mt76_worker_enable.  *)
THEOREM DisabledQuietHolds == WorkerSpec => []DisabledQuiet
  <1>1. WorkerInv => DisabledQuiet  BY DEF WorkerInv, RunningBit, Parking, DisabledQuiet
  <1> QED BY <1>1, WorkerInductive, PTL
=============================================================================
