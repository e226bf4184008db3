----------------------------- MODULE TablesProofs -----------------------------
(***************************************************************************)
(* Theorems about what the firmware has been told of interfaces and        *)
(* stations (FwTables): driver and firmware agree on the numbers, and what *)
(* a reset made the firmware forget it is told again.                      *)
(*                                                                         *)
(* They need the invariant of the device's life (DriverProofs): when a     *)
(* reset is due, who has the mutex, where the firmware may forget.         *)
(***************************************************************************)
EXTENDS DriverProofs, SequenceTheorems, FiniteSetTheorems, WellFoundedInduction
-----------------------------------------------------------------------------
(* Commands about an interface, the one of them that awaits no answer,     *)
(* commands about a station, and the names of operations.                  *)
VifCmds == [what : {"dev", "bss", "own", "beacon"}, at : Indices, who : Vifs, on : BOOLEAN]
PmCmds == [what : {"pm"}, at : Indices, who : Vifs, on : BOOLEAN]
PeerCmds == [what : {"rec", "key", "ba"}, at : 1 .. Records, who : Peers, on : BOOLEAN]
Cmds == VifCmds \union PmCmds \union PeerCmds
Names == {"none", "failed", "add", "remove", "start", "beacon", "stop", "sta add", "assoc",
          "sta remove", "key", "ampdu"}

(* Types of a station of mac80211 and of an entry of the firmware's table. *)
PeerSet == [st : {"off", "none", "assoc"}, wcid : {Gone} \union 1 .. Records,
            vif : Vifs \union {NoVif}]
RecSet == [on : BOOLEAN, keys : SUBSET Peers, ba : SUBSET Peers]

(* Types of the four variables.                                            *)
DrvSet == [idx : [Vifs -> Indices \union {Gone}], started : SUBSET Aps, beacon : SUBSET Aps,
           mask : SUBSET (1 .. Records), peer : [Peers -> PeerSet]]
OpSet == [name : Names, who : Vifs \union Peers \union {NoVif},
          at : Indices \union 1 .. Records \union {Gone}, vif : Vifs \union {NoVif},
          todo : Seq(Cmds)]
IterSet == [left : SUBSET Vifs, todo : Seq(VifCmds), crossed : BOOLEAN,
            refused : SUBSET VifEntries]
FwSet == [dev : [Indices -> Vifs \union {NoVif}],
          bss : [Indices -> SUBSET {"bss", "own", "beacon"}],
          rec : [1 .. Records -> RecSet]]

(* What is left of a list when its head is taken.                          *)
LEMMA HeadTail ==
  ASSUME NEW S, NEW s \in Seq(S), s # <<>>
  PROVE  /\ Head(s) \in S /\ Tail(s) \in Seq(S) /\ Head(s) \in Range(s)
         /\ Range(Tail(s)) \subseteq Range(s) /\ Range(s) \subseteq {Head(s)} \union Range(Tail(s))
  <1>1. Len(s) \in Nat \ {0} /\ Head(s) \in S /\ Tail(s) \in Seq(S)
    BY EmptySeq, HeadTailProperties
  <1>2. Head(s) = s[1] /\ 1 \in 1 .. Len(s)
    BY <1>1
  <1>3. Len(Tail(s)) = Len(s) - 1 /\ \A i \in 1 .. Len(Tail(s)) : Tail(s)[i] = s[i + 1]
    BY HeadTailProperties
  <1>4. Range(s) = {s[i] : i \in 1 .. Len(s)}
        /\ Range(Tail(s)) = {Tail(s)[i] : i \in 1 .. Len(Tail(s))}
    BY <1>1, RangeEquality
  <1>5. Range(Tail(s)) \subseteq Range(s)
    <2>1. \A i \in 1 .. Len(Tail(s)) : i + 1 \in 1 .. Len(s)
      BY <1>1, <1>3
    <2> QED BY <1>3, <1>4, <2>1
  <1>6. Range(s) \subseteq {Head(s)} \union Range(Tail(s))
    <2> SUFFICES ASSUME NEW i \in 1 .. Len(s) PROVE s[i] \in {Head(s)} \union Range(Tail(s))
      BY <1>4
    <2>1. CASE i = 1
      BY <1>2, <2>1
    <2>2. CASE i # 1
      <3>1. i - 1 \in 1 .. Len(Tail(s)) /\ (i - 1) + 1 = i
        BY <1>1, <1>3, <2>2
      <3>2. s[i] = Tail(s)[i - 1]
        BY <1>3, <3>1
      <3> QED BY <1>4, <3>1, <3>2
    <2> QED BY <2>1, <2>2
  <1> QED BY <1>1, <1>2, <1>4, <1>5, <1>6

(* A list and another one after it.                                        *)
LEMMA Appended ==
  ASSUME NEW S, NEW s \in Seq(S), NEW t \in Seq(S)
  PROVE  s \o t \in Seq(S) /\ Range(s \o t) = Range(s) \union Range(t)
  BY ConcatProperties, RangeConcatenation

(* The list of none.                                                       *)
LEMMA NoList == ASSUME NEW S PROVE <<>> \in Seq(S) /\ Range(<<>>) = {}
  <1>1. <<>> \in Seq(S) /\ Len(<<>>) = 0
    OBVIOUS
  <1>2. Range(<<>>) = {<<>>[i] : i \in 1 .. Len(<<>>)}
    BY <1>1, RangeEquality
  <1> QED BY <1>1, <1>2

(* The lists of none, one and two.                                         *)
LEMMA Lists ==
  ASSUME NEW S, NEW c \in S, NEW d \in S
  PROVE  /\ <<>> \in Seq(S) /\ <<c>> \in Seq(S) /\ <<c, d>> \in Seq(S)
         /\ Range(<<>>) = {} /\ Range(<<c>>) = {c} /\ Range(<<c, d>>) = {c, d}
  <1>1. <<>> \in Seq(S) /\ <<c>> \in Seq(S) /\ <<c, d>> \in Seq(S)
    OBVIOUS
  <1>2. Range(<<>>) = {<<>>[i] : i \in 1 .. Len(<<>>)}
        /\ Range(<<c>>) = {<<c>>[i] : i \in 1 .. Len(<<c>>)}
        /\ Range(<<c, d>>) = {<<c, d>>[i] : i \in 1 .. Len(<<c, d>>)}
    BY <1>1, RangeEquality
  <1>3. Len(<<>>) = 0 /\ Len(<<c>>) = 1 /\ Len(<<c, d>>) = 2 /\ <<c>>[1] = c /\ <<c, d>>[1] = c
        /\ <<c, d>>[2] = d
    OBVIOUS
  <1>4. Range(<<>>) = {} /\ Range(<<c>>) = {c}
    BY <1>2, <1>3
  <1>5. Range(<<c, d>>) = {c, d}
    BY <1>2, <1>3
  <1> QED BY <1>1, <1>4, <1>5

(* Least of a set of numbers that is not empty is one of them.             *)
LEMMA Smallest ==
  ASSUME NEW S \in SUBSET Nat, S # {}
  PROVE  Least(S) \in S
  <1>0. S \subseteq Nat
    OBVIOUS
  <1>1. PICK x \in S : \A y \in S : ~(<<y, x>> \in OpToRel(<, Nat))
    BY NatLessThanWellFounded, WFMin
  <1>2. \A y \in S : ~(y < x)
    BY <1>0, <1>1 DEF OpToRel
  <1>3. \A y \in S : x <= y
    BY <1>0, <1>2
  <1> QED BY <1>3 DEF Least

(* mt7921_add_interface finds a free number as long as an interface is     *)
(* left to add: there are as many numbers as interfaces, and two           *)
(* interfaces would share one otherwise.                                   *)
LEMMA FreeIndex ==
  ASSUME NEW idx \in [Vifs -> Indices \union {Gone}], NEW v \in Vifs, idx[v] = Gone
  PROVE  Least(Indices \ {idx[u] : u \in Vifs}) \in Indices \ {idx[u] : u \in Vifs}
  <1> DEFINE used == {idx[u] : u \in Vifs}
  <1>1. IsFiniteSet(Vifs) /\ Cardinality(Vifs) \in Nat /\ Cardinality(Vifs) > 0
    <2>1. IsFiniteSet(Vifs) /\ Vifs # {}
      BY TablesAssumption
    <2> QED BY <2>1, FS_CardinalityType, FS_EmptySet
  <1>2. IsFiniteSet(Indices) /\ Cardinality(Indices) = Cardinality(Vifs) /\ Indices \subseteq Nat
    <2> DEFINE n == Cardinality(Vifs)
    <2>1. n \in Nat /\ n > 0 /\ Indices = 0 .. n - 1
      BY <1>1 DEF Indices
    <2> HIDE DEF n
    <2>2. 0 \in Int /\ n - 1 \in Int /\ ~(0 > n - 1) /\ (n - 1) - 0 + 1 = n
      BY <2>1
    <2>3. IsFiniteSet(0 .. n - 1) /\ Cardinality(0 .. n - 1) = n
      BY <2>2, FS_Interval
    <2>4. Indices \subseteq Nat
      BY <2>1
    <2> QED BY <2>1, <2>3, <2>4 DEF n
  <1>3. IsFiniteSet(Vifs \ {v}) /\ Cardinality(Vifs \ {v}) < Cardinality(Indices)
    <2>1. Cardinality(Vifs) - 1 < Cardinality(Vifs)
      BY <1>1
    <2> QED BY <1>1, <1>2, <2>1, FS_RemoveElement
  <1>4. Gone \notin Indices
    BY <1>1 DEF Indices, Gone
  <1>5. Indices \ used # {}
    <2> SUFFICES ASSUME Indices \ used = {} PROVE FALSE
      OBVIOUS
    <2> DEFINE f == [i \in Indices |-> CHOOSE u \in Vifs \ {v} : idx[u] = i]
    <2>1. \A i \in Indices : f[i] \in Vifs \ {v} /\ idx[f[i]] = i
      <3> SUFFICES ASSUME NEW i \in Indices PROVE \E u \in Vifs \ {v} : idx[u] = i
        OBVIOUS
      <3>1. PICK u \in Vifs : idx[u] = i
        OBVIOUS
      <3>2. u # v
        BY <1>4, <3>1
      <3> QED BY <3>1, <3>2
    <2>2. f \in [Indices -> Vifs \ {v}]
      BY <2>1
    <2> HIDE DEF f
    <2>3. \E i, j \in Indices : i # j /\ f[i] = f[j]
      <3> DEFINE T == Vifs \ {v}
      <3>1. IsFiniteSet(Indices) /\ IsFiniteSet(T) /\ Cardinality(T) < Cardinality(Indices)
            /\ f \in [Indices -> T]
        BY <1>2, <1>3, <2>2
      <3> HIDE DEF T
      <3> QED BY ONLY <3>1, FS_PigeonHole
    <2> QED BY <2>1, <2>3
  <1>6. Indices \ used \in SUBSET Nat
    BY <1>2
  <1> QED BY <1>5, <1>6, Smallest
-----------------------------------------------------------------------------
(* The places of the reset that hold dev->mutex.                           *)
Owned == {"own", "worker", "rx", "tx", "dma", "open", "down", "load", "start", "out"}

(* Who has the device mutex: the reset between its lock and its end, the   *)
(* regulatory update, a stay off channel, or an operation of mac80211. The *)
(* last runs only on a registered device that is awake.                    *)
Locks ==
    /\ work.at \in Owned => mutex = "reset"
    /\ regd \in {"update", "unlock"} => mutex = "regd"
    /\ task \in {"roc", "abort sync"} => mutex = "mac" /\ op = NoOp
    /\ op # NoOp => mutex = "mac" /\ done /\ pm = "up" /\ removal \in Here

(* A step of the device's life takes the mutex for itself only, and takes  *)
(* it from nobody.                                                         *)
LEMMA LocksLife ==
  ASSUME LifeTypes, Shape, Locks, LifeNext
  PROVE  /\ work'.at \in Owned => mutex' = "reset"
         /\ regd' \in {"update", "unlock"} => mutex' = "regd"
         /\ mutex = "mac" => mutex' = "mac"
  <1>0. work \in WorkSet
    BY DEF LifeTypes
  <1> USE <1>0
  <1>1. CASE UNCHANGED <<mutex, regd>> /\ (work'.at \in Owned => work.at \in Owned)
    BY <1>1 DEF Locks
  <1>2. UNCHANGED work \/ AskReset \/ work' = Queue => (work'.at \in Owned => work.at \in Owned)
    BY Asks
  <1>3. CASE Load \/ ReportTest \/ ReportQueue \/ Doze \/ WakeUp
    BY <1>1, <1>2, <1>3 DEF Load, lifevars, ReportTest, ReportQueue, Doze, WakeUp, DrvOwn
  <1>4. CASE RegdStep
    <2>1. work'.at = work.at
      BY <1>4, Asks DEF RegdStep, RegdTest, RegdMark, RegdLock, RegdUpdate, RegdDone
    <2> QED BY <1>4, <2>1 DEF RegdStep, RegdTest, RegdMark, RegdLock, RegdUpdate, RegdDone, Locks
  <1>5. CASE SuspendStep \/ ResumeStep
    BY <1>1, <1>2, <1>5 DEF SuspendStep, SuspendBegin, SuspendFlush, SuspendCancel, SuspendOwn,
        SuspendRegd, SuspendLate, SuspendHif, SuspendTx, SuspendRx, SuspendDma, SuspendFw,
        SuspendUnhif, SuspendEnd, ResumeStep, ResumeOwn, ResumeHw, ResumeNapi, ResumeHif,
        ResumeUpdate, ResumeEnd, Asleep, DrvOwn
  <1>6. CASE ResetStep
    <2>0. UNCHANGED regd
      BY <1>6 DEF ResetStep, ResetBegin, ResetLock, ResetOwn, ResetWorker, ResetRx, ResetTx,
          ResetDma, ResetOpen, ResetDown, ResetLoaded, ResetStart, ResetOut, ResetEnd, ResetClear,
          ResetIfaces, Resetting
    <2>1. CASE ResetBegin \/ ResetEnd \/ ResetClear \/ ResetIfaces
      <3>1. work'.at \notin Owned /\ UNCHANGED mutex
        BY <2>1 DEF ResetBegin, ResetEnd, ResetClear, ResetIfaces, At, Idle, WorkSet, Owned,
            Resetting
      <3> QED BY <2>0, <3>1, <1>1
    <2>2. CASE ResetLock
      BY <2>0, <2>2 DEF ResetLock, Locks
    <2>3. CASE ResetOwn \/ ResetWorker \/ ResetRx \/ ResetTx \/ ResetDma \/ ResetOpen
      <3>1. work.at \in Owned /\ UNCHANGED mutex
        BY <2>3 DEF ResetOwn, ResetWorker, ResetRx, ResetTx, ResetDma, ResetOpen, Owned, Resetting
      <3> QED BY <2>0, <3>1, <1>1
    <2>4. CASE ResetDown \/ ResetLoaded \/ ResetStart
      <3>1. work.at \in Owned /\ UNCHANGED mutex
        BY <2>4 DEF ResetDown, ResetLoaded, ResetStart, Owned, Resetting
      <3> QED BY <2>0, <3>1, <1>1
    <2>5. CASE ResetOut
      <3>1. work.at = "out" /\ mutex' = "free" /\ work'.at \notin Owned
        BY <2>5 DEF ResetOut, At, Again, WorkSet, Owned
      <3> QED BY <2>0, <3>1 DEF Locks, Owned
    <2> QED BY <1>6, <2>1, <2>2, <2>3, <2>4, <2>5 DEF ResetStep
  <1>7. CASE InitStep
    BY <1>1, <1>2, <1>7 DEF InitStep, InitOwn, InitLoaded, InitConfig, InitReset, InitRegister,
        InitFinish, Starting
  <1>8. CASE RemoveStep
    <2>1. work'.at = work.at
      BY <1>8 DEF RemoveStep, RemoveBegin, RemoveInit, RemoveUnregister, RemoveNapi, RemoveCancel,
          RemoveOwn, RemoveFree, Next1, WorkSet
    <2> QED BY <1>1, <1>8, <2>1 DEF RemoveStep, RemoveBegin, RemoveInit, RemoveUnregister,
        RemoveNapi, RemoveCancel, RemoveOwn, RemoveFree, Removing
  <1> QED BY <1>3, <1>4, <1>5, <1>6, <1>7, <1>8 DEF LifeNext

(* Locks is inductive.                                                     *)
LEMMA LocksStep ==
  ASSUME LifeTypes, Shape, Locks, TabNext
  PROVE  Locks'
  <1>0. work \in WorkSet
    BY DEF LifeTypes
  <1>1. CASE LifeNext /\ Along
    <2>1. UNCHANGED <<op, task>> /\ (Quiesce => op = NoOp)
      BY <1>1 DEF Along, TabAlong
    <2>2. op # NoOp => done' /\ pm' = "up" /\ removal' \in Here
      BY <1>1, <2>1, Moves DEF Locks
    <2> QED BY <1>1, <2>1, <2>2, LocksLife DEF Locks
  <1>2. CASE Outside /\ UNCHANGED op /\ UNCHANGED <<mutex, task>>
    <2>1. work'.at = work.at
      BY <1>0, <1>2, Asks DEF Outside
    <2> QED BY <1>2, <2>1 DEF Locks, Outside
  <1>3. CASE (RocStep \/ ScanStep) /\ TabAlong
    <2>1. UNCHANGED <<regd, work, pm, done, removal, op>>
      BY <1>3 DEF RocStep, SetRoc, SetRocGranted, SetRocTimeout, GrantEvent, GrantArm, GrantNever,
          TimerFires, RocWork, RocWorkAbort, AbortTimer, AbortWork, AbortClear, AbortSync,
          AbortSynced, RocReturns, OnlyRoc, OnlyEvents, lifevars, ScanStep, HwScan, ScanDone,
          ScanWork, CancelScan, OnlyScan, TabAlong
    <2>2. \/ UNCHANGED mutex /\ (UNCHANGED task \/ task' \notin {"roc", "abort sync"})
          \/ mutex = "free" /\ mutex' = "mac"
          \/ task \in {"roc", "abort sync"} /\ task' = "idle" /\ mutex' = "free"
      BY <1>3 DEF RocStep, SetRoc, SetRocGranted, SetRocTimeout, GrantEvent, GrantArm, GrantNever,
          TimerFires, RocWork, RocWorkAbort, AbortTimer, AbortWork, AbortClear, AbortSync,
          AbortSynced, RocReturns, OnlyRoc, OnlyEvents, lifevars, ScanStep, HwScan, ScanDone,
          ScanWork, CancelScan, OnlyScan
    <2> QED BY <2>1, <2>2 DEF Locks, Owned
  <1>4. ASSUME NEW name, NEW who, NEW at, NEW v, NEW todo, Begin(name, who, at, v, todo)
        PROVE  Locks'
    <2>1. UNCHANGED <<regd, work, pm, done, removal, task>> /\ mutex = "free" /\ mutex' = "mac"
          /\ Calm
      BY <1>4 DEF Begin, OnlyTables, offvars
    <2> QED BY <2>1 DEF Locks, Calm, Here, Owned
  <1>5. CASE \E v \in Vifs : AddInterface(v) \/ RemoveInterface(v) \/ StartAp(v)
             \/ EnableBeacon(v) \/ StopAp(v)
    BY <1>4, <1>5 DEF AddInterface, RemoveInterface, StartAp, EnableBeacon, StopAp
  <1>6. CASE \E p \in Peers : \/ \E v \in Vifs : StaAdd(p, v)
                              \/ StaAssoc(p) \/ StaRemove(p)
                              \/ \E on \in BOOLEAN : SetKey(p, on) \/ Ampdu(p, on)
    BY <1>4, <1>6 DEF StaAdd, StaAssoc, StaRemove, SetKey, Ampdu
  <1>7. CASE Command
    <2>1. UNCHANGED <<regd, pm, done, removal, task, mutex>> /\ (UNCHANGED work \/ AskReset)
          /\ op # NoOp
      BY <1>7 DEF Command, OnlyTables, offvars, Understood, Posted, Refused, Ignored, NoOp
    <2>2. work'.at = work.at
      BY <1>0, <2>1, Asks
    <2> QED BY <2>1, <2>2 DEF Locks
  <1>8. CASE Return
    <2>1. UNCHANGED <<regd, work, pm, done, removal, task>> /\ op # NoOp /\ op' = NoOp
          /\ mutex' = "free"
      BY <1>8 DEF Return, OnlyTables, offvars
    <2> QED BY <2>1 DEF Locks, Owned
  <1>9. CASE IterNext \/ IterCommand
    BY <1>2, <1>9, Ways DEF IterNext, IterCommand, OnlyTables, offvars, Outside, Understood,
        Refused, Ignored, Answered, Unanswered
  <1> QED BY <1>1, <1>3, <1>5, <1>6, <1>7, <1>8, <1>9 DEF TabNext, OffNext, Operation, Along

(* The firmware forgets between operations: the reset has the mutex.       *)
LEMMA ForgetsIdle ==
  ASSUME LifeTypes, Shape, Locks, LifeNext, Along, Forgets
  PROVE  op = NoOp /\ op' = NoOp
  <1>1. op' = op
    BY DEF Along, TabAlong
  <1>2. ~done \/ removal = "free" \/ work'.at \in {"open", "load"}
    BY Forget
  <1>3. op # NoOp => mutex = "mac" /\ mutex' = "mac" /\ removal \in Here
    BY LocksLife DEF Locks
  <1>4. work'.at \in {"open", "load"} => mutex' = "reset"
    BY LocksLife DEF Owned
  <1>5. ~done => op = NoOp
    BY DEF Locks
  <1> QED BY <1>1, <1>2, <1>3, <1>4, <1>5 DEF Here
-----------------------------------------------------------------------------
(* A command about what the operation is about, and one about the BSS of   *)
(* the station's interface.                                                *)
Mine(what, on) == Cmd(what, op.at, op.who, on)
OfVif(on) == Cmd("bss", drv.idx[op.vif], op.vif, on)

(* The commands an operation may still have to send.                       *)
Allowed(c) ==
    \/ op.name = "add" /\ c = Mine("dev", TRUE)
    \/ op.name = "remove" /\ c = Mine("dev", FALSE)
    \/ op.name = "start" /\ c \in {Mine("bss", TRUE), Mine("pm", TRUE), Mine("own", TRUE)}
    \/ op.name = "beacon" /\ c = Mine("beacon", TRUE)
    \/ op.name = "stop" /\ c \in {Mine("pm", FALSE), Mine("bss", FALSE)}
    \/ op.name = "sta add" /\ c = Mine("rec", TRUE)
    \/ op.name \in {"assoc", "sta remove"} /\ \E on \in BOOLEAN : c = Mine("rec", on)
       \/ (op.vif \in Stas /\ c = OfVif(on))
    \/ op.name = "key" /\ \E on \in BOOLEAN : c = Mine("key", on)
    \/ op.name = "ampdu" /\ \E on \in BOOLEAN : c = Mine("ba", on)

(* Operations on an interface, and on a station that is there.             *)
VifOps == {"add", "remove", "start", "beacon", "stop"}
PeerOps == {"assoc", "sta remove", "key", "ampdu"}

(* What an operation under way relies on: mac80211 and the mutex keep what *)
(* it was begun with as it was, whatever else happens between its          *)
(* commands. The number for a new interface stays free, the one of an old  *)
(* one is still its own, and the entry taken for a new station is          *)
(* nobody's.                                                               *)
OpShape ==
    /\ \A c \in Range(op.todo) : Allowed(c)
    /\ op.name \in VifOps => op.who \in Vifs /\ op.at \in Indices
    /\ op.name = "add" => drv.idx[op.who] = Gone /\ \A u \in Vifs : drv.idx[u] # op.at
    /\ op.name \in VifOps \ {"add"} => op.at = drv.idx[op.who]
    /\ op.name = "remove" => op.who \notin drv.started /\ \A p \in Peers : drv.peer[p].vif # op.who
    /\ op.name = "start" => op.who \in Aps
    /\ op.name = "stop" => op.who \notin drv.started
    /\ op.name = "sta add" =>
          /\ op.who \in Peers /\ ~Present(op.who) /\ op.vif \in Vifs /\ drv.idx[op.vif] \in Indices
          /\ op.at \in drv.mask /\ \A p \in Peers : Present(p) => drv.peer[p].wcid # op.at
    /\ op.name \in PeerOps =>
          /\ op.who \in Peers /\ Present(op.who) /\ drv.peer[op.who].wcid = op.at
          /\ op.at \in 1 .. Records /\ op.vif \in Vifs /\ drv.idx[op.vif] \in Indices

(* The driver's view: no two interfaces share a number and no two stations *)
(* an entry; access points are started on interfaces that are there, and   *)
(* beacon only when started; nothing is there before the start-up is over. *)
DrvShape ==
    /\ \A v, u \in Vifs : v # u /\ drv.idx[v] = drv.idx[u] => drv.idx[v] = Gone
    /\ drv.started \subseteq Added /\ drv.beacon \subseteq drv.started
    /\ \A p \in Peers : Present(p) => drv.peer[p].wcid \in drv.mask /\ drv.peer[p].vif \in Added
    /\ \A p, q \in Peers : p # q /\ Present(p) /\ Present(q) => drv.peer[p].wcid # drv.peer[q].wcid
    /\ ~done => Added = {} /\ \A p \in Peers : ~Present(p)

(* Both of them, and the types.                                            *)
OpDrv == drv \in DrvSet /\ op \in OpSet /\ OpShape /\ DrvShape

(* Cmd makes commands.                                                     *)
LEMMA Vocabulary ==
  /\ \A what \in {"dev", "bss", "own", "beacon"}, i \in Indices, v \in Vifs, on \in BOOLEAN :
         Cmd(what, i, v, on) \in VifCmds
  /\ \A i \in Indices, v \in Vifs, on \in BOOLEAN : Cmd("pm", i, v, on) \in PmCmds
  /\ \A what \in {"rec", "key", "ba"}, w \in 1 .. Records, p \in Peers, on \in BOOLEAN :
         Cmd(what, w, p, on) \in PeerCmds
  /\ VifCmds \subseteq Cmds /\ PmCmds \subseteq Cmds /\ PeerCmds \subseteq Cmds
  BY DEF Cmd, VifCmds, PmCmds, PeerCmds, Cmds

(* What numbers and interfaces are not.                                    *)
LEMMA Gones == Gone \notin Indices /\ Gone \notin 1 .. Records /\ NoVif \notin Vifs
  /\ Aps \subseteq Vifs /\ Stas \subseteq Vifs
               /\ \A v \in Stas : v \notin Aps
  <1>1. Gone \notin Indices /\ Gone \notin 1 .. Records
    BY TablesAssumption DEF Gone, Indices
  <1> QED BY <1>1, TablesAssumption DEF Vifs

(* A list of one, on its own.                                              *)
LEMMA One == ASSUME NEW S, NEW c \in S PROVE <<c>> \in Seq(S) /\ Range(<<c>>) = {c}
  BY Lists

LEMMA None == ASSUME NEW S PROVE <<>> \in Seq(S) /\ Range(<<>>) = {}
  <1>1. <<>> \in Seq(S)
    OBVIOUS
  <1>2. Range(<<>>) = {}
    <2>1. 1 \in {1}
      OBVIOUS
    <2> QED BY <2>1, Lists
  <1> QED BY <1>1, <1>2

LEMMA Two ==
  ASSUME NEW S, NEW c \in S, NEW d \in S
  PROVE  <<c, d>> \in Seq(S) /\ Range(<<c, d>>) = {c, d}
  <1>1. <<c, d>> \in Seq(S) /\ Len(<<c, d>>) = 2 /\ <<c, d>>[1] = c /\ <<c, d>>[2] = d
    OBVIOUS
  <1>2. Range(<<c, d>>) = {<<c, d>>[i] : i \in 1 .. Len(<<c, d>>)}
    BY <1>1, RangeEquality
  <1> QED BY <1>1, <1>2

LEMMA Three ==
  ASSUME NEW S, NEW c \in S, NEW d \in S, NEW e \in S
  PROVE  <<c, d, e>> \in Seq(S) /\ Range(<<c, d, e>>) = {c, d, e}
  <1>1. <<c, d, e>> \in Seq(S) /\ Len(<<c, d, e>>) = 3
        /\ <<c, d, e>>[1] = c /\ <<c, d, e>>[2] = d /\ <<c, d, e>>[3] = e
    OBVIOUS
  <1>2. Range(<<c, d, e>>) = {<<c, d, e>>[i] : i \in 1 .. Len(<<c, d, e>>)}
    BY <1>1, RangeEquality
  <1> QED BY <1>1, <1>2

(* No operation, and one that failed, have nothing to send.                *)
LEMMA NoOpTyped == NoOp \in OpSet /\ [NoOp EXCEPT !.name = "failed"] \in OpSet
  /\ NoOp.todo = <<>> /\ NoOp.name = "none"
                   /\ [NoOp EXCEPT !.name = "failed"].todo = <<>>
                      /\ [NoOp EXCEPT !.name = "failed"].name = "failed"
                   /\ Range(<<>>) = {}
  <1>1. <<>> \in Seq(Cmds)
    OBVIOUS
  <1>2. Range(<<>>) = {}
    <2>1. 1 \in {1}
      OBVIOUS
    <2> QED BY <2>1, Lists
  <1> QED BY <1>1, <1>2 DEF NoOp, OpSet, Names

(* Steps of others leave OpDrv.                                            *)
LEMMA OpDrvSame ==
  ASSUME OpDrv, UNCHANGED <<drv, op>>, done => done'
  PROVE  OpDrv'
  <1>0. op' = op /\ drv' = drv
    OBVIOUS
  <1>1. OpShape'
    <2>1. \A c \in Range(op.todo) : Allowed(c)'
      <3> SUFFICES ASSUME NEW c \in Range(op.todo) PROVE Allowed(c)'
        OBVIOUS
      <3>1. Allowed(c)
        BY DEF OpDrv, OpShape
      <3> QED BY <1>0, <3>1 DEF Allowed, Mine, OfVif
    <2> QED BY <1>0, <2>1 DEF OpDrv, OpShape, Present
  <1>2. DrvShape'
    BY DEF OpDrv, DrvShape, Added, Present
  <1> QED BY <1>1, <1>2 DEF OpDrv

(* An operation on an interface begins as OpShape says.                    *)
LEMMA OpDrvVif ==
  ASSUME OpDrv, NEW v \in Vifs,
         AddInterface(v) \/ RemoveInterface(v) \/ StartAp(v) \/ EnableBeacon(v) \/ StopAp(v)
  PROVE  OpDrv'
  <1> USE Gones DEF OpDrv
  <1>0. done' = done /\ done
    BY DEF AddInterface, RemoveInterface, StartAp, EnableBeacon, StopAp, Begin, OnlyTables, Calm
  <1>a. drv.idx[v] \in Indices \union {Gone}
    BY DEF DrvSet
  <1>1. CASE AddInterface(v)
    <2> DEFINE i == Least(Indices \ {drv.idx[u] : u \in Vifs})
               c == Cmd("dev", i, v, TRUE)
    <2>1. drv.idx[v] = Gone /\ op' = [name |-> "add", who |-> v, at |-> i, vif |-> v,
          todo |-> <<c>>] /\ UNCHANGED drv
      BY <1>1 DEF AddInterface, Begin
    <2>2. i \in Indices /\ \A u \in Vifs : drv.idx[u] # i
      BY <2>1, FreeIndex DEF DrvSet
    <2> HIDE DEF i
    <2>3. c \in Cmds /\ <<c>> \in Seq(Cmds) /\ Range(<<c>>) = {c}
      <3>1. c \in Cmds
        BY <2>2, Vocabulary
      <3> HIDE DEF c
      <3> QED BY <3>1, One
    <2>4. op'.name = "add" /\ op'.who = v /\ op'.at = i /\ op'.todo = <<c>>
      BY <2>1
    <2>5. op' \in OpSet
      BY <2>1, <2>2, <2>3 DEF OpSet, Names
    <2>6. OpShape'
      BY <2>1, <2>2, <2>3, <2>4, ZenonT(40) DEF OpShape, Allowed, Mine, VifOps, PeerOps
    <2>7. DrvShape'
      BY <2>1, <1>0 DEF DrvShape, Added, Present
    <2> QED BY <2>1, <2>5, <2>6, <2>7
  <1>2. CASE RemoveInterface(v)
    <2> DEFINE i == drv.idx[v]
               c == Cmd("dev", i, v, FALSE)
    <2>1. v \in Added \ drv.started /\ (\A p \in Peers : drv.peer[p].vif # v) /\ UNCHANGED drv
          /\ op' = [name |-> "remove", who |-> v, at |-> i, vif |-> v, todo |-> <<c>>]
      BY <1>2 DEF RemoveInterface, Begin
    <2>2. i \in Indices
      BY <1>a, <2>1 DEF Added
    <2>3. c \in Cmds /\ <<c>> \in Seq(Cmds) /\ Range(<<c>>) = {c}
      <3>1. c \in Cmds
        BY <2>2, Vocabulary
      <3> HIDE DEF c
      <3> QED BY <3>1, One
    <2>4. op'.name = "remove" /\ op'.who = v /\ op'.at = i /\ op'.todo = <<c>>
      BY <2>1
    <2>5. op' \in OpSet
      BY <2>1, <2>2, <2>3 DEF OpSet, Names
    <2>6. OpShape'
      BY <2>1, <2>2, <2>3, <2>4, ZenonT(40) DEF OpShape, Allowed, Mine, VifOps, PeerOps
    <2>7. DrvShape'
      BY <2>1, <1>0 DEF DrvShape, Added, Present
    <2> QED BY <2>1, <2>5, <2>6, <2>7
  <1>3. CASE StartAp(v)
    <2> DEFINE i == drv.idx[v]
               c == Cmd("bss", i, v, TRUE)
               d == Cmd("pm", i, v, TRUE)
               e == Cmd("own", i, v, TRUE)
    <2>1. v \in Aps /\ v \in Added \ drv.started /\ UNCHANGED drv
          /\ op' = [name |-> "start", who |-> v, at |-> i, vif |-> v, todo |-> <<c, d, e>>]
      BY <1>3 DEF StartAp, Begin
    <2>2. i \in Indices
      BY <1>a, <2>1 DEF Added
    <2>3. c \in Cmds /\ d \in Cmds /\ e \in Cmds /\ <<c, d, e>> \in Seq(Cmds)
          /\ Range(<<c, d, e>>) = {c, d, e}
      <3>1. c \in Cmds /\ d \in Cmds /\ e \in Cmds
        BY <2>2, Vocabulary
      <3> HIDE DEF c, d, e
      <3> QED BY <3>1, Three
    <2>4. op'.name = "start" /\ op'.who = v /\ op'.at = i /\ op'.todo = <<c, d, e>>
      BY <2>1
    <2>5. op' \in OpSet
      BY <2>1, <2>2, <2>3 DEF OpSet, Names
    <2>6. OpShape'
      BY <2>1, <2>2, <2>3, <2>4, ZenonT(40) DEF OpShape, Allowed, Mine, VifOps, PeerOps
    <2>7. DrvShape'
      BY <2>1, <1>0 DEF DrvShape, Added, Present
    <2> QED BY <2>1, <2>5, <2>6, <2>7
  <1>4. CASE EnableBeacon(v)
    <2> DEFINE i == drv.idx[v]
               c == Cmd("beacon", i, v, TRUE)
    <2>1. v \in drv.started /\ drv' = [drv EXCEPT !.beacon = @ \union {v}]
          /\ op' = [name |-> "beacon", who |-> v, at |-> i, vif |-> v, todo |-> <<c>>]
      BY <1>4 DEF EnableBeacon, Begin
    <2>2. i \in Indices /\ v \in Aps
      BY <1>a, <2>1 DEF Added, DrvShape, DrvSet
    <2>3. c \in Cmds /\ <<c>> \in Seq(Cmds) /\ Range(<<c>>) = {c}
      <3>1. c \in Cmds
        BY <2>2, Vocabulary
      <3> HIDE DEF c
      <3> QED BY <3>1, One
    <2>4. op'.name = "beacon" /\ op'.who = v /\ op'.at = i /\ op'.todo = <<c>>
      BY <2>1
    <2>5. op' \in OpSet
      BY <2>1, <2>2, <2>3 DEF OpSet, Names
    <2>8. drv' \in DrvSet /\ drv'.idx = drv.idx /\ drv'.peer = drv.peer
          /\ drv'.started = drv.started
          /\ drv'.mask = drv.mask /\ drv'.beacon = drv.beacon \union {v}
      BY <2>1, <2>2 DEF DrvSet
    <2>6. OpShape'
      BY <2>2, <2>3, <2>4, <2>8, ZenonT(40) DEF OpShape, Allowed, Mine, VifOps, PeerOps
    <2>7. DrvShape'
      BY <2>1, <2>8, <1>0 DEF DrvShape, Added, Present
    <2> QED BY <2>5, <2>6, <2>7, <2>8
  <1>5. CASE StopAp(v)
    <2> DEFINE i == drv.idx[v]
               c == Cmd("pm", i, v, FALSE)
               d == Cmd("bss", i, v, FALSE)
    <2>1. v \in drv.started /\ drv' = [drv EXCEPT !.started = @ \ {v}, !.beacon = @ \ {v}]
          /\ op' = [name |-> "stop", who |-> v, at |-> i, vif |-> v, todo |-> <<c, d>>]
      BY <1>5 DEF StopAp, Begin
    <2>2. i \in Indices
      BY <1>a, <2>1 DEF Added, DrvShape, DrvSet
    <2>3. c \in Cmds /\ d \in Cmds /\ <<c, d>> \in Seq(Cmds) /\ Range(<<c, d>>) = {c, d}
      <3>1. c \in Cmds /\ d \in Cmds
        BY <2>2, Vocabulary
      <3> HIDE DEF c, d
      <3> QED BY <3>1, Two
    <2>4. op'.name = "stop" /\ op'.who = v /\ op'.at = i /\ op'.todo = <<c, d>>
      BY <2>1
    <2>5. op' \in OpSet
      BY <2>1, <2>2, <2>3 DEF OpSet, Names
    <2>8. drv' \in DrvSet /\ drv'.idx = drv.idx /\ drv'.peer = drv.peer
          /\ drv'.started = drv.started \ {v}
          /\ drv'.mask = drv.mask /\ drv'.beacon = drv.beacon \ {v}
      BY <2>1 DEF DrvSet
    <2>6. OpShape'
      BY <2>2, <2>3, <2>4, <2>8, ZenonT(40) DEF OpShape, Allowed, Mine, VifOps, PeerOps
    <2>7. DrvShape'
      BY <2>1, <2>8, <1>0 DEF DrvShape, Added, Present
    <2> QED BY <2>5, <2>6, <2>7, <2>8
  <1> QED BY <1>1, <1>2, <1>3, <1>4, <1>5

(* What an operation on a station sends about its interface.               *)
LEMMA BssTyped ==
  ASSUME drv \in DrvSet, NEW v \in Vifs, drv.idx[v] \in Indices, NEW on \in BOOLEAN
  PROVE  Bss(v, on) \in Seq(Cmds) /\ \A c \in Range(Bss(v, on)) : v \in Stas
         /\ c = Cmd("bss", drv.idx[v], v, on)
  <1> DEFINE c == Cmd("bss", drv.idx[v], v, on)
  <1>1. c \in Cmds
    BY Vocabulary
  <1>2. CASE v \in Stas
    <2>1. Bss(v, on) = <<c>>
      BY <1>2 DEF Bss
    <2> HIDE DEF c
    <2>2. <<c>> \in Seq(Cmds) /\ Range(<<c>>) = {c}
      BY <1>1, One
    <2> QED BY <1>2, <2>1, <2>2 DEF c
  <1>3. CASE v \notin Stas
    <2>1. Bss(v, on) = <<>>
      BY <1>3 DEF Bss
    <2>2. <<>> \in Seq(Cmds) /\ Range(<<>>) = {}
      BY <1>1, Lists
    <2> QED BY <2>1, <2>2
  <1> QED BY <1>2, <1>3

(* An operation on a station begins as OpShape says.                       *)
LEMMA OpDrvPeer ==
  ASSUME OpDrv, NEW p \in Peers,
         \/ \E v \in Vifs : StaAdd(p, v)
         \/ StaAssoc(p) \/ StaRemove(p)
         \/ \E on \in BOOLEAN : SetKey(p, on) \/ Ampdu(p, on)
  PROVE  OpDrv'
  <1> USE Gones DEF OpDrv
  <1> DEFINE me == drv.peer[p]
  <1>0. done' = done /\ done
    BY DEF StaAdd, StaAssoc, StaRemove, SetKey, Ampdu, Begin, OnlyTables, Calm
  <1>b. Present(p) => me.wcid \in 1 .. Records /\ me.vif \in Vifs /\ drv.idx[me.vif] \in Indices
    BY DEF DrvSet, PeerSet, DrvShape, Added
  <1>1. ASSUME NEW v \in Vifs, StaAdd(p, v) PROVE OpDrv'
    <2> DEFINE w == Least(1 .. Records \ drv.mask)
               c == Cmd("rec", w, p, TRUE)
    <2>1. ~Present(p) /\ v \in drv.started \union (Stas \intersect Added)
          /\ 1 .. Records \ drv.mask # {}
          /\ op' = [name |-> "sta add", who |-> p, at |-> w, vif |-> v, todo |-> <<c>>]
          /\ drv' = [drv EXCEPT !.mask = @ \union {w}]
      BY <1>1 DEF StaAdd, Begin
    <2>2. w \in 1 .. Records \ drv.mask
      <3>1. 1 .. Records \ drv.mask \in SUBSET Nat
        BY TablesAssumption
      <3> QED BY <2>1, <3>1, Smallest
    <2> HIDE DEF w
    <2>3. c \in Cmds /\ <<c>> \in Seq(Cmds) /\ Range(<<c>>) = {c}
      <3>1. c \in Cmds
        BY <2>2, Vocabulary
      <3> HIDE DEF c
      <3> QED BY <3>1, One
    <2>4. op'.name = "sta add" /\ op'.who = p /\ op'.at = w /\ op'.vif = v /\ op'.todo = <<c>>
      BY <2>1
    <2>5. op' \in OpSet
      BY <2>1, <2>2, <2>3 DEF OpSet, Names
    <2>8. drv' \in DrvSet /\ drv'.idx = drv.idx /\ drv'.peer = drv.peer
          /\ drv'.started = drv.started
          /\ drv'.mask = drv.mask \union {w} /\ drv'.beacon = drv.beacon
      BY <2>1, <2>2 DEF DrvSet
    <2>9. v \in Vifs /\ drv.idx[v] \in Indices
      BY <2>1 DEF DrvShape, Added, DrvSet
    <2>10. \A q \in Peers : Present(q) => drv.peer[q].wcid # w
      BY <2>2 DEF DrvShape
    <2>6. OpShape'
      BY <2>1, <2>2, <2>3, <2>4, <2>8, <2>9, <2>10 DEF OpShape, Allowed, Mine, VifOps, PeerOps,
          Present
    <2>7. DrvShape'
      BY <2>8, <1>0 DEF DrvShape, Added, Present
    <2> QED BY <2>5, <2>6, <2>7, <2>8
  <1>2. CASE StaAssoc(p)
    <2> DEFINE c == Cmd("rec", me.wcid, p, TRUE)
               s == Bss(me.vif, TRUE) \o <<c>>
    <2>1. me.st = "none" /\ drv' = [drv EXCEPT !.peer[p].st = "assoc"]
          /\ op' = [name |-> "assoc", who |-> p, at |-> me.wcid, vif |-> me.vif, todo |-> s]
      BY <1>2 DEF StaAssoc, Begin
    <2>2. Present(p)
      BY <2>1 DEF Present
    <2>3. s \in Seq(Cmds) /\ \A d \in Range(s) : d = c \/ (me.vif \in Stas
          /\ d = Cmd("bss", drv.idx[me.vif], me.vif, TRUE))
      <3>1. c \in Cmds
        BY <1>b, <2>2, Vocabulary
      <3>2. Bss(me.vif, TRUE) \in Seq(Cmds)
            /\ \A d \in Range(Bss(me.vif, TRUE)) :
                   me.vif \in Stas /\ d = Cmd("bss", drv.idx[me.vif], me.vif, TRUE)
        BY <1>b, <2>2, BssTyped
      <3> HIDE DEF c
      <3>3. <<c>> \in Seq(Cmds) /\ Range(<<c>>) = {c}
        BY <3>1, One
      <3> DEFINE bss == Bss(me.vif, TRUE)
                 rec == <<c>>
      <3>4. bss \in Seq(Cmds) /\ rec \in Seq(Cmds)
        BY <3>2, <3>3
      <3> HIDE DEF bss, rec
      <3>5. bss \o rec \in Seq(Cmds) /\ Range(bss \o rec) = Range(bss) \union Range(rec)
        BY ONLY <3>4, Appended
      <3> QED BY <3>2, <3>3, <3>5 DEF bss, rec
    <2> HIDE DEF s
    <2>4. op'.name = "assoc" /\ op'.who = p /\ op'.at = me.wcid /\ op'.vif = me.vif /\ op'.todo = s
      BY <2>1
    <2>5. op' \in OpSet
      BY <1>b, <2>1, <2>2, <2>3 DEF OpSet, Names
    <2>9. drv' \in DrvSet /\ drv'.idx = drv.idx /\ drv'.started = drv.started
          /\ drv'.mask = drv.mask /\ drv'.beacon = drv.beacon
      <3>1. [drv.peer[p] EXCEPT !.st = "assoc"] \in PeerSet
        BY <1>0 DEF DrvSet, PeerSet
      <3>2. drv' = [drv EXCEPT !.peer = [drv.peer EXCEPT ![p] = [drv.peer[p] EXCEPT !.st = "assoc"]]]
        BY <2>1
      <3> QED BY <1>0, <3>1, <3>2 DEF DrvSet
    <2>10. ASSUME NEW q \in Peers
           PROVE  /\ drv'.peer[q].wcid = drv.peer[q].wcid /\ drv'.peer[q].vif = drv.peer[q].vif
                  /\ Present(q)' <=> Present(q)
      BY <2>1, <2>10 DEF DrvSet, PeerSet, Present
    <2>8. drv' \in DrvSet /\ drv'.idx = drv.idx /\ drv'.started = drv.started
          /\ drv'.mask = drv.mask /\ drv'.beacon = drv.beacon
          /\ \A q \in Peers :
                /\ drv'.peer[q].wcid = drv.peer[q].wcid /\ drv'.peer[q].vif = drv.peer[q].vif
                /\ Present(q)' <=> Present(q)
      BY <2>9, <2>10
    <2>6. OpShape'
      <3>1. \A d \in Range(op'.todo) : Allowed(d)'
        BY <2>3, <2>4, <2>8 DEF Allowed, Mine, OfVif
      <3> QED BY <1>b, <2>2, <2>4, <2>8, <3>1 DEF OpShape, VifOps, PeerOps
    <2>7. DrvShape'
      BY <2>8, <1>0 DEF DrvShape, Added
    <2> QED BY <2>5, <2>6, <2>7, <2>8
  <1>3. CASE StaRemove(p)
    <2> DEFINE c == Cmd("rec", me.wcid, p, FALSE)
               s == <<c>> \o Bss(me.vif, FALSE)
    <2>1. Present(p) /\ UNCHANGED drv
          /\ op' = [name |-> "sta remove", who |-> p, at |-> me.wcid, vif |-> me.vif, todo |-> s]
      BY <1>3 DEF StaRemove, Begin
    <2>3. s \in Seq(Cmds) /\ \A d \in Range(s) : d = c \/ (me.vif \in Stas
          /\ d = Cmd("bss", drv.idx[me.vif], me.vif, FALSE))
      <3>1. c \in Cmds
        BY <1>b, <2>1, Vocabulary
      <3>2. Bss(me.vif, FALSE) \in Seq(Cmds)
            /\ \A d \in Range(Bss(me.vif, FALSE)) :
                   me.vif \in Stas /\ d = Cmd("bss", drv.idx[me.vif], me.vif, FALSE)
        BY <1>b, <2>1, BssTyped
      <3> HIDE DEF c
      <3>3. <<c>> \in Seq(Cmds) /\ Range(<<c>>) = {c}
        BY <3>1, One
      <3> DEFINE bss == Bss(me.vif, FALSE)
                 rec == <<c>>
      <3>4. bss \in Seq(Cmds) /\ rec \in Seq(Cmds)
        BY <3>2, <3>3
      <3> HIDE DEF bss, rec
      <3>5. rec \o bss \in Seq(Cmds) /\ Range(rec \o bss) = Range(rec) \union Range(bss)
        BY ONLY <3>4, Appended
      <3> QED BY <3>2, <3>3, <3>5 DEF bss, rec
    <2> HIDE DEF s
    <2>4. op'.name = "sta remove" /\ op'.who = p /\ op'.at = me.wcid /\ op'.vif = me.vif
          /\ op'.todo = s
      BY <2>1
    <2>5. op' \in OpSet
      BY <1>b, <2>1, <2>3 DEF OpSet, Names
    <2>6. OpShape'
      <3>1. \A d \in Range(op'.todo) : Allowed(d)'
        BY <2>1, <2>3, <2>4 DEF Allowed, Mine, OfVif
      <3> QED BY <1>b, <2>1, <2>4, <3>1 DEF OpShape, VifOps, PeerOps, Present
    <2>7. DrvShape'
      BY <2>1, <1>0 DEF DrvShape, Added, Present
    <2> QED BY <2>1, <2>5, <2>6, <2>7
  <1>4. ASSUME NEW on \in BOOLEAN, NEW name \in {"key", "ampdu"}, NEW what \in {"key", "ba"},
               what = IF name = "key" THEN "key" ELSE "ba",
               Present(p), UNCHANGED drv,
               op' = [name |-> name, who |-> p, at |-> me.wcid, vif |-> me.vif,
               todo |-> <<Cmd(what, me.wcid, p, on)>>]
        PROVE  OpDrv'
    <2> DEFINE c == Cmd(what, me.wcid, p, on)
    <2>3. c \in Cmds /\ <<c>> \in Seq(Cmds) /\ Range(<<c>>) = {c}
      <3>1. c \in Cmds
        BY <1>b, <1>4, Vocabulary
      <3> HIDE DEF c
      <3> QED BY <3>1, One
    <2>4. op'.name = name /\ op'.who = p /\ op'.at = me.wcid /\ op'.vif = me.vif /\ op'.todo = <<c>>
      BY <1>4
    <2>5. op' \in OpSet
      BY <1>b, <1>4, <2>3 DEF OpSet, Names
    <2>6. OpShape'
      <3>1. Allowed(c)'
        BY <1>4, <2>4 DEF Allowed, Mine
      <3> QED BY <1>b, <1>4, <2>3, <2>4, <3>1 DEF OpShape, VifOps, PeerOps, Present
    <2>7. DrvShape'
      BY <1>4, <1>0 DEF DrvShape, Added, Present
    <2> QED BY <1>4, <2>5, <2>6, <2>7
  <1>5. CASE \E on \in BOOLEAN : SetKey(p, on)
    <2>1. PICK on \in BOOLEAN : SetKey(p, on)
      BY <1>5
    <2>2. Present(p) /\ UNCHANGED drv
          /\ op' = [name |-> "key", who |-> p, at |-> me.wcid, vif |-> me.vif,
             todo |-> <<Cmd("key", me.wcid, p, on)>>]
      BY <2>1 DEF SetKey, Begin, Present
    <2> QED BY <1>4, <2>2
  <1>6. CASE \E on \in BOOLEAN : Ampdu(p, on)
    <2>1. PICK on \in BOOLEAN : Ampdu(p, on)
      BY <1>6
    <2>2. Present(p) /\ UNCHANGED drv
          /\ op' = [name |-> "ampdu", who |-> p, at |-> me.wcid, vif |-> me.vif,
             todo |-> <<Cmd("ba", me.wcid, p, on)>>]
      BY <2>1 DEF Ampdu, Begin, Present
    <2> QED BY <1>4, <2>2
  <1> QED BY <1>1, <1>2, <1>3, <1>5, <1>6

(* A command that is sent, or ends the operation, keeps it.                *)
LEMMA OpDrvCommand ==
  ASSUME OpDrv, Command
  PROVE  OpDrv'
  <1> USE DEF OpDrv
  <1>1. op.todo # <<>> /\ UNCHANGED <<drv, done>>
        /\ (op' = [op EXCEPT !.todo = Tail(@)] \/ op' = [NoOp EXCEPT !.name = "failed"])
    BY DEF Command, Passes, Fails, OnlyTables
  <1>2. op.todo \in Seq(Cmds)
    BY DEF OpSet
  <1>3. Tail(op.todo) \in Seq(Cmds) /\ Range(Tail(op.todo)) \subseteq Range(op.todo)
    BY <1>1, <1>2, HeadTail
  <1>4. DrvShape'
    BY <1>1 DEF DrvShape, Added, Present
  <1>5. CASE op' = [op EXCEPT !.todo = Tail(@)]
    <2>1. op' \in OpSet /\ op'.name = op.name /\ op'.who = op.who /\ op'.at = op.at
          /\ op'.vif = op.vif /\ op'.todo = Tail(op.todo)
      BY <1>3, <1>5 DEF OpSet
    <2>2. \A c \in Range(op'.todo) : Allowed(c)'
      <3> SUFFICES ASSUME NEW c \in Range(op'.todo) PROVE Allowed(c)'
        OBVIOUS
      <3>1. Allowed(c)
        BY <1>3, <2>1 DEF OpShape
      <3> QED BY <1>1, <2>1, <3>1 DEF Allowed, Mine, OfVif
    <2>3. OpShape'
      BY <1>1, <2>1, <2>2 DEF OpShape, Present
    <2> QED BY <1>1, <1>4, <2>1, <2>3
  <1>6. CASE op' = [NoOp EXCEPT !.name = "failed"]
    <2>1. OpShape'
      BY <1>6, NoOpTyped DEF OpShape, VifOps, PeerOps
    <2> QED BY <1>1, <1>4, <1>6, <2>1, NoOpTyped
  <1> QED BY <1>1, <1>5, <1>6

(* What the driver remembers at the end (Remembered) keeps it.             *)
LEMMA OpDrvReturn ==
  ASSUME OpDrv, Return, done
  PROVE  OpDrv'
  <1> USE Gones DEF OpDrv
  <1>1. op' = NoOp /\ drv' = Remembered /\ done'
    BY DEF Return, OnlyTables
  <1>2. op' \in OpSet /\ OpShape'
    BY <1>1, NoOpTyped DEF OpShape, VifOps, PeerOps
  <1>3. CASE op.name = "add"
    <2>1. op.who \in Vifs /\ op.at \in Indices /\ \A u \in Vifs : drv.idx[u] # op.at
      BY <1>3 DEF OpShape, VifOps
    <2>2. drv' = [drv EXCEPT !.idx[op.who] = op.at]
      BY <1>1, <1>3 DEF Remembered
    <2>3. drv' \in DrvSet /\ drv'.started = drv.started /\ drv'.beacon = drv.beacon
          /\ drv'.mask = drv.mask /\ drv'.peer = drv.peer
          /\ \A u \in Vifs : drv'.idx[u] = IF u = op.who THEN op.at ELSE drv.idx[u]
      BY <2>1, <2>2 DEF DrvSet
    <2>4. Added \subseteq Added'
      BY <2>1, <2>3 DEF Added
    <2>5. DrvShape'
      BY <1>1, <2>1, <2>3, <2>4 DEF DrvShape, Present
    <2> QED BY <1>2, <2>3, <2>5
  <1>4. CASE op.name = "remove"
    <2>1. op.who \in Vifs /\ op.who \notin drv.started /\ \A p \in Peers : drv.peer[p].vif # op.who
      BY <1>4 DEF OpShape, VifOps
    <2>2. drv' = [drv EXCEPT !.idx[op.who] = Gone]
      BY <1>1, <1>4 DEF Remembered
    <2>3. drv' \in DrvSet /\ drv'.started = drv.started /\ drv'.beacon = drv.beacon
          /\ drv'.mask = drv.mask /\ drv'.peer = drv.peer
          /\ \A u \in Vifs : drv'.idx[u] = IF u = op.who THEN Gone ELSE drv.idx[u]
      BY <2>1, <2>2 DEF DrvSet
    <2>4. Added' = Added \ {op.who}
      BY <2>1, <2>3 DEF Added
    <2>5. DrvShape'
      BY <1>1, <2>1, <2>3, <2>4 DEF DrvShape, Present
    <2> QED BY <1>2, <2>3, <2>5
  <1>5. CASE op.name = "start"
    <2>1. op.who \in Aps /\ op.at \in Indices /\ op.at = drv.idx[op.who]
      BY <1>5 DEF OpShape, VifOps
    <2>2. drv' = [drv EXCEPT !.started = @ \union {op.who}]
      BY <1>1, <1>5 DEF Remembered
    <2>3. drv' \in DrvSet /\ drv'.started = drv.started \union {op.who}
          /\ drv'.beacon = drv.beacon /\ drv'.mask = drv.mask
          /\ drv'.peer = drv.peer /\ drv'.idx = drv.idx
      BY <2>1, <2>2 DEF DrvSet
    <2>4. op.who \in Added
      BY <2>1 DEF Added
    <2>5. DrvShape'
      BY <1>1, <2>3, <2>4 DEF DrvShape, Present, Added
    <2> QED BY <1>2, <2>3, <2>5
  <1>6. CASE op.name = "sta add"
    <2>1. /\ op.who \in Peers /\ op.at \in drv.mask /\ op.vif \in Vifs
             /\ drv.idx[op.vif] \in Indices
          /\ ~Present(op.who) /\ \A p \in Peers : Present(p) => drv.peer[p].wcid # op.at
      BY <1>6 DEF OpShape
    <2>2. drv' = [drv EXCEPT !.peer[op.who] = [st |-> "none", wcid |-> op.at, vif |-> op.vif]]
      BY <1>1, <1>6 DEF Remembered
    <2>3. drv' \in DrvSet /\ drv'.started = drv.started /\ drv'.beacon = drv.beacon
          /\ drv'.mask = drv.mask /\ drv'.idx = drv.idx
          /\ \A p \in Peers :
                 drv'.peer[p] = IF p = op.who THEN [st |-> "none", wcid |-> op.at,
                 vif |-> op.vif] ELSE drv.peer[p]
      BY <2>1, <2>2 DEF DrvSet, PeerSet
    <2>4. op.vif \in Added /\ Added' = Added
      BY <2>1, <2>3 DEF Added
    <2>6. \A p \in Peers : /\ Present(p)' <=> (p = op.who \/ Present(p))
                           /\ drv'.peer[p].wcid = IF p = op.who THEN op.at ELSE drv.peer[p].wcid
                           /\ drv'.peer[p].vif = IF p = op.who THEN op.vif ELSE drv.peer[p].vif
      BY <2>3 DEF Present
    <2>5. DrvShape'
      BY <1>1, <2>1, <2>3, <2>4, <2>6 DEF DrvShape
    <2> QED BY <1>2, <2>3, <2>5
  <1>7. CASE op.name = "sta remove"
    <2>1. op.who \in Peers /\ Present(op.who) /\ drv.peer[op.who].wcid = op.at
      BY <1>7 DEF OpShape, PeerOps
    <2>2. drv' = [drv EXCEPT !.peer[op.who] = NoPeer, !.mask = @ \ {op.at}]
      BY <1>1, <1>7 DEF Remembered
    <2>3. drv' \in DrvSet /\ drv'.started = drv.started /\ drv'.beacon = drv.beacon
          /\ drv'.mask = drv.mask \ {op.at}
          /\ drv'.idx = drv.idx
          /\ \A p \in Peers : drv'.peer[p] = IF p = op.who THEN NoPeer ELSE drv.peer[p]
      BY <2>1, <2>2 DEF DrvSet, PeerSet, NoPeer
    <2>6. \A p \in Peers : Present(p)' <=> (p # op.who /\ Present(p))
      BY <2>3 DEF Present, NoPeer
    <2>7. \A p \in Peers : Present(p)' => drv'.peer[p].wcid = drv.peer[p].wcid
          /\ drv'.peer[p].vif = drv.peer[p].vif
      BY <2>3, <2>6
    <2>5. DrvShape'
      BY <1>1, <2>1, <2>3, <2>6, <2>7 DEF DrvShape, Added
    <2> QED BY <1>2, <2>3, <2>5
  <1>8. CASE op.name \notin {"add", "remove", "start", "sta add", "sta remove"}
    <2>1. drv' = drv
      BY <1>1, <1>8 DEF Remembered
    <2>2. DrvShape'
      BY <1>1, <2>1 DEF DrvShape, Added, Present
    <2> QED BY <1>2, <2>1, <2>2
  <1> QED BY <1>3, <1>4, <1>5, <1>6, <1>7, <1>8

(* OpDrv is inductive.                                                     *)
LEMMA OpDrvStep ==
  ASSUME LifeTypes, Shape, Locks, OpDrv, TabNext
  PROVE  OpDrv'
  <1>1. CASE UNCHANGED <<drv, op>>
    <2>1. done => done'
      <3>1. CASE LifeNext
        BY <3>1, Moves
      <3>2. CASE Outside
        BY <3>2 DEF Outside
      <3> QED BY <3>1, <3>2, Ways
    <2> QED BY <1>1, <2>1, OpDrvSame
  <1>2. CASE OffNext /\ TabAlong
    BY <1>1, <1>2 DEF TabAlong
  <1>3. CASE IterNext \/ IterCommand
    BY <1>1, <1>3 DEF IterNext, IterCommand
  <1>4. CASE \E v \in Vifs : AddInterface(v) \/ RemoveInterface(v) \/ StartAp(v)
             \/ EnableBeacon(v) \/ StopAp(v)
    BY <1>4, OpDrvVif
  <1>5. CASE \E p \in Peers : \/ \E v \in Vifs : StaAdd(p, v)
                              \/ StaAssoc(p) \/ StaRemove(p)
                              \/ \E on \in BOOLEAN : SetKey(p, on) \/ Ampdu(p, on)
    BY <1>5, OpDrvPeer
  <1>6. CASE Command
    BY <1>6, OpDrvCommand
  <1>7. CASE Return
    <2>1. done
      BY <1>7 DEF Return, Locks
    <2> QED BY <1>7, <2>1, OpDrvReturn
  <1> QED BY <1>2, <1>3, <1>4, <1>5, <1>6, <1>7 DEF TabNext, Operation
-----------------------------------------------------------------------------
(* What the firmware may have of a BSS.                                    *)
Bsses == {"bss", "own", "beacon"}

(* What a command about an interface does to the tables: to its own number *)
(* only, and one that is on only adds.                                     *)
LEMMA ToldVif ==
  ASSUME fw \in FwSet, NEW c \in VifCmds
  PROVE  /\ Told(c) \in FwSet /\ Told(c).rec = fw.rec
         /\ \A i \in Indices : i # c.at => Told(c).dev[i] = fw.dev[i] /\ Told(c).bss[i] = fw.bss[i]
         /\ c.on => fw.bss[c.at] \subseteq Told(c).bss[c.at]
         /\ c.on /\ c.what = "dev" => Told(c).dev[c.at] = c.who
         /\ c.what # "dev" => Told(c).dev[c.at] = fw.dev[c.at]
         /\ c.on /\ c.what # "dev" => c.what \in Told(c).bss[c.at]
  <1>1. c.what \in {"dev", "bss", "own", "beacon"} /\ c.at \in Indices /\ c.who \in Vifs
        /\ c.on \in BOOLEAN
    BY DEF VifCmds
  <1>2. CASE c.what = "dev" /\ c.on
    <2> DEFINE d == [fw.dev EXCEPT ![c.at] = c.who]
    <2>1. Told(c) = [fw EXCEPT !.dev = d]
      BY <1>2 DEF Told
    <2>2. d \in [Indices -> Vifs \union {NoVif}] /\ d[c.at] = c.who
          /\ \A i \in Indices : i # c.at => d[i] = fw.dev[i]
      BY <1>1 DEF FwSet
    <2> HIDE DEF d
    <2> QED BY <1>1, <1>2, <2>1, <2>2 DEF FwSet
  <1>3. CASE c.what = "dev" /\ ~c.on
    <2> DEFINE d == [fw.dev EXCEPT ![c.at] = NoVif]
               b == [fw.bss EXCEPT ![c.at] = {}]
    <2>1. Told(c) = [fw EXCEPT !.dev = d, !.bss = b]
      BY <1>3 DEF Told
    <2>2. /\ d \in [Indices -> Vifs \union {NoVif}] /\ b \in [Indices -> SUBSET Bsses]
          /\ \A i \in Indices : i # c.at => d[i] = fw.dev[i] /\ b[i] = fw.bss[i]
      BY <1>1 DEF FwSet, Bsses
    <2> HIDE DEF d, b
    <2> QED BY <1>1, <1>3, <2>1, <2>2 DEF FwSet, Bsses
  <1>4. CASE c.what # "dev"
    <2>1. Told(c) = [fw EXCEPT !.bss[c.at] = IF c.on THEN @ \union {c.what} ELSE {}]
      BY <1>1, <1>4 DEF Told
    <2>2. (IF c.on THEN fw.bss[c.at] \union {c.what} ELSE {}) \in SUBSET {"bss", "own", "beacon"}
      BY <1>1, <1>4 DEF FwSet
    <2> QED BY <1>1, <1>4, <2>1, <2>2 DEF FwSet
  <1> QED BY <1>2, <1>3, <1>4

(* What a command about a station does: to its entry only, which it resets *)
(* or where it adds or takes the station's own key or session.             *)
LEMMA ToldPeer ==
  ASSUME fw \in FwSet, NEW c \in PeerCmds
  PROVE  /\ Told(c) \in FwSet /\ Told(c).dev = fw.dev /\ Told(c).bss = fw.bss
         /\ \A w \in 1 .. Records : w # c.at => Told(c).rec[w] = fw.rec[w]
         /\ Told(c).rec[c.at].keys \subseteq fw.rec[c.at].keys \union {c.who}
         /\ Told(c).rec[c.at].ba \subseteq fw.rec[c.at].ba \union {c.who}
         /\ c.what = "rec" => Told(c).rec[c.at].keys = {} /\ Told(c).rec[c.at].ba = {}
  <1>1. c.what \in {"rec", "key", "ba"} /\ c.at \in 1 .. Records /\ c.who \in Peers
        /\ c.on \in BOOLEAN
    BY DEF PeerCmds
  <1>2. CASE c.what = "rec"
    <2> DEFINE r == Reset(fw.rec[c.at], c.on)
    <2> DEFINE t == [fw.rec EXCEPT ![c.at] = r]
    <2>1. Told(c) = [fw EXCEPT !.rec = t]
      BY <1>2 DEF Told
    <2>2. r \in RecSet /\ r.keys = {} /\ r.ba = {}
      BY <1>1 DEF RecSet, Reset, NoRecord
    <2> HIDE DEF r
    <2>3. t \in [1 .. Records -> RecSet] /\ t[c.at] = r /\ \A w \in 1 .. Records : w # c.at
          => t[w] = fw.rec[w]
      BY <1>1, <2>2 DEF FwSet
    <2> HIDE DEF t
    <2> QED BY <1>1, <1>2, <2>1, <2>2, <2>3 DEF FwSet
  <1>3. CASE c.what = "key" /\ fw.rec[c.at].on
    <2> DEFINE m == Member(fw.rec[c.at].keys, c)
    <2> DEFINE r == [fw.rec[c.at] EXCEPT !.keys = m]
               t == [fw.rec EXCEPT ![c.at] = r]
    <2>1. Told(c) = [fw EXCEPT !.rec = t]
      BY <1>3 DEF Told
    <2>2. m \in SUBSET Peers /\ m \subseteq fw.rec[c.at].keys \union {c.who}
      BY <1>1 DEF Member, FwSet, RecSet
    <2> HIDE DEF m
    <2>3. r \in RecSet /\ r.keys = m /\ r.ba = fw.rec[c.at].ba
      BY <1>1, <2>2, ZenonT(40) DEF FwSet, RecSet
    <2> HIDE DEF r
    <2>4. t \in [1 .. Records -> RecSet] /\ t[c.at] = r /\ \A w \in 1 .. Records : w # c.at
          => t[w] = fw.rec[w]
      BY <1>1, <2>3 DEF FwSet
    <2> HIDE DEF t
    <2> QED BY <1>1, <1>3, <2>1, <2>2, <2>3, <2>4 DEF FwSet
  <1>4. CASE c.what = "ba" /\ fw.rec[c.at].on
    <2> DEFINE m == Member(fw.rec[c.at].ba, c)
    <2> DEFINE r == [fw.rec[c.at] EXCEPT !.ba = m]
               t == [fw.rec EXCEPT ![c.at] = r]
    <2>1. Told(c) = [fw EXCEPT !.rec = t]
      BY <1>4 DEF Told
    <2>2. m \in SUBSET Peers /\ m \subseteq fw.rec[c.at].ba \union {c.who}
      BY <1>1 DEF Member, FwSet, RecSet
    <2> HIDE DEF m
    <2>3. r \in RecSet /\ r.ba = m /\ r.keys = fw.rec[c.at].keys
      BY <1>1, <2>2, ZenonT(40) DEF FwSet, RecSet
    <2> HIDE DEF r
    <2>4. t \in [1 .. Records -> RecSet] /\ t[c.at] = r /\ \A w \in 1 .. Records : w # c.at
          => t[w] = fw.rec[w]
      BY <1>1, <2>3 DEF FwSet
    <2> HIDE DEF t
    <2> QED BY <1>1, <1>4, <2>1, <2>2, <2>3, <2>4 DEF FwSet
  <1>5. CASE c.what \in {"key", "ba"} /\ ~fw.rec[c.at].on
    <2>1. Told(c) = fw
      BY <1>5 DEF Told
    <2> QED BY <1>5, <2>1
  <1> QED BY <1>1, <1>2, <1>3, <1>4, <1>5

(* The next command of an operation is allowed; one that awaits its answer *)
(* is about the operation's own entry or about an interface.               *)
LEMMA Commands ==
  ASSUME OpDrv, op.todo # <<>>, Awaits(Head(op.todo))
  PROVE  LET c == Head(op.todo) IN
         /\ Allowed(c)
         /\ c \in VifCmds \/ (c \in PeerCmds /\ c.at = op.at /\ c.who = op.who)
         /\ op.name = "sta add" => c \in PeerCmds /\ c.what = "rec"
         /\ c \in PeerCmds /\ c \notin VifCmds => op.name \in PeerOps \union {"sta add"}
  <1> DEFINE c == Head(op.todo)
  <1>1. c \in Range(op.todo)
    BY HeadTail DEF OpDrv, OpSet
  <1>2. Allowed(c)
    BY <1>1 DEF OpDrv, OpShape
  <1> HIDE DEF c
  <1> USE <1>2, Vocabulary DEF OpDrv, OpShape, Mine, OfVif
  <1>3. CASE op.name \in VifOps
    <2>1. op.who \in Vifs /\ op.at \in Indices
      BY <1>3
    <2>3. \A on : Mine("pm", on).what = "pm"
      BY DEF Cmd
    <2>4. c.what # "pm"
      BY DEF c, Awaits
    <2>2. c \in VifCmds
      BY <1>3, <2>1, <2>3, <2>4 DEF Allowed, VifOps
    <2> QED BY <1>3, <2>2 DEF VifOps, c
  <1>4. CASE op.name = "sta add"
    <2>1. op.who \in Peers /\ op.at \in 1 .. Records
      BY <1>4 DEF DrvSet
    <2>2. c = Cmd("rec", op.at, op.who, TRUE)
      BY <1>4 DEF Allowed
    <2>3. c \in PeerCmds /\ c.at = op.at /\ c.who = op.who /\ c.what = "rec"
      BY <2>1, <2>2 DEF Cmd
    <2> QED BY <1>4, <2>3 DEF c
  <1>5. CASE op.name \in PeerOps
    <2>1. op.who \in Peers /\ op.at \in 1 .. Records /\ op.vif \in Vifs
          /\ drv.idx[op.vif] \in Indices
      BY <1>5
    <2>2. \/ \E on \in BOOLEAN, what \in {"rec", "key", "ba"} : c = Cmd(what, op.at, op.who, on)
          \/ \E on \in BOOLEAN : c = Cmd("bss", drv.idx[op.vif], op.vif, on)
      BY <1>5 DEF Allowed, PeerOps
    <2>3. CASE \E on \in BOOLEAN, what \in {"rec", "key", "ba"} : c = Cmd(what, op.at, op.who, on)
      <3>0. PICK on \in BOOLEAN, what \in {"rec", "key", "ba"} : c = Cmd(what, op.at, op.who, on)
        BY <2>3
      <3>1. c \in PeerCmds
        BY <2>1, <3>0
      <3>2. c.at = op.at /\ c.who = op.who
        BY <3>0 DEF Cmd
      <3> QED BY <1>5, <3>1, <3>2 DEF PeerOps, c
    <2>4. CASE \E on \in BOOLEAN : c = Cmd("bss", drv.idx[op.vif], op.vif, on)
      <3>0. PICK on \in BOOLEAN : c = Cmd("bss", drv.idx[op.vif], op.vif, on)
        BY <2>4
      <3>1. c \in VifCmds
        BY <2>1, <3>0, Vocabulary
      <3> QED BY <1>5, <3>1 DEF PeerOps, c
    <2> QED BY <2>2, <2>3, <2>4
  <1>6. op.name \in VifOps \union PeerOps \union {"sta add"}
    BY DEF Allowed, VifOps, PeerOps
  <1> QED BY <1>3, <1>4, <1>5, <1>6

(* One that awaits none is of an access point that starts or stops.        *)
LEMMA Unawaited ==
  ASSUME OpDrv, op.todo # <<>>, ~Awaits(Head(op.todo))
  PROVE  op.name \in {"start", "stop"}
  <1> DEFINE c == Head(op.todo)
  <1>1. c \in Range(op.todo)
    BY HeadTail DEF OpDrv, OpSet
  <1>2. Allowed(c)
    BY <1>1 DEF OpDrv, OpShape
  <1>3. c.what = "pm"
    BY DEF Awaits
  <1> HIDE DEF c
  <1>4. \A what, on : Mine(what, on).what = what
    BY DEF Mine, Cmd
  <1>5. \A on : OfVif(on).what = "bss"
    BY DEF OfVif, Cmd
  <1>6. /\ \A on : c # OfVif(on)
        /\ \A on : c \notin {Mine("dev", on), Mine("beacon", on), Mine("rec", on), Mine("key", on),
                            Mine("ba", on)}
    BY <1>3, <1>4, <1>5
  <1> QED BY <1>2, <1>6 DEF Allowed
-----------------------------------------------------------------------------
(* mt7921_vif_connect_iter tells of an interface all that belongs to it,   *)
(* by the number the driver has for it.                                    *)
LEMMA ReconnectList ==
  ASSUME drv \in DrvSet, NEW v \in Added
  PROVE  /\ Reconnect(v) \in Seq(VifCmds)
         /\ \A c \in Range(Reconnect(v)) : c.on /\ c.who = v /\ c.at = drv.idx[v]
         /\ Cmd("dev", drv.idx[v], v, TRUE) \in Range(Reconnect(v))
         /\ v \in Aps => \A what \in {"bss", "own"} : Cmd(what, drv.idx[v], v,
            TRUE) \in Range(Reconnect(v))
         /\ v \in drv.beacon => Cmd("beacon", drv.idx[v], v, TRUE) \in Range(Reconnect(v))
  <1> DEFINE i == drv.idx[v]
             a == Cmd("dev", i, v, TRUE)
             b == Cmd("bss", i, v, TRUE)
             c == Cmd("own", i, v, TRUE)
             d == Cmd("beacon", i, v, TRUE)
             s == IF v \in Aps THEN <<b, c>> ELSE <<>>
             t == IF v \in drv.beacon THEN <<d>> ELSE <<>>
  <1>1. v \in Vifs /\ i \in Indices
    BY DEF Added, DrvSet
  <1>2. a \in VifCmds /\ b \in VifCmds /\ c \in VifCmds /\ d \in VifCmds
    BY <1>1, Vocabulary
  <1>3. Reconnect(v) = (<<a>> \o s) \o t
    BY DEF Reconnect
  <1>9. \A x \in {a, b, c, d} : x.on /\ x.who = v /\ x.at = i
    BY DEF Cmd
  <1> HIDE DEF a, b, c, d
  <1>4. <<a>> \in Seq(VifCmds) /\ Range(<<a>>) = {a}
    BY <1>2, One
  <1>5. s \in Seq(VifCmds) /\ Range(s) = IF v \in Aps THEN {b, c} ELSE {}
    <2>1. b \in VifCmds /\ c \in VifCmds
      BY <1>2
    <2>2. <<b, c>> \in Seq(VifCmds) /\ Range(<<b, c>>) = {b, c}
      BY ONLY <2>1, Two
    <2>3. <<>> \in Seq(VifCmds) /\ Range(<<>>) = {}
      BY ONLY <2>1, None
    <2> QED BY <2>2, <2>3
  <1>6. t \in Seq(VifCmds) /\ Range(t) = IF v \in drv.beacon THEN {d} ELSE {}
    <2>1. d \in VifCmds
      BY <1>2
    <2>2. <<>> \in Seq(VifCmds) /\ Range(<<>>) = {}
      BY NoList
    <2>3. <<d>> \in Seq(VifCmds) /\ Range(<<d>>) = {d}
      BY ONLY <2>1, One
    <2> QED BY <2>2, <2>3
  <1> HIDE DEF s, t
  <1>7. <<a>> \o s \in Seq(VifCmds) /\ Range(<<a>> \o s) = Range(<<a>>) \union Range(s)
    <2> DEFINE e == <<a>>
    <2>1. e \in Seq(VifCmds) /\ s \in Seq(VifCmds)
      BY <1>4, <1>5
    <2> HIDE DEF e
    <2>2. e \o s \in Seq(VifCmds) /\ Range(e \o s) = Range(e) \union Range(s)
      BY ONLY <2>1, Appended
    <2> QED BY <2>2 DEF e
  <1>8. Reconnect(v) \in Seq(VifCmds) /\ Range(Reconnect(v)) = Range(<<a>> \o s) \union Range(t)
    <2> DEFINE u == <<a>> \o s
    <2>1. u \in Seq(VifCmds) /\ Reconnect(v) = u \o t
      BY <1>3, <1>7
    <2> HIDE DEF u
    <2>2. u \o t \in Seq(VifCmds) /\ Range(u \o t) = Range(u) \union Range(t)
      BY <1>6, <2>1, Appended
    <2> QED BY <2>1, <2>2 DEF u
  <1>10. Range(Reconnect(v)) \subseteq {a, b, c, d} /\ a \in Range(Reconnect(v))
         /\ (v \in Aps => b \in Range(Reconnect(v)) /\ c \in Range(Reconnect(v)))
         /\ (v \in drv.beacon => d \in Range(Reconnect(v)))
    BY <1>4, <1>5, <1>6, <1>7, <1>8
  <1> QED BY <1>8, <1>9, <1>10 DEF a, b, c, d

(* The iteration after a reset: in its place only; its commands only add,  *)
(* are about one interface, and that one is there under this number unless *)
(* its removal crossed the iteration.                                      *)
IterShape ==
    /\ iter \in IterSet
    /\ work.at # "ifaces" => iter.left = {} /\ iter.todo = <<>>
    /\ \A c \in Range(iter.todo) : c.on
    /\ \A c, d \in Range(iter.todo) : c.who = d.who
    /\ ~iter.crossed => \A c \in Range(iter.todo) : c.who \in Added /\ Active(c.who)
       /\ c.at = drv.idx[c.who]

(* The iteration has nothing to send.                                      *)
LEMMA NoCommands == <<>> \in Seq(VifCmds) /\ Range(<<>>) = {}
  <1>1. 1 \in {1} /\ <<>> \in Seq(VifCmds)
    OBVIOUS
  <1> QED BY <1>1, Lists

(* A step of the device's life keeps IterShape.                            *)
LEMMA IterLife ==
  ASSUME LifeTypes, IterShape, LifeNext, Along
  PROVE  IterShape'
  <1>1. CASE work.at = "clear" /\ work'.at = "ifaces"
    <2>1. iter' = IterStart
      BY <1>1 DEF Along, TabAlong
    <2>2. iter' \in IterSet /\ iter'.todo = <<>>
      BY <2>1, NoCommands DEF IterStart, IterIdle, IterSet
    <2> QED BY <1>1, <2>2, NoCommands DEF IterShape
  <1>2. CASE ~(work.at = "clear" /\ work'.at = "ifaces")
    <2>1. iter' = iter /\ drv' = drv /\ op' = op /\ (work.at = "ifaces" /\ work'.at # "ifaces"
          => iter.left = {} /\ iter.todo = <<>>)
      BY <1>2 DEF Along, TabAlong
    <2> QED BY <2>1 DEF IterShape, Added, Active
  <1> QED BY <1>1, <1>2

(* So does an operation that begins: the removal of the interface that is  *)
(* being told is marked.                                                   *)
LEMMA IterBegin ==
  ASSUME IterShape, NEW name, NEW who, NEW at, NEW v, NEW todo, Begin(name, who, at, v, todo),
         drv'.idx = drv.idx
  PROVE  IterShape'
  <1>1. /\ iter' = [iter EXCEPT !.crossed = @ \/ (name = "remove" /\ iter.todo # <<>>
           /\ Head(iter.todo).who = who)]
        /\ op' = [name |-> name, who |-> who, at |-> at, vif |-> v, todo |-> todo] /\ UNCHANGED work
    BY DEF Begin
  <1>2. iter.todo # <<>> => Head(iter.todo) \in Range(iter.todo)
    BY HeadTail DEF IterShape, IterSet
  <1>3. iter.todo = <<>> => Range(iter.todo) = {}
    BY NoCommands
  <1>4. iter' \in IterSet /\ iter'.left = iter.left /\ iter'.todo = iter.todo
        /\ (~iter'.crossed => ~iter.crossed /\ ~(name = "remove" /\ iter.todo # <<>>
           /\ Head(iter.todo).who = who))
    BY <1>1 DEF IterShape, IterSet
  <1>5. Added' = Added /\ op'.name = name /\ op'.who = who
    BY <1>1 DEF Added
  <1>6. ASSUME ~iter'.crossed, NEW c \in Range(iter'.todo)
        PROVE  c.who \in Added' /\ Active(c.who)' /\ c.at = drv'.idx[c.who]
    <2>1. c.who \in Added /\ Active(c.who) /\ c.at = drv.idx[c.who]
      BY <1>4, <1>6 DEF IterShape
    <2>2. Head(iter.todo).who = c.who /\ iter.todo # <<>>
      BY <1>2, <1>3, <1>4, <1>6 DEF IterShape
    <2>3. ~(op'.name = "remove" /\ op'.who = c.who)
      BY <1>4, <1>5, <1>6, <2>2
    <2> QED BY <1>5, <2>1, <2>3 DEF Active
  <1> QED BY <1>1, <1>4, <1>6 DEF IterShape

(* What the firmware has not been told is about interfaces.                *)
LEMMA RefusedTyped ==
  ASSUME IterShape, NEW c
  PROVE  Learned(c) \in SUBSET VifEntries /\ Missed(c) \in SUBSET VifEntries
  BY DEF Learned, Missed, IterShape, IterSet

(* IterShape is inductive.                                                 *)
LEMMA IterStep ==
  ASSUME LifeTypes, Shape, OpDrv, IterShape, TabNext
  PROVE  IterShape'
  <1>1. CASE LifeNext /\ Along
    BY <1>1, IterLife
  <1>2. CASE (RocStep \/ ScanStep) /\ TabAlong
    <2>1. UNCHANGED work
      BY <1>2 DEF RocStep, SetRoc, SetRocGranted, SetRocTimeout, GrantEvent, GrantArm, GrantNever,
          TimerFires, RocWork, RocWorkAbort, AbortTimer, AbortWork, AbortClear, AbortSync,
          AbortSynced, RocReturns, OnlyRoc, OnlyEvents, lifevars, ScanStep, HwScan, ScanDone,
          ScanWork, CancelScan, OnlyScan
    <2>2. UNCHANGED <<iter, drv, op>>
      BY <1>2, <2>1 DEF TabAlong
    <2> QED BY <2>1, <2>2 DEF IterShape, Added, Active
  <1>3. CASE \E v \in Vifs : AddInterface(v) \/ RemoveInterface(v) \/ StartAp(v)
             \/ EnableBeacon(v) \/ StopAp(v)
    <2>1. drv'.idx = drv.idx
      BY <1>3 DEF AddInterface, RemoveInterface, StartAp, EnableBeacon, StopAp, OpDrv, DrvSet
    <2> QED BY <1>3, <2>1, IterBegin DEF AddInterface, RemoveInterface, StartAp, EnableBeacon,
        StopAp
  <1>4. CASE \E p \in Peers : \/ \E v \in Vifs : StaAdd(p, v)
                              \/ StaAssoc(p) \/ StaRemove(p)
                              \/ \E on \in BOOLEAN : SetKey(p, on) \/ Ampdu(p, on)
    <2>1. drv'.idx = drv.idx
      BY <1>4 DEF StaAdd, StaAssoc, StaRemove, SetKey, Ampdu, OpDrv, DrvSet
    <2> QED BY <1>4, <2>1, IterBegin DEF StaAdd, StaAssoc, StaRemove, SetKey, Ampdu
  <1>5. CASE Command
    <2>1. UNCHANGED drv /\ (UNCHANGED work \/ AskReset)
          /\ (op' = [op EXCEPT !.todo = Tail(@)] \/ op' = [NoOp EXCEPT !.name = "failed"])
      BY <1>5 DEF Command, Passes, Fails, Understood, Posted, Refused, Ignored
    <2>4. iter' \in IterSet /\ iter'.left = iter.left /\ iter'.todo = iter.todo
          /\ iter'.crossed = iter.crossed
      BY <1>5, RefusedTyped DEF Command, IterShape, IterSet
    <2>2. work'.at = work.at
      BY <2>1, Asks DEF LifeTypes
    <2>3. op'.name = "remove" => op.name = "remove" /\ op'.who = op.who
      BY <2>1, NoOpTyped DEF OpDrv, OpSet
    <2> QED BY <2>1, <2>2, <2>3, <2>4 DEF IterShape, Added, Active
  <1>6. CASE Return
    <2>1. UNCHANGED <<iter, work>> /\ op' = NoOp /\ drv' = Remembered
      BY <1>6 DEF Return
    <2>2. ASSUME ~iter.crossed, NEW c \in Range(iter.todo)
          PROVE  c.who \in Added' /\ Active(c.who)' /\ c.at = drv'.idx[c.who]
      <3>1. c.who \in Vifs /\ drv.idx[c.who] # Gone /\ ~(op.name = "remove" /\ op.who = c.who)
            /\ c.at = drv.idx[c.who]
        BY <2>2 DEF IterShape, Added, Active
      <3>2. drv'.idx[c.who] = drv.idx[c.who]
        <4>1. CASE op.name \in {"add", "remove"}
          <5>1. op.who # c.who /\ op.who \in Vifs
            BY <3>1, <4>1 DEF OpDrv, OpShape, VifOps
          <5> QED BY <2>1, <3>1, <4>1, <5>1 DEF Remembered, OpDrv, DrvSet
        <4>2. CASE op.name \notin {"add", "remove"}
          BY <2>1, <4>2 DEF Remembered, OpDrv, DrvSet
        <4> QED BY <4>1, <4>2
      <3>3. op'.name = "none"
        BY <2>1, NoOpTyped
      <3> QED BY <3>1, <3>2, <3>3 DEF Added, Active
    <2> QED BY <2>1, <2>2 DEF IterShape
  <1>7. CASE IterNext
    <2>1. PICK v \in iter.left : iter' = [iter EXCEPT !.left = @ \ {v},
          !.todo = IF Active(v) THEN Reconnect(v) ELSE <<>>]
      BY <1>7 DEF IterNext
    <2>2. UNCHANGED <<drv, op, work>> /\ work.at = "ifaces"
      BY <1>7 DEF IterNext
    <2>3. CASE Active(v)
      <3>1. v \in Added
        BY <2>3 DEF Active
      <3>2. Reconnect(v) \in Seq(VifCmds) /\ \A c \in Range(Reconnect(v)) : c.on /\ c.who = v
            /\ c.at = drv.idx[v]
        BY <3>1, ReconnectList DEF OpDrv
      <3>3. iter' \in IterSet /\ iter'.todo = Reconnect(v)
        BY <2>1, <2>3, <3>2 DEF IterShape, IterSet
      <3> QED BY <2>2, <2>3, <3>1, <3>2, <3>3 DEF IterShape, Added, Active
    <2>4. CASE ~Active(v)
      <3>1. iter' \in IterSet /\ iter'.todo = <<>>
        BY <2>1, <2>4, NoCommands DEF IterShape, IterSet
      <3> QED BY <2>2, <3>1, NoCommands DEF IterShape
    <2> QED BY <2>3, <2>4
  <1>8. CASE IterCommand
    <2>1. iter.todo # <<>> /\ UNCHANGED <<drv, op>> /\ (UNCHANGED work \/ AskReset)
          /\ \/ \E set \in SUBSET VifEntries :
                   iter' = [iter EXCEPT !.todo = Tail(@), !.refused = set]
             \/ iter' = [iter EXCEPT !.todo = Tail(@), !.crossed = @ \/ suspended]
      BY <1>8, RefusedTyped DEF IterCommand, Understood, Refused, Ignored
    <2>2. work'.at = work.at
      BY <2>1, Asks DEF LifeTypes
    <2>3. Tail(iter.todo) \in Seq(VifCmds) /\ Range(Tail(iter.todo)) \subseteq Range(iter.todo)
      BY <2>1, HeadTail DEF IterShape, IterSet
    <2>4. suspended \in BOOLEAN
      BY DEF LifeTypes, FlagSet
    <2>5. iter' \in IterSet /\ iter'.todo = Tail(iter.todo) /\ iter'.left = iter.left
          /\ (~iter'.crossed => ~iter.crossed)
      BY <2>1, <2>3, <2>4 DEF IterShape, IterSet
    <2>6. work.at = "ifaces"
      BY <2>1 DEF IterShape
    <2> QED BY <2>1, <2>2, <2>3, <2>5, <2>6 DEF IterShape, Added, Active
  <1> QED BY <1>1, <1>2, <1>3, <1>4, <1>5, <1>6, <1>7, <1>8 DEF TabNext, OffNext, Operation, Along
-----------------------------------------------------------------------------
(* An entry without keys and sessions.                                     *)
Empty(w) == fw.rec[w].keys = {} /\ fw.rec[w].ba = {}

(* EntriesFresh, and why it stays true when a station is added: its entry  *)
(* has been reset by the command that the operation has sent.              *)
Entries ==
    /\ fw \in FwSet /\ EntriesFresh
    /\ op.name = "sta add" /\ op.todo = <<>> => Empty(op.at)

(* A firmware that forgets has the empty tables.                           *)
LEMMA NothingTold ==
  NoTables \in FwSet /\ \A w \in 1 .. Records : NoTables.rec[w].keys = {} /\ NoTables.rec[w].ba = {}
  <1>1. NoRecord \in RecSet /\ NoRecord.keys = {} /\ NoRecord.ba = {}
    BY DEF NoRecord, RecSet
  <1> QED BY <1>1 DEF NoTables, FwSet

(* Stays off channel and scans leave the tables and the reset alone.       *)
LEMMA OffSame ==
  ASSUME (RocStep \/ ScanStep) /\ TabAlong
  PROVE  UNCHANGED <<drv, op, iter, fw, work, removal, done, pm, suspended, full>>
  <1>1. UNCHANGED <<work, chip, removal, done, pm, suspended, full>>
    BY DEF RocStep, SetRoc, SetRocGranted, SetRocTimeout, GrantEvent, GrantArm, GrantNever,
        TimerFires, RocWork, RocWorkAbort, AbortTimer, AbortWork, AbortClear, AbortSync,
        AbortSynced, RocReturns, OnlyRoc, OnlyEvents, lifevars, fwvars, ScanStep, HwScan, ScanDone,
        ScanWork, CancelScan, OnlyScan
  <1> QED BY <1>1 DEF TabAlong, Forgets

(* A list of one is not empty.                                             *)
LEMMA SomeCommand == \A c : <<c>> # <<>>
  OBVIOUS

(* Steps that change neither the firmware's tables nor who is in an entry  *)
(* keep Entries.                                                           *)
LEMMA EntriesSame ==
  ASSUME OpDrv, Entries, UNCHANGED fw, \A p \in Peers : Present(p)'
         => Present(p) /\ drv'.peer[p].wcid = drv.peer[p].wcid,
         op'.name = "sta add" /\ op'.todo = <<>> => op.name = "sta add" /\ op.todo = <<>>
         /\ op'.at = op.at
  PROVE  Entries'
  BY DEF Entries, EntriesFresh, Empty, Present

(* Entries is inductive.                                                   *)
LEMMA EntriesStep ==
  ASSUME LifeTypes, Shape, OpDrv, IterShape, Entries, TabNext
  PROVE  Entries'
  <1> USE Gones
  <1>a. \A p \in Peers : Present(p) => drv.peer[p].wcid \in 1 .. Records
    BY DEF OpDrv, DrvSet, DrvShape
  <1>1. CASE LifeNext /\ Along
    <2>1. UNCHANGED <<drv, op>> /\ (fw' = fw \/ fw' = NoTables)
      BY <1>1 DEF Along, TabAlong
    <2>2. CASE fw' = fw
      BY <2>1, <2>2, EntriesSame DEF Present
    <2>3. CASE fw' = NoTables
      <3>1. \A w \in 1 .. Records : fw'.rec[w].keys = {} /\ fw'.rec[w].ba = {}
        BY <2>3, NothingTold
      <3>2. op.name = "sta add" => op.at \in 1 .. Records
        BY DEF OpDrv, OpShape, DrvSet
      <3>3. EntriesFresh'
        BY <1>a, <2>1, <3>1 DEF EntriesFresh, Present
      <3> QED BY <2>1, <2>3, <3>1, <3>2, <3>3, NothingTold DEF Entries, Empty
    <2> QED BY <2>1, <2>2, <2>3
  <1>2. CASE (RocStep \/ ScanStep) /\ TabAlong
    BY <1>2, OffSame, EntriesSame DEF Present
  <1>3. ASSUME NEW name, NEW who, NEW at, NEW v, NEW todo, Begin(name, who, at, v, todo),
               todo # <<>>,
               \A p \in Peers : Present(p)' => Present(p) /\ drv'.peer[p].wcid = drv.peer[p].wcid
        PROVE  Entries'
    <2>1. fw' = fw /\ op'.todo # <<>>
      BY <1>3 DEF Begin
    <2> QED BY <1>3, <2>1, EntriesSame
  <1>4. CASE \E v \in Vifs : AddInterface(v) \/ RemoveInterface(v) \/ StartAp(v)
             \/ EnableBeacon(v) \/ StopAp(v)
    <2>1. drv'.peer = drv.peer
      BY <1>4 DEF AddInterface, RemoveInterface, StartAp, EnableBeacon, StopAp, OpDrv, DrvSet
    <2>2. \A p \in Peers : Present(p)' => Present(p) /\ drv'.peer[p].wcid = drv.peer[p].wcid
      BY <2>1 DEF Present
    <2> QED BY <1>3, <1>4, <2>2 DEF AddInterface, RemoveInterface, StartAp, EnableBeacon, StopAp
  <1>5. CASE \E p \in Peers : \/ \E v \in Vifs : StaAdd(p, v)
                              \/ StaAssoc(p) \/ StaRemove(p)
                              \/ \E on \in BOOLEAN : SetKey(p, on) \/ Ampdu(p, on)
    <2>0. PICK p \in Peers : \/ \E v \in Vifs : StaAdd(p, v)
                             \/ StaAssoc(p) \/ StaRemove(p)
                             \/ \E on \in BOOLEAN : SetKey(p, on) \/ Ampdu(p, on)
      BY <1>5
    <2>1. fw' = fw
      BY <2>0 DEF StaAdd, StaAssoc, StaRemove, SetKey, Ampdu, Begin
    <2>2. \A q \in Peers : Present(q)' => Present(q) /\ drv'.peer[q].wcid = drv.peer[q].wcid
      <3>1. CASE StaAssoc(p)
        BY <3>1 DEF StaAssoc, Present, OpDrv, DrvSet, PeerSet
      <3>2. CASE ~StaAssoc(p)
        <4>1. drv'.peer = drv.peer
          BY <2>0, <3>2 DEF StaAdd, StaRemove, SetKey, Ampdu, OpDrv, DrvSet
        <4> QED BY <4>1 DEF Present
      <3> QED BY <3>1, <3>2
    <2>3. op'.name = "sta add" => op'.todo # <<>>
      <3>1. CASE \E v \in Vifs : StaAdd(p, v)
        <4>1. PICK v \in Vifs : StaAdd(p, v)
          BY <3>1
        <4> DEFINE c == Cmd("rec", Least(1 .. Records \ drv.mask), p, TRUE)
        <4>2. op'.todo = <<c>>
          BY <4>1 DEF StaAdd, Begin
        <4>3. op'.todo # <<>>
          BY <4>2, SomeCommand
        <4> QED BY <4>3
      <3>2. CASE StaAssoc(p)
        <4>1. op'.name = "assoc"
          BY <3>2 DEF StaAssoc, Begin
        <4> QED BY <4>1
      <3>3. CASE StaRemove(p)
        <4>1. op'.name = "sta remove"
          BY <3>3 DEF StaRemove, Begin
        <4> QED BY <4>1
      <3>4. CASE \E on \in BOOLEAN : SetKey(p, on) \/ Ampdu(p, on)
        <4>1. PICK on \in BOOLEAN : SetKey(p, on) \/ Ampdu(p, on)
          BY <3>4
        <4>2. op'.name \in {"key", "ampdu"}
          BY <4>1 DEF SetKey, Ampdu, Begin
        <4> QED BY <4>2
      <3> QED BY <2>0, <3>1, <3>2, <3>3, <3>4
    <2> QED BY <2>1, <2>2, <2>3, EntriesSame
  <1>6. CASE Command
    <2> DEFINE c == Head(op.todo)
    <2>0. op.todo # <<>> /\ UNCHANGED drv /\ (fw' = fw \/ (Awaits(c) /\ fw' = Told(c)))
          /\ (op' = [NoOp EXCEPT !.name = "failed"] \/ (op' = [op EXCEPT !.todo = Tail(@)]
              /\ (op.name = "sta add" /\ Awaits(c) => fw' = Told(c))))
      BY <1>6 DEF Command, Passes, Fails, Understood, Posted, Refused, Ignored, Strict
    <2>a. CASE ~Awaits(c)
      <3>1. op.name \in {"start", "stop"} /\ fw' = fw
        BY <2>0, <2>a, Unawaited
      <3>2. op'.name # "sta add"
        BY <2>0, <3>1, NoOpTyped DEF OpDrv, OpSet
      <3> QED BY <2>0, <3>1, <3>2, EntriesSame DEF Present
    <2> SUFFICES ASSUME Awaits(c) PROVE Entries'
      BY <2>a
    <2>1. op.todo # <<>> /\ UNCHANGED drv /\ fw' \in {fw, Told(c)}
          /\ (op' = [NoOp EXCEPT !.name = "failed"] \/ (op' = [op EXCEPT !.todo = Tail(@)]
              /\ (op.name = "sta add" => fw' = Told(c))))
      BY <2>0
    <2>2. (c \in VifCmds \/ (c \in PeerCmds /\ c.at = op.at /\ c.who = op.who))
          /\ (op.name = "sta add" => c \in PeerCmds /\ c.what = "rec")
          /\ (c \in PeerCmds /\ c \notin VifCmds => op.name \in PeerOps \union {"sta add"})
      BY <2>1, Commands
    <2>2b. op.name = "sta add" => c \in PeerCmds /\ c.what = "rec" /\ c.at = op.at
      BY <2>1, Commands DEF PeerCmds, VifCmds
    <2>2c. c \in PeerCmds /\ c \notin VifCmds => c.at = op.at /\ c.who = op.who
           /\ op.name \in PeerOps \union {"sta add"}
      BY <2>1, Commands
    <2>2d. c \in VifCmds \/ (c \in PeerCmds /\ c \notin VifCmds)
      BY <2>1, Commands
    <2> HIDE DEF c
    <2>3. op'.name = "sta add" => op.name = "sta add" /\ op'.at = op.at /\ fw' = Told(c)
      BY <2>1, NoOpTyped DEF OpDrv, OpSet
    <2>4. fw' \in FwSet
      BY <2>1, <2>2d, ToldVif, ToldPeer DEF Entries
    <2>5. op'.name = "sta add" => Empty(op.at)'
      BY <2>2b, <2>3, ToldPeer DEF Entries, Empty
    <2>6. ASSUME NEW p \in Peers, Present(p)
          PROVE  fw'.rec[drv.peer[p].wcid].keys \union fw'.rec[drv.peer[p].wcid].ba \subseteq {p}
      <3> DEFINE w == drv.peer[p].wcid
      <3>1. fw.rec[w].keys \union fw.rec[w].ba \subseteq {p} /\ w \in 1 .. Records
        BY <1>a, <2>6 DEF Entries, EntriesFresh
      <3>2. CASE fw' = fw
        BY <3>1, <3>2
      <3>3. CASE fw' = Told(c) /\ c \in VifCmds
        <4>1. fw'.rec = fw.rec
          BY <3>3, ToldVif DEF Entries
        <4> QED BY <3>1, <4>1
      <3>4. CASE fw' = Told(c) /\ c \in PeerCmds /\ c \notin VifCmds
        <4>1. CASE w # c.at
          <5>1. fw'.rec[w] = fw.rec[w]
            BY <3>1, <3>4, <4>1, ToldPeer DEF Entries
          <5> QED BY <3>1, <5>1
        <4>2. CASE w = c.at
          <5>1. op.name # "sta add"
            BY <2>2c, <2>6, <3>4, <4>2 DEF OpDrv, OpShape
          <5>2. op.who \in Peers /\ Present(op.who) /\ drv.peer[op.who].wcid = w
            BY <2>2c, <3>4, <4>2, <5>1 DEF OpDrv, OpShape
          <5>3. op.who = p
            BY <2>6, <5>2 DEF OpDrv, DrvShape
          <5>4. /\ fw'.rec[w].keys \subseteq fw.rec[w].keys \union {p}
                /\ fw'.rec[w].ba \subseteq fw.rec[w].ba \union {p}
            BY <2>2c, <3>4, <4>2, <5>3, ToldPeer DEF Entries
          <5> QED BY <3>1, <5>4
        <4> QED BY <4>1, <4>2
      <3> QED BY <2>1, <2>2d, <3>2, <3>3, <3>4
    <2>7. EntriesFresh'
      BY <2>1, <2>6 DEF EntriesFresh, Present
    <2> QED BY <2>3, <2>4, <2>5, <2>7 DEF Entries, Empty
  <1>7. CASE Return
    <2>1. fw' = fw /\ op' = NoOp /\ drv' = Remembered /\ op.todo = <<>>
      BY <1>7 DEF Return
    <2>2. op'.name # "sta add"
      BY <2>1, NoOpTyped
    <2>3. CASE op.name = "sta add"
      <3>1. op.who \in Peers /\ Empty(op.at)
        BY <2>1, <2>3 DEF Entries, OpDrv, OpShape
      <3>2. \A p \in Peers : drv'.peer[p] = IF p = op.who THEN [st |-> "none", wcid |-> op.at,
            vif |-> op.vif] ELSE drv.peer[p]
        BY <2>1, <2>3, <3>1 DEF Remembered, OpDrv, DrvSet
      <3>3. EntriesFresh'
        <4> SUFFICES ASSUME NEW p \in Peers, drv'.peer[p].st # "off"
                     PROVE  fw.rec[drv'.peer[p].wcid].keys \union fw.rec[drv'.peer[p].wcid].ba
                              \subseteq {p}
          BY <2>1 DEF EntriesFresh, Present
        <4>1. CASE p = op.who
          <5>1. drv'.peer[p].wcid = op.at
            BY <3>2, <4>1
          <5> QED BY <3>1, <5>1 DEF Empty
        <4>2. CASE p # op.who
          <5>1. drv'.peer[p] = drv.peer[p]
            BY <3>2, <4>2
          <5> QED BY <5>1 DEF Entries, EntriesFresh, Present
        <4> QED BY <4>1, <4>2
      <3> QED BY <2>1, <2>2, <3>3 DEF Entries
    <2>4. CASE op.name # "sta add"
      <3>1. \A p \in Peers : Present(p)' => Present(p) /\ drv'.peer[p].wcid = drv.peer[p].wcid
        <4>1. CASE op.name = "sta remove"
          <5>1. op.who \in Peers
            BY <4>1 DEF OpDrv, OpShape, PeerOps
          <5>2. \A p \in Peers : drv'.peer[p] = IF p = op.who THEN NoPeer ELSE drv.peer[p]
            BY <2>1, <4>1, <5>1 DEF Remembered, OpDrv, DrvSet
          <5> QED BY <5>2 DEF Present, NoPeer
        <4>2. CASE op.name # "sta remove"
          <5>1. drv'.peer = drv.peer
            BY <2>1, <2>4, <4>2 DEF Remembered, OpDrv, DrvSet
          <5> QED BY <5>1 DEF Present
        <4> QED BY <4>1, <4>2
      <3> QED BY <2>1, <2>2, <3>1, EntriesSame
    <2> QED BY <2>3, <2>4
  <1>8. CASE IterNext
    BY <1>8, EntriesSame DEF IterNext, Present
  <1>9. CASE IterCommand
    <2> DEFINE c == Head(iter.todo)
    <2>1. iter.todo # <<>> /\ UNCHANGED <<drv, op>> /\ fw' \in {fw, Told(c)}
      BY <1>9 DEF IterCommand, Understood, Refused, Ignored
    <2>2. c \in VifCmds
      BY <2>1, HeadTail DEF IterShape, IterSet
    <2> HIDE DEF c
    <2>3. fw' \in FwSet /\ fw'.rec = fw.rec
      BY <2>1, <2>2, ToldVif DEF Entries
    <2> QED BY <2>1, <2>3 DEF Entries, EntriesFresh, Empty, Present
  <1> QED BY <1>1, <1>2, <1>4, <1>5, <1>6, <1>7, <1>8, <1>9 DEF TabNext, OffNext, Operation, Along
-----------------------------------------------------------------------------
(* A reset is asked for or runs: what the firmware forgets is told again   *)
(* when it ends. What the iteration has still to tell of an interface, and *)
(* the operation of its own.                                               *)
Due == work.queued \/ work.at \notin {"idle", "ifaces"}
Coming(w, v) == v \in iter.left \/ \E c \in Range(iter.todo) : c.who = v /\ c.what = w
Sending(w) == \E c \in Range(op.todo) : c.what = w

(* The number of an interface that has been told is not lost before        *)
(* mt7921_add_interface returns, though a reset may come due meanwhile.    *)
KnownAdd ==
    op.name = "add" /\ op.todo = <<>> /\ (work.at \in {"end", "clear"} \/ ~iter.crossed)
    => fw.dev[op.at] = op.who

(* Nor is the BSS that mt7921_start_ap has told of.                        *)
KnownStart ==
    op.name = "start" => \A w \in {"bss", "own"} : w \in fw.bss[op.at] \/ Sending(w)

(* TablesRestored at every point of the iteration and of the operations:   *)
(* the firmware knows, or was told last in vain, or will be told.          *)
KnownAll ==
    ~iter.crossed /\ ~Due =>
        /\ \A v \in Added : Active(v) => KnownVif(v) \/ Coming("dev", v)
        /\ \A v \in drv.started, w \in {"bss", "own"} : KnownBss(v, w) \/ Coming(w, v)
        /\ \A v \in drv.beacon :
               \/ KnownBss(v, "beacon") \/ Coming("beacon", v)
               \/ op.name = "beacon" /\ op.who = v /\ Sending("beacon")

(* Until removal has unregistered the device.                              *)
Tables == removal \in Here => KnownAdd /\ KnownStart /\ KnownAll

(* A reset that is due stops being so only where the iteration begins, or  *)
(* when the device is removed; that it has ended follows its mutex.        *)
LEMMA ResetDue ==
  ASSUME LifeTypes, Shape, LifeNext
  PROVE  /\ removal' \in Here => removal \in Here
         /\ Due /\ ~Due' /\ removal' \in Here => work.at = "clear" /\ work'.at = "ifaces"
         /\ work'.at \in {"end", "clear"} => work.at \in {"out", "end", "clear"}
  <1>0. work \in WorkSet
    BY DEF LifeTypes
  <1> USE <1>0 DEF Due
  <1>1. CASE ~RemoveStep /\ UNCHANGED removal /\ (UNCHANGED work \/ AskReset \/ work' = Queue)
    BY <1>1, Asks
  <1>2. CASE Load \/ ReportTest \/ ReportQueue \/ Doze \/ WakeUp
    BY <1>2, Asks DEF Load, lifevars, ReportTest, ReportQueue, Doze, WakeUp, DrvOwn
  <1>3. CASE RegdStep
    BY <1>3, Asks DEF RegdStep, RegdTest, RegdMark, RegdLock, RegdUpdate, RegdDone
  <1>4. CASE SuspendStep \/ ResumeStep
    <2>1. UNCHANGED removal /\ (UNCHANGED work \/ AskReset \/ work' = Queue)
      BY <1>4 DEF SuspendStep, SuspendBegin, SuspendFlush, SuspendCancel, SuspendOwn, SuspendRegd,
          SuspendLate, SuspendHif, SuspendTx, SuspendRx, SuspendDma, SuspendFw, SuspendUnhif,
          SuspendEnd, ResumeStep, ResumeOwn, ResumeHw, ResumeNapi, ResumeHif, ResumeUpdate,
          ResumeEnd, Asleep, DrvOwn
    <2> QED BY <2>1, Asks
  <1>5. CASE ResetStep
    <2>1. UNCHANGED removal
      BY <1>5 DEF ResetStep, ResetBegin, ResetLock, ResetOwn, ResetWorker, ResetRx, ResetTx,
          ResetDma, ResetOpen, ResetDown, ResetLoaded, ResetStart, ResetOut, ResetEnd, ResetClear,
          ResetIfaces, Resetting
    <2>2. CASE ResetBegin \/ ResetEnd \/ ResetClear \/ ResetIfaces
      BY <2>1, <2>2 DEF ResetBegin, ResetEnd, ResetClear, ResetIfaces, At, Idle, WorkSet
    <2>3. CASE ResetLock \/ ResetOwn \/ ResetWorker \/ ResetRx \/ ResetTx \/ ResetDma \/ ResetOpen
      BY <2>1, <2>3 DEF ResetLock, ResetOwn, ResetWorker, ResetRx, ResetTx, ResetDma, ResetOpen, At,
          WorkSet
    <2>4. CASE ResetDown \/ ResetLoaded \/ ResetStart \/ ResetOut
      BY <2>1, <2>4 DEF ResetDown, ResetLoaded, ResetStart, ResetOut, At, Again, WorkSet
    <2> QED BY <1>5, <2>2, <2>3, <2>4 DEF ResetStep
  <1>6. CASE InitStep
    BY <1>6 DEF InitStep, InitOwn, InitLoaded, InitConfig, InitReset, InitRegister, InitFinish,
        Starting
  <1>7. CASE RemoveStep
    BY <1>7 DEF RemoveStep, RemoveBegin, RemoveInit, RemoveUnregister, RemoveNapi, RemoveCancel,
        RemoveOwn, RemoveFree, Next1, WorkSet, Here
  <1> QED BY <1>2, <1>3, <1>4, <1>5, <1>6, <1>7 DEF LifeNext

(* Steps of others leave Tables.                                           *)
LEMMA TablesSame ==
  ASSUME Tables, UNCHANGED <<drv, op, iter, fw, work, removal>>
  PROVE  Tables'
  BY DEF Tables, KnownAdd, KnownStart, KnownAll, KnownVif, KnownBss, Due, Coming, Sending, Added,
      Active

(* A started access point is not being removed.                            *)
LEMMA StartedActive ==
  ASSUME OpDrv
  PROVE  \A v \in drv.started : v \in Added /\ Active(v) /\ v \in Aps
  BY DEF OpDrv, OpShape, DrvShape, DrvSet, Active

(* A step of the device's life keeps Tables: what is forgotten is due, and *)
(* the iteration begins with every interface that is there.                *)
LEMMA TablesLife ==
  ASSUME LifeTypes, Shape, Locks, OpDrv, IterShape, Tables, LifeNext, Along
  PROVE  Tables'
  <1> SUFFICES ASSUME removal' \in Here PROVE KnownAdd' /\ KnownStart' /\ KnownAll'
    BY DEF Tables
  <1>1. removal \in Here /\ KnownAdd /\ KnownStart /\ KnownAll
    BY ResetDue DEF Tables
  <1>2. /\ drv' = drv /\ op' = op /\ fw' = IF Forgets THEN NoTables ELSE fw
        /\ iter' = IF work.at = "clear" /\ work'.at = "ifaces" THEN IterStart ELSE iter
    BY DEF Along, TabAlong
  <1>3. Forgets => op = NoOp /\ op.name = "none"
    BY ForgetsIdle, NoOpTyped
  <1>4. op.name \in {"add", "start"} => fw' = fw
    BY <1>2, <1>3
  <1>5. KnownStart'
    BY <1>1, <1>2, <1>4 DEF KnownStart, Sending
  <1>6. KnownAdd'
    <2> SUFFICES ASSUME op.name = "add", op.todo = <<>>, work'.at \in {"end", "clear"}
                        \/ ~iter'.crossed
                 PROVE  fw.dev[op.at] = op.who
      BY <1>2, <1>4 DEF KnownAdd
    <2>1. CASE work.at \in {"end", "clear"}
      BY <1>1, <2>1 DEF KnownAdd
    <2>2. CASE work.at \notin {"end", "clear"}
      <3>1. work'.at \notin {"end", "clear"}
        <4>1. op # NoOp /\ mutex = "mac"
          BY NoOpTyped DEF Locks
        <4>2. work.at # "out"
          BY <4>1 DEF Locks, Owned
        <4> QED BY <2>2, <4>2, ResetDue
      <3> QED BY <1>1, <1>2, <2>2, <3>1 DEF KnownAdd
    <2> QED BY <2>1, <2>2
  <1>7. KnownAll'
    <2> SUFFICES ASSUME ~iter'.crossed, ~Due'
                 PROVE  /\ \A v \in Added :
                               Active(v) => KnownVif(v)' \/ Coming("dev", v)'
                        /\ \A v \in drv.started, w \in {"bss", "own"} :
                               KnownBss(v, w)' \/ Coming(w, v)'
                        /\ \A v \in drv.beacon :
                               \/ KnownBss(v, "beacon")' \/ Coming("beacon", v)'
                               \/ op.name = "beacon" /\ op.who = v /\ Sending("beacon")
      BY <1>2 DEF KnownAll, Added, Active, Sending
    <2>1. drv.started \subseteq Added /\ drv.beacon \subseteq drv.started
      BY DEF OpDrv, DrvShape
    <2>2. CASE work.at = "clear" /\ work'.at = "ifaces"
      <3>1. iter'.left = {v \in Vifs : Active(v)}
        BY <1>2, <2>2 DEF IterStart, IterIdle
      <3>2. \A v \in Added : Active(v) => \A w : Coming(w, v)'
        BY <3>1 DEF Coming, Added
      <3>3. \A v \in drv.started : \A w : Coming(w, v)'
        BY <3>2, StartedActive
      <3> QED BY <2>1, <3>2, <3>3
    <2>3. CASE ~(work.at = "clear" /\ work'.at = "ifaces")
      <3>1. iter' = iter /\ ~Due
        BY <1>2, <2>3, ResetDue
      <3>2. CASE Forgets
        <4>1. ~done
          <5>1. work'.at \notin {"open", "load"}
            BY DEF Due
          <5>2. removal # "free"
            BY <1>1 DEF Here
          <5> QED BY <3>2, <5>1, <5>2, Forget
        <4>2. Added = {}
          BY <4>1 DEF OpDrv, DrvShape
        <4> QED BY <2>1, <4>2
      <3>3. CASE ~Forgets
        BY <1>1, <1>2, <3>1, <3>3 DEF KnownAll, KnownVif, KnownBss, Coming
      <3> QED BY <3>2, <3>3
    <2> QED BY <2>2, <2>3
  <1> QED BY <1>5, <1>6, <1>7

(* An operation that begins keeps Tables when it has told nothing yet.     *)
LEMMA TablesBegin ==
  ASSUME OpDrv, IterShape, Tables, NEW name, NEW who, NEW at, NEW v, NEW todo, Begin(name, who, at,
         v, todo),
         drv'.idx = drv.idx, drv'.started \subseteq drv.started,
         \A u \in drv'.beacon : \/ u \in drv.beacon
                                \/ name = "beacon" /\ who = u
                                   /\ \E c \in Range(todo) : c.what = "beacon",
         name = "add" => todo # <<>>,
         name = "start" => \A w \in {"bss", "own"} : \E c \in Range(todo) : c.what = w
  PROVE  Tables'
  <1>1. /\ op = NoOp /\ UNCHANGED <<work, fw, removal>>
        /\ op' = [name |-> name, who |-> who, at |-> at, vif |-> v, todo |-> todo]
        /\ iter' = [iter EXCEPT !.crossed = @ \/ (name = "remove" /\ iter.todo # <<>>
           /\ Head(iter.todo).who = who)]
    BY DEF Begin, OnlyTables
  <1>2. op'.name = name /\ op'.who = who /\ op'.at = at /\ op'.todo = todo /\ op.name = "none"
    BY <1>1, NoOpTyped
  <1>3. iter'.left = iter.left /\ iter'.todo = iter.todo /\ iter'.refused = iter.refused
        /\ (~iter'.crossed => ~iter.crossed)
    BY <1>1 DEF IterShape, IterSet
  <1>4. KnownAdd' /\ KnownStart'
    BY <1>2 DEF KnownAdd, KnownStart, Sending
  <1>5. removal \in Here /\ KnownAll => KnownAll'
    BY <1>1, <1>2, <1>3 DEF KnownAll, KnownVif, KnownBss, Added, Active, Coming, Sending, Due
  <1> QED BY <1>1, <1>4, <1>5 DEF Tables

(* So begin the operations on interfaces.                                  *)
LEMMA TablesVif ==
  ASSUME OpDrv, IterShape, Tables, NEW v \in Vifs,
         AddInterface(v) \/ RemoveInterface(v) \/ StartAp(v) \/ EnableBeacon(v) \/ StopAp(v)
  PROVE  Tables'
  <1> DEFINE i == drv.idx[v]
             n == Least(Indices \ {drv.idx[u] : u \in Vifs})
  <1>1. CASE AddInterface(v)
    <2> DEFINE c == Cmd("dev", n, v, TRUE)
    <2>1. Begin("add", v, n, v, <<c>>) /\ UNCHANGED drv
      BY <1>1 DEF AddInterface
    <2> HIDE DEF c
    <2>2. <<c>> # <<>>
      BY SomeCommand
    <2> QED BY <2>1, <2>2, TablesBegin
  <1>2. CASE RemoveInterface(v)
    <2> DEFINE c == Cmd("dev", i, v, FALSE)
    <2>1. Begin("remove", v, i, v, <<c>>) /\ UNCHANGED drv
      BY <1>2 DEF RemoveInterface
    <2> HIDE DEF c
    <2> QED BY <2>1, TablesBegin
  <1>3. CASE StartAp(v)
    <2> DEFINE c == Cmd("bss", i, v, TRUE)
               d == Cmd("pm", i, v, TRUE)
               e == Cmd("own", i, v, TRUE)
    <2>1. Begin("start", v, i, v, <<c, d, e>>) /\ UNCHANGED drv
      BY <1>3 DEF StartAp
    <2>2. c.what = "bss" /\ e.what = "own"
      BY DEF Cmd
    <2> HIDE DEF c, d, e
    <2>3. Range(<<c, d, e>>) = {c, d, e}
      <3>1. c \in {c, d, e} /\ d \in {c, d, e} /\ e \in {c, d, e}
        OBVIOUS
      <3> QED BY ONLY <3>1, Three
    <2>4. \A w \in {"bss", "own"} : \E x \in Range(<<c, d, e>>) : x.what = w
      BY <2>2, <2>3
    <2> QED BY <2>1, <2>4, TablesBegin
  <1>4. CASE EnableBeacon(v)
    <2> DEFINE c == Cmd("beacon", i, v, TRUE)
    <2>1. Begin("beacon", v, i, v, <<c>>) /\ drv' = [drv EXCEPT !.beacon = @ \union {v}]
      BY <1>4 DEF EnableBeacon
    <2>2. c.what = "beacon"
      BY DEF Cmd
    <2> HIDE DEF c
    <2>3. Range(<<c>>) = {c}
      <3>1. c \in {c}
        OBVIOUS
      <3> QED BY <3>1, One
    <2>4. drv'.idx = drv.idx /\ drv'.started = drv.started /\ drv'.beacon = drv.beacon \union {v}
      BY <2>1 DEF OpDrv, DrvSet
    <2>5. \E e \in Range(<<c>>) : e.what = "beacon"
      BY <2>2, <2>3
    <2> QED BY <2>1, <2>4, <2>5, TablesBegin
  <1>5. CASE StopAp(v)
    <2> DEFINE c == Cmd("pm", i, v, FALSE)
               d == Cmd("bss", i, v, FALSE)
    <2>1. Begin("stop", v, i, v, <<c, d>>) /\ drv' = [drv EXCEPT !.started = @ \ {v},
          !.beacon = @ \ {v}]
      BY <1>5 DEF StopAp
    <2> HIDE DEF c, d
    <2>2. drv'.idx = drv.idx /\ drv'.started \subseteq drv.started
          /\ drv'.beacon \subseteq drv.beacon
      BY <2>1 DEF OpDrv, DrvSet
    <2> QED BY <2>1, <2>2, TablesBegin
  <1> QED BY <1>1, <1>2, <1>3, <1>4, <1>5

(* And those on stations.                                                  *)
LEMMA TablesPeer ==
  ASSUME OpDrv, IterShape, Tables, NEW p \in Peers,
         \/ \E v \in Vifs : StaAdd(p, v)
         \/ StaAssoc(p) \/ StaRemove(p)
         \/ \E on \in BOOLEAN : SetKey(p, on) \/ Ampdu(p, on)
  PROVE  Tables'
  <1>1. /\ drv'.idx = drv.idx /\ drv'.started = drv.started /\ drv'.beacon = drv.beacon
        /\ \E name \in PeerOps \union {"sta add"} : \E who, at, v, todo : Begin(name, who, at, v,
           todo)
    <2>1. CASE \E v \in Vifs : StaAdd(p, v)
      BY <2>1 DEF StaAdd, OpDrv, DrvSet
    <2>2. CASE StaAssoc(p)
      BY <2>2 DEF StaAssoc, PeerOps, OpDrv, DrvSet
    <2>3. CASE StaRemove(p)
      BY <2>3 DEF StaRemove, PeerOps
    <2>4. CASE \E on \in BOOLEAN : SetKey(p, on) \/ Ampdu(p, on)
      BY <2>4 DEF SetKey, Ampdu, PeerOps
    <2> QED BY <2>1, <2>2, <2>3, <2>4
  <1>2. PICK name, who, at, v, todo :
            name \in PeerOps \union {"sta add"} /\ Begin(name, who, at, v, todo)
    BY <1>1
  <1>3. name \notin {"add", "start"}
    BY <1>2 DEF PeerOps
  <1> QED BY <1>1, <1>2, <1>3, TablesBegin

(* What the driver remembers at the end, the firmware knows.               *)
LEMMA TablesReturn ==
  ASSUME OpDrv, IterShape, Tables, Return
  PROVE  Tables'
  <1>1. op.todo = <<>> /\ op' = NoOp /\ drv' = Remembered /\ UNCHANGED <<work, iter, fw, removal>>
    BY DEF Return, OnlyTables
  <1>2. op'.name = "none"
    BY <1>1, NoOpTyped
  <1>3. \A w : ~Sending(w)
    BY <1>1, NoOpTyped DEF Sending
  <1> SUFFICES ASSUME KnownAdd, KnownStart, KnownAll PROVE KnownAll'
    BY <1>1, <1>2 DEF Tables, KnownAdd, KnownStart
  <1> DEFINE Vif(i, v) == fw.dev[i] = v \/ <<"dev", i>> \in iter.refused
             Bsd(i, w) == w \in fw.bss[i] \/ <<w, i>> \in iter.refused
  <1> SUFFICES ASSUME ~iter.crossed, ~Due
               PROVE  /\ \A v \in Added' : Vif(drv'.idx[v], v) \/ Coming("dev", v)
                      /\ \A v \in drv'.started, w \in {"bss", "own"} :
                             Bsd(drv'.idx[v], w) \/ Coming(w, v)
                      /\ \A v \in drv'.beacon :
                             Bsd(drv'.idx[v], "beacon") \/ Coming("beacon", v)
    BY <1>1 DEF KnownAll, KnownVif, KnownBss, Coming, Due
  <1>4. /\ \A v \in Added : Active(v) => Vif(drv.idx[v], v) \/ Coming("dev", v)
        /\ \A v \in drv.started, w \in {"bss", "own"} : Bsd(drv.idx[v], w) \/ Coming(w, v)
        /\ \A v \in drv.beacon : Bsd(drv.idx[v], "beacon") \/ Coming("beacon", v)
    BY <1>3 DEF KnownAll, KnownVif, KnownBss
  <1>5. drv.started \subseteq Added /\ drv.beacon \subseteq drv.started
    BY DEF OpDrv, DrvShape
  <1>6. CASE op.name = "add"
    <2>1. op.who \in Vifs /\ drv.idx[op.who] = Gone
      BY <1>6 DEF OpDrv, OpShape, VifOps
    <2>2. drv'.started = drv.started /\ drv'.beacon = drv.beacon
          /\ \A u \in Vifs : drv'.idx[u] = IF u = op.who THEN op.at ELSE drv.idx[u]
      BY <1>1, <1>6, <2>1 DEF Remembered, OpDrv, DrvSet
    <2>3. Vif(op.at, op.who)
      BY <1>1, <1>6 DEF KnownAdd
    <2>4. \A v \in Added' : v = op.who \/ (v \in Added /\ Active(v))
      BY <1>6, <2>2 DEF Added, Active
    <2>5. \A v \in drv.started : v # op.who /\ v \in Vifs
      BY <1>5, <2>1 DEF Added
    <2> HIDE DEF Vif, Bsd
    <2> QED BY <1>4, <1>5, <2>1, <2>2, <2>3, <2>4, <2>5 DEF Added
  <1>7. CASE op.name = "remove"
    <2>1. op.who \in Vifs /\ op.who \notin drv.started
      BY <1>7 DEF OpDrv, OpShape, VifOps
    <2>2. drv'.started = drv.started /\ drv'.beacon = drv.beacon
          /\ \A u \in Vifs : drv'.idx[u] = IF u = op.who THEN Gone ELSE drv.idx[u]
      BY <1>1, <1>7, <2>1 DEF Remembered, OpDrv, DrvSet
    <2>3. \A v \in Added' : v # op.who /\ v \in Added /\ Active(v)
      BY <1>7, <2>2 DEF Added, Active
    <2>4. \A v \in drv.started : v # op.who /\ v \in Vifs
      BY <1>5, <2>1 DEF Added
    <2> HIDE DEF Vif, Bsd
    <2> QED BY <1>4, <1>5, <2>1, <2>2, <2>3, <2>4 DEF Added
  <1>8. CASE op.name = "start"
    <2>1. op.at = drv.idx[op.who]
      BY <1>8 DEF OpDrv, OpShape, VifOps
    <2>2. drv'.started = drv.started \union {op.who} /\ drv'.beacon = drv.beacon
          /\ drv'.idx = drv.idx
      BY <1>1, <1>8 DEF Remembered, OpDrv, DrvSet
    <2>3. \A w \in {"bss", "own"} : Bsd(op.at, w)
      BY <1>3, <1>8 DEF KnownStart
    <2>4. \A v \in Added' : v \in Added /\ Active(v)
      BY <1>8, <2>2 DEF Added, Active
    <2> HIDE DEF Vif, Bsd
    <2> QED BY <1>4, <2>1, <2>2, <2>3, <2>4
  <1>9. CASE op.name \notin {"add", "remove", "start"}
    <2>1. drv'.started = drv.started /\ drv'.beacon = drv.beacon /\ drv'.idx = drv.idx
      BY <1>1, <1>9 DEF Remembered, OpDrv, DrvSet
    <2>2. \A v \in Added' : v \in Added /\ Active(v)
      BY <1>9, <2>1 DEF Added, Active
    <2> HIDE DEF Vif, Bsd
    <2> QED BY <1>4, <2>1, <2>2
  <1> QED BY <1>6, <1>7, <1>8, <1>9

(* Interfaces by their numbers.                                            *)
LEMMA Indexed ==
  ASSUME OpDrv
  PROVE  /\ \A v \in Added : v \in Vifs /\ drv.idx[v] \in Indices
         /\ \A v, u \in Added : v # u => drv.idx[v] # drv.idx[u]
         /\ drv.started \subseteq Added /\ drv.beacon \subseteq drv.started
         /\ op.name = "add" => \A v \in Added : drv.idx[v] # op.at
  BY DEF OpDrv, OpShape, DrvShape, DrvSet, Added

(* A command of an operation takes nothing from the other interfaces, nor  *)
(* from a started access point; nor is that about another interface what   *)
(* it teaches the firmware.                                                *)
LEMMA ToldHarmless ==
  ASSUME OpDrv, fw \in FwSet, op.todo # <<>>, Awaits(Head(op.todo))
  PROVE  LET c == Head(op.todo) IN
         /\ \A v \in Added : Active(v) => TableEntry(c) # <<"dev", drv.idx[v]>>
         /\ \A v \in drv.started, w \in Bsses :
                TableEntry(c) = <<w, drv.idx[v]>> => w \in Told(c).bss[drv.idx[v]]
         /\ \A v \in Added : Active(v) => Told(c).dev[drv.idx[v]] = fw.dev[drv.idx[v]]
         /\ \A v \in drv.started : fw.bss[drv.idx[v]] \subseteq Told(c).bss[drv.idx[v]]
         /\ op.name = "add" => Told(c).dev[op.at] = op.who
         /\ op.name \in {"start", "beacon"} =>
               /\ op.at \in Indices /\ fw.bss[op.at] \subseteq Told(c).bss[op.at]
               /\ c.what \in Told(c).bss[op.at]
  <1> DEFINE c == Head(op.todo)
  <1>1. Allowed(c) /\ (c \in VifCmds \/ (c \in PeerCmds /\ c \notin VifCmds
        /\ op.name \in PeerOps \union {"sta add"}))
    BY Commands
  <1> HIDE DEF c, TableEntry, Bsses
  <1> USE Indexed
  <1>2. CASE c \in PeerCmds /\ c \notin VifCmds /\ op.name \in PeerOps \union {"sta add"}
    BY <1>2, ToldPeer DEF c, PeerOps, PeerCmds, TableEntry, Bsses
  <1>3. CASE c \in VifCmds
    <2>0. /\ c.what \in {"dev", "bss", "own", "beacon"} /\ c.at \in Indices
          /\ \A i \in Indices : i # c.at => Told(c).dev[i] = fw.dev[i] /\ Told(c).bss[i] = fw.bss[i]
          /\ c.on => fw.bss[c.at] \subseteq Told(c).bss[c.at]
          /\ c.on /\ c.what = "dev" => Told(c).dev[c.at] = c.who
          /\ c.what # "dev" => Told(c).dev[c.at] = fw.dev[c.at]
          /\ c.on /\ c.what # "dev" => c.what \in Told(c).bss[c.at]
      BY <1>3, ToldVif DEF VifCmds
    <2>6. c.what \notin {"rec", "key", "ba"}
      BY <1>3 DEF VifCmds
    <2>7. \A what, on : Mine(what, on).what = what
      BY DEF Mine, Cmd
    <2>9. c.what # "pm"
      BY <1>3 DEF VifCmds
    <2>1. CASE op.name = "add"
      <3>1. c = Mine("dev", TRUE)
        BY <1>1, <2>1 DEF Allowed
      <3>2. c.at = op.at /\ c.who = op.who /\ c.what = "dev" /\ c.on
        BY <3>1 DEF Mine, Cmd
      <3> QED BY <2>0, <2>1, <3>2 DEF c, TableEntry, Bsses
    <2>2. CASE op.name = "remove"
      <3>1. c = Mine("dev", FALSE)
        BY <1>1, <2>2 DEF Allowed
      <3>2. c.at = drv.idx[op.who] /\ op.who \in Vifs /\ op.who \notin drv.started
        BY <2>2, <3>1 DEF Mine, Cmd, OpDrv, OpShape, VifOps
      <3>3. \A v \in Added : v # op.who => drv.idx[v] # c.at
        BY <3>2 DEF OpDrv, DrvShape, Added
      <3>4. \A v \in Added : Active(v) => v # op.who
        BY <2>2 DEF Active
      <3> QED BY <2>0, <2>2, <3>2, <3>3, <3>4 DEF c, TableEntry, Bsses
    <2>3. CASE op.name \in {"start", "beacon"}
      <3>1. c \in {Mine("bss", TRUE), Mine("own", TRUE), Mine("beacon", TRUE)}
        BY <1>1, <2>3, <2>7, <2>9 DEF Allowed
      <3>2. c.at = op.at /\ c.what # "dev" /\ c.on
        BY <3>1 DEF Mine, Cmd
      <3> QED BY <2>0, <2>3, <3>2 DEF c, TableEntry, Bsses
    <2>4. CASE op.name = "stop"
      <3>1. c = Mine("bss", FALSE)
        BY <1>1, <2>4, <2>7, <2>9 DEF Allowed
      <3>2. c.at = drv.idx[op.who] /\ op.who \in Vifs /\ op.who \notin drv.started /\ c.what # "dev"
        BY <2>4, <3>1 DEF Mine, Cmd, OpDrv, OpShape, VifOps
      <3>3. \A v \in drv.started : drv.idx[v] # c.at
        BY <3>2 DEF OpDrv, DrvShape, Added
      <3> QED BY <2>0, <2>4, <3>2, <3>3 DEF c, TableEntry, Bsses
    <2>5. CASE op.name \in {"assoc", "sta remove"} /\ op.vif \in Stas
               /\ \E on \in BOOLEAN : c = OfVif(on)
      <3>0. PICK on \in BOOLEAN : c = OfVif(on)
        BY <2>5
      <3>a. c.at = drv.idx[op.vif] /\ c.what = "bss"
        BY <3>0 DEF OfVif, Cmd
      <3>1. c.at = drv.idx[op.vif] /\ c.what # "dev" /\ op.vif \in Vifs
            /\ drv.idx[op.vif] \in Indices
        BY <2>5, <3>a DEF OpDrv, OpShape, PeerOps
      <3>2. \A v \in drv.started : v # op.vif
        BY <2>5, StartedActive, Gones
      <3>3. \A v \in drv.started : drv.idx[v] # c.at
        BY <3>1, <3>2, Gones DEF OpDrv, DrvShape, Added
      <3> QED BY <2>0, <2>5, <3>1, <3>3 DEF c, TableEntry, Bsses
    <2>8. \/ op.name \in {"add", "remove", "start", "beacon", "stop"}
          \/ op.name \in {"assoc", "sta remove"} /\ op.vif \in Stas
             /\ \E on \in BOOLEAN : c = OfVif(on)
      <3>1. \A on : c \notin {Mine("rec", on), Mine("key", on), Mine("ba", on)}
        BY <2>6, <2>7
      <3> QED BY <1>1, <3>1 DEF Allowed
    <2> QED BY <2>1, <2>2, <2>3, <2>4, <2>5, <2>8
  <1> QED BY <1>1, <1>2, <1>3

(* A command keeps Tables. One that is not answered asks for a reset: the  *)
(* device is registered and awake. One that is refused is remembered.      *)
LEMMA TablesCommand ==
  ASSUME LifeTypes, Shape, Locks, OpDrv, fw \in FwSet, IterShape, Tables, Command
  PROVE  Tables'
  <1> DEFINE c == Head(op.todo)
             rest == Tail(op.todo)
  <1>0. /\ op.todo # <<>> /\ UNCHANGED <<drv, removal>>
        /\ \/ Understood(c) /\ Passes /\ iter' = [iter EXCEPT !.refused = Learned(c)]
           \/ Posted(c) /\ Passes /\ iter' = [iter EXCEPT !.refused = Learned(c)]
           \/ Refused(c) /\ Fails /\ iter' = [iter EXCEPT !.refused = Missed(c)]
           \/ Ignored(c) /\ Fails /\ UNCHANGED iter
    BY DEF Command, OnlyTables
  <1>1. op.todo \in Seq(Cmds)
    BY DEF OpDrv, OpSet
  <1>2. rest \in Seq(Cmds) /\ Range(op.todo) \subseteq {c} \union Range(rest)
    BY <1>0, <1>1, HeadTail
  <1>3. Awaits(c) =>
        /\ \A v \in Added : Active(v) => TableEntry(c) # <<"dev", drv.idx[v]>>
        /\ \A v \in drv.started, w \in Bsses :
               TableEntry(c) = <<w, drv.idx[v]>> => w \in Told(c).bss[drv.idx[v]]
        /\ \A v \in Added : Active(v) => Told(c).dev[drv.idx[v]] = fw.dev[drv.idx[v]]
        /\ \A v \in drv.started : fw.bss[drv.idx[v]] \subseteq Told(c).bss[drv.idx[v]]
        /\ op.name = "add" => Told(c).dev[op.at] = op.who
        /\ op.name \in {"start", "beacon"} =>
              /\ op.at \in Indices /\ fw.bss[op.at] \subseteq Told(c).bss[op.at]
              /\ c.what \in Told(c).bss[op.at]
    BY <1>0, ToldHarmless
  <1>4. ~Awaits(c) => c.what = "pm" /\ op.name \in {"start", "stop"}
    BY <1>0, Unawaited DEF Awaits
  <1>a. op.name = "beacon" /\ Awaits(c) => TableEntry(c) = <<"beacon", op.at>>
    <2>1. Allowed(c)
      BY <1>0, <1>1, HeadTail DEF OpDrv, OpShape
    <2> QED BY <2>1 DEF Allowed, Mine, Cmd, TableEntry
  <1>6. Passes => op'.name = op.name /\ op'.who = op.who /\ op'.at = op.at /\ op'.todo = rest
    BY DEF Passes, OpDrv, OpSet
  <1>7. \A set : iter' = [iter EXCEPT !.refused = set] =>
            iter'.left = iter.left /\ iter'.todo = iter.todo /\ iter'.crossed = iter.crossed
            /\ iter'.refused = set
    BY DEF IterShape, IterSet
  <1>8. Fails => op'.name \notin {"add", "start"}
    BY NoOpTyped DEF Fails, Strict, OpDrv, OpSet
  <1>9. Fails /\ op.name = "beacon" => op'.name = "beacon" /\ op'.who = op.who
    BY DEF Fails, Strict, OpDrv, OpSet
  <1>10. Bsses = {"bss", "own", "beacon"} /\ \A w \in Bsses : w # "dev" /\ w # "pm"
    BY DEF Bsses
  <1> HIDE DEF c, rest
  <1>11. CASE Understood(c) /\ Passes /\ iter' = [iter EXCEPT !.refused = Learned(c)]
    <2>1. fw' = Told(c) /\ op'.name = op.name /\ op'.who = op.who /\ op'.at = op.at
          /\ op'.todo = rest /\ Awaits(c) /\ UNCHANGED work
      BY <1>6, <1>11 DEF Understood
    <2>a. iter'.left = iter.left /\ iter'.todo = iter.todo /\ iter'.crossed = iter.crossed
          /\ iter'.refused = iter.refused \ {TableEntry(c)}
      BY <1>7, <1>11 DEF Learned
    <2> SUFFICES ASSUME KnownAdd, KnownStart, KnownAll PROVE KnownAdd' /\ KnownStart' /\ KnownAll'
      BY <1>0 DEF Tables
    <2>2. KnownAdd'
      BY <1>3, <2>1 DEF KnownAdd
    <2>3. \A w : Sending(w) => c.what = w \/ Sending(w)'
      BY <1>2, <2>1 DEF Sending
    <2>4. KnownStart'
      BY <1>3, <2>1, <2>3 DEF KnownStart
    <2>5. KnownAll'
      <3> SUFFICES ASSUME ~iter.crossed, ~Due
                   PROVE  /\ \A v \in Added : Active(v) => KnownVif(v)' \/ Coming("dev", v)
                          /\ \A v \in drv.started, w \in {"bss", "own"} :
                                 KnownBss(v, w)' \/ Coming(w, v)
                          /\ \A v \in drv.beacon :
                                 \/ KnownBss(v, "beacon")' \/ Coming("beacon", v)
                                 \/ op.name = "beacon" /\ op.who = v /\ Sending("beacon")'
        BY <1>0, <2>1, <2>a DEF KnownAll, Added, Active, Coming, Due
      <3>0. drv' = drv
        BY <1>0
      <3>1. \A v \in Added : Active(v) => KnownVif(v)' \/ Coming("dev", v)
        BY <1>3, <2>1, <2>a, <3>0 DEF KnownAll, KnownVif
      <3>a. \A v \in drv.started, w \in Bsses : KnownBss(v, w) => KnownBss(v, w)'
        BY <1>3, <2>1, <2>a, <3>0 DEF KnownBss
      <3>2. \A v \in drv.started, w \in {"bss", "own"} : KnownBss(v, w)' \/ Coming(w, v)
        BY <1>10, <3>a DEF KnownAll
      <3>3. ASSUME NEW v \in drv.beacon
            PROVE  \/ KnownBss(v, "beacon")' \/ Coming("beacon", v)
                   \/ op.name = "beacon" /\ op.who = v /\ Sending("beacon")'
        <4>1. v \in drv.started
          BY Indexed
        <4>2. CASE KnownBss(v, "beacon")
          BY <1>10, <3>a, <4>1, <4>2
        <4>3. CASE op.name = "beacon" /\ op.who = v /\ Sending("beacon")
          <5>1. op.at = drv.idx[v]
            BY <4>3 DEF OpDrv, OpShape, VifOps
          <5> QED BY <1>3, <2>1, <2>3, <3>0, <4>3, <5>1 DEF KnownBss
        <4> QED BY <3>3, <4>2, <4>3 DEF KnownAll
      <3> QED BY <3>1, <3>2, <3>3
    <2> QED BY <2>2, <2>4, <2>5
  <1>12. CASE Posted(c) /\ Passes /\ iter' = [iter EXCEPT !.refused = Learned(c)]
    <2>1. UNCHANGED <<fw, work>> /\ c.what = "pm" /\ op.name \in {"start", "stop"}
      BY <1>4, <1>12 DEF Posted
    <2>2. iter'.left = iter.left /\ iter'.todo = iter.todo /\ iter'.crossed = iter.crossed
          /\ iter'.refused = iter.refused \ {TableEntry(c)}
      BY <1>7, <1>12 DEF Learned
    <2>3. \A i, w : w # "pm" /\ <<w, i>> \in iter.refused => <<w, i>> \in iter'.refused
      BY <2>1, <2>2 DEF TableEntry
    <2>4. \A w : Sending(w) => w = "pm" \/ Sending(w)'
      BY <1>2, <1>6, <1>12, <2>1 DEF Sending
    <2>5. \A v : KnownVif(v) => KnownVif(v)'
      BY <1>0, <2>1, <2>3 DEF KnownVif
    <2>6. \A v, w : w # "pm" /\ KnownBss(v, w) => KnownBss(v, w)'
      BY <1>0, <2>1, <2>3 DEF KnownBss
    <2>7. KnownStart => KnownStart'
      BY <1>6, <1>12, <2>1, <2>4 DEF KnownStart
    <2>8. KnownAll => KnownAll'
      BY <1>0, <1>6, <1>12, <2>1, <2>2, <2>5, <2>6 DEF KnownAll, Added, Active, Coming, Due
    <2>9. KnownAdd'
      BY <1>6, <1>12, <2>1 DEF KnownAdd
    <2> QED BY <1>0, <2>7, <2>8, <2>9 DEF Tables
  <1>13. CASE Refused(c) /\ Fails /\ iter' = [iter EXCEPT !.refused = Missed(c)]
    <2>1. UNCHANGED <<fw, work>>
      BY <1>13 DEF Refused
    <2>2. iter'.left = iter.left /\ iter'.todo = iter.todo /\ iter'.crossed = iter.crossed
          /\ iter'.refused = Missed(c)
      BY <1>7, <1>13
    <2>3. iter.refused \subseteq iter'.refused
      BY <2>2 DEF Missed
    <2>4. op'.name \notin {"add", "start"}
      BY <1>8, <1>13
    <2>5. KnownAdd' /\ KnownStart'
      BY <2>4 DEF KnownAdd, KnownStart
    <2>6. \A v : KnownVif(v) => KnownVif(v)'
      BY <1>0, <2>1, <2>3 DEF KnownVif
    <2>7. \A v, w : KnownBss(v, w) => KnownBss(v, w)'
      BY <1>0, <2>1, <2>3 DEF KnownBss
    <2>8. ASSUME NEW v \in drv.beacon, op.name = "beacon", op.who = v
          PROVE  KnownBss(v, "beacon")'
      <3>1. op.at = drv.idx[v] /\ op.at \in Indices
        BY <2>8 DEF OpDrv, OpShape, VifOps
      <3>2. TableEntry(c) = <<"beacon", drv.idx[v]>>
        BY <1>4, <1>a, <2>8, <3>1
      <3>3. TableEntry(c) \in VifEntries
        BY <3>1, <3>2 DEF VifEntries
      <3> QED BY <1>0, <2>2, <3>2, <3>3 DEF KnownBss, Missed
    <2>9. KnownAll => KnownAll'
      <3>2. op.name = "remove" => op'.name = "remove" /\ op'.who = op.who
        BY <1>13 DEF Fails, Strict, OpDrv, OpSet
      <3>3. \A v \in Added' : Active(v)' => v \in Added /\ Active(v)
        BY <1>0, <3>2 DEF Added, Active
      <3>4. \A w, v : Coming(w, v) => Coming(w, v)'
        BY <2>2 DEF Coming
      <3> QED BY <1>0, <2>1, <2>2, <2>6, <2>7, <2>8, <3>3, <3>4 DEF KnownAll, Due
    <2> QED BY <1>0, <2>5, <2>9 DEF Tables
  <1>5. CASE Ignored(c) /\ Fails
    <2>1. op'.name \notin {"add", "start"}
      BY <1>5, <1>8
    <2>2. Due'
      <3>1. done /\ pm = "up" /\ op # NoOp
        BY <1>0, NoOpTyped DEF Locks
      <3>2. AskReset /\ work \in WorkSet /\ ~suspended
        BY <1>5, <3>1 DEF Ignored, LifeTypes, Shape
      <3>3. work'.at = work.at /\ (~full => work'.queued)
        BY <3>1, <3>2, Asks
      <3>4. full => work.at \notin {"idle", "ifaces"}
        BY DEF Shape, Running
      <3> QED BY <3>3, <3>4 DEF Due
    <2> QED BY <2>1, <2>2 DEF Tables, KnownAdd, KnownStart, KnownAll
  <1> QED BY <1>0, <1>5, <1>11, <1>12, <1>13

(* The iteration goes on to the next interface with all it has to tell.    *)
LEMMA TablesNext ==
  ASSUME OpDrv, IterShape, Tables, IterNext
  PROVE  Tables'
  <1>1. PICK v \in iter.left : iter' = [iter EXCEPT !.left = @ \ {v},
        !.todo = IF Active(v) THEN Reconnect(v) ELSE <<>>]
    BY DEF IterNext
  <1>2. UNCHANGED <<work, drv, op, fw, removal>> /\ iter.todo = <<>>
    BY DEF IterNext, OnlyTables
  <1>3. /\ iter'.left = iter.left \ {v} /\ iter'.crossed = iter.crossed
        /\ iter'.refused = iter.refused
        /\ iter'.todo = IF Active(v) THEN Reconnect(v) ELSE <<>>
    BY <1>1 DEF IterShape, IterSet
  <1> SUFFICES ASSUME KnownAdd, KnownStart, KnownAll PROVE KnownAdd' /\ KnownStart' /\ KnownAll'
    BY <1>2 DEF Tables
  <1>4. KnownAdd' /\ KnownStart'
    BY <1>2, <1>3 DEF KnownAdd, KnownStart, Sending
  <1>5. ASSUME NEW u \in Added, NEW w, Active(u), Coming(w, u),
               w = "dev" \/ (w \in {"bss", "own"} /\ u \in Aps) \/ (w = "beacon"
               /\ u \in drv.beacon)
        PROVE  Coming(w, u)'
    <2>1. u \in iter.left
      BY <1>2, <1>5, NoCommands DEF Coming
    <2>2. CASE u # v
      BY <1>3, <2>1, <2>2 DEF Coming
    <2>3. CASE u = v
      <3>1. Cmd(w, drv.idx[u], u, TRUE) \in Range(Reconnect(u))
        BY <1>5, ReconnectList DEF OpDrv
      <3>2. Cmd(w, drv.idx[u], u, TRUE).who = u /\ Cmd(w, drv.idx[u], u, TRUE).what = w
        BY DEF Cmd
      <3> QED BY <1>3, <1>5, <2>3, <3>1, <3>2 DEF Coming
    <2> QED BY <2>2, <2>3
  <1>6. KnownAll'
    <2> SUFFICES ASSUME ~iter.crossed, ~Due
                 PROVE  /\ \A u \in Added : Active(u) => KnownVif(u) \/ Coming("dev", u)'
                        /\ \A u \in drv.started, w \in {"bss", "own"} :
                               KnownBss(u, w) \/ Coming(w, u)'
                        /\ \A u \in drv.beacon :
                               \/ KnownBss(u, "beacon") \/ Coming("beacon", u)'
                               \/ op.name = "beacon" /\ op.who = u /\ Sending("beacon")
      BY <1>2, <1>3 DEF KnownAll, KnownVif, KnownBss, Added, Active, Due, Sending
    <2>1. \A u \in Added : Active(u) => KnownVif(u) \/ Coming("dev", u)'
      BY <1>5 DEF KnownAll
    <2>2. \A u \in drv.started, w \in {"bss", "own"} : KnownBss(u, w) \/ Coming(w, u)'
      BY <1>5, StartedActive DEF KnownAll
    <2>3. \A u \in drv.beacon :
              \/ KnownBss(u, "beacon") \/ Coming("beacon", u)'
              \/ op.name = "beacon" /\ op.who = u /\ Sending("beacon")
      BY <1>5, StartedActive, Indexed DEF KnownAll
    <2> QED BY <2>1, <2>2, <2>3
  <1> QED BY <1>4, <1>6

(* A command of the iteration keeps Tables: it is about an interface that  *)
(* is there; one that is not answered asks for the next reset, or is       *)
(* marked, and one that is refused is remembered.                          *)
LEMMA TablesIterCommand ==
  ASSUME LifeTypes, Shape, OpDrv, fw \in FwSet, IterShape, Tables, IterCommand
  PROVE  Tables'
  <1> DEFINE c == Head(iter.todo)
             rest == Tail(iter.todo)
  <1>0. /\ iter.todo # <<>> /\ UNCHANGED <<drv, op, removal>>
        /\ \/ Understood(c) /\ iter' = [iter EXCEPT !.todo = rest, !.refused = Learned(c)]
           \/ Refused(c) /\ iter' = [iter EXCEPT !.todo = rest, !.refused = Missed(c)]
           \/ Ignored(c) /\ iter' = [iter EXCEPT !.todo = rest, !.crossed = @ \/ suspended]
    BY DEF IterCommand, OnlyTables
  <1>1. c \in VifCmds /\ c \in Range(iter.todo) /\ Range(iter.todo) \subseteq {c} \union Range(rest)
    BY <1>0, HeadTail DEF IterShape, IterSet
  <1>2. /\ c.at \in Indices /\ c.what \in {"dev", "bss", "own", "beacon"} /\ c.on
        /\ ~iter.crossed => c.who \in Added /\ c.at = drv.idx[c.who]
    BY <1>1 DEF VifCmds, IterShape
  <1>3. /\ \A i \in Indices : i # c.at => Told(c).dev[i] = fw.dev[i] /\ Told(c).bss[i] = fw.bss[i]
        /\ fw.bss[c.at] \subseteq Told(c).bss[c.at]
        /\ c.what = "dev" => Told(c).dev[c.at] = c.who
        /\ c.what # "dev" => Told(c).dev[c.at] = fw.dev[c.at] /\ c.what \in Told(c).bss[c.at]
    BY <1>1, <1>2, ToldVif
  <1>4. \A i \in Indices : fw.bss[i] \subseteq Told(c).bss[i]
    BY <1>3
  <1>5. work.at = "ifaces" /\ done /\ ~full
    <2>1. work.at = "ifaces"
      BY <1>0 DEF IterShape
    <2> QED BY <2>1 DEF Shape, Running
  <1> HIDE DEF c, rest
  <1>a. \A set : iter' = [iter EXCEPT !.todo = rest, !.refused = set] =>
            iter'.left = iter.left /\ iter'.todo = rest /\ iter'.crossed = iter.crossed
            /\ iter'.refused = set
    BY DEF IterShape, IterSet
  <1>b. iter' = [iter EXCEPT !.todo = rest, !.crossed = @ \/ suspended] =>
            iter'.left = iter.left /\ iter'.todo = rest /\ (~iter'.crossed => ~iter.crossed)
    BY DEF IterShape, IterSet
  <1>6. fw' \in {fw, Told(c)} /\ iter'.left = iter.left /\ iter'.todo = rest /\ (~iter'.crossed
        => ~iter.crossed)
        /\ (UNCHANGED work \/ AskReset)
    BY <1>0, <1>a, <1>b DEF Understood, Refused, Ignored
  <1>7. work'.at = "ifaces"
    BY <1>5, <1>6, Asks DEF LifeTypes
  <1>8. ~iter'.crossed /\ ~Due' =>
            /\ ~iter.crossed /\ ~Due
            /\ \/ fw' = Told(c) /\ iter'.refused = iter.refused \ {TableEntry(c)}
               \/ fw' = fw /\ iter'.refused = iter.refused \union {TableEntry(c)}
    <2>1. CASE Understood(c) /\ iter' = [iter EXCEPT !.todo = rest, !.refused = Learned(c)]
      <3>1. fw' = Told(c) /\ work' = work
        BY <2>1 DEF Understood
      <3>2. iter'.crossed = iter.crossed /\ iter'.refused = iter.refused \ {TableEntry(c)}
        BY <1>a, <2>1 DEF Learned
      <3> QED BY <3>1, <3>2 DEF Due
    <2>2. CASE Refused(c) /\ iter' = [iter EXCEPT !.todo = rest, !.refused = Missed(c)]
      <3>1. TableEntry(c) \in VifEntries
        BY <1>2 DEF TableEntry, VifEntries
      <3>2. fw' = fw /\ work' = work
        BY <2>2 DEF Refused
      <3>3. iter'.crossed = iter.crossed /\ iter'.refused = iter.refused \union {TableEntry(c)}
        BY <1>a, <2>2, <3>1 DEF Missed
      <3> QED BY <3>2, <3>3 DEF Due
    <2>3. CASE Ignored(c) /\ iter' = [iter EXCEPT !.todo = rest, !.crossed = @ \/ suspended]
      <3>1. suspended => iter'.crossed
        BY <2>3 DEF IterShape, IterSet
      <3>2. ~suspended => work'.queued
        BY <1>5, <2>3, Asks DEF Ignored, LifeTypes
      <3> QED BY <3>1, <3>2 DEF Due
    <2> QED BY <1>0, <2>1, <2>2, <2>3
  <1> SUFFICES ASSUME KnownAdd, KnownStart, KnownAll PROVE KnownAdd' /\ KnownStart' /\ KnownAll'
    BY <1>0 DEF Tables
  <1>9. KnownStart'
    <2>1. op.name = "start" => op.at \in Indices
      BY DEF OpDrv, OpShape, VifOps
    <2> QED BY <1>0, <1>4, <1>6, <2>1 DEF KnownStart, Sending
  <1>10. KnownAdd'
    <2> SUFFICES ASSUME op.name = "add", op.todo = <<>>,
                        ~iter'.crossed PROVE fw'.dev[op.at] = op.who
      BY <1>0, <1>7 DEF KnownAdd
    <2>1. op.at \in Indices /\ c.at # op.at
      BY <1>2, <1>6, Indexed DEF OpDrv, OpShape, VifOps
    <2> QED BY <1>3, <1>6, <2>1 DEF KnownAdd
  <1>11. KnownAll'
    <2> SUFFICES ASSUME ~iter'.crossed, ~Due'
                 PROVE  /\ \A u \in Added : Active(u) => KnownVif(u)' \/ Coming("dev", u)'
                        /\ \A u \in drv.started, w \in {"bss", "own"} :
                               KnownBss(u, w)' \/ Coming(w, u)'
                        /\ \A u \in drv.beacon :
                               \/ KnownBss(u, "beacon")' \/ Coming("beacon", u)'
                               \/ op.name = "beacon" /\ op.who = u /\ Sending("beacon")
      BY <1>0 DEF KnownAll, Added, Active, Sending
    <2>0. drv' = drv
      BY <1>0
    <2>1. /\ ~iter.crossed /\ ~Due
          /\ \/ fw' = Told(c) /\ iter'.refused = iter.refused \ {TableEntry(c)}
             \/ fw' = fw /\ iter'.refused = iter.refused \union {TableEntry(c)}
      BY <1>8
    <2>2. \A u, w : Coming(w, u) => Coming(w, u)' \/ (c.who = u /\ c.what = w)
      BY <1>1, <1>6 DEF Coming
    <2>3. ASSUME NEW u \in Added, NEW w, c.who = u, c.what = w
          PROVE  IF w = "dev" THEN KnownVif(u)' ELSE KnownBss(u, w)'
      <3>1. c.at = drv.idx[u] /\ TableEntry(c) = <<w, drv.idx[u]>>
        BY <1>2, <2>1, <2>3 DEF TableEntry
      <3>2. CASE fw' = Told(c)
        BY <1>3, <2>0, <2>3, <3>1, <3>2 DEF KnownVif, KnownBss
      <3>3. CASE iter'.refused = iter.refused \union {TableEntry(c)}
        BY <2>0, <2>3, <3>1, <3>3 DEF KnownVif, KnownBss
      <3> QED BY <2>1, <3>2, <3>3
    <2>4. ASSUME NEW u \in Added, KnownVif(u)
          PROVE  KnownVif(u)'
      <3>0. drv.idx[u] \in Indices
        BY Indexed
      <3>1. CASE TableEntry(c) = <<"dev", drv.idx[u]>>
        <4>1. c.who = u /\ c.what = "dev"
          BY <1>2, <2>1, <3>1, Indexed DEF TableEntry
        <4> QED BY <2>3, <4>1
      <3>2. CASE TableEntry(c) # <<"dev", drv.idx[u]>>
        <4>1. c.at # drv.idx[u] \/ c.what # "dev"
          BY <3>2 DEF TableEntry
        <4>2. Told(c).dev[drv.idx[u]] = fw.dev[drv.idx[u]]
          BY <1>3, <3>0, <4>1
        <4> QED BY <2>0, <2>1, <2>4, <3>2, <4>2 DEF KnownVif
      <3> QED BY <3>1, <3>2
    <2>5. ASSUME NEW u \in Added, NEW w \in Bsses, KnownBss(u, w)
          PROVE  KnownBss(u, w)'
      <3>0. drv.idx[u] \in Indices /\ fw.bss[drv.idx[u]] \subseteq Told(c).bss[drv.idx[u]]
        BY <1>4, Indexed
      <3>1. CASE TableEntry(c) = <<w, drv.idx[u]>>
        <4>1. c.who = u /\ c.what = w
          BY <1>2, <2>1, <3>1, Indexed DEF TableEntry
        <4>2. w # "dev"
          BY DEF Bsses
        <4> QED BY <2>3, <4>1, <4>2
      <3>2. CASE TableEntry(c) # <<w, drv.idx[u]>>
        BY <2>0, <2>1, <2>5, <3>0, <3>2 DEF KnownBss
      <3> QED BY <3>1, <3>2
    <2>6. \A u \in Added : Active(u) => KnownVif(u)' \/ Coming("dev", u)'
      BY <2>1, <2>2, <2>3, <2>4 DEF KnownAll
    <2>7. ASSUME NEW u \in drv.started, NEW w \in {"bss", "own"}
          PROVE  KnownBss(u, w)' \/ Coming(w, u)'
      <3>1. u \in Added /\ w \in Bsses /\ w # "dev"
        BY Indexed DEF Bsses
      <3>2. KnownBss(u, w) \/ Coming(w, u)
        BY <2>1 DEF KnownAll
      <3> QED BY <2>2, <2>3, <2>5, <3>1, <3>2
    <2>8. ASSUME NEW u \in drv.beacon
          PROVE  \/ KnownBss(u, "beacon")' \/ Coming("beacon", u)'
                 \/ op.name = "beacon" /\ op.who = u /\ Sending("beacon")
      <3>1. u \in Added /\ "beacon" \in Bsses
        BY Indexed DEF Bsses
      <3>2. \/ KnownBss(u, "beacon") \/ Coming("beacon", u)
            \/ op.name = "beacon" /\ op.who = u /\ Sending("beacon")
        BY <2>1 DEF KnownAll
      <3> QED BY <2>2, <2>3, <2>5, <3>1, <3>2
    <2> QED BY <2>6, <2>7, <2>8
  <1> QED BY <1>9, <1>10, <1>11

(* Tables is inductive.                                                    *)
LEMMA TablesStep ==
  ASSUME LifeTypes, Shape, Locks, OpDrv, fw \in FwSet, IterShape, Tables, TabNext
  PROVE  Tables'
  <1>1. CASE LifeNext /\ Along
    BY <1>1, TablesLife
  <1>2. CASE (RocStep \/ ScanStep) /\ TabAlong
    BY <1>2, OffSame, TablesSame
  <1>3. CASE Operation
    BY <1>3, TablesVif, TablesPeer, TablesCommand, TablesReturn DEF Operation
  <1>4. CASE IterNext \/ IterCommand
    BY <1>4, TablesNext, TablesIterCommand
  <1> QED BY <1>1, <1>2, <1>3, <1>4 DEF TabNext, OffNext, Along
-----------------------------------------------------------------------------
(* The inductive invariant: that of the device's life, and the five parts  *)
(* above. Each is preserved given those before it.                         *)
TabInv == IInv /\ Locks /\ OpDrv /\ IterShape /\ Entries /\ Tables

(* It holds at the start of every scene.                                   *)
LEMMA TabInitHolds == TabInit => TabInv
  <1> SUFFICES ASSUME TabInit PROVE TabInv
    OBVIOUS
  <1>1. IInv
    BY InitHolds
  <1>2. /\ op = NoOp /\ iter = IterIdle /\ fw = NoTables /\ op.name = "none" /\ op.todo = <<>>
        /\ drv = [idx |-> [v \in Vifs |-> Gone], started |-> {}, beacon |-> {}, mask |-> {},
                  peer |-> [p \in Peers |-> NoPeer]]
        /\ work.at = "idle" /\ regd = "idle" /\ task = "idle"
    BY NoOpTyped DEF TabInit, OffInit, LifeInit, Idle
  <1>3. Locks
    BY <1>2 DEF Locks, Owned
  <1>4. /\ drv \in DrvSet /\ Added = {} /\ drv.started = {} /\ drv.beacon = {}
        /\ \A p \in Peers : ~Present(p)
    BY <1>2 DEF DrvSet, Added, Present, NoPeer, PeerSet
  <1>5. OpDrv
    <2>1. op \in OpSet /\ OpShape
      BY <1>2, NoOpTyped DEF OpShape, VifOps, PeerOps
    <2>2. DrvShape
      BY <1>2, <1>4 DEF DrvShape
    <2> QED BY <1>4, <2>1, <2>2 DEF OpDrv
  <1>6. iter \in IterSet /\ iter.left = {} /\ iter.todo = <<>> /\ ~iter.crossed
    BY <1>2, NoCommands DEF IterIdle, IterSet
  <1>7. IterShape
    BY <1>6, NoCommands DEF IterShape
  <1>8. Entries
    BY <1>2, <1>4, NothingTold DEF Entries, EntriesFresh
  <1>9. Tables
    BY <1>2, <1>4 DEF Tables, KnownAdd, KnownStart, KnownAll
  <1> QED BY <1>1, <1>3, <1>5, <1>7, <1>8, <1>9 DEF TabInv

(* No step breaks it.                                                      *)
LEMMA TabStepHolds == TabInv /\ [TabNext]_<<vars, offvars, tabvars>> => TabInv'
  <1> SUFFICES ASSUME TabInv, [TabNext]_<<vars, offvars, tabvars>> PROVE TabInv'
    OBVIOUS
  <1>1. IInv'
    BY StepHolds DEF TabInv
  <1>2. LifeTypes /\ Shape /\ fw \in FwSet
    BY DEF TabInv, IInv, Entries
  <1>3. CASE TabNext
    BY <1>1, <1>2, <1>3, LocksStep, OpDrvStep, IterStep, EntriesStep, TablesStep DEF TabInv
  <1>4. CASE UNCHANGED <<vars, offvars, tabvars>>
    <2>1. UNCHANGED <<drv, op, iter, fw, work, regd, mutex, task, pm, done, removal>>
      BY <1>4 DEF vars, lifevars, offvars, tabvars
    <2>2. Locks' /\ IterShape'
      BY <2>1 DEF TabInv, Locks, IterShape, Added, Active
    <2>3. OpDrv' /\ Tables'
      BY <2>1, OpDrvSame, TablesSame DEF TabInv
    <2>4. Entries'
      BY <2>1 DEF TabInv, Entries, EntriesFresh, Empty, Present
    <2> QED BY <1>1, <2>2, <2>3, <2>4 DEF TabInv
  <1> QED BY <1>3, <1>4

(* The invariant holds of every behaviour, for any finite number of        *)
(* interfaces and any number of stations and entries.                      *)
THEOREM TablesInductive == TabSpec => []TabInv
  BY TabInitHolds, TabStepHolds, PTL DEF TabSpec

(* NumbersMeet for all sizes: the types of both sides' tables, and no key  *)
(* or session of a station that has gone in the entry of its successor     *)
(* (mt7921_mac_sta_add, mt7921_mac_sta_remove).                            *)
THEOREM NumbersAgree == TabSpec => []NumbersMeet
  <1>1. TabInv => NumbersMeet
    <2> SUFFICES ASSUME TabInv PROVE TabTypeOK /\ EntriesFresh
      BY DEF NumbersMeet
    <2>1. LifeTypeOK /\ OffTypeOK
      BY LifeTyped, OffTyped DEF TabInv, IInv
    <2>2. /\ drv \in DrvSet /\ drv.beacon \subseteq drv.started /\ iter \in IterSet /\ fw \in FwSet
          /\ EntriesFresh
      BY DEF TabInv, OpDrv, DrvShape, IterShape, Entries
    <2> QED BY <2>1, <2>2 DEF TabTypeOK, DrvSet, PeerSet, IterSet, FwSet, RecSet
  <1> QED BY <1>1, TablesInductive, PTL

(* TablesRestored for all sizes: once no reset is due or under way the     *)
(* firmware knows every interface and access point of the driver's,        *)
(* however commands, resets and operations crossed, but for the entries    *)
(* told last by a command that was refused or not sent, iter.refused, and  *)
(* for the two crossings that iter.crossed names (mt7921_vif_connect_iter, *)
(* mt7921_bss_info_changed).                                               *)
THEOREM TablesAreRestored == TabSpec => []TablesRestored
  <1>1. TabInv => TablesRestored
    <2> SUFFICES ASSUME TabInv, removal \in {"no", "init", "unregister"}, ~iter.crossed,
                        ~work.queued, work.at = "idle",
                        op = NoOp, NEW v \in Added
                 PROVE  /\ KnownVif(v)
                        /\ v \in drv.started => KnownBss(v, "bss") /\ KnownBss(v, "own")
                        /\ v \in drv.beacon => KnownBss(v, "beacon")
      BY DEF TablesRestored
    <2>1. iter.left = {} /\ Range(iter.todo) = {}
      BY NoCommands DEF TabInv, IterShape
    <2>2. \A w : ~Coming(w, v)
      BY <2>1 DEF Coming
    <2>3. op.name = "none" /\ Active(v)
      BY NoOpTyped DEF Active
    <2>4. KnownAll /\ ~Due
      BY DEF TabInv, Tables, Due, Here
    <2> QED BY <2>2, <2>3, <2>4 DEF KnownAll
  <1> QED BY <1>1, TablesInductive, PTL
=============================================================================
