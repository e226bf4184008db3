------------------------------ MODULE DriverProofs ------------------------------
(***************************************************************************)
(* Theorems about the life of the device: firmware load, start-up, reset,  *)
(* suspend and resume, removal, and what is under way off channel. They    *)
(* hold for any number of regions of the files, of attempts, faults,       *)
(* suspends, vifs, stations and scenes.                                    *)
(*                                                                         *)
(* The specification is the composition's, TabSpec: the tables of the      *)
(* firmware add steps that only ask for a reset (lemma Ways).              *)
(***************************************************************************)
EXTENDS FwTables, TLAPS
-----------------------------------------------------------------------------
(* A step is one of the device's life, which the tables and what is under  *)
(* way follow, or one that only asks for a reset.                          *)
Along == RocAlong /\ ScanAlong /\ TabAlong /\ UNCHANGED task
Outside ==
    /\ UNCHANGED <<chip, path, load, scene, pm, suspended, regd, full, init, done, report, removal,
       seen>>
    /\ UNCHANGED work \/ AskReset
    /\ UNCHANGED faults \/ Fault

(* Every step of the composition is one of the two: the operations of      *)
(* mac80211, the events and the timers change nothing of the device's life *)
(* but work.queued (mt792x_reset), the lock and the faults spent.          *)
LEMMA Ways ==
  ASSUME TabNext
  PROVE  (LifeNext /\ Along) \/ (Outside /\ (UNCHANGED mutex \/ mutex' \in {"free", "mac"}))
  <1> USE DEF Outside
  <1>1. CASE LifeNext /\ RocAlong /\ ScanAlong /\ UNCHANGED task /\ TabAlong
    BY <1>1 DEF Along
  <1>2. CASE RocStep
    BY <1>2 DEF RocStep, SetRoc, SetRocGranted, SetRocTimeout, GrantEvent, GrantArm, GrantNever,
      TimerFires, RocWork, RocWorkAbort, AbortTimer, AbortWork, AbortClear, AbortSync, AbortSynced,
      RocReturns, OnlyRoc, OnlyEvents, fwvars, lifevars
  <1>3. CASE ScanStep
    BY <1>3 DEF ScanStep, HwScan, ScanDone, ScanWork, CancelScan, OnlyScan, lifevars
  <1>4. ASSUME NEW name, NEW who, NEW at, NEW v, NEW todo, Begin(name, who, at, v, todo)
        PROVE  Outside /\ mutex' \in {"free", "mac"}
    BY <1>4 DEF Begin, OnlyTables
  <1>5. CASE \E v \in Vifs : AddInterface(v) \/ RemoveInterface(v) \/ StartAp(v)
             \/ EnableBeacon(v) \/ StopAp(v)
    BY <1>4, <1>5 DEF AddInterface, RemoveInterface, StartAp, EnableBeacon, StopAp
  <1>6. CASE \E p \in Peers : \/ \E v \in Vifs : StaAdd(p, v)
                              \/ StaAssoc(p) \/ StaRemove(p)
                              \/ \E on \in BOOLEAN : SetKey(p, on) \/ Ampdu(p, on)
    BY <1>4, <1>6, ZenonT(40) DEF StaAdd, StaAssoc, StaRemove, SetKey, Ampdu
  <1>7. \A c : Understood(c) \/ Posted(c) \/ Refused(c) \/ Ignored(c) =>
            (UNCHANGED faults \/ Fault) /\ (UNCHANGED work \/ AskReset)
    BY DEF Understood, Posted, Refused, Ignored, Answered, Unanswered
  <1>8. CASE Command \/ IterCommand
    BY <1>7, <1>8 DEF Command, IterCommand, OnlyTables
  <1>9. CASE Return \/ IterNext
    BY <1>9 DEF Return, IterNext, OnlyTables
  <1> QED BY <1>1, <1>2, <1>3, <1>5, <1>6, <1>8, <1>9 DEF TabNext, OffNext, Operation
-----------------------------------------------------------------------------
(* Types of the firmware's and of the load's record.                       *)
ChipSet == [sem : BOOLEAN, patch : 0 .. Regions, patched : BOOLEAN, ram : 0 .. Regions,
            running : BOOLEAN, stale : BOOLEAN, hif : BOOLEAN]
LoadSet == [at : {"idle", "restart", "sem", "file", "patch", "release", "ram", "ready",
                  "query", "done"}, i : 0 .. Regions, ok : BOOLEAN, unsure : BOOLEAN]

(* What the assumptions say of the numbers, gathered for the types below.  *)
LEMMA Numbers == Regions \in Nat /\ Regions > 0 /\ MaxFaults \in Nat /\ Tries \in Nat
  /\ Tries > 0 /\ MaxSuspends \in Nat
  BY FwAssumption, LifeAssumption

(* A fault taken stays within the bound.                                   *)
LEMMA FaultTyped ==
  ASSUME faults \in 0 .. MaxFaults, UNCHANGED faults \/ Fault
  PROVE faults' \in 0 .. MaxFaults
  BY Numbers DEF Fault

(* Each change of one field of the chip's record keeps its type.           *)
LEMMA ChipTyped ==
  ASSUME NEW c \in ChipSet, NEW n \in 0 .. Regions, NEW b \in BOOLEAN
  PROVE  /\ Fresh \in ChipSet
         /\ [c EXCEPT !.sem = b] \in ChipSet /\ [c EXCEPT !.patch = n] \in ChipSet
            /\ [c EXCEPT !.patched = b] \in ChipSet
         /\ [c EXCEPT !.ram = n] \in ChipSet /\ [c EXCEPT !.running = b] \in ChipSet
         /\ [c EXCEPT !.stale = b] \in ChipSet /\ [c EXCEPT !.hif = b] \in ChipSet
  BY Numbers DEF ChipSet, Fresh

(* Each way the load can move keeps the type of its record.                *)
LEMMA LoadTyped ==
  ASSUME load \in LoadSet,
         NEW t \in {"idle", "restart", "sem", "file", "patch", "release", "ram", "ready", "query",
         "done"}
  PROVE  /\ To(t) => load' \in LoadSet
         /\ Fail(t) => load' \in LoadSet
         /\ Call => load' \in LoadSet
         /\ Unsure => load' \in LoadSet
         /\ Sent /\ load.i < Regions => load' \in LoadSet
         /\ load' = [load EXCEPT !.at = t] => load' \in LoadSet
  <1>0. 0 \in 0 .. Regions
    BY Numbers
  <1>1. To(t) => load' \in LoadSet
    BY <1>0 DEF To, LoadSet
  <1>2. Fail(t) => load' \in LoadSet
    BY <1>0 DEF Fail, LoadSet
  <1>3. Call => load' \in LoadSet
    BY <1>0 DEF Call, LoadSet, NoLoad
  <1>4. Unsure => load' \in LoadSet
    BY <1>0 DEF Unsure, LoadSet
  <1>5. Sent /\ load.i < Regions => load' \in LoadSet
    BY Numbers DEF Sent, LoadSet
  <1>6. load' = [load EXCEPT !.at = t] => load' \in LoadSet
    BY <1>0 DEF LoadSet
  <1> QED BY <1>1, <1>2, <1>3, <1>4, <1>5, <1>6

(* A step of the load (mt7921_load_firmware) keeps the types.              *)
LEMMA LoadStepTyped ==
  ASSUME chip \in ChipSet, path \in [Parts -> BOOLEAN], load \in LoadSet,
         faults \in 0 .. MaxFaults, LoadStep
  PROVE  chip' \in ChipSet /\ path' \in [Parts -> BOOLEAN] /\ load' \in LoadSet
         /\ faults' \in 0 .. MaxFaults
  <1> USE Numbers
  <1>1. UNCHANGED path
    BY DEF LoadStep, Restart, SemGet, PatchFile, PatchRegion, StartPatch, SemRelease, RamFile,
        RamRegion, StartRam, Ready, Query
  <1>2. UNCHANGED faults \/ Fault
    BY DEF LoadStep, Restart, SemGet, PatchFile, PatchRegion, StartPatch, SemRelease, RamFile,
        RamRegion, StartRam, Ready, Query, Answered, Unanswered
  <1>3. load' \in LoadSet
    BY LoadTyped DEF LoadStep, Restart, SemGet, PatchFile, PatchRegion, StartPatch, SemRelease,
        RamFile, RamRegion, StartRam, Ready, Query, Answered, Unanswered
  <1>4. chip' \in ChipSet
    <2>1. load.i \in 0 .. Regions /\ (load.i < Regions => load.i + 1 \in 0 .. Regions)
      BY DEF LoadSet
    <2> QED BY <2>1, ChipTyped DEF LoadStep, Restart, SemGet, PatchFile, PatchRegion, StartPatch,
        SemRelease, RamFile, RamRegion, StartRam, Ready, Query, MayReach, Taken, Given
  <1> QED BY <1>1, <1>2, <1>3, <1>4, FaultTyped

(* Types of the reset work, the start-up and what was seen.                *)
WorkSet == [queued : BOOLEAN, try : 0 .. Tries, ok : BOOLEAN,
            at : {"idle", "lock", "own", "worker", "rx", "tx", "dma", "open", "down", "load",
                  "start", "out", "end", "clear", "ifaces"}]
InitSet == [at : {"queued", "own", "load", "config", "reset", "register", "finish", "done",
    "failed"},
            try : 0 .. Tries]
SeenSet == [suspends : 0 .. MaxSuspends, raced : BOOLEAN, late : BOOLEAN, stranded : BOOLEAN,
            refused : BOOLEAN]
PathSet == [Parts -> BOOLEAN]

(* Switching parts of the data path off or on keeps its type.              *)
LEMMA PathTyped ==
  ASSUME NEW q \in PathSet, NEW parts, NEW b \in BOOLEAN, NEW part \in Parts
  PROVE  /\ [p \in Parts |-> q[p] /\ p \notin parts] \in PathSet
         /\ [p \in Parts |-> q[p] \/ p \in parts] \in PathSet
         /\ [q EXCEPT ![part] = b] \in PathSet
  BY DEF PathSet

(* No step of the device's life takes the data path out of its type.       *)
LEMMA PathStep ==
  ASSUME path \in PathSet, LifeNext
  PROVE  path' \in PathSet
  <1>0. ASSUME NEW parts, UNCHANGED path \/ Off(parts) \/ On(parts)
        PROVE  path' \in PathSet
    BY <1>0 DEF PathSet, Off, On
  <1>1. {"rx", "tx", "worker", "irq", "dma", "rings", "awake"} \subseteq Parts
    BY DEF Parts
  <1>2. Reinit => path' \in PathSet
    BY <1>1 DEF Reinit, PathSet
  <1>3. CASE Load \/ ReportTest \/ ReportQueue \/ RegdStep
    BY <1>0, <1>3 DEF Load, LoadStep, Restart, SemGet, PatchFile, PatchRegion, StartPatch,
        SemRelease, RamFile, RamRegion, StartRam, Ready, Query, ReportTest, ReportQueue, RegdStep,
        RegdTest, RegdMark, RegdLock, RegdUpdate, RegdDone, fwvars
  <1>4. CASE Doze \/ WakeUp
    <2>1. CASE Doze
      BY <1>1, <2>1, PathTyped DEF Doze
    <2> QED BY <1>0, <1>2, <1>4, <2>1 DEF WakeUp, DrvOwn
  <1>5. CASE SuspendStep \/ ResumeStep
    BY <1>0, <1>2, <1>5 DEF SuspendStep, SuspendBegin, SuspendFlush, SuspendCancel, SuspendOwn,
        SuspendRegd, SuspendLate, SuspendHif, SuspendTx, SuspendRx, SuspendDma, SuspendFw,
        SuspendUnhif, SuspendEnd, ResumeStep, ResumeOwn, ResumeHw, ResumeNapi, ResumeHif,
        ResumeUpdate, ResumeEnd, DrvOwn, fwvars
  <1>6. ASSUME WpdmaReset(path) PROVE path' \in PathSet
    BY <1>1, <1>6 DEF WpdmaReset, PathSet
  <1>7. CASE ResetStep
    <2>1. CASE ResetOwn
      BY <1>0, <1>1, <2>1 DEF ResetOwn, PathSet
    <2> QED BY <1>0, <1>6, <1>7, <2>1 DEF ResetStep, ResetBegin, ResetLock, ResetWorker, ResetRx,
        ResetTx, ResetDma, ResetOpen, ResetDown, ResetLoaded, ResetStart, ResetOut, ResetEnd,
        ResetClear, ResetIfaces, fwvars
  <1>8. CASE InitStep
    BY <1>0, <1>6, <1>8 DEF InitStep, InitOwn, InitLoaded, InitConfig, InitReset, InitRegister,
        InitFinish, fwvars
  <1>9. CASE RemoveStep
    BY <1>0, <1>9 DEF RemoveStep, RemoveBegin, RemoveInit, RemoveUnregister, RemoveNapi,
        RemoveCancel, RemoveOwn, RemoveFree, fwvars
  <1> QED BY <1>3, <1>4, <1>5, <1>7, <1>8, <1>9 DEF LifeNext

(* Nor the chip.                                                           *)
LEMMA ChipStep ==
  ASSUME chip \in ChipSet, path \in PathSet, load \in LoadSet, faults \in 0 .. MaxFaults, LifeNext
  PROVE  chip' \in ChipSet
  <1>a. 0 \in 0 .. Regions
    BY Numbers
  <1>0. \A b \in BOOLEAN : [chip EXCEPT !.hif = b] \in ChipSet
        /\ [chip EXCEPT !.stale = b] \in ChipSet
    BY <1>a, ChipTyped
  <1>1. Fresh \in ChipSet
    BY <1>a, ChipTyped
  <1>2. CASE Load
    BY <1>2, LoadStepTyped DEF Load, PathSet
  <1>3. CASE ReportTest \/ ReportQueue \/ RegdStep \/ Doze \/ WakeUp
    BY <1>3 DEF ReportTest, ReportQueue, RegdStep, RegdTest, RegdMark, RegdLock, RegdUpdate,
        RegdDone, Doze, WakeUp, fwvars
  <1>5. CASE SuspendStep \/ ResumeStep
    BY <1>0, <1>5 DEF SuspendStep, SuspendBegin, SuspendFlush, SuspendCancel, SuspendOwn,
        SuspendRegd, SuspendLate, SuspendHif, SuspendTx, SuspendRx, SuspendDma, SuspendFw,
        SuspendUnhif, SuspendEnd, ResumeStep, ResumeOwn, ResumeHw, ResumeNapi, ResumeHif,
        ResumeUpdate, ResumeEnd, MayReach, fwvars
  <1>7. CASE ResetStep \/ InitStep \/ RemoveStep
    BY <1>0, <1>1, <1>7 DEF ResetStep, ResetBegin, ResetLock, ResetOwn, ResetWorker, ResetRx,
        ResetTx, ResetDma, ResetOpen, ResetDown, ResetLoaded, ResetStart, ResetOut, ResetEnd,
        ResetClear, ResetIfaces, InitStep, InitOwn, InitLoaded, InitConfig, InitReset, InitRegister,
        InitFinish, RemoveStep, RemoveBegin, RemoveInit, RemoveUnregister, RemoveNapi, RemoveCancel,
        RemoveOwn, RemoveFree, WpdmaReset, WfsysReset, fwvars
  <1> QED BY <1>2, <1>3, <1>5, <1>7 DEF LifeNext

(* Nor the load.                                                           *)
LEMMA LoadVarStep ==
  ASSUME chip \in ChipSet, path \in PathSet, load \in LoadSet, faults \in 0 .. MaxFaults, LifeNext
  PROVE  load' \in LoadSet
  <1>0. /\ UNCHANGED load => load' \in LoadSet
        /\ Call => load' \in LoadSet
        /\ load' = [load EXCEPT !.at = "idle"] => load' \in LoadSet
    BY LoadTyped
  <1>2. CASE Load
    BY <1>2, LoadStepTyped DEF Load, PathSet
  <1>3. CASE ReportTest \/ ReportQueue \/ RegdStep \/ Doze \/ WakeUp \/ RemoveStep
    BY <1>0, <1>3 DEF ReportTest, ReportQueue, RegdStep, RegdTest, RegdMark, RegdLock, RegdUpdate,
        RegdDone, Doze, WakeUp, fwvars, RemoveStep, RemoveBegin, RemoveInit, RemoveUnregister,
        RemoveNapi, RemoveCancel, RemoveOwn, RemoveFree
  <1>5. CASE SuspendStep \/ ResumeStep
    BY <1>0, <1>5 DEF SuspendStep, SuspendBegin, SuspendFlush, SuspendCancel, SuspendOwn,
        SuspendRegd, SuspendLate, SuspendHif, SuspendTx, SuspendRx, SuspendDma, SuspendFw,
        SuspendUnhif, SuspendEnd, ResumeStep, ResumeOwn, ResumeHw, ResumeNapi, ResumeHif,
        ResumeUpdate, ResumeEnd, MayReach, fwvars
  <1>7. CASE ResetStep \/ InitStep
    BY <1>0, <1>7 DEF ResetStep, ResetBegin, ResetLock, ResetOwn, ResetWorker, ResetRx, ResetTx,
        ResetDma, ResetOpen, ResetDown, ResetLoaded, ResetStart, ResetOut, ResetEnd, ResetClear,
        ResetIfaces, InitStep, InitOwn, InitLoaded, InitConfig, InitReset, InitRegister, InitFinish,
        fwvars
  <1> QED BY <1>2, <1>3, <1>5, <1>7 DEF LifeNext

(* A step of the device's life takes at most one fault.                    *)
LEMMA FaultStep ==
  ASSUME LifeNext
  PROVE  UNCHANGED faults \/ Fault
  <1>2. CASE Load
    BY <1>2 DEF Load, LoadStep, Restart, SemGet, PatchFile, PatchRegion, StartPatch, SemRelease,
        RamFile, RamRegion, StartRam, Ready, Query, Answered, Unanswered
  <1>3. CASE ReportTest \/ ReportQueue \/ RegdStep \/ Doze \/ WakeUp \/ RemoveStep
    BY <1>3 DEF ReportTest, ReportQueue, RegdStep, RegdTest, RegdMark, RegdLock, RegdUpdate,
        RegdDone, Doze, WakeUp, fwvars, RemoveStep, RemoveBegin, RemoveInit, RemoveUnregister,
        RemoveNapi, RemoveCancel, RemoveOwn, RemoveFree, DrvOwn, Reinit, Answered, Unanswered,
        WfsysReset
  <1>5. CASE SuspendStep \/ ResumeStep
    BY <1>5 DEF SuspendStep, SuspendBegin, SuspendFlush, SuspendCancel, SuspendOwn, SuspendRegd,
        SuspendLate, SuspendHif, SuspendTx, SuspendRx, SuspendDma, SuspendFw, SuspendUnhif,
        SuspendEnd, ResumeStep, ResumeOwn, ResumeHw, ResumeNapi, ResumeHif, ResumeUpdate, ResumeEnd,
        fwvars, DrvOwn, Reinit, Answered, Unanswered
  <1>7. CASE ResetStep \/ InitStep
    BY <1>7 DEF ResetStep, ResetBegin, ResetLock, ResetOwn, ResetWorker, ResetRx, ResetTx, ResetDma,
        ResetOpen, ResetDown, ResetLoaded, ResetStart, ResetOut, ResetEnd, ResetClear, ResetIfaces,
        InitStep, InitOwn, InitLoaded, InitConfig, InitReset, InitRegister, InitFinish, fwvars,
        Answered, Unanswered, WpdmaReset, WfsysReset
  <1> QED BY <1>2, <1>3, <1>5, <1>7 DEF LifeNext

(* The places of the suspend and resume, of the regulatory update and of   *)
(* the removal, and the holders of dev->mutex.                             *)
PmSet == {"up", "flush", "cancel", "own", "regd", "hif", "quiet", "rx", "dma", "fw",
          "refused", "resume hif", "failed", "asleep", "wake", "hw", "napi", "wake hif", "update",
          "woken"}
RegdSet == {"idle", "tested", "wait", "update", "unlock"}
RemovalSet == {"no", "init", "unregister", "napi", "cancel", "own", "free", "gone"}
MutexSet == {"free", "regd", "reset", "mac"}

(* Each way reset_work can move keeps the type of its record.              *)
LEMMA WorkTyped ==
  ASSUME work \in WorkSet, NEW t \in {"idle", "lock", "own", "worker", "rx", "tx", "dma", "open",
         "down", "load",
                       "start", "out", "end", "clear", "ifaces"}, NEW b \in BOOLEAN
  PROVE  /\ Queue \in WorkSet
         /\ AskReset => work' \in WorkSet
         /\ At(t) => work' \in WorkSet
         /\ [Idle EXCEPT !.at = "lock"] \in WorkSet
         /\ [work EXCEPT !.at = t, !.ok = b] \in WorkSet
         /\ work.try + 1 < Tries => Again \in WorkSet
         /\ [work EXCEPT !.queued = b] \in WorkSet
         /\ [work EXCEPT !.at = t, !.queued = @ \/ ~suspended] \in WorkSet
  <1>0. 0 \in 0 .. Tries
    BY Numbers
  <1>1. Queue \in WorkSet
    BY DEF Queue, WorkSet
  <1>2. AskReset => work' \in WorkSet
    BY <1>1 DEF AskReset
  <1>3. At(t) => work' \in WorkSet
    BY DEF At, WorkSet
  <1>4. [Idle EXCEPT !.at = "lock"] \in WorkSet
    BY <1>0 DEF Idle, WorkSet
  <1>5. [work EXCEPT !.at = t, !.ok = b] \in WorkSet
    BY DEF WorkSet
  <1>6. work.try + 1 < Tries => Again \in WorkSet
    <2> SUFFICES ASSUME work.try + 1 < Tries PROVE Again \in WorkSet
      OBVIOUS
    <2>1. work.try + 1 \in 0 .. Tries
      BY Numbers DEF WorkSet
    <2> QED BY <2>1 DEF Again, WorkSet
  <1>7. [work EXCEPT !.queued = b] \in WorkSet
    BY DEF WorkSet
  <1>8. [work EXCEPT !.at = t, !.queued = @ \/ ~suspended] \in WorkSet
    BY DEF WorkSet
  <1> QED BY <1>1, <1>2, <1>3, <1>4, <1>5, <1>6, <1>7, <1>8

(* No step of the device's life takes reset_work out of its type.          *)
LEMMA WorkStep ==
  ASSUME work \in WorkSet, load \in LoadSet, LifeNext
  PROVE  work' \in WorkSet
  <1>0. /\ UNCHANGED work \/ AskReset \/ work' = Queue => work' \in WorkSet
        /\ work' = [work EXCEPT !.queued = FALSE] => work' \in WorkSet
    BY WorkTyped
  <1>2. CASE Load \/ ReportTest \/ ReportQueue \/ RegdStep \/ Doze \/ WakeUp
    BY <1>0, <1>2 DEF Load, lifevars, ReportTest, ReportQueue, RegdStep, RegdTest, RegdMark,
        RegdLock, RegdUpdate, RegdDone, Doze, WakeUp, fwvars, DrvOwn
  <1>5. CASE SuspendStep \/ ResumeStep
    BY <1>0, <1>5 DEF SuspendStep, SuspendBegin, SuspendFlush, SuspendCancel, SuspendOwn,
        SuspendRegd, SuspendLate, SuspendHif, SuspendTx, SuspendRx, SuspendDma, SuspendFw,
        SuspendUnhif, SuspendEnd, ResumeStep, ResumeOwn, ResumeHw, ResumeNapi, ResumeHif,
        ResumeUpdate, ResumeEnd, fwvars, DrvOwn
  <1>6. CASE ResetStep
    <2>1. CASE ResetOut
      BY <2>1, WorkTyped DEF ResetOut
    <2>2. CASE ResetLoaded
      <3>1. load.ok \in BOOLEAN
        BY DEF LoadSet
      <3> DEFINE t == IF load.ok THEN "start" ELSE "out"
      <3>2. work' = [work EXCEPT !.at = t, !.ok = load.ok]
        BY <2>2 DEF ResetLoaded
      <3>3. t \in {"start", "out"}
        OBVIOUS
      <3> HIDE DEF t
      <3> QED BY <3>1, <3>2, <3>3, WorkTyped
    <2>3. CASE ResetIfaces
      BY <2>3, WorkTyped DEF ResetIfaces
    <2>4. CASE ResetBegin \/ ResetDown \/ ResetStart
      BY <2>4, WorkTyped DEF ResetBegin, ResetDown, ResetStart
    <2>5. CASE ResetLock \/ ResetOwn \/ ResetWorker \/ ResetRx \/ ResetTx \/ ResetDma
               \/ ResetOpen \/ ResetEnd \/ ResetClear
      BY <2>5, WorkTyped DEF ResetLock, ResetOwn, ResetWorker, ResetRx, ResetTx, ResetDma,
          ResetOpen, ResetEnd, ResetClear
    <2> QED BY <1>6, <2>1, <2>2, <2>3, <2>4, <2>5 DEF ResetStep
  <1>7. CASE InitStep \/ RemoveStep
    BY <1>0, <1>7 DEF InitStep, InitOwn, InitLoaded, InitConfig, InitReset, InitRegister,
        InitFinish, Starting, RemoveStep, RemoveBegin, RemoveInit, RemoveUnregister, RemoveNapi,
        RemoveCancel, RemoveOwn, RemoveFree
  <1> QED BY <1>2, <1>5, <1>6, <1>7 DEF LifeNext

(* Nor the start-up, which gives up before it has tried Tries times.       *)
LEMMA InitVarStep ==
  ASSUME init \in InitSet, init.try < Tries, LifeNext
  PROVE  init' \in InitSet /\ init'.try < Tries
  <1>0. ASSUME NEW t \in {"queued", "own", "load", "config", "reset", "register", "finish", "done",
               "failed"},
               UNCHANGED init \/ Goes(t)
        PROVE  init' \in InitSet /\ init'.try < Tries
    BY <1>0 DEF InitSet, Goes
  <1>2. CASE Load \/ ReportTest \/ ReportQueue \/ RegdStep \/ Doze \/ WakeUp
    BY <1>0, <1>2 DEF Load, lifevars, ReportTest, ReportQueue, RegdStep, RegdTest, RegdMark,
        RegdLock, RegdUpdate, RegdDone, Doze, WakeUp
  <1>5. CASE SuspendStep \/ ResumeStep
    BY <1>0, <1>5 DEF SuspendStep, SuspendBegin, SuspendFlush, SuspendCancel, SuspendOwn,
        SuspendRegd, SuspendLate, SuspendHif, SuspendTx, SuspendRx, SuspendDma, SuspendFw,
        SuspendUnhif, SuspendEnd, ResumeStep, ResumeOwn, ResumeHw, ResumeNapi, ResumeHif,
        ResumeUpdate, ResumeEnd, Asleep
  <1>6. CASE ResetStep
    BY <1>0, <1>6 DEF ResetStep, ResetBegin, ResetLock, ResetOwn, ResetWorker, ResetRx, ResetTx,
        ResetDma, ResetOpen, ResetDown, ResetLoaded, ResetStart, ResetOut, ResetEnd, ResetClear,
        ResetIfaces, Resetting
  <1>7. CASE InitStep
    <2>1. CASE InitReset
      <3>1. init.try + 1 # Tries => init.try + 1 \in 0 .. Tries /\ init.try + 1 < Tries
        BY Numbers DEF InitSet
      <3> QED BY <2>1, <3>1 DEF InitReset, InitSet
    <2> QED BY <1>0, <1>7, <2>1 DEF InitStep, InitOwn, InitLoaded, InitConfig, InitRegister,
        InitFinish
  <1>8. CASE RemoveStep
    BY <1>0, <1>8 DEF RemoveStep, RemoveBegin, RemoveInit, RemoveUnregister, RemoveNapi,
        RemoveCancel, RemoveOwn, RemoveFree, Goes
  <1> QED BY <1>2, <1>5, <1>6, <1>7, <1>8 DEF LifeNext

(* Nor what was seen.                                                      *)
LEMMA SeenStep ==
  ASSUME seen \in SeenSet, path \in PathSet, LifeNext, path' \in PathSet
  PROVE  seen' \in SeenSet
  <1>0. UNCHANGED seen => seen' \in SeenSet
    OBVIOUS
  <1>1. ASSUME NEW b \in BOOLEAN, \/ seen' = [seen EXCEPT !.raced = b]
                                  \/ seen' = [seen EXCEPT !.late = b]
                                  \/ seen' = [seen EXCEPT !.stranded = b]
        PROVE  seen' \in SeenSet
    BY <1>1 DEF SeenSet
  <1>2. CASE Load \/ ReportTest \/ RegdStep \/ Doze \/ InitStep \/ RemoveStep
    BY <1>0, <1>2 DEF Load, lifevars, ReportTest, RegdStep, RegdTest, RegdMark, RegdLock,
        RegdUpdate, RegdDone, Doze, InitStep, InitOwn, InitLoaded, InitConfig, InitReset,
        InitRegister, InitFinish, Starting, RemoveStep, RemoveBegin, RemoveInit, RemoveUnregister,
        RemoveNapi, RemoveCancel, RemoveOwn, RemoveFree
  <1>3. CASE ReportQueue
    BY <1>3 DEF ReportQueue, SeenSet
  <1>4. CASE WakeUp
    BY <1>4 DEF WakeUp, SeenSet
  <1>5. CASE SuspendStep
    <2>1. CASE SuspendBegin
      BY <2>1, Numbers DEF SuspendBegin, SeenSet
    <2>2. CASE SuspendFlush
      BY <2>2 DEF SuspendFlush, SeenSet
    <2>3. CASE SuspendRegd
      BY <2>3 DEF SuspendRegd, SeenSet
    <2>4. CASE SuspendLate
      BY <2>4 DEF SuspendLate, SeenSet
    <2>5. CASE SuspendEnd
      BY <2>5 DEF SuspendEnd, Strands, SeenSet
    <2> QED BY <1>0, <1>5, <2>1, <2>2, <2>3, <2>4, <2>5 DEF SuspendStep, SuspendCancel, SuspendOwn,
              SuspendHif, SuspendTx, SuspendRx, SuspendDma, SuspendFw, SuspendUnhif
  <1>6. CASE ResumeStep
    <2>1. CASE ResumeOwn
      BY <2>1 DEF ResumeOwn, SeenSet
    <2>2. CASE ResumeHif
      BY <2>2 DEF ResumeHif, SeenSet
    <2> QED BY <1>0, <1>6, <2>1, <2>2 DEF ResumeStep, ResumeHw, ResumeNapi, ResumeUpdate, ResumeEnd
  <1>7. CASE ResetStep
    <2>1. CASE ResetOpen
      BY <2>1 DEF ResetOpen, SeenSet
    <2>2. CASE ResetClear
      BY <2>2 DEF ResetClear, SeenSet
    <2> QED BY <1>0, <1>7, <2>1, <2>2 DEF ResetStep, ResetBegin, ResetLock, ResetOwn, ResetWorker,
        ResetRx, ResetTx, ResetDma, ResetDown, ResetLoaded, ResetStart, ResetOut, ResetEnd,
        ResetIfaces
  <1> QED BY <1>2, <1>3, <1>4, <1>5, <1>6, <1>7 DEF LifeNext

(* The three flags, and that no step takes them out of BOOLEAN.            *)
FlagSet == suspended \in BOOLEAN /\ full \in BOOLEAN /\ done \in BOOLEAN
LEMMA FlagStep ==
  ASSUME FlagSet, pm \in PmSet, regd \in RegdSet, mutex \in MutexSet, report \in {"idle",
         "tested"}, removal \in RemovalSet, LifeNext
  PROVE  FlagSet' /\ pm' \in PmSet /\ regd' \in RegdSet /\ mutex' \in MutexSet
         /\ report' \in {"idle", "tested"} /\ removal' \in RemovalSet
         /\ UNCHANGED scene
  <1> USE DEF FlagSet
  <1>2. CASE Load \/ ReportTest \/ ReportQueue \/ RegdStep \/ Doze \/ WakeUp
    BY <1>2, ZenonT(40) DEF Load, lifevars, ReportTest, ReportQueue, RegdStep, RegdTest, RegdMark, RegdLock,
        RegdUpdate, RegdDone, Doze, WakeUp, RegdSet, MutexSet
  <1>5. CASE SuspendStep \/ ResumeStep
    BY <1>5 DEF SuspendStep, SuspendBegin, SuspendFlush, SuspendCancel, SuspendOwn, SuspendRegd,
        SuspendLate, SuspendHif, SuspendTx, SuspendRx, SuspendDma, SuspendFw, SuspendUnhif,
        SuspendEnd, ResumeStep, ResumeOwn, ResumeHw, ResumeNapi, ResumeHif, ResumeUpdate, ResumeEnd,
        Asleep, PmSet, DrvOwn
  <1>6. CASE ResetStep
    BY <1>6 DEF ResetStep, ResetBegin, ResetLock, ResetOwn, ResetWorker, ResetRx, ResetTx, ResetDma,
        ResetOpen, ResetDown, ResetLoaded, ResetStart, ResetOut, ResetEnd, ResetClear, ResetIfaces,
        Resetting, MutexSet
  <1>7. CASE InitStep \/ RemoveStep
    BY <1>7 DEF InitStep, InitOwn, InitLoaded, InitConfig, InitReset, InitRegister, InitFinish,
        Starting, RemoveStep, RemoveBegin, RemoveInit, RemoveUnregister, RemoveNapi, RemoveCancel,
        RemoveOwn, RemoveFree, Removing, Next1, RemovalSet
  <1> QED BY <1>2, <1>5, <1>6, <1>7 DEF LifeNext

(* Types of a stay off channel, of a scan, and of the task that ends a     *)
(* stay.                                                                   *)
RocSet == [bit : BOOLEAN, grant : BOOLEAN, timer : BOOLEAN, pend : BOOLEAN, runs : BOOLEAN,
           isr : BOOLEAN, flight : 0 .. MaxFlight]
ScanSet == [bit : BOOLEAN, work : BOOLEAN, event : BOOLEAN, fw : BOOLEAN, lost : BOOLEAN]
TaskSet == {"idle", "roc", "abort work", "abort lock", "abort sync"}

(* Types, and the start-up's attempts, which stop short of Tries.          *)
LifeTypes ==
  /\ chip \in ChipSet /\ path \in PathSet /\ load \in LoadSet /\ faults \in 0 .. MaxFaults
  /\ scene \in Scenes /\ FlagSet /\ pm \in PmSet /\ regd \in RegdSet /\ mutex \in MutexSet
  /\ work \in WorkSet /\ init \in InitSet /\ init.try < Tries /\ report \in {"idle", "tested"}
  /\ removal \in RemovalSet /\ seen \in SeenSet

(* Types of what is off channel.                                           *)
OffTypes == task \in TaskSet /\ roc \in RocSet /\ scan \in ScanSet

(* These types imply the ones the runs check.                              *)
LEMMA LifeTyped ==
  ASSUME LifeTypes
  PROVE  LifeTypeOK
  <1>1. {suspended, full, done} \subseteq BOOLEAN
    BY DEF FlagSet, LifeTypes
  <1>2. FwTypeOK
    BY DEF FwTypeOK, ChipSet, PathSet, LoadSet, LifeTypes
  <1> QED BY <1>1, <1>2 DEF LifeTypeOK, PmSet, RegdSet, MutexSet, WorkSet, InitSet, RemovalSet,
      SeenSet, LifeTypes

(* The same of what is off channel.                                        *)
LEMMA OffTyped == OffTypes => OffTypeOK
  BY DEF OffTypeOK, TaskSet, RocSet, ScanSet, OffTypes

(* The types of the device's life are inductive.                           *)
LEMMA LifeTypeStep ==
  ASSUME LifeTypes, TabNext
  PROVE  LifeTypes'
  <1> USE DEF LifeTypes
  <1>1. CASE LifeNext
    <2>1. path' \in PathSet /\ chip' \in ChipSet /\ load' \in LoadSet /\ faults' \in 0 .. MaxFaults
      BY <1>1, PathStep, ChipStep, LoadVarStep, FaultStep, FaultTyped
    <2>2. work' \in WorkSet /\ init' \in InitSet /\ init'.try < Tries /\ seen' \in SeenSet
      BY <1>1, <2>1, WorkStep, InitVarStep, SeenStep
    <2>3. FlagSet' /\ pm' \in PmSet /\ regd' \in RegdSet /\ mutex' \in MutexSet
          /\ report' \in {"idle", "tested"} /\ removal' \in RemovalSet
         /\ UNCHANGED scene
      BY <1>1, FlagStep
    <2> QED BY <2>1, <2>2, <2>3
  <1>2. CASE Outside /\ (UNCHANGED mutex \/ mutex' \in {"free", "mac"})
    <2>1. faults' \in 0 .. MaxFaults
      BY <1>2, FaultTyped DEF Outside
    <2>2. work' \in WorkSet
      BY <1>2, WorkTyped DEF Outside
    <2>3. mutex' \in MutexSet /\ FlagSet'
      BY <1>2 DEF Outside, MutexSet, FlagSet
    <2> QED BY <1>2, <2>1, <2>2, <2>3 DEF Outside
  <1> QED BY <1>1, <1>2, Ways

(* Each change of a stay off channel keeps its type.                       *)
LEMMA RocTyped ==
  ASSUME roc \in RocSet, NEW b \in BOOLEAN
  PROVE  /\ [roc EXCEPT !.bit = b] \in RocSet /\ [roc EXCEPT !.grant = b] \in RocSet
         /\ [roc EXCEPT !.timer = b] \in RocSet /\ [roc EXCEPT !.pend = b] \in RocSet
            /\ [roc EXCEPT !.runs = b] \in RocSet
         /\ [roc EXCEPT !.isr = FALSE, !.timer = TRUE] \in RocSet
         /\ Stop(roc) \in RocSet /\ [roc EXCEPT !.flight = 0] \in RocSet
         /\ roc.flight > 0 => /\ [roc EXCEPT !.flight = @ - 1] \in RocSet
                              /\ [roc EXCEPT !.grant = TRUE, !.isr = TRUE,
                                 !.flight = @ - 1] \in RocSet
         /\ [roc EXCEPT !.timer = FALSE, !.pend = @ \/ pm = "up"] \in RocSet
         /\ [roc EXCEPT !.pend = FALSE, !.runs = roc.bit, !.bit = FALSE] \in RocSet
  <1>0. MaxFlight \in Nat /\ 0 \in 0 .. MaxFlight
    BY OffAssumption
  <1>1. [roc EXCEPT !.bit = b] \in RocSet /\ [roc EXCEPT !.grant = b] \in RocSet
         /\ [roc EXCEPT !.timer = b] \in RocSet /\ [roc EXCEPT !.pend = b] \in RocSet
            /\ [roc EXCEPT !.runs = b] \in RocSet
    BY DEF RocSet
  <1>2. [roc EXCEPT !.isr = FALSE, !.timer = TRUE] \in RocSet /\ Stop(roc) \in RocSet
    BY DEF RocSet, Stop
  <1>3. [roc EXCEPT !.flight = 0] \in RocSet
    BY <1>0 DEF RocSet
  <1>4. ASSUME roc.flight > 0 
        PROVE  /\ [roc EXCEPT !.flight = @ - 1] \in RocSet
               /\ [roc EXCEPT !.grant = TRUE, !.isr = TRUE, !.flight = @ - 1] \in RocSet
    <2>1. roc.flight - 1 \in 0 .. MaxFlight
      BY <1>0, <1>4 DEF RocSet
    <2> QED BY <2>1 DEF RocSet
  <1>5. [roc EXCEPT !.timer = FALSE, !.pend = @ \/ pm = "up"] \in RocSet
    BY DEF RocSet
  <1>6. [roc EXCEPT !.pend = FALSE, !.runs = roc.bit, !.bit = FALSE] \in RocSet
    BY DEF RocSet
  <1> QED BY <1>1, <1>2, <1>3, <1>4, <1>5, <1>6

(* The types of what is off channel are inductive.                         *)
LEMMA OffTypeStep ==
  ASSUME OffTypes, TabNext
  PROVE  OffTypes'
  <1>0. task \in TaskSet /\ roc \in RocSet /\ scan \in ScanSet
    BY DEF OffTypes
  <1>1. CASE Along
    <2>1. roc' \in RocSet
      BY <1>0, <1>1, RocTyped DEF Along, RocAlong
    <2>2. scan' \in ScanSet
      BY <1>0, <1>1 DEF Along, ScanAlong, ScanSet
    <2> QED BY <1>0, <1>1, <2>1, <2>2 DEF Along, OffTypes
  <1>2. CASE RocStep
    <2>1. scan' \in ScanSet /\ task' \in TaskSet
      BY <1>0, <1>2 DEF RocStep, SetRoc, SetRocGranted, SetRocTimeout, GrantEvent, GrantArm,
          GrantNever, TimerFires, RocWork, RocWorkAbort, AbortTimer, AbortWork, AbortClear,
          AbortSync, AbortSynced, RocReturns, OnlyRoc, OnlyEvents, TaskSet
    <2>2. CASE SetRoc
      <3>1. roc.flight + 1 \in 0 .. MaxFlight
        BY <1>0, <2>2, OffAssumption DEF SetRoc, RocSet
      <3>2. \A n \in 0 .. MaxFlight : [roc EXCEPT !.bit = TRUE, !.grant = FALSE,
            !.flight = n] \in RocSet
        BY <1>0 DEF RocSet
      <3>3. roc.flight \in 0 .. MaxFlight
        BY <1>0 DEF RocSet
      <3>4. roc' \in RocSet
        BY <1>0, <2>2, <3>1, <3>2, <3>3, RocTyped DEF SetRoc
      <3> QED BY <2>1, <3>4 DEF OffTypes
    <2>3. CASE ~SetRoc
      <3>1. roc' \in RocSet
        BY <1>0, <1>2, <2>3, RocTyped DEF RocStep, SetRocGranted, SetRocTimeout, GrantEvent,
            GrantArm, GrantNever, TimerFires, RocWork, RocWorkAbort, AbortTimer, AbortWork,
            AbortClear, AbortSync, AbortSynced
      <3> QED BY <2>1, <3>1 DEF OffTypes
    <2> QED BY <2>2, <2>3
  <1>3. CASE ScanStep
    <2>1. UNCHANGED <<task, roc>>
      BY <1>3 DEF ScanStep, HwScan, ScanDone, ScanWork, CancelScan, OnlyScan
    <2>3. HwScan => scan' \in ScanSet
      BY <1>0 DEF HwScan, ScanSet, Delivered
    <2>4. ScanDone => scan' \in ScanSet
      BY <1>0 DEF ScanDone, ScanSet
    <2>5. ScanWork => scan' \in ScanSet
      BY <1>0 DEF ScanWork, ScanSet
    <2>6. CancelScan => scan' \in ScanSet
      BY <1>0 DEF CancelScan, ScanSet
    <2> QED BY <1>0, <1>3, <2>1, <2>3, <2>4, <2>5, <2>6 DEF ScanStep, OffTypes
  <1>5. ASSUME OnlyTables PROVE UNCHANGED offvars
    BY <1>5 DEF OnlyTables
  <1>6. CASE Operation \/ IterNext \/ IterCommand
    <2>1. OnlyTables
      BY <1>6 DEF Operation, AddInterface, RemoveInterface, StartAp, EnableBeacon, StopAp, StaAdd,
          StaAssoc, StaRemove, SetKey, Ampdu, Begin, Command, Return, IterNext, IterCommand
    <2> QED BY <1>0, <1>5, <2>1 DEF offvars, OffTypes
  <1> QED BY <1>1, <1>2, <1>3, <1>6 DEF TabNext, OffNext, Along
-----------------------------------------------------------------------------
(* The firmware is being loaded, for a reset or for the start-up; where    *)
(* the reset holds hw_full_reset.                                          *)
Loading == work.at = "load" \/ init.at = "load"
Running == {"lock", "own", "worker", "rx", "tx", "dma", "open", "down", "load", "start", "out",
    "end"}

(* How the parts of the device's life fit together: nothing is reset,      *)
(* asked for or reported before the start-up is over; the loader runs      *)
(* exactly when a reset or the start-up has called it; hw_full_reset is    *)
(* set while a reset runs; removal and suspend exclude one another.        *)
Shape ==
    /\ ~done => ~work.queued /\ work.at = "idle" /\ report = "idle" /\ work.ok
    /\ done => init.at = "done"
    /\ load.at # "idle" <=> Loading
    /\ full <=> work.at \in Running
    /\ removal # "no" => pm = "up"
    /\ suspended => pm # "up"

(* A request for a reset changes work.queued and nothing else of it.       *)
LEMMA Asks ==
  ASSUME work \in WorkSet, UNCHANGED work \/ AskReset \/ work' = Queue
  PROVE  work'.at = work.at /\ work'.ok = work.ok /\ work'.try = work.try /\ (work.queued
         => work'.queued)
         /\ ((UNCHANGED work \/ AskReset) /\ (~done \/ full \/ suspended)
            => work'.queued = work.queued)
         /\ (done /\ ~full /\ ~suspended /\ AskReset => work'.queued)
  BY DEF AskReset, Queue, WorkSet

(* A step of the loader stays within the call.                             *)
LEMMA ShapeLoad ==
  ASSUME load \in LoadSet, LoadStep
  PROVE  load.at # "idle" /\ load'.at # "idle"
  BY DEF LoadStep, Restart, SemGet, PatchFile, PatchRegion, StartPatch, SemRelease, RamFile,
      RamRegion, StartRam, Ready, Query, To, Fail, Sent, Unsure, LoadSet

(* Shape is inductive.                                                     *)
LEMMA ShapeStep ==
  ASSUME LifeTypes, Shape, TabNext
  PROVE  Shape'
  <1>0. work \in WorkSet /\ load \in LoadSet /\ init \in InitSet
    BY DEF LifeTypes
  <1> USE <1>0
  <1>1. ASSUME UNCHANGED <<load, pm, suspended, full, init, done, report, removal>>,
               UNCHANGED work \/ AskReset
        PROVE  Shape'
    BY <1>1, Asks DEF Shape, Loading
  <1>2. CASE Outside
    BY <1>1, <1>2 DEF Outside
  <1>3. CASE Load
    BY <1>3, ShapeLoad DEF Load, lifevars, Shape, Loading
  <1>4. CASE ReportTest \/ ReportQueue
    BY <1>4, Asks DEF ReportTest, ReportQueue, Shape, Loading, fwvars
  <1>5. CASE RegdStep \/ Doze \/ WakeUp
    BY <1>1, <1>5 DEF RegdStep, RegdTest, RegdMark, RegdLock, RegdUpdate, RegdDone, Doze, WakeUp,
        lifevars, fwvars, DrvOwn
  <1>6. CASE SuspendStep
    <2>1. UNCHANGED <<load, full, init, done, report, removal>>
      BY <1>6 DEF SuspendStep, SuspendBegin, SuspendFlush, SuspendCancel, SuspendOwn, SuspendRegd,
          SuspendLate, SuspendHif, SuspendTx, SuspendRx, SuspendDma, SuspendFw, SuspendUnhif,
          SuspendEnd, Asleep, fwvars
    <2>2. UNCHANGED work \/ AskReset \/ (work' = Queue /\ done)
      BY <1>6 DEF SuspendStep, SuspendBegin, SuspendFlush, SuspendCancel, SuspendOwn, SuspendRegd,
          SuspendLate, SuspendHif, SuspendTx, SuspendRx, SuspendDma, SuspendFw, SuspendUnhif,
          SuspendEnd, DrvOwn
    <2>3. (suspended' => pm' # "up") /\ (removal # "no" => pm' = "up")
      BY <1>6 DEF SuspendStep, SuspendBegin, SuspendFlush, SuspendCancel, SuspendOwn, SuspendRegd,
          SuspendLate, SuspendHif, SuspendTx, SuspendRx, SuspendDma, SuspendFw, SuspendUnhif,
          SuspendEnd, DrvOwn, Shape
    <2> QED BY <2>1, <2>2, <2>3, Asks DEF Shape, Loading
  <1>7. CASE ResumeStep
    <2>1. UNCHANGED <<load, full, init, done, report, removal>>
      BY <1>7 DEF ResumeStep, ResumeOwn, ResumeHw, ResumeNapi, ResumeHif, ResumeUpdate, ResumeEnd,
          Asleep, fwvars
    <2>2. UNCHANGED work \/ AskReset
      BY <1>7 DEF ResumeStep, ResumeOwn, ResumeHw, ResumeNapi, ResumeHif, ResumeUpdate, ResumeEnd,
          DrvOwn
    <2>3. (suspended' => pm' # "up") /\ (removal # "no" => pm' = "up")
      BY <1>7 DEF ResumeStep, ResumeOwn, ResumeHw, ResumeNapi, ResumeHif, ResumeUpdate, ResumeEnd,
          DrvOwn, Shape
    <2> QED BY <2>1, <2>2, <2>3, Asks DEF Shape, Loading
  <1>8. CASE ResetStep
    <2>0. UNCHANGED <<pm, init, done, report, removal>> /\ (suspended' => suspended)
      BY <1>8 DEF ResetStep, ResetBegin, ResetLock, ResetOwn, ResetWorker, ResetRx, ResetTx,
          ResetDma, ResetOpen, ResetDown, ResetLoaded, ResetStart, ResetOut, ResetEnd, ResetClear,
          ResetIfaces, Resetting
    <2>1. CASE ResetDown \/ ResetLoaded
      BY <2>0, <2>1 DEF ResetDown, ResetLoaded, Shape, Loading, Running, At, Call, NoLoad, WorkSet,
          LoadSet
    <2>2. CASE ResetBegin
      BY <2>0, <2>2 DEF ResetBegin, fwvars, Shape, Loading, Running, Idle
    <2>3. CASE ResetLock \/ ResetOwn \/ ResetWorker \/ ResetRx \/ ResetTx
      BY <2>0, <2>3 DEF ResetLock, ResetOwn, ResetWorker, ResetRx, ResetTx, fwvars, Shape, Loading,
          Running, At, WorkSet
    <2>4. CASE ResetDma \/ ResetOpen \/ ResetStart \/ ResetOut
      BY <2>0, <2>4 DEF ResetDma, ResetOpen, ResetStart, ResetOut, fwvars, Shape, Loading, Running,
          At, Again, WorkSet
    <2>5. CASE ResetEnd \/ ResetClear
      BY <2>0, <2>5 DEF ResetEnd, ResetClear, fwvars, Shape, Loading, Running, At, WorkSet
    <2>6. CASE ResetIfaces
      <3>1. work.at = "ifaces" /\ work'.at = "idle" /\ UNCHANGED <<full, load, suspended>>
        BY <2>6 DEF ResetIfaces, At, WorkSet
      <3> QED BY <2>0, <3>1 DEF Shape, Loading, Running
    <2> QED BY <1>8, <2>1, <2>2, <2>3, <2>4, <2>5, <2>6 DEF ResetStep
  <1>9. CASE InitStep
    BY <1>9 DEF InitStep, InitOwn, InitLoaded, InitConfig, InitReset, InitRegister, InitFinish,
        Starting, Goes, Call, NoLoad, Shape, Loading, Running, InitSet, LoadSet, fwvars
  <1>10. CASE RemoveStep
    <2>1. CASE RemoveBegin
      BY <2>1 DEF RemoveBegin, Removing, Next1, fwvars, Shape, Loading, InitSet
    <2>2. CASE RemoveCancel
      BY <2>2 DEF RemoveCancel, Removing, Next1, fwvars, Shape, Loading, WorkSet
    <2>3. CASE RemoveInit \/ RemoveUnregister \/ RemoveNapi \/ RemoveOwn \/ RemoveFree
      BY <2>3 DEF RemoveInit, RemoveUnregister, RemoveNapi, RemoveOwn, RemoveFree, Removing, Next1,
          fwvars, Shape, Loading
    <2> QED BY <1>10, <2>1, <2>2, <2>3 DEF RemoveStep
  <1> QED BY <1>2, <1>3, <1>4, <1>5, <1>6, <1>7, <1>8, <1>9, <1>10, Ways DEF LifeNext
-----------------------------------------------------------------------------
(* What the chip holds: both files in full; nothing, with the semaphore    *)
(* free; and where a reset or the start-up stands before it loads.         *)
SentInFull == chip.patched /\ chip.ram = Regions /\ chip.patch = Regions
Clean == ~chip.sem /\ ~chip.patched /\ ~chip.running
Waiting == work.at \in {"open", "down"} \/ init.at \in {"queued", "own"}

(* The patch semaphore along the load. SemReturned speaks of the load's    *)
(* end; what makes it so is said here of every place before: at its start  *)
(* the chip is clean or the rings are gone, and then no command reaches    *)
(* the chip at all; after each region the chip holds as many as were sent; *)
(* the semaphore is taken from "sem" to "release" only, and lost only when *)
(* an answer was.                                                          *)
Sem ==
    /\ chip.stale => ~path["rings"]
    /\ load.at \in {"restart", "sem"} \/ Waiting => (chip.sem => chip.stale) /\ (path["rings"]
       => Clean)
    /\ load.at \in {"idle", "done"} /\ chip.sem => load.unsure
    /\ load.at \in {"ram", "ready", "query"} => ~chip.sem
    /\ chip.patched => chip.patch = Regions
    /\ chip.running => SentInFull
    /\ load.at \in {"file", "patch"} /\ path["rings"] => ~chip.patched /\ ~chip.running
    /\ load.at = "patch" /\ load.i > 0 /\ path["rings"] => chip.patch = load.i
    /\ load.at = "release" /\ path["rings"] => ~chip.running /\ (load.ok => chip.patched)
    /\ load.at = "ram" /\ path["rings"] => ~chip.running /\ chip.patched /\ (load.i > 0
       => chip.ram = load.i)
    /\ load.at = "query" \/ (load.at = "done" /\ load.ok) => chip.running \/ removal = "gone"

(* A chip that answers has its rings, its interrupt and its receive path.  *)
LEMMA RingsThere ==
  ASSUME Alive
  PROVE path["rings"] /\ path["dma"] /\ path["irq"] /\ path["rx"] /\ path["awake"]
  BY DEF Alive, Parts

(* The load keeps Sem.                                                     *)
LEMMA SemLoad ==
  ASSUME LifeTypes, Shape, Sem, Load
  PROVE  Sem'
  <1>0. chip \in ChipSet /\ load \in LoadSet /\ path \in PathSet /\ work \in WorkSet
        /\ init \in InitSet
    BY DEF LifeTypes
  <1>1. UNCHANGED <<path, work, init, removal>> /\ Loading /\ ~Waiting /\ ~Waiting' /\ LoadStep
    <2>1. UNCHANGED <<path, work, init, removal>> /\ LoadStep
      BY DEF Load, lifevars, LoadStep, Restart, SemGet, PatchFile, PatchRegion, StartPatch,
          SemRelease, RamFile, RamRegion, StartRam, Ready, Query
    <2>2. Loading /\ ~Waiting
      BY <1>0, <2>1, ShapeLoad DEF Shape, Loading, Waiting
    <2> QED BY <2>1, <2>2 DEF Waiting
  <1> USE <1>0, <1>1, RingsThere, Numbers DEF Sem, Clean, SentInFull, ChipSet, LoadSet
  <1>2. CASE Restart
    BY <1>2 DEF Restart, To
  <1>3. CASE SemGet
    BY <1>3, ZenonT(40) DEF SemGet, To, Fail, Taken, Answered, Unanswered, Unsure, MayReach
  <1>4. CASE PatchFile
    <2>1. load.at = "file" /\ UNCHANGED chip
      BY <1>4 DEF PatchFile
    <2>2. CASE load' = [load EXCEPT !.at = "patch", !.i = 0]
      BY <2>1, <2>2
    <2>3. CASE load' = [load EXCEPT !.at = "release", !.i = 0, !.ok = FALSE]
      BY <2>1, <2>3
    <2> QED BY <1>4, <2>2, <2>3 DEF PatchFile, To, Fail
  <1>5. CASE PatchRegion
    <2>1. load.at = "patch" /\ load.i < Regions /\ UNCHANGED path
      BY <1>5 DEF PatchRegion
    <2>2. CASE Answered /\ chip' = [chip EXCEPT !.patch = load.i + 1] /\ Sent
      BY <2>1, <2>2 DEF Sent, Answered
    <2>3. CASE load' = [load EXCEPT !.at = "release", !.i = 0, !.ok = FALSE] /\ UNCHANGED chip
      BY <2>1, <2>3
    <2> QED BY <1>5, <2>2, <2>3 DEF PatchRegion, Fail
  <1>6. CASE StartPatch
    <2>1. load.at = "patch" /\ load.i = Regions /\ UNCHANGED path
      BY <1>6 DEF StartPatch
    <2>2. CASE Answered /\ To("release") /\ chip' = [chip EXCEPT !.patched = TRUE]
      BY <2>1, <2>2 DEF To, Answered
    <2>3. CASE load' = [load EXCEPT !.at = "release", !.i = 0, !.ok = FALSE]
               /\ UNCHANGED chip
      BY <2>1, <2>3
    <2>4. CASE load' = [load EXCEPT !.at = "release", !.i = 0, !.ok = FALSE]
               /\ path["rings"] /\ chip' = [chip EXCEPT !.patched = TRUE]
      BY <2>1, <2>4
    <2> QED BY <1>6, <2>2, <2>3, <2>4 DEF StartPatch, Fail, MayReach
  <1>7. CASE SemRelease
    <2>0. load.at = "release"
      BY <1>7 DEF SemRelease
    <2>1. CASE Alive /\ chip' = [chip EXCEPT !.sem = FALSE]
               /\ load' = [load EXCEPT !.at = IF load.ok THEN "ram" ELSE "done", !.i = 0]
      BY <2>0, <2>1
    <2>2. CASE Unsure /\ chip' \in {chip, [chip EXCEPT !.sem = FALSE]}
      BY <2>0, <2>2 DEF Unsure
    <2> QED BY <1>7, <2>1, <2>2 DEF SemRelease, Given, To, Answered, MayReach
  <1>8. CASE RamFile
    BY <1>8 DEF RamFile, Fail
  <1>9. CASE RamRegion
    <2>1. load.at = "ram" /\ load.i < Regions /\ UNCHANGED path
      BY <1>9 DEF RamRegion
    <2>2. CASE Answered /\ chip' = [chip EXCEPT !.ram = load.i + 1] /\ Sent
      BY <2>1, <2>2 DEF Sent, Answered
    <2>3. CASE Unanswered /\ Fail("done") /\ UNCHANGED chip
      BY <2>1, <2>3 DEF Fail, Unanswered
    <2> QED BY <1>9, <2>2, <2>3 DEF RamRegion
  <1>10. CASE StartRam
    <2>1. load.at = "ram" /\ load.i = Regions /\ UNCHANGED path
      BY <1>10 DEF StartRam
    <2>2. CASE Answered /\ To("ready") /\ chip' = [chip EXCEPT !.running = TRUE]
      BY <2>1, <2>2 DEF To, Answered
    <2>3. CASE load' = [load EXCEPT !.at = "done", !.i = 0, !.ok = FALSE] /\ UNCHANGED chip
      BY <2>1, <2>3
    <2>4. CASE load' = [load EXCEPT !.at = "done", !.i = 0, !.ok = FALSE]
               /\ path["rings"] /\ chip' = [chip EXCEPT !.running = TRUE]
      BY <2>1, <2>4
    <2> QED BY <1>10, <2>2, <2>3, <2>4 DEF StartRam, Fail, MayReach
  <1>11. CASE Ready
    BY <1>11, ZenonT(40) DEF Ready, To, Fail
  <1>12. CASE Query
    BY <1>12, ZenonT(40) DEF Query, To, Fail, Answered, Unanswered
  <1> QED BY <1>1, <1>2, <1>3, <1>4, <1>5, <1>6, <1>7, <1>8, <1>9, <1>10, <1>11, <1>12 DEF LoadStep

(* What keeps the download's part: a chip that is as it was but for the    *)
(* host interface's suspend.                                               *)
ChipSame == \/ UNCHANGED chip
            \/ chip' = [chip EXCEPT !.hif = TRUE]
            \/ chip' = [chip EXCEPT !.hif = FALSE]

(* Such a chip, rings that are not made anew and a reset that does not     *)
(* come to wait keep Sem.                                                  *)
LEMMA SemSame ==
  ASSUME LifeTypes, Sem, UNCHANGED <<load, removal>>, ChipSame, path'["rings"]
         => path["rings"], Waiting' => Waiting
  PROVE  Sem'
  <1>1. chip'.sem = chip.sem /\ chip'.stale = chip.stale /\ chip'.patch = chip.patch
        /\ chip'.patched = chip.patched
        /\ chip'.ram = chip.ram /\ chip'.running = chip.running
    BY DEF LifeTypes, ChipSet, ChipSame
  <1>2. load' = load /\ removal' = removal
    OBVIOUS
  <1> QED BY <1>1, <1>2 DEF Sem, Clean, SentInFull

(* A reset of the chip (mt792x_wpdma_reset) leaves it clean, or without    *)
(* rings.                                                                  *)
LEMMA SemReset ==
  ASSUME LifeTypes, Sem, load.at = "idle", UNCHANGED <<load, removal>>, WpdmaReset(path)
  PROVE  Sem'
  <1>0. chip \in ChipSet /\ path \in PathSet /\ "rings" \in Parts
    BY DEF LifeTypes, Parts
  <1>1. CASE chip' = Fresh
    <2>1. ~chip'.sem /\ ~chip'.stale /\ ~chip'.patched /\ ~chip'.running
      BY <1>1 DEF Fresh
    <2> QED BY <2>1 DEF Sem, Clean, SentInFull
  <1>2. CASE chip' = [chip EXCEPT !.stale = TRUE]
    <2>1. chip'.sem = chip.sem /\ chip'.stale /\ chip'.patch = chip.patch
          /\ chip'.patched = chip.patched
          /\ chip'.ram = chip.ram /\ chip'.running = chip.running
      BY <1>0, <1>2 DEF ChipSet
    <2>2. ~path'["rings"]
      BY <1>0, <2>1 DEF WpdmaReset, PathSet, Parts, Fresh
    <2> QED BY <2>1, <2>2 DEF Sem, Clean, SentInFull
  <1> QED BY <1>1, <1>2 DEF WpdmaReset, WfsysReset

(* Sem is inductive.                                                       *)
LEMMA SemStep ==
  ASSUME LifeTypes, Shape, Sem, TabNext
  PROVE  Sem'
  <1>0. chip \in ChipSet /\ load \in LoadSet /\ path \in PathSet /\ work \in WorkSet
        /\ init \in InitSet /\ "rings" \in Parts
    BY DEF LifeTypes, Parts
  <1>1. ASSUME UNCHANGED <<load, chip, path, removal, init>>, UNCHANGED work \/ AskReset
               \/ work' = Queue
        PROVE  Sem'
    <2>1. Waiting' => Waiting
      BY <1>0, <1>1, Asks DEF Waiting
    <2> QED BY <1>1, <2>1, SemSame DEF ChipSame
  <1>2. CASE Outside
    BY <1>1, <1>2 DEF Outside
  <1>3. CASE Load
    BY <1>3, SemLoad
  <1>4. CASE ReportTest \/ ReportQueue \/ RegdStep
    BY <1>1, <1>4 DEF ReportTest, ReportQueue, RegdStep, RegdTest, RegdMark, RegdLock, RegdUpdate,
        RegdDone, fwvars
  <1>5. ASSUME Reinit \/ UNCHANGED path \/ (\E parts : Off(parts))
               \/ (\E parts \in SUBSET (Parts \ {"rings"}) : On(parts))
        PROVE  path'["rings"] => path["rings"]
    BY <1>0, <1>5 DEF Reinit, Off, On, PathSet, Parts
  <1>6. CASE Doze \/ WakeUp
    <2>1. UNCHANGED <<load, chip, removal, init>> /\ (UNCHANGED work \/ AskReset)
      BY <1>6 DEF Doze, WakeUp, lifevars, DrvOwn
    <2>2. path'["rings"] => path["rings"]
      BY <1>0, <1>5, <1>6 DEF Doze, WakeUp, DrvOwn, PathSet
    <2>3. Waiting' => Waiting
      BY <1>0, <2>1, Asks DEF Waiting
    <2> QED BY <2>1, <2>2, <2>3, SemSame DEF ChipSame
  <1>7. CASE SuspendStep \/ ResumeStep
    <2>1. UNCHANGED <<load, removal, init>> /\ (UNCHANGED work \/ AskReset \/ work' = Queue)
      BY <1>7 DEF SuspendStep, SuspendBegin, SuspendFlush, SuspendCancel, SuspendOwn, SuspendRegd,
          SuspendLate, SuspendHif, SuspendTx, SuspendRx, SuspendDma, SuspendFw, SuspendUnhif,
          SuspendEnd, ResumeStep, ResumeOwn, ResumeHw, ResumeNapi, ResumeHif, ResumeUpdate,
          ResumeEnd, Asleep, fwvars, DrvOwn
    <2>2. ChipSame
      BY <1>7 DEF SuspendStep, SuspendBegin, SuspendFlush, SuspendCancel, SuspendOwn, SuspendRegd,
          SuspendLate, SuspendHif, SuspendTx, SuspendRx, SuspendDma, SuspendFw, SuspendUnhif,
          SuspendEnd, ResumeStep, ResumeOwn, ResumeHw, ResumeNapi, ResumeHif, ResumeUpdate,
          ResumeEnd, fwvars, ChipSame, MayReach
    <2>3. Reinit \/ UNCHANGED path \/ (\E parts : Off(parts)) \/ On({"rx", "tx"})
          \/ On({"irq", "dma", "worker"})
      BY <1>7 DEF SuspendStep, SuspendBegin, SuspendFlush, SuspendCancel, SuspendOwn, SuspendRegd,
          SuspendLate, SuspendHif, SuspendTx, SuspendRx, SuspendDma, SuspendFw, SuspendUnhif,
          SuspendEnd, ResumeStep, ResumeOwn, ResumeHw, ResumeNapi, ResumeHif, ResumeUpdate,
          ResumeEnd, fwvars, DrvOwn
    <2>4. path'["rings"] => path["rings"]
      BY <1>5, <2>3 DEF Parts
    <2>5. Waiting' => Waiting
      BY <1>0, <2>1, Asks DEF Waiting
    <2> QED BY <2>1, <2>2, <2>4, <2>5, SemSame
  <1>8. CASE ResetStep
    <2>0. UNCHANGED <<init, done, removal>>
      BY <1>8 DEF ResetStep, ResetBegin, ResetLock, ResetOwn, ResetWorker, ResetRx, ResetTx,
          ResetDma, ResetOpen, ResetDown, ResetLoaded, ResetStart, ResetOut, ResetEnd, ResetClear,
          ResetIfaces, Resetting
    <2>1. CASE ResetDma
      <3>1. load.at = "idle" /\ UNCHANGED load /\ WpdmaReset(path)
        BY <2>1 DEF ResetDma, Shape, Loading
      <3> QED BY <2>0, <3>1, SemReset
    <2>2. CASE ResetDown
      <3>1. UNCHANGED <<chip, path>> /\ Waiting
        BY <2>2 DEF ResetDown, Waiting
      <3>2. CASE Call
        <4>1. load'.at = "restart"
          BY <3>2 DEF Call, NoLoad
        <4> QED BY <2>0, <3>1, <4>1 DEF Sem, Clean, SentInFull
      <3>3. CASE UNCHANGED load /\ work' = [work EXCEPT !.at = "out", !.ok = FALSE]
        <4>1. Waiting' => Waiting
          BY <3>1
        <4> QED BY <2>0, <3>1, <3>3, <4>1, SemSame DEF ChipSame
      <3> QED BY <2>2, <3>2, <3>3 DEF ResetDown
    <2>3. CASE ResetLoaded
      <3>1. load.at = "done" /\ load'.at = "idle" /\ load'.unsure = load.unsure
            /\ UNCHANGED <<chip, path>>
        BY <1>0, <2>3 DEF ResetLoaded, LoadSet
      <3>2. ~Waiting'
        BY <1>0, <2>0, <2>3 DEF ResetLoaded, Waiting, WorkSet, Shape
      <3> QED BY <2>0, <3>1, <3>2 DEF Sem, Clean, SentInFull
    <2>4. CASE ~ResetDma /\ ~ResetDown /\ ~ResetLoaded
      <3>1. UNCHANGED <<load, chip>>
        BY <1>8, <2>4 DEF ResetStep, ResetBegin, ResetLock, ResetOwn, ResetWorker, ResetRx, ResetTx,
            ResetOpen, ResetStart, ResetOut, ResetEnd, ResetClear, ResetIfaces, fwvars
      <3>2. path'["rings"] => path["rings"]
        <4>1. CASE ResetOwn
          BY <1>0, <4>1 DEF ResetOwn, PathSet, Parts, Off
        <4>2. CASE ~ResetOwn
          BY <1>5, <1>8, <2>4, <4>2 DEF ResetStep, ResetBegin, ResetLock, ResetWorker, ResetRx,
              ResetTx, ResetOpen, ResetStart, ResetOut, ResetEnd, ResetClear, ResetIfaces, fwvars,
              Parts
        <4> QED BY <4>1, <4>2
      <3>3. work.at # "open" => work'.at \notin {"open", "down"}
        BY <1>0, <1>8, <2>4 DEF ResetStep, ResetBegin, ResetLock, ResetOwn, ResetWorker, ResetRx,
            ResetTx, ResetOpen, ResetStart, ResetOut, ResetEnd, ResetClear, ResetIfaces, At, Again,
            Idle, WorkSet
      <3>4. Waiting' => Waiting
        BY <2>0, <3>3 DEF Waiting
      <3> QED BY <2>0, <3>1, <3>2, <3>4, SemSame DEF ChipSame
    <2> QED BY <2>1, <2>2, <2>3, <2>4
  <1>9. CASE InitStep
    <2>0. UNCHANGED <<work, removal>> 
      BY <1>9 DEF InitStep, InitOwn, InitLoaded, InitConfig, InitReset, InitRegister, InitFinish,
          Starting
    <2>1. CASE InitReset
      <3>1. load.at = "idle" /\ UNCHANGED load /\ WpdmaReset(path)
        BY <2>1 DEF InitReset, Shape, Loading
      <3> QED BY <2>0, <3>1, SemReset
    <2>2. CASE InitOwn
      <3>1. UNCHANGED <<chip, path>> /\ Waiting
        BY <2>2 DEF InitOwn, Waiting
      <3>2. CASE Call
        <4>1. load'.at = "restart"
          BY <3>2 DEF Call, NoLoad
        <4> QED BY <2>0, <3>1, <4>1 DEF Sem, Clean, SentInFull
      <3>3. CASE UNCHANGED load
        BY <2>0, <3>1, <3>3, SemSame DEF ChipSame
      <3> QED BY <2>2, <3>2, <3>3 DEF InitOwn
    <2>3. CASE InitLoaded
      <3>1. load.at = "done" /\ load'.at = "idle" /\ load'.unsure = load.unsure
            /\ UNCHANGED <<chip, path>>
        BY <1>0, <2>3 DEF InitLoaded, LoadSet
      <3>2. ~Waiting'
        BY <1>0, <2>0, <2>3 DEF InitLoaded, Goes, Waiting, InitSet, Shape
      <3> QED BY <2>0, <3>1, <3>2 DEF Sem, Clean, SentInFull
    <2>4. CASE InitConfig \/ InitRegister \/ InitFinish
      <3>1. UNCHANGED <<load, chip>>
        BY <2>4 DEF InitConfig, InitRegister, InitFinish, fwvars
      <3>2. path'["rings"] => path["rings"]
        BY <1>5, <2>4 DEF InitConfig, InitRegister, InitFinish, fwvars, Parts
      <3>3. Waiting' => Waiting
        BY <1>0, <2>0, <2>4 DEF InitConfig, InitRegister, InitFinish, Goes, InitSet, Waiting
      <3> QED BY <2>0, <3>1, <3>2, <3>3, SemSame DEF ChipSame
    <2> QED BY <1>9, <2>1, <2>2, <2>3, <2>4 DEF InitStep
  <1>10. CASE RemoveStep
    <2>1. CASE RemoveFree
      <3>1. UNCHANGED <<load, work, init>> /\ ~path'["rings"] /\ removal' = "gone"
        BY <1>0, <2>1 DEF RemoveFree, Off, Next1, Parts
      <3>2. CASE chip' = Fresh
        <4>1. ~chip'.sem /\ ~chip'.stale /\ ~chip'.patched /\ ~chip'.running
          BY <3>2 DEF Fresh
        <4> QED BY <3>1, <4>1 DEF Sem, Clean, SentInFull
      <3>3. CASE chip' = [chip EXCEPT !.stale = TRUE]
        <4>1. chip'.sem = chip.sem /\ chip'.stale /\ chip'.patch = chip.patch
              /\ chip'.patched = chip.patched
              /\ chip'.ram = chip.ram /\ chip'.running = chip.running
          BY <1>0, <3>3 DEF ChipSet
        <4> QED BY <3>1, <4>1 DEF Sem, Clean, SentInFull
      <3> QED BY <2>1, <3>2, <3>3 DEF RemoveFree, WfsysReset
    <2>2. CASE ~RemoveFree
      <3>1. UNCHANGED <<load, chip>> /\ (removal = "gone" <=> removal' = "gone")
        BY <1>10, <2>2 DEF RemoveStep, RemoveBegin, RemoveInit, RemoveUnregister, RemoveNapi,
            RemoveCancel, RemoveOwn, fwvars, Next1
      <3>2. path'["rings"] => path["rings"]
        BY <1>5, <1>10, <2>2 DEF RemoveStep, RemoveBegin, RemoveInit, RemoveUnregister, RemoveNapi,
            RemoveCancel, RemoveOwn, fwvars, Parts
      <3>3. Waiting' => Waiting
        BY <1>0, <1>10, <2>2 DEF RemoveStep, RemoveBegin, RemoveInit, RemoveUnregister, RemoveNapi,
            RemoveCancel, RemoveOwn, Waiting, InitSet, WorkSet, fwvars
      <3> QED BY <3>1, <3>2, <3>3 DEF Sem, Clean, SentInFull
    <2> QED BY <2>1, <2>2
  <1> QED BY <1>2, <1>3, <1>4, <1>6, <1>7, <1>8, <1>9, <1>10, Ways DEF LifeNext
-----------------------------------------------------------------------------
(* Where a suspend has been past its test of the regulatory update, until  *)
(* the resume starts one of its own.                                       *)
Held == {"hif", "quiet", "rx", "dma", "fw", "resume hif", "refused", "asleep", "hw", "napi",
    "wake hif", "update", "woken"}

(* SleepExclusive's two exclusions: a reset against the suspend, which the *)
(* flush of reset_work brings about, and the regulatory update against the *)
(* sleeping device, for as long as neither window was hit (seen.raced:     *)
(* work queued after the flush; seen.late: the update marked after the     *)
(* test).                                                                  *)
Excl == ResetExcluded /\ (~seen.raced /\ ~seen.late /\ pm \in Held => regd = "idle")

(* Excl is inductive.                                                      *)
LEMMA ExclStep ==
  ASSUME LifeTypes, Shape, Excl, TabNext
  PROVE  Excl'
  <1>0. work \in WorkSet /\ seen \in SeenSet /\ pm \in PmSet /\ load \in LoadSet
    BY DEF LifeTypes
  <1> USE <1>0 DEF Excl, ResetExcluded, PastFlush
  <1>1. ASSUME UNCHANGED <<pm, suspended, seen, regd>>, UNCHANGED work \/ AskReset
        PROVE  Excl'
    BY <1>1, Asks
  <1>2. CASE Outside
    BY <1>1, <1>2 DEF Outside
  <1>3. CASE Load \/ Doze \/ ReportTest
    BY <1>1, <1>3 DEF Load, lifevars, Doze, ReportTest
  <1>4. CASE ReportQueue
    <2>1. UNCHANGED <<pm, suspended, regd>> /\ work' = Queue /\ seen' = [seen EXCEPT !.raced = @
          \/ PastFlush]
      BY <1>4 DEF ReportQueue
    <2>2. seen'.late = seen.late /\ (seen'.raced <=> seen.raced \/ PastFlush)
      BY <2>1 DEF SeenSet
    <2> QED BY <2>1, <2>2
  <1>5. CASE WakeUp
    <2>1. UNCHANGED <<pm, suspended, regd>> /\ (UNCHANGED work \/ AskReset)
      BY <1>5 DEF WakeUp, DrvOwn
    <2>2. seen'.late = seen.late /\ seen'.raced = seen.raced
      BY <1>5 DEF WakeUp, SeenSet
    <2> QED BY <2>1, <2>2, Asks
  <1>6. CASE RegdStep
    <2>1. UNCHANGED <<pm, suspended, seen>> /\ (UNCHANGED work \/ AskReset)
      BY <1>6 DEF RegdStep, RegdTest, RegdMark, RegdLock, RegdUpdate, RegdDone
    <2>2. regd = "idle" /\ regd' # "idle" => ~suspended
      BY <1>6 DEF RegdStep, RegdTest, RegdMark, RegdLock, RegdUpdate, RegdDone
    <2> QED BY <2>1, <2>2, Asks DEF Held
  <1>7. CASE SuspendStep
    <2>0. UNCHANGED regd
      BY <1>7 DEF SuspendStep, SuspendBegin, SuspendFlush, SuspendCancel, SuspendOwn, SuspendRegd,
          SuspendLate, SuspendHif, SuspendTx, SuspendRx, SuspendDma, SuspendFw, SuspendUnhif,
          SuspendEnd, Asleep
    <2>1. CASE SuspendBegin \/ SuspendEnd
      <3>1. pm' \in {"up", "flush"}
        BY <2>1 DEF SuspendBegin, SuspendEnd
      <3> QED BY <3>1 DEF Held
    <2>2. CASE SuspendFlush
      <3>1. pm' = "cancel" /\ work.at = "idle" /\ ~work.queued /\ UNCHANGED <<work, suspended>>
            /\ (seen'.raced <=> seen.raced \/ ~suspended)
        BY <2>2 DEF SuspendFlush, SeenSet
      <3> QED BY <3>1 DEF Held
    <2>3. CASE SuspendRegd \/ SuspendLate
      <3>1. pm = "regd" /\ pm' = "hif" /\ UNCHANGED <<work, suspended>> /\ seen'.raced = seen.raced
        BY <2>3 DEF SuspendRegd, SuspendLate, SeenSet
      <3>2. ~seen'.late => regd = "idle"
        BY <2>3, <1>0 DEF SuspendRegd, SuspendLate, SeenSet, Progress, LifeTypes, RegdSet
      <3> QED BY <2>0, <3>1, <3>2
    <2>4. CASE SuspendCancel \/ SuspendOwn \/ SuspendHif \/ SuspendTx \/ SuspendRx \/ SuspendDma
               \/ SuspendFw \/ SuspendUnhif
      <3>1. UNCHANGED <<suspended, seen>> /\ (UNCHANGED work \/ AskReset)
            /\ pm \notin {"up", "flush"}
        BY <2>4 DEF SuspendCancel, SuspendOwn, SuspendHif, SuspendTx, SuspendRx, SuspendDma,
            SuspendFw, SuspendUnhif, DrvOwn
      <3>2. pm \in Held \/ pm' \notin Held
        BY <2>4 DEF SuspendCancel, SuspendOwn, SuspendHif, SuspendTx, SuspendRx, SuspendDma,
            SuspendFw, SuspendUnhif, DrvOwn, Held
      <3> QED BY <2>0, <3>1, <3>2, Asks
    <2> QED BY <1>7, <2>1, <2>2, <2>3, <2>4 DEF SuspendStep
  <1>8. CASE ResumeStep
    <2>0. UNCHANGED regd
      BY <1>8 DEF ResumeStep, ResumeOwn, ResumeHw, ResumeNapi, ResumeHif, ResumeUpdate, ResumeEnd,
          Asleep
    <2>1. CASE ResumeEnd
      BY <2>1 DEF ResumeEnd, Held
    <2>2. CASE ~ResumeEnd
      <3>1. UNCHANGED suspended /\ (UNCHANGED work \/ AskReset) /\ pm \in Held
        BY <1>8, <2>2 DEF ResumeStep, ResumeOwn, ResumeHw, ResumeNapi, ResumeHif, ResumeUpdate,
            ResumeEnd, DrvOwn, Held
      <3>2. seen'.late = seen.late /\ seen'.raced = seen.raced
        BY <1>8, <2>2 DEF ResumeStep, ResumeOwn, ResumeHw, ResumeNapi, ResumeHif, ResumeUpdate,
            ResumeEnd, SeenSet
      <3> QED BY <2>0, <3>1, <3>2, Asks DEF Held
    <2> QED BY <2>1, <2>2
  <1>9. CASE ResetStep
    <2>0. UNCHANGED <<pm, regd>> /\ (~seen'.late => ~seen.late) /\ (~seen'.raced => ~seen.raced)
      BY <1>9 DEF ResetStep, ResetBegin, ResetLock, ResetOwn, ResetWorker, ResetRx, ResetTx,
          ResetDma, ResetOpen, ResetDown, ResetLoaded, ResetStart, ResetOut, ResetEnd, ResetClear,
          ResetIfaces, Resetting, SeenSet
    <2>1. work.at # "idle" \/ work.queued
      BY <1>9 DEF ResetStep, ResetBegin, ResetLock, ResetOwn, ResetWorker, ResetRx, ResetTx,
          ResetDma, ResetOpen, ResetDown, ResetLoaded, ResetStart, ResetOut, ResetEnd, ResetClear,
          ResetIfaces
    <2> QED BY <2>0, <2>1
  <1>10. CASE InitStep
    BY <1>10 DEF InitStep, InitOwn, InitLoaded, InitConfig, InitReset, InitRegister, InitFinish,
        Starting
  <1>11. CASE RemoveStep
    <2>1. UNCHANGED <<pm, suspended, seen, regd>> 
      BY <1>11 DEF RemoveStep, RemoveBegin, RemoveInit, RemoveUnregister, RemoveNapi, RemoveCancel,
          RemoveOwn, RemoveFree, Removing
    <2>2. UNCHANGED work \/ work' = [work EXCEPT !.queued = FALSE]
      BY <1>11 DEF RemoveStep, RemoveBegin, RemoveInit, RemoveUnregister, RemoveNapi, RemoveCancel,
          RemoveOwn, RemoveFree
    <2> QED BY <2>1, <2>2 DEF WorkSet
  <1> QED BY <1>2, <1>3, <1>4, <1>5, <1>6, <1>7, <1>8, <1>9, <1>10, <1>11, Ways DEF LifeNext

(* And it implies SleepExclusive.                                          *)
LEMMA ExclHolds ==
  ASSUME Excl PROVE SleepExclusive
  BY DEF Excl, SleepExclusive, RegdExcluded, Held
-----------------------------------------------------------------------------
(* Something is still to come that ends the stay: its timer, its event or  *)
(* its work. The device is here until mac80211 has let go of it.           *)
Armed == roc.timer \/ roc.pend \/ roc.isr
Here == {"no", "init", "unregister"}

(* Why a stay off channel and a scan end: a set bit has its timer, event   *)
(* or work still to come (or the suspend that cancels it under way, or the *)
(* task that has taken the work over), a scan its event or a reset that    *)
(* reports it; and none survives the cancels of the suspend and of the     *)
(* removal.                                                                *)
Ends ==
    /\ task # "idle" => done /\ pm = "up" /\ removal \in Here
    /\ pm \notin {"up", "flush", "cancel"} => ~roc.bit
    /\ roc.bit /\ task = "idle" => Armed \/ pm \in {"flush", "cancel"}
    /\ roc.bit /\ task = "roc" /\ roc.grant => Armed
    /\ scan.bit => done /\ pm = "up" /\ removal \in Here
    /\ scan.bit /\ ~scan.lost => scan.fw \/ (scan.event /\ scan.work) \/ ScanReset

(* When the suspend and the removal leave the places where a stay or a     *)
(* scan may be under way, they have made mac80211 end its operations       *)
(* (Quiesce) and have cancelled the work (Sync).                           *)
LEMMA Moves ==
  ASSUME LifeTypes, Shape, LifeNext
  PROVE  /\ done => done'
         /\ pm = "up" /\ pm' # "up" => Quiesce
         /\ removal \in Here /\ removal' \notin Here => Quiesce
         /\ pm \in {"up", "flush", "cancel"} /\ pm' \notin {"up", "flush", "cancel"} => Sync
         /\ pm \in {"flush", "cancel"} /\ pm' \notin {"flush", "cancel"} => Sync
         /\ Quiesce => pm' = "up" \/ pm' = "flush"
  <1>1. CASE Load \/ ReportTest \/ ReportQueue \/ RegdStep \/ Doze \/ WakeUp
    <2>1. UNCHANGED <<pm, done, removal>>
      BY <1>1 DEF Load, lifevars, ReportTest, ReportQueue, RegdStep, RegdTest, RegdMark, RegdLock,
          RegdUpdate, RegdDone, Doze, WakeUp
    <2> QED BY <2>1 DEF Quiesce, Sync
  <1>2. CASE SuspendStep \/ ResumeStep
    <2>1. UNCHANGED <<done, removal>>
      BY <1>2 DEF SuspendStep, SuspendBegin, SuspendFlush, SuspendCancel, SuspendOwn, SuspendRegd,
          SuspendLate, SuspendHif, SuspendTx, SuspendRx, SuspendDma, SuspendFw, SuspendUnhif,
          SuspendEnd, ResumeStep, ResumeOwn, ResumeHw, ResumeNapi, ResumeHif, ResumeUpdate,
          ResumeEnd, Asleep
    <2>2. \/ pm = "up" /\ pm' = "flush"
          \/ pm = "flush" /\ pm' = "cancel"
          \/ pm = "cancel" /\ pm' = "own"
          \/ pm \notin {"up", "flush", "cancel"} /\ pm' \notin {"flush", "cancel"}
      BY <1>2 DEF SuspendStep, SuspendBegin, SuspendFlush, SuspendCancel, SuspendOwn, SuspendRegd,
          SuspendLate, SuspendHif, SuspendTx, SuspendRx, SuspendDma, SuspendFw, SuspendUnhif,
          SuspendEnd, ResumeStep, ResumeOwn, ResumeHw, ResumeNapi, ResumeHif, ResumeUpdate,
          ResumeEnd, DrvOwn
    <2> QED BY <2>1, <2>2 DEF Quiesce, Sync
  <1>3. CASE ResetStep
    BY <1>3 DEF ResetStep, ResetBegin, ResetLock, ResetOwn, ResetWorker, ResetRx, ResetTx, ResetDma,
        ResetOpen, ResetDown, ResetLoaded, ResetStart, ResetOut, ResetEnd, ResetClear, ResetIfaces,
        Resetting, Quiesce, Sync
  <1>4. CASE InitStep
    BY <1>4 DEF InitStep, InitOwn, InitLoaded, InitConfig, InitReset, InitRegister, InitFinish,
        Starting, Quiesce, Sync
  <1>5. CASE RemoveStep
    BY <1>5 DEF RemoveStep, RemoveBegin, RemoveInit, RemoveUnregister, RemoveNapi, RemoveCancel,
        RemoveOwn, RemoveFree, Removing, Next1, Quiesce, Sync, Here, Shape
  <1> QED BY <1>1, <1>2, <1>3, <1>4, <1>5 DEF LifeNext

(* A reset that was to report a scan aborted is given up only with the     *)
(* device.                                                                 *)
LEMMA Resets ==
  ASSUME LifeTypes, Shape, LifeNext
  PROVE  ScanReset /\ ~ScanReset' => ScanAborted \/ removal = "cancel"
  <1>0. work \in WorkSet
    BY DEF LifeTypes
  <1>1. UNCHANGED work \/ AskReset \/ work' = Queue => (ScanReset => ScanReset')
    BY <1>0, Asks DEF ScanReset
  <1>2. CASE Load \/ ReportTest \/ ReportQueue \/ RegdStep \/ Doze \/ WakeUp \/ InitStep
    BY <1>1, <1>2 DEF Load, lifevars, ReportTest, ReportQueue, RegdStep, RegdTest, RegdMark,
        RegdLock, RegdUpdate, RegdDone, Doze, WakeUp, DrvOwn, InitStep, InitOwn, InitLoaded,
        InitConfig, InitReset, InitRegister, InitFinish, Starting
  <1>3. CASE SuspendStep \/ ResumeStep
    BY <1>1, <1>3 DEF SuspendStep, SuspendBegin, SuspendFlush, SuspendCancel, SuspendOwn,
        SuspendRegd, SuspendLate, SuspendHif, SuspendTx, SuspendRx, SuspendDma, SuspendFw,
        SuspendUnhif, SuspendEnd, ResumeStep, ResumeOwn, ResumeHw, ResumeNapi, ResumeHif,
        ResumeUpdate, ResumeEnd, DrvOwn
  <1>4. CASE ResetStep
    <2>1. CASE ResetEnd
      <3>1. work.at = "end" /\ work'.at = "clear"
        BY <1>0, <2>1 DEF ResetEnd, At, WorkSet
      <3> QED BY <3>1 DEF ScanAborted
    <2>2. CASE ResetClear \/ ResetIfaces
      <3>1. work.at \in {"clear", "ifaces"} /\ (work.queued => work'.queued)
        BY <1>0, <2>2 DEF ResetClear, ResetIfaces, At, WorkSet
      <3> QED BY <3>1 DEF ScanReset
    <2>3. CASE ~ResetEnd /\ ~ResetClear /\ ~ResetIfaces
      <3>1. work'.at \notin {"idle", "clear", "ifaces"}
        BY <1>0, <1>4, <2>3 DEF ResetStep, ResetBegin, ResetLock, ResetOwn, ResetWorker, ResetRx,
            ResetTx, ResetDma, ResetOpen, ResetDown, ResetLoaded, ResetStart, ResetOut, At, Again,
            Idle, WorkSet
      <3> QED BY <3>1 DEF ScanReset
    <2> QED BY <2>1, <2>2, <2>3
  <1>5. CASE RemoveStep
    BY <1>1, <1>5 DEF RemoveStep, RemoveBegin, RemoveInit, RemoveUnregister, RemoveNapi,
        RemoveCancel, RemoveOwn, RemoveFree, Next1
  <1> QED BY <1>2, <1>3, <1>4, <1>5 DEF LifeNext

(* The firmware forgets what it was told only before the start-up is over, *)
(* in a reset, or when the device is removed.                              *)
LEMMA Forget ==
  ASSUME LifeTypes, Shape, LifeNext, Forgets
  PROVE  ~done \/ removal = "free" \/ work'.at \in {"open", "load"}
  <1>0. work \in WorkSet /\ chip \in ChipSet /\ load \in LoadSet
    BY DEF LifeTypes
  <1>1. UNCHANGED chip \/ chip' = [chip EXCEPT !.hif = TRUE]
        \/ chip' = [chip EXCEPT !.hif = FALSE] => FALSE
    BY <1>0 DEF ChipSet, Forgets
  <1>2. CASE ReportTest \/ ReportQueue \/ RegdStep \/ Doze \/ WakeUp
    BY <1>1, <1>2 DEF ReportTest, ReportQueue, RegdStep, RegdTest, RegdMark, RegdLock, RegdUpdate,
        RegdDone, Doze, WakeUp, fwvars
  <1>3. CASE Load
    BY <1>0, <1>3, ShapeLoad DEF Load, lifevars, Shape, Loading
  <1>4. CASE SuspendStep \/ ResumeStep
    BY <1>1, <1>4 DEF SuspendStep, SuspendBegin, SuspendFlush, SuspendCancel, SuspendOwn,
        SuspendRegd, SuspendLate, SuspendHif, SuspendTx, SuspendRx, SuspendDma, SuspendFw,
        SuspendUnhif, SuspendEnd, ResumeStep, ResumeOwn, ResumeHw, ResumeNapi, ResumeHif,
        ResumeUpdate, ResumeEnd, fwvars, MayReach
  <1>5. CASE ResetStep
    BY <1>0, <1>1, <1>5 DEF ResetStep, ResetBegin, ResetLock, ResetOwn, ResetWorker, ResetRx,
        ResetTx, ResetDma, ResetOpen, ResetDown, ResetLoaded, ResetStart, ResetOut, ResetEnd,
        ResetClear, ResetIfaces, fwvars, At, WorkSet
  <1>6. CASE InitStep
    BY <1>1, <1>6 DEF InitStep, InitOwn, InitLoaded, InitConfig, InitReset, InitRegister,
        InitFinish, fwvars, Shape
  <1>7. CASE RemoveStep
    BY <1>1, <1>7 DEF RemoveStep, RemoveBegin, RemoveInit, RemoveUnregister, RemoveNapi,
        RemoveCancel, RemoveOwn, RemoveFree, fwvars, Next1
  <1> QED BY <1>2, <1>3, <1>4, <1>5, <1>6, <1>7 DEF LifeNext

(* Ends is inductive.                                                      *)
LEMMA EndsStep ==
  ASSUME LifeTypes, OffTypes, Shape, Ends, TabNext
  PROVE  Ends'
  <1>0. work \in WorkSet /\ roc \in RocSet /\ scan \in ScanSet /\ done \in BOOLEAN
    BY DEF LifeTypes, OffTypes, FlagSet
  <1> USE <1>0 DEF Ends, Armed
  <1>1. CASE LifeNext /\ Along
    <2>1. UNCHANGED task /\ (Quiesce => task = "idle")
      BY <1>1 DEF Along, RocAlong
    <2>2. (task' # "idle" => done' /\ pm' = "up" /\ removal' \in Here)
      BY <1>1, <2>1, Moves
    <2>3. \/ UNCHANGED <<roc.timer, roc.pend, roc.isr, roc.bit, roc.grant>> /\ ~Sync
          \/ Sync /\ ~roc'.bit
      BY <1>1 DEF Along, RocAlong, Stop, RocSet
    <2>4. /\ pm' \notin {"up", "flush", "cancel"} => ~roc'.bit
          /\ roc'.bit /\ task' = "idle" => Armed' \/ pm' \in {"flush", "cancel"}
          /\ roc'.bit /\ task' = "roc" /\ roc'.grant => Armed'
      <3>1. CASE Sync /\ ~roc'.bit
        BY <3>1
      <3>2. CASE UNCHANGED <<roc.timer, roc.pend, roc.isr, roc.bit, roc.grant>> /\ ~Sync
        BY <1>1, <2>1, <3>2, Moves
      <3> QED BY <2>3, <3>1, <3>2
    <2>5. /\ scan'.bit => scan.bit /\ ~Quiesce /\ ~ScanAborted
          /\ scan'.lost = scan.lost /\ scan'.event = scan.event
          /\ scan'.fw = (scan.fw /\ ~Forgets) /\ (~Quiesce => scan'.work = scan.work)
      BY <1>1 DEF Along, ScanAlong, ScanSet
    <2>6. scan'.bit => done' /\ pm' = "up" /\ removal' \in Here
      BY <1>1, <2>5, Moves
    <2>7. ASSUME scan'.bit, ~scan'.lost 
          PROVE  scan'.fw \/ (scan'.event /\ scan'.work) \/ ScanReset'
      <3>1. scan.fw \/ (scan.event /\ scan.work) \/ ScanReset
        BY <2>5, <2>7
      <3>2. done /\ removal \notin {"cancel", "free"}
        BY <2>5, <2>7 DEF Here
      <3>3. Forgets => ScanReset'
        BY <1>1, <3>2, Forget DEF ScanReset
      <3>4. ScanReset => ScanReset'
        BY <1>1, <2>5, <2>7, <3>2, Resets
      <3> QED BY <2>5, <2>7, <3>1, <3>3, <3>4
    <2> QED BY <2>2, <2>4, <2>6, <2>7
  <1>2. CASE RocStep
    <2>1. UNCHANGED <<pm, done, removal, work, scan>>
      BY <1>2 DEF RocStep, SetRoc, SetRocGranted, SetRocTimeout, GrantEvent, GrantArm, GrantNever,
          TimerFires, RocWork, RocWorkAbort, AbortTimer, AbortWork, AbortClear, AbortSync,
          AbortSynced, RocReturns, OnlyRoc, OnlyEvents, lifevars
    <2>2. UNCHANGED ScanReset
      BY <2>1 DEF ScanReset
    <2>3. CASE SetRoc
      BY <2>1, <2>2, <2>3 DEF SetRoc, Calm, RocSet, Here
    <2>4. CASE SetRocGranted \/ SetRocTimeout
      BY <2>1, <2>2, <2>4 DEF SetRocGranted, SetRocTimeout, RocReturns, RocSet
    <2>5. CASE GrantEvent \/ GrantArm \/ GrantNever
      BY <2>1, <2>2, <2>5 DEF GrantEvent, GrantArm, GrantNever, OnlyEvents, RocSet
    <2>6. CASE TimerFires \/ RocWork \/ RocWorkAbort
      BY <2>1, <2>2, <2>6 DEF TimerFires, RocWork, RocWorkAbort, OnlyEvents, RocSet
    <2>7. CASE AbortTimer \/ AbortWork \/ AbortClear
      BY <2>1, <2>2, <2>7 DEF AbortTimer, AbortWork, AbortClear, RocSet, Calm, Here
    <2>8. CASE AbortSync \/ AbortSynced
      BY <2>1, <2>2, <2>8 DEF AbortSync, AbortSynced, RocReturns, Stop, RocSet, Calm, Here
    <2> QED BY <1>2, <2>3, <2>4, <2>5, <2>6, <2>7, <2>8 DEF RocStep
  <1>3. CASE ScanStep
    <2>1. UNCHANGED <<pm, done, removal, work, roc, task>>
      BY <1>3 DEF ScanStep, HwScan, ScanDone, ScanWork, CancelScan, OnlyScan, lifevars
    <2>2. UNCHANGED ScanReset
      BY <2>1 DEF ScanReset
    <2>3. CASE HwScan
      BY <2>1, <2>2, <2>3 DEF HwScan, Calm, ScanSet, Here, Delivered
    <2>4. CASE ScanDone
      BY <2>1, <2>2, <2>4 DEF ScanDone, ScanSet
    <2>5. CASE ScanWork
      BY <2>1, <2>2, <2>5 DEF ScanWork, ScanSet
    <2>6. CASE CancelScan
      BY <2>1, <2>2, <2>6 DEF CancelScan, ScanSet
    <2> QED BY <1>3, <2>3, <2>4, <2>5, <2>6 DEF ScanStep
  <1>4. ASSUME OnlyTables, UNCHANGED work \/ AskReset PROVE Ends'
    <2>1. UNCHANGED <<pm, done, removal, roc, scan, task>>
      BY <1>4 DEF OnlyTables, offvars
    <2>2. ScanReset => ScanReset'
      BY <1>4, Asks DEF ScanReset
    <2> QED BY <2>1, <2>2
  <1>5. CASE Operation \/ IterNext \/ IterCommand
    <2>1. \A name, who, at, v, todo : Begin(name, who, at, v, todo) => OnlyTables /\ UNCHANGED work
      BY DEF Begin
    <2>2. \A c : Understood(c) \/ Posted(c) \/ Refused(c) \/ Ignored(c) => UNCHANGED work \/ AskReset
      BY DEF Understood, Posted, Refused, Ignored
    <2>3. CASE \E v \in Vifs : AddInterface(v) \/ RemoveInterface(v) \/ StartAp(v)
               \/ EnableBeacon(v) \/ StopAp(v)
      BY <1>4, <2>1, <2>3 DEF AddInterface, RemoveInterface, StartAp, EnableBeacon, StopAp
    <2>4. CASE \E p \in Peers : \/ \E v \in Vifs : StaAdd(p, v)
                                \/ StaAssoc(p) \/ StaRemove(p)
                                \/ \E on \in BOOLEAN : SetKey(p, on) \/ Ampdu(p, on)
      BY <1>4, <2>1, <2>4, ZenonT(40) DEF StaAdd, StaAssoc, StaRemove, SetKey, Ampdu
    <2>5. CASE Command \/ IterCommand
      BY <1>4, <2>2, <2>5 DEF Command, IterCommand
    <2>6. CASE Return \/ IterNext
      BY <1>4, <2>6 DEF Return, IterNext
    <2> QED BY <1>5, <2>3, <2>4, <2>5, <2>6 DEF Operation
  <1> QED BY <1>1, <1>2, <1>3, <1>5 DEF TabNext, OffNext, Along

(* And it implies OffChannelEnds.                                          *)
LEMMA EndsHolds ==
  ASSUME Ends PROVE OffChannelEnds
  BY DEF Ends, OffChannelEnds, Armed
-----------------------------------------------------------------------------
(* Where a suspend holds the receive NAPIs off, where the transmit one     *)
(* too; a reset before it has touched the path, and after it has turned it *)
(* on.                                                                     *)
RxOff == {"dma", "fw", "asleep", "hw", "napi"}
TxOff == RxOff \union {"rx"}
Early == {"idle", "lock", "own", "worker", "rx"}
Late == {"end", "clear", "ifaces"}
Registered == removal \in {"no", "init", "unregister", "napi"}

(* The NAPI switches at every step of a reset, a suspend and a resume.     *)
(* NapiBalanced says that none is disabled twice or enabled twice; that    *)
(* takes knowing, at each of these places, what the paths before it left.  *)
Napi ==
    ~seen.raced /\ Registered =>
       /\ work.at \in {"tx", "dma", "open"} => ~path["rx"]
       /\ work.at \in {"down", "load", "start", "out"} \union Late => path["rx"]
       /\ work.at \in {"dma", "open", "down", "load", "start", "out"} => ~path["tx"]
       /\ work.at \in Late => path["tx"]
       /\ work.at = "tx" /\ ~seen.stranded => path["tx"]
       /\ work.at \in Early =>
            /\ pm \in RxOff => ~path["rx"]
            /\ pm \in TxOff => ~path["tx"]
            /\ ~seen.stranded /\ pm \notin RxOff => path["rx"]
            /\ ~seen.stranded /\ pm \notin TxOff => path["tx"]
            /\ pm = "rx" => path["rx"]
            /\ pm \notin TxOff /\ path["rx"] => path["tx"]
            /\ pm = "quiet" => path["rx"] /\ path["tx"]

(* What switching parts off and on does to one of them.                    *)
LEMMA Parted ==
  ASSUME path \in PathSet, NEW p \in Parts, NEW S \in SUBSET Parts
  PROVE  /\ Off(S) => (path'[p] <=> path[p] /\ p \notin S)
         /\ On(S) => (path'[p] <=> path[p] \/ p \in S)
  BY DEF Off, On, PathSet

(* A reset that ran into a suspend stays seen.                             *)
LEMMA RaceStays == ASSUME seen \in SeenSet, LifeNext, ~seen'.raced PROVE ~seen.raced
  <1>1. CASE Load \/ ReportTest \/ ReportQueue \/ RegdStep \/ Doze \/ WakeUp \/ InitStep
             \/ RemoveStep
    BY <1>1 DEF Load, lifevars, ReportTest, ReportQueue, RegdStep, RegdTest, RegdMark, RegdLock,
        RegdUpdate, RegdDone, Doze, WakeUp, InitStep, InitOwn, InitLoaded, InitConfig, InitReset,
        InitRegister, InitFinish, Starting, RemoveStep, RemoveBegin, RemoveInit, RemoveUnregister,
        RemoveNapi, RemoveCancel, RemoveOwn, RemoveFree, SeenSet
  <1>2. CASE SuspendStep \/ ResumeStep
    BY <1>2 DEF SuspendStep, SuspendBegin, SuspendFlush, SuspendCancel, SuspendOwn, SuspendRegd,
        SuspendLate, SuspendHif, SuspendTx, SuspendRx, SuspendDma, SuspendFw, SuspendUnhif,
        SuspendEnd, ResumeStep, Strands, ResumeOwn, ResumeHw, ResumeNapi, ResumeHif, ResumeUpdate,
        ResumeEnd, SeenSet
  <1>3. CASE ResetStep
    BY <1>3 DEF ResetStep, ResetBegin, ResetLock, ResetOwn, ResetWorker, ResetRx, ResetTx, ResetDma,
        ResetOpen, ResetDown, ResetLoaded, ResetStart, ResetOut, ResetEnd, ResetClear, ResetIfaces,
        SeenSet
  <1> QED BY <1>1, <1>2, <1>3 DEF LifeNext

(* mt792x_wpdma_reinit_cond leaves the NAPIs and the worker alone, and the *)
(* rest as it was, or off.                                                 *)
LEMMA ReinitParts ==
  ASSUME path \in PathSet, Reinit
  PROVE  /\ \A p \in {"rx", "tx", "worker"} : path'[p] = path[p]
         /\ \/ \A p \in {"irq", "dma", "rings"} : path'[p] = path[p]
            \/ ~path'["rings"] /\ ~path'["irq"] /\ ~path'["dma"]
  BY DEF Reinit, PathSet, Parts

(* A step that leaves the NAPIs, the suspend and the reset's place keeps   *)
(* Napi.                                                                   *)
LEMMA NapiSame ==
  ASSUME Napi, path'["rx"] = path["rx"], path'["tx"] = path["tx"], UNCHANGED pm, work'.at = work.at,
         ~seen'.raced => ~seen.raced, ~seen'.stranded => ~seen.stranded,
         Registered' => Registered
  PROVE  Napi'
  BY DEF Napi

(* Napi is inductive, given Excl: a reset and a suspend are never both at  *)
(* work on the switches.                                                   *)
LEMMA NapiStep ==
  ASSUME LifeTypes, Shape, Excl, Napi, TabNext
  PROVE  Napi'
  <1>0. work \in WorkSet /\ path \in PathSet /\ seen \in SeenSet /\ load \in LoadSet
        /\ {"rx", "tx", "worker", "irq", "dma", "rings", "awake"} \subseteq Parts
    BY DEF LifeTypes, Parts
  <1> USE <1>0
  <1>1. ASSUME UNCHANGED <<path, pm, removal, seen>>, UNCHANGED work \/ AskReset
        PROVE  Napi'
    BY <1>1, Asks, NapiSame DEF Registered
  <1>2. CASE Outside
    BY <1>1, <1>2 DEF Outside
  <1>3. CASE Load \/ ReportTest \/ RegdStep
    <2>1. UNCHANGED <<path, pm, removal, seen>> /\ (UNCHANGED work \/ AskReset)
      BY <1>3 DEF Load, lifevars, ReportTest, RegdStep, RegdTest, RegdMark, RegdLock, RegdUpdate,
          RegdDone, fwvars, LoadStep, Restart, SemGet, PatchFile, PatchRegion, StartPatch,
          SemRelease, RamFile, RamRegion, StartRam, Ready, Query
    <2> QED BY <1>1, <2>1
  <1>4. CASE ReportQueue
    <2>1. UNCHANGED <<path, pm, removal>> /\ work' = Queue
      BY <1>4 DEF ReportQueue, fwvars
    <2>2. (~seen'.raced => ~seen.raced) /\ (~seen'.stranded => ~seen.stranded)
      BY <1>4 DEF ReportQueue, SeenSet
    <2> QED BY <2>1, <2>2, Asks, NapiSame DEF Registered
  <1>5. CASE Doze \/ WakeUp
    <2>1. UNCHANGED <<pm, removal>> /\ (UNCHANGED work \/ AskReset)
      BY <1>5 DEF Doze, WakeUp, lifevars, DrvOwn
    <2>2. path'["rx"] = path["rx"] /\ path'["tx"] = path["tx"]
      BY <1>5, ReinitParts DEF Doze, WakeUp, DrvOwn, PathSet
    <2>3. (~seen'.raced => ~seen.raced) /\ (~seen'.stranded => ~seen.stranded)
      BY <1>5 DEF Doze, WakeUp, SeenSet, lifevars
    <2> QED BY <2>1, <2>2, <2>3, Asks, NapiSame DEF Registered
  <1>6. CASE InitStep
    <2>1. UNCHANGED <<pm, removal, work, seen>> 
      BY <1>6 DEF InitStep, InitOwn, InitLoaded, InitConfig, InitReset, InitRegister, InitFinish,
          Starting
    <2>2. UNCHANGED path \/ WpdmaReset(path) \/ On({"worker"})
      BY <1>6 DEF InitStep, InitOwn, InitLoaded, InitConfig, InitReset, InitRegister, InitFinish,
          fwvars
    <2>3. path'["rx"] = path["rx"] /\ path'["tx"] = path["tx"]
      BY <2>2 DEF WpdmaReset, On, PathSet
    <2> QED BY <2>1, <2>3, NapiSame DEF Registered
  <1>7. CASE RemoveStep
    <2>1. CASE RemoveNapi \/ RemoveFree
      BY <2>1 DEF RemoveNapi, RemoveFree, Next1, Napi, Registered
    <2>2. CASE ~RemoveNapi /\ ~RemoveFree
      <3>1. UNCHANGED <<pm, seen>> /\ (UNCHANGED work \/ work' = [work EXCEPT !.queued = FALSE])
        BY <1>7, <2>2 DEF RemoveStep, RemoveBegin, RemoveInit, RemoveUnregister, RemoveCancel,
            RemoveOwn, Removing
      <3>2. path'["rx"] = path["rx"] /\ path'["tx"] = path["tx"]
        BY <1>7, <2>2 DEF RemoveStep, RemoveBegin, RemoveInit, RemoveUnregister, RemoveCancel,
            RemoveOwn, fwvars, On, PathSet
      <3>3. Registered' => Registered
        BY <1>7, <2>2 DEF RemoveStep, RemoveBegin, RemoveInit, RemoveUnregister, RemoveCancel,
            RemoveOwn, Next1, Registered
      <3>4. work'.at = work.at
        BY <3>1 DEF WorkSet
      <3> QED BY <3>1, <3>2, <3>3, <3>4, NapiSame
    <2> QED BY <2>1, <2>2
  <1>8. CASE SuspendStep \/ ResumeStep
    <2>0. SUFFICES ASSUME ~seen'.raced, Registered' PROVE Napi'
      BY DEF Napi
    <2>1. UNCHANGED removal /\ (UNCHANGED work \/ AskReset \/ work' = Queue)
      BY <1>8 DEF SuspendStep, SuspendBegin, SuspendFlush, SuspendCancel, SuspendOwn, SuspendRegd,
          SuspendLate, SuspendHif, SuspendTx, SuspendRx, SuspendDma, SuspendFw, SuspendUnhif,
          SuspendEnd, ResumeStep, ResumeOwn, ResumeHw, ResumeNapi, ResumeHif, ResumeUpdate,
          ResumeEnd, Asleep, DrvOwn
    <2>2. ~seen.raced /\ work'.at = work.at /\ Registered
      BY <1>8, <2>0, <2>1, RaceStays, Asks DEF LifeNext, Registered
    <2>3. CASE SuspendBegin \/ SuspendFlush
      <3>1. UNCHANGED path /\ seen'.stranded = seen.stranded /\ pm \in {"up", "flush"}
            /\ pm' \in {"flush", "cancel"}
        BY <2>3 DEF SuspendBegin, SuspendFlush, fwvars, SeenSet
      <3> QED BY <2>2, <3>1 DEF Napi, RxOff, TxOff
    <2>4. CASE ~SuspendBegin /\ ~SuspendFlush
      <3>1. pm \notin {"up", "flush"}
        BY <1>8, <2>4 DEF SuspendStep, SuspendBegin, SuspendFlush, SuspendCancel, SuspendOwn,
            SuspendRegd, SuspendLate, SuspendHif, SuspendTx, SuspendRx, SuspendDma, SuspendFw,
            SuspendUnhif, SuspendEnd, ResumeStep, ResumeOwn, ResumeHw, ResumeNapi, ResumeHif,
            ResumeUpdate, ResumeEnd
      <3>2. work.at = "idle"
        BY <2>2, <3>1 DEF Excl, ResetExcluded, PastFlush
      <3> USE <2>2, <3>2 DEF Napi, RxOff, TxOff, Early, Late
      <3>3. CASE SuspendCancel \/ SuspendRegd \/ SuspendLate \/ SuspendEnd \/ ResumeEnd
                 \/ ResumeUpdate
        <4>1. UNCHANGED path /\ (~seen'.stranded => ~seen.stranded) /\ pm \notin TxOff
              /\ pm' \notin TxOff \union {"quiet"}
          BY <3>3 DEF SuspendCancel, SuspendRegd, SuspendLate, SuspendEnd, ResumeEnd, ResumeUpdate,
              fwvars, SeenSet, Strands
        <4>2. path'["rx"] = path["rx"] /\ path'["tx"] = path["tx"]
          BY <4>1
        <4> QED BY <4>1, <4>2
      <3>4. CASE SuspendOwn
        <4>1. pm = "own" /\ pm' \in {"regd", "failed"} /\ UNCHANGED seen
          BY <3>4 DEF SuspendOwn, DrvOwn
        <4>2. path'["rx"] = path["rx"] /\ path'["tx"] = path["tx"]
          BY <3>4, ReinitParts DEF SuspendOwn, DrvOwn
        <4> QED BY <4>1, <4>2
      <3>5. CASE SuspendHif \/ SuspendUnhif \/ ResumeHif
        <4>1. /\ pm \notin TxOff /\ pm' \notin TxOff /\ UNCHANGED path
              /\ pm' = "quiet" => Alive
          BY <3>5 DEF SuspendHif, SuspendUnhif, ResumeHif, Answered
        <4>2. seen'.raced = seen.raced /\ seen'.stranded = seen.stranded
          BY <3>5 DEF SuspendHif, SuspendUnhif, ResumeHif, SeenSet
        <4> QED BY <4>1, <4>2, RingsThere
      <3>6. CASE SuspendTx
        <4>1. pm = "quiet" /\ pm' = "rx" /\ path["tx"] /\ UNCHANGED seen
          BY <3>6 DEF SuspendTx
        <4>2. path'["rx"] = path["rx"] /\ ~path'["tx"]
          BY <3>6, Parted DEF SuspendTx, PathSet, Off
        <4>3. path["rx"]
          BY <4>1
        <4> QED BY <4>1, <4>2, <4>3
      <3>7. CASE SuspendRx
        <4>1. pm = "rx" /\ pm' = "dma" /\ UNCHANGED seen
          BY <3>7 DEF SuspendRx
        <4>2. ~path'["rx"] /\ path'["tx"] = path["tx"]
          BY <3>7 DEF SuspendRx, PathSet, Off
        <4> QED BY <4>1, <4>2
      <3>8. CASE SuspendDma
        <4>1. pm = "dma" /\ pm' = "fw" /\ UNCHANGED seen
          BY <3>8 DEF SuspendDma
        <4>2. path'["rx"] = path["rx"] /\ path'["tx"] = path["tx"]
          BY <3>8 DEF SuspendDma, PathSet, Off
        <4> QED BY <4>1, <4>2
      <3>9. CASE SuspendFw
        <4>1. pm = "fw" /\ UNCHANGED seen
          BY <3>9 DEF SuspendFw
        <4>2. CASE pm' = "asleep" /\ (Off({"awake"}) \/ UNCHANGED path)
          <5>1. path'["rx"] = path["rx"] /\ path'["tx"] = path["tx"]
            BY <4>2 DEF PathSet, Off
          <5> QED BY <4>1, <4>2, <5>1
        <4>3. CASE pm' = "resume hif" /\ On({"rx", "tx"})
          <5>1. path'["rx"] /\ path'["tx"]
            BY <4>3 DEF PathSet, On
          <5> QED BY <4>1, <4>3, <5>1
        <4> QED BY <3>9, <4>2, <4>3 DEF SuspendFw
      <3>10. CASE ResumeOwn
        <4>1. pm = "asleep" /\ pm' \in {"hw", "failed"} /\ (pm' = "failed" => seen'.stranded)
          BY <3>10 DEF ResumeOwn, DrvOwn, SeenSet
        <4>2. path'["rx"] = path["rx"] /\ path'["tx"] = path["tx"]
          BY <3>10, ReinitParts DEF ResumeOwn, DrvOwn
        <4> QED BY <4>1, <4>2
      <3>11. CASE ResumeHw
        <4>1. pm = "hw" /\ pm' = "napi" /\ UNCHANGED seen
          BY <3>11 DEF ResumeHw
        <4>2. path'["rx"] = path["rx"] /\ path'["tx"] = path["tx"]
          BY <3>11 DEF ResumeHw, PathSet, On
        <4> QED BY <4>1, <4>2
      <3>12. CASE ResumeNapi
        <4>1. pm = "napi" /\ pm' = "wake hif" /\ UNCHANGED seen
          BY <3>12 DEF ResumeNapi
        <4>2. path'["rx"] /\ path'["tx"]
          BY <3>12 DEF ResumeNapi, PathSet, On
        <4> QED BY <4>1, <4>2
      <3> QED BY <1>8, <2>4, <3>3, <3>4, <3>5, <3>6, <3>7, <3>8, <3>9, <3>10, <3>11, <3>12 DEF
          SuspendStep, ResumeStep
    <2> QED BY <2>3, <2>4
  <1>9. CASE ResetStep
    <2>0. SUFFICES ASSUME ~seen'.raced, Registered' PROVE Napi'
      BY DEF Napi
    <2>1. UNCHANGED <<pm, removal>>
      BY <1>9 DEF ResetStep, ResetBegin, ResetLock, ResetOwn, ResetWorker, ResetRx, ResetTx,
          ResetDma, ResetOpen, ResetDown, ResetLoaded, ResetStart, ResetOut, ResetEnd, ResetClear,
          ResetIfaces, Resetting
    <2>2. ~seen.raced /\ Registered
      BY <1>9, <2>0, <2>1, RaceStays DEF LifeNext, Registered
    <2>3. pm \in {"up", "flush"}
      <3>1. work.at # "idle" \/ work.queued
        BY <1>9 DEF ResetStep, ResetBegin, ResetLock, ResetOwn, ResetWorker, ResetRx, ResetTx,
            ResetDma, ResetOpen, ResetDown, ResetLoaded, ResetStart, ResetOut, ResetEnd, ResetClear,
            ResetIfaces
      <3> QED BY <2>2, <3>1 DEF Excl, ResetExcluded, PastFlush
    <2> USE <2>1, <2>2, <2>3 DEF Napi, RxOff, TxOff, Early, Late
    <2>4. CASE ResetBegin \/ ResetLock \/ ResetOwn \/ ResetWorker
      <3>1. work.at \in Early /\ work'.at \in Early /\ UNCHANGED seen
        BY <2>4 DEF ResetBegin, ResetLock, ResetOwn, ResetWorker, At, Idle, WorkSet
      <3>2. path'["rx"] = path["rx"] /\ path'["tx"] = path["tx"]
        BY <2>4 DEF ResetBegin, ResetLock, ResetOwn, ResetWorker, fwvars, Off, PathSet
      <3> QED BY <3>1, <3>2
    <2>5. CASE ResetRx
      <3>1. work.at = "rx" /\ work'.at = "tx" /\ path["rx"] /\ UNCHANGED seen
        BY <2>5 DEF ResetRx, At, WorkSet
      <3>2. ~path'["rx"] /\ path'["tx"] = path["tx"]
        BY <2>5 DEF ResetRx, Off, PathSet
      <3> QED BY <3>1, <3>2
    <2>6. CASE ResetTx
      <3>1. work.at = "tx" /\ work'.at = "dma" /\ UNCHANGED seen
        BY <2>6 DEF ResetTx, At, WorkSet
      <3>2. ~path'["tx"] /\ path'["rx"] = path["rx"]
        BY <2>6 DEF ResetTx, Off, PathSet
      <3> QED BY <3>1, <3>2
    <2>7. CASE ResetDma
      <3>1. work.at = "dma" /\ work'.at = "open" /\ UNCHANGED seen
        BY <2>7 DEF ResetDma, At, WorkSet
      <3>2. path'["rx"] = path["rx"] /\ path'["tx"] = path["tx"]
        BY <2>7 DEF ResetDma, WpdmaReset, PathSet
      <3> QED BY <3>1, <3>2
    <2>8. CASE ResetOpen
      <3>1. work.at = "open" /\ work'.at = "down"
        BY <2>8 DEF ResetOpen, At, WorkSet
      <3>2. path'["rx"] /\ path'["tx"] = path["tx"]
        BY <2>8 DEF ResetOpen, On, PathSet
      <3> QED BY <3>1, <3>2
    <2>9. CASE ResetDown \/ ResetLoaded \/ ResetStart
      <3>1. work.at \in {"down", "load", "start"} /\ work'.at \in {"load", "start", "out"}
            /\ UNCHANGED <<path, seen>>
        BY <2>9 DEF ResetDown, ResetLoaded, ResetStart, At, WorkSet
      <3> QED BY <3>1
    <2>10. CASE ResetOut
      <3>1. work.at = "out" /\ work'.at \in {"lock", "end"} /\ UNCHANGED seen
        BY <2>10 DEF ResetOut, At, Again, WorkSet
      <3>2. path'["rx"] = path["rx"] /\ path'["tx"]
        BY <2>10 DEF ResetOut, On, PathSet
      <3> QED BY <3>1, <3>2
    <2>11. CASE ResetEnd \/ ResetClear \/ ResetIfaces
      <3>1. work.at \in Late /\ work'.at \in {"clear", "ifaces", "idle"} /\ UNCHANGED path
        BY <2>11 DEF ResetEnd, ResetClear, ResetIfaces, At, WorkSet, fwvars
      <3> QED BY <3>1
    <2> QED BY <1>9, <2>4, <2>5, <2>6, <2>7, <2>8, <2>9, <2>10, <2>11 DEF ResetStep
  <1> QED BY <1>2, <1>3, <1>4, <1>5, <1>6, <1>7, <1>8, <1>9, Ways DEF LifeNext

(* And it implies NapiBalanced.                                            *)
LEMMA NapiHolds ==
  ASSUME Excl, Napi PROVE NapiBalanced
  <1> SUFFICES ASSUME ~seen.raced, ~seen.stranded, Registered
               PROVE /\ pm = "napi" => ~path["rx"] /\ ~path["tx"]
                     /\ work.at = "open" => ~path["rx"]
                     /\ work.at = "out" => ~path["tx"]
                     /\ work.at = "rx" \/ pm = "rx" => path["rx"]
                     /\ work.at = "tx" \/ pm = "quiet" => path["tx"]
    BY DEF NapiBalanced, Registered
  <1>1. pm \notin {"up", "flush"} => work.at = "idle"
    BY DEF Excl, ResetExcluded, PastFlush
  <1> QED BY <1>1 DEF Napi, RxOff, TxOff, Early, Late
-----------------------------------------------------------------------------
(* The firmware has been loaded by the start-up.                           *)
Usable == done \/ init.at \in {"config", "register", "finish"} \/ (init.at = "load"
    /\ load.at = "done" /\ load.ok)

(* A reset that reports success has left the firmware running.             *)
Runs ==
    removal # "gone" =>
       /\ work.at = "start" => work.ok
       /\ work.at \in {"idle", "start", "out"} \union Late /\ work.ok /\ Usable => chip.running

(* A step that leaves the reset's place and result keeps Runs.             *)
LEMMA RunsSame ==
  ASSUME LifeTypes, Runs, ChipSame, work'.at = work.at, work'.ok = work.ok, Usable'
         => Usable, removal' # "gone" => removal # "gone"
  PROVE  Runs'
  <1>1. chip'.running = chip.running
    BY DEF LifeTypes, ChipSet, ChipSame
  <1> QED BY <1>1 DEF Runs

(* Runs is inductive, given Sem, which says so of the load.                *)
LEMMA RunsStep ==
  ASSUME LifeTypes, Shape, Sem, Sem', Runs, TabNext
  PROVE  Runs'
  <1>0. work \in WorkSet /\ chip \in ChipSet /\ load \in LoadSet /\ init \in InitSet
        /\ done \in BOOLEAN
    BY DEF LifeTypes, FlagSet
  <1> USE <1>0
  <1>1. ASSUME UNCHANGED <<chip, load, init, done, removal>>, UNCHANGED work \/ AskReset
               \/ work' = Queue
        PROVE  Runs'
    <2>1. work'.at = work.at /\ work'.ok = work.ok
      BY <1>1, Asks
    <2>2. (Usable' => Usable) /\ (removal' # "gone" => removal # "gone") /\ ChipSame
      BY <1>1 DEF Usable, ChipSame
    <2> QED BY <2>1, <2>2, RunsSame
  <1>2. CASE Outside
    BY <1>1, <1>2 DEF Outside
  <1>3. CASE ReportTest \/ ReportQueue \/ RegdStep \/ Doze \/ WakeUp
    BY <1>1, <1>3 DEF ReportTest, ReportQueue, RegdStep, RegdTest, RegdMark, RegdLock, RegdUpdate,
        RegdDone, Doze, WakeUp, fwvars, lifevars, DrvOwn
  <1>4. CASE Load
    <2>1. UNCHANGED <<work, init, done, removal>> /\ LoadStep
      BY <1>4 DEF Load, lifevars
    <2>2. work.at = "load" \/ (init.at = "load" /\ ~done)
      BY <2>1, ShapeLoad DEF Shape, Loading
    <2>3. ASSUME init.at = "load", ~done, Usable', removal # "gone" PROVE chip'.running
      <3>1. load'.at = "done" /\ load'.ok
        BY <2>1, <2>3 DEF Usable
      <3> QED BY <2>1, <2>3, <3>1 DEF Sem
    <2> QED BY <2>1, <2>2, <2>3 DEF Runs, Late, Shape
  <1>5. CASE SuspendStep \/ ResumeStep
    <2>1. UNCHANGED <<load, init, done, removal>> /\ (UNCHANGED work \/ AskReset \/ work' = Queue)
      BY <1>5 DEF SuspendStep, SuspendBegin, SuspendFlush, SuspendCancel, SuspendOwn, SuspendRegd,
          SuspendLate, SuspendHif, SuspendTx, SuspendRx, SuspendDma, SuspendFw, SuspendUnhif,
          SuspendEnd, ResumeStep, ResumeOwn, ResumeHw, ResumeNapi, ResumeHif, ResumeUpdate,
          ResumeEnd, Asleep, fwvars, DrvOwn
    <2>2. ChipSame
      BY <1>5 DEF SuspendStep, SuspendBegin, SuspendFlush, SuspendCancel, SuspendOwn, SuspendRegd,
          SuspendLate, SuspendHif, SuspendTx, SuspendRx, SuspendDma, SuspendFw, SuspendUnhif,
          SuspendEnd, ResumeStep, ResumeOwn, ResumeHw, ResumeNapi, ResumeHif, ResumeUpdate,
          ResumeEnd, fwvars, ChipSame, MayReach
    <2>3. work'.at = work.at /\ work'.ok = work.ok
      BY <2>1, Asks
    <2>4. (Usable' => Usable) /\ (removal' # "gone" => removal # "gone")
      BY <2>1 DEF Usable
    <2> QED BY <2>2, <2>3, <2>4, RunsSame
  <1>6. CASE ResetStep
    <2>0. UNCHANGED <<init, done, removal>> /\ removal' = removal
      BY <1>6 DEF ResetStep, ResetBegin, ResetLock, ResetOwn, ResetWorker, ResetRx, ResetTx,
          ResetDma, ResetOpen, ResetDown, ResetLoaded, ResetStart, ResetOut, ResetEnd, ResetClear,
          ResetIfaces, Resetting
    <2> USE <2>0 DEF Runs, Late
    <2>1. CASE ResetBegin \/ ResetLock \/ ResetOwn \/ ResetWorker \/ ResetRx \/ ResetTx
               \/ ResetDma \/ ResetOpen
      <3>1. work'.at \in {"lock", "own", "worker", "rx", "tx", "dma", "open", "down"}
        BY <2>1 DEF ResetBegin, ResetLock, ResetOwn, ResetWorker, ResetRx, ResetTx, ResetDma,
            ResetOpen, At, Idle, WorkSet
      <3> QED BY <3>1
    <2>2. CASE ResetDown
      <3>1. work'.at = "load" \/ (work'.at = "out" /\ ~work'.ok)
        BY <2>2 DEF ResetDown, At, WorkSet
      <3> QED BY <3>1
    <2>3. CASE ResetLoaded
      <3>1. load.at = "done" /\ UNCHANGED chip
        BY <2>3 DEF ResetLoaded
      <3>2. (work'.at = "start" /\ load.ok /\ work'.ok) \/ (work'.at = "out" /\ ~work'.ok)
        BY <2>3 DEF ResetLoaded, WorkSet, LoadSet
      <3>3. load.ok => chip.running \/ removal = "gone"
        BY <3>1 DEF Sem
      <3> QED BY <3>1, <3>2, <3>3
    <2>4. CASE ResetStart
      <3>1. work.at = "start" /\ work'.at = "out" /\ (work'.ok
            => work.ok) /\ UNCHANGED <<chip, load>>
        BY <2>4 DEF ResetStart, At, WorkSet
      <3> QED BY <3>1 DEF Usable
    <2>5. CASE ResetOut
      <3>1. work.at = "out" /\ (work'.at = "lock" \/ (work'.at = "end" /\ work'.ok = work.ok))
            /\ UNCHANGED <<chip, load>>
        BY <2>5 DEF ResetOut, At, Again, WorkSet
      <3> QED BY <3>1 DEF Usable
    <2>6. CASE ResetEnd \/ ResetClear \/ ResetIfaces
      <3>1. work.at \in Late /\ work'.at \in {"clear", "ifaces", "idle"} /\ work'.ok = work.ok
            /\ UNCHANGED <<chip, load>>
        BY <2>6 DEF ResetEnd, ResetClear, ResetIfaces, At, WorkSet, fwvars
      <3> QED BY <3>1 DEF Usable
    <2> QED BY <1>6, <2>1, <2>2, <2>3, <2>4, <2>5, <2>6 DEF ResetStep
  <1>7. CASE InitStep
    <2>0. UNCHANGED <<work, removal>> /\ work.at = "idle"
      BY <1>7 DEF InitStep, InitOwn, InitLoaded, InitConfig, InitReset, InitRegister, InitFinish,
          Starting, Shape
    <2>1. (UNCHANGED chip /\ Usable) \/ ~Usable'
      BY <1>7 DEF InitStep, InitOwn, InitLoaded, InitConfig, InitReset, InitRegister, InitFinish,
          Starting, Shape, Usable, Goes, InitSet, LoadSet, fwvars, Call, NoLoad
    <2> QED BY <2>0, <2>1 DEF Runs
  <1>8. CASE RemoveStep
    <2>1. CASE RemoveFree
      BY <2>1 DEF RemoveFree, Next1, Runs
    <2>2. CASE RemoveBegin
      <3>1. UNCHANGED <<chip, load, work, done>> /\ removal = "no"
        BY <2>2 DEF RemoveBegin, Removing, fwvars, Next1
      <3>2. Usable' => Usable
        BY <2>2, <3>1 DEF RemoveBegin, Usable, InitSet
      <3> QED BY <3>1, <3>2, RunsSame DEF ChipSame
    <2>3. CASE ~RemoveFree /\ ~RemoveBegin
      <3>1. UNCHANGED <<chip, load, init, done>> /\ removal # "gone"
        BY <1>8, <2>3 DEF RemoveStep, RemoveInit, RemoveUnregister, RemoveNapi, RemoveCancel,
            RemoveOwn, Removing, fwvars, Next1
      <3>2. work'.at = work.at /\ work'.ok = work.ok
        BY <1>8, <2>3 DEF RemoveStep, RemoveInit, RemoveUnregister, RemoveNapi, RemoveCancel,
            RemoveOwn, WorkSet
      <3>3. Usable' => Usable
        BY <3>1 DEF Usable
      <3> QED BY <3>1, <3>2, <3>3, RunsSame DEF ChipSame
    <2> QED BY <2>1, <2>2, <2>3
  <1> QED BY <1>2, <1>3, <1>4, <1>5, <1>6, <1>7, <1>8, Ways DEF LifeNext
-----------------------------------------------------------------------------
(* The device is not being removed and no reset ran into a suspend; where  *)
(* a suspend has not taken the path down yet, or a resume has put it back; *)
(* where it has parked the worker thread.                                  *)
Rest == ~seen.raced /\ removal = "no"
Open == {"up", "flush", "cancel", "own", "refused", "update", "woken"}
Before == Open \union {"regd", "hif"}
WorkerOff == {"rx", "dma", "fw", "asleep", "hw", "resume hif", "failed"}

(* The data path through a reset, a suspend and a resume: what each has    *)
(* put back by when. DataPathUp asks for all of it once the device is at   *)
(* rest.                                                                   *)
Data ==
    Rest =>
       /\ work.at = "open" /\ path["rings"] => path["dma"] /\ ~chip.hif
       /\ ~seen.stranded =>
            /\ work.at \in {"down", "load", "start", "out"} \union Late => path["irq"]
            /\ work.at \in {"down", "load", "start"} /\ path["rings"] => path["dma"] /\ ~chip.hif
            /\ work.ok /\ work.at \in {"out"} \union Late => path["dma"] /\ path["rings"]
               /\ ~chip.hif
            /\ work.at \in Late => path["worker"]
            /\ work.at = "idle" /\ ~work.queued =>
                 /\ Usable /\ pm \in Before =>
                      \/ pm \in {"regd", "hif"} /\ ~path["irq"]
                      \/ path["irq"] /\ (work.ok => path["dma"] /\ path["rings"])
                 /\ init.at \in {"finish", "done"} /\ pm \notin WorkerOff => path["worker"]
                 /\ work.ok /\ pm \in Before /\ chip.hif => seen.refused

(* The parts of the path DataPathUp is about beside the NAPIs.             *)
DataParts == {"worker", "irq", "dma", "rings"}

(* Where each move of the load goes and what it leaves in load.ok.         *)
LEMMA LoadMoves ==
  ASSUME load \in LoadSet, NEW t
  PROVE  /\ To(t) => load'.at = t /\ load'.ok = load.ok
         /\ Fail(t) => ~load'.ok
         /\ Unsure => ~load'.ok
         /\ Sent => load'.at = load.at
  BY DEF To, Fail, Unsure, Sent, LoadSet

(* A step that leaves those parts, the suspend and the reset's place keeps *)
(* Data.                                                                   *)
LEMMA DataSame ==
  ASSUME Data, \A p \in DataParts : path'[p] = path[p], chip'.hif = chip.hif, pm' = pm,
         work'.at = work.at, work'.ok = work.ok,
         ~work'.queued => ~work.queued, Rest' => Rest, ~seen'.stranded => ~seen.stranded,
         seen.refused => seen'.refused, Usable' => Usable, init'.at = init.at
  PROVE  Data'
  <1>1. path'["worker"] = path["worker"] /\ path'["irq"] = path["irq"]
        /\ path'["dma"] = path["dma"] /\ path'["rings"] = path["rings"]
    BY DEF DataParts
  <1> QED BY <1>1 DEF Data

(* Data is inductive, given Excl.                                          *)
LEMMA DataStep ==
  ASSUME LifeTypes, Shape, Excl, Data, TabNext
  PROVE  Data'
  <1>0. work \in WorkSet /\ path \in PathSet /\ seen \in SeenSet /\ load \in LoadSet
        /\ init \in InitSet /\ chip \in ChipSet
        /\ {"rx", "tx", "worker", "irq", "dma", "rings", "awake"} \subseteq Parts
    BY DEF LifeTypes, Parts
  <1> USE <1>0
  <1>1. ASSUME UNCHANGED <<chip, path, load, init, done, pm, removal, seen>>, UNCHANGED work
               \/ AskReset
        PROVE  Data'
    <2>1. work'.at = work.at /\ work'.ok = work.ok /\ (~work'.queued => ~work.queued)
      BY <1>1, Asks
    <2> QED BY <1>1, <2>1, DataSame DEF Rest, Usable
  <1>2. CASE Outside
    BY <1>1, <1>2 DEF Outside
  <1>3. CASE ReportTest \/ RegdStep
    BY <1>1, <1>3 DEF ReportTest, RegdStep, RegdTest, RegdMark, RegdLock, RegdUpdate, RegdDone,
        fwvars
  <1>4. CASE ReportQueue
    <2>1. UNCHANGED <<chip, path, load, init, done, pm, removal>> /\ work' = Queue
      BY <1>4 DEF ReportQueue, fwvars
    <2>2. work'.at = work.at /\ work'.ok = work.ok /\ (~work'.queued => ~work.queued)
      BY <2>1, Asks
    <2>3. (~seen'.raced => ~seen.raced) /\ (~seen'.stranded => ~seen.stranded)
          /\ seen'.refused = seen.refused
      BY <1>4 DEF ReportQueue, SeenSet
    <2> QED BY <2>1, <2>2, <2>3, DataSame DEF Rest, Usable
  <1>5. CASE Load
    <2>1. UNCHANGED <<path, pm, removal, seen, work, init, done>> /\ LoadStep
      BY <1>5 DEF Load, lifevars, LoadStep, Restart, SemGet, PatchFile, PatchRegion, StartPatch,
          SemRelease, RamFile, RamRegion, StartRam, Ready, Query
    <2>2. chip'.hif = chip.hif
      BY <2>1 DEF LoadStep, Restart, SemGet, PatchFile, PatchRegion, StartPatch, SemRelease,
          RamFile, RamRegion, StartRam, Ready, Query, MayReach, Taken, Given, ChipSet
    <2>3. CASE Query /\ Alive
      <3>1. path["irq"] /\ path["dma"] /\ path["rings"]
        BY <2>3, RingsThere
      <3> QED BY <2>1, <2>2, <3>1 DEF Data, Rest, Late
    <2>4. CASE ~Query \/ ~Alive
      <3>1. ~(load'.at = "done" /\ load'.ok)
        <4>1. CASE Query
          BY <2>4, <4>1, LoadMoves DEF Query, Answered
        <4>2. CASE Restart \/ SemGet \/ PatchFile
          BY <4>2, LoadMoves DEF Restart, SemGet, PatchFile
        <4>3. CASE PatchRegion \/ StartPatch
          BY <4>3, LoadMoves DEF PatchRegion, StartPatch
        <4>4. CASE SemRelease
          BY <4>4, LoadMoves DEF SemRelease
        <4>5. CASE RamFile \/ RamRegion \/ StartRam \/ Ready
          BY <4>5, LoadMoves DEF RamFile, RamRegion, StartRam, Ready
        <4> QED BY <2>1, <4>1, <4>2, <4>3, <4>4, <4>5 DEF LoadStep
      <3>2. Usable' => Usable
        BY <2>1, <3>1 DEF Usable
      <3> QED BY <2>1, <2>2, <3>2, DataSame DEF Rest
    <2> QED BY <2>3, <2>4
  <1>6. CASE Doze \/ WakeUp
    <2>1. UNCHANGED <<chip, load, init, done, pm, removal>> /\ (UNCHANGED work \/ AskReset)
      BY <1>6 DEF Doze, WakeUp, lifevars, DrvOwn
    <2>2. (~seen'.raced => ~seen.raced) /\ (~seen'.stranded => ~seen.stranded)
          /\ seen'.refused = seen.refused
      BY <1>6 DEF Doze, WakeUp, SeenSet, lifevars
    <2>3. work'.at = work.at /\ work'.ok = work.ok /\ (~work'.queued => ~work.queued)
      BY <2>1, Asks
    <2>4. CASE \A p \in DataParts : path'[p] = path[p]
      BY <2>1, <2>2, <2>3, <2>4, DataSame DEF Rest, Usable
    <2>5. CASE ~path'["rings"] /\ seen'.stranded
      <3>1. (Rest' => Rest) /\ (work.at = "open" => work'.at = "open")
        BY <2>1, <2>2, <2>3 DEF Rest
      <3> QED BY <2>5, <3>1 DEF Data
    <2>6. (\A p \in DataParts : path'[p] = path[p]) \/ (~path'["rings"] /\ seen'.stranded)
      BY <1>6, ReinitParts DEF Doze, WakeUp, DrvOwn, PathSet, SeenSet, DataParts
    <2> QED BY <2>4, <2>5, <2>6
  <1>7. CASE InitStep
    <2>1. UNCHANGED <<work, seen, pm, removal>> /\ work.at = "idle"
      BY <1>7 DEF InitStep, InitOwn, InitLoaded, InitConfig, InitReset, InitRegister, InitFinish,
          Starting, Shape
    <2>2. chip'.hif => chip.hif
      BY <1>7 DEF InitStep, InitOwn, InitLoaded, InitConfig, InitReset, InitRegister, InitFinish,
          WpdmaReset, WfsysReset, Fresh, ChipSet, fwvars
    <2>3. CASE InitRegister /\ On({"worker"})
      <3>1. Usable
        BY <2>3 DEF InitRegister, Usable
      <3>2. path'["worker"] /\ path'["irq"] = path["irq"] /\ path'["dma"] = path["dma"]
            /\ path'["rings"] = path["rings"]
        BY <2>3 DEF On, PathSet
      <3> QED BY <2>1, <2>2, <3>1, <3>2 DEF Data, Rest, Late
    <2>4. CASE InitFinish
      <3>1. UNCHANGED <<chip, path>> /\ Usable /\ init.at = "finish"
        BY <2>4 DEF InitFinish, Usable, fwvars
      <3> QED BY <2>1, <3>1 DEF Data, Rest, Late
    <2>5. CASE (InitLoaded \/ InitConfig) /\ Usable'
      <3>1. UNCHANGED <<chip, path>> /\ Usable /\ init'.at \notin {"finish", "done"}
        BY <2>5 DEF InitLoaded, InitConfig, Usable, Goes, InitSet, LoadSet, Shape
      <3> QED BY <2>1, <3>1 DEF Data, Rest, Late
    <2>6. CASE ~Usable' /\ init'.at \notin {"finish", "done"}
      BY <2>1, <2>2, <2>6 DEF Data, Rest, Late
    <2>7. InitOwn \/ InitReset => ~Usable' /\ init'.at \notin {"finish", "done"}
      BY DEF InitOwn, InitReset, Usable, Goes, InitSet, Call, NoLoad, Shape
    <2>8. InitLoaded \/ InitConfig => init'.at \notin {"finish", "done"}
      BY DEF InitLoaded, InitConfig, Goes, InitSet
    <2>9. InitRegister => On({"worker"}) \/ (~Usable' /\ init'.at \notin {"finish", "done"})
      BY DEF InitRegister, Goes, InitSet, Usable, Shape
    <2> QED BY <1>7, <2>3, <2>4, <2>5, <2>6, <2>7, <2>8, <2>9 DEF InitStep
  <1>8. CASE RemoveStep
    <2>1. removal' # "no"
      BY <1>8 DEF RemoveStep, RemoveBegin, RemoveInit, RemoveUnregister, RemoveNapi, RemoveCancel,
          RemoveOwn, RemoveFree, Next1
    <2> QED BY <2>1 DEF Data, Rest
  <1>9. CASE SuspendStep \/ ResumeStep
    <2>0. SUFFICES ASSUME Rest' PROVE Data'
      BY DEF Data
    <2>1. UNCHANGED <<removal, init, done, load>> /\ (UNCHANGED work \/ AskReset \/ work' = Queue)
      BY <1>9 DEF SuspendStep, SuspendBegin, SuspendFlush, SuspendCancel, SuspendOwn, SuspendRegd,
          SuspendLate, SuspendHif, SuspendTx, SuspendRx, SuspendDma, SuspendFw, SuspendUnhif,
          SuspendEnd, ResumeStep, ResumeOwn, ResumeHw, ResumeNapi, ResumeHif, ResumeUpdate,
          ResumeEnd, Asleep, DrvOwn, fwvars
    <2>2. Rest /\ work'.at = work.at /\ work'.ok = work.ok /\ (~work'.queued
          => ~work.queued) /\ (Usable' => Usable)
      BY <1>9, <2>0, <2>1, RaceStays, Asks DEF LifeNext, Rest, Usable
    <2>3. CASE SuspendBegin \/ SuspendFlush
      <3>1. UNCHANGED <<chip, path>> /\ seen'.stranded = seen.stranded /\ seen'.refused = seen.refused
            /\ pm \in {"up", "flush"}
            /\ pm' \in {"flush", "cancel"}
        BY <2>3 DEF SuspendBegin, SuspendFlush, fwvars, SeenSet
      <3>2. chip'.hif = chip.hif /\ \A p \in DataParts : path'[p] = path[p]
        BY <3>1
      <3>3. path'["worker"] = path["worker"] /\ path'["irq"] = path["irq"]
            /\ path'["dma"] = path["dma"] /\ path'["rings"] = path["rings"]
        BY <3>1
      <3> QED BY <2>1, <2>2, <3>1, <3>2, <3>3 DEF Data, Before, Open, WorkerOff
    <2>4. CASE ~SuspendBegin /\ ~SuspendFlush
      <3>1. pm \notin {"up", "flush"}
        BY <1>9, <2>4 DEF SuspendStep, SuspendBegin, SuspendFlush, SuspendCancel, SuspendOwn,
            SuspendRegd, SuspendLate, SuspendHif, SuspendTx, SuspendRx, SuspendDma, SuspendFw,
            SuspendUnhif, SuspendEnd, ResumeStep, ResumeOwn, ResumeHw, ResumeNapi, ResumeHif,
            ResumeUpdate, ResumeEnd
      <3>2. work.at = "idle" /\ ~work.queued
        BY <2>2, <3>1 DEF Excl, ResetExcluded, PastFlush, Rest
      <3>3. ASSUME ~seen'.stranded, ~work'.queued
            PROVE  /\ Usable' /\ pm' \in Before => \/ pm' \in {"regd", "hif"} /\ ~path'["irq"]
                                                   \/ path'["irq"] /\ (work'.ok
                                                      => path'["dma"] /\ path'["rings"])
                   /\ init'.at \in {"finish", "done"} /\ pm' \notin WorkerOff => path'["worker"]
                   /\ work'.ok /\ pm' \in Before /\ chip'.hif => seen'.refused
        <4>0. ~seen.stranded =>
                 /\ Usable /\ pm \in Before =>
                      \/ pm \in {"regd", "hif"} /\ ~path["irq"]
                      \/ path["irq"] /\ (work.ok => path["dma"] /\ path["rings"])
                 /\ init.at \in {"finish", "done"} /\ pm \notin WorkerOff => path["worker"]
                 /\ work.ok /\ pm \in Before /\ chip.hif => seen.refused
          BY <2>2, <3>2 DEF Data
        <4> USE <2>1, <2>2, <3>3, <4>0
        <4>1. CASE SuspendCancel \/ SuspendRegd \/ SuspendLate
          <5>1. UNCHANGED <<chip, path>> /\ seen'.stranded = seen.stranded
                /\ seen'.refused = seen.refused
            BY <4>1 DEF SuspendCancel, SuspendRegd, SuspendLate, fwvars, SeenSet
          <5>2. (pm = "cancel" /\ pm' = "own") \/ (pm = "regd" /\ pm' = "hif")
            BY <4>1 DEF SuspendCancel, SuspendRegd, SuspendLate
          <5>3. chip'.hif = chip.hif /\ path'["worker"] = path["worker"]
                /\ path'["irq"] = path["irq"] /\ path'["dma"] = path["dma"]
                /\ path'["rings"] = path["rings"]
            BY <5>1
          <5>4. pm \in Before /\ pm' \in Before /\ pm \notin WorkerOff
                /\ (pm \in {"regd", "hif"} => pm' \in {"regd", "hif"})
            BY <5>2 DEF Before, Open, WorkerOff
          <5> QED BY <5>1, <5>3, <5>4
        <4>2. CASE SuspendOwn
          <5>1. pm = "own" /\ pm' \in {"regd", "failed"} /\ UNCHANGED <<seen, chip>>
            BY <4>2 DEF SuspendOwn, DrvOwn
          <5>2. /\ path'["worker"] = path["worker"]
                /\ \/ path'["irq"] = path["irq"] /\ path'["dma"] = path["dma"]
                      /\ path'["rings"] = path["rings"]
                   \/ ~path'["irq"]
            BY <4>2, ReinitParts DEF SuspendOwn, DrvOwn
          <5>3. chip'.hif = chip.hif /\ seen'.stranded = seen.stranded
                /\ seen'.refused = seen.refused
            BY <5>1
          <5>4. CASE pm' = "failed"
            BY <5>4 DEF Before, Open, WorkerOff
          <5>5. CASE pm' = "regd"
            <6>1. pm \in Before /\ pm \notin {"regd", "hif"} /\ pm \notin WorkerOff
              BY <5>1 DEF Before, Open, WorkerOff
            <6> QED BY <5>2, <5>3, <5>5, <6>1
          <5> QED BY <5>1, <5>4, <5>5
        <4>3. CASE SuspendHif
          <5>1. pm = "hif" /\ UNCHANGED <<seen, path>> 
            BY <4>3 DEF SuspendHif
          <5>2. pm' \in {"quiet", "failed"} \/ (pm' = "refused" /\ Alive /\ UNCHANGED chip)
            BY <4>3 DEF SuspendHif
          <5>3. path'["worker"] = path["worker"] /\ path'["irq"] = path["irq"]
                /\ path'["dma"] = path["dma"] /\ path'["rings"] = path["rings"]
            BY <5>1
          <5> QED BY <5>1, <5>2, <5>3, RingsThere DEF Before, Open, WorkerOff
        <4>4. CASE SuspendTx \/ SuspendRx \/ SuspendDma \/ SuspendFw \/ SuspendUnhif
          <5>1. pm' \in {"rx", "dma", "fw", "asleep", "resume hif", "failed"}
            BY <4>4 DEF SuspendTx, SuspendRx, SuspendDma, SuspendFw, SuspendUnhif
          <5> QED BY <5>1 DEF Before, Open, WorkerOff
        <4>5. CASE SuspendEnd
          <5>1. pm \in {"failed", "refused"} /\ pm' = "up" /\ UNCHANGED <<chip, path>>
                /\ seen'.stranded = (seen.stranded \/ (pm = "failed" /\ ~done))
                /\ seen'.refused = seen.refused
            BY <4>5 DEF SuspendEnd, Strands, fwvars, SeenSet
          <5>2. ~full
            BY <3>2 DEF Shape, Running
          <5>3. pm = "failed" => ~done
            BY <4>5, <5>2 DEF SuspendEnd, Queue, WorkSet
          <5>4. pm = "refused" /\ ~seen.stranded
            BY <5>1, <5>3
          <5>5. path'["worker"] = path["worker"] /\ path'["irq"] = path["irq"]
                /\ path'["dma"] = path["dma"] /\ path'["rings"] = path["rings"]
            BY <5>1
          <5> QED BY <5>1, <5>4, <5>5 DEF Before, Open, WorkerOff
        <4>6. CASE ResumeOwn
          <5>1. pm' \in {"hw", "failed"}
            BY <4>6 DEF ResumeOwn, DrvOwn
          <5> QED BY <5>1 DEF Before, Open, WorkerOff
        <4>7. CASE ResumeHw
          <5>1. pm' = "napi" /\ path'["worker"]
            BY <4>7 DEF ResumeHw, On, PathSet
          <5> QED BY <5>1 DEF Before, Open, WorkerOff
        <4>8. CASE ResumeNapi
          <5>1. pm = "napi" /\ pm' = "wake hif" /\ path'["worker"] = path["worker"]
                /\ UNCHANGED seen
            BY <4>8 DEF ResumeNapi, On, PathSet
          <5> QED BY <5>1 DEF Before, Open, WorkerOff
        <4>9. CASE ResumeHif
          <5>1. pm = "wake hif" /\ UNCHANGED path /\ seen'.stranded = seen.stranded
            BY <4>9 DEF ResumeHif, SeenSet
          <5>2. pm' = "failed" \/ (pm' = "update" /\ Alive /\ (~chip'.hif \/ seen'.refused))
            BY <4>9 DEF ResumeHif, Answered, ChipSet, SeenSet
          <5>3. path'["worker"] = path["worker"] /\ path'["irq"] = path["irq"]
                /\ path'["dma"] = path["dma"] /\ path'["rings"] = path["rings"]
            BY <5>1
          <5> QED BY <5>1, <5>2, <5>3, RingsThere DEF Before, Open, WorkerOff
        <4>10. CASE ResumeUpdate \/ ResumeEnd
          <5>1. UNCHANGED <<chip, path, seen>> /\ pm \in {"update", "woken"}
                /\ pm' \in {"woken", "up", "failed"}
            BY <4>10 DEF ResumeUpdate, ResumeEnd, fwvars
          <5>3. path'["worker"] = path["worker"] /\ path'["irq"] = path["irq"]
                /\ path'["dma"] = path["dma"] /\ path'["rings"] = path["rings"]
            BY <5>1
          <5> QED BY <5>1, <5>3 DEF Before, Open, WorkerOff
        <4> QED BY <1>9, <2>4, <4>1, <4>2, <4>3, <4>4, <4>5, <4>6, <4>7, <4>8, <4>9, <4>10 DEF
            SuspendStep, ResumeStep
      <3> QED BY <2>2, <3>2, <3>3 DEF Data, Late
    <2> QED BY <2>3, <2>4
  <1>10. CASE ResetStep
    <2>0. SUFFICES ASSUME Rest' PROVE Data'
      BY DEF Data
    <2>1. UNCHANGED <<pm, removal, init, done>>
      BY <1>10 DEF ResetStep, ResetBegin, ResetLock, ResetOwn, ResetWorker, ResetRx, ResetTx,
          ResetDma, ResetOpen, ResetDown, ResetLoaded, ResetStart, ResetOut, ResetEnd, ResetClear,
          ResetIfaces, Resetting
    <2>2. Rest
      BY <1>10, <2>0, <2>1, RaceStays DEF LifeNext, Rest
    <2>3. pm \in {"up", "flush"}
      <3>1. work.at # "idle" \/ work.queued
        BY <1>10 DEF ResetStep, ResetBegin, ResetLock, ResetOwn, ResetWorker, ResetRx, ResetTx,
            ResetDma, ResetOpen, ResetDown, ResetLoaded, ResetStart, ResetOut, ResetEnd, ResetClear,
            ResetIfaces
      <3> QED BY <2>2, <3>1 DEF Excl, ResetExcluded, PastFlush, Rest
    <2> USE <2>1, <2>2, <2>3 DEF Data, Late
    <2>4. CASE ResetBegin \/ ResetLock \/ ResetOwn \/ ResetWorker \/ ResetRx \/ ResetTx
      <3>1. work'.at \in {"lock", "own", "worker", "rx", "tx", "dma"}
        BY <2>4 DEF ResetBegin, ResetLock, ResetOwn, ResetWorker, ResetRx, ResetTx, At, Idle,
            WorkSet
      <3> QED BY <3>1
    <2>5. CASE ResetDma
      <3>1. work'.at = "open"
        BY <2>5 DEF ResetDma, At, WorkSet
      <3>2. path'["rings"] => path'["dma"] /\ ~chip'.hif
        <4>1. WpdmaReset(path)
          BY <2>5 DEF ResetDma
        <4>2. CASE chip' = Fresh
          <5>1. ~chip'.hif /\ ~chip'.stale
            BY <4>2 DEF Fresh
          <5> QED BY <4>1, <5>1 DEF WpdmaReset, PathSet
        <4>3. CASE chip' = [chip EXCEPT !.stale = TRUE]
          <5>1. chip'.stale
            BY <4>3 DEF ChipSet
          <5>2. chip' # Fresh
            BY <5>1 DEF Fresh
          <5> QED BY <4>1, <5>1, <5>2 DEF WpdmaReset, PathSet
        <4> QED BY <4>1, <4>2, <4>3 DEF WpdmaReset, WfsysReset
      <3> QED BY <3>1, <3>2
    <2>6. CASE ResetOpen
      <3>1. work.at = "open" /\ work'.at = "down" /\ UNCHANGED chip
        BY <2>6 DEF ResetOpen, At, WorkSet
      <3>2. path'["irq"] /\ path'["dma"] = path["dma"] /\ path'["rings"] = path["rings"]
        BY <2>6 DEF ResetOpen, On, PathSet
      <3> QED BY <3>1, <3>2
    <2>7. CASE ResetDown \/ ResetLoaded \/ ResetStart
      <3>1. UNCHANGED <<chip, path, seen>>
        BY <2>7 DEF ResetDown, ResetLoaded, ResetStart
      <3>2. work.at \in {"down", "load", "start"} /\ (work'.at \in {"load", "start"}
            \/ (work'.at = "out" /\ (work'.ok => Alive)))
        BY <2>7 DEF ResetDown, ResetLoaded, ResetStart, At, WorkSet, Answered, LoadSet
      <3>3. path'["irq"] = path["irq"] /\ path'["dma"] = path["dma"]
            /\ path'["rings"] = path["rings"]
        BY <3>1
      <3> QED BY <3>1, <3>2, <3>3, RingsThere
    <2>8. CASE ResetOut
      <3>1. work.at = "out" /\ (work'.at = "lock" \/ (work'.at = "end" /\ work'.ok = work.ok))
            /\ UNCHANGED <<chip, seen>>
        BY <2>8 DEF ResetOut, At, Again, WorkSet
      <3>2. path'["worker"] /\ path'["irq"] = path["irq"] /\ path'["dma"] = path["dma"]
            /\ path'["rings"] = path["rings"]
        BY <2>8 DEF ResetOut, On, PathSet
      <3> QED BY <3>1, <3>2
    <2>9. CASE ResetEnd \/ ResetClear \/ ResetIfaces
      <3>1. work.at \in {"end", "clear", "ifaces"} /\ work'.at \in {"clear", "ifaces", "idle"}
            /\ work'.ok = work.ok /\ UNCHANGED <<chip, path>>
        BY <2>9 DEF ResetEnd, ResetClear, ResetIfaces, At, WorkSet, fwvars
      <3>2. seen'.stranded = seen.stranded /\ seen'.refused = seen.refused
        BY <2>9 DEF ResetEnd, ResetClear, ResetIfaces, SeenSet
      <3>3. path'["worker"] = path["worker"] /\ path'["irq"] = path["irq"]
            /\ path'["dma"] = path["dma"] /\ path'["rings"] = path["rings"]
        BY <3>1
      <3> QED BY <3>1, <3>2, <3>3 DEF Before, Open
    <2> QED BY <1>10, <2>4, <2>5, <2>6, <2>7, <2>8, <2>9 DEF ResetStep
  <1> QED BY <1>2, <1>3, <1>4, <1>5, <1>6, <1>7, <1>8, <1>9, <1>10, Ways DEF LifeNext

(* And with Napi and Runs it implies DataPathUp.                           *)
LEMMA DataHolds ==
  ASSUME LifeTypes, Shape, Napi, Runs, Data PROVE DataPathUp
  <1> SUFFICES ASSUME Settled, ~seen.raced, ~seen.stranded
               PROVE /\ \A p \in {"rx", "tx", "worker", "irq"} : path[p]
                     /\ work.ok => path["dma"] /\ path["rings"] /\ chip.running /\ (chip.hif => seen.refused)
    BY DEF DataPathUp
  <1>1. pm = "up" /\ work.at = "idle" /\ ~work.queued /\ done /\ removal = "no"
        /\ init.at = "done" /\ Usable
    BY DEF Settled, Shape, Usable
  <1>2. path["rx"] /\ path["tx"]
    BY <1>1 DEF Napi, Registered, Early, RxOff, TxOff
  <1>3. path["worker"] /\ path["irq"] /\ (work.ok => path["dma"] /\ path["rings"] /\ (chip.hif => seen.refused))
    BY <1>1 DEF Data, Rest, Before, Open, WorkerOff
  <1>4. work.ok => chip.running
    BY <1>1 DEF Runs
  <1> QED BY <1>2, <1>3, <1>4
-----------------------------------------------------------------------------
(* The inductive invariant. Each part is preserved given those before it:  *)
(* the reset, the suspend, the resume, the start-up and the removal each   *)
(* stop at many places between their first and their last step, and the    *)
(* properties the runs check speak of the ends only.                       *)
IInv == LifeTypes /\ OffTypes /\ Shape /\ Sem /\ Excl /\ Ends /\ Napi /\ Runs /\ Data

(* It holds at the start of every scene.                                   *)
LEMMA InitHolds == TabInit => IInv
  <1> SUFFICES ASSUME TabInit PROVE IInv
    OBVIOUS
  <1> USE Numbers, OffAssumption DEF TabInit, OffInit, LifeInit
  <1>1. 0 \in 0 .. Regions /\ Regions \in 0 .. Regions /\ 0 \in 0 .. Tries
        /\ 0 \in 0 .. MaxFlight /\ 0 \in 0 .. MaxSuspends
    OBVIOUS
  <1>2. scene \in Scenes /\ scene.up \in BOOLEAN /\ scene.spent \in 0 .. MaxFaults
    BY LifeAssumption
  <1>3. path \in PathSet /\ \A p \in Parts : path[p] = IF p = "worker" THEN scene.up ELSE TRUE
    BY <1>2 DEF AllOn, PathSet
  <1>4. {"rx", "tx", "worker", "irq", "dma", "rings", "awake"} \subseteq Parts
    BY DEF Parts
  <1>5. path["rx"] /\ path["tx"] /\ path["irq"] /\ path["dma"] /\ path["rings"]
        /\ path["worker"] = scene.up
    BY <1>3, <1>4
  <1>6. chip \in ChipSet
    <2>1. Loaded \in ChipSet /\ Fresh \in ChipSet
      BY <1>1 DEF Loaded, Fresh, ChipSet
    <2> QED BY <2>1
  <1>7. /\ scene.up => chip.patch = Regions /\ chip.patched /\ chip.ram = Regions
           /\ chip.running /\ ~chip.sem /\ ~chip.stale /\ ~chip.hif
        /\ ~scene.up => ~chip.patched /\ ~chip.running /\ ~chip.sem /\ ~chip.stale /\ ~chip.hif
    BY DEF Loaded, Fresh
  <1>8. load \in LoadSet /\ load.at = "idle" /\ ~load.unsure
    BY <1>1 DEF NoLoad, LoadSet
  <1>9. work \in WorkSet /\ work.at = "idle" /\ ~work.queued /\ work.ok /\ init \in InitSet
        /\ init.try < Tries
        /\ init.at = IF scene.up THEN "done" ELSE "queued"
    BY <1>1 DEF Idle, WorkSet, InitSet
  <1>10. seen \in SeenSet /\ ~seen.raced /\ ~seen.stranded
    BY <1>1 DEF SeenSet
  <1>11. LifeTypes
    BY <1>2, <1>3, <1>6, <1>8, <1>9, <1>10 DEF LifeTypes, FlagSet, PmSet, RegdSet, MutexSet,
        RemovalSet
  <1>12. roc \in RocSet /\ ~roc.bit /\ scan \in ScanSet /\ ~scan.bit /\ task = "idle"
    BY <1>1 DEF RocIdle, ScanIdle, RocSet, ScanSet
  <1>13. OffTypes /\ Ends
    BY <1>12 DEF OffTypes, TaskSet, Ends
  <1>14. Shape
    BY <1>2, <1>8, <1>9 DEF Shape, Loading, Running
  <1>15. Sem
    BY <1>2, <1>7, <1>8, <1>9 DEF Sem, Waiting, Clean, SentInFull
  <1>16. Excl
    BY DEF Excl, ResetExcluded, PastFlush, Held
  <1>17. Napi
    BY <1>5, <1>9 DEF Napi, Registered, Early, Late, RxOff, TxOff
  <1>18. Runs
    BY <1>2, <1>7, <1>8, <1>9 DEF Runs, Usable, Late
  <1>19. Data
    BY <1>2, <1>5, <1>7, <1>9 DEF Data, Rest, Usable, Late, Before, Open, WorkerOff
  <1> QED BY <1>11, <1>13, <1>14, <1>15, <1>16, <1>17, <1>18, <1>19 DEF IInv

(* No step breaks it.                                                      *)
LEMMA StepHolds == IInv /\ [TabNext]_<<vars, offvars, tabvars>> => IInv'
  <1> SUFFICES ASSUME IInv, [TabNext]_<<vars, offvars, tabvars>> PROVE IInv'
    OBVIOUS
  <1>1. CASE TabNext
    <2>1. LifeTypes' /\ OffTypes' /\ Shape' /\ Sem' /\ Excl'
      BY <1>1, LifeTypeStep, OffTypeStep, ShapeStep, SemStep, ExclStep DEF IInv
    <2>2. Ends' /\ Napi' /\ Runs' /\ Data'
      BY <1>1, <2>1, EndsStep, NapiStep, RunsStep, DataStep DEF IInv
    <2> QED BY <2>1, <2>2 DEF IInv
  <1>2. CASE UNCHANGED <<vars, offvars, tabvars>>
    <2> USE <1>2 DEF vars, fwvars, lifevars, offvars, IInv
    <2>1. LifeTypes' /\ OffTypes'
      BY DEF LifeTypes, OffTypes, FlagSet
    <2>2. Shape' /\ Excl' /\ Ends'
      BY DEF Shape, Loading, Excl, ResetExcluded, PastFlush, Ends, Armed, ScanReset
    <2>3. Sem' /\ Napi'
      BY DEF Sem, Waiting, Clean, SentInFull, Napi, Registered
    <2>4. Runs' /\ Data'
      BY DEF Runs, Usable, Data, Rest
    <2> QED BY <2>1, <2>2, <2>3, <2>4
  <1> QED BY <1>1, <1>2

(* The invariant holds of every behaviour, whatever the scenes, the files' *)
(* regions, the faults and the vifs and stations.                          *)
THEOREM Inductive == TabSpec => []IInv
  BY InitHolds, StepHolds, PTL DEF TabSpec

(* SemReturned for all sizes: a download that is over has given the patch  *)
(* semaphore back unless the chip did not answer for it, every download    *)
(* finds it free unless the chip could not be reset since the last, and    *)
(* only a firmware sent in full runs.                                      *)
THEOREM SemIsReturned == TabSpec => []SemReturned
  <1>1. IInv => SemReturned
    BY DEF IInv, Sem, Clean, SentInFull, SemReturned
  <1> QED BY <1>1, Inductive, PTL

(* SleepExclusive for all sizes: from suspend's flush to the end of resume *)
(* no reset runs and none is queued, and no regulatory update runs while   *)
(* the device sleeps, but for the windows that seen.raced and seen.late    *)
(* name.                                                                   *)
THEOREM SleepIsExclusive == TabSpec => []SleepExclusive
  <1>1. IInv => SleepExclusive
    BY ExclHolds DEF IInv
  <1> QED BY <1>1, Inductive, PTL

(* OffChannelEnds for all sizes: a stay off channel and a scan always have *)
(* something to come that ends them.                                       *)
THEOREM OffChannelIsEnded == TabSpec => []OffChannelEnds
  <1>1. IInv => OffChannelEnds
    BY EndsHolds DEF IInv
  <1> QED BY <1>1, Inductive, PTL

(* NapiBalanced for all sizes: the reset, the suspend and the resume never *)
(* wait to disable a NAPI that stays off, nor enable one that is on.       *)
THEOREM NapisAreBalanced == TabSpec => []NapiBalanced
  <1>1. IInv => NapiBalanced
    BY NapiHolds DEF IInv
  <1> QED BY <1>1, Inductive, PTL

(* DataPathUp for all sizes: when suspend, resume and reset are over,      *)
(* NAPIs, worker and interrupts are on, and unless the reset failed for    *)
(* good the rings and the DMA too, with the firmware running and awake.    *)
THEOREM DataPathIsUp == TabSpec => []DataPathUp
  <1>1. IInv => DataPathUp
    BY DataHolds DEF IInv
  <1> QED BY <1>1, Inductive, PTL
=============================================================================
