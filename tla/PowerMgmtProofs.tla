--------------------------- MODULE PowerMgmtProofs ---------------------------
(***************************************************************************)
(* The safety properties of PowerMgmt, for any number of clients and       *)
(* mutex users and any number of tries of a reset.                         *)
(*                                                                         *)
(* IInv is the inductive invariant.  Every process of the model has a      *)
(* lemma that its steps preserve IInv, with a step per conjunct; the       *)
(* theorems at the end draw the properties of PowerMgmt from it.           *)
(***************************************************************************)
EXTENDS PowerMgmt, FiniteSetTheorems, TLAPS

Holders == {c \in Clients : client[c] = "hold"}

(* pm->wake.count is the number of references held.                        *)
Counting == count = Cardinality(Holders) /\ IsFiniteSet(Holders)

(* Only a running reset_work counts its tries and sets hw_full_reset;      *)
(* reset_work and wake_work can always be queued.                          *)
Resets ==
    /\ wq \in RsPc \ {"rs_end"} => tries < MaxTries
    /\ wq \notin RsPc => tries = 0 /\ ~hwreset
    /\ cancel["reset"] = {} /\ cancel["wake"] = {}

(* What each work of dev->wq knows of the chip, which nobody else changes, *)
(* and the section in which reset_work holds the mutex.                    *)
Stages ==
    /\ wq = "ps_own" => pm
    /\ wq = "wk_clear" => own = "driver"
    /\ wq = "wk_dequeue" => ~pm
    /\ wq \in {"rs_own", "rs_drain", "rs_dma", "rs_fw"} => mutex = Reset

(* The driver owns an awake chip, unless a reset is coming.                *)
Owner == ~pm => own = "driver" \/ Recovering

(* The chip is awake under a reference.                                    *)
HeldAwake == \A c \in Clients : client[c] = "hold" => ~pm

Sleeping == {"ps_idle", "ps_tokens", "ps_lock", "ps_own"}

(* A user past the cancelling of ps_work holds the mutex, and ps_work is   *)
(* not beyond its test of the mutex.                                       *)
Exclusive ==
    /\ \A u \in Users :
         user[u].pc \in {"cancel", "sync", "test", "wait", "crit"} <=> mutex = u
    /\ \A x \in cancel["ps"] : x \in Users /\ user[x].pc = "sync"
    /\ \A u \in Users :
         user[u].pc \in {"test", "wait", "crit"} => wq \notin Sleeping
    /\ \A u \in Users : user[u].ok => user[u].pc = "crit" /\ ~pm
    /\ \A u \in Users : user[u].pc = "sync" => u \in cancel["ps"] /\ "ps" \notin pending

(* With pm->enable clear, ps_work is not queued and does not run, but for  *)
(* the one that the debugfs file is about to cancel or waits for and the   *)
(* one that mt7921_config came too late for, which exists only while the   *)
(* debugfs file has power management on.                                   *)
Switched ==
    /\ \A u \in Users : user[u].task = "switch" => mutex = u /\ ~enable
    /\ \A u \in Users :
         user[u].pc \in {"test", "wait", "crit"} /\ user[u].task # "none" => ~switch.late
    /\ enable => switch.user
    /\ ~enable => \/ \E u \in Users : Switching(u)
                  \/ switch.user /\ switch.late
                  \/ "ps" \notin pending /\ wq \notin PsPc

(* A reset frees the parked frames when it takes the chip over (rs_own);   *)
(* what is parked later has its own wake_work.                             *)
Parked ==
    txq # {} => \/ "wake" \in pending \/ wq \in {"wk_own", "wk_clear", "wk_dequeue"}
                \/ wq \in {"rs_mac", "rs_macwait", "rs_ps", "rs_lock", "rs_own"}
                \/ wq \notin RsPc /\ (dead \/ "reset" \in pending)

(* An awake chip that no work of dev->wq is dealing with has somebody who  *)
(* will schedule ps_work, if it is not queued.                             *)
Sleeper ==
    Polls # {} /\ enable /\ ~pm /\ ~Recovering
        /\ wq \notin {"ps_check", "wk_own", "wk_clear", "wk_dequeue"} \cup Sleeping \cup RsPc
    => "ps" \in pending \/ resched # {} \/ tokens \/ count > 0 \/ mutex \in Users

IInv == /\ TypeOK /\ Counting /\ Resets /\ Stages /\ Owner /\ HeldAwake
        /\ Exclusive /\ Switched /\ Parked /\ StoppedHasWaker /\ Sleeper

-----------------------------------------------------------------------------
(* A reference taken or given back is counted.                             *)
LEMMA TakeCounts ==
  ASSUME NEW c \in Clients, client \in [Clients -> {"idle", "hold", "miss"}],
         client[c] # "hold", client' = [client EXCEPT ![c] = "hold"], Counting
  PROVE  Cardinality(Holders') = count + 1 /\ IsFiniteSet(Holders')
  <1>1. Holders' = Holders \cup {c} BY DEF Holders
  <1>2. c \notin Holders BY DEF Holders
  <1> QED BY <1>1, <1>2, FS_AddElement DEF Counting

LEMMA DropCounts ==
  ASSUME NEW c \in Clients, client \in [Clients -> {"idle", "hold", "miss"}],
         client[c] = "hold", client' = [client EXCEPT ![c] = "idle"], Counting
  PROVE  /\ Cardinality(Holders') = count - 1 /\ IsFiniteSet(Holders')
         /\ Cardinality(Holders') \in Nat
  <1>1. Holders' = Holders \ {c} BY DEF Holders
  <1>2. c \in Holders BY DEF Holders
  <1> QED BY <1>1, <1>2, FS_RemoveElement, FS_CardinalityType DEF Counting

(* count tells whether anybody holds a reference.                          *)
LEMMA HeldCounts ==
  ASSUME Counting, count \in Nat
  PROVE  \A c \in Clients : client[c] = "hold" => count > 0
  <1> SUFFICES ASSUME NEW c \in Clients, client[c] = "hold" PROVE count # 0
    OBVIOUS
  <1>1. c \in Holders BY DEF Holders
  <1> QED BY <1>1, FS_EmptySet DEF Counting

(* Whoever is cancelling ps_work holds the mutex.                          *)
LEMMA CancelHolds ==
  ASSUME Exclusive
  PROVE  cancel["ps"] = {} \/ mutex \in Users
  BY DEF Exclusive

(* The driver starts with the chip awake and nobody holding anything.      *)
LEMMA InitIInv == Init => IInv
  <1> SUFFICES ASSUME Init PROVE IInv OBVIOUS
  <1>1. TypeOK
    <2>1. user \in [Users -> [pc : UserPc, ok : BOOLEAN, task : Tasks]]
      BY DEF Init, UserPc, Tasks
    <2>2. pending \in SUBSET Works /\ cancel \in [Works -> SUBSET Cancellers]
      BY DEF Init, Works
    <2>3. tries \in 0 .. MaxTries BY TriesAssumption DEF Init
    <2>4. client \in [Clients -> {"idle", "hold", "miss"}] BY DEF Init
    <2>5. wq \in {"idle"} \cup PsPc \cup WkPc \cup RsPc BY DEF Init
    <2>6. mutex \in Users \cup {Nobody, Reset} BY DEF Init
    <2>7. resched \in SUBSET Polls /\ txq \in SUBSET Acs BY DEF Init
    <2>8. /\ pm \in BOOLEAN /\ own \in {"driver", "fw"} /\ count \in Nat
          /\ tokens \in BOOLEAN /\ stopped \in BOOLEAN /\ enable \in BOOLEAN
          /\ idle \in BOOLEAN /\ hwreset \in BOOLEAN /\ dead \in BOOLEAN
      BY DEF Init
    <2>9. switch \in Switches BY DEF Init, Switches
    <2> QED BY <2>1, <2>2, <2>3, <2>4, <2>5, <2>6, <2>7, <2>8, <2>9 DEF TypeOK
  <1>2. Holders = {} BY DEF Holders, Init
  <1>3. Counting BY <1>2, FS_EmptySet DEF Counting, Init
  <1>4. Exclusive BY HolderAssumption DEF Exclusive, Init, Works
  <1>5. Resets /\ Stages /\ Owner /\ HeldAwake
    BY DEF Init, Resets, Stages, Owner, HeldAwake, RsPc, Works
  <1>6. Switched /\ Parked /\ StoppedHasWaker /\ Sleeper
    BY DEF Init, Switched, Parked, StoppedHasWaker, Sleeper
  <1> QED BY <1>1, <1>3, <1>4, <1>5, <1>6 DEF IInv

(* The polls, the tx worker and the transmit path keep the invariant.      *)
LEMMA ClientPreserves ==
  ASSUME IInv, NEW c \in Clients, Client(c)
  PROVE  IInv'
  <1> USE DEF IInv, TypeOK, chip, data, refs, timing, locks, works, reset,
    Works, Queue, QueueReset, Sched, PsPc, WkPc, RsPc, Client, PmRef,
    Transmit, TxFree, PmUnref, PollKick, PmQueueSkb
  <1>1. TypeOK'
    <2>1. (user \in [Users -> [pc : UserPc, ok : BOOLEAN, task : Tasks]])'
      OBVIOUS
    <2>2. (pending \in SUBSET Works)' OBVIOUS
    <2>3. (cancel \in [Works -> SUBSET Cancellers])' OBVIOUS
    <2>4. (client \in [Clients -> {"idle", "hold", "miss"}] /\ count \in Nat)'
      BY HeldCounts
    <2>5. (wq \in {"idle"} \cup PsPc \cup WkPc \cup RsPc)' OBVIOUS
    <2>6. (tries \in 0 .. MaxTries)' OBVIOUS
    <2>7. (mutex \in Users \cup {Nobody, Reset})' OBVIOUS
    <2>8. (resched \in SUBSET Polls /\ txq \in SUBSET Acs)' BY DEF Polls
    <2>9. (/\ pm \in BOOLEAN /\ own \in {"driver", "fw"}
           /\ tokens \in BOOLEAN /\ stopped \in BOOLEAN /\ enable \in BOOLEAN
           /\ idle \in BOOLEAN /\ hwreset \in BOOLEAN /\ dead \in BOOLEAN)'
      BY ZenonT(40)
    <2>10. (switch \in Switches)' BY DEF Switches
    <2> QED BY <2>1, <2>2, <2>3, <2>4, <2>5, <2>6, <2>7, <2>8, <2>9, <2>10
  <1>2. Counting'
    <2>1. CASE PmRef(c) BY <2>1, TakeCounts DEF Counting, Holders
    <2>2. CASE PmUnref(c) BY <2>2, DropCounts DEF Counting
    <2>3. CASE Transmit(c) \/ TxFree(c) BY <2>3 DEF Counting, Holders
    <2>4. CASE PollKick(c) \/ \E ac \in Acs : PmQueueSkb(c, ac)
      <3>1. Holders' = Holders BY <2>4 DEF Holders
      <3> QED BY <2>4, <3>1 DEF Counting
    <2> QED BY <2>1, <2>2, <2>3, <2>4
  <1>3. Resets' BY DEF Resets
  <1>4. Stages' BY DEF Stages
  <1>5. Owner' BY DEF Owner, Recovering
  <1>6. HeldAwake' BY DEF HeldAwake
  <1>7. Exclusive' BY DEF Exclusive
  <1>8. Switched' BY DEF Switched, Switching
  <1>9. Parked' BY DEF Parked, Resets
  <1>10. StoppedHasWaker' BY ZenonT(40) DEF StoppedHasWaker, Resets
  <1>11. Sleeper'
    <2> USE HeldCounts, CancelHolds
      DEF Sleeper, Sleeping, Stages, Resets, Exclusive, Recovering
    <2>1. CASE PmRef(c) BY <2>1
    <2>2. CASE Transmit(c) BY <2>2
    <2>3. CASE TxFree(c) BY <2>3
    <2>4. CASE PmUnref(c) BY <2>4
    <2>5. CASE PollKick(c) BY <2>5
    <2>6. CASE \E ac \in Acs : PmQueueSkb(c, ac) BY <2>6
    <2> QED BY <2>1, <2>2, <2>3, <2>4, <2>5, <2>6
  <1> QED BY <1>1, <1>2, <1>3, <1>4, <1>5, <1>6, <1>7, <1>8, <1>9, <1>10, <1>11

(* Holders of dev->mutex (mt792x_mutex_acquire) keep the invariant.        *)
LEMMA UserPreserves ==
  ASSUME IInv, NEW u \in Users, User(u)
  PROVE  IInv'
  <1> USE DEF IInv, TypeOK, chip, data, refs, timing, locks, works, reset,
    Works, Queue, QueueReset, Sched, PsPc, WkPc, RsPc, User, Lock, Wake,
    WakeCancelPs, WakeSyncPs, WakeTest, WakeDone, WakeTimeout, SetEnable, Release,
    Config
  <1>1. TypeOK'
    <2>1. (user \in [Users -> [pc : UserPc, ok : BOOLEAN, task : Tasks]])'
      <3>1. CASE Config(u) BY <3>1 DEF UserPc, Tasks
      <3>8. CASE \E t \in Tasks : Lock(u, t) BY <3>8 DEF UserPc
      <3>2. CASE WakeCancelPs(u) BY <3>2 DEF UserPc
      <3>3. CASE WakeSyncPs(u) BY <3>3 DEF UserPc
      <3>4. CASE WakeTest(u) BY <3>4 DEF UserPc
      <3>5. CASE WakeDone(u) BY <3>5 DEF UserPc
      <3>6. CASE WakeTimeout(u) BY <3>6 DEF UserPc
      <3>7. CASE SetEnable(u) BY <3>7 DEF UserPc, Tasks
      <3>9. CASE Release(u) BY <3>9 DEF UserPc, Tasks
      <3> QED BY <3>1, <3>2, <3>3, <3>4, <3>5, <3>6, <3>7, <3>8, <3>9
    <2>2. (pending \in SUBSET Works)' OBVIOUS
    <2>3. (cancel \in [Works -> SUBSET Cancellers])' BY DEF Cancellers
    <2>4. (client \in [Clients -> {"idle", "hold", "miss"}] /\ count \in Nat)'
      OBVIOUS
    <2>5. (wq \in {"idle"} \cup PsPc \cup WkPc \cup RsPc)' OBVIOUS
    <2>6. (tries \in 0 .. MaxTries)' OBVIOUS
    <2>7. (mutex \in Users \cup {Nobody, Reset})' OBVIOUS
    <2>8. (resched \in SUBSET Polls /\ txq \in SUBSET Acs)' OBVIOUS
    <2>9. (/\ pm \in BOOLEAN /\ own \in {"driver", "fw"}
           /\ tokens \in BOOLEAN /\ stopped \in BOOLEAN /\ enable \in BOOLEAN
           /\ idle \in BOOLEAN /\ hwreset \in BOOLEAN /\ dead \in BOOLEAN)'
      BY ZenonT(60)
    <2>10. (switch \in Switches)' BY DEF Switches
    <2> QED BY <2>1, <2>2, <2>3, <2>4, <2>5, <2>6, <2>7, <2>8, <2>9, <2>10
  <1>2. Counting' BY DEF Counting, Holders
  <1>3. Resets' BY DEF Resets
  <1>4. Stages' BY HolderAssumption DEF Stages, Exclusive
  <1>5. Owner' BY DEF Owner, Recovering
  <1>6. HeldAwake' BY DEF HeldAwake
  <1>7. Exclusive'
    <2> USE HolderAssumption, MacAssumption
      DEF Exclusive, Sleeping, Stages
    <2>1. CASE Config(u) BY <2>1
    <2>8. CASE \E t \in Tasks : Lock(u, t) BY <2>8
    <2>2. CASE WakeCancelPs(u) BY <2>2
    <2>3. CASE WakeSyncPs(u) BY <2>3
    <2>4. CASE WakeTest(u) BY <2>4
    <2>5. CASE WakeDone(u) BY <2>5
    <2>6. CASE WakeTimeout(u) BY <2>6
    <2>7. CASE SetEnable(u) BY <2>7
    <2>9. CASE Release(u) BY <2>9
    <2> QED BY <2>1, <2>2, <2>3, <2>4, <2>5, <2>6, <2>7, <2>8, <2>9
  <1>8. Switched'
    <2> USE HolderAssumption, MacAssumption
      DEF Switched, Switching, Exclusive, Sleeping, Switches
    <2>1. CASE Config(u) BY <2>1
    <2>8. CASE \E t \in Tasks : Lock(u, t) BY <2>8
    <2>2. CASE WakeCancelPs(u) BY <2>2
    <2>3. CASE WakeSyncPs(u) BY <2>3
    <2>4. CASE WakeTest(u) BY <2>4
    <2>5. CASE WakeDone(u) BY <2>5
    <2>6. CASE WakeTimeout(u) BY <2>6
    <2>7. CASE SetEnable(u) BY <2>7
    <2>9. CASE Release(u) BY <2>9
    <2> QED BY <2>1, <2>2, <2>3, <2>4, <2>5, <2>6, <2>7, <2>8, <2>9
  <1>9. Parked' BY DEF Parked
  <1>10. StoppedHasWaker' BY DEF StoppedHasWaker
  <1>11. Sleeper'
    <2> USE HolderAssumption DEF Sleeper, Exclusive
    <2>1. CASE Config(u) BY <2>1
    <2>2. CASE \E t \in Tasks : Lock(u, t) BY <2>2
    <2>3. CASE Wake(u) BY <2>3, ZenonT(40)
    <2>4. CASE SetEnable(u) BY <2>4
    <2>5. CASE Release(u) BY <2>5
    <2> QED BY <2>1, <2>2, <2>3, <2>4, <2>5
  <1> QED BY <1>1, <1>2, <1>3, <1>4, <1>5, <1>6, <1>7, <1>8, <1>9, <1>10, <1>11

(* mac_work, before and after it takes the mutex, keeps the invariant.     *)
LEMMA MacPreserves ==
  ASSUME IInv, MacStart \/ MacRequeue \/ IdleTimeout
  PROVE  IInv'
  <1> USE DEF IInv, TypeOK, chip, data, refs, timing, locks, works, reset,
    Works, Queue, QueueReset, Sched, PsPc, WkPc, RsPc, MacStart, MacRequeue,
    IdleTimeout
  <1>1. TypeOK'
    <2>1. (user \in [Users -> [pc : UserPc, ok : BOOLEAN, task : Tasks]])'
      BY DEF UserPc
    <2>2. (pending \in SUBSET Works)' OBVIOUS
    <2>3. (cancel \in [Works -> SUBSET Cancellers])' OBVIOUS
    <2>4. (client \in [Clients -> {"idle", "hold", "miss"}] /\ count \in Nat)'
      OBVIOUS
    <2>5. (wq \in {"idle"} \cup PsPc \cup WkPc \cup RsPc)' OBVIOUS
    <2>6. (tries \in 0 .. MaxTries)' OBVIOUS
    <2>7. (mutex \in Users \cup {Nobody, Reset})' OBVIOUS
    <2>8. (resched \in SUBSET Polls /\ txq \in SUBSET Acs)' OBVIOUS
    <2>9. (/\ pm \in BOOLEAN /\ own \in {"driver", "fw"}
           /\ tokens \in BOOLEAN /\ stopped \in BOOLEAN /\ enable \in BOOLEAN
           /\ idle \in BOOLEAN /\ hwreset \in BOOLEAN /\ dead \in BOOLEAN)'
      OBVIOUS
    <2>10. (switch \in Switches)' BY DEF Switches
    <2> QED BY <2>1, <2>2, <2>3, <2>4, <2>5, <2>6, <2>7, <2>8, <2>9, <2>10
  <1>2. Counting' BY DEF Counting, Holders
  <1>3. Resets' BY DEF Resets
  <1>4. Stages' BY DEF Stages
  <1>5. Owner' BY DEF Owner, Recovering
  <1>6. HeldAwake' BY DEF HeldAwake
  <1>7. Exclusive' BY DEF Exclusive
  <1>8. Switched' BY DEF Switched, Switching
  <1>9. Parked' BY DEF Parked
  <1>10. StoppedHasWaker' BY DEF StoppedHasWaker
  <1>11. Sleeper' BY DEF Sleeper, Recovering
  <1> QED BY <1>1, <1>2, <1>3, <1>4, <1>5, <1>6, <1>7, <1>8, <1>9, <1>10, <1>11

(* The sleep work (mt792x_pm_power_save_work) keeps the invariant.         *)
LEMMA PsPreserves ==
  ASSUME IInv, PsStart \/ PsRun
  PROVE  IInv'
  <1> USE DEF IInv, TypeOK, chip, data, refs, timing, locks, works, reset,
    Works, Queue, QueueReset, Sched, PsPc, WkPc, RsPc, PsStart, PsRun,
    PsCheck, PsIdle, PsTokens, PsLock, PsOwn, PsOwnFail, PsMac, PsMacWait,
    CancelMac, SyncMac, PsOut
  <1>1. TypeOK'
    <2>1. (user \in [Users -> [pc : UserPc, ok : BOOLEAN, task : Tasks]])'
      OBVIOUS
    <2>2. (pending \in SUBSET Works)' OBVIOUS
    <2>3. (cancel \in [Works -> SUBSET Cancellers])' BY DEF Cancellers
    <2>4. (client \in [Clients -> {"idle", "hold", "miss"}] /\ count \in Nat)'
      OBVIOUS
    <2>5. (wq \in {"idle"} \cup PsPc \cup WkPc \cup RsPc)' OBVIOUS
    <2>6. (tries \in 0 .. MaxTries)' OBVIOUS
    <2>7. (mutex \in Users \cup {Nobody, Reset})' OBVIOUS
    <2>8. (resched \in SUBSET Polls /\ txq \in SUBSET Acs)' OBVIOUS
    <2>9. (/\ pm \in BOOLEAN /\ own \in {"driver", "fw"}
           /\ tokens \in BOOLEAN /\ stopped \in BOOLEAN /\ enable \in BOOLEAN
           /\ idle \in BOOLEAN /\ hwreset \in BOOLEAN /\ dead \in BOOLEAN)'
      BY ZenonT(40)
    <2>10. (switch \in Switches)' BY DEF Switches
    <2> QED BY <2>1, <2>2, <2>3, <2>4, <2>5, <2>6, <2>7, <2>8, <2>9, <2>10
  <1>2. Counting' BY ZenonT(40) DEF Counting, Holders
  <1>3. Resets' BY DEF Resets
  <1>4. Stages' BY DEF Stages
  <1>5. Owner' BY DEF Owner, Stages, Resets, Recovering
  <1>6. HeldAwake' BY HeldCounts DEF HeldAwake
  <1>7. Exclusive' BY HolderAssumption DEF Exclusive, Sleeping
  <1>8. Switched'
    <2> USE DEF Switched, Switching, Switches
    <2>1. CASE PsStart BY <2>1
    <2>2. CASE PsMacWait BY <2>2
    <2>3. CASE PsMac BY <2>3
    <2>4. CASE PsCheck \/ PsIdle \/ PsTokens \/ PsLock \/ PsOwn \/ PsOwnFail
      BY <2>4
    <2> QED BY <2>1, <2>2, <2>3, <2>4
  <1>9. Parked' BY DEF Parked
  <1>10. StoppedHasWaker' BY DEF StoppedHasWaker
  <1>11. Sleeper' BY CancelHolds, ZenonT(40) DEF Sleeper, Sleeping, Stages, Recovering
  <1> QED BY <1>1, <1>2, <1>3, <1>4, <1>5, <1>6, <1>7, <1>8, <1>9, <1>10, <1>11

(* The wake work (mt792x_pm_wake_work) keeps the invariant.                *)
LEMMA WkPreserves ==
  ASSUME IInv, WkStart \/ WkRun
  PROVE  IInv'
  <1> USE DEF IInv, TypeOK, chip, data, refs, timing, locks, works, reset,
    Works, Queue, QueueReset, Sched, PsPc, WkPc, RsPc, WkStart, WkRun, WkOwn,
    WkOwnFail, WkClear, WkDequeue, WkQueues
  <1>1. TypeOK'
    <2>1. (user \in [Users -> [pc : UserPc, ok : BOOLEAN, task : Tasks]])'
      OBVIOUS
    <2>2. (pending \in SUBSET Works)'
      <3>1. CASE WkStart BY <3>1
      <3>2. CASE WkOwn \/ WkClear \/ WkQueues BY <3>2
      <3>3. CASE WkOwnFail BY <3>3
      <3>4. CASE WkDequeue BY <3>4
      <3> QED BY <3>1, <3>2, <3>3, <3>4
    <2>3. (cancel \in [Works -> SUBSET Cancellers])' OBVIOUS
    <2>4. (client \in [Clients -> {"idle", "hold", "miss"}] /\ count \in Nat)'
      OBVIOUS
    <2>5. (wq \in {"idle"} \cup PsPc \cup WkPc \cup RsPc)' OBVIOUS
    <2>6. (tries \in 0 .. MaxTries)' OBVIOUS
    <2>7. (mutex \in Users \cup {Nobody, Reset})' OBVIOUS
    <2>8. (resched \in SUBSET Polls /\ txq \in SUBSET Acs)' OBVIOUS
    <2>9. (/\ pm \in BOOLEAN /\ own \in {"driver", "fw"}
           /\ tokens \in BOOLEAN /\ stopped \in BOOLEAN /\ enable \in BOOLEAN
           /\ idle \in BOOLEAN /\ hwreset \in BOOLEAN /\ dead \in BOOLEAN)'
      BY ZenonT(40)
    <2>10. (switch \in Switches)' BY DEF Switches
    <2> QED BY <2>1, <2>2, <2>3, <2>4, <2>5, <2>6, <2>7, <2>8, <2>9, <2>10
  <1>2. Counting' BY DEF Counting, Holders
  <1>3. Resets' BY DEF Resets
  <1>4. Stages' BY DEF Stages
  <1>5. Owner' BY DEF Owner, Stages, Recovering
  <1>6. HeldAwake' BY DEF HeldAwake
  <1>7. Exclusive' BY DEF Exclusive, Sleeping
  <1>8. Switched' BY DEF Switched, Switching
  <1>9. Parked' BY DEF Parked, Resets
  <1>10. StoppedHasWaker' BY DEF StoppedHasWaker
  <1>11. Sleeper' BY DEF Sleeper, Sleeping, Recovering
  <1> QED BY <1>1, <1>2, <1>3, <1>4, <1>5, <1>6, <1>7, <1>8, <1>9, <1>10, <1>11

(* The reset work (mt7921_mac_reset_work) keeps the invariant.             *)
LEMMA RsPreserves ==
  ASSUME IInv, RsStart \/ RsRun
  PROVE  IInv'
  <1> USE DEF IInv, TypeOK, chip, data, refs, timing, locks, works, reset,
    Works, Queue, QueueReset, Sched, PsPc, WkPc, RsPc, RsStart, RsRun, RsMac,
    RsMacWait, RsPs, RsLock, RsOwn, RsDrain, RsDma, RsFw, RsEnd, CancelMac,
    SyncMac
  <1>1. TypeOK'
    <2>1. (user \in [Users -> [pc : UserPc, ok : BOOLEAN, task : Tasks]])'
      OBVIOUS
    <2>2. (pending \in SUBSET Works)' OBVIOUS
    <2>3. (cancel \in [Works -> SUBSET Cancellers])' BY DEF Cancellers
    <2>4. (client \in [Clients -> {"idle", "hold", "miss"}] /\ count \in Nat)'
      BY HeldCounts
    <2>5. (wq \in {"idle"} \cup PsPc \cup WkPc \cup RsPc)' OBVIOUS
    <2>6. (tries \in 0 .. MaxTries)' BY TriesAssumption DEF Resets
    <2>7. (mutex \in Users \cup {Nobody, Reset})' BY MacAssumption
    <2>8. (resched \in SUBSET Polls /\ txq \in SUBSET Acs)'
      BY DEF Polls, Clients
    <2>9. (/\ pm \in BOOLEAN /\ own \in {"driver", "fw"}
           /\ tokens \in BOOLEAN /\ stopped \in BOOLEAN /\ enable \in BOOLEAN
           /\ idle \in BOOLEAN /\ hwreset \in BOOLEAN /\ dead \in BOOLEAN)'
      BY ZenonT(60)
    <2>10. (switch \in Switches)' BY DEF Switches
    <2> QED BY <2>1, <2>2, <2>3, <2>4, <2>5, <2>6, <2>7, <2>8, <2>9, <2>10
  <1>2. Counting' BY DEF Counting, Holders
  <1>3. Resets' BY TriesAssumption DEF Resets
  <1>4. Stages' BY HolderAssumption DEF Stages, Exclusive
  <1>5. Owner' BY DEF Owner, Stages, Resets, Recovering
  <1>6. HeldAwake' BY HeldCounts DEF HeldAwake, Stages
  <1>7. Exclusive'
    BY HolderAssumption, MacAssumption
    DEF Exclusive, Sleeping, Stages
  <1>8. Switched'
    <2> USE HolderAssumption, MacAssumption
      DEF Switched, Switching, Switches, Exclusive
    <2>1. CASE RsStart BY <2>1
    <2>2. CASE RsMac BY <2>2
    <2>3. CASE RsMacWait BY <2>3
    <2>4. CASE RsPs BY <2>4
    <2>5. CASE RsEnd BY <2>5
    <2>6. CASE RsLock BY <2>6
    <2>7. CASE RsOwn \/ RsDrain \/ RsDma BY <2>7
    <2>8. CASE RsFw BY <2>8 DEF Stages
    <2> QED BY <2>1, <2>2, <2>3, <2>4, <2>5, <2>6, <2>7, <2>8
  <1>9. Parked' BY DEF Parked, Resets
  <1>10. StoppedHasWaker' BY DEF StoppedHasWaker, Resets
  <1>11. Sleeper'
    BY HeldCounts, CancelHolds, HolderAssumption
    DEF Sleeper, Sleeping, Stages, Resets, Exclusive, Recovering
  <1> QED BY <1>1, <1>2, <1>3, <1>4, <1>5, <1>6, <1>7, <1>8, <1>9, <1>10, <1>11

(* Every step of the driver keeps the invariant.                           *)
LEMMA NextPreserves == IInv /\ [Next]_vars => IInv'
  <1> SUFFICES ASSUME IInv, [Next]_vars PROVE IInv' OBVIOUS
  <1>1. CASE UNCHANGED vars
    BY <1>1 DEF vars, IInv, TypeOK, Counting, Holders, Resets, Stages, Owner,
      Recovering, HeldAwake, Exclusive, Switched, Switching, Parked, StoppedHasWaker, Sleeper
  <1> QED
    BY <1>1, ClientPreserves, UserPreserves, MacPreserves, PsPreserves,
      WkPreserves, RsPreserves DEF Next

(* The inductive invariant holds.                                          *)
THEOREM Inductive == Spec => []IInv
  BY InitIInv, NextPreserves, PTL DEF Spec

-----------------------------------------------------------------------------
(* Every variable keeps its type, pm->wake.count among them: a reference    *)
(* is never given back twice.                                              *)
THEOREM TypeCorrect == Spec => []TypeOK
  <1>1. IInv => TypeOK BY DEF IInv
  <1> QED BY <1>1, Inductive, PTL

(* The chip is awake and the driver's for as long as a wake reference is   *)
(* held (mt76_connac_pm_ref against mt76_connac_skip_fw_pmctrl).           *)
THEOREM RefAwakeHolds == Spec => []RefAwake
  <1>1. IInv => RefAwake BY DEF IInv, HeldAwake, Owner, RefAwake, Awake
  <1> QED BY <1>1, Inductive, PTL

(* The chip is awake in every mt792x_mutex_acquire section whose wake-up   *)
(* succeeded.                                                              *)
THEOREM MutexAwakeHolds == Spec => []MutexAwake
  <1>1. IInv => MutexAwake BY DEF IInv, Exclusive, Owner, MutexAwake, Awake
  <1> QED BY <1>1, Inductive, PTL

(* wake_work sends parked frames to an awake chip only.                    *)
THEOREM DequeueAwakeHolds == Spec => []DequeueAwake
  <1>1. IInv => DequeueAwake BY DEF IInv, Stages, Owner, DequeueAwake, Awake
  <1> QED BY <1>1, Inductive, PTL

(* The three together: nobody who was told that the chip is awake touches  *)
(* it asleep.                                                              *)
THEOREM ChipAwakeHolds == Spec => []ChipAwake
  <1>1. TypeOK /\ RefAwake /\ MutexAwake /\ DequeueAwake => ChipAwake BY DEF ChipAwake
  <1> QED BY <1>1, TypeCorrect, RefAwakeHolds, MutexAwakeHolds, DequeueAwakeHolds, PTL

(* No parked frame is forgotten.                                           *)
THEOREM ParkedHasWakerHolds == Spec => []ParkedHasWaker
  <1>1. IInv => ParkedHasWaker
    BY DEF IInv, Parked, ParkedHasWaker, Recovering, RsPc
  <1> QED BY <1>1, Inductive, PTL

(* No stopped mac80211 queue is forgotten.                                 *)
THEOREM StoppedHasWakerHolds == Spec => []StoppedHasWaker
  <1>1. IInv => StoppedHasWaker BY DEF IInv
  <1> QED BY <1>1, Inductive, PTL

(* An awake chip is never left without somebody who lets it sleep again,   *)
(* given a poll for wake_work to schedule.                                 *)
THEOREM AwakeHasSleeperHolds ==
  ASSUME Polls # {} PROVE Spec => []AwakeHasSleeper
  <1>1. IInv => AwakeHasSleeper
    BY DEF IInv, Sleeper, Sleeping, AwakeHasSleeper, PsPc, WkPc
  <1> QED BY <1>1, Inductive, PTL

(* Together: neither a frame, a queue nor the awake chip is forgotten.     *)
THEOREM NobodyForgottenHolds ==
  ASSUME Polls # {} PROVE Spec => []NobodyForgotten
  <1>1. ParkedHasWaker /\ StoppedHasWaker /\ AwakeHasSleeper => NobodyForgotten
    BY DEF NobodyForgotten
  <1> QED BY <1>1, ParkedHasWakerHolds, StoppedHasWakerHolds, AwakeHasSleeperHolds, PTL

(* The chip is put to sleep only with pm->enable set, while the debugfs    *)
(* file that clears it still waits for ps_work, or by the one ps_work that *)
(* was queued when a monitor interface cleared it.                         *)
THEOREM SleepOnlyEnabledHolds == Spec => SleepOnlyEnabled
  <1>1. IInv /\ [Next]_vars =>
          [~pm /\ pm' => \/ enable
                         \/ \E u \in Users : Switching(u)
                         \/ switch.user /\ switch.late]_vars
    <2> SUFFICES ASSUME IInv, Next, ~pm, pm'
                 PROVE  \/ enable
                        \/ \E u \in Users : Switching(u)
                        \/ switch.user /\ switch.late
      OBVIOUS
    <2>1. PsLock
      BY DEF Next, Client, PmRef, Transmit, TxFree, PmUnref, PollKick, PmQueueSkb,
        User, Config, SetEnable, Lock, Wake, WakeCancelPs, WakeSyncPs, WakeTest, WakeDone, WakeTimeout,
        Release, MacStart, MacRequeue, IdleTimeout, PsStart, PsRun, PsCheck, PsIdle,
        PsTokens, PsOwn, PsOwnFail, PsMac, PsMacWait, CancelMac, SyncMac, WkStart,
        WkRun, WkOwn, WkOwnFail, WkClear, WkDequeue, WkQueues, RsStart, RsRun,
        RsMac, RsMacWait, RsPs, RsLock, RsOwn, RsDrain, RsDma, RsFw, RsEnd, chip
    <2> QED BY <2>1 DEF PsLock, PsPc, IInv, Switched
  <1> QED BY <1>1, Inductive, PTL DEF Spec, SleepOnlyEnabled
=============================================================================
