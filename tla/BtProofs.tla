------------------------------- MODULE BtProofs -------------------------------
(***************************************************************************)
(* Theorems about the Bluetooth function, for any number of interfaces,    *)
(* links, frames, firmware blocks and failures: suspend_count is balanced, *)
(* frames in flight are counted, deferred ones are woken for, the receive  *)
(* URBs of a running kind are posted, and posted once, the isochronous     *)
(* interface follows the SCO links, a setup that succeeds has loaded the   *)
(* firmware, and resets are not refused.                                   *)
(*                                                                         *)
(* The invariant is a conjunction of parts, each about one mechanism and   *)
(* preserved given those before it.                                        *)
(***************************************************************************)
EXTENDS BtMtk, TLAPS
-----------------------------------------------------------------------------
(* What btusb_resume does after its count has come down to zero, step by   *)
(* step.                                                                   *)
ResumePc == {"intr", "post intr", "bulk", "post bulk", "isoc", "post isoc", "isopkt",
             "post isopkt", "play", "work", "failed", "done"}

(* The record of the suspend or resume under way, field by field.          *)
PmType == pm.auto \in BOOLEAN /\ pm.i \in Nat
          /\ pm = [op |-> pm.op, auto |-> pm.auto, i |-> pm.i, at |-> pm.at]

(* Nothing under way: all interfaces are counted when the device sleeps,   *)
(* none when it is awake.                                                  *)
AtRest ==
    pm.op = "none" => /\ pm.at = "none"
                      /\ IF asleep = "no" THEN count = 0 /\ ~suspending
                                          ELSE count = Intfs /\ suspending
(* A suspend has counted the interfaces from the last down to pm.i; the    *)
(* first of them to come has set BTUSB_SUSPENDING.                         *)
GoingDown ==
    pm.op = "suspend" =>
       \/ pm.at = "enter" /\ pm.i \in 1 .. Intfs /\ count = Intfs - pm.i /\ (suspending <=> count > 0)
       \/ pm.at \in {"cancel", "kill"} /\ pm.i = Intfs /\ count = 1 /\ suspending
       \/ pm.at = "flush" /\ count = Intfs /\ suspending
(* A resume counts them back from the first, and the last one brings the   *)
(* device back before it clears BTUSB_SUSPENDING.                          *)
ComingUp ==
    pm.op = "resume" =>
       \/ pm.at = "enter" /\ pm.i \in 1 .. Intfs /\ count = (Intfs - pm.i) + 1 /\ suspending
       \/ pm.at \in ResumePc /\ pm.i = Intfs /\ count = 0 /\ (suspending <=> pm.at # "work")
(* suspend_count at every step of a suspend and a resume: CountBalanced    *)
(* speaks of the device at rest only, which no step preserves by itself.   *)
Balanced ==
    /\ PmType /\ count \in Nat /\ suspending \in BOOLEAN
    /\ pm.op \in {"none", "suspend", "resume"} /\ asleep \in {"no", "auto", "system"}
    /\ pm.op # "none" => asleep = "no"
    /\ AtRest /\ GoingDown /\ ComingUp

(* The four kinds of receive URBs and where resume tests and posts each.   *)
LEMMA Stages ==
  ASSUME NEW k \in Kinds
  PROVE  \/ k = "intr" /\ Posting[k] = "post intr" /\ After[k] = "bulk"
         \/ k = "bulk" /\ Posting[k] = "post bulk" /\ After[k] = "isoc"
         \/ k = "isoc" /\ Posting[k] = "post isoc" /\ After[k] = "isopkt"
         \/ k = "isopkt" /\ Posting[k] = "post isopkt" /\ After[k] = "play"
  <1>1. /\ Posting["intr"] = "post intr" /\ After["intr"] = "bulk"
        /\ Posting["bulk"] = "post bulk" /\ After["bulk"] = "isoc"
        /\ Posting["isoc"] = "post isoc" /\ After["isoc"] = "isopkt"
        /\ Posting["isopkt"] = "post isopkt" /\ After["isopkt"] = "play"
    BY DEF Posting, After
  <1>2. k = "intr" \/ k = "bulk" \/ k = "isoc" \/ k = "isopkt"
    BY DEF Kinds
  <1> QED BY <1>1, <1>2

(* The device has an interface.                                            *)
LEMMA SomeIntfs == Intfs \in Nat /\ Intfs > 0
  BY UsbAssumption

(* What a step makes of the fields of pm, for each way a step assigns it.  *)
LEMMA PmSet ==
  ASSUME NEW o, NEW a \in BOOLEAN, NEW i \in Nat, NEW t,
         pm' = [op |-> o, auto |-> a, i |-> i, at |-> t]
  PROVE  PmType' /\ pm'.op = o /\ pm'.auto = a /\ pm'.i = i /\ pm'.at = t
  BY DEF PmType

(* It moves on within an interface,                                        *)
LEMMA PmGoes ==
  ASSUME PmType, NEW t, pm' = [pm EXCEPT !.at = t]
  PROVE  PmType' /\ pm'.op = pm.op /\ pm'.auto = pm.auto /\ pm'.i = pm.i /\ pm'.at = t
  BY DEF PmType

(* to another interface,                                                   *)
LEMMA PmMoves ==
  ASSUME PmType, NEW i \in Nat, NEW t, pm' = [pm EXCEPT !.i = i, !.at = t]
  PROVE  PmType' /\ pm'.op = pm.op /\ pm'.auto = pm.auto /\ pm'.i = i /\ pm'.at = t
  BY DEF PmType

(* comes to an end,                                                        *)
LEMMA PmRests ==
  ASSUME pm' = Rest
  PROVE  PmType' /\ pm'.op = "none" /\ pm'.auto = FALSE /\ pm'.i = 0 /\ pm'.at = "none"
  BY DEF PmType, Rest

(* or begins.                                                              *)
LEMMA PmBegins ==
  ASSUME NEW o, NEW a \in BOOLEAN, NEW i \in Nat,
         pm' = [Rest EXCEPT !.op = o, !.auto = a, !.i = i, !.at = "enter"]
  PROVE  PmType' /\ pm'.op = o /\ pm'.auto = a /\ pm'.i = i /\ pm'.at = "enter"
  BY PmSet DEF Rest

(* The next interface to resume, or none.                                  *)
LEMMA PmUp ==
  ASSUME PmType, NextUp
  PROVE  PmType' /\ IF pm.i = Intfs THEN pm'.op = "none" /\ pm'.auto = FALSE /\ pm'.i = 0 /\ pm'.at = "none"
                    ELSE pm'.op = pm.op /\ pm'.auto = pm.auto /\ pm'.i = pm.i + 1 /\ pm'.at = "enter"
  <1>1. CASE pm.i = Intfs
    BY <1>1, PmRests DEF NextUp
  <1>2. CASE pm.i # Intfs
    <2>0. pm' = [pm EXCEPT !.i = pm.i + 1, !.at = "enter"]
      BY <1>2 DEF NextUp
    <2>1. pm.i + 1 \in Nat
      BY DEF PmType
    <2> QED BY <2>0, <2>1, <1>2, PmMoves
  <1> QED BY <1>1, <1>2

(* The next interface to suspend, or the flush.                            *)
LEMMA PmDown ==
  ASSUME PmType, pm.i > 0, NextDown
  PROVE  PmType' /\ pm'.op = pm.op /\ pm'.auto = pm.auto /\ pm'.i = pm.i - 1
         /\ pm'.at = (IF pm.i = 1 THEN "flush" ELSE "enter")
  <1> DEFINE t == IF pm.i = 1 THEN "flush" ELSE "enter"
  <1> HIDE DEF t
  <1>1. pm' = [pm EXCEPT !.i = pm.i - 1, !.at = t]
    BY DEF NextDown, t
  <1>2. pm.i - 1 \in Nat
    BY DEF PmType
  <1> QED BY <1>1, <1>2, PmMoves DEF t

(* A refusal: nothing was suspended yet, or those that were are resumed.   *)
LEMMA PmRefused ==
  ASSUME PmType, Refused
  PROVE  PmType' /\ IF pm.i = Intfs THEN pm'.op = "none" /\ pm'.auto = FALSE /\ pm'.i = 0 /\ pm'.at = "none"
                    ELSE pm'.op = "resume" /\ pm'.auto = pm.auto /\ pm'.i = pm.i + 1 /\ pm'.at = "enter"
  <1>1. CASE pm.i = Intfs
    BY <1>1, PmRests DEF Refused
  <1>2. CASE pm.i # Intfs
    <2>0. pm' = [pm EXCEPT !.op = "resume", !.i = pm.i + 1, !.at = "enter"]
      BY <1>2 DEF Refused
    <2>1. pm' = [op |-> "resume", auto |-> pm.auto, i |-> pm.i + 1, at |-> "enter"]
      BY <2>0 DEF PmType
    <2>2. pm.i + 1 \in Nat /\ pm.auto \in BOOLEAN
      BY DEF PmType
    <2> QED BY <2>1, <2>2, <1>2, PmSet
  <1> QED BY <1>1, <1>2

(* What a step makes of the suspend or resume under way.                   *)
Frames == UNCHANGED <<pm, asleep, count, suspending>>

(* A step suspends, resumes, or leaves all that alone.                     *)
LEMMA Phases ==
  ASSUME MtkNext
  PROVE  \/ \E auto \in BOOLEAN : SuspendBegin(auto)
         \/ Suspend \/ Resume \/ Frames
  <1> USE DEF power, Frames
  <1>1. CASE UsbNext
    BY <1>1 DEF UsbNext, OpenGet, OpenIntr, OpenBulk, SetRunning, CloseCancel, CloseStop,
      CloseEnd, Send, SendFrame, SendSubmit, SendDefer, SendWake, WakerStart, WakerGet,
      AclUp, AclDown, ScoChange, Work, WorkStart, WorkGet, WorkSwitch, Switch, WorkPost, WorkStop,
      IsocData, IntrComplete, BulkComplete, IsocComplete, IsoPktComplete, Gone
  <1>2. CASE DeviceGets \/ FrameGone \/ Wmt
    BY <1>2 DEF DeviceGets, FrameGone, Wmt, WmtGet, WmtSend, WmtUrb, WmtTimeout, WmtParse, Parse,
      RecvTest, RecvClear, RecvGone, usb, vars
  <1>3. CASE Setup \/ Shutdown
    BY <1>3 DEF Setup, SetupId, SetupAsk, SetupQueried, SetupSent, SetupFunc, SetupReg, SetupIso,
      SetupIsoCmd, SetupFailed, Answered, CloseBegin, usb, vars, Shutdown, ShutdownBegin, ShutdownAsk,
      ShutdownTold, ShutdownEnd, ShutdownClose
  <1>4. CASE Reset
    BY <1>4 DEF Reset, DumpPacket, DumpEnd, ResetBegin, ResetGet, ResetStop, ResetEnd, UsbReset,
      Disconnect, CloseBegin, usb, vars
  <1> QED BY <1>1, <1>2, <1>3, <1>4 DEF MtkNext

(* Every step keeps the count balanced.                                    *)
LEMMA BalancedStep ==
  ASSUME Balanced, MtkNext
  PROVE  Balanced'
  <1> USE SomeIntfs
  <1>0. PmType /\ count \in Nat /\ suspending \in BOOLEAN /\ pm.i \in Nat /\ pm.auto \in BOOLEAN
    BY DEF Balanced, PmType
  <1>1. ASSUME NEW auto \in BOOLEAN, SuspendBegin(auto)
        PROVE  Balanced'
    <2>1. pm.op = "none" /\ asleep = "no" /\ UNCHANGED <<asleep, count, suspending>>
          /\ pm' = [Rest EXCEPT !.op = "suspend", !.auto = auto, !.i = Intfs, !.at = "enter"]
      BY <1>1 DEF SuspendBegin
    <2>2. PmType' /\ pm'.op = "suspend" /\ pm'.i = Intfs /\ pm'.at = "enter"
      BY <2>1, PmBegins
    <2> QED BY <1>0, <2>1, <2>2 DEF Balanced, AtRest, GoingDown, ComingUp
  <1>2. CASE SuspendEnter
    <2>0. UNCHANGED asleep
      BY <1>2 DEF SuspendEnter, Enter
    <2>1. pm.op = "suspend" /\ pm.at = "enter" /\ pm.i \in 1 .. Intfs /\ count = Intfs - pm.i
          /\ (suspending <=> count > 0) /\ asleep = "no"
      BY <1>2 DEF SuspendEnter, Enter, Balanced, GoingDown
    <2>2. CASE Refused /\ UNCHANGED suspending /\ count' = count
      <3>1. CASE pm.i = Intfs
        BY <1>0, <2>0, <2>1, <2>2, <3>1, PmRefused DEF Balanced, AtRest, GoingDown, ComingUp
      <3>2. CASE pm.i # Intfs
        BY <1>0, <2>0, <2>1, <2>2, <3>2, PmRefused DEF Balanced, AtRest, GoingDown, ComingUp
      <3> QED BY <3>1, <3>2
    <2>3. CASE NextDown /\ count > 0 /\ UNCHANGED suspending /\ count' = count + 1
      BY <1>0, <2>0, <2>1, <2>3, PmDown DEF Balanced, AtRest, GoingDown, ComingUp
    <2>4. CASE count = 0 /\ count' = 1 /\ suspending' = TRUE /\ pm' = [pm EXCEPT !.at = "cancel"]
      BY <1>0, <2>0, <2>1, <2>4, PmGoes DEF Balanced, AtRest, GoingDown, ComingUp
    <2> QED BY <1>2, <2>1, <2>2, <2>3, <2>4 DEF SuspendEnter, Enter
  <1>3. CASE SuspendCancel
    BY <1>0, <1>3, PmGoes DEF SuspendCancel, Balanced, AtRest, GoingDown, ComingUp
  <1>4. CASE SuspendKill
    BY <1>0, <1>4, PmDown DEF SuspendKill, Balanced, AtRest, GoingDown, ComingUp
  <1>5. CASE SuspendEnd
    BY <1>0, <1>5, PmRests DEF SuspendEnd, Balanced, AtRest, GoingDown, ComingUp
  <1>6. CASE ResumeBegin
    <2>1. pm.op = "none" /\ asleep # "no" /\ asleep' = "no" /\ UNCHANGED <<count, suspending>>
          /\ pm' = [Rest EXCEPT !.op = "resume", !.auto = (asleep = "auto"), !.i = 1, !.at = "enter"]
      BY <1>6 DEF ResumeBegin
    <2>2. PmType' /\ pm'.op = "resume" /\ pm'.i = 1 /\ pm'.at = "enter"
      <3> DEFINE a == (asleep = "auto")
      <3>1. a \in BOOLEAN /\ 1 \in Nat
        OBVIOUS
      <3>2. pm' = [Rest EXCEPT !.op = "resume", !.auto = a, !.i = 1, !.at = "enter"]
        BY <2>1
      <3> HIDE DEF a
      <3> QED BY <3>1, <3>2, PmBegins
    <2> QED BY <1>0, <2>1, <2>2 DEF Balanced, AtRest, GoingDown, ComingUp
  <1>7. CASE ResumeEnter
    <2>1. pm.op = "resume" /\ pm.at = "enter" /\ pm.i \in 1 .. Intfs /\ count = (Intfs - pm.i) + 1
          /\ suspending /\ asleep = "no" /\ UNCHANGED <<asleep, suspending>> /\ count' = count - 1
      BY <1>7 DEF ResumeEnter, Balanced, ComingUp, ResumePc
    <2>2. CASE NextUp /\ count > 1
      <3>1. pm.i # Intfs
        BY <2>1, <2>2
      <3>2. PmType' /\ pm'.op = "resume" /\ pm'.i = pm.i + 1 /\ pm'.at = "enter"
        BY <1>0, <2>1, <2>2, <3>1, PmUp
      <3> QED BY <1>0, <2>1, <2>2, <3>1, <3>2 DEF Balanced, AtRest, GoingDown, ComingUp
    <2>3. ASSUME count <= 1, NEW t \in {"intr", "done"}, pm' = [pm EXCEPT !.at = t]
          PROVE  Balanced'
      <3>1. PmType' /\ pm'.op = "resume" /\ pm'.i = pm.i /\ pm'.at = t
        BY <1>0, <2>1, <2>3, PmGoes
      <3>2. pm.i = Intfs /\ count = 1
        BY <2>1, <2>3
      <3>3. t \in ResumePc /\ t # "work"
        BY <2>3 DEF ResumePc
      <3> QED BY <1>0, <2>1, <3>1, <3>2, <3>3 DEF Balanced, AtRest, GoingDown, ComingUp
    <2> QED BY <1>7, <2>1, <2>2, <2>3 DEF ResumeEnter
  <1>8. CASE ResumePlay
    BY <1>0, <1>8, PmGoes DEF ResumePlay, Balanced, AtRest, GoingDown, ComingUp, ResumePc
  <1>9. CASE ResumeWork
    BY <1>0, <1>9, PmUp DEF ResumeWork, Balanced, AtRest, GoingDown, ComingUp, ResumePc
  <1>10. CASE ResumeFailed
    BY <1>0, <1>10, PmGoes DEF ResumeFailed, Balanced, AtRest, GoingDown, ComingUp, ResumePc
  <1>11. CASE ResumeDone
    BY <1>0, <1>11, PmUp DEF ResumeDone, Balanced, AtRest, GoingDown, ComingUp, ResumePc
  <1>12. ASSUME NEW k \in Kinds, ResumeTest(k) \/ ResumePost(k)
         PROVE  Balanced'
    <2>1. pm.op = "resume" /\ pm.at \in {k, Posting[k]} /\ UNCHANGED <<asleep, count, suspending>>
      BY <1>12 DEF ResumeTest, ResumePost, ResumeAs
    <2>2. PICK t \in {Posting[k], After[k], "failed"} : pm' = [pm EXCEPT !.at = t]
      BY <1>12 DEF ResumeTest, ResumePost, ResumeAs
    <2>3. {k, Posting[k], After[k], "failed"} \subseteq ResumePc \ {"work"}
      BY Stages DEF ResumePc
    <2>4. pm.at # "enter" /\ t # "enter"
      BY <2>1, <2>2, <2>3 DEF ResumePc
    <2>5. PmType' /\ pm'.op = "resume" /\ pm'.i = pm.i /\ pm'.at = t
      BY <1>0, <2>1, <2>2, PmGoes
    <2>6. pm.i = Intfs /\ count = 0 /\ suspending
      BY <2>1, <2>3, <2>4 DEF Balanced, ComingUp
    <2> QED BY <1>0, <2>1, <2>2, <2>3, <2>5, <2>6 DEF Balanced, AtRest, GoingDown, ComingUp
  <1>13. CASE Frames
    BY <1>13 DEF Frames, Balanced, PmType, AtRest, GoingDown, ComingUp
  <1> QED BY <1>1, <1>2, <1>3, <1>4, <1>5, <1>6, <1>7, <1>8, <1>9, <1>10, <1>11, <1>12, <1>13,
             Phases DEF Suspend, Resume
-----------------------------------------------------------------------------
(* AutoSuspendQuiet needs the window: from BTUSB_SUSPENDING on, which an   *)
(* autosuspend sets only with nothing in flight, until the device sleeps,  *)
(* nobody counts a frame.                                                  *)
Quiet ==
    /\ out \in Nat /\ leaks \in Nat /\ deferred \in Nat
    /\ inflight = out + leaks + (IF sender = "submit" THEN 1 ELSE 0)
    /\ asleep = "auto" => inflight = 0
    /\ pm.op = "suspend" /\ pm.auto /\ suspending => inflight = 0

(* A resume ends awake and suspends nobody.                                *)
LEMMA ResumeStays ==
  ASSUME Balanced, Resume
  PROVE  pm'.op \in {"none", "resume"} /\ asleep' = "no"
  <1> USE SomeIntfs
  <1>0. PmType
    BY DEF Balanced
  <1>1. CASE ResumeBegin
    <2>1. asleep' = "no" /\ pm' = [Rest EXCEPT !.op = "resume", !.auto = (asleep = "auto"), !.i = 1, !.at = "enter"]
      BY <1>1 DEF ResumeBegin
    <2> QED BY <2>1 DEF Rest
  <1>2. ASSUME pm.op = "resume", UNCHANGED asleep,
               NextUp \/ \E t : pm' = [pm EXCEPT !.at = t]
        PROVE  pm'.op \in {"none", "resume"} /\ asleep' = "no"
    BY <1>0, <1>2, PmUp, PmGoes DEF Balanced
  <1>3. CASE ResumeEnter
    BY <1>2, <1>3 DEF ResumeEnter
  <1>4. CASE ResumePlay \/ ResumeWork \/ ResumeFailed \/ ResumeDone
    BY <1>2, <1>4 DEF ResumePlay, ResumeWork, ResumeFailed, ResumeDone
  <1>5. ASSUME NEW k \in Kinds, ResumeTest(k) \/ ResumePost(k)
        PROVE  pm'.op \in {"none", "resume"} /\ asleep' = "no"
    BY <1>2, <1>5 DEF ResumeTest, ResumePost, ResumeAs
  <1> QED BY <1>1, <1>3, <1>4, <1>5 DEF Resume

(* What happens to the frames when no suspend or resume is at work.        *)
LEMMA Frame ==
  ASSUME MtkNext
  PROVE  \/ \E auto \in BOOLEAN : SuspendBegin(auto)
         \/ Suspend \/ Resume
         \/ /\ Frames
            /\ \/ UNCHANGED <<sender, inflight, out, leaks>>
               \/ SendTest /\ UNCHANGED <<out, leaks>>
               \/ SendSubmit
               \/ {sender, sender'} \subseteq {"idle", "defer", "wake"} /\ UNCHANGED <<inflight, out, leaks>>
               \/ (TxDone \/ KillTx) /\ UNCHANGED <<sender, leaks>>
  <1> USE DEF power, tx, history, Frames
  <1>1. CASE UsbNext
    BY <1>1 DEF UsbNext, OpenGet, OpenIntr, OpenBulk, SetRunning, CloseCancel, CloseStop,
      CloseEnd, Send, SendFrame, SendSubmit, SendDefer, SendWake, WakerStart, WakerGet,
      AclUp, AclDown, ScoChange, Work, WorkStart, WorkGet, WorkSwitch, Switch, WorkPost, WorkStop,
      IsocData, IntrComplete, BulkComplete, IsocComplete, IsoPktComplete, Gone
  <1>2. CASE DeviceGets \/ FrameGone \/ Wmt
    BY <1>2 DEF DeviceGets, FrameGone, Wmt, WmtGet, WmtSend, WmtUrb, WmtTimeout, WmtParse, Parse,
      RecvTest, RecvClear, RecvGone, usb, vars
  <1>3. CASE Setup \/ Shutdown
    BY <1>3 DEF Setup, SetupId, SetupAsk, SetupQueried, SetupSent, SetupFunc, SetupReg, SetupIso,
      SetupIsoCmd, SetupFailed, Answered, CloseBegin, usb, vars, Shutdown, ShutdownBegin, ShutdownAsk,
      ShutdownTold, ShutdownEnd, ShutdownClose
  <1>4. CASE Reset
    BY <1>4 DEF Reset, DumpPacket, DumpEnd, ResetBegin, ResetGet, ResetStop, ResetEnd, UsbReset,
      Disconnect, CloseBegin, usb, vars
  <1> QED BY <1>1, <1>2, <1>3, <1>4 DEF MtkNext

(* Every step keeps the frames counted, and none is counted in the window. *)
LEMMA QuietStep ==
  ASSUME Balanced, Quiet, MtkNext, deferred' \in Nat
  PROVE  Quiet'
  <1> USE SomeIntfs
  <1>0. PmType /\ count \in Nat /\ suspending \in BOOLEAN /\ pm.i \in Nat /\ pm.auto \in BOOLEAN
    BY DEF Balanced, PmType
  <1>1. ASSUME NEW auto \in BOOLEAN, SuspendBegin(auto)
        PROVE  Quiet'
    BY <1>1 DEF SuspendBegin, Balanced, AtRest, Quiet, tx, history
  <1>2. CASE SuspendEnter
    <2>1. pm.op = "suspend" /\ asleep = "no" /\ UNCHANGED <<asleep, tx, leaks>> /\ pm.i > 0
      BY <1>2 DEF SuspendEnter, Enter, Balanced, GoingDown, history
    <2>2. CASE Refused
      BY <1>0, <2>1, <2>2, PmRefused DEF Quiet, tx
    <2>3. CASE NextDown /\ UNCHANGED suspending
      BY <1>0, <2>1, <2>3, PmDown DEF Quiet, tx
    <2>4. CASE pm' = [pm EXCEPT !.at = "cancel"] /\ ~(pm.auto /\ inflight > 0)
      BY <1>0, <2>1, <2>4, PmGoes DEF Quiet, tx
    <2> QED BY <1>2, <2>2, <2>3, <2>4 DEF SuspendEnter, Enter
  <1>3. CASE SuspendCancel
    BY <1>0, <1>3, PmGoes DEF SuspendCancel, Quiet, tx, history
  <1>4. CASE SuspendKill
    <2>1. PmType' /\ pm'.op = pm.op /\ pm'.auto = pm.auto
      BY <1>0, <1>4, PmDown DEF SuspendKill, Balanced, GoingDown
    <2> QED BY <1>4, <2>1 DEF SuspendKill, KillTx, Quiet, history
  <1>5. CASE SuspendEnd
    <2>1. pm'.op = "none"
      BY <1>5 DEF SuspendEnd, Rest
    <2>2. pm.auto => inflight = 0
      BY <1>5 DEF SuspendEnd, Balanced, GoingDown, Quiet
    <2> QED BY <1>5, <2>1, <2>2 DEF SuspendEnd, KillTx, Quiet, history
  <1>6. CASE Resume
    <2>1. asleep' = "no" /\ pm'.op # "suspend"
      BY <1>6, ResumeStays
    <2>2. UNCHANGED <<sender, inflight, out, leaks>> \/ ResumePlay
      BY <1>6 DEF Resume, ResumeBegin, ResumeEnter, ResumeWork, ResumeFailed, ResumeDone,
                  ResumeTest, ResumePost, ResumeAs, tx, history
    <2> QED BY <2>1, <2>2 DEF ResumePlay, Quiet, history
  <1>7. CASE Frames /\ UNCHANGED <<sender, inflight, out, leaks>>
    BY <1>7 DEF Frames, Quiet
  <1>8. CASE Frames /\ SendTest /\ UNCHANGED <<out, leaks>>
    BY <1>0, <1>8 DEF Frames, Quiet, SendTest, Balanced, AtRest
  <1>9. CASE Frames /\ SendSubmit
    BY <1>9 DEF Frames, Quiet, SendSubmit
  <1>10. CASE /\ Frames /\ {sender, sender'} \subseteq {"idle", "defer", "wake"}
              /\ UNCHANGED <<inflight, out, leaks>>
    BY <1>10 DEF Frames, Quiet
  <1>11. CASE Frames /\ (TxDone \/ KillTx) /\ UNCHANGED <<sender, leaks>>
    BY <1>11 DEF Frames, Quiet, TxDone, KillTx
  <1> QED BY <1>1, <1>2, <1>3, <1>4, <1>5, <1>6, <1>7, <1>8, <1>9, <1>10, <1>11, Frame DEF Suspend
-----------------------------------------------------------------------------
(* The HCI core's open, before it lets frames through.                     *)
Opening == {"open_intr", "open_bulk", "opened"}
(* Which states of the HCI core go with a command under way, with a sender *)
(* inside the driver and with deferred frames.                             *)
Course ==
    /\ cmd.at # "idle" => \/ hci = "setup" /\ plan.at \in {"query", "block", "func"}
                          \/ hci = "shutdown" /\ plan.at = "off"
    /\ sender # "idle" => HciRunning
    /\ hci \in {"down"} \cup Opening => deferred = 0

(* Every step keeps to the course.                                         *)
LEMMA CourseStep ==
  ASSUME Course, MtkNext
  PROVE  Course'
  <1> USE DEF Course, HciRunning, Opening, rx, tx, power, history, wmt, mvars, usb, vars
  <1>1. CASE UsbNext /\ UNCHANGED mvars
    <2>1. CASE OpenGet \/ OpenIntr \/ OpenBulk \/ SetRunning
      BY <1>1, <2>1 DEF OpenGet, OpenIntr, OpenBulk, SetRunning, OpenFail
    <2>2. CASE CloseCancel \/ CloseStop \/ CloseEnd
      BY <1>1, <2>2 DEF CloseCancel, CloseStop, CloseEnd
    <2>3. CASE Send \/ WakerStart \/ WakerGet
      BY <1>1, <2>3 DEF Send, SendFrame, SendTest, SendSubmit, SendDefer, SendWake, WakerStart, WakerGet
    <2>4. CASE AclUp \/ AclDown \/ ScoChange \/ Work \/ IsocData
      BY <1>1, <2>4 DEF AclUp, AclDown, ScoChange, IsocData, Work, WorkStart, WorkGet, WorkSwitch,
                        Switch, WorkPost, WorkStop
    <2>5. CASE IntrComplete \/ BulkComplete \/ IsocComplete \/ IsoPktComplete
      BY <1>1, <2>5 DEF IntrComplete, BulkComplete, IsocComplete, IsoPktComplete, Gone
    <2>6. CASE (\E auto \in BOOLEAN : SuspendBegin(auto)) \/ Suspend
      BY <1>1, <2>6 DEF SuspendBegin, Suspend, SuspendEnter, Enter, SuspendCancel, SuspendKill, SuspendEnd
    <2>7. CASE Resume
      BY <1>1, <2>7 DEF Resume, ResumeBegin, ResumeEnter, ResumePlay, ResumeWork, ResumeFailed,
                        ResumeDone, ResumeTest, ResumePost, ResumeAs
    <2> QED BY <1>1, <2>1, <2>2, <2>3, <2>4, <2>5, <2>6, <2>7 DEF UsbNext
  <1>2. CASE DeviceGets \/ FrameGone
    BY <1>2 DEF DeviceGets, FrameGone
  <1>3. CASE WmtGet \/ WmtSend \/ WmtUrb \/ WmtTimeout
    BY <1>3 DEF WmtGet, WmtSend, WmtUrb, WmtTimeout, SendTest
  <1>4. CASE WmtParse \/ RecvTest \/ RecvClear \/ RecvGone
    BY <1>4 DEF WmtParse, Parse, RecvTest, RecvClear, RecvGone
  <1>5. CASE SetupId \/ SetupAsk \/ SetupQueried \/ SetupSent \/ SetupFunc
    BY <1>5 DEF SetupId, SetupAsk, Begin, Step, SetupQueried, SetupSent, SetupFunc, Answered, Idle
  <1>6. CASE SetupReg \/ SetupIso \/ SetupIsoCmd \/ SetupFailed
    BY <1>6 DEF SetupReg, SetupIso, SetupIsoCmd, SetupFailed, CloseBegin, Step
  <1>7. CASE Shutdown
    BY <1>7 DEF Shutdown, ShutdownBegin, ShutdownAsk, ShutdownTold, ShutdownEnd, ShutdownClose,
                CloseBegin, Begin, Over, Idle
  <1>8. CASE Reset
    BY <1>8 DEF Reset, DumpPacket, DumpEnd, ResetBegin, ResetGet, ResetStop, ResetEnd, UsbReset,
                Disconnect, CloseBegin
  <1> QED BY <1>1, <1>2, <1>3, <1>4, <1>5, <1>6, <1>7, <1>8 DEF MtkNext, Wmt, Setup
-----------------------------------------------------------------------------
(* DeferredHasWaker, and what it rests on: a frame that is not stranded is *)
(* deferred under BTUSB_SUSPENDING, and before resume is done.             *)
Woken ==
    /\ deferred \in Nat /\ waker \subseteq {"queued", "get"}
    /\ sender \in {"idle", "submit", "defer", "wake"}
    /\ deferred > 0 /\ ~stranded /\ HciRunning => suspending /\ pm.at # "done"
    /\ DeferredHasWaker

(* Every step leaves a deferred frame somebody to wake the device: the     *)
(* sender until it has queued the waker, the waker until it has a          *)
(* reference, the resume until it has played the list.                     *)
LEMMA WokenStep ==
  ASSUME Balanced, Course, Woken, MtkNext
  PROVE  Woken'
  <1> USE SomeIntfs
  <1>0. PmType /\ count \in Nat /\ suspending \in BOOLEAN /\ pm.i \in Nat /\ pm.auto \in BOOLEAN
    BY DEF Balanced, PmType
  <1>1. CASE UsbNext /\ UNCHANGED mvars
    <2> USE DEF Woken, DeferredHasWaker, HciRunning, rx, tx, power, history
    <2>1. CASE OpenGet \/ OpenIntr \/ OpenBulk \/ SetRunning
      <3>1. hci \in {"down"} \cup Opening /\ UNCHANGED <<pm, asleep, suspending, tx, stranded>>
        BY <2>1 DEF OpenGet, OpenIntr, OpenBulk, SetRunning, OpenFail, Opening
      <3>2. deferred = 0
        BY <3>1 DEF Course
      <3> QED BY <3>1, <3>2
    <2>2. CASE CloseCancel \/ CloseStop \/ CloseEnd
      <3>1. CASE CloseEnd
        <4>1. deferred' = 0 /\ stranded' = FALSE /\ UNCHANGED <<sender, waker>>
          BY <3>1 DEF CloseEnd
        <4>2. deferred' \in Nat /\ ~(deferred' > 0)
          BY <4>1
        <4> QED BY <4>1, <4>2
      <3>2. CASE CloseCancel \/ CloseStop
        <4>1. /\ hci' \in {"close_stop", "close_put"} /\ UNCHANGED <<sender, deferred, stranded>>
              /\ waker' = waker \/ waker' = {}
          BY <3>2 DEF CloseCancel, CloseStop
        <4>2. ~HciRunning'
          BY <4>1
        <4> QED BY <4>1, <4>2
      <3> QED BY <2>2, <3>1, <3>2
    <2>3. CASE SendFrame \/ SendSubmit \/ SendWake \/ WakerStart
      BY <2>3 DEF SendFrame, SendTest, SendSubmit, SendWake, WakerStart
    <2>4. CASE SendDefer
      <3>1. /\ sender' = "wake" /\ deferred' = deferred + 1 /\ UNCHANGED <<hci, pm, asleep, suspending, waker>>
            /\ stranded' = (stranded \/ ~suspending \/ pm.at = "done")
        BY <2>4 DEF SendDefer
      <3>2. deferred' \in Nat
        BY <3>1
      <3>3. ~stranded' => suspending' /\ pm'.at # "done"
        BY <3>1
      <3> QED BY <3>1, <3>2, <3>3
    <2>5. CASE WakerGet
      <3>1. CASE ~GetOk
        <4>1. /\ stranded' = (deferred > 0) /\ waker' = waker \ {"get"}
              /\ UNCHANGED <<hci, pm, asleep, suspending, sender, deferred>>
          BY <2>5, <3>1 DEF WakerGet
        <4>2. ~stranded' => ~(deferred' > 0)
          BY <4>1
        <4> QED BY <4>1, <4>2
      <3>2. CASE GetOk
        <4>1. asleep # "auto" /\ ~(pm.op # "none" /\ pm.auto)
          BY <3>2 DEF GetOk
        <4>2. pm.op = "none" /\ asleep = "no" => ~suspending
          BY DEF Balanced, AtRest
        <4>3. UNCHANGED <<hci, pm, asleep, count, suspending, sender, deferred>> /\ waker' = waker \ {"get"}
              /\ (stranded' = stranded \/ (stranded' = (deferred > 0)))
          BY <2>5 DEF WakerGet
        <4>4. pm.op \in {"none", "suspend", "resume"} /\ asleep \in {"no", "auto", "system"}
          BY DEF Balanced
        <4>5. CASE stranded' = (deferred > 0)
          <5>1. ~stranded' => ~(deferred' > 0)
            BY <4>3, <4>5
          <5> QED BY <4>3, <5>1
        <4>6. CASE stranded' = stranded
          <5>1. CASE pm.op = "none" /\ asleep = "no"
            BY <4>2, <4>3, <4>6, <5>1
          <5>2. CASE ~(pm.op = "none" /\ asleep = "no")
            BY <4>1, <4>3, <4>4, <4>6, <5>2
          <5> QED BY <5>1, <5>2
        <4> QED BY <4>3, <4>5, <4>6
      <3> QED BY <3>1, <3>2
    <2>6. CASE AclUp \/ AclDown \/ ScoChange \/ Work \/ IsocData
      BY <2>6 DEF AclUp, AclDown, ScoChange, IsocData, Work, WorkStart, WorkGet, WorkSwitch,
                  Switch, WorkPost, WorkStop
    <2>7. CASE IntrComplete \/ BulkComplete \/ IsocComplete \/ IsoPktComplete
      BY <2>7 DEF IntrComplete, BulkComplete, IsocComplete, IsoPktComplete, Gone
    <2>8. ASSUME NEW auto \in BOOLEAN, SuspendBegin(auto)
          PROVE  Woken'
      BY <2>8 DEF SuspendBegin, Balanced, AtRest
    <2>9. CASE SuspendEnter
      <3>1. /\ pm.op = "suspend" /\ pm.at = "enter" /\ pm.i > 0 /\ UNCHANGED <<hci, asleep, tx, stranded>>
            /\ asleep = "no" /\ (pm.i = Intfs => ~suspending)
        BY <2>9 DEF SuspendEnter, Enter, Balanced, GoingDown
      <3>2. CASE Refused /\ UNCHANGED suspending
        <4>1. CASE pm.i = Intfs
          BY <3>1, <3>2, <4>1
        <4>2. CASE pm.i # Intfs
          <5>1. pm'.op = "resume" /\ pm'.at = "enter"
            BY <1>0, <3>2, <4>2, PmRefused
          <5> QED BY <3>1, <3>2, <5>1
        <4> QED BY <4>1, <4>2
      <3>3. CASE NextDown /\ UNCHANGED suspending
        <4>1. pm'.op = "suspend" /\ pm'.auto = pm.auto /\ pm'.at # "done"
          BY <1>0, <3>1, <3>3, PmDown
        <4> QED BY <3>1, <3>3, <4>1
      <3>4. CASE pm' = [pm EXCEPT !.at = "cancel"] /\ suspending' = TRUE
        <4>1. pm'.op = "suspend" /\ pm'.auto = pm.auto /\ pm'.at # "done"
          BY <1>0, <3>1, <3>4, PmGoes
        <4> QED BY <3>1, <3>4, <4>1
      <3> QED BY <2>9, <3>2, <3>3, <3>4 DEF SuspendEnter, Enter
    <2>10. CASE SuspendCancel
      <3>1. pm'.op = pm.op /\ pm'.auto = pm.auto /\ pm'.at = "kill"
        BY <1>0, <2>10, PmGoes DEF SuspendCancel
      <3> QED BY <2>10, <3>1 DEF SuspendCancel
    <2>11. CASE SuspendKill
      <3>1. pm'.op = pm.op /\ pm'.auto = pm.auto /\ pm'.at # "done"
        BY <1>0, <2>11, PmDown DEF SuspendKill, Balanced, GoingDown
      <3> QED BY <2>11, <3>1 DEF SuspendKill
    <2>12. CASE SuspendEnd
      <3>1. pm'.op = "none" /\ pm'.at = "none" /\ suspending
        BY <2>12, PmRests DEF SuspendEnd, Balanced, GoingDown
      <3>2. /\ UNCHANGED <<hci, suspending, sender, deferred, waker, stranded>>
            /\ asleep' = IF pm.auto THEN "auto" ELSE "system"
            /\ pm.op = "suspend" /\ asleep = "no"
        BY <2>12 DEF SuspendEnd, Balanced
      <3>3. CASE pm.auto
        <4>1. deferred > 0 /\ ~stranded => waker # {} \/ sender = "wake" \/ ~HciRunning
          BY <3>1, <3>2, <3>3
        <4> HIDE DEF HciRunning
        <4>2. HciRunning' = HciRunning
          BY <3>2 DEF HciRunning
        <4> QED BY <3>1, <3>2, <4>1, <4>2
      <3>4. CASE ~pm.auto
        BY <3>1, <3>2, <3>4
      <3> QED BY <3>3, <3>4
    <2>13. CASE ResumeBegin
      <3>1. pm'.op = "resume" /\ pm'.at = "enter" /\ suspending
        BY <2>13 DEF ResumeBegin, Rest, Balanced, AtRest
      <3> QED BY <2>13, <3>1 DEF ResumeBegin
    <2>14. CASE ResumeEnter
      <3>1. pm.op = "resume" /\ suspending /\ UNCHANGED <<hci, suspending, asleep, tx, stranded>>
            /\ count = Intfs - pm.i + 1 /\ pm.i \in 1 .. Intfs
        BY <2>14 DEF ResumeEnter, Balanced, ComingUp, ResumePc
      <3>2. CASE NextUp /\ count > 1
        <4>1. pm'.op = "resume" /\ pm'.at = "enter"
          <5>1. pm.i # Intfs
            BY <3>1, <3>2
          <5> QED BY <1>0, <3>1, <3>2, <5>1, PmUp
        <4> QED BY <3>1, <4>1
      <3>3. CASE pm' = [pm EXCEPT !.at = "intr"]
        <4>1. pm'.op = "resume" /\ pm'.at = "intr"
          BY <1>0, <3>1, <3>3, PmGoes
        <4> QED BY <3>1, <4>1
      <3>4. CASE ~HciRunning
        BY <3>1, <3>4
      <3> QED BY <2>14, <3>2, <3>3, <3>4 DEF ResumeEnter
    <2>15. CASE ResumePlay
      <3>1. deferred' = 0 /\ stranded' = FALSE /\ UNCHANGED <<sender, waker>>
        BY <2>15 DEF ResumePlay
      <3>2. deferred' \in Nat /\ ~(deferred' > 0)
        BY <3>1
      <3> QED BY <3>1, <3>2
    <2>16. CASE ResumeFailed
      <3>1. deferred' = 0 /\ stranded' = FALSE /\ UNCHANGED <<sender, waker>>
        BY <2>16 DEF ResumeFailed
      <3>2. deferred' \in Nat /\ ~(deferred' > 0)
        BY <3>1
      <3> QED BY <3>1, <3>2
    <2>17. CASE ResumeWork \/ ResumeDone
      BY <2>17 DEF ResumeWork, ResumeDone, Balanced, ComingUp
    <2>18. ASSUME NEW k \in Kinds, ResumeTest(k) \/ ResumePost(k)
           PROVE  Woken'
      <3>1. PICK t \in {Posting[k], After[k], "failed"} : pm' = [pm EXCEPT !.at = t]
        BY <2>18 DEF ResumeTest, ResumePost, ResumeAs
      <3>2. pm'.op = pm.op /\ pm'.at = t /\ t # "done"
        BY <1>0, <3>1, PmGoes, Stages
      <3>3. pm.op = "resume" /\ UNCHANGED <<hci, asleep, count, suspending, tx, stranded>>
        BY <2>18 DEF ResumeTest, ResumePost, ResumeAs
      <3>4. pm.at \in {k, Posting[k]} /\ pm.at # "work"
        BY <2>18, Stages DEF ResumeTest, ResumePost, ResumeAs
      <3>5. suspending
        BY <3>3, <3>4, Stages DEF Balanced, ComingUp
      <3> QED BY <3>2, <3>3, <3>5
    <2> QED BY <1>1, <2>1, <2>2, <2>3, <2>4, <2>5, <2>6, <2>7, <2>8, <2>9, <2>10, <2>11, <2>12, <2>13,
               <2>14, <2>15, <2>16, <2>17, <2>18 DEF UsbNext, Send, Suspend, Resume
  <1>2. ASSUME UNCHANGED <<hci, pm, asleep, count, suspending, sender, deferred, waker, stranded>>
        PROVE  Woken'
    BY <1>2 DEF Woken, DeferredHasWaker, HciRunning
  <1>3. CASE DeviceGets \/ FrameGone \/ Wmt
    <2>1. CASE WmtSend
      BY <2>1 DEF WmtSend, SendTest, Woken, DeferredHasWaker, HciRunning, rx, iso
    <2>2. CASE ~WmtSend
      <3>1. UNCHANGED <<hci, pm, asleep, count, suspending, sender, deferred, waker, stranded>>
        BY <1>3, <2>2 DEF DeviceGets, FrameGone, Wmt, WmtGet, WmtUrb, WmtTimeout, WmtParse, Parse, RecvTest,
           RecvClear, RecvGone, usb, vars, tx, power, history
      <3> QED BY <1>2, <3>1
    <2> QED BY <2>1, <2>2
  <1>4. CASE Setup \/ Shutdown \/ Reset
    <2>1. UNCHANGED <<pm, asleep, count, suspending, sender, deferred, waker, stranded>>
      BY <1>4 DEF Setup, SetupId, SetupAsk, SetupQueried, SetupSent, SetupFunc, SetupReg, SetupIso,
        SetupIsoCmd, SetupFailed, Answered, CloseBegin, usb, vars, Shutdown, ShutdownBegin, ShutdownAsk,
        ShutdownTold, ShutdownEnd, ShutdownClose, Reset, DumpPacket, DumpEnd, ResetBegin, ResetGet, ResetStop,
        ResetEnd, UsbReset, Disconnect, power, tx, history
    <2>2. hci' = hci \/ hci' = "closing" \/ HciRunning
      BY <1>4 DEF Setup, SetupId, SetupAsk, SetupQueried, SetupSent, SetupFunc, SetupReg, SetupIso,
        SetupIsoCmd, SetupFailed, Answered, CloseBegin, usb, vars, Shutdown, ShutdownBegin, ShutdownAsk,
        ShutdownTold, ShutdownEnd, ShutdownClose, Reset, DumpPacket, DumpEnd, ResetBegin, ResetGet, ResetStop,
        ResetEnd, UsbReset, Disconnect, Step, HciRunning
    <2>3. HciRunning' \in BOOLEAN
      BY DEF HciRunning
    <2> QED BY <2>1, <2>2 DEF Woken, DeferredHasWaker, HciRunning
  <1> QED BY <1>1, <1>3, <1>4 DEF MtkNext
-----------------------------------------------------------------------------
(* Nothing is left to queue the work: no suspend to be undone, or a resume *)
(* that failed.                                                            *)
Calm == (~suspending /\ pm.at # "work") \/ pm.at \in {"failed", "done"}

(* The types that the work's invariant needs.                              *)
IsoType ==
    /\ run \in [Kinds -> BOOLEAN] /\ load \in Loads
    /\ links.sco \in Nat /\ links = [acl |-> links.acl, sco |-> links.sco]
    /\ work = [queued |-> work.queued, at |-> work.at]
(* A device that is not open has no work, no SCO link and no URB of the    *)
(* kind; resume posts only while HCI_RUNNING.                              *)
IsoOff ==
    /\ hci \in {"down", "close_stop", "close_put"} \cup Opening => work.at = "idle" /\ ~work.queued
    /\ hci \notin {"up", "shutdown"} => links.sco = 0
    /\ hci \in {"down", "close_put"} \cup Opening => ~run["isoc"]
    /\ pm.at \in ResumePc \ {"done"} => HciRunning
    /\ hci \in Opening \cup {"closing", "close_stop"} => pm.op = "none"
    /\ hci \in Opening => asleep = "no"
(* Where the work is agrees with the links it read, unless they changed    *)
(* since, which queued it again.                                           *)
IsoWork ==
    ~work.queued => /\ work.at \in {"get", "alt"} => links.sco > 0
                    /\ work.at = "start" => links.sco > 0 /\ alt = AltFor(links.sco)
                    /\ work.at = "stop" => links.sco = 0
(* IsoFollowsLinks over every state in which nothing is left to queue the  *)
(* work: it covers the suspends and resumes between.                       *)
IsoOn ==
    hci \in {"setup", "up"} /\ Calm /\ ~work.queued /\ work.at = "idle" /\ "isoc" \notin lost =>
      /\ run["isoc"] <=> links.sco > 0
      /\ links.sco > 0 => alt = AltFor(links.sco)
(* While the kind runs the interface has an endpoint, and a fragment       *)
(* arrived under its setting.                                              *)
IsoFragment ==
    /\ run["isoc"] => alt # 0
    /\ frag # 0 /\ alt # 0 => frag = alt
(* The isochronous interface and the SCO links.                            *)
Iso == IsoType /\ IsoOff /\ IsoWork /\ IsoOn /\ IsoFragment

(* A link never selects the setting without an endpoint.                   *)
LEMMA AltForSome ==
  ASSUME NEW n \in Nat, n > 0
  PROVE  AltFor(n) # 0
  BY DEF AltFor

(* The bounds of a behaviour do not change.                                *)
LEMMA LoadStep ==
  ASSUME MtkNext
  PROVE  UNCHANGED load
  <1> USE DEF history
  <1>1. CASE UsbNext
    BY <1>1 DEF UsbNext, OpenGet, OpenIntr, OpenBulk, SetRunning, CloseCancel, CloseStop,
      CloseEnd, Send, SendFrame, SendSubmit, SendDefer, SendWake, WakerStart, WakerGet,
      AclUp, AclDown, ScoChange, Work, WorkStart, WorkGet, WorkSwitch, Switch, WorkPost, WorkStop,
      IsocData, IntrComplete, BulkComplete, IsocComplete, IsoPktComplete, Gone, SuspendBegin, Suspend,
      SuspendEnter, Enter, SuspendCancel, SuspendKill, SuspendEnd, Resume, ResumeBegin, ResumeEnter,
      ResumePlay, ResumeWork, ResumeFailed, ResumeDone, ResumeTest, ResumePost, ResumeAs
  <1>2. CASE DeviceGets \/ FrameGone \/ Wmt
    BY <1>2 DEF DeviceGets, FrameGone, Wmt, WmtGet, WmtSend, WmtUrb, WmtTimeout, WmtParse, Parse,
      RecvTest, RecvClear, RecvGone, usb, vars
  <1>3. CASE Setup \/ Shutdown
    BY <1>3 DEF Setup, SetupId, SetupAsk, SetupQueried, SetupSent, SetupFunc, SetupReg, SetupIso,
      SetupIsoCmd, SetupFailed, Answered, CloseBegin, usb, vars, Shutdown, ShutdownBegin, ShutdownAsk,
      ShutdownTold, ShutdownEnd, ShutdownClose
  <1>4. CASE Reset
    BY <1>4 DEF Reset, DumpPacket, DumpEnd, ResetBegin, ResetGet, ResetStop, ResetEnd, UsbReset,
      Disconnect, CloseBegin, usb, vars
  <1> QED BY <1>1, <1>2, <1>3, <1>4 DEF MtkNext

(* A step that leaves the interface, the links and the work alone.         *)
LEMMA IsoSame ==
  ASSUME Iso, UNCHANGED <<hci, run, pm, asleep, suspending, links, work, alt, frag, load>>,
         "isoc" \in lost => "isoc" \in lost'
  PROVE  Iso'
  BY DEF Iso, IsoType, IsoOff, IsoWork, IsoOn, IsoFragment, Calm, HciRunning, AltFor

(* The start of a close, which drops the links.                            *)
LEMMA IsoClose ==
  ASSUME Balanced, Iso, NEW from \in {"setup", "up", "shutdown"}, CloseBegin(from)
  PROVE  Iso'
  <1>1. /\ hci' = "closing" /\ links' = [acl |-> FALSE, sco |-> 0] /\ frag' = 0 /\ pm.op = "none"
        /\ work' = [work EXCEPT !.queued = @ \/ links.sco > 0] /\ UNCHANGED <<run, pm, suspending, alt, load>>
    BY DEF CloseBegin, LinksDown, Awaited, rx, power, history
  <1>2. links'.sco = 0 /\ links' = [acl |-> links'.acl, sco |-> links'.sco]
    BY <1>1
  <1>3. work' = [queued |-> work'.queued, at |-> work'.at] /\ work'.at = work.at
        /\ (work'.queued <=> (work.queued \/ links.sco > 0))
    BY <1>1 DEF Iso, IsoType
  <1>4. pm.at = "none"
    BY <1>1 DEF Balanced, AtRest
  <1>5. IsoType'
    BY <1>1, <1>2, <1>3 DEF Iso, IsoType
  <1>6. IsoOff'
    BY <1>1, <1>2, <1>4 DEF Iso, IsoOff, Opening, ResumePc
  <1>7. IsoWork'
    BY <1>1, <1>2, <1>3 DEF Iso, IsoType, IsoWork
  <1>8. IsoOn' /\ IsoFragment'
    BY <1>1 DEF Iso, IsoOn, IsoFragment
  <1> QED BY <1>5, <1>6, <1>7, <1>8 DEF Iso

(* btusb_work, step by step.                                               *)
LEMMA IsoWorks ==
  ASSUME Balanced, Iso, Work
  PROVE  Iso'
  <1>0. run \in [Kinds -> BOOLEAN] /\ "isoc" \in Kinds /\ links.sco \in Nat /\ UNCHANGED <<hci, pm, asleep, suspending, links, load>>
    BY DEF Iso, IsoType, Kinds, Work, WorkStart, WorkGet, WorkSwitch, Switch, WorkPost, WorkStop, power, history
  <1>1. IsoType'
    <2>1. run' \in [Kinds -> BOOLEAN]
      BY <1>0 DEF Work, WorkStart, WorkGet, WorkSwitch, Switch, WorkPost, WorkStop, rx
    <2>2. work' = [queued |-> work'.queued, at |-> work'.at]
      BY DEF Iso, IsoType, Work, WorkStart, WorkGet, WorkSwitch, Switch, WorkPost, WorkStop
    <2> QED BY <1>0, <2>1, <2>2 DEF Iso, IsoType
  <1> USE DEF Iso, IsoType, HciRunning, Calm
  <1>2. IsoOff /\ (work.at # "idle" \/ work.queued)
    BY DEF Work, WorkStart, WorkGet, WorkSwitch, Switch, WorkPost, WorkStop
  <1>3. IsoOff'
    BY <1>0, <1>2 DEF IsoOff
  <1>4. CASE WorkStart
    <2>1. /\ work'.at = (IF links.sco = 0 THEN "stop" ELSE IF "iso" \in refs THEN "alt" ELSE "get")
          /\ UNCHANGED <<run, alt, frag, lost>>
      BY <1>4 DEF WorkStart, rx, history
    <2>2. IsoWork' /\ IsoOn' /\ IsoFragment'
      BY <1>0, <2>1 DEF IsoWork, IsoOn, IsoFragment
    <2> QED BY <1>1, <1>3, <2>2
  <1>5. CASE WorkGet
    <2>1. /\ work.at = "get" /\ work'.queued = work.queued /\ UNCHANGED <<alt, frag>>
          /\ \/ work'.at = "alt" /\ UNCHANGED <<run, lost>>
             \/ work'.at = "idle" /\ "isoc" \in lost' /\ run' = [run EXCEPT !["isoc"] = FALSE]
      BY <1>5 DEF WorkGet
    <2>2. IsoWork' /\ IsoOn' /\ IsoFragment'
      BY <1>0, <2>1 DEF IsoWork, IsoOn, IsoFragment
    <2> QED BY <1>1, <1>3, <2>2
  <1>6. CASE WorkSwitch
    <2>1. /\ work.at = "alt" /\ work'.queued = work.queued
          /\ \/ work'.at = "start" /\ alt = AltFor(links.sco) /\ UNCHANGED <<run, alt, frag, lost>>
             \/ /\ run' = [run EXCEPT !["isoc"] = FALSE] /\ frag' = 0
                /\ \/ work'.at = "start" /\ alt' = AltFor(links.sco)
                   \/ work'.at = "idle" /\ "isoc" \in lost' /\ UNCHANGED alt
      BY <1>6 DEF WorkSwitch, Switch
    <2>2. AltFor(links.sco)' = AltFor(links.sco)
      BY <1>0 DEF AltFor
    <2>3. IsoWork' /\ IsoOn' /\ IsoFragment'
      BY <1>0, <2>1, <2>2 DEF IsoWork, IsoOn, IsoFragment
    <2> QED BY <1>1, <1>3, <2>3
  <1>7. CASE WorkPost
    <2>1. /\ work.at = "start" /\ work'.queued = work.queued /\ work'.at = "idle" /\ UNCHANGED <<alt, frag>>
          /\ \/ (run["isoc"] \/ alt = 0) /\ UNCHANGED <<run, lost>>
             \/ run' = [run EXCEPT !["isoc"] = TRUE] /\ alt # 0
             \/ "isoc" \in lost' /\ UNCHANGED run
      BY <1>7 DEF WorkPost
    <2>2. AltFor(links.sco)' = AltFor(links.sco) /\ (links.sco > 0 => AltFor(links.sco) # 0)
      BY <1>0, AltForSome DEF AltFor
    <2>3. IsoWork' /\ IsoOn' /\ IsoFragment'
      BY <1>0, <2>1, <2>2 DEF IsoWork, IsoOn, IsoFragment
    <2> QED BY <1>1, <1>3, <2>3
  <1>8. CASE WorkStop
    <2>1. /\ work.at = "stop" /\ work'.queued = work.queued /\ work'.at = "idle" /\ UNCHANGED frag
          /\ run' = [run EXCEPT !["isoc"] = FALSE] /\ (alt' = 0 \/ UNCHANGED alt)
      BY <1>8 DEF WorkStop
    <2>2. IsoWork' /\ IsoOn' /\ IsoFragment'
      BY <1>0, <2>1 DEF IsoWork, IsoOn, IsoFragment
    <2> QED BY <1>1, <1>3, <2>2
  <1> QED BY <1>4, <1>5, <1>6, <1>7, <1>8 DEF Work

(* Suspend cancels the work, resume queues it.                             *)
LEMMA IsoPauses ==
  ASSUME Balanced, Iso, (\E auto \in BOOLEAN : SuspendBegin(auto)) \/ Suspend \/ Resume
  PROVE  Iso'
  <1> USE SomeIntfs
  <1>0. PmType /\ count \in Nat /\ suspending \in BOOLEAN /\ pm.i \in Nat /\ pm.auto \in BOOLEAN
    BY DEF Balanced, PmType
  <1>1. ASSUME UNCHANGED <<hci, run, links, work, alt, frag, lost, load>>,
               pm'.at \in ResumePc \ {"done"} => HciRunning,
               pm'.op # "none" => hci \notin Opening \cup {"closing", "close_stop"},
               hci \in Opening => asleep' = "no",
               hci \in {"setup", "up"} /\ Calm' => Calm
        PROVE  Iso'
    BY <1>1 DEF Iso, IsoType, IsoOff, IsoWork, IsoOn, IsoFragment, HciRunning, AltFor
  <1>2. ASSUME NEW auto \in BOOLEAN, SuspendBegin(auto)
        PROVE  Iso'
    <2>1. /\ UNCHANGED <<hci, run, links, work, alt, frag, lost, load, suspending>> /\ pm'.at = "enter"
          /\ hci \in {"up", "down", "setup"} /\ pm.op = "none"
      BY <1>2 DEF SuspendBegin, Rest, rx, iso, history
    <2> QED BY <1>1, <2>1 DEF Calm, ResumePc, Opening, Balanced, AtRest
  <1>3. CASE SuspendEnter
    <2>1. /\ pm.op = "suspend" /\ pm.at = "enter" /\ pm.i \in 1 .. Intfs /\ UNCHANGED <<hci, run, links, work, alt, frag, lost, load>>
          /\ UNCHANGED suspending \/ suspending'
      BY <1>3 DEF SuspendEnter, Enter, Balanced, GoingDown, rx, iso, history
    <2>2. pm'.at \in {"none", "enter", "flush", "cancel"}
      <3>1. CASE Refused
        BY <1>0, <3>1, PmRefused
      <3>2. CASE NextDown
        BY <1>0, <2>1, <3>2, PmDown
      <3>3. CASE pm' = [pm EXCEPT !.at = "cancel"]
        BY <1>0, <3>3, PmGoes
      <3> QED BY <1>3, <3>1, <3>2, <3>3 DEF SuspendEnter, Enter
    <2>3. hci \notin Opening \cup {"closing", "close_stop"}
      BY <2>1 DEF Iso, IsoOff
    <2>4. Calm' => Calm
      <3>1. CASE suspending'
        BY <2>2, <3>1 DEF Calm
      <3>2. CASE UNCHANGED suspending
        BY <2>1, <2>2, <3>2 DEF Calm
      <3> QED BY <2>1, <3>1, <3>2
    <2> QED BY <1>1, <2>1, <2>2, <2>3, <2>4 DEF ResumePc
  <1>4. CASE SuspendCancel
    <2>1. /\ pm.op = "suspend" /\ suspending /\ UNCHANGED <<hci, run, links, alt, frag, lost, load, suspending>>
          /\ work.at = "idle" /\ work'.queued = FALSE /\ work'.at = "idle" /\ work' = [queued |-> FALSE, at |-> "idle"]
      BY <1>4 DEF SuspendCancel, Balanced, GoingDown, Iso, IsoType, rx, history
    <2>2. pm'.at = "kill" /\ pm'.op = "suspend"
      BY <1>0, <1>4, PmGoes DEF SuspendCancel
    <2>3. hci \notin Opening \cup {"closing", "close_stop"}
      BY <2>1 DEF Iso, IsoOff
    <2> QED BY <2>1, <2>2, <2>3 DEF Iso, IsoType, IsoOff, IsoWork, IsoOn, IsoFragment, HciRunning, Calm, ResumePc
  <1>5. CASE SuspendKill
    <2>1. /\ pm.op = "suspend" /\ suspending /\ UNCHANGED <<hci, run, links, work, alt, frag, lost, load, suspending>>
          /\ pm.i > 0
      BY <1>5 DEF SuspendKill, Balanced, GoingDown, iso
    <2>2. pm'.at \in {"flush", "enter"} /\ pm'.op = "suspend"
      BY <1>0, <1>5, <2>1, PmDown DEF SuspendKill
    <2>3. hci \notin Opening \cup {"closing", "close_stop"}
      BY <2>1 DEF Iso, IsoOff
    <2> QED BY <1>1, <2>1, <2>2, <2>3 DEF Calm, ResumePc
  <1>6. CASE SuspendEnd
    <2>1. /\ suspending /\ UNCHANGED <<hci, run, links, work, alt, frag, load, suspending>>
          /\ lost \subseteq lost' /\ pm'.at = "none" /\ pm'.op = "none" /\ pm.op = "suspend"
      BY <1>6 DEF SuspendEnd, Balanced, GoingDown, iso, Rest
    <2>2. hci \notin Opening \cup {"closing", "close_stop"}
      BY <2>1 DEF Iso, IsoOff
    <2> QED BY <2>1, <2>2 DEF Iso, IsoType, IsoOff, IsoWork, IsoOn, IsoFragment, HciRunning, Calm, ResumePc
  <1>7. CASE ResumeBegin
    <2>1. /\ suspending /\ UNCHANGED <<hci, run, links, work, alt, frag, lost, load, suspending>>
          /\ hci \notin {"closing", "close_stop"} /\ pm'.at = "enter" /\ pm.op = "none"
      BY <1>7 DEF ResumeBegin, Balanced, AtRest, rx, iso, history, Rest, Closing
    <2>2. hci \notin Opening
      BY <1>7 DEF ResumeBegin, Iso, IsoOff
    <2> QED BY <1>1, <2>1, <2>2 DEF Calm, ResumePc
  <1>8. CASE ResumeEnter
    <2>1. /\ pm.op = "resume" /\ pm.at = "enter" /\ suspending /\ count = (Intfs - pm.i) + 1 /\ pm.i \in 1 .. Intfs
          /\ UNCHANGED <<hci, run, links, work, alt, frag, load, suspending>>
          /\ lost \subseteq lost'
      BY <1>8 DEF ResumeEnter, Balanced, ComingUp, ResumePc, rx, iso
    <2>2. hci \notin Opening \cup {"closing", "close_stop"}
      BY <2>1 DEF Iso, IsoOff
    <2>3. \/ pm'.at = "enter"
          \/ pm'.at = "intr" /\ HciRunning
          \/ pm'.at = "done" /\ ~HciRunning
      <3>1. CASE count > 1
        <4>1. pm.i # Intfs /\ NextUp
          BY <1>8, <2>1, <3>1 DEF ResumeEnter
        <4> QED BY <1>0, <4>1, PmUp
      <3>2. CASE ~(count > 1)
        BY <1>0, <1>8, <3>2, PmGoes DEF ResumeEnter
      <3> QED BY <3>1, <3>2
    <2> QED BY <2>1, <2>2, <2>3 DEF Iso, IsoType, IsoOff, IsoWork, IsoOn, IsoFragment, HciRunning, Calm, ResumePc
  <1>9. CASE ResumePlay
    <2>1. pm.op = "resume" /\ pm.at = "play" /\ UNCHANGED <<hci, run, links, work, alt, frag, lost, load>>
      BY <1>9 DEF ResumePlay, rx, iso
    <2>2. pm'.at = "work"
      BY <1>0, <1>9, PmGoes DEF ResumePlay
    <2>3. HciRunning /\ hci \notin Opening \cup {"closing", "close_stop"}
      BY <2>1 DEF Iso, IsoOff, ResumePc
    <2> QED BY <1>1, <2>1, <2>2, <2>3 DEF Calm
  <1>10. CASE ResumeWork
    <2>1. /\ pm.op = "resume" /\ pm.at = "work" /\ UNCHANGED <<hci, run, links, alt, frag, lost, load>>
          /\ work'.queued = TRUE /\ work'.at = work.at /\ work' = [queued |-> TRUE, at |-> work.at]
      BY <1>10 DEF ResumeWork, Iso, IsoType, rx, history
    <2>2. pm'.at \in {"none", "enter"}
      BY <1>0, <1>10, PmUp DEF ResumeWork
    <2>3. HciRunning /\ hci \notin Opening \cup {"closing", "close_stop"}
      BY <2>1 DEF Iso, IsoOff, ResumePc
    <2> QED BY <2>1, <2>2, <2>3 DEF Iso, IsoType, IsoOff, IsoWork, IsoOn, IsoFragment, HciRunning, Opening, ResumePc
  <1>11. CASE ResumeFailed
    <2>1. pm.op = "resume" /\ pm.at = "failed" /\ UNCHANGED <<hci, run, links, work, alt, frag, lost, load, suspending>>
      BY <1>11 DEF ResumeFailed, rx, iso
    <2>2. pm'.at = "done"
      BY <1>0, <1>11, PmGoes DEF ResumeFailed
    <2>3. hci \notin Opening \cup {"closing", "close_stop"}
      BY <2>1 DEF Iso, IsoOff
    <2> QED BY <1>1, <2>1, <2>2, <2>3 DEF Calm
  <1>12. CASE ResumeDone
    <2>1. pm.op = "resume" /\ pm.at = "done" /\ UNCHANGED <<hci, run, links, work, alt, frag, lost, load>>
      BY <1>12 DEF ResumeDone, rx, iso, history
    <2>2. pm'.at \in {"none", "enter"}
      BY <1>0, <1>12, PmUp DEF ResumeDone
    <2>3. hci \notin Opening \cup {"closing", "close_stop"}
      BY <2>1 DEF Iso, IsoOff
    <2> QED BY <1>1, <2>1, <2>2, <2>3 DEF Calm, ResumePc
  <1>13. ASSUME NEW k \in Kinds, ResumeTest(k) \/ ResumePost(k)
         PROVE  Iso'
    <2>1. PICK t \in {Posting[k], After[k], "failed"} : pm' = [pm EXCEPT !.at = t]
      BY <1>13 DEF ResumeTest, ResumePost, ResumeAs
    <2>2. pm'.op = pm.op /\ pm'.at = t
      BY <1>0, <2>1, PmGoes
    <2>3. pm.op = "resume" /\ UNCHANGED <<hci, suspending, links, work, alt, frag, load>>
      BY <1>13, LoadStep DEF ResumeTest, ResumePost, ResumeAs, iso, history
    <2>4. pm.at \in {k, Posting[k]} /\ pm.at \in ResumePc \ {"work", "done"}
      BY <1>13, Stages DEF ResumeTest, ResumePost, ResumeAs, ResumePc
    <2>5. suspending /\ HciRunning
      BY <2>3, <2>4 DEF Balanced, ComingUp, Iso, IsoOff, ResumePc
    <2>6. t \in ResumePc /\ t # "done" /\ (t = "failed" => "isoc" \in lost')
      <3>1. CASE t # "failed"
        BY <3>1, Stages DEF ResumePc
      <3>2. CASE t = "failed"
        <4>1. ResumePost(k) /\ k \in {"intr", "bulk"}
          BY <1>0, <1>13, <2>1, <2>2, <3>2, PmGoes, Stages DEF ResumeTest, ResumePost, ResumeAs
        <4>2. "isoc" \in lost'
          <5>1. pm'.at # After[k]
            BY <2>2, <3>2, Stages
          <5>2. pm' # [pm EXCEPT !.at = After[k]]
            BY <1>0, <5>1, PmGoes
          <5>3. lost' = lost \cup Kinds
            BY <4>1, <5>2 DEF ResumePost, ResumeAs
          <5> QED BY <5>3 DEF Kinds
        <4> QED BY <3>2, <4>2 DEF ResumePc
      <3> QED BY <3>1, <3>2
    <2>7. run' \in [Kinds -> BOOLEAN] /\ (run'["isoc"] => run["isoc"])
      <3>1. run \in [Kinds -> BOOLEAN] /\ "isoc" \in Kinds
        BY DEF Iso, IsoType, Kinds
      <3>2. run' = run \/ run' = [run EXCEPT ![k] = FALSE]
        BY <1>13 DEF ResumeTest, ResumePost, ResumeAs, rx
      <3> QED BY <3>1, <3>2
    <2>8. hci \notin Opening \cup {"closing", "close_stop"}
      BY <2>3 DEF Iso, IsoOff
    <2> QED BY <2>2, <2>3, <2>5, <2>6, <2>7, <2>8
            DEF Iso, IsoType, IsoOff, IsoWork, IsoOn, IsoFragment, HciRunning, Calm, AltFor
  <1> QED BY <1>2, <1>3, <1>4, <1>5, <1>6, <1>7, <1>8, <1>9, <1>10, <1>11, <1>12, <1>13 DEF Suspend, Resume

(* Every step keeps the isochronous interface with the links.              *)
LEMMA IsoStep ==
  ASSUME Balanced, Course, Iso, MtkNext
  PROVE  Iso'
  <1>0. /\ run \in [Kinds -> BOOLEAN] /\ "isoc" \in Kinds /\ links.sco \in Nat /\ UNCHANGED load
    BY LoadStep DEF Iso, IsoType, Kinds
  <1>1. ASSUME UNCHANGED <<pm, asleep, suspending, links, work, alt, frag>>,
               run' \in [Kinds -> BOOLEAN], run'["isoc"] = run["isoc"],
               "isoc" \in lost => "isoc" \in lost',
               \/ hci' = hci
               \/ hci \in {"setup", "up"} /\ hci' \in {"up", "shutdown"}
               \/ hci = "opened" /\ hci' = "setup"
        PROVE  Iso'
    BY <1>0, <1>1 DEF Iso, IsoType, IsoOff, IsoWork, IsoOn, IsoFragment, Calm, HciRunning, Opening, AltFor
  <1>2. ASSUME UNCHANGED <<pm, asleep, suspending, links, work, alt, frag>>,
               run' \in [Kinds -> BOOLEAN], run'["isoc"] = run["isoc"],
               \/ hci = "down" /\ hci' = "open_intr" /\ pm.op = "none" /\ asleep = "no"
               \/ hci \in {"open_intr", "open_bulk"} /\ hci' \in {"down"} \cup Opening
               \/ hci = "close_put" /\ hci' = "down"
        PROVE  Iso'
    BY <1>0, <1>2 DEF Iso, IsoType, IsoOff, IsoWork, IsoOn, IsoFragment, Calm, HciRunning, Opening, AltFor
  <1>3. CASE UsbNext
    <2>1. CASE OpenGet
      <3>1. /\ UNCHANGED <<run, pm, asleep, suspending, links, work, alt, frag>>
            /\ hci = "down" /\ hci' = "open_intr" /\ pm.op = "none" /\ asleep = "no"
        BY <2>1 DEF OpenGet, rx, iso
      <3> QED BY <1>0, <1>2, <3>1
    <2>2. CASE OpenIntr \/ OpenBulk
      <3>1. /\ UNCHANGED <<pm, asleep, suspending, links, work, alt, frag>>
            /\ hci \in {"open_intr", "open_bulk"} /\ hci' \in {"down"} \cup Opening
        BY <2>2 DEF OpenIntr, OpenBulk, OpenFail, iso, Opening
      <3>2. run' \in [Kinds -> BOOLEAN] /\ run'["isoc"] = run["isoc"]
        BY <2>2, <1>0 DEF OpenIntr, OpenBulk, OpenFail, Kinds
      <3> QED BY <3>1, <3>2, <1>2
    <2>3. CASE SetRunning
      BY <1>1, <2>3, <1>0 DEF SetRunning, rx, iso, power
    <2>4. CASE CloseCancel
      <3>1. /\ hci' = "close_stop" /\ UNCHANGED <<run, pm, asleep, suspending, links, alt, frag, lost>>
            /\ hci = "closing" /\ work.at = "idle" /\ work' = [queued |-> FALSE, at |-> "idle"]
        BY <2>4 DEF CloseCancel, rx, power, history, Iso, IsoType
      <3> QED BY <1>0, <3>1 DEF Iso, IsoType, IsoOff, IsoWork, IsoOn, IsoFragment, Calm, HciRunning, Opening, AltFor
    <2>5. CASE CloseStop
      <3>1. /\ hci' = "close_put" /\ UNCHANGED <<pm, asleep, suspending, links, work, alt>> /\ frag' = 0
            /\ hci = "close_stop" /\ run' \in [Kinds -> BOOLEAN] /\ ~run'["isoc"]
        BY <2>5, <1>0 DEF CloseStop, power, iso
      <3> QED BY <1>0, <3>1 DEF Iso, IsoType, IsoOff, IsoWork, IsoOn, IsoFragment, Calm, HciRunning, Opening, AltFor
    <2>6. CASE CloseEnd
      BY <1>2, <2>6, <1>0 DEF CloseEnd, rx, iso, power
    <2>7. CASE Send \/ WakerStart \/ WakerGet \/ AclUp
      <3>1. /\ UNCHANGED <<hci, run, pm, asleep, suspending, work, alt, frag, lost>>
            /\ UNCHANGED links \/ links' = [links EXCEPT !.acl = TRUE]
        BY <2>7 DEF Send, SendFrame, SendSubmit, SendDefer, SendWake, WakerStart, WakerGet, AclUp,
                    rx, power, history, iso
      <3>2. links'.sco = links.sco /\ links' = [acl |-> links'.acl, sco |-> links'.sco]
        BY <3>1 DEF Iso, IsoType
      <3> QED BY <1>0, <3>1, <3>2 DEF Iso, IsoType, IsoOff, IsoWork, IsoOn, IsoFragment, Calm, HciRunning, AltFor
    <2>8. CASE ScoChange
      <3>1. PICK n \in 0 .. load.sco : links' = [links EXCEPT !.sco = n]
        BY <2>8 DEF ScoChange
      <3>2. n \in Nat
        BY UsbAssumption DEF Iso, IsoType
      <3>3. links'.sco = n /\ links' = [acl |-> links'.acl, sco |-> links'.sco]
        BY <3>1 DEF Iso, IsoType
      <3>4. work'.queued /\ work'.at = work.at /\ work' = [queued |-> work'.queued, at |-> work'.at]
        BY <2>8 DEF ScoChange, Iso, IsoType
      <3>5. UNCHANGED <<hci, run, pm, asleep, suspending, alt, frag, lost>> /\ hci = "up"
        BY <2>8 DEF ScoChange, rx, power, history
      <3> QED BY <1>0, <3>2, <3>3, <3>4, <3>5 DEF Iso, IsoType, IsoOff, IsoWork, IsoOn, IsoFragment, HciRunning, Opening
    <2>9. CASE AclDown
      <3>1. /\ links' = [acl |-> FALSE, sco |-> 0] /\ work' = [work EXCEPT !.queued = @ \/ links.sco > 0]
            /\ UNCHANGED <<hci, run, pm, asleep, suspending, alt, frag, lost>> /\ hci = "up"
        BY <2>9 DEF AclDown, LinksDown, rx, power, history
      <3>2. links'.sco = 0 /\ links' = [acl |-> links'.acl, sco |-> links'.sco]
        BY <3>1
      <3>3. work' = [queued |-> work'.queued, at |-> work'.at] /\ work'.at = work.at
            /\ (work'.queued <=> (work.queued \/ links.sco > 0))
        BY <3>1 DEF Iso, IsoType
      <3>4. CASE links.sco > 0
        BY <1>0, <3>1, <3>2, <3>3, <3>4 DEF Iso, IsoType, IsoOff, IsoWork, IsoOn, IsoFragment, HciRunning, Opening
      <3>5. CASE links.sco = 0
        BY <1>0, <3>1, <3>2, <3>3, <3>5 DEF Iso, IsoType, IsoOff, IsoWork, IsoOn, IsoFragment, HciRunning, Opening, Calm
      <3> QED BY <1>0, <3>4, <3>5
    <2>10. CASE Work
      BY <2>10, IsoWorks
    <2>11. CASE IsocData
      BY <1>0, <2>11 DEF IsocData, rx, power, history, Iso, IsoType, IsoOff, IsoWork, IsoOn, IsoFragment, HciRunning, AltFor, Calm
    <2>12. CASE IntrComplete \/ BulkComplete \/ IsocComplete \/ IsoPktComplete
      <3>1. UNCHANGED <<hci, run, pm, asleep, suspending, links, work, alt, frag>> /\ lost \subseteq lost'
        BY <2>12 DEF IntrComplete, BulkComplete, IsocComplete, IsoPktComplete, Gone, power, iso
      <3> QED BY <1>0, <1>1, <3>1
    <2>13. CASE (\E auto \in BOOLEAN : SuspendBegin(auto)) \/ Suspend \/ Resume
      BY <2>13, IsoPauses
    <2> QED BY <1>3, <2>1, <2>2, <2>3, <2>4, <2>5, <2>6, <2>7, <2>8, <2>9, <2>10, <2>11, <2>12, <2>13 DEF UsbNext
  <1>4. CASE DeviceGets \/ FrameGone \/ Wmt
    <2>1. UNCHANGED <<hci, run, pm, asleep, suspending, links, work, alt, frag, lost>>
      BY <1>4 DEF DeviceGets, FrameGone, Wmt, WmtGet, WmtSend, WmtUrb, WmtTimeout, WmtParse, Parse,
        RecvTest, RecvClear, RecvGone, usb, vars, rx, power, iso, history
    <2> QED BY <1>0, <1>1, <2>1
  <1>5. CASE SetupFailed \/ ShutdownClose \/ Disconnect
    BY <1>5, IsoClose DEF SetupFailed, ShutdownClose, Disconnect
  <1>6. CASE SetupIsoCmd \/ ShutdownEnd \/ ResetStop
    <2>1. /\ UNCHANGED <<pm, asleep, suspending, links, work, alt, frag>>
          /\ hci' = hci \/ (hci = "setup" /\ hci' = "up")
      BY <1>6 DEF SetupIsoCmd, ShutdownEnd, ResetStop, Step, iso, power
    <2>2. run' \in [Kinds -> BOOLEAN] /\ run'["isoc"] = run["isoc"]
      BY <1>6, <1>0 DEF SetupIsoCmd, ShutdownEnd, ResetStop, ReleaseIso, Kinds
    <2>3. "isoc" \in lost => "isoc" \in lost'
      BY <1>6, <1>0 DEF SetupIsoCmd, ShutdownEnd, ResetStop, Kinds
    <2> QED BY <1>1, <2>1, <2>2, <2>3
  <1>7. CASE Setup /\ ~SetupIsoCmd /\ ~SetupFailed
    <2>1. /\ UNCHANGED <<run, pm, asleep, suspending, links, work, alt, frag, lost>>
          /\ hci' = hci \/ (hci = "setup" /\ hci' = "up")
      BY <1>7 DEF Setup, SetupId, SetupAsk, SetupQueried, SetupSent, SetupFunc, SetupReg, SetupIso,
        Answered, Step, usb, vars, rx, power, iso, history
    <2> QED BY <1>0, <1>1, <2>1
  <1>8. CASE ShutdownBegin \/ ShutdownAsk \/ ShutdownTold
    <2>1. /\ UNCHANGED <<run, pm, asleep, suspending, links, work, alt, frag, lost>>
          /\ hci' = hci \/ (hci = "up" /\ hci' = "shutdown")
      BY <1>8 DEF ShutdownBegin, ShutdownAsk, ShutdownTold, vars, rx, power, iso, history
    <2> QED BY <1>0, <1>1, <2>1
  <1>9. CASE Reset /\ ~ResetStop /\ ~Disconnect
    <2>1. UNCHANGED <<hci, run, pm, asleep, suspending, links, work, alt, frag, lost>>
      BY <1>9 DEF Reset, DumpPacket, DumpEnd, ResetBegin, ResetGet, ResetEnd, UsbReset, usb, vars, rx, power, iso, history
    <2> QED BY <1>0, <1>1, <2>1
  <1> QED BY <1>3, <1>4, <1>5, <1>6, <1>7, <1>8, <1>9 DEF MtkNext, Setup, Shutdown, Reset
-----------------------------------------------------------------------------
(* The steps of resume that come after the URBs of a kind were dealt with. *)
Beyond == [intr |-> ResumePc \ {"intr", "post intr"},
           bulk |-> ResumePc \ {"intr", "post intr", "bulk", "post bulk"},
           isoc |-> {"isopkt", "post isopkt", "play", "work", "failed", "done"},
           isopkt |-> {"play", "work", "failed", "done"}]

(* Types of the URBs, their bits and the setup's plan.                     *)
UrbType == /\ posted \in [Kinds -> Nat] /\ run \in [Kinds -> BOOLEAN]
           /\ plan = [at |-> plan.at, left |-> plan.left, retry |-> plan.retry]
(* No kind has more URBs than it wants, but for the strays.                *)
UrbMost == \A k \in Kinds : k \notin stray => posted[k] <= Want[k]
(* What has not been opened yet, or is closed, has no URB and no bit.      *)
UrbOff ==
    /\ hci \in {"down", "open_intr", "close_put"} => posted["intr"] = 0 /\ ~run["intr"]
    /\ hci \in {"down", "open_intr", "open_bulk", "close_put"} => posted["bulk"] = 0 /\ ~run["bulk"]
    /\ ~run["isoc"] => posted["isoc"] = 0 \/ "isoc" \in stray
(* The ISO data interface is off.                                          *)
NoPkt == posted["isopkt"] = 0 /\ ~run["isopkt"]
(* When it is off: setup switches it on as its last step, shutdown         *)
(* switches it off, and a close finds it off unless a reset did not shut   *)
(* the device down.                                                        *)
PktCourse ==
    /\ hci = "setup" => ~run["isopkt"]
    /\ hci \in Opening => NoPkt
    /\ hci = "setup" /\ plan.at # "isocmd" => NoPkt
    /\ hci = "shutdown" /\ plan.at = "over" => NoPkt
    /\ hci \in Closing \cup {"down"} /\ rst # "gone" => NoPkt
    /\ pm.at = "post isopkt" => /\ hci = "up" \/ (hci = "shutdown" /\ plan.at # "over")
                                /\ ~run["isopkt"] => posted["isopkt"] = 0
(* It never has more than its one URB, also where its bit says nothing     *)
(* about it.                                                               *)
PktOne ==
    /\ ~run["isopkt"] => posted["isopkt"] <= 1
    /\ pm.at \in ResumePc \ {"play", "work", "failed", "done"} => posted["isopkt"] <= 1
    /\ suspending /\ pm.at \in {"none", "enter", "flush"} => posted["isopkt"] <= 1
    /\ pm.op = "resume" /\ pm.at = "enter" => posted["isopkt"] <= 1
(* The upper half of RxPosted.                                             *)
Urbs == UrbType /\ UrbMost /\ UrbOff /\ PktCourse /\ PktOne

(* The kinds and how many URBs each wants.                                 *)
LEMMA Wants ==
  /\ "intr" \in Kinds /\ Want["intr"] = 1 /\ "bulk" \in Kinds /\ Want["bulk"] = 2
  /\ "isoc" \in Kinds /\ Want["isoc"] = 2 /\ "isopkt" \in Kinds /\ Want["isopkt"] = 1
  BY DEF Kinds, Want

(* There are no others.                                                    *)
LEMMA AllKinds == Kinds = {"intr", "bulk", "isoc", "isopkt"}
  BY DEF Kinds

(* A step that leaves the URBs alone.                                      *)
LEMMA UrbSame ==
  ASSUME Urbs, UNCHANGED <<run, posted>>, stray \subseteq stray',
         plan' = [at |-> plan'.at, left |-> plan'.left, retry |-> plan'.retry],
         UNCHANGED hci \/ (hci # "down" /\ hci' \notin {"down", "close_put"} \cup Opening)
           \/ (hci = "down" /\ hci' = "open_intr" /\ rst # "gone") \/ (hci = "close_put" /\ hci' = "down"),
         PktCourse', PktOne'
  PROVE  Urbs'
  <1>1. UrbMost'
    BY DEF Urbs, UrbMost
  <1>2. UrbOff'
    BY DEF Urbs, UrbOff, Opening
  <1> QED BY <1>1, <1>2 DEF Urbs, UrbType

(* The first URBs of a device that is opened.                              *)
LEMMA UrbOpens ==
  ASSUME Urbs, Iso, OpenIntr \/ OpenBulk, UNCHANGED mvars
  PROVE  Urbs'
  <1> USE Wants
  <1>0. /\ hci \in {"open_intr", "open_bulk"} /\ UNCHANGED <<pm, suspending, plan, rst, stray>>
        /\ posted \in [Kinds -> Nat] /\ run \in [Kinds -> BOOLEAN]
    BY DEF OpenIntr, OpenBulk, Urbs, UrbType, mvars, wmt, reset
  <1>1. CASE OpenIntr
    <2>1. \/ hci' = "open_bulk" /\ run' = [run EXCEPT !["intr"] = TRUE] /\ posted' = [posted EXCEPT !["intr"] = @ + 1]
          \/ hci' = "down" /\ run' = [run EXCEPT !["intr"] = FALSE] /\ UNCHANGED posted
      BY <1>1 DEF OpenIntr, OpenFail, SubmitIntr, Post
    <2>2. hci = "open_intr" /\ posted["intr"] = 0
      BY <1>1 DEF OpenIntr, Urbs, UrbOff
    <2>3. UrbType'
      <3>1. posted' \in [Kinds -> Nat]
        BY <1>0, <2>1
      <3>2. run' \in [Kinds -> BOOLEAN]
        BY <1>0, <2>1
      <3> QED BY <1>0, <3>1, <3>2 DEF Urbs, UrbType
    <2>4. UrbMost'
      BY <1>0, <2>1, <2>2 DEF Urbs, UrbMost
    <2>5. UrbOff'
      BY <1>0, <2>1, <2>2 DEF Urbs, UrbOff
    <2>6. PktCourse'
      BY <1>0, <2>1, <2>2 DEF Urbs, PktCourse, NoPkt, Opening, Closing
    <2>7. PktOne'
      BY <1>0, <2>1, <2>2 DEF Urbs, PktOne
    <2> QED BY <2>3, <2>4, <2>5, <2>6, <2>7 DEF Urbs
  <1>2. CASE OpenBulk
    <2>1. \/ /\ hci' = "opened" /\ run' = [run EXCEPT !["bulk"] = TRUE]
             /\ \E n \in {1, 2} : posted' = [posted EXCEPT !["bulk"] = @ + n]
          \/ /\ hci' = "down" /\ run' = [run EXCEPT !["intr"] = FALSE]
             /\ posted' = [k \in Kinds |-> IF k \in {"intr"} THEN 0 ELSE posted[k]]
      BY <1>2 DEF OpenBulk, OpenFail, SubmitBulk, Post, Kill
    <2>2. hci = "open_bulk" /\ posted["bulk"] = 0
      BY <1>2 DEF OpenBulk, Urbs, UrbOff
    <2>3. UrbType'
      <3>1. posted' \in [Kinds -> Nat]
        BY <1>0, <2>1
      <3>2. run' \in [Kinds -> BOOLEAN]
        BY <1>0, <2>1
      <3> QED BY <1>0, <3>1, <3>2 DEF Urbs, UrbType
    <2>4. UrbMost'
      BY <1>0, <2>1, <2>2 DEF Urbs, UrbMost
    <2>5. UrbOff'
      BY <1>0, <2>1, <2>2 DEF Urbs, UrbOff
    <2>6. PktCourse'
      BY <1>0, <2>1, <2>2 DEF Urbs, PktCourse, NoPkt, Opening, Closing
    <2>7. PktOne'
      BY <1>0, <2>1, <2>2 DEF Urbs, PktOne
    <2> QED BY <2>3, <2>4, <2>5, <2>6, <2>7 DEF Urbs
  <1> QED BY <1>1, <1>2

(* An URB that completes and is not posted again.                          *)
LEMMA UrbGone ==
  ASSUME Urbs, NEW k \in Kinds, Gone(k), UNCHANGED mvars
  PROVE  Urbs'
  <1> USE Wants
  <1>0. /\ UNCHANGED <<hci, run, pm, suspending, plan, rst, stray>> /\ posted[k] > 0
        /\ posted' = [posted EXCEPT ![k] = @ - 1]
        /\ posted \in [Kinds -> Nat] /\ run \in [Kinds -> BOOLEAN]
    BY DEF Gone, Urbs, UrbType, mvars, wmt, reset, power
  <1>1. posted' \in [Kinds -> Nat] /\ \A j \in Kinds : posted'[j] <= posted[j]
    BY <1>0
  <1>2. \A j \in Kinds : posted[j] = 0 => posted'[j] = 0
    BY <1>0
  <1>3. UrbType'
    BY <1>0, <1>1 DEF Urbs, UrbType
  <1>4. UrbMost'
    BY <1>0, <1>1, AllKinds DEF Urbs, UrbMost
  <1>5. UrbOff'
    BY <1>0, <1>2 DEF Urbs, UrbOff
  <1>6. PktCourse'
    BY <1>0, <1>2 DEF Urbs, PktCourse, NoPkt
  <1>7. PktOne'
    BY <1>0, <1>1 DEF Urbs, PktOne
  <1> QED BY <1>3, <1>4, <1>5, <1>6, <1>7 DEF Urbs

(* btusb_close kills all it knows of.                                      *)
LEMMA UrbCloses ==
  ASSUME Urbs, Iso, CloseStop, UNCHANGED mvars
  PROVE  Urbs'
  <1> USE Wants
  <1>0. /\ hci = "close_stop" /\ hci' = "close_put" /\ UNCHANGED <<pm, suspending, plan, rst>>
        /\ run' = [k \in Kinds |-> k = "isopkt" /\ run[k]]
        /\ posted' = [k \in Kinds |-> IF k \in {"intr", "bulk", "isoc"} THEN 0 ELSE posted[k]]
        /\ stray' = stray \cap {"isopkt"}
        /\ posted \in [Kinds -> Nat] /\ run \in [Kinds -> BOOLEAN]
    BY DEF CloseStop, StopTraffic, Kill, Urbs, UrbType, mvars, wmt, reset, power
  <1>1. /\ posted'["intr"] = 0 /\ posted'["bulk"] = 0 /\ posted'["isoc"] = 0 /\ posted'["isopkt"] = posted["isopkt"]
        /\ ~run'["intr"] /\ ~run'["bulk"] /\ ~run'["isoc"] /\ run'["isopkt"] = run["isopkt"]
    BY <1>0
  <1>3. UrbType'
    BY <1>0 DEF Urbs, UrbType
  <1>4. UrbMost'
    BY <1>0, <1>1, AllKinds DEF Urbs, UrbMost
  <1>5. UrbOff'
    BY <1>0, <1>1 DEF Urbs, UrbOff
  <1>6. PktCourse'
    BY <1>0, <1>1 DEF Urbs, PktCourse, NoPkt, Opening, Closing
  <1>7. PktOne'
    BY <1>0, <1>1 DEF Urbs, PktOne
  <1> QED BY <1>3, <1>4, <1>5, <1>6, <1>7 DEF Urbs

(* btusb_work stops and starts the isochronous URBs.                       *)
LEMMA UrbWorks ==
  ASSUME Urbs, Iso, Work, UNCHANGED mvars
  PROVE  Urbs'
  <1> USE Wants
  <1>0. /\ UNCHANGED <<hci, pm, suspending, plan, rst>>
        /\ posted \in [Kinds -> Nat] /\ run \in [Kinds -> BOOLEAN]
    BY DEF Work, WorkStart, WorkGet, WorkSwitch, Switch, WorkPost, WorkStop, Urbs, UrbType, mvars, wmt, reset, power
  <1>1. \/ UNCHANGED <<run, posted, stray>>
        \/ /\ run' = [run EXCEPT !["isoc"] = FALSE]
           /\ posted' = [k \in Kinds |-> IF k \in {"isoc"} THEN 0 ELSE posted[k]]
           /\ (stray' = stray \/ stray' = stray \ {"isoc"})
        \/ /\ run["isoc"] = FALSE /\ run' = [run EXCEPT !["isoc"] = TRUE] /\ UNCHANGED stray
           /\ \E n \in {1, 2} : posted' = [posted EXCEPT !["isoc"] = @ + n]
    BY <1>0 DEF Work, WorkStart, WorkGet, WorkSwitch, Switch, WorkPost, WorkStop, Kill, SubmitIsoc, Post, rx, history
  <1>2. hci # "down" /\ hci # "close_put" /\ hci \notin Opening
    BY DEF Iso, IsoOff, Work, WorkStart, WorkGet, WorkSwitch, Switch, WorkPost, WorkStop
  <1>3. UrbType'
    <2>1. posted' \in [Kinds -> Nat]
      BY <1>0, <1>1
    <2>2. run' \in [Kinds -> BOOLEAN]
      BY <1>0, <1>1
    <2> QED BY <1>0, <2>1, <2>2 DEF Urbs, UrbType
  <1>4. UrbMost'
    BY <1>0, <1>1 DEF Urbs, UrbMost, UrbOff
  <1>5. UrbOff'
    BY <1>0, <1>1, <1>2 DEF Urbs, UrbOff
  <1>6. posted'["isopkt"] = posted["isopkt"] /\ run'["isopkt"] = run["isopkt"]
    BY <1>0, <1>1
  <1>7. PktCourse'
    BY <1>0, <1>6 DEF Urbs, PktCourse, NoPkt
  <1>8. PktOne'
    BY <1>0, <1>6 DEF Urbs, PktOne
  <1> QED BY <1>3, <1>4, <1>5, <1>7, <1>8 DEF Urbs

(* The steps of resume up to the last URB.                                 *)
Early == ResumePc \ {"play", "work", "failed", "done"}

(* A suspend or resume that leaves URBs and bits alone.                    *)
LEMMA UrbPause ==
  ASSUME Urbs, UNCHANGED <<hci, run, posted, plan, rst>>, stray \subseteq stray',
         pm'.at = "post isopkt" => /\ pm.at = "post isopkt" \/ run["isopkt"]
                                   /\ hci = "up" \/ (hci = "shutdown" /\ plan.at # "over"),
         pm'.at \in Early \/ (suspending' /\ pm'.at \in {"none", "enter", "flush"})
           \/ (pm'.op = "resume" /\ pm'.at = "enter") => posted["isopkt"] <= 1
  PROVE  Urbs'
  <1>1. PktCourse' /\ PktOne'
    BY DEF Urbs, PktCourse, PktOne, NoPkt, Early
  <1> QED BY <1>1, UrbSame DEF Urbs, UrbType

(* Suspend kills the URBs.                                                 *)
LEMMA UrbSuspends ==
  ASSUME Balanced, Iso, Urbs, (\E auto \in BOOLEAN : SuspendBegin(auto)) \/ Suspend, UNCHANGED mvars
  PROVE  Urbs'
  <1> USE SomeIntfs, Wants
  <1>0. PmType /\ count \in Nat /\ suspending \in BOOLEAN /\ pm.i \in Nat /\ pm.auto \in BOOLEAN
        /\ posted \in [Kinds -> Nat] /\ run \in [Kinds -> BOOLEAN] /\ UNCHANGED <<plan, rst>>
    BY DEF Balanced, PmType, Urbs, UrbType, mvars, wmt, reset
  <1>1. ASSUME NEW auto \in BOOLEAN, SuspendBegin(auto)
        PROVE  Urbs'
    <2>1. /\ UNCHANGED <<hci, run, posted, stray, suspending>> /\ pm.op = "none" /\ asleep = "no"
          /\ pm'.at = "enter" /\ pm'.op = "suspend"
      BY <1>1 DEF SuspendBegin, Rest, rx, history
    <2>2. ~suspending'
      BY <2>1 DEF Balanced, AtRest
    <2> QED BY <1>0, <2>1, <2>2, UrbPause DEF Early, ResumePc
  <1>2. CASE SuspendEnter
    <2>1. /\ pm.op = "suspend" /\ pm.at = "enter" /\ pm.i \in 1 .. Intfs /\ count = Intfs - pm.i
          /\ (suspending <=> count > 0) /\ UNCHANGED <<hci, run, posted, stray>>
      BY <1>2 DEF SuspendEnter, Enter, Balanced, GoingDown, rx, history
    <2>2. suspending => posted["isopkt"] <= 1
      BY <2>1 DEF Urbs, PktOne
    <2>3. CASE Refused /\ UNCHANGED suspending
      <3>1. CASE pm.i = Intfs
        <4>1. ~suspending' /\ pm'.at = "none" /\ pm'.op = "none"
          BY <1>0, <2>1, <2>3, <3>1, PmRefused
        <4> QED BY <1>0, <2>1, <4>1, UrbPause DEF Early, ResumePc
      <3>2. CASE pm.i # Intfs
        <4>1. suspending /\ pm'.at = "enter"
          BY <1>0, <2>1, <2>3, <3>2, PmRefused
        <4> QED BY <1>0, <2>1, <2>2, <4>1, UrbPause DEF Early, ResumePc
      <3> QED BY <3>1, <3>2
    <2>4. CASE NextDown /\ count > 0
      <3>1. suspending /\ pm'.at \in {"enter", "flush"}
        BY <1>0, <2>1, <2>4, PmDown
      <3> QED BY <1>0, <2>1, <2>2, <3>1, UrbPause DEF Early, ResumePc
    <2>5. CASE pm' = [pm EXCEPT !.at = "cancel"]
      <3>1. pm'.at = "cancel"
        BY <1>0, <2>5, PmGoes
      <3> QED BY <1>0, <2>1, <3>1, UrbPause DEF Early, ResumePc
    <2> QED BY <1>2, <2>3, <2>4, <2>5 DEF SuspendEnter, Enter
  <1>3. CASE SuspendCancel
    <2>1. /\ UNCHANGED <<hci, run, posted, stray>> /\ pm'.at = "kill"
      BY <1>0, <1>3, PmGoes DEF SuspendCancel, rx, history
    <2> QED BY <1>0, <2>1, UrbPause DEF Early, ResumePc
  <1>4. CASE SuspendKill
    <2>1. /\ posted' = [k \in Kinds |-> IF k \in {"intr", "bulk", "isoc"} \cup {j \in {"isopkt"} : run[j]}
                                        THEN 0 ELSE posted[k]]
          /\ stray' = {} /\ UNCHANGED <<hci, run>> /\ pm.i > 0 /\ pm.op = "suspend"
      BY <1>4 DEF SuspendKill, Kill, Balanced, GoingDown
    <2>2. posted' \in [Kinds -> Nat] /\ posted'["intr"] = 0 /\ posted'["bulk"] = 0 /\ posted'["isoc"] = 0
      BY <1>0, <2>1
    <2>3. posted'["isopkt"] = (IF run["isopkt"] THEN 0 ELSE posted["isopkt"])
      BY <1>0, <2>1
    <2>4. posted'["isopkt"] <= 1 /\ (posted["isopkt"] = 0 => posted'["isopkt"] = 0)
      BY <1>0, <2>3 DEF Urbs, PktOne
    <2>5. pm'.at \in {"enter", "flush"}
      BY <1>0, <1>4, <2>1, PmDown DEF SuspendKill
    <2>6. UrbType' /\ UrbOff'
      BY <1>0, <2>1, <2>2 DEF Urbs, UrbType, UrbOff
    <2>7. UrbMost'
      BY <1>0, <2>2, <2>4, AllKinds DEF UrbMost
    <2>8. PktCourse'
      BY <1>0, <2>1, <2>4, <2>5 DEF Urbs, PktCourse, NoPkt
    <2>9. PktOne'
      BY <2>4 DEF PktOne
    <2> QED BY <2>6, <2>7, <2>8, <2>9 DEF Urbs
  <1>5. CASE SuspendEnd
    <2>1. posted' = NoUrbs /\ UNCHANGED <<hci, run>> /\ pm'.at = "none"
      BY <1>5 DEF SuspendEnd, Rest
    <2>2. /\ posted' \in [Kinds -> Nat] /\ posted'["intr"] = 0 /\ posted'["bulk"] = 0 /\ posted'["isoc"] = 0
          /\ posted'["isopkt"] = 0
      BY <2>1 DEF NoUrbs
    <2>6. UrbType' /\ UrbOff'
      BY <1>0, <2>1, <2>2 DEF Urbs, UrbType, UrbOff
    <2>7. UrbMost'
      BY <2>2, AllKinds DEF UrbMost
    <2>8. PktCourse'
      BY <1>0, <2>1, <2>2 DEF Urbs, PktCourse, NoPkt
    <2>9. PktOne'
      BY <2>2 DEF PktOne
    <2> QED BY <2>6, <2>7, <2>8, <2>9 DEF Urbs
  <1> QED BY <1>1, <1>2, <1>3, <1>4, <1>5 DEF Suspend

(* Resume posts them again, kind by kind.                                  *)
LEMMA UrbResumes ==
  ASSUME Balanced, Iso, Urbs, Resume, UNCHANGED mvars
  PROVE  Urbs'
  <1> USE SomeIntfs, Wants
  <1>0. PmType /\ count \in Nat /\ suspending \in BOOLEAN /\ pm.i \in Nat /\ pm.auto \in BOOLEAN
        /\ posted \in [Kinds -> Nat] /\ run \in [Kinds -> BOOLEAN] /\ UNCHANGED <<plan, rst>>
    BY DEF Balanced, PmType, Urbs, UrbType, mvars, wmt, reset
  <1>1. CASE ResumeBegin
    <2>1. pm.op = "none" /\ suspending /\ UNCHANGED <<hci, run, posted, stray>> /\ pm'.at = "enter" /\ pm.at = "none"
      BY <1>1 DEF ResumeBegin, Balanced, AtRest, Rest, rx, history
    <2>2. posted["isopkt"] <= 1
      BY <2>1 DEF Urbs, PktOne
    <2> QED BY <1>0, <2>1, <2>2, UrbPause DEF Early, ResumePc
  <1>2. CASE ResumeEnter
    <2>1. pm.op = "resume" /\ pm.at = "enter" /\ UNCHANGED <<hci, run, posted, stray>>
      BY <1>2 DEF ResumeEnter, rx
    <2>2. posted["isopkt"] <= 1
      BY <2>1 DEF Urbs, PktOne
    <2>3. pm'.at \in {"none", "enter", "intr", "done"}
      BY <1>0, <1>2, PmUp, PmGoes DEF ResumeEnter
    <2> QED BY <1>0, <2>1, <2>2, <2>3, UrbPause
  <1>3. CASE ResumePlay
    <2>1. UNCHANGED <<hci, run, posted, stray>> /\ pm'.at = "work"
      BY <1>0, <1>3, PmGoes DEF ResumePlay, rx
    <2> QED BY <1>0, <2>1, UrbPause DEF Early, ResumePc
  <1>4. CASE ResumeWork \/ ResumeDone
    <2>1. /\ UNCHANGED <<hci, run, posted, stray>> /\ pm.op = "resume" /\ pm.at \in {"work", "done"}
          /\ NextUp /\ (suspending' = suspending \/ suspending' = FALSE)
      BY <1>4 DEF ResumeWork, ResumeDone, rx, history
    <2>2. pm.i = Intfs /\ ~suspending'
      BY <1>4, <2>1 DEF ResumeWork, ResumeDone, Balanced, ComingUp
    <2>3. pm'.op = "none" /\ pm'.at = "none"
      BY <1>0, <2>1, <2>2, PmUp
    <2> QED BY <1>0, <2>1, <2>2, <2>3, UrbPause DEF Early, ResumePc
  <1>5. CASE ResumeFailed
    <2>1. UNCHANGED <<hci, run, posted, stray>> /\ pm'.at = "done"
      BY <1>0, <1>5, PmGoes DEF ResumeFailed, rx
    <2> QED BY <1>0, <2>1, UrbPause DEF Early, ResumePc
  <1>6. ASSUME NEW k \in Kinds, ResumeTest(k)
        PROVE  Urbs'
    <2>1. /\ pm.op = "resume" /\ pm.at = k /\ UNCHANGED <<hci, run, posted, stray>>
          /\ \/ run[k] /\ pm'.at = Posting[k]
             \/ pm'.at = After[k]
      BY <1>0, <1>6, PmGoes DEF ResumeTest, rx, history
    <2>2. pm.at \in Early /\ posted["isopkt"] <= 1
      BY <2>1, Stages DEF Early, ResumePc, Urbs, PktOne
    <2>3. HciRunning
      BY <2>1, Stages DEF Iso, IsoOff, ResumePc
    <2>4. pm'.at = "post isopkt" => run["isopkt"] /\ (hci = "up" \/ (hci = "shutdown" /\ plan.at # "over"))
      <3>1. SUFFICES ASSUME pm'.at = "post isopkt"
                     PROVE  run["isopkt"] /\ (hci = "up" \/ (hci = "shutdown" /\ plan.at # "over"))
        OBVIOUS
      <3>2. run["isopkt"]
        BY <2>1, <3>1, Stages
      <3> QED BY <2>3, <3>2 DEF HciRunning, Urbs, PktCourse, NoPkt
    <2>5. pm'.at # "enter" /\ pm'.at # "none" /\ pm'.at # "flush"
      BY <2>1, Stages
    <2> QED BY <1>0, <2>1, <2>2, <2>4, <2>5, UrbPause
  <1>7. ASSUME NEW k \in Kinds, ResumePost(k)
        PROVE  Urbs'
    <2>1. /\ pm.op = "resume" /\ pm.at = Posting[k] /\ UNCHANGED hci
          /\ stray' = (IF run[k] /\ posted[k] = 0 THEN stray ELSE stray \cup {k})
          /\ \/ UNCHANGED run /\ \E n \in 1 .. Want[k] : posted' = [posted EXCEPT ![k] = @ + n]
             \/ run' = [run EXCEPT ![k] = FALSE] /\ UNCHANGED posted
      BY <1>7 DEF ResumePost, ResumeAs, Post
    <2>2. pm'.at \in {After[k], "failed"}
      BY <1>0, <1>7, PmGoes DEF ResumePost, ResumeAs
    <2>3. HciRunning
      BY <2>1, Stages DEF Iso, IsoOff, ResumePc
    <2>4. Want[k] \in Nat
      BY AllKinds
    <2>5. posted' \in [Kinds -> Nat] /\ \A j \in Kinds \ {k} : posted'[j] = posted[j] /\ run'[j] = run[j]
      BY <1>0, <2>1, <2>4
    <2>6. run' \in [Kinds -> BOOLEAN]
      BY <1>0, <2>1
    <2>7. UrbType'
      BY <1>0, <2>5, <2>6 DEF Urbs, UrbType
    <2>8. UrbMost'
      <3>1. k \notin stray' => posted'[k] <= Want[k]
        BY <1>0, <2>1, <2>4 DEF Urbs, UrbMost
      <3>2. ASSUME NEW j \in Kinds \ {k}, j \notin stray'
            PROVE  posted'[j] <= Want[j]
        BY <2>1, <2>5, <3>2 DEF Urbs, UrbMost
      <3> QED BY <3>1, <3>2 DEF UrbMost
    <2>9. UrbOff'
      <3>1. ~run'["isoc"] => posted'["isoc"] = 0 \/ "isoc" \in stray'
        <4>1. CASE k = "isoc"
          BY <1>0, <2>1, <4>1 DEF Urbs, UrbOff
        <4>2. CASE k # "isoc"
          BY <2>1, <2>5, <4>2 DEF Urbs, UrbOff
        <4> QED BY <4>1, <4>2
      <3> QED BY <2>1, <2>3, <3>1 DEF UrbOff, HciRunning
    <2>10. PktCourse' /\ PktOne'
      <3>1. pm'.at \notin {"post isopkt", "enter", "none", "flush"}
        BY <2>2, Stages
      <3>2. CASE k = "isopkt"
        <4>1. pm.at = "post isopkt" /\ pm'.at \notin Early
          BY <2>1, <2>2, <3>2, Stages DEF Early
        <4>2. hci = "up" \/ (hci = "shutdown" /\ plan.at # "over")
          BY <4>1 DEF Urbs, PktCourse
        <4>3. ~run'["isopkt"] => posted'["isopkt"] <= 1
          <5>1. posted["isopkt"] <= 1 /\ (~run["isopkt"] => posted["isopkt"] = 0)
            BY <4>1 DEF Urbs, PktOne, PktCourse, ResumePc
          <5>2. CASE UNCHANGED posted
            BY <5>1, <5>2
          <5>3. ASSUME UNCHANGED run, NEW n \in 1 .. 1, posted' = [posted EXCEPT !["isopkt"] = @ + n]
                PROVE  ~run'["isopkt"] => posted'["isopkt"] <= 1
            BY <1>0, <5>1, <5>3
          <5> QED BY <2>1, <3>2, <5>2, <5>3
        <4> QED BY <1>0, <2>1, <3>1, <4>1, <4>2, <4>3 DEF PktCourse, PktOne, Early, Opening, Closing
      <3>3. CASE k # "isopkt"
        <4>1. posted'["isopkt"] = posted["isopkt"] /\ run'["isopkt"] = run["isopkt"]
          BY <2>5, <3>3
        <4>2. posted["isopkt"] <= 1
          BY <2>1, <3>3, Stages DEF Urbs, PktOne, ResumePc
        <4> QED BY <1>0, <2>1, <3>1, <4>1, <4>2 DEF Urbs, PktCourse, PktOne, NoPkt
      <3> QED BY <3>2, <3>3
    <2> QED BY <2>7, <2>8, <2>9, <2>10 DEF Urbs
  <1> QED BY <1>1, <1>2, <1>3, <1>4, <1>5, <1>6, <1>7 DEF Resume

(* Setup posts the ISO URB and then sets its bit.                          *)
LEMMA UrbSets ==
  ASSUME Balanced, Course, Iso, Urbs, Setup
  PROVE  Urbs'
  <1> USE Wants
  <1>0. /\ posted \in [Kinds -> Nat] /\ run \in [Kinds -> BOOLEAN] /\ hci = "setup"
        /\ plan = [at |-> plan.at, left |-> plan.left, retry |-> plan.retry]
        /\ UNCHANGED <<pm, suspending, rst>>
    BY DEF Urbs, UrbType, Setup, SetupId, SetupAsk, SetupQueried, SetupSent, SetupFunc, SetupReg, SetupIso,
           SetupIsoCmd, SetupFailed, CloseBegin, Answered, Step, usb, vars, power, reset
  <1>1. plan' = [at |-> plan'.at, left |-> plan'.left, retry |-> plan'.retry]
    <2>1. CASE SetupId \/ SetupAsk
      BY <1>0, <2>1 DEF SetupId, SetupAsk, Over
    <2>4. CASE SetupFunc
      BY <1>0, <2>4 DEF SetupFunc, Goto, Over
    <2>5. CASE SetupSent
      <3>1. PICK at : plan' = Over \/ plan' = [plan EXCEPT !.left = @ - 1, !.at = at]
        BY <2>5 DEF SetupSent
      <3> QED BY <1>0, <3>1 DEF Over
    <2>2. CASE SetupQueried
      BY <1>0, <2>2 DEF SetupQueried, Over
    <2>3. CASE SetupReg \/ SetupIso \/ SetupIsoCmd \/ SetupFailed
      BY <1>0, <2>3 DEF SetupReg, SetupIso, SetupIsoCmd, SetupFailed, Goto, Over, NoPlan
    <2> QED BY <2>1, <2>2, <2>3, <2>4, <2>5 DEF Setup
  <1>2. pm.at # "post isopkt"
    BY <1>0 DEF Urbs, PktCourse
  <1>3. CASE SetupId \/ SetupAsk \/ SetupQueried \/ SetupSent \/ SetupFunc \/ SetupReg
    <2>1. UNCHANGED <<hci, run, posted, stray>> /\ plan.at # "isocmd"
      BY <1>3 DEF SetupId, SetupAsk, SetupQueried, SetupSent, SetupFunc, SetupReg, Answered, Step, usb, vars, rx, history
    <2>2. PktCourse' /\ PktOne'
      BY <1>0, <1>2, <2>1 DEF Urbs, PktCourse, PktOne, NoPkt, Opening, Closing
    <2> QED BY <1>1, <2>1, <2>2, UrbSame
  <1>4. CASE SetupFailed
    <2>1. UNCHANGED <<run, posted, stray>> /\ plan.at = "over" /\ hci' = "closing"
      BY <1>4 DEF SetupFailed, CloseBegin, Step, rx, history
    <2>2. PktCourse' /\ PktOne'
      BY <1>0, <1>2, <2>1 DEF Urbs, PktCourse, PktOne, NoPkt, Opening, Closing
    <2> QED BY <1>0, <1>1, <2>1, <2>2, UrbSame DEF Opening
  <1>5. CASE SetupIso
    <2>1. /\ plan.at = "iso" /\ UNCHANGED <<run, stray>>
          /\ \/ /\ UNCHANGED hci /\ plan' = [plan EXCEPT !.at = "isocmd"]
                /\ posted' = [posted EXCEPT !["isopkt"] = @ + 1]
             \/ hci' = "up" /\ UNCHANGED posted
      BY <1>5 DEF SetupIso, Step, Goto, history
    <2>2. NoPkt
      BY <1>0, <2>1 DEF Urbs, PktCourse
    <2>3. CASE UNCHANGED hci
      <3>1. posted' = [posted EXCEPT !["isopkt"] = @ + 1] /\ plan'.at = "isocmd"
        BY <1>0, <2>1, <2>3
      <3>2. /\ posted' \in [Kinds -> Nat] /\ posted'["isopkt"] = 1
            /\ \A j \in Kinds \ {"isopkt"} : posted'[j] = posted[j]
        BY <1>0, <2>2, <3>1 DEF NoPkt
      <3>3. UrbType'
        BY <1>0, <1>1, <2>1, <3>2 DEF Urbs, UrbType
      <3>4. UrbMost'
        BY <2>1, <3>2 DEF Urbs, UrbMost
      <3>5. UrbOff'
        BY <1>0, <2>1, <2>3, <3>2 DEF Urbs, UrbOff
      <3>6. PktCourse'
        BY <1>0, <1>2, <2>1, <2>2, <2>3, <3>1 DEF PktCourse, NoPkt, Opening, Closing
      <3>7. PktOne'
        BY <3>2 DEF PktOne
      <3> QED BY <3>3, <3>4, <3>5, <3>6, <3>7 DEF Urbs
    <2>4. CASE hci' = "up"
      <3>1. UNCHANGED posted
        BY <1>0, <2>1, <2>4
      <3>2. PktCourse' /\ PktOne'
        BY <1>0, <1>2, <2>1, <2>2, <2>4, <3>1 DEF Urbs, PktCourse, PktOne, NoPkt, Opening, Closing
      <3> QED BY <1>0, <1>1, <2>1, <2>4, <3>1, <3>2, UrbSame DEF Opening
    <2> QED BY <2>1, <2>3, <2>4
  <1>6. CASE SetupIsoCmd
    <2>1. /\ hci' = "up" /\ UNCHANGED posted /\ stray \subseteq stray'
          /\ run' = run \/ run' = [run EXCEPT !["isopkt"] = TRUE]
      BY <1>6 DEF SetupIsoCmd
    <2>2. /\ run' \in [Kinds -> BOOLEAN] /\ run'["isoc"] = run["isoc"]
          /\ (~run'["isopkt"] => ~run["isopkt"])
      BY <1>0, <2>1
    <2>3. UrbType'
      BY <1>0, <1>1, <2>1, <2>2 DEF Urbs, UrbType
    <2>4. UrbMost'
      BY <2>1 DEF Urbs, UrbMost
    <2>5. UrbOff'
      BY <2>1, <2>2 DEF Urbs, UrbOff
    <2>6. PktCourse'
      BY <1>0, <1>2, <2>1 DEF PktCourse, Opening, Closing
    <2>7. PktOne'
      BY <1>0, <2>1, <2>2 DEF Urbs, PktOne
    <2> QED BY <2>3, <2>4, <2>5, <2>6, <2>7 DEF Urbs
  <1> QED BY <1>3, <1>4, <1>5, <1>6 DEF Setup

(* Shutdown releases the ISO data interface.                               *)
LEMMA UrbShuts ==
  ASSUME Balanced, Course, Iso, Urbs, Shutdown
  PROVE  Urbs'
  <1> USE Wants
  <1>0. /\ posted \in [Kinds -> Nat] /\ run \in [Kinds -> BOOLEAN]
        /\ plan = [at |-> plan.at, left |-> plan.left, retry |-> plan.retry]
        /\ UNCHANGED <<pm, suspending, rst>>
    BY DEF Urbs, UrbType, Shutdown, ShutdownBegin, ShutdownAsk, ShutdownTold, ShutdownEnd, ShutdownClose,
           CloseBegin, vars, power, reset
  <1>1. CASE ShutdownBegin \/ ShutdownAsk \/ ShutdownTold
    <2>1. /\ UNCHANGED <<run, posted, stray>> /\ hci \in {"up", "shutdown"} /\ hci' = "shutdown"
          /\ \/ plan.at = "off" /\ UNCHANGED plan
             \/ \E t \in {"off", "release"} : plan' = [plan EXCEPT !.at = t]
      BY <1>1 DEF ShutdownBegin, ShutdownAsk, ShutdownTold, Goto, vars, rx, history
    <2>2. plan'.at # "over" /\ plan' = [at |-> plan'.at, left |-> plan'.left, retry |-> plan'.retry]
      BY <1>0, <2>1
    <2>3. PktCourse' /\ PktOne'
      BY <1>0, <2>1, <2>2 DEF Urbs, PktCourse, PktOne, NoPkt, Opening, Closing
    <2> QED BY <2>1, <2>2, <2>3, UrbSame DEF Opening
  <1>2. CASE ShutdownEnd
    <2>1. /\ hci = "shutdown" /\ hci' = "shutdown" /\ plan' = Over /\ pm.op = "none"
          /\ run' = [run EXCEPT !["isopkt"] = FALSE] /\ stray' = stray \ {"isopkt"}
          /\ posted' = [k \in Kinds |-> IF k \in {"isopkt"} THEN 0 ELSE posted[k]]
      BY <1>2 DEF ShutdownEnd, ReleaseIso, Kill, Awaited
    <2>2. /\ posted' \in [Kinds -> Nat] /\ posted'["isopkt"] = 0 /\ ~run'["isopkt"]
          /\ \A j \in Kinds \ {"isopkt"} : posted'[j] = posted[j] /\ run'[j] = run[j]
      BY <1>0, <2>1
    <2>3. run' \in [Kinds -> BOOLEAN]
      BY <1>0, <2>1
    <2>4. plan' = [at |-> plan'.at, left |-> plan'.left, retry |-> plan'.retry]
      BY <2>1 DEF Over
    <2>5. UrbType'
      BY <2>2, <2>3, <2>4 DEF UrbType
    <2>6. UrbMost'
      BY <2>1, <2>2 DEF Urbs, UrbMost
    <2>7. UrbOff'
      BY <2>1, <2>2 DEF Urbs, UrbOff
    <2>8. pm.at = "none"
      BY <2>1 DEF Balanced, AtRest
    <2>9. PktCourse'
      BY <1>0, <2>1, <2>2, <2>8 DEF PktCourse, NoPkt, Opening, Closing
    <2>10. PktOne'
      BY <2>2 DEF PktOne
    <2> QED BY <2>5, <2>6, <2>7, <2>9, <2>10 DEF Urbs
  <1>3. CASE ShutdownClose
    <2>1. UNCHANGED <<run, posted, stray>> /\ plan = Over /\ hci = "shutdown" /\ hci' = "closing" /\ plan' = NoPlan
          /\ pm.op = "none"
      BY <1>3 DEF ShutdownClose, CloseBegin, rx, history, Awaited
    <2>2. NoPkt /\ pm.at = "none"
      BY <2>1 DEF Urbs, PktCourse, Over, Balanced, AtRest
    <2>3. plan' = [at |-> plan'.at, left |-> plan'.left, retry |-> plan'.retry]
      BY <2>1 DEF NoPlan, Over
    <2>4. PktCourse' /\ PktOne'
      BY <1>0, <2>1, <2>2 DEF Urbs, PktCourse, PktOne, NoPkt, Opening, Closing
    <2> QED BY <2>1, <2>3, <2>4, UrbSame DEF Opening
  <1> QED BY <1>1, <1>2, <1>3 DEF Shutdown

(* A reset stops everything.                                               *)
LEMMA UrbResets ==
  ASSUME Balanced, Course, Iso, Urbs, Reset
  PROVE  Urbs'
  <1> USE Wants
  <1>0. /\ posted \in [Kinds -> Nat] /\ run \in [Kinds -> BOOLEAN]
        /\ plan = [at |-> plan.at, left |-> plan.left, retry |-> plan.retry]
        /\ UNCHANGED <<pm, suspending, plan>>
    BY DEF Urbs, UrbType, Reset, DumpPacket, DumpEnd, ResetBegin, ResetGet, ResetStop, ResetEnd, UsbReset,
           Disconnect, CloseBegin, usb, vars, power, wmt, mvars
  <1>1. CASE DumpPacket \/ DumpEnd \/ ResetBegin \/ ResetGet \/ ResetEnd \/ UsbReset
    <2>1. UNCHANGED <<hci, run, posted, stray>> /\ (rst = "gone" => rst' = "gone")
      BY <1>1 DEF DumpPacket, DumpEnd, ResetBegin, ResetGet, ResetEnd, UsbReset, usb, vars, rx, history
    <2>2. PktCourse' /\ PktOne'
      BY <1>0, <2>1 DEF Urbs, PktCourse, PktOne, NoPkt
    <2> QED BY <1>0, <2>1, <2>2, UrbSame
  <1>2. CASE ResetStop
    <2>1. /\ UNCHANGED hci /\ run' = [run EXCEPT !["isopkt"] = FALSE] /\ posted' = NoUrbs
      BY <1>2 DEF ResetStop, ReleaseIso
    <2>2. /\ posted' \in [Kinds -> Nat] /\ posted'["intr"] = 0 /\ posted'["bulk"] = 0 /\ posted'["isoc"] = 0
          /\ posted'["isopkt"] = 0 /\ ~run'["isopkt"] /\ run'["intr"] = run["intr"] /\ run'["bulk"] = run["bulk"]
      BY <1>0, <2>1 DEF NoUrbs
    <2>3. run' \in [Kinds -> BOOLEAN]
      BY <1>0, <2>1
    <2>4. UrbType'
      BY <1>0, <2>2, <2>3 DEF UrbType
    <2>5. UrbMost' /\ PktOne'
      BY <2>2, AllKinds DEF UrbMost, PktOne
    <2>6. UrbOff'
      BY <2>1, <2>2 DEF Urbs, UrbOff
    <2>7. PktCourse'
      BY <1>0, <2>1, <2>2 DEF Urbs, PktCourse, NoPkt
    <2> QED BY <2>4, <2>5, <2>6, <2>7 DEF Urbs
  <1>3. CASE Disconnect
    <2>1. UNCHANGED <<run, posted, stray>> /\ rst = "gone" /\ rst' = "gone" /\ hci = "up" /\ hci' = "closing"
          /\ pm.op = "none"
      BY <1>3 DEF Disconnect, CloseBegin, rx, history, Awaited, mvars, reset
    <2>2. pm.at = "none"
      BY <2>1 DEF Balanced, AtRest
    <2>4. PktCourse' /\ PktOne'
      BY <1>0, <2>1, <2>2 DEF Urbs, PktCourse, PktOne, NoPkt, Opening, Closing
    <2> QED BY <1>0, <2>1, <2>4, UrbSame DEF Opening
  <1> QED BY <1>1, <1>2, <1>3 DEF Reset

(* Every step keeps to the most there may be.                              *)
LEMMA UrbStep ==
  ASSUME Balanced, Course, Iso, Urbs, MtkNext
  PROVE  Urbs'
  <1>0. plan = [at |-> plan.at, left |-> plan.left, retry |-> plan.retry]
    BY DEF Urbs, UrbType
  <1>1. ASSUME UNCHANGED <<hci, run, posted, stray, pm, suspending, plan, rst>>
        PROVE  Urbs'
    <2>1. PktCourse' /\ PktOne'
      BY <1>1 DEF Urbs, PktCourse, PktOne, NoPkt
    <2> QED BY <1>0, <1>1, <2>1, UrbSame
  <1>2. CASE /\ UsbNext /\ UNCHANGED mvars
             /\ rst \in {"get", "stop", "toggle", "gone"} => hci' \notin {"open_intr"} \/ hci = hci'
    <2> USE DEF rx, power, iso, history, mvars, wmt, reset
    <2>1. CASE OpenGet
      <3>1. /\ hci = "down" /\ hci' = "open_intr" /\ rst # "gone" /\ UNCHANGED <<run, posted, stray, pm, suspending, plan, rst>>
        BY <1>2, <2>1 DEF OpenGet
      <3>2. PktCourse' /\ PktOne'
        BY <3>1 DEF Urbs, PktCourse, PktOne, NoPkt, Opening, Closing
      <3> QED BY <1>0, <3>1, <3>2, UrbSame
    <2>2. CASE OpenIntr \/ OpenBulk
      BY <1>2, <2>2, UrbOpens
    <2>3. CASE SetRunning \/ CloseCancel
      <3>1. /\ UNCHANGED <<run, posted, stray, pm, suspending, plan, rst>>
            /\ (hci = "opened" /\ hci' = "setup") \/ (hci = "closing" /\ hci' = "close_stop")
        BY <1>2, <2>3 DEF SetRunning, CloseCancel
      <3>2. PktCourse' /\ PktOne'
        BY <3>1 DEF Urbs, PktCourse, PktOne, NoPkt, Opening, Closing
      <3> QED BY <1>0, <3>1, <3>2, UrbSame DEF Opening
    <2>4. CASE CloseStop
      BY <1>2, <2>4, UrbCloses
    <2>5. CASE CloseEnd
      <3>1. /\ UNCHANGED <<run, posted, stray, pm, suspending, plan, rst>> /\ hci = "close_put" /\ hci' = "down"
        BY <1>2, <2>5 DEF CloseEnd
      <3>2. PktCourse' /\ PktOne'
        BY <3>1 DEF Urbs, PktCourse, PktOne, NoPkt, Opening, Closing
      <3> QED BY <1>0, <3>1, <3>2, UrbSame
    <2>6. CASE Send \/ WakerStart \/ WakerGet
      BY <1>1, <1>2, <2>6 DEF Send, SendFrame, SendSubmit, SendDefer, SendWake, WakerStart, WakerGet
    <2>7. CASE AclUp \/ AclDown \/ ScoChange \/ IsocData
      BY <1>1, <1>2, <2>7 DEF AclUp, AclDown, ScoChange, IsocData
    <2>8. CASE Work
      BY <1>2, <2>8, UrbWorks
    <2>9. CASE IntrComplete \/ BulkComplete \/ IsocComplete \/ IsoPktComplete
      BY <1>2, <2>9, UrbGone, Wants DEF IntrComplete, BulkComplete, IsocComplete, IsoPktComplete
    <2>10. CASE (\E auto \in BOOLEAN : SuspendBegin(auto)) \/ Suspend
      BY <1>2, <2>10, UrbSuspends
    <2>11. CASE Resume
      BY <1>2, <2>11, UrbResumes
    <2> QED BY <1>2, <2>1, <2>2, <2>3, <2>4, <2>5, <2>6, <2>7, <2>8, <2>9, <2>10, <2>11 DEF UsbNext
  <1>3. CASE DeviceGets \/ FrameGone \/ Wmt
    <2>1. UNCHANGED <<hci, run, posted, stray, pm, suspending, plan, rst>>
      BY <1>3 DEF DeviceGets, FrameGone, Wmt, WmtGet, WmtSend, WmtUrb, WmtTimeout, WmtParse, Parse,
        RecvTest, RecvClear, RecvGone, usb, vars, rx, power, iso, history, wmt, reset
    <2> QED BY <1>1, <2>1
  <1> QED BY <1>2, <1>3, UrbSets, UrbShuts, UrbResets DEF MtkNext

(* The lower half of RxPosted, also for the part of a resume that comes    *)
(* after a kind's turn.                                                    *)
UrbLeast ==
    \A k \in Kinds : run[k] /\ k \notin lost /\ (~suspending \/ pm.at \in Beyond[k]) => posted[k] >= Want[k]

(* The order of resume: a kind's test and its posting come before          *)
(* everything beyond it.                                                   *)
LEMMA StagesBeyond ==
  ASSUME NEW k \in Kinds, NEW j \in Kinds
  PROVE  /\ Beyond[j] \subseteq ResumePc
         /\ Posting[k] \in Beyond[j] => k \in Beyond[j]
         /\ j # k /\ After[k] \in Beyond[j] => k \in Beyond[j] /\ Posting[k] \in Beyond[j]
         /\ {"play", "work", "failed", "done"} \subseteq Beyond[j]
         /\ \A t \in {"none", "enter", "cancel", "kill", "flush", "intr"} : t \notin Beyond[j]
  <1> USE DEF ResumePc
  <1>1. CASE j = "intr"
    BY <1>1, Stages DEF Beyond
  <1>2. CASE j = "bulk"
    BY <1>2, Stages DEF Beyond
  <1>3. CASE j = "isoc"
    BY <1>3, Stages DEF Beyond
  <1>4. CASE j = "isopkt"
    BY <1>4, Stages DEF Beyond
  <1> QED BY <1>1, <1>2, <1>3, <1>4, AllKinds

(* Every step keeps the URBs of a running kind posted, or has given one    *)
(* up.                                                                     *)
LEMMA LeastStep ==
  ASSUME Balanced, Iso, Urbs, UrbLeast, MtkNext
  PROVE  UrbLeast'
  <1> USE SomeIntfs, Wants
  <1>0. PmType /\ count \in Nat /\ suspending \in BOOLEAN /\ pm.i \in Nat /\ pm.auto \in BOOLEAN
        /\ posted \in [Kinds -> Nat] /\ run \in [Kinds -> BOOLEAN]
    BY DEF Balanced, PmType, Urbs, UrbType
  <1>1. ASSUME \A k \in Kinds : run'[k] /\ k \notin lost' => run[k] /\ k \notin lost /\ posted'[k] >= posted[k],
               \A k \in Kinds : ~suspending' \/ pm'.at \in Beyond[k] => ~suspending \/ pm.at \in Beyond[k],
               posted' \in [Kinds -> Nat]
        PROVE  UrbLeast'
    BY <1>0, <1>1, AllKinds DEF UrbLeast
  <1>2. ASSUME UNCHANGED <<run, posted>>, lost \subseteq lost', UNCHANGED <<pm, suspending>>
        PROVE  UrbLeast'
    BY <1>2 DEF UrbLeast
  <1>3. CASE UsbNext
    <2>1. CASE OpenIntr \/ OpenBulk
      <3>1. /\ ~run["isopkt"] /\ ~run["isoc"] /\ ~run["bulk"]
            /\ UNCHANGED <<pm, suspending>>
        BY <2>1 DEF OpenIntr, OpenBulk, Iso, IsoOff, Urbs, UrbOff, PktCourse, NoPkt, Opening
      <3>2. CASE OpenFail
        <4>1. run' = [run EXCEPT !["intr"] = FALSE]
          BY <3>2 DEF OpenFail
        <4> QED BY <1>0, <3>1, <4>1, AllKinds DEF UrbLeast
      <3>3. CASE OpenIntr /\ ~OpenFail
        <4>1. /\ run' = [run EXCEPT !["intr"] = TRUE] /\ posted' = [posted EXCEPT !["intr"] = @ + 1]
          BY <3>3 DEF OpenIntr, SubmitIntr, Post
        <4> QED BY <1>0, <3>1, <4>1, AllKinds DEF UrbLeast
      <3>4. CASE OpenBulk /\ ~OpenFail
        <4>1. PICK n \in {1, 2} : /\ run' = [run EXCEPT !["bulk"] = TRUE] /\ posted' = [posted EXCEPT !["bulk"] = @ + n]
                                  /\ IF n < 2 THEN lost' = lost \cup {"bulk"} ELSE lost' = lost \ {"bulk"}
          BY <3>4 DEF OpenBulk, SubmitBulk, Post
        <4>2. "bulk" \notin lost' => n = 2
          BY <4>1
        <4>3. run["intr"] /\ "intr" \notin lost' /\ (~suspending \/ pm.at \in Beyond["intr"]) => posted["intr"] >= 1
          BY <4>1 DEF UrbLeast
        <4> QED BY <1>0, <3>1, <4>1, <4>2, <4>3, AllKinds DEF UrbLeast
      <3> QED BY <2>1, <3>2, <3>3, <3>4
    <2>2. CASE OpenGet \/ SetRunning \/ CloseCancel \/ CloseEnd \/ Send \/ WakerStart \/ WakerGet
      BY <1>2, <2>2 DEF OpenGet, SetRunning, CloseCancel, CloseEnd, Send, SendFrame, SendSubmit, SendDefer,
         SendWake, WakerStart, WakerGet, rx, power, history
    <2>3. CASE CloseStop
      <3>1. /\ run' = [k \in Kinds |-> k = "isopkt" /\ run[k]]
            /\ posted' = [k \in Kinds |-> IF k \in {"intr", "bulk", "isoc"} THEN 0 ELSE posted[k]]
            /\ lost' = lost \cap {"isopkt"} /\ UNCHANGED <<pm, suspending>>
        BY <2>3 DEF CloseStop, StopTraffic, Kill, power
      <3> QED BY <1>0, <3>1, AllKinds DEF UrbLeast
    <2>4. CASE AclUp \/ AclDown \/ ScoChange \/ IsocData
      BY <1>2, <2>4 DEF AclUp, AclDown, ScoChange, IsocData, rx, power, history
    <2>5. CASE Work
      <3>1. UNCHANGED <<pm, suspending>>
        BY <2>5 DEF Work, WorkStart, WorkGet, WorkSwitch, Switch, WorkPost, WorkStop, power
      <3>2. \/ UNCHANGED <<run, posted>> /\ lost \subseteq lost'
            \/ /\ run' = [run EXCEPT !["isoc"] = FALSE] /\ lost \ {"isoc"} \subseteq lost'
               /\ posted' = [k \in Kinds |-> IF k \in {"isoc"} THEN 0 ELSE posted[k]]
            \/ \E n \in {1, 2} : /\ run' = [run EXCEPT !["isoc"] = TRUE]
                                 /\ posted' = [posted EXCEPT !["isoc"] = @ + n]
                                 /\ IF n < 2 THEN lost' = lost \cup {"isoc"} ELSE lost' = lost \ {"isoc"}
        BY <2>5 DEF Work, WorkStart, WorkGet, WorkSwitch, Switch, WorkPost, WorkStop, SubmitIsoc, Post, Kill, rx, history
      <3>3. ASSUME NEW n \in {1, 2}, run' = [run EXCEPT !["isoc"] = TRUE], posted' = [posted EXCEPT !["isoc"] = @ + n],
                   IF n < 2 THEN lost' = lost \cup {"isoc"} ELSE lost' = lost \ {"isoc"}
            PROVE  UrbLeast'
        <4>1. "isoc" \notin lost' => n = 2
          BY <3>3
        <4>2. /\ posted'["isoc"] = posted["isoc"] + n
              /\ \A k \in Kinds \ {"isoc"} : posted'[k] = posted[k] /\ run'[k] = run[k] /\ (k \in lost <=> k \in lost')
          BY <1>0, <3>3
        <4>3. run'["isoc"] /\ "isoc" \notin lost' => posted'["isoc"] >= Want["isoc"]
          BY <1>0, <4>1, <4>2
        <4> QED BY <3>1, <4>2, <4>3 DEF UrbLeast
      <3>4. CASE /\ run' = [run EXCEPT !["isoc"] = FALSE] /\ lost \ {"isoc"} \subseteq lost'
                 /\ posted' = [k \in Kinds |-> IF k \in {"isoc"} THEN 0 ELSE posted[k]]
        BY <1>0, <3>1, <3>4 DEF UrbLeast
      <3> QED BY <1>2, <3>1, <3>2, <3>3, <3>4
    <2>6. ASSUME NEW k \in Kinds, Gone(k)
          PROVE  UrbLeast'
      <3>1. /\ posted' = [posted EXCEPT ![k] = @ - 1] /\ UNCHANGED <<run, pm, suspending>>
            /\ lost \subseteq lost' /\ (run[k] => k \in lost')
        BY <2>6 DEF Gone, power
      <3> QED BY <1>0, <3>1 DEF UrbLeast
    <2>7. ASSUME NEW auto \in BOOLEAN, SuspendBegin(auto)
          PROVE  UrbLeast'
      <3>1. UNCHANGED <<run, posted, lost, suspending>> /\ pm.op = "none" /\ asleep = "no"
        BY <2>7 DEF SuspendBegin, rx, history
      <3>2. ~suspending
        BY <3>1 DEF Balanced, AtRest
      <3> QED BY <3>1, <3>2 DEF UrbLeast
    <2>8. CASE SuspendEnter
      <3>1. /\ pm.op = "suspend" /\ pm.at = "enter" /\ pm.i \in 1 .. Intfs
            /\ UNCHANGED <<run, posted, lost>>
        BY <2>8 DEF SuspendEnter, Enter, Balanced, GoingDown, rx, history
      <3>2. CASE Refused /\ UNCHANGED suspending
        <4>1. pm'.at \in {"none", "enter"}
          BY <1>0, <3>1, <3>2, PmRefused
        <4> QED BY <3>1, <3>2, <4>1, StagesBeyond DEF UrbLeast, ResumePc
      <3>3. CASE NextDown /\ UNCHANGED suspending
        <4>1. pm'.at \in {"flush", "enter"}
          BY <1>0, <3>1, <3>3, PmDown
        <4> QED BY <3>1, <3>3, <4>1, StagesBeyond DEF UrbLeast, ResumePc
      <3>4. CASE pm' = [pm EXCEPT !.at = "cancel"] /\ suspending' = TRUE
        <4>1. pm'.at = "cancel"
          BY <1>0, <3>4, PmGoes
        <4> QED BY <3>1, <3>4, <4>1, StagesBeyond DEF UrbLeast, ResumePc
      <3> QED BY <2>8, <3>2, <3>3, <3>4 DEF SuspendEnter, Enter
    <2>9. CASE SuspendCancel \/ SuspendKill \/ SuspendEnd
      <3>1. suspending' /\ (pm.i > 0 \/ SuspendEnd)
        BY <2>9 DEF SuspendCancel, SuspendKill, SuspendEnd, Balanced, GoingDown
      <3>2. pm'.at \in {"kill", "flush", "enter", "none"}
        BY <1>0, <2>9, <3>1, PmGoes, PmDown, PmRests DEF SuspendCancel, SuspendKill, SuspendEnd
      <3>3. \A k \in Kinds : pm'.at \notin Beyond[k]
        BY <3>2, StagesBeyond
      <3> QED BY <3>1, <3>3 DEF UrbLeast
    <2>10. CASE ResumeBegin
      <3>1. suspending' /\ pm'.at = "enter"
        BY <2>10 DEF ResumeBegin, Rest, Balanced, AtRest
      <3> QED BY <3>1, StagesBeyond DEF UrbLeast, ResumePc
    <2>11. CASE ResumeEnter
      <3>1. suspending' /\ UNCHANGED <<run, posted>>
        BY <2>11 DEF ResumeEnter, Balanced, ComingUp, ResumePc, rx
      <3>2. pm'.at \in {"none", "enter", "intr"} \/ (pm'.at = "done" /\ lost' = lost \cup {k \in Kinds : run[k]})
        BY <1>0, <2>11, PmUp, PmGoes DEF ResumeEnter
      <3>3. CASE pm'.at \in {"none", "enter", "intr"}
        <4>1. \A k \in Kinds : pm'.at \notin Beyond[k]
          BY <3>3, StagesBeyond
        <4> QED BY <3>1, <4>1 DEF UrbLeast
      <3>4. CASE lost' = lost \cup {k \in Kinds : run[k]}
        BY <3>1, <3>4 DEF UrbLeast
      <3> QED BY <3>2, <3>3, <3>4
    <2>12. CASE ResumePlay \/ ResumeFailed
      <3>1. UNCHANGED <<run, posted, lost>> /\ pm.at \in {"play", "failed"}
        BY <2>12 DEF ResumePlay, ResumeFailed, rx
      <3>2. \A k \in Kinds : pm.at \in Beyond[k]
        BY <3>1, StagesBeyond
      <3> QED BY <3>1, <3>2 DEF UrbLeast
    <2>13. CASE ResumeWork \/ ResumeDone
      <3>1. UNCHANGED <<run, posted, lost>> /\ pm.at \in {"work", "done"}
        BY <2>13 DEF ResumeWork, ResumeDone, rx, history
      <3>2. \A k \in Kinds : pm.at \in Beyond[k]
        BY <3>1, StagesBeyond
      <3> QED BY <3>1, <3>2 DEF UrbLeast
    <2>14. ASSUME NEW k \in Kinds, ResumeTest(k)
           PROVE  UrbLeast'
      <3>1. /\ pm.at = k /\ UNCHANGED <<run, posted, lost, suspending>>
            /\ \/ pm'.at = Posting[k] /\ run[k]
               \/ pm'.at = After[k] /\ ~run[k]
        BY <1>0, <2>14, PmGoes DEF ResumeTest, rx, history
      <3> SUFFICES ASSUME NEW j \in Kinds, run'[j], j \notin lost', ~suspending' \/ pm'.at \in Beyond[j]
                   PROVE  posted'[j] >= Want[j]
        BY DEF UrbLeast
      <3>2. ~suspending \/ pm.at \in Beyond[j]
        BY <3>1, StagesBeyond
      <3> QED BY <3>1, <3>2 DEF UrbLeast
    <2>15. ASSUME NEW k \in Kinds, ResumePost(k)
           PROVE  UrbLeast'
      <3>1. /\ pm.at = Posting[k] /\ UNCHANGED suspending /\ pm.op = "resume"
            /\ \/ /\ UNCHANGED run /\ pm' = [pm EXCEPT !.at = After[k]]
                  /\ \E n \in 1 .. Want[k] : /\ posted' = [posted EXCEPT ![k] = @ + n]
                                             /\ IF n < Want[k] THEN lost' = lost \cup {k} ELSE lost' = lost \ {k}
               \/ /\ run' = [run EXCEPT ![k] = FALSE] /\ UNCHANGED posted
                  /\ \/ lost' = lost \cup {k} /\ pm' = [pm EXCEPT !.at = After[k]]
                     \/ lost' = lost \cup Kinds
        BY <2>15 DEF ResumePost, ResumeAs, Post
      <3>2. suspending
        BY <3>1, Stages DEF Balanced, ComingUp
      <3>3. Want[k] \in Nat
        BY AllKinds
      <3>4. CASE lost' = lost \cup Kinds
        BY <3>4 DEF UrbLeast
      <3>5. ASSUME run' = [run EXCEPT ![k] = FALSE], UNCHANGED posted, lost' = lost \cup {k}, pm' = [pm EXCEPT !.at = After[k]]
            PROVE  UrbLeast'
        <4>1. pm'.at = After[k]
          BY <1>0, <3>5, PmGoes
        <4> SUFFICES ASSUME NEW j \in Kinds, run'[j], j \notin lost', ~suspending' \/ pm'.at \in Beyond[j]
                     PROVE  posted'[j] >= Want[j]
          BY DEF UrbLeast
        <4>2. j # k /\ run[j] /\ j \notin lost
          BY <1>0, <3>5
        <4>3. pm.at \in Beyond[j]
          BY <3>1, <3>2, <4>1, <4>2, StagesBeyond
        <4> QED BY <3>5, <4>2, <4>3 DEF UrbLeast
      <3>6. ASSUME UNCHANGED run, pm' = [pm EXCEPT !.at = After[k]],
                   NEW n \in 1 .. Want[k], posted' = [posted EXCEPT ![k] = @ + n],
                   IF n < Want[k] THEN lost' = lost \cup {k} ELSE lost' = lost \ {k}
            PROVE  UrbLeast'
        <4>1. pm'.at = After[k]
          BY <1>0, <3>6, PmGoes
        <4> SUFFICES ASSUME NEW j \in Kinds, run'[j], j \notin lost', ~suspending' \/ pm'.at \in Beyond[j]
                     PROVE  posted'[j] >= Want[j]
          BY DEF UrbLeast
        <4>2. CASE j = k
          <5>1. n = Want[k]
            BY <3>3, <3>6, <4>2
          <5> QED BY <1>0, <3>3, <3>6, <4>2, <5>1
        <4>3. CASE j # k
          <5>1. run[j] /\ j \notin lost /\ posted'[j] = posted[j]
            BY <1>0, <3>6, <4>3
          <5>2. pm.at \in Beyond[j]
            BY <3>1, <3>2, <4>1, <4>3, StagesBeyond
          <5> QED BY <5>1, <5>2 DEF UrbLeast
        <4> QED BY <4>2, <4>3
      <3> QED BY <3>1, <3>4, <3>5, <3>6
    <2> QED BY <1>3, <2>1, <2>2, <2>3, <2>4, <2>5, <2>6, <2>7, <2>8, <2>9, <2>10, <2>11, <2>12, <2>13, <2>14, <2>15
            DEF UsbNext, Suspend, Resume, IntrComplete, BulkComplete, IsocComplete, IsoPktComplete
  <1>4. CASE DeviceGets \/ FrameGone \/ Wmt
    <2>1. UNCHANGED <<run, posted, lost, pm, suspending>>
      BY <1>4 DEF DeviceGets, FrameGone, Wmt, WmtGet, WmtSend, WmtUrb, WmtTimeout, WmtParse, Parse,
        RecvTest, RecvClear, RecvGone, usb, vars, rx, power, iso, history
    <2> QED BY <1>2, <2>1
  <1>5. CASE Setup \/ Shutdown \/ Reset
    <2>1. UNCHANGED <<pm, suspending>>
      BY <1>5 DEF Setup, SetupId, SetupAsk, SetupQueried, SetupSent, SetupFunc, SetupReg, SetupIso,
        SetupIsoCmd, SetupFailed, Answered, CloseBegin, usb, vars, Shutdown, ShutdownBegin, ShutdownAsk,
        ShutdownTold, ShutdownEnd, ShutdownClose, Reset, DumpPacket, DumpEnd, ResetBegin, ResetGet, ResetStop,
        ResetEnd, UsbReset, Disconnect, power
    <2>2. CASE SetupIso
      <3>1. /\ UNCHANGED <<run, lost>>
            /\ UNCHANGED posted \/ posted' = [posted EXCEPT !["isopkt"] = @ + 1]
        BY <2>2 DEF SetupIso
      <3>2. posted' \in [Kinds -> Nat] /\ \A k \in Kinds : posted'[k] >= posted[k]
        BY <1>0, <3>1
      <3> QED BY <1>0, <1>1, <2>1, <3>1, <3>2
    <2>3. CASE SetupIsoCmd
      <3>1. /\ UNCHANGED posted
            /\ \/ UNCHANGED <<run, lost>>
               \/ /\ run' = [run EXCEPT !["isopkt"] = TRUE] /\ lost \subseteq lost'
                  /\ posted["isopkt"] = 0 => "isopkt" \in lost'
        BY <2>3 DEF SetupIsoCmd
      <3>2. ASSUME run' = [run EXCEPT !["isopkt"] = TRUE], lost \subseteq lost', posted["isopkt"] = 0 => "isopkt" \in lost'
            PROVE  UrbLeast'
        BY <1>0, <2>1, <3>1, <3>2, AllKinds DEF UrbLeast
      <3> QED BY <1>2, <2>1, <3>1, <3>2
    <2>4. CASE ShutdownEnd
      <3>1. /\ run' = [run EXCEPT !["isopkt"] = FALSE] /\ lost' = lost \ {"isopkt"}
            /\ posted' = [k \in Kinds |-> IF k \in {"isopkt"} THEN 0 ELSE posted[k]]
        BY <2>4 DEF ShutdownEnd, ReleaseIso, Kill
      <3> QED BY <1>0, <2>1, <3>1 DEF UrbLeast
    <2>5. CASE ResetStop
      BY <2>5 DEF ResetStop, UrbLeast
    <2>6. CASE ~SetupIso /\ ~SetupIsoCmd /\ ~ShutdownEnd /\ ~ResetStop
      <3>1. UNCHANGED <<run, posted, lost>>
        BY <1>5, <2>6 DEF Setup, SetupId, SetupAsk, SetupQueried, SetupSent, SetupFunc, SetupReg,
          SetupFailed, Answered, CloseBegin, usb, vars, Shutdown, ShutdownBegin, ShutdownAsk,
          ShutdownTold, ShutdownClose, Reset, DumpPacket, DumpEnd, ResetBegin, ResetGet,
          ResetEnd, UsbReset, Disconnect, rx, history
      <3> QED BY <1>2, <2>1, <3>1
    <2> QED BY <2>2, <2>3, <2>4, <2>5, <2>6
  <1> QED BY <1>3, <1>4, <1>5 DEF MtkNext

(***************************************************************************)
(* BTMTK_HW_RESET_ACTIVE is set exactly while btusb_mtk_reset works, or    *)
(* after one that never woke the device: ResetBegin finds it set only then.*)
(***************************************************************************)
Resets == rst # "refused" /\ (active => rst \in {"get", "unwoken", "stop", "toggle", "gone"})

(* Every step keeps the flag with the reset.                               *)
LEMMA ResetsStep ==
  ASSUME Resets, MtkNext
  PROVE  Resets'
  <1>1. ASSUME UNCHANGED <<rst, active>>
        PROVE  Resets'
    BY <1>1 DEF Resets
  <1>2. CASE UNCHANGED mvars
    BY <1>1, <1>2 DEF mvars, reset
  <1>3. CASE DeviceGets \/ FrameGone \/ Wmt
    <2>1. UNCHANGED reset
      BY <1>3 DEF DeviceGets, FrameGone, Wmt, WmtGet, WmtSend, WmtUrb, WmtTimeout,
         WmtParse, Parse, RecvTest, RecvClear, RecvGone
    <2> QED BY <1>1, <2>1 DEF reset
  <1>4. CASE Setup \/ Shutdown
    BY <1>4 DEF Resets, reset, Setup, SetupId, SetupAsk, SetupQueried, SetupSent, SetupFunc, SetupReg, SetupIso,
       SetupIsoCmd, SetupFailed, Answered, Shutdown, ShutdownBegin, ShutdownAsk, ShutdownTold,
       ShutdownEnd, ShutdownClose
  <1>5. CASE Reset
    BY <1>5 DEF Resets, Reset, DumpPacket, DumpEnd, ResetBegin, ResetGet, ResetStop, ResetEnd, UsbReset,
       Disconnect, mvars, reset
  <1> QED BY <1>2, <1>3, <1>4, <1>5 DEF MtkNext, mvars

-----------------------------------------------------------------------------
(* SetupSound.  First the types: of what the driver keeps, and of the      *)
(* device's side.                                                          *)
Asks == {"query", "first", "next", "on", "off"}
Says == {"ok", "DONE", "UNDONE", "PROGRESS"}
Event == [ask : Asks, says : Says, own : BOOLEAN]
Plan == [at : {"none", "query", "block", "reg", "func", "iso", "isocmd", "over", "off", "release"},
         left : 0 .. Blocks, retry : 0 .. Retries]
Command == [at : {"idle", "get", "send", "urb", "wait", "fail"} \cup Says, ask : Asks \cup {"none"}]
Device == [sent : Asks \cup {"none"}, events : Seq(Event), blocks : 0 .. Blocks,
           on : BOOLEAN, reset : BOOLEAN]
UsbTypes ==
    /\ hci \in {"down", "open_intr", "open_bulk", "opened", "setup", "up", "shutdown", "closing",
                "close_stop", "close_put"}
    /\ ctrl \in {"none", "posted", "handler"}
    /\ refs \subseteq {"open", "iso", "wmt", "shutdown", "dump", "reset"}
    /\ pm.i \in 0 .. Intfs
    /\ links.acl \in BOOLEAN /\ links.sco <= load.sco
    /\ work.queued \in BOOLEAN /\ work.at \in {"idle", "get", "alt", "start", "stop"}
MtkTypes ==
    /\ plan \in Plan /\ cmd \in Command /\ evt \in Event \cup {Nothing} /\ dev \in Device
    /\ wait \in BOOLEAN /\ late \in BOOLEAN /\ dump \in BOOLEAN /\ active \in BOOLEAN
    /\ Len(dev.events) <= MaxEvents
    /\ rst \in {"idle", "wanted", "refused", "get", "unwoken", "stop", "toggle", "queued", "gone"}

(* The bounds on blocks, retries and events.                               *)
LEMMA SomeBlocks == Blocks \in Nat /\ Blocks > 0 /\ Retries \in Nat /\ Retries > 0
                    /\ MaxEvents \in Nat /\ MaxEvents > 0
  BY MtkAssumption

(* Every step keeps the types of the transport.                            *)
LEMMA UsbTypesStep ==
  ASSUME Balanced, Iso, UsbTypes, MtkNext
  PROVE  UsbTypes'
  <1> USE SomeIntfs DEF rx, tx, iso, power, history
  <1>1. /\ hci' \in {"down", "open_intr", "open_bulk", "opened", "setup", "up", "shutdown", "closing",
                     "close_stop", "close_put"}
        /\ ctrl' \in {"none", "posted", "handler"}
        /\ refs' \subseteq {"open", "iso", "wmt", "shutdown", "dump", "reset"}
    <2> USE DEF UsbTypes
    <2>1. CASE UsbNext
      BY <2>1 DEF UsbNext, OpenGet, OpenIntr, OpenBulk, OpenFail, SetRunning, CloseCancel, CloseStop,
      StopTraffic, CloseEnd, Send, SendFrame, SendSubmit, SendDefer, SendWake, WakerStart, WakerGet,
      AclUp, AclDown, ScoChange, Work, WorkStart, WorkGet, WorkSwitch, Switch, WorkPost, WorkStop,
      IsocData, IntrComplete, BulkComplete, IsocComplete, IsoPktComplete, Gone, SuspendBegin, Suspend,
      SuspendEnter, Enter, SuspendCancel, SuspendKill, SuspendEnd, Resume, ResumeBegin, ResumeEnter,
      ResumePlay, ResumeWork, ResumeFailed, ResumeDone, ResumeTest, ResumePost, ResumeAs
    <2>2. CASE DeviceGets \/ FrameGone \/ Wmt
      BY <2>2 DEF DeviceGets, FrameGone, Wmt, WmtGet, WmtSend, WmtUrb, WmtTimeout, WmtParse, Parse,
      RecvTest, RecvClear, RecvGone, usb, vars
    <2>3. CASE Setup \/ Shutdown
      BY <2>3 DEF Setup, SetupId, SetupAsk, SetupQueried, SetupSent, SetupFunc, SetupReg, SetupIso,
      SetupIsoCmd, SetupFailed, Answered, CloseBegin, usb, vars, Shutdown, ShutdownBegin, ShutdownAsk,
      ShutdownTold, ShutdownEnd, ShutdownClose
    <2>4. CASE Reset
      BY <2>4 DEF Reset, DumpPacket, DumpEnd, ResetBegin, ResetGet, ResetStop, ResetEnd, UsbReset,
      Disconnect, CloseBegin, usb, vars
    <2> QED BY <2>1, <2>2, <2>3, <2>4 DEF MtkNext
  <1>2. pm'.i \in 0 .. Intfs
    <2>0. PmType /\ pm.i \in 0 .. Intfs
      BY DEF Balanced, UsbTypes
    <2>1. ASSUME NEW auto \in BOOLEAN, SuspendBegin(auto)
          PROVE  pm'.i \in 0 .. Intfs
      <3>1. pm' = [Rest EXCEPT !.op = "suspend", !.auto = auto, !.i = Intfs, !.at = "enter"]
        BY <2>1 DEF SuspendBegin
      <3>2. pm'.i = Intfs
        BY <3>1, PmBegins
      <3> QED BY <3>2
    <2>2. ASSUME UNCHANGED pm \/ NextUp \/ (pm.i > 0 /\ NextDown) \/ Refused \/ (\E t : pm' = [pm EXCEPT !.at = t])
          PROVE  pm'.i \in 0 .. Intfs
      <3>1. CASE UNCHANGED pm
        BY <2>0, <3>1
      <3>2. CASE NextUp
        <4>1. pm'.i = 0 \/ (pm.i # Intfs /\ pm'.i = pm.i + 1)
          BY <2>0, <3>2, PmUp
        <4> QED BY <2>0, <4>1
      <3>3. CASE pm.i > 0 /\ NextDown
        BY <2>0, <3>3, PmDown
      <3>4. CASE Refused
        <4>1. pm'.i = 0 \/ (pm.i # Intfs /\ pm'.i = pm.i + 1)
          BY <2>0, <3>4, PmRefused
        <4> QED BY <2>0, <4>1
      <3>5. ASSUME NEW t, pm' = [pm EXCEPT !.at = t]
            PROVE  pm'.i \in 0 .. Intfs
        BY <2>0, <3>5, PmGoes
      <3> QED BY <2>2, <3>1, <3>2, <3>3, <3>4, <3>5
    <2>3. CASE Suspend
      <3>1. CASE SuspendEnter
        <4>1. pm.i > 0
          BY <3>1 DEF SuspendEnter, Enter, Balanced, GoingDown
        <4> QED BY <2>2, <3>1, <4>1 DEF SuspendEnter, Enter
      <3>2. CASE SuspendCancel
        BY <2>2, <3>2 DEF SuspendCancel
      <3>3. CASE SuspendKill
        <4>1. pm.i > 0
          BY <3>3 DEF SuspendKill, Balanced, GoingDown
        <4> QED BY <2>2, <3>3, <4>1 DEF SuspendKill
      <3>4. CASE SuspendEnd
        BY <3>4 DEF SuspendEnd, Rest
      <3> QED BY <2>3, <3>1, <3>2, <3>3, <3>4 DEF Suspend
    <2>4. CASE Resume
      <3>1. CASE ResumeBegin
        BY <3>1 DEF ResumeBegin, Rest
      <3>2. CASE ResumeEnter
        BY <2>2, <3>2 DEF ResumeEnter
      <3>3. CASE ResumePlay \/ ResumeWork \/ ResumeFailed \/ ResumeDone
        BY <2>2, <3>3 DEF ResumePlay, ResumeWork, ResumeFailed, ResumeDone
      <3>4. ASSUME NEW k \in Kinds, ResumeTest(k) \/ ResumePost(k)
            PROVE  pm'.i \in 0 .. Intfs
        BY <2>2, <3>4 DEF ResumeTest, ResumePost, ResumeAs
      <3> QED BY <2>4, <3>1, <3>2, <3>3, <3>4 DEF Resume
    <2>5. CASE Frames
      BY <2>2, <2>5 DEF Frames
    <2> QED BY <2>1, <2>3, <2>4, <2>5, Phases
  <1>3. links'.acl \in BOOLEAN /\ links'.sco <= load'.sco
    <2>0. /\ links.acl \in BOOLEAN /\ links.sco <= load.sco /\ load.sco \in Nat /\ UNCHANGED load
          /\ links = [acl |-> links.acl, sco |-> links.sco]
      BY LoadStep, UsbAssumption DEF UsbTypes, Iso, IsoType
    <2>1. \/ UNCHANGED links
          \/ links' = [links EXCEPT !.acl = TRUE]
          \/ \E n \in 0 .. load.sco : links' = [links EXCEPT !.sco = n]
          \/ links' = [acl |-> FALSE, sco |-> 0]
      <3>1. CASE UsbNext
        BY <3>1 DEF UsbNext, OpenGet, OpenIntr, OpenBulk, OpenFail, SetRunning, CloseCancel, CloseStop,
        CloseEnd, Send, SendFrame, SendSubmit, SendDefer, SendWake, WakerStart, WakerGet,
        AclUp, AclDown, LinksDown, ScoChange, Work, WorkStart, WorkGet, WorkSwitch, Switch, WorkPost, WorkStop,
        IsocData, IntrComplete, BulkComplete, IsocComplete, IsoPktComplete, Gone, SuspendBegin, Suspend,
        SuspendEnter, Enter, SuspendCancel, SuspendKill, SuspendEnd, Resume, ResumeBegin, ResumeEnter,
        ResumePlay, ResumeWork, ResumeFailed, ResumeDone, ResumeTest, ResumePost, ResumeAs
      <3>2. CASE DeviceGets \/ FrameGone \/ Wmt
        BY <3>2 DEF DeviceGets, FrameGone, Wmt, WmtGet, WmtSend, WmtUrb, WmtTimeout, WmtParse, Parse,
        RecvTest, RecvClear, RecvGone, usb, vars
      <3>3. CASE Setup \/ Shutdown
        BY <3>3 DEF Setup, SetupId, SetupAsk, SetupQueried, SetupSent, SetupFunc, SetupReg, SetupIso,
        SetupIsoCmd, SetupFailed, Answered, CloseBegin, LinksDown, usb, vars, Shutdown, ShutdownBegin,
        ShutdownAsk, ShutdownTold, ShutdownEnd, ShutdownClose
      <3>4. CASE Reset
        BY <3>4 DEF Reset, DumpPacket, DumpEnd, ResetBegin, ResetGet, ResetStop, ResetEnd, UsbReset,
        Disconnect, CloseBegin, LinksDown, usb, vars
      <3> QED BY <3>1, <3>2, <3>3, <3>4 DEF MtkNext
    <2>2. \E a \in BOOLEAN, n \in 0 .. load.sco : links' = [acl |-> a, sco |-> n]
      <3>1. links.sco \in 0 .. load.sco
        BY <2>0 DEF Iso, IsoType
      <3>2. CASE UNCHANGED links
        BY <2>0, <3>1, <3>2
      <3>3. CASE links' = [links EXCEPT !.acl = TRUE]
        <4>1. links' = [acl |-> TRUE, sco |-> links.sco]
          BY <2>0, <3>3
        <4> QED BY <3>1, <4>1
      <3>4. ASSUME NEW n \in 0 .. load.sco, links' = [links EXCEPT !.sco = n]
            PROVE  \E a \in BOOLEAN, m \in 0 .. load.sco : links' = [acl |-> a, sco |-> m]
        <4>1. links' = [acl |-> links.acl, sco |-> n]
          BY <2>0, <3>4
        <4> QED BY <2>0, <4>1
      <3>5. CASE links' = [acl |-> FALSE, sco |-> 0]
        <4>1. 0 \in 0 .. load.sco
          BY <2>0
        <4> QED BY <3>5, <4>1, Zenon
      <3> QED BY <2>1, <3>2, <3>3, <3>4, <3>5
    <2> QED BY <2>0, <2>2
  <1>4. work'.queued \in BOOLEAN /\ work'.at \in {"idle", "get", "alt", "start", "stop"}
    <2>0. /\ work.queued \in BOOLEAN /\ work.at \in {"idle", "get", "alt", "start", "stop"}
          /\ work = [queued |-> work.queued, at |-> work.at]
      BY DEF UsbTypes, Iso, IsoType
    <2>1. \/ UNCHANGED work
          \/ \E q \in BOOLEAN : work' = [work EXCEPT !.queued = q]
          \/ \E t \in {"idle", "alt", "start"} : work' = [work EXCEPT !.at = t]
          \/ \E t \in {"stop", "alt", "get"} : work' = [queued |-> FALSE, at |-> t]
      <3>1. CASE UsbNext
        BY <2>0, <3>1 DEF UsbNext, OpenGet, OpenIntr, OpenBulk, OpenFail, SetRunning, CloseCancel, CloseStop,
        CloseEnd, Send, SendFrame, SendSubmit, SendDefer, SendWake, WakerStart, WakerGet,
        AclUp, AclDown, LinksDown, ScoChange, Work, WorkStart, WorkGet, WorkSwitch, Switch, WorkPost, WorkStop,
        IsocData, IntrComplete, BulkComplete, IsocComplete, IsoPktComplete, Gone, SuspendBegin, Suspend,
        SuspendEnter, Enter, SuspendCancel, SuspendKill, SuspendEnd, Resume, ResumeBegin, ResumeEnter,
        ResumePlay, ResumeWork, ResumeFailed, ResumeDone, ResumeTest, ResumePost, ResumeAs
      <3>2. CASE DeviceGets \/ FrameGone \/ Wmt
        BY <3>2 DEF DeviceGets, FrameGone, Wmt, WmtGet, WmtSend, WmtUrb, WmtTimeout, WmtParse, Parse,
        RecvTest, RecvClear, RecvGone, usb, vars
      <3>3. CASE Setup \/ Shutdown
        BY <2>0, <3>3 DEF Setup, SetupId, SetupAsk, SetupQueried, SetupSent, SetupFunc, SetupReg, SetupIso,
        SetupIsoCmd, SetupFailed, Answered, CloseBegin, LinksDown, usb, vars, Shutdown, ShutdownBegin,
        ShutdownAsk, ShutdownTold, ShutdownEnd, ShutdownClose
      <3>4. CASE Reset
        BY <2>0, <3>4 DEF Reset, DumpPacket, DumpEnd, ResetBegin, ResetGet, ResetStop, ResetEnd, UsbReset,
        Disconnect, CloseBegin, LinksDown, usb, vars
      <3> QED BY <3>1, <3>2, <3>3, <3>4 DEF MtkNext
    <2>2. CASE UNCHANGED work
      BY <2>0, <2>2
    <2>3. ASSUME NEW q \in BOOLEAN, work' = [work EXCEPT !.queued = q]
          PROVE  work'.queued \in BOOLEAN /\ work'.at \in {"idle", "get", "alt", "start", "stop"}
      <3>1. work' = [queued |-> q, at |-> work.at]
        BY <2>0, <2>3
      <3> QED BY <2>0, <3>1
    <2>4. ASSUME NEW t \in {"idle", "alt", "start"}, work' = [work EXCEPT !.at = t]
          PROVE  work'.queued \in BOOLEAN /\ work'.at \in {"idle", "get", "alt", "start", "stop"}
      <3>1. work' = [queued |-> work.queued, at |-> t]
        BY <2>0, <2>4
      <3> QED BY <2>0, <3>1
    <2>5. ASSUME NEW t \in {"stop", "alt", "get"}, work' = [queued |-> FALSE, at |-> t]
          PROVE  work'.queued \in BOOLEAN /\ work'.at \in {"idle", "get", "alt", "start", "stop"}
      BY <2>5
    <2> QED BY <2>1, <2>2, <2>3, <2>4, <2>5
  <1> QED BY <1>1, <1>2, <1>3, <1>4 DEF UsbTypes
-----------------------------------------------------------------------------
(* The events the device keeps.                                            *)
Held == {dev.events[i] : i \in DOMAIN dev.events}

(* They are well formed.                                                   *)
LEMMA HeldAre ==
  ASSUME dev \in Device
  PROVE  Held \subseteq Event
  BY DEF Device, Held

(* The driver reads the first of them.                                     *)
LEMMA HeldTail ==
  ASSUME dev \in Device, dev.events # <<>>, dev' = [dev EXCEPT !.events = Tail(@)]
  PROVE  /\ dev' \in Device /\ Head(dev.events) \in Held /\ Held' \subseteq Held
         /\ dev'.sent = dev.sent /\ dev'.blocks = dev.blocks /\ dev'.on = dev.on
         /\ dev'.reset = dev.reset /\ Len(dev'.events) <= Len(dev.events)
  <1> DEFINE s == dev.events
  <1>1. s \in Seq(Event) /\ s # <<>>
    BY DEF Device
  <1>2. /\ dev'.events = Tail(s) /\ dev'.sent = dev.sent /\ dev'.blocks = dev.blocks
        /\ dev'.on = dev.on /\ dev'.reset = dev.reset
        /\ dev' = [sent |-> dev.sent, events |-> Tail(s), blocks |-> dev.blocks, on |-> dev.on,
                   reset |-> dev.reset]
    BY DEF Device
  <1>3. Held = {s[i] : i \in DOMAIN s} /\ Held' = {dev'.events[i] : i \in DOMAIN dev'.events}
    BY DEF Held
  <1> HIDE DEF s
  <1>4. /\ Tail(s) \in Seq(Event) /\ Head(s) = s[1] /\ 1 \in DOMAIN s /\ Len(Tail(s)) = Len(s) - 1
        /\ \A i \in DOMAIN Tail(s) : Tail(s)[i] = s[i + 1] /\ i + 1 \in DOMAIN s
    BY <1>1
  <1>5. Head(s) \in Held /\ Held' \subseteq Held
    BY <1>2, <1>3, <1>4
  <1>6. dev' \in Device
    BY <1>2, <1>4 DEF Device
  <1>7. Len(Tail(s)) <= Len(s)
    BY <1>1, <1>4
  <1> QED BY <1>2, <1>5, <1>6, <1>7 DEF s

(* A new command owns none of them.                                        *)
LEMMA HeldBegin ==
  ASSUME dev \in Device,
         dev' = [dev EXCEPT !.events = [i \in DOMAIN @ |-> [@[i] EXCEPT !.own = FALSE]]]
  PROVE  /\ dev' \in Device /\ \A e \in Held' : ~e.own
         /\ dev'.sent = dev.sent /\ dev'.blocks = dev.blocks /\ dev'.on = dev.on
         /\ dev'.reset = dev.reset /\ Len(dev'.events) = Len(dev.events)
  <1> DEFINE s == dev.events
             t == [i \in DOMAIN s |-> [s[i] EXCEPT !.own = FALSE]]
  <1>1. s \in Seq(Event)
    BY DEF Device
  <1>2. /\ dev'.events = t /\ dev'.sent = dev.sent /\ dev'.blocks = dev.blocks
        /\ dev'.on = dev.on /\ dev'.reset = dev.reset
        /\ dev' = [sent |-> dev.sent, events |-> t, blocks |-> dev.blocks, on |-> dev.on,
                   reset |-> dev.reset]
    BY DEF Device
  <1>3. DOMAIN t = DOMAIN s /\ \A i \in DOMAIN s : t[i] \in Event /\ ~t[i].own
    <2>1. ASSUME NEW i \in DOMAIN s
          PROVE  [s[i] EXCEPT !.own = FALSE] \in Event /\ ~[s[i] EXCEPT !.own = FALSE].own
      <3>1. s[i] \in Event
        BY <1>1
      <3> HIDE DEF s
      <3> QED BY <3>1 DEF Event
    <2> HIDE DEF s
    <2> QED BY <2>1
  <1>4. t \in Seq(Event) /\ Len(t) = Len(s)
    <2>1. DOMAIN s = 1 .. Len(s) /\ Len(s) \in Nat
      BY <1>1
    <2> HIDE DEF s
    <2>2. t \in [1 .. Len(s) -> Event]
      BY <1>3, <2>1
    <2> HIDE DEF t
    <2> QED BY <2>1, <2>2
  <1> HIDE DEF t
  <1>5. \A e \in Held' : ~e.own
    BY <1>2, <1>3 DEF Held
  <1>6. dev' \in Device
    BY <1>2, <1>4 DEF Device
  <1> QED BY <1>2, <1>4, <1>5, <1>6

(* The device answers.                                                     *)
LEMMA HeldAppend ==
  ASSUME dev \in Device, Len(dev.events) <= MaxEvents, DeviceGets
  PROVE  /\ dev.sent \in Asks /\ dev' \in Device /\ Len(dev'.events) <= MaxEvents
         /\ \E says \in Answers(dev.sent) :
              Held' \subseteq Held \cup {[ask |-> dev.sent, says |-> says, own |-> cmd.at \in {"urb", "wait"}]}
         /\ dev'.sent = "none" /\ dev'.reset = dev.reset
         /\ dev.sent = "first" => dev'.blocks = 1
         /\ dev.sent = "next" /\ dev.blocks \in 1 .. Blocks - 1 => dev'.blocks = dev.blocks + 1
         /\ dev.sent \notin {"first", "next"} => dev'.blocks = dev.blocks
         /\ dev'.on = ((dev.on \/ dev.sent = "on") /\ dev.sent # "off")
  <1> USE SomeBlocks
  <1>0. dev.sent \in Asks
    BY DEF DeviceGets, Device
  <1>1. PICK says \in Answers(dev.sent) :
         dev' = [dev EXCEPT
             !.sent = "none",
             !.events = IF Len(@) = MaxEvents THEN @
                        ELSE Append(@, [ask |-> dev.sent, says |-> says,
                                        own |-> cmd.at \in {"urb", "wait"}]),
             !.blocks = CASE dev.sent = "first" -> 1
                          [] dev.sent = "next" /\ @ \in 1 .. Blocks - 1 -> @ + 1
                          [] OTHER -> @,
             !.on = (@ \/ dev.sent = "on") /\ dev.sent # "off"]
    BY DEF DeviceGets
  <1> DEFINE s == dev.events
             e == [ask |-> dev.sent, says |-> says, own |-> cmd.at \in {"urb", "wait"}]
             t == IF Len(s) = MaxEvents THEN s ELSE Append(s, e)
             b == CASE dev.sent = "first" -> 1
                    [] dev.sent = "next" /\ dev.blocks \in 1 .. Blocks - 1 -> dev.blocks + 1
                    [] OTHER -> dev.blocks
             o == (dev.on \/ dev.sent = "on") /\ dev.sent # "off"
  <1>2. s \in Seq(Event) /\ dev.blocks \in 0 .. Blocks /\ Len(s) <= MaxEvents
    BY DEF Device
  <1>3. dev' = [sent |-> "none", events |-> t, blocks |-> b, on |-> o, reset |-> dev.reset]
    BY <1>1 DEF Device
  <1>4. e \in Event
    BY <1>0 DEF Event, Answers, Says
  <1> HIDE DEF e
  <1>5. /\ t \in Seq(Event) /\ Len(t) <= MaxEvents
        /\ \A i \in DOMAIN t : t[i] = e \/ (i \in DOMAIN s /\ t[i] = s[i])
    BY <1>2, <1>4
  <1> HIDE DEF t
  <1>6. b \in 0 .. Blocks
    BY <1>2
  <1>7. /\ dev.sent = "first" => b = 1
        /\ dev.sent = "next" /\ dev.blocks \in 1 .. Blocks - 1 => b = dev.blocks + 1
        /\ dev.sent \notin {"first", "next"} => b = dev.blocks
    BY <1>2
  <1>8. o \in BOOLEAN
    BY DEF Device
  <1> HIDE DEF b
  <1>9. dev' \in Device
    BY <1>3, <1>5, <1>6, <1>8 DEF Device
  <1>10. Held' \subseteq Held \cup {e}
    BY <1>3, <1>5 DEF Held
  <1> QED BY <1>0, <1>1, <1>3, <1>5, <1>7, <1>9, <1>10 DEF e
-----------------------------------------------------------------------------
(* What the driver may conclude, unless an event of a command given up was *)
(* taken for an answer or the device was reset under it.                   *)
Trusted == ~dev.reset /\ ~late
(* Nothing is on its way to the device.                                    *)
Unsent == out = 0 /\ deferred = 0 /\ sender = "idle"

(* An event that answers the command under way says what it did.           *)
Tells(e) == /\ e.ask = "query" => e.says # "ok"
            /\ e.ask = "query" /\ e.says = "DONE" => dev.blocks = Blocks
            /\ e.ask \in {"first", "next"} => dev.blocks = Blocks - plan.left + 1
            /\ e.ask = "on" => dev.on
Mine(e) == e.ask = cmd.ask /\ (Trusted => dev.sent = "none" /\ Tells(e))

(* What the plan of a setup or shutdown holds, and when there is one.      *)
PlanCourse ==
    /\ hci \notin {"setup", "shutdown"} => plan.at = "none"
    /\ hci = "setup" => plan.at \notin {"off", "release"}
    /\ plan.at = "query" => plan.left = Blocks /\ plan.retry > 0
    /\ plan.at = "block" => plan.left > 0
(* No frame is on its way from a close until the setup's first command.    *)
Quieted ==
    /\ hci \in Closing \cup {"down"} \cup Opening => out = 0
    /\ hci = "setup" /\ plan.at = "none" => Unsent
(* The control endpoint is polled for the command under way only, or for   *)
(* one given up, and after that the setup is over; a command that is not   *)
(* waiting yet has set the bit.                                            *)
Polls ==
    /\ hci \in {"close_put", "down"} \cup Opening => ctrl = "none"
    /\ hci = "setup" /\ plan.at # "over" /\ cmd.at \notin {"wait", "fail"} => ctrl = "none"
    /\ hci = "setup" /\ cmd.at = "wait" /\ ~wait => ctrl = "none"
    /\ hci = "setup" /\ cmd.at \in {"get", "send", "urb"} => wait
(* A command asks what the plan is at, and the device is sent nothing else.*)
Commands ==
    hci = "setup" /\ cmd.at # "idle" =>
      /\ plan.at = "query" => cmd.ask = "query"
      /\ plan.at = "block" => cmd.ask = IF plan.left = Blocks THEN "first" ELSE "next"
      /\ plan.at = "func" => cmd.ask = "on"
      /\ cmd.at \in {"urb", "wait"} => dev.sent \in {"none", cmd.ask}
(* An event the device keeps, and that the command under way will take for *)
(* its own, is its own.                                                    *)
Kept ==
    hci = "setup" =>
      /\ cmd.at \in {"get", "send"} => \A e \in Held : ~e.own
      /\ cmd.at \in {"urb", "wait"} => \A e \in Held : e.own => Mine(e)
(* So is the one the driver has taken, once the bit says so or is about to.*)
Taken ==
    hci = "setup" /\ cmd.at = "wait" /\ (~wait \/ ctrl = "handler") =>
      evt \in Event /\ (evt.own => Mine(evt))
(* No command outlives its answer on the way to the device.                *)
Sent ==
    hci = "setup" /\ Trusted =>
      /\ cmd.at \in {"idle", "get", "send"} /\ plan.at # "over" => dev.sent = "none" \/ Unsent
      /\ cmd.at = "fail" => dev.sent \in {"none", cmd.ask} \/ Unsent
      /\ cmd.at \in Says => dev.sent = "none"
(* The device is where the plan supposes it to be.                         *)
Progress ==
    hci = "setup" /\ Trusted =>
      /\ plan.at = "query" => cmd.at # "ok" /\ (cmd.at = "DONE" => dev.blocks = Blocks)
      /\ plan.at = "block" /\ plan.left < Blocks
           /\ (cmd.at \in {"idle", "get", "send"} \/ (cmd.at \in {"urb", "wait"} /\ dev.sent # "none"))
         => dev.blocks = Blocks - plan.left
      /\ plan.at = "block" /\ cmd.at \in Says => dev.blocks = Blocks - plan.left + 1
      /\ plan.at \in {"reg", "func", "iso", "isocmd"} => dev.blocks = Blocks
      /\ plan.at = "func" /\ cmd.at \in Says => dev.on
      /\ plan.at \in {"iso", "isocmd"} => dev.on /\ dev.sent = "none"
(* UpMeansLoaded, and no command is left that could undo it.               *)
Up == hci = "up" /\ Trusted => dev.blocks = Blocks /\ dev.on /\ dev.sent = "none"
(* The firmware and the function, from the open to the end of the setup.   *)
Firm == /\ PlanCourse /\ Quieted /\ Polls /\ Commands /\ Kept /\ Taken /\ Sent /\ Progress /\ Up

(* A command goes on to its next step.                                     *)
LEMMA CmdGoes ==
  ASSUME cmd \in Command, NEW r, Give(r)
  PROVE  cmd'.at = r /\ cmd'.ask = cmd.ask
         /\ (r \in {"idle", "get", "send", "urb", "wait", "fail"} \cup Says => cmd' \in Command)
  <1>1. cmd' = [at |-> r, ask |-> cmd.ask]
    BY DEF Command, Give
  <1> QED BY <1>1 DEF Command

(* The plan goes on to another step,                                       *)
LEMMA PlanGoes ==
  ASSUME plan \in Plan, NEW t, Goto(t)
  PROVE  plan'.at = t /\ plan'.left = plan.left /\ plan'.retry = plan.retry
         /\ (t \in {"reg", "func", "iso", "isocmd", "off", "release"} => plan' \in Plan)
  <1>1. plan' = [at |-> t, left |-> plan.left, retry |-> plan.retry]
    BY DEF Plan, Goto
  <1> QED BY <1>1 DEF Plan

(* or is over; no event is one of the model's own making.                  *)
LEMMA PlanOver ==
  /\ Over \in Plan /\ Over.at = "over" /\ NoPlan \in Plan /\ NoPlan.at = "none"
  /\ Idle \in Command /\ Idle.at = "idle" /\ Nothing \notin Event
  BY SomeBlocks DEF Over, NoPlan, Plan, Idle, Command, Nothing, Event, Asks

(* What the steps below start from.                                        *)
Sound == Course /\ MtkTypes /\ Firm

(* A step of somebody else, who at most stops the control URB or takes     *)
(* frames back.                                                            *)
LEMMA FirmSame ==
  ASSUME Sound, UNCHANGED <<hci, plan, cmd, wait, evt, late, dev>>,
         rst' \in {"idle", "wanted", "refused", "get", "unwoken", "stop", "toggle", "queued", "gone"},
         dump' \in BOOLEAN, active' \in BOOLEAN, ctrl' \in {ctrl, "none"},
         out = 0 => out' = 0 \/ HciRunning,
         Unsent => Unsent' \/ hci # "setup"
  PROVE  MtkTypes' /\ Firm'
  <1>1. MtkTypes'
    BY DEF Sound, MtkTypes
  <1>2. Held' = Held
    BY DEF Held
  <1>3. PlanCourse' /\ Polls' /\ Commands'
    BY DEF Sound, Firm, PlanCourse, Polls, Commands
  <1>4. Quieted' /\ Sent'
    BY DEF Sound, Firm, Quieted, Sent, Trusted, Unsent, HciRunning, Closing, Opening
  <1>5. \A e : Mine(e) => Mine(e)'
    BY DEF Mine, Tells, Trusted
  <1>6. Kept' /\ Taken'
    BY <1>2, <1>5 DEF Sound, Firm, Kept, Taken
  <1>7. Progress' /\ Up'
    BY DEF Sound, Firm, Progress, Up, Trusted
  <1> QED BY <1>1, <1>3, <1>4, <1>6, <1>7 DEF Firm

(* The device receives a command's frame, or the frame is lost.            *)
LEMMA FirmDevice ==
  ASSUME Sound, DeviceGets \/ FrameGone
  PROVE  MtkTypes' /\ Firm'
  <1> USE SomeBlocks
  <1>0. dev \in Device /\ Len(dev.events) <= MaxEvents /\ plan \in Plan /\ cmd \in Command /\ Held \subseteq Event
    BY HeldAre DEF Sound, MtkTypes
  <1>1. CASE DeviceGets
    <2>1. /\ UNCHANGED <<hci, plan, cmd, wait, evt, late, ctrl, dump, rst, active, sender, deferred>>
          /\ out > 0 /\ dev.sent # "none" /\ sender = "idle" /\ out' = out - 1
      BY <1>1 DEF DeviceGets, TxDone, wmt, reset, rx
    <2>2. PICK says \in Answers(dev.sent) :
            Held' \subseteq Held \cup {[ask |-> dev.sent, says |-> says, own |-> cmd.at \in {"urb", "wait"}]}
      BY <1>0, <1>1, HeldAppend
    <2>3. /\ dev.sent \in Asks /\ dev' \in Device /\ Len(dev'.events) <= MaxEvents
          /\ dev'.sent = "none" /\ dev'.reset = dev.reset
          /\ dev.sent = "first" => dev'.blocks = 1
          /\ dev.sent = "next" /\ dev.blocks \in 1 .. Blocks - 1 => dev'.blocks = dev.blocks + 1
          /\ dev.sent \notin {"first", "next"} => dev'.blocks = dev.blocks
          /\ dev'.on = ((dev.on \/ dev.sent = "on") /\ dev.sent # "off")
      BY <1>0, <1>1, HeldAppend
    <2>4. MtkTypes'
      BY <2>1, <2>3 DEF Sound, MtkTypes
    <2>5. hci \notin Closing \cup {"down"} \cup Opening /\ ~(hci = "setup" /\ plan.at = "none") /\ ~Unsent
      BY <2>1, <1>0 DEF Sound, Firm, Quieted, Unsent
    <2>6. hci = "setup" /\ Trusted => \/ cmd.at \in {"urb", "wait"} /\ dev.sent = cmd.ask
                                      \/ cmd.at = "fail" /\ dev.sent = cmd.ask
                                      \/ plan.at = "over" /\ cmd.at = "idle"
      BY <1>0, <2>1, <2>5 DEF Sound, Firm, Sent, Commands, Course, Command
    <2>7. hci = "up" => ~Trusted
      BY <2>1 DEF Sound, Firm, Up
    <2>8. Trusted' = Trusted
      BY <2>1, <2>3 DEF Trusted
    <2>9. PlanCourse' /\ Quieted' /\ Polls' /\ Commands' /\ Sent' /\ Up'
      BY <1>0, <2>1, <2>3, <2>5, <2>7, <2>8, Zenon DEF Sound, Firm, PlanCourse, Quieted, Polls, Commands, Sent, Up
    <2>10. Progress'
      BY <1>0, <2>1, <2>3, <2>6, <2>8 DEF Sound, Firm, Progress, Course, Commands, Says, Plan
    <2>11. ASSUME NEW e \in Held', hci = "setup", cmd.at \in {"urb", "wait"}, e.own
           PROVE  Mine(e)'
      <3>1. CASE e \in Held
        <4>1. Mine(e)
          BY <2>11, <3>1 DEF Sound, Firm, Kept
        <4> QED BY <2>1, <2>8, <4>1 DEF Mine
      <3>2. CASE e = [ask |-> dev.sent, says |-> says, own |-> cmd.at \in {"urb", "wait"}]
        <4>1. e.ask = dev.sent /\ e.says = says
          BY <3>2
        <4>2. Trusted => dev.sent = cmd.ask
          BY <2>6, <2>11
        <4>3. dev.sent = cmd.ask
          BY <2>1, <2>11, <1>0 DEF Sound, Firm, Commands
        <4>4. dev.sent = "query" => says # "ok" /\ (says = "DONE" => dev'.blocks = Blocks)
          BY <2>2, <2>3 DEF Answers
        <4>5. Trusted /\ dev.sent \in {"first", "next"} => dev'.blocks = Blocks - plan.left + 1
          <5>1. plan.at \in {"query", "block", "func"}
            BY <2>11 DEF Sound, Course
          <5>2. CASE dev.sent = "first"
            <6>1. plan.left = Blocks
              BY <2>11, <4>3, <5>1, <5>2 DEF Sound, Firm, Commands
            <6> QED BY <2>3, <5>2, <6>1
          <5>3. CASE dev.sent = "next" /\ Trusted
            <6>1. plan.at = "block" /\ plan.left # Blocks
              BY <2>11, <4>3, <5>1, <5>3 DEF Sound, Firm, Commands
            <6>2. plan.left \in 1 .. Blocks - 1
              BY <1>0, <6>1 DEF Sound, Firm, PlanCourse, Plan
            <6>3. dev.blocks = Blocks - plan.left
              BY <2>1, <2>11, <5>3, <6>1, <6>2 DEF Sound, Firm, Progress
            <6> QED BY <2>3, <5>3, <6>2, <6>3
          <5> QED BY <5>2, <5>3
        <4> QED BY <2>1, <2>3, <2>8, <4>1, <4>3, <4>4, <4>5 DEF Mine, Tells
      <3> QED BY <2>2, <2>11, <3>1, <3>2
    <2>12. ASSUME NEW e \in Held', cmd.at \notin {"urb", "wait"}, e \in Held => ~e.own
           PROVE  ~e.own
      <3>1. CASE e = [ask |-> dev.sent, says |-> says, own |-> cmd.at \in {"urb", "wait"}]
        <4>1. e.own = (cmd.at \in {"urb", "wait"})
          BY <3>1
        <4> QED BY <2>12, <4>1
      <3> QED BY <2>2, <2>12, <3>1
    <2>13. Kept'
      BY <2>1, <2>11, <2>12 DEF Sound, Firm, Kept
    <2>14. Taken'
      <3>1. Mine(evt) => Mine(evt)'
        BY <2>1, <2>8 DEF Mine
      <3> QED BY <2>1, <3>1 DEF Sound, Firm, Taken
    <2> QED BY <2>4, <2>9, <2>10, <2>13, <2>14 DEF Firm
  <1>2. CASE FrameGone
    <2>1. /\ UNCHANGED <<hci, plan, cmd, wait, evt, late, ctrl, dump, rst, active, sender, deferred>>
          /\ out > 0 /\ out' = out - 1
      BY <1>2 DEF FrameGone, TxDone, wmt, reset, rx
    <2>2. UNCHANGED dev \/ dev' = [dev EXCEPT !.sent = "none"]
      BY <1>2 DEF FrameGone
    <2>3. /\ dev' \in Device /\ UNCHANGED <<dev.events, dev.blocks, dev.on, dev.reset>>
          /\ dev'.sent \in {dev.sent, "none"}
      BY <1>0, <2>2 DEF Device
    <2>4. MtkTypes' /\ Held' = Held
      BY <2>1, <2>3 DEF Sound, MtkTypes, Held
    <2>5. ~Unsent /\ Trusted' = Trusted
      BY <2>1, <2>3 DEF Unsent, Trusted
    <2>6. hci \notin Closing \cup {"down"} \cup Opening /\ ~(hci = "setup" /\ plan.at = "none")
      BY <2>1, <2>5 DEF Sound, Firm, Quieted
    <2>7. PlanCourse' /\ Quieted' /\ Polls' /\ Commands'
      BY <2>1, <2>3, <2>6 DEF Sound, Firm, PlanCourse, Quieted, Polls, Commands
    <2>8. Sent' /\ Up' /\ Progress'
      BY <2>1, <2>3, <2>5 DEF Sound, Firm, Sent, Up, Progress
    <2>9. \A e : Mine(e) => Mine(e)'
      BY <2>1, <2>3, <2>5 DEF Mine, Tells
    <2>10. Kept' /\ Taken'
      BY <2>1, <2>4, <2>9 DEF Sound, Firm, Kept, Taken
    <2> QED BY <2>4, <2>7, <2>8, <2>10 DEF Firm
  <1> QED BY <1>1, <1>2

(* The command on its way to the device.                                   *)
LEMMA FirmSend ==
  ASSUME Sound, WmtGet \/ WmtSend \/ WmtUrb \/ WmtTimeout
  PROVE  MtkTypes' /\ Firm'
  <1> USE SomeBlocks
  <1>0. dev \in Device /\ Len(dev.events) <= MaxEvents /\ plan \in Plan /\ cmd \in Command
    BY DEF Sound, MtkTypes
  <1>1. cmd.at \in {"get", "send", "urb", "wait"} /\ cmd.ask \in Asks \cup {"none"}
    BY <1>0 DEF WmtGet, WmtSend, WmtUrb, WmtTimeout, Command
  <1>2. /\ hci \in {"setup", "shutdown"}
        /\ hci = "setup" => plan.at \in {"query", "block", "func"}
    BY <1>1 DEF Sound, Course
  <1>3. CASE WmtGet
    <2>1. /\ UNCHANGED <<hci, plan, dev, wait, evt, late, ctrl, dump, rst, active, out, sender, deferred>>
          /\ cmd.at = "get" /\ (Give("send") \/ Give("fail"))
      BY <1>3 DEF WmtGet, reset, rx, tx
    <2>2. cmd'.at \in {"send", "fail"} /\ cmd'.ask = cmd.ask /\ cmd' \in Command
      BY <1>0, <2>1, CmdGoes
    <2>3. MtkTypes'
      BY <2>1, <2>2 DEF Sound, MtkTypes
    <2>4. PlanCourse' /\ Quieted' /\ Polls' /\ Commands' /\ Up'
      BY <1>2, <2>1, <2>2 DEF Sound, Firm, PlanCourse, Quieted, Polls, Commands, Up, Trusted, Unsent
    <2>5. Sent' /\ Progress'
      BY <1>2, <2>1, <2>2 DEF Sound, Firm, Sent, Progress, Trusted, Unsent, Says
    <2>6. Kept' /\ Taken'
      BY <1>2, <2>1, <2>2 DEF Sound, Firm, Kept, Taken, Held
    <2> QED BY <2>3, <2>4, <2>5, <2>6 DEF Firm
  <1>4. CASE WmtSend
    <2>1. /\ UNCHANGED <<hci, plan, evt, late, ctrl, dump, rst, active, out, deferred>>
          /\ cmd.at = "send"
      BY <1>4 DEF WmtSend, reset, rx
    <2>2. CASE SendTest /\ Give("urb") /\ dev' = [dev EXCEPT !.sent = cmd.ask] /\ UNCHANGED wait
      <3>1. cmd'.at = "urb" /\ cmd'.ask = cmd.ask /\ cmd' \in Command
        BY <1>0, <2>2, CmdGoes
      <3>2. /\ dev' \in Device /\ UNCHANGED <<dev.events, dev.blocks, dev.on, dev.reset>>
            /\ dev'.sent = cmd.ask
        BY <1>0, <1>1, <2>2 DEF Device
      <3>3. MtkTypes'
        BY <2>1, <2>2, <3>1, <3>2 DEF Sound, MtkTypes
      <3>4. PlanCourse' /\ Quieted' /\ Polls' /\ Commands' /\ Up'
        BY <1>2, <2>1, <2>2, <3>1, <3>2 DEF Sound, Firm, PlanCourse, Quieted, Polls, Commands, Up, Trusted, Closing, Opening
      <3>5. Sent' /\ Progress'
        BY <1>2, <2>1, <2>2, <3>1, <3>2 DEF Sound, Firm, Sent, Progress, Trusted, Says
      <3>6. Kept' /\ Taken'
        BY <1>2, <2>1, <2>2, <3>1, <3>2 DEF Sound, Firm, Kept, Taken, Held
      <3> QED BY <3>3, <3>4, <3>5, <3>6 DEF Firm
    <2>3. CASE Give("fail") /\ wait' = FALSE /\ UNCHANGED <<sender, dev>>
      <3>1. cmd'.at = "fail" /\ cmd'.ask = cmd.ask /\ cmd' \in Command
        BY <1>0, <2>3, CmdGoes
      <3>2. MtkTypes'
        BY <2>1, <2>3, <3>1 DEF Sound, MtkTypes
      <3>3. PlanCourse' /\ Quieted' /\ Polls' /\ Commands' /\ Up'
        BY <1>2, <2>1, <2>3, <3>1 DEF Sound, Firm, PlanCourse, Quieted, Polls, Commands, Up, Trusted, Unsent
      <3>4. Sent' /\ Progress'
        BY <1>2, <2>1, <2>3, <3>1 DEF Sound, Firm, Sent, Progress, Trusted, Unsent, Says
      <3>5. Kept' /\ Taken'
        BY <2>1, <2>3, <3>1 DEF Kept, Taken
      <3> QED BY <3>2, <3>3, <3>4, <3>5 DEF Firm
    <2> QED BY <1>4, <2>2, <2>3 DEF WmtSend
  <1>5. CASE WmtUrb
    <2>1. /\ UNCHANGED <<hci, plan, dev, wait, evt, late, dump, rst, active, out, sender, deferred>>
          /\ cmd.at = "urb"
          /\ \/ ctrl' = (IF ctrl = "none" THEN "posted" ELSE ctrl) /\ Give("wait")
             \/ Give("fail") /\ UNCHANGED ctrl
      BY <1>5 DEF WmtUrb, reset, tx
    <2>2. /\ cmd'.at \in {"wait", "fail"} /\ cmd'.ask = cmd.ask /\ cmd' \in Command
          /\ hci = "setup" => ctrl = "none" /\ wait /\ ctrl' # "handler"
      BY <1>0, <1>2, <2>1, CmdGoes DEF Sound, Firm, Polls
    <2>3. MtkTypes'
      BY <2>1, <2>2 DEF Sound, MtkTypes
    <2>4. PlanCourse' /\ Quieted' /\ Polls' /\ Commands' /\ Up'
      BY <1>2, <2>1, <2>2 DEF Sound, Firm, PlanCourse, Quieted, Polls, Commands, Up, Trusted, Unsent, Closing, Opening
    <2>5. Sent' /\ Progress'
      BY <1>2, <2>1, <2>2 DEF Sound, Firm, Sent, Commands, Progress, Trusted, Unsent, Says
    <2>6. \A e : Mine(e) => Mine(e)'
      BY <2>1, <2>2 DEF Mine, Tells, Trusted
    <2>7. Kept' /\ Taken'
      BY <1>2, <2>1, <2>2, <2>6 DEF Sound, Firm, Kept, Taken, Held
    <2> QED BY <2>3, <2>4, <2>5, <2>7 DEF Firm
  <1>6. CASE WmtTimeout
    <2>1. /\ UNCHANGED <<hci, plan, dev, evt, late, ctrl, dump, rst, active, out, sender, deferred>>
          /\ cmd.at = "wait" /\ wait' = FALSE /\ Give("fail")
      BY <1>6 DEF WmtTimeout, reset, usb, tx, rx
    <2>2. cmd'.at = "fail" /\ cmd'.ask = cmd.ask /\ cmd' \in Command
      BY <1>0, <2>1, CmdGoes
    <2>3. MtkTypes'
      BY <2>1, <2>2 DEF Sound, MtkTypes
    <2>4. PlanCourse' /\ Quieted' /\ Polls' /\ Commands' /\ Up'
      BY <1>2, <2>1, <2>2 DEF Sound, Firm, PlanCourse, Quieted, Polls, Commands, Up, Trusted, Unsent, Closing, Opening
    <2>5. Sent' /\ Progress'
      BY <1>2, <2>1, <2>2 DEF Sound, Firm, Sent, Commands, Progress, Trusted, Unsent, Says
    <2>6. Kept' /\ Taken'
      BY <2>1, <2>2 DEF Kept, Taken
    <2> QED BY <2>3, <2>4, <2>5, <2>6 DEF Firm
  <1> QED BY <1>3, <1>4, <1>5, <1>6

(* The control URB brings an event.                                        *)
LEMMA FirmRecv ==
  ASSUME Sound, ctrl \in {"none", "posted", "handler"}, RecvTest \/ RecvClear \/ RecvGone
  PROVE  MtkTypes' /\ Firm'
  <1> USE SomeBlocks
  <1>0. dev \in Device /\ Len(dev.events) <= MaxEvents /\ plan \in Plan /\ cmd \in Command
        /\ evt \in Event \cup {Nothing} /\ Held \subseteq Event
    BY HeldAre DEF Sound, MtkTypes
  <1>1. /\ UNCHANGED <<hci, plan, cmd, late, dump, rst, active, out, sender, deferred>>
        /\ ctrl # "none"
    BY DEF RecvTest, RecvClear, RecvGone, reset, tx, wmt
  <1>2. hci \notin {"close_put", "down"} \cup Opening
    BY <1>1 DEF Sound, Firm, Polls
  <1>3. hci = "setup" => plan.at = "over" \/ cmd.at = "fail" \/ (cmd.at = "wait" /\ wait)
    BY <1>0, <1>1 DEF Sound, Firm, Polls
  <1>4. hci = "setup" /\ cmd.at # "idle" => plan.at # "over"
    BY DEF Sound, Course
  <1>5. CASE RecvTest
    <2>1. /\ ctrl = "posted" /\ dev.events # <<>> /\ dev' = [dev EXCEPT !.events = Tail(@)] /\ UNCHANGED wait
          /\ \/ ctrl' = "handler" /\ evt' = IF wait THEN Head(dev.events) ELSE evt
             \/ ctrl' = "none" /\ evt' \in (IF wait THEN {evt, Nothing} ELSE {evt})
      BY <1>5 DEF RecvTest
    <2>2. /\ dev' \in Device /\ Head(dev.events) \in Held /\ Held' \subseteq Held
          /\ dev'.sent = dev.sent /\ dev'.blocks = dev.blocks /\ dev'.on = dev.on
          /\ dev'.reset = dev.reset /\ Len(dev'.events) <= Len(dev.events)
      BY <1>0, <2>1, HeldTail
    <2>3. MtkTypes'
      <3>1. Len(dev'.events) <= MaxEvents
        BY <1>0, <2>2 DEF Device
      <3>2. evt' \in Event \cup {Nothing}
        BY <1>0, <2>1, <2>2
      <3> QED BY <1>1, <2>1, <2>2, <3>1, <3>2 DEF Sound, MtkTypes
    <2>4. PlanCourse' /\ Quieted' /\ Polls' /\ Commands' /\ Up'
      BY <1>1, <1>2, <1>3, <1>4, <2>1, <2>2 DEF Sound, Firm, PlanCourse, Quieted, Polls, Commands, Up, Trusted, Unsent
    <2>5. Sent' /\ Progress'
      BY <1>1, <2>1, <2>2 DEF Sound, Firm, Sent, Progress, Trusted, Unsent, Says
    <2>6. \A e : Mine(e) => Mine(e)'
      BY <1>1, <2>2 DEF Mine, Tells, Trusted
    <2>7. Kept'
      BY <1>1, <2>2, <2>6 DEF Sound, Firm, Kept
    <2>8. Taken'
      <3>1. ASSUME hci = "setup", cmd.at = "wait", ctrl' = "handler"
            PROVE  evt' \in Event /\ (evt'.own => Mine(evt)')
        <4>1. wait /\ evt' = Head(dev.events)
          BY <1>3, <1>4, <2>1, <3>1
        <4>2. PICK e \in Held : evt' = e
          BY <2>2, <4>1
        <4>3. e.own => Mine(e)
          BY <3>1 DEF Sound, Firm, Kept
        <4>4. Mine(e) => Mine(evt)'
          BY <1>1, <2>2, <4>2 DEF Mine, Tells, Trusted
        <4> QED BY <1>0, <4>2, <4>3, <4>4
      <3>2. hci = "setup" /\ cmd.at = "wait" => wait
        BY <1>3, <1>4
      <3> QED BY <1>1, <2>1, <3>1, <3>2 DEF Taken
    <2> QED BY <2>3, <2>4, <2>5, <2>7, <2>8 DEF Firm
  <1>6. CASE RecvClear \/ RecvGone
    <2>1. /\ UNCHANGED dev /\ ctrl' = "none"
          /\ \/ ctrl = "handler" /\ HciRunning /\ wait' = FALSE /\ UNCHANGED evt
             \/ ctrl = "handler" /\ evt' = Nothing /\ UNCHANGED wait
             \/ UNCHANGED <<wait, evt>>
      BY <1>6 DEF RecvClear, RecvGone, wmt
    <2>2. MtkTypes' /\ Held' = Held
      BY <1>1, <2>1 DEF Sound, MtkTypes, Held
    <2>3. PlanCourse' /\ Quieted' /\ Polls' /\ Commands' /\ Up'
      BY <1>1, <1>2, <1>3, <1>4, <2>1 DEF Sound, Firm, PlanCourse, Quieted, Polls, Commands, Up, Trusted, Unsent, Course
    <2>4. Sent' /\ Progress'
      BY <1>1, <2>1, <2>2 DEF Sound, Firm, Sent, Progress, Trusted, Unsent, Says
    <2>5. \A e : Mine(e) => Mine(e)'
      BY <1>1, <2>1 DEF Mine, Tells, Trusted
    <2>6. Kept'
      BY <1>1, <2>2, <2>5 DEF Sound, Firm, Kept
    <2>7. Taken'
      BY <1>1, <1>3, <1>4, <2>1, <2>5 DEF Sound, Firm, Taken
    <2> QED BY <2>2, <2>3, <2>4, <2>6, <2>7 DEF Firm
  <1> QED BY <1>5, <1>6

(* The answer is taken, or what passes for it.                             *)
LEMMA FirmParse ==
  ASSUME Sound, WmtParse
  PROVE  MtkTypes' /\ Firm'
  <1>0. dev \in Device /\ Len(dev.events) <= MaxEvents /\ plan \in Plan /\ cmd \in Command
        /\ evt \in Event \cup {Nothing} /\ late \in BOOLEAN
    BY DEF Sound, MtkTypes
  <1> DEFINE agrees == Op(evt.ask) = Op(cmd.ask)
             result == IF evt = Nothing \/ (agrees /\ evt.says = "ok") THEN "ok"
                       ELSE IF agrees THEN evt.says ELSE "fail"
  <1>1. /\ UNCHANGED <<hci, plan, dev, wait, ctrl, dump, rst, active, out, sender, deferred>>
        /\ cmd.at = "wait" /\ ~wait /\ evt' = Nothing /\ Give(result)
        /\ late' = (late \/ (evt # Nothing /\ agrees /\ ~evt.own))
    BY DEF WmtParse, Parse, vars, tx, rx, reset
  <1>2. result \in Says \cup {"fail"}
    BY <1>0 DEF Event, Says
  <1>3. evt # Nothing => (result = "fail" \/ (agrees /\ result = evt.says))
    OBVIOUS
  <1> HIDE DEF result
  <1>4. cmd'.at = result /\ cmd'.ask = cmd.ask /\ cmd' \in Command
    BY <1>0, <1>1, <1>2, CmdGoes
  <1>5. /\ hci \in {"setup", "shutdown"}
        /\ hci = "setup" => plan.at \in {"query", "block", "func"}
    BY <1>1 DEF Sound, Course
  <1>6. MtkTypes'
    <2>1. late' \in BOOLEAN
      BY <1>0, <1>1
    <2> QED BY <1>1, <1>4, <2>1 DEF Sound, MtkTypes
  <1>7. ASSUME hci = "setup"
        PROVE  evt \in Event /\ evt # Nothing /\ (evt.own => Mine(evt))
    BY <1>1, <1>7, PlanOver DEF Sound, Firm, Taken
  <1>8. ASSUME hci = "setup", Trusted', result # "fail"
        PROVE  Trusted /\ evt.ask = cmd.ask /\ evt.says = result /\ dev.sent = "none" /\ Tells(evt)
    <2>1. evt # Nothing /\ agrees /\ result = evt.says
      BY <1>3, <1>7, <1>8
    <2>2. evt.own /\ Trusted
      BY <1>0, <1>1, <1>8, <2>1 DEF Trusted
    <2> QED BY <1>7, <1>8, <2>1, <2>2 DEF Mine
  <1>9. Trusted' => Trusted
    BY <1>1 DEF Trusted
  <1>10. result \notin {"idle", "get", "send", "urb", "wait"}
    BY <1>2 DEF Says
  <1>11. PlanCourse' /\ Quieted' /\ Polls' /\ Commands' /\ Up'
    BY <1>1, <1>4, <1>5, <1>9, <1>10 DEF Sound, Firm, PlanCourse, Quieted, Polls, Commands, Up, Trusted, Unsent
  <1>12. Sent'
    <2>1. hci = "setup" => dev.sent \in {"none", cmd.ask}
      BY <1>1 DEF Sound, Firm, Commands
    <2> QED BY <1>1, <1>2, <1>4, <1>5, <1>8, <1>10, <2>1 DEF Sent, Says
  <1>13. Progress'
    <2>1. ASSUME hci = "setup", Trusted'
          PROVE  /\ plan.at = "query" => result # "ok" /\ (result = "DONE" => dev.blocks = Blocks)
                 /\ plan.at = "block" /\ result \in Says => dev.blocks = Blocks - plan.left + 1
                 /\ plan.at = "func" => dev.blocks = Blocks
                 /\ plan.at = "func" /\ result \in Says => dev.on
      <3>1. /\ plan.at = "query" => cmd.ask = "query"
            /\ plan.at = "block" => cmd.ask \in {"first", "next"}
            /\ plan.at = "func" => cmd.ask = "on"
        BY <1>1, <2>1 DEF Sound, Firm, Commands
      <3>2. plan.at = "func" => dev.blocks = Blocks
        BY <1>9, <2>1 DEF Sound, Firm, Progress
      <3> QED BY <1>8, <2>1, <3>1, <3>2 DEF Tells, Says
    <2> QED BY <1>1, <1>4, <1>5, <1>10, <2>1 DEF Progress
  <1>14. Kept' /\ Taken'
    BY <1>1, <1>4, <1>10 DEF Kept, Taken
  <1> QED BY <1>6, <1>11, <1>12, <1>13, <1>14 DEF Firm

(* The steps of the setup: before a command, and a command begins.         *)
LEMMA FirmAsk ==
  ASSUME Sound, SetupId \/ SetupAsk \/ ShutdownAsk
  PROVE  MtkTypes' /\ Firm'
  <1> USE SomeBlocks
  <1>0. dev \in Device /\ Len(dev.events) <= MaxEvents /\ plan \in Plan /\ cmd \in Command
    BY DEF Sound, MtkTypes
  <1>1. CASE SetupId
    <2>1. /\ UNCHANGED <<hci, cmd, dev, wait, evt, ctrl, dump, rst, active, out, sender, deferred>>
          /\ hci = "setup" /\ plan.at = "none" /\ late' = FALSE
          /\ plan' = [at |-> "query", left |-> Blocks, retry |-> Retries] \/ plan' = Over
      BY <1>1 DEF SetupId, Step, usb, tx, rx, reset
    <2>2. /\ plan' \in Plan /\ plan'.at \in {"query", "over"}
          /\ plan'.at = "query" => plan'.left = Blocks /\ plan'.retry > 0
      BY <2>1, PlanOver DEF Plan
    <2>3. cmd.at = "idle" /\ Unsent /\ ctrl = "none"
      BY <2>1 DEF Sound, Course, Firm, Quieted, Polls
    <2>4. MtkTypes'
      BY <2>1, <2>2 DEF Sound, MtkTypes
    <2>5. PlanCourse' /\ Quieted' /\ Polls' /\ Commands' /\ Up'
      BY <2>1, <2>2, <2>3 DEF PlanCourse, Quieted, Polls, Commands, Up, Closing, Opening
    <2>6. Sent' /\ Progress' /\ Kept' /\ Taken'
      BY <2>1, <2>2, <2>3 DEF Sent, Progress, Kept, Taken, Unsent, Says
    <2> QED BY <2>4, <2>5, <2>6 DEF Firm
  <1>2. ASSUME NEW ask \in Asks, Begin(ask), UNCHANGED <<vars, plan, evt, late, reset>>,
               /\ hci \in {"setup", "shutdown"} 
               /\ hci = "setup" => /\ plan.at \in {"query", "block", "func"}
                                   /\ plan.at = "query" => ask = "query"
                                   /\ plan.at = "block" => ask = IF plan.left = Blocks THEN "first" ELSE "next"
                                   /\ plan.at = "func" => ask = "on"
        PROVE  MtkTypes' /\ Firm'
    <2>1. /\ UNCHANGED <<hci, plan, evt, late, ctrl, dump, rst, active, out, sender, deferred>>
          /\ cmd.at = "idle" /\ cmd' = [at |-> "get", ask |-> ask] /\ wait' = TRUE
          /\ dev' = [dev EXCEPT !.events = [i \in DOMAIN @ |-> [@[i] EXCEPT !.own = FALSE]]]
      BY <1>2 DEF Begin, Idle, vars, tx, rx, reset
    <2>2. cmd' \in Command /\ cmd'.at = "get" /\ cmd'.ask = ask
      BY <1>2, <2>1 DEF Command
    <2>3. /\ dev' \in Device /\ \A e \in Held' : ~e.own
          /\ dev'.sent = dev.sent /\ dev'.blocks = dev.blocks /\ dev'.on = dev.on
          /\ dev'.reset = dev.reset /\ Len(dev'.events) = Len(dev.events)
      BY <1>0, <2>1, HeldBegin
    <2>4. MtkTypes'
      BY <2>1, <2>2, <2>3 DEF Sound, MtkTypes
    <2>5. PlanCourse' /\ Quieted' /\ Polls' /\ Commands' /\ Up'
      BY <1>2, <2>1, <2>2, <2>3 DEF Sound, Firm, PlanCourse, Quieted, Polls, Commands, Up, Unsent, Closing, Opening
    <2>6. Sent' /\ Progress'
      BY <1>2, <2>1, <2>2, <2>3 DEF Sound, Firm, Sent, Progress, Unsent, Trusted, Says
    <2>7. Kept' /\ Taken'
      BY <2>2, <2>3 DEF Kept, Taken
    <2> QED BY <2>4, <2>5, <2>6, <2>7 DEF Firm
  <1>3. CASE SetupAsk
    BY <1>2, <1>3 DEF SetupAsk, Step, Asks
  <1>4. CASE ShutdownAsk
    BY <1>2, <1>4 DEF ShutdownAsk, Asks
  <1> QED BY <1>1, <1>3, <1>4

(* The setup is told what became of its command.                           *)
LEMMA FirmTold ==
  ASSUME Sound, SetupQueried \/ SetupSent \/ SetupFunc
  PROVE  MtkTypes' /\ Firm'
  <1> USE SomeBlocks
  <1>0. dev \in Device /\ plan \in Plan /\ cmd \in Command
    BY DEF Sound, MtkTypes
  <1>1. /\ UNCHANGED <<hci, dev, wait, evt, late, ctrl, dump, rst, active, out, sender, deferred>>
        /\ hci = "setup" /\ cmd.at \in Says \cup {"fail"} /\ cmd' = Idle
    BY DEF SetupQueried, SetupSent, SetupFunc, Answered, Step, Told, Says, vars, tx, rx, reset
  <1>2. cmd' \in Command /\ cmd'.at = "idle"
    BY <1>1, PlanOver
  <1>3. ASSUME plan' \in Plan, plan'.at \notin {"none", "off", "release"},
               plan'.at = "query" => plan'.left = Blocks /\ plan'.retry > 0,
               plan'.at = "block" => plan'.left > 0,
               plan'.at # "over" => cmd.at \in Says,
               Trusted /\ plan'.at = "block" /\ plan'.left < Blocks => dev.blocks = Blocks - plan'.left,
               Trusted /\ plan'.at \in {"reg", "func", "iso", "isocmd"} => dev.blocks = Blocks,
               Trusted /\ plan'.at \in {"iso", "isocmd"} => dev.on
        PROVE  MtkTypes' /\ Firm'
    <2>1. MtkTypes'
      BY <1>1, <1>2, <1>3 DEF Sound, MtkTypes
    <2>2. Trusted' = Trusted
      BY <1>1 DEF Trusted
    <2>3. Trusted /\ plan'.at # "over" => dev.sent = "none"
      BY <1>1, <1>3 DEF Sound, Firm, Sent
    <2>4. plan'.at # "over" => ctrl = "none"
      <3>1. plan'.at # "over" => cmd.at \notin {"wait", "fail", "idle"}
        BY <1>3 DEF Says
      <3>2. cmd.at # "idle" => plan.at # "over"
        BY <1>1 DEF Sound, Course
      <3> QED BY <1>1, <3>1, <3>2 DEF Sound, Firm, Polls
    <2>5. PlanCourse' /\ Quieted' /\ Polls' /\ Commands' /\ Up'
      BY <1>1, <1>2, <1>3, <2>4 DEF PlanCourse, Quieted, Polls, Commands, Up, Closing, Opening
    <2>6. Sent' /\ Progress' /\ Kept' /\ Taken'
      BY <1>1, <1>2, <1>3, <2>2, <2>3 DEF Sent, Progress, Kept, Taken, Says
    <2> QED BY <2>1, <2>5, <2>6 DEF Firm
  <1>4. CASE SetupQueried
    <2>1. plan.at = "query"
      BY <1>4 DEF SetupQueried, Answered, Step
    <2>2. PICK status \in IF cmd.at = "ok" THEN {"UNDONE", "PROGRESS", "DONE"} ELSE {cmd.at} :
         plan' = CASE status = "fail" -> Over
                   [] status = "DONE" -> [plan EXCEPT !.at = "reg"]
                   [] status = "UNDONE" -> [plan EXCEPT !.at = "block"]
                   [] OTHER -> [plan EXCEPT !.retry = @ - 1,
                                            !.at = IF plan.retry = 1 THEN "block" ELSE "query"]
      BY <1>4 DEF SetupQueried
    <2>3. plan.left = Blocks /\ plan.retry > 0
      BY <2>1 DEF Sound, Firm, PlanCourse
    <2>4. cmd.at # "ok" \/ ~Trusted
      BY <1>1, <2>1 DEF Sound, Firm, Progress
    <2>5. CASE status = "fail"
      <3>1. plan' = Over
        BY <2>2, <2>5
      <3> QED BY <1>3, <3>1, PlanOver
    <2>6. CASE status = "DONE"
      <3>1. plan' = [at |-> "reg", left |-> plan.left, retry |-> plan.retry]
        BY <1>0, <2>2, <2>6 DEF Plan
      <3>2. plan' \in Plan /\ plan'.at = "reg"
        BY <1>0, <3>1 DEF Plan
      <3>3. cmd.at \in Says /\ (Trusted => dev.blocks = Blocks)
        BY <1>1, <2>1, <2>2, <2>4, <2>6 DEF Sound, Firm, Progress, Says
      <3> QED BY <1>3, <3>2, <3>3
    <2>7. CASE status \in {"UNDONE", "PROGRESS", "ok"}
      <3>1. \E t \in {"block", "query"}, r \in 0 .. Retries : 
              plan' = [at |-> t, left |-> Blocks, retry |-> r] /\ (t = "query" => r > 0)
        <4>1. CASE status = "UNDONE"
          BY <1>0, <2>2, <2>3, <4>1 DEF Plan
        <4>2. CASE status # "UNDONE"
          <5> DEFINE t == IF plan.retry = 1 THEN "block" ELSE "query"
          <5>1. plan' = [at |-> t, left |-> Blocks, retry |-> plan.retry - 1]
            BY <1>0, <2>2, <2>3, <2>7, <4>2 DEF Plan
          <5>2. plan.retry - 1 \in 0 .. Retries /\ t \in {"block", "query"} /\ (t = "query" => plan.retry - 1 > 0)
            BY <1>0, <2>3 DEF Plan
          <5> HIDE DEF t
          <5> QED BY <5>1, <5>2
        <4> QED BY <4>1, <4>2
      <3>2. plan' \in Plan /\ plan'.at \in {"block", "query"} /\ plan'.left = Blocks
            /\ (plan'.at = "query" => plan'.retry > 0)
        BY <3>1 DEF Plan
      <3>3. cmd.at \in Says
        BY <1>1, <2>2, <2>7 DEF Says
      <3> QED BY <1>3, <3>2, <3>3
    <2> QED BY <1>1, <2>2, <2>5, <2>6, <2>7 DEF Says
  <1>5. CASE SetupSent
    <2>1. /\ plan.at = "block"
          /\ plan' = IF cmd.at = "fail" THEN Over
                     ELSE [plan EXCEPT !.left = @ - 1, !.at = IF plan.left = 1 THEN "reg" ELSE "block"]
      BY <1>5 DEF SetupSent, Answered, Step
    <2>2. plan.left \in 1 .. Blocks
      BY <1>0, <2>1 DEF Sound, Firm, PlanCourse, Plan
    <2>3. CASE cmd.at = "fail"
      BY <1>3, <2>1, <2>3, PlanOver
    <2>4. CASE cmd.at # "fail"
      <3> DEFINE t == IF plan.left = 1 THEN "reg" ELSE "block"
      <3>1. plan' = [at |-> t, left |-> plan.left - 1, retry |-> plan.retry]
        BY <1>0, <2>1, <2>4 DEF Plan
      <3>2. plan'.at = t /\ plan'.left = plan.left - 1 /\ plan' \in Plan
        BY <1>0, <2>2, <3>1 DEF Plan
      <3>3. cmd.at \in Says
        BY <1>1, <2>4
      <3>4. Trusted => dev.blocks = Blocks - plan.left + 1
        BY <1>1, <2>1, <3>3 DEF Sound, Firm, Progress
      <3> QED BY <1>3, <2>2, <3>2, <3>3, <3>4
    <2> QED BY <2>3, <2>4
  <1>6. CASE SetupFunc
    <2>1. plan.at = "func" /\ IF cmd.at = "fail" THEN plan' = Over ELSE Goto("iso")
      BY <1>6 DEF SetupFunc, Answered, Step
    <2>2. CASE cmd.at = "fail"
      BY <1>3, <2>1, <2>2, PlanOver
    <2>3. CASE cmd.at # "fail"
      <3>1. plan'.at = "iso" /\ plan' \in Plan
        BY <1>0, <2>1, <2>3, PlanGoes
      <3>2. cmd.at \in Says
        BY <1>1, <2>3
      <3>3. Trusted => dev.blocks = Blocks /\ dev.on
        BY <1>1, <2>1, <3>2 DEF Sound, Firm, Progress
      <3> QED BY <1>3, <3>1, <3>2, <3>3
    <2> QED BY <2>2, <2>3
  <1> QED BY <1>4, <1>5, <1>6

(* The other steps of the setup.                                           *)
LEMMA FirmSetup ==
  ASSUME Sound, SetupReg \/ SetupIso \/ SetupIsoCmd \/ SetupFailed
  PROVE  MtkTypes' /\ Firm'
  <1> USE SomeBlocks
  <1>0. dev \in Device /\ plan \in Plan /\ cmd \in Command
    BY DEF Sound, MtkTypes
  <1>1. /\ UNCHANGED <<cmd, dev, wait, evt, late, ctrl, dump, rst, active, sender, deferred>>
        /\ hci = "setup" /\ plan.at \in {"reg", "iso", "isocmd", "over"}
    BY DEF SetupReg, SetupIso, SetupIsoCmd, SetupFailed, CloseBegin, Step, usb, tx, rx, reset
  <1>2. cmd.at = "idle"
    BY <1>1 DEF Sound, Course
  <1>3. Trusted' = Trusted
    BY <1>1 DEF Trusted
  <1>4. CASE SetupReg
    <2>1. plan.at = "reg" /\ UNCHANGED <<hci, out>> /\ (Goto("func") \/ plan' = Over)
      BY <1>4 DEF SetupReg, Step, usb, tx
    <2>2. plan' \in Plan /\ plan'.at \in {"func", "over"}
      BY <1>0, <2>1, PlanGoes, PlanOver DEF Plan, Goto
    <2>3. MtkTypes'
      BY <1>1, <2>2 DEF Sound, MtkTypes
    <2>4. PlanCourse' /\ Quieted' /\ Polls' /\ Commands' /\ Up'
      BY <1>1, <1>2, <2>1, <2>2 DEF Sound, Firm, PlanCourse, Quieted, Polls, Commands, Up, Closing, Opening
    <2>5. Sent' /\ Progress' /\ Kept' /\ Taken'
      BY <1>1, <1>2, <1>3, <2>1, <2>2 DEF Sound, Firm, Sent, Progress, Kept, Taken, Says, Unsent
    <2> QED BY <2>3, <2>4, <2>5 DEF Firm
  <1>5. CASE SetupIso \/ SetupIsoCmd
    <2>1. /\ plan.at \in {"iso", "isocmd"} /\ UNCHANGED out
          /\ \/ UNCHANGED hci /\ Goto("isocmd")
             \/ hci' = "up" /\ plan' = NoPlan
      BY <1>5 DEF SetupIso, SetupIsoCmd, Step, tx
    <2>2. /\ plan' \in Plan
          /\ \/ hci' = "setup" /\ plan'.at = "isocmd"
             \/ hci' = "up" /\ plan'.at = "none"
      BY <1>0, <1>1, <2>1, PlanGoes, PlanOver
    <2>3. MtkTypes'
      BY <1>1, <2>2 DEF Sound, MtkTypes
    <2>4. Trusted => dev.blocks = Blocks /\ dev.on /\ dev.sent = "none"
      BY <1>1, <2>1 DEF Sound, Firm, Progress
    <2>5. PlanCourse' /\ Quieted' /\ Polls' /\ Commands' /\ Up'
      BY <1>1, <1>2, <1>3, <2>1, <2>2, <2>4 DEF Sound, Firm, PlanCourse, Quieted, Polls, Commands, Up, Closing, Opening
    <2>6. Sent' /\ Progress' /\ Kept' /\ Taken'
      BY <1>1, <1>2, <1>3, <2>1, <2>2, <2>4 DEF Sent, Progress, Kept, Taken, Says
    <2> QED BY <2>3, <2>5, <2>6 DEF Firm
  <1>6. CASE SetupFailed
    <2>1. hci' = "closing" /\ out' = 0 /\ plan' = NoPlan
      BY <1>6 DEF SetupFailed, CloseBegin, KillTx
    <2>2. plan' \in Plan /\ plan'.at = "none"
      BY <2>1, PlanOver
    <2>3. MtkTypes'
      BY <1>1, <2>2 DEF Sound, MtkTypes
    <2> QED BY <2>1, <2>2, <2>3 DEF Firm, PlanCourse, Quieted, Polls, Commands, Up, Sent, Progress, Kept, Taken, Opening
  <1> QED BY <1>4, <1>5, <1>6

(* The shutdown takes all that back.                                       *)
LEMMA FirmShutdown ==
  ASSUME Sound, ShutdownBegin \/ ShutdownTold \/ ShutdownEnd \/ ShutdownClose
  PROVE  MtkTypes' /\ Firm'
  <1>0. plan \in Plan /\ cmd \in Command
    BY DEF Sound, MtkTypes
  <1>1. UNCHANGED <<dev, wait, evt, late, ctrl, dump, rst, active, sender, deferred>>
    BY DEF ShutdownBegin, ShutdownTold, ShutdownEnd, ShutdownClose, CloseBegin, tx, rx, reset
  <1>2. CASE ShutdownBegin \/ ShutdownTold \/ ShutdownEnd
    <2>1. /\ hci' = "shutdown" /\ UNCHANGED out
          /\ Goto("off") \/ Goto("release") \/ plan' = Over
          /\ UNCHANGED cmd \/ cmd' = Idle
      BY <1>2 DEF ShutdownBegin, ShutdownTold, ShutdownEnd, tx
    <2>2. plan' \in Plan /\ plan'.at \in {"off", "release", "over"} /\ cmd' \in Command
      BY <1>0, <2>1, PlanGoes, PlanOver
    <2>3. MtkTypes'
      BY <1>1, <2>2 DEF Sound, MtkTypes
    <2> QED BY <2>1, <2>2, <2>3
       DEF Firm, PlanCourse, Quieted, Polls, Commands, Up, Sent, Progress, Kept, Taken, Opening, Closing
  <1>3. CASE ShutdownClose
    <2>1. hci' = "closing" /\ out' = 0 /\ plan' = NoPlan /\ UNCHANGED cmd
      BY <1>3 DEF ShutdownClose, CloseBegin, KillTx
    <2>2. plan' \in Plan /\ plan'.at = "none"
      BY <2>1, PlanOver
    <2>3. MtkTypes'
      BY <1>1, <2>1, <2>2 DEF Sound, MtkTypes
    <2> QED BY <2>1, <2>2, <2>3 DEF Firm, PlanCourse, Quieted, Polls, Commands, Up, Sent, Progress, Kept, Taken, Opening
  <1> QED BY <1>2, <1>3

(* A reset makes the device forget.                                        *)
LEMMA FirmReset ==
  ASSUME Sound, Reset
  PROVE  MtkTypes' /\ Firm'
  <1> USE SomeBlocks
  <1>1. CASE DumpPacket \/ DumpEnd \/ ResetBegin \/ ResetGet \/ ResetStop \/ UsbReset
    <2>1. /\ UNCHANGED <<hci, plan, cmd, wait, evt, late, dev, sender, deferred>>
          /\ ctrl' \in {ctrl, "none"} /\ out' \in {out, 0}
      BY <1>1 DEF DumpPacket, DumpEnd, ResetBegin, ResetGet, ResetStop, UsbReset, KillTx, usb, vars, rx, tx, wmt
    <2>2. /\ rst' \in {"idle", "wanted", "refused", "get", "unwoken", "stop", "toggle", "queued", "gone"}
          /\ dump' \in BOOLEAN /\ active' \in BOOLEAN
      BY <1>1 DEF DumpPacket, DumpEnd, ResetBegin, ResetGet, ResetStop, UsbReset, Sound, MtkTypes
    <2> QED BY <2>1, <2>2, FirmSame DEF Unsent
  <1>2. CASE ResetEnd
    <2>1. UNCHANGED <<hci, plan, cmd, wait, evt, late, sender, deferred, ctrl, out, dump>>
      BY <1>2 DEF ResetEnd, usb, rx, tx, wmt
    <2>2. rst' \in {"gone", "queued"} /\ active' \in BOOLEAN /\ dump' \in BOOLEAN
      BY <1>2 DEF ResetEnd, Sound, MtkTypes
    <2>3. CASE UNCHANGED dev
      BY <2>1, <2>2, <2>3, FirmSame DEF Unsent
    <2>4. CASE dev' = [Fresh EXCEPT !.reset = TRUE]
      <3>1. dev' = [sent |-> "none", events |-> <<>>, blocks |-> 0, on |-> FALSE, reset |-> TRUE]
        BY <2>4 DEF Fresh
      <3>2. dev' \in Device /\ Len(dev'.events) <= MaxEvents
        BY <3>1 DEF Device
      <3>3. ~Trusted' /\ dev'.sent = "none" /\ Held' = {}
        BY <3>1 DEF Trusted, Held
      <3>4. MtkTypes'
        BY <2>1, <2>2, <3>2 DEF Sound, MtkTypes
      <3>5. PlanCourse' /\ Quieted' /\ Polls' /\ Commands' /\ Up'
        BY <2>1, <3>3 DEF Sound, Firm, PlanCourse, Quieted, Polls, Commands, Up, Unsent
      <3>6. Sent' /\ Progress' /\ Kept'
        BY <2>1, <3>3 DEF Sent, Progress, Kept
      <3>7. Taken'
        BY <2>1, <3>3 DEF Sound, Firm, Taken, Mine
      <3> QED BY <3>4, <3>5, <3>6, <3>7 DEF Firm
    <2> QED BY <1>2, <2>3, <2>4 DEF ResetEnd, SubsysReset
  <1>3. CASE Disconnect
    <2>1. /\ UNCHANGED <<plan, cmd, wait, evt, late, dev, dump, rst, active>>
          /\ hci = "up" /\ hci' = "closing" /\ out' = 0
      BY <1>3 DEF Disconnect, CloseBegin, KillTx, mvars, wmt, reset
    <2>2. MtkTypes' /\ plan.at = "none"
      BY <2>1 DEF Sound, MtkTypes, Firm, PlanCourse
    <2> QED BY <2>1, <2>2 DEF Firm, PlanCourse, Quieted, Polls, Commands, Up, Sent, Progress, Kept, Taken, Opening
  <1> QED BY <1>1, <1>2, <1>3 DEF Reset

(* The steps of the transport: opening, closing and sending.               *)
LEMMA FirmUsb ==
  ASSUME Sound, Quiet, Woken, Iso, UsbNext, UNCHANGED mvars
  PROVE  MtkTypes' /\ Firm'
  <1>0. UNCHANGED <<plan, cmd, wait, evt, late, dev, dump, rst, active>> /\ MtkTypes'
    BY DEF Sound, MtkTypes, mvars, wmt, reset
  <1>1. CASE OpenGet \/ OpenIntr \/ OpenBulk
    <2>1. /\ hci \in {"down"} \cup Opening /\ hci' \in {"down"} \cup Opening /\ UNCHANGED <<out, ctrl>>
      BY <1>1 DEF OpenGet, OpenIntr, OpenBulk, OpenFail, Opening, tx, rx
    <2> QED BY <1>0, <2>1 DEF Opening, Closing, Sound, Firm, PlanCourse, Quieted, Polls, Commands, Up, Sent, Progress, Kept, Taken
  <1>2. CASE SetRunning
    <2>1. hci = "opened" /\ hci' = "setup" /\ UNCHANGED <<out, ctrl, sender, deferred>>
      BY <1>2 DEF SetRunning, tx, rx
    <2>2. out = 0 /\ ctrl = "none" /\ plan.at = "none"
      BY <2>1 DEF Sound, Firm, Quieted, Polls, PlanCourse, Opening
    <2>3. cmd.at = "idle" /\ sender = "idle" /\ deferred = 0
      BY <2>1 DEF Sound, Course, Opening, HciRunning
    <2> QED BY <1>0, <2>1, <2>2, <2>3
       DEF Opening, Closing, Firm, PlanCourse, Quieted, Polls, Commands, Up, Sent, Progress, Kept, Taken, Unsent, Says
  <1>3. CASE CloseCancel \/ CloseStop \/ CloseEnd
    <2>1. /\ hci \in Closing /\ hci' \in {"close_stop", "close_put", "down"} /\ UNCHANGED out
          /\ hci' = "close_put" => ctrl' = "none"
          /\ hci' = "down" => hci = "close_put" /\ UNCHANGED ctrl
      BY <1>3 DEF CloseCancel, CloseStop, CloseEnd, StopTraffic, Closing, tx, rx
    <2> QED BY <1>0, <2>1
       DEF Opening, Closing, Sound, Firm, PlanCourse, Quieted, Polls, Commands, Up, Sent, Progress, Kept, Taken
  <1>4. CASE Send
    <2>1. /\ UNCHANGED <<hci, ctrl>> /\ HciRunning /\ (hci = "up" \/ sender # "idle")
      BY <1>4 DEF Send, SendFrame, SendSubmit, SendDefer, SendWake, HciRunning, rx, Sound, Course
    <2> QED BY <1>0, <2>1, FirmSame DEF Sound, MtkTypes, Unsent
  <1>5. CASE UNCHANGED <<hci, ctrl, sender, out, deferred>>
    BY <1>0, <1>5, FirmSame DEF Sound, MtkTypes, Unsent
  <1>6. CASE (\E auto \in BOOLEAN : SuspendBegin(auto)) \/ Suspend
    <2>1. UNCHANGED <<hci, sender, deferred>> /\ ctrl' \in {ctrl, "none"} /\ out' \in {out, 0}
      BY <1>6 DEF SuspendBegin, Suspend, SuspendEnter, Enter, SuspendCancel, SuspendKill, SuspendEnd, KillTx, rx, tx
    <2> QED BY <1>0, <2>1, FirmSame DEF Sound, MtkTypes, Unsent
  <1>7. CASE ResumePlay
    <2>1. /\ UNCHANGED <<hci, ctrl, sender>> /\ pm.at = "play" /\ deferred' = 0
          /\ \E n \in 0 .. deferred : out' = out + n
      BY <1>7 DEF ResumePlay, rx
    <2>2. HciRunning
      BY <2>1 DEF Iso, IsoOff, ResumePc
    <2>3. Unsent => Unsent'
      BY <2>1 DEF Unsent
    <2> QED BY <1>0, <2>1, <2>2, <2>3, FirmSame DEF Sound, MtkTypes
  <1>8. CASE ResumeFailed
    <2>1. UNCHANGED <<hci, ctrl, sender, out>> /\ deferred' = 0
      BY <1>8 DEF ResumeFailed, rx
    <2> QED BY <1>0, <2>1, FirmSame DEF Sound, MtkTypes, Unsent
  <1>9. CASE Resume /\ ~ResumePlay /\ ~ResumeFailed
    BY <1>5, <1>9 DEF Resume, ResumeBegin, ResumeEnter, ResumeWork, ResumeDone, ResumeTest, ResumePost, ResumeAs, rx, tx
  <1>10. CASE WakerStart \/ WakerGet \/ AclUp \/ AclDown \/ ScoChange \/ Work \/ IsocData
               \/ IntrComplete \/ BulkComplete \/ IsocComplete \/ IsoPktComplete
    BY <1>5, <1>10 DEF WakerStart, WakerGet, AclUp, AclDown, ScoChange, Work, WorkStart, WorkGet, WorkSwitch,
         Switch, WorkPost, WorkStop, IsocData, IntrComplete, BulkComplete, IsocComplete, IsoPktComplete, Gone, rx, tx
  <1> QED BY <1>1, <1>2, <1>3, <1>4, <1>6, <1>7, <1>8, <1>9, <1>10 DEF UsbNext

(* Every step keeps them.                                                  *)
LEMMA FirmStep ==
  ASSUME Course, MtkTypes, Firm, UsbTypes, Quiet, Woken, Iso, MtkNext
  PROVE  MtkTypes' /\ Firm'
  <1>0. Sound
    BY DEF Sound
  <1>1. CASE UsbNext /\ UNCHANGED mvars
    BY <1>0, <1>1, FirmUsb
  <1>2. CASE DeviceGets \/ FrameGone
    BY <1>0, <1>2, FirmDevice
  <1>3. CASE Wmt
    BY <1>0, <1>3, FirmSend, FirmRecv, FirmParse DEF Wmt, UsbTypes
  <1>4. CASE Setup \/ Shutdown
    BY <1>0, <1>4, FirmAsk, FirmTold, FirmSetup, FirmShutdown DEF Setup, Shutdown
  <1>5. CASE Reset
    BY <1>0, <1>5, FirmReset
  <1> QED BY <1>1, <1>2, <1>3, <1>4, <1>5 DEF MtkNext
(***************************************************************************)
(* The inductive invariant of the Bluetooth function.                      *)
(***************************************************************************)
IInv == /\ Balanced /\ Quiet /\ Course /\ Woken /\ Iso /\ Urbs /\ UrbLeast /\ Resets
        /\ UsbTypes /\ MtkTypes /\ Firm

(* It holds of a device just bound.                                        *)
LEMMA InitIInv ==
  ASSUME MtkInit
  PROVE  IInv
  <1> USE SomeIntfs, Wants
  <1>1. pm.op = "none" /\ pm.auto = FALSE /\ pm.i = 0 /\ pm.at = "none"
        /\ pm = [op |-> pm.op, auto |-> pm.auto, i |-> pm.i, at |-> pm.at]
    BY DEF MtkInit, Init, Rest
  <1>2. /\ hci = "down" /\ asleep = "no" /\ count = 0 /\ suspending = FALSE
        /\ sender = "idle" /\ inflight = 0 /\ out = 0 /\ leaks = 0 /\ deferred = 0 /\ waker = {}
    BY DEF MtkInit, Init
  <1>3. Balanced
    <2>1. PmType
      BY DEF MtkInit, Init, Rest, PmType
    <2>2. AtRest /\ GoingDown /\ ComingUp
      BY <1>1, <1>2 DEF AtRest, GoingDown, ComingUp
    <2> QED BY <1>1, <1>2, <2>1, <2>2 DEF Balanced
  <1>4. Quiet /\ Woken
    BY <1>1, <1>2 DEF Quiet, Woken, DeferredHasWaker, HciRunning
  <1>5. Course /\ Resets
    BY DEF MtkInit, Init, Course, Resets, Idle
  <1>6. /\ posted \in [Kinds -> Nat] /\ run \in [Kinds -> BOOLEAN]
        /\ \A k \in Kinds : ~run[k] /\ posted[k] = 0
    BY DEF MtkInit, Init, NoUrbs
  <1>7. Iso
    <2>1. /\ links.sco = 0 /\ links = [acl |-> links.acl, sco |-> links.sco]
          /\ work = [queued |-> work.queued, at |-> work.at] /\ ~work.queued /\ work.at = "idle"
          /\ load \in Loads /\ frag = 0
      BY DEF MtkInit, Init
    <2>2. IsoType /\ IsoWork /\ IsoFragment
      BY <1>6, <2>1 DEF IsoType, IsoWork, IsoFragment
    <2>3. IsoOff /\ IsoOn
      BY <1>1, <1>2, <1>6, <2>1 DEF IsoOff, IsoOn, Opening, ResumePc
    <2> QED BY <2>2, <2>3 DEF Iso
  <1>8. plan = [at |-> plan.at, left |-> plan.left, retry |-> plan.retry]
    BY DEF MtkInit
  <1>9. UrbMost /\ UrbLeast
    BY <1>6, AllKinds DEF UrbMost, UrbLeast
  <1>10. UrbOff /\ PktCourse /\ PktOne
    BY <1>1, <1>2, <1>6 DEF UrbOff, PktCourse, PktOne, NoPkt, Opening, Closing, ResumePc
  <1>11. UsbTypes
    BY <1>1, <1>2, SomeIntfs, UsbAssumption DEF MtkInit, Init, UsbTypes
  <1>12. /\ plan = [at |-> "none", left |-> 0, retry |-> 0] /\ cmd = Idle /\ evt = Nothing
         /\ dev = [sent |-> "none", events |-> <<>>, blocks |-> 0, on |-> FALSE, reset |-> FALSE]
         /\ wait = FALSE /\ late = FALSE /\ dump = FALSE /\ active = FALSE /\ rst = "idle" /\ ctrl = "none"
    BY DEF MtkInit, Init, Fresh
  <1>13. MtkTypes
    <2>1. dev \in Device /\ Len(dev.events) <= MaxEvents
      BY <1>12, SomeBlocks DEF Device
    <2>2. plan \in Plan
      BY <1>12, SomeBlocks DEF Plan
    <2> QED BY <1>12, <2>1, <2>2, PlanOver DEF MtkTypes
  <1>14. Firm
    BY <1>2, <1>12 DEF Firm, PlanCourse, Quieted, Polls, Commands, Kept, Taken, Sent, Progress, Up
  <1> QED BY <1>3, <1>4, <1>5, <1>6, <1>7, <1>8, <1>9, <1>10, <1>11, <1>13, <1>14
      DEF IInv, Urbs, UrbType

(* Every step preserves it.                                                *)
LEMMA StepIInv ==
  ASSUME IInv, [MtkNext]_allvars
  PROVE  IInv'
  <1>1. CASE MtkNext
    <2> USE <1>1 DEF IInv
    <2>1. Balanced' /\ Course' /\ Resets'
      BY BalancedStep, CourseStep, ResetsStep
    <2>2. Woken' /\ deferred' \in Nat
      BY WokenStep DEF Woken
    <2>3. Quiet'
      BY <2>2, QuietStep
    <2>4. Iso' /\ Urbs' /\ UrbLeast'
      BY IsoStep, UrbStep, LeastStep
    <2>5. UsbTypes' /\ MtkTypes' /\ Firm'
      BY UsbTypesStep, FirmStep
    <2> QED BY <2>1, <2>2, <2>3, <2>4, <2>5
  <1>2. CASE UNCHANGED allvars
    <2>1. /\ UNCHANGED <<pm, asleep, count, suspending, hci, sender, inflight, out, leaks>>
          /\ UNCHANGED <<deferred, waker, stranded, plan, cmd, rst, active>>
      BY <1>2 DEF allvars, vars, mvars, rx, tx, iso, power, history, wmt, reset
    <2>2. UNCHANGED <<run, posted, lost, stray, links, work, alt, frag, load>>
      BY <1>2 DEF allvars, vars, rx, iso, history
    <2> USE DEF IInv
    <2>3. Balanced' /\ Quiet'
      BY <2>1 DEF Balanced, PmType, AtRest, GoingDown, ComingUp, Quiet
    <2>4. Course' /\ Woken' /\ Resets'
      BY <2>1 DEF Course, Woken, DeferredHasWaker, HciRunning, Resets
    <2>5. Iso'
      BY <2>1, <2>2, IsoSame
    <2>6. Urbs'
      <3>1. PktCourse' /\ PktOne'
        BY <2>1, <2>2 DEF Urbs, PktCourse, PktOne, NoPkt
      <3>2. plan = [at |-> plan.at, left |-> plan.left, retry |-> plan.retry]
        BY DEF Urbs, UrbType
      <3> QED BY <2>1, <2>2, <3>1, <3>2, UrbSame
    <2>7. UrbLeast'
      BY <2>1, <2>2 DEF UrbLeast
    <2>8. UNCHANGED <<ctrl, refs, wait, evt, late, dev, dump>>
      BY <1>2 DEF allvars, vars, mvars, rx, power, wmt, reset
    <2>9. UsbTypes'
      BY <2>1, <2>2, <2>8 DEF UsbTypes
    <2>10. MtkTypes' /\ Firm'
      BY <2>1, <2>8, FirmSame DEF Sound, MtkTypes, Unsent
    <2> QED BY <2>3, <2>4, <2>5, <2>6, <2>7, <2>9, <2>10
  <1> QED BY <1>1, <1>2

(* The strengthening is an invariant of the specification.                 *)
THEOREM Inductive == MtkSpec => []IInv
  <1>1. MtkInit => IInv
    BY InitIInv
  <1>2. IInv /\ [MtkNext]_allvars => IInv'
    BY StepIInv
  <1> QED BY <1>1, <1>2, PTL DEF MtkSpec

(* suspend_count is balanced: an awake device that nobody suspends or      *)
(* resumes has counted every interface back, a suspended one has counted   *)
(* them all (btusb_suspend, btusb_resume).                                 *)
THEOREM CountIsBalanced == MtkSpec => []CountBalanced
  <1>1. IInv => CountBalanced
    BY DEF IInv, Balanced, AtRest, CountBalanced
  <1> QED BY <1>1, Inductive, PTL

(* tx_in_flight counts the frames on the way and those lost, and is zero   *)
(* while the device autosleeps (submit_or_queue_tx_urb, btusb_suspend).    *)
THEOREM AutoSuspendIsQuiet == MtkSpec => []AutoSuspendQuiet
  <1>1. IInv => AutoSuspendQuiet
    BY DEF IInv, Quiet, AutoSuspendQuiet
  <1> QED BY <1>1, Inductive, PTL

(* A deferred frame has somebody on the way to wake the device.            *)
THEOREM DeferredIsWoken == MtkSpec => []DeferredHasWaker
  <1>1. IInv => DeferredHasWaker
    BY DEF IInv, Woken
  <1> QED BY <1>1, Inductive, PTL

(* At rest the isochronous interface runs for the SCO links there are.     *)
THEOREM IsoFollows == MtkSpec => []IsoFollowsLinks
  <1>1. ASSUME IInv
        PROVE  IsoFollowsLinks
    <2>1. run["isoc"] /\ frag # 0 => frag = alt
      BY <1>1 DEF IInv, Iso, IsoFragment
    <2>2. ASSUME hci = "up", pm.op = "none", asleep = "no", "isoc" \notin lost,
                 work = [queued |-> FALSE, at |-> "idle"]
          PROVE  /\ run["isoc"] <=> links.sco > 0
                 /\ links.sco > 0 => alt = AltFor(links.sco)
      <3>1. Calm
        BY <1>1, <2>2 DEF IInv, Balanced, AtRest, Calm
      <3>2. ~work.queued /\ work.at = "idle"
        BY <2>2
      <3> QED BY <1>1, <2>2, <3>1, <3>2 DEF IInv, Iso, IsoOn
    <2> QED BY <2>1, <2>2 DEF IsoFollowsLinks
  <1>2. IInv => IsoFollowsLinks
    BY <1>1
  <1> QED BY <1>2, Inductive, PTL

(* The URBs of a kind that runs are all posted, none of them twice.        *)
THEOREM RxIsPosted == MtkSpec => []RxPosted
  <1>1. IInv => RxPosted
    BY DEF IInv, Urbs, UrbMost, UrbLeast, RxPosted
  <1> QED BY <1>1, Inductive, PTL

(* A setup that succeeds has downloaded the firmware and turned the        *)
(* function on, whatever order the answers, timeouts and URBs of its       *)
(* commands came in.                                                       *)
THEOREM SetupIsSound == MtkSpec => []SetupSound
  <1>1. ASSUME IInv
        PROVE  SetupSound
    <2> USE <1>1 DEF IInv
    <2>1. UpMeansLoaded
      BY DEF Firm, Up, Trusted, UpMeansLoaded
    <2>2. /\ pm.op \in {"none", "suspend", "resume"} /\ pm.auto \in BOOLEAN
          /\ asleep \in {"no", "auto", "system"} /\ suspending \in BOOLEAN
          /\ count \in 0 .. Intfs
      BY SomeIntfs DEF Balanced, PmType, AtRest, GoingDown, ComingUp
    <2>3. /\ sender \in {"idle", "submit", "defer", "wake"} /\ waker \subseteq {"queued", "get"}
          /\ {inflight, out, deferred} \subseteq Nat
      BY DEF Woken, Quiet
    <2>4. run \in [Kinds -> BOOLEAN] /\ posted \in [Kinds -> Nat]
      BY DEF Urbs, UrbType
    <2>5. links \in [acl : BOOLEAN, sco : 0 .. load.sco]
      <3>1. /\ links = [acl |-> links.acl, sco |-> links.sco] /\ links.acl \in BOOLEAN
            /\ links.sco \in Nat /\ load.sco \in Nat /\ links.sco <= load.sco
        BY UsbAssumption DEF Iso, IsoType, UsbTypes
      <3> QED BY <3>1
    <2>6. work \in [queued : BOOLEAN, at : {"idle", "get", "alt", "start", "stop"}]
      <3>1. /\ work = [queued |-> work.queued, at |-> work.at] /\ work.queued \in BOOLEAN
            /\ work.at \in {"idle", "get", "alt", "start", "stop"}
        BY DEF Iso, IsoType, UsbTypes
      <3> QED BY <3>1
    <2>7. MtkTypeOK
      BY <2>2, <2>3, <2>4, <2>5, <2>6
         DEF UsbTypes, MtkTypes, Plan, Command, Device, Says, MtkTypeOK
    <2> QED BY <2>1, <2>7 DEF SetupSound
  <1>2. IInv => SetupSound
    BY <1>1
  <1> QED BY <1>2, Inductive, PTL

(* A reset is never refused because of one that is over.                   *)
THEOREM ResetIsNotRefused == MtkSpec => []ResetNotRefused
  <1>1. IInv => ResetNotRefused
    BY DEF IInv, Resets, ResetNotRefused
  <1> QED BY <1>1, Inductive, PTL
=============================================================================
