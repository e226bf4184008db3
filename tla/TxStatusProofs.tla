--------------------------- MODULE TxStatusProofs ---------------------------
(***************************************************************************)
(* The safety properties of TxStatus for any number of frames, stations,   *)
(* packet ids, resets and channel changes.                                 *)
(***************************************************************************)
EXTENDS TxStatus, WellFoundedInduction, TLAPS

(* The life of a frame: it has an entry in the packet id table exactly from*)
(* when it got its id until its status came, or something took its place,  *)
(* and it is reported when that and the return of its token are behind it. *)
Life == \A f \in Frames : LET x == fr[f] IN
    /\ x.entry <=> x.pid # NoPid /\ ~x.txs
    /\ x.at \in {"new", "post"} => ~x.entry /\ ~x.txs
    /\ x.told = IF x.at = "done" /\ ~x.entry THEN 1 ELSE 0
    /\ x.at # "new" => x.w \in Wcids

(* mac_work and the reset's flush look only at the stations on wcid_list:  *)
(* every entry belongs to one.                                             *)
Listed == \A f \in Frames : fr[f].entry => fr[f].w \in polled

(* A post that found its station in dev->wcid is waited for by the removal *)
(* of the station.                                                         *)
Waited == \A f \in Frames : fr[f].at = "post" /\ fr[f].seen =>
    \/ sta[fr[f].w] = "up"
    \/ sta[fr[f].w] = "unlinked" /\ f \in gp[fr[f].w]

IInv == TypeOK /\ Life /\ Listed /\ Waited /\ StationGone

-----------------------------------------------------------------------------
(* A set of free packet ids has a smallest one, the one idr_alloc returns. *)
LEMMA MinPid ==
  ASSUME NEW S \in SUBSET Pids, S # {}
  PROVE  Min(S) \in S
  <1>1. S \subseteq Nat
    BY StatusAssumption DEF Pids
  <1>2. PICK x \in S : \A y \in S : ~(<<y, x>> \in OpToRel(<, Nat))
    BY <1>1, NatLessThanWellFounded, WFMin
  <1>3. \A y \in S : ~(y < x)
    BY <1>1, <1>2 DEF OpToRel
  <1>4. \A y \in S : x =< y
    BY <1>1, <1>3
  <1> QED BY <1>4 DEF Min

(* __mt76_tx_status_skb_done on one frame.                                 *)
LEMMA StatusDoneRec ==
  ASSUME NEW x \in FrameRec
  PROVE  LET y == StatusDone(x) IN
         /\ y \in FrameRec
         /\ y.at = x.at /\ y.seen = x.seen /\ y.w = x.w /\ y.pid = x.pid
         /\ ~y.entry /\ y.txs
         /\ y.told = IF x.at = "done" THEN x.told + 1 ELSE x.told
  <1> DEFINE t == IF x.at = "done" THEN x.told + 1 ELSE x.told
  <1>1. t \in Nat
    BY DEF FrameRec
  <1>2. StatusDone(x) = [x EXCEPT !.entry = FALSE, !.txs = TRUE, !.told = t]
    BY DEF StatusDone
  <1> HIDE DEF t
  <1>3. LET y == [x EXCEPT !.entry = FALSE, !.txs = TRUE, !.told = t] IN
         /\ y \in FrameRec
         /\ y.at = x.at /\ y.seen = x.seen /\ y.w = x.w /\ y.pid = x.pid
         /\ ~y.entry /\ y.txs
         /\ y.told = t
    BY <1>1 DEF FrameRec
  <1> QED BY <1>2, <1>3 DEF t

(* Taking frames out of the packet id table (__mt76_tx_status_skb_done)    *)
(* reports those whose token is back, each once, and a station leaves      *)
(* wcid_list only when none of its entries is left.                        *)
LEMMA TakeOut ==
  ASSUME IInv, NEW S \in SUBSET Frames, \A f \in S : fr[f].entry,
         NEW W \in SUBSET Wcids,
         fr' = Apply(StatusDone, S), polled' = Unlist(W, S)
  PROVE  /\ fr' \in [Frames -> FrameRec]
         /\ polled' \subseteq polled
         /\ Life' /\ Listed'
         /\ \A f \in Frames : /\ fr'[f].at = fr[f].at /\ fr'[f].seen = fr[f].seen
                              /\ fr'[f].w = fr[f].w
                              /\ fr'[f].entry <=> fr[f].entry /\ f \notin S
  <1>1. \A f \in Frames : fr[f] \in FrameRec
    BY DEF IInv, TypeOK
  <1>2. \A f \in Frames : fr'[f] = IF f \in S THEN StatusDone(fr[f]) ELSE fr[f]
    BY DEF Apply
  <1>3. \A f \in Frames :
             /\ fr'[f].at = fr[f].at /\ fr'[f].seen = fr[f].seen
             /\ fr'[f].w = fr[f].w /\ fr'[f].pid = fr[f].pid
             /\ fr'[f].entry <=> fr[f].entry /\ f \notin S
             /\ fr'[f].txs <=> fr[f].txs \/ f \in S
             /\ fr'[f].told = IF f \in S /\ fr[f].at = "done"
                              THEN fr[f].told + 1 ELSE fr[f].told
    <2> TAKE f \in Frames
    <2>1. CASE f \in S
      <3>1. fr[f] \in FrameRec /\ fr'[f] = StatusDone(fr[f])
        BY <2>1, <1>1, <1>2
      <3>2. /\ fr'[f].at = fr[f].at /\ fr'[f].seen = fr[f].seen
            /\ fr'[f].w = fr[f].w /\ fr'[f].pid = fr[f].pid
            /\ ~fr'[f].entry /\ fr'[f].txs
            /\ fr'[f].told = IF fr[f].at = "done" THEN fr[f].told + 1 ELSE fr[f].told
        BY <3>1, StatusDoneRec
      <3> QED BY <2>1, <3>2
    <2>2. CASE f \notin S  BY <2>2, <1>2
    <2> QED BY <2>1, <2>2
  <1>4. fr' \in [Frames -> FrameRec]
    <2>1. \A f \in Frames : fr'[f] \in FrameRec
      BY <1>1, <1>2, StatusDoneRec
    <2> QED BY <2>1 DEF Apply
  <1>5. Life'
    BY <1>1, <1>3 DEF IInv, Life, FrameRec
  <1>6. polled' \subseteq polled /\ Listed'
    BY <1>3 DEF IInv, Listed, Unlist, Entries
  <1> QED BY <1>3, <1>4, <1>5, <1>6

(* __mt76_tx_complete_skb on one frame.                                    *)
LEMMA CompleteRec ==
  ASSUME NEW x \in FrameRec
  PROVE  LET y == Complete(x) IN
         /\ y \in FrameRec
         /\ y.at = "done" /\ y.seen = x.seen /\ y.w = x.w /\ y.pid = x.pid
         /\ y.entry = x.entry /\ y.txs = x.txs
         /\ y.told = IF x.pid = NoPid \/ x.txs THEN x.told + 1 ELSE x.told
  <1> DEFINE t == IF x.pid = NoPid \/ x.txs THEN x.told + 1 ELSE x.told
  <1>1. t \in Nat
    BY DEF FrameRec
  <1>2. Complete(x) = [x EXCEPT !.at = "done", !.old = FALSE, !.told = t]
    BY DEF Complete
  <1> HIDE DEF t
  <1>3. LET y == [x EXCEPT !.at = "done", !.old = FALSE, !.told = t] IN
         /\ y \in FrameRec
         /\ y.at = "done" /\ y.seen = x.seen /\ y.w = x.w /\ y.pid = x.pid
         /\ y.entry = x.entry /\ y.txs = x.txs
         /\ y.told = t
    BY <1>1 DEF FrameRec
  <1> QED BY <1>2, <1>3 DEF t

(* Returning the tokens of frames (mt76_connac2_txwi_free) reports those   *)
(* that are not in the packet id table.                                    *)
LEMMA TokensBack ==
  ASSUME IInv, NEW S \in SUBSET Frames, \A f \in S : fr[f].at \in {"chip", "napi"},
         fr' = Apply(Complete, S), UNCHANGED <<polled, sta, gp>>
  PROVE  /\ fr' \in [Frames -> FrameRec]
         /\ Life' /\ Listed' /\ Waited' /\ StationGone'
  <1>1. \A f \in Frames : fr[f] \in FrameRec
    BY DEF IInv, TypeOK
  <1>2. \A f \in Frames : fr'[f] = IF f \in S THEN Complete(fr[f]) ELSE fr[f]
    BY DEF Apply
  <1>3. \A f \in Frames :
             /\ fr'[f].at = IF f \in S THEN "done" ELSE fr[f].at
             /\ fr'[f].seen = fr[f].seen /\ fr'[f].w = fr[f].w
             /\ fr'[f].pid = fr[f].pid /\ fr'[f].entry = fr[f].entry
             /\ fr'[f].txs = fr[f].txs
             /\ fr'[f].told = IF f \in S /\ (fr[f].pid = NoPid \/ fr[f].txs)
                              THEN fr[f].told + 1 ELSE fr[f].told
    <2> TAKE f \in Frames
    <2>1. CASE f \in S
      <3>1. fr[f] \in FrameRec /\ fr'[f] = Complete(fr[f])
        BY <2>1, <1>1, <1>2
      <3> QED BY <2>1, <3>1, CompleteRec
    <2>2. CASE f \notin S  BY <2>2, <1>2
    <2> QED BY <2>1, <2>2
  <1>4. fr' \in [Frames -> FrameRec]
    <2>1. \A f \in Frames : fr'[f] \in FrameRec
      BY <1>1, <1>2, CompleteRec
    <2> QED BY <2>1 DEF Apply
  <1>5. Life'
    <2> SUFFICES ASSUME NEW f \in Frames
                 PROVE  LET x == fr'[f] IN
                        /\ x.entry <=> x.pid # NoPid /\ ~x.txs
                        /\ x.at \in {"new", "post"} => ~x.entry /\ ~x.txs
                        /\ x.told = IF x.at = "done" /\ ~x.entry THEN 1 ELSE 0
                        /\ x.at # "new" => x.w \in Wcids
      BY DEF Life
    <2> QED BY <1>1, <1>3 DEF IInv, Life, FrameRec
  <1>6. Listed' /\ Waited' /\ StationGone'
    BY <1>3 DEF IInv, Listed, Waited, StationGone, Entries
  <1> QED BY <1>4, <1>5, <1>6

-----------------------------------------------------------------------------
(* A started driver has no frames.                                         *)
LEMMA InitIInv == Init => IInv
  BY DEF Init, IInv, TypeOK, FrameRec, CtlRec, Life, Listed, Waited, StationGone, Entries,
         NoPid

(* mt76_dma_tx_queue_skb and mt76_tx_status_skb_add keep the invariant.    *)
LEMMA PostPreserves ==
  ASSUME IInv, NEW f \in Frames, Post(f)
  PROVE  IInv'
  <1>1. /\ \A g \in Frames : fr[g] \in FrameRec
        /\ fr[f] \in FrameRec
        /\ fr[f].at \in {"new", "post"} => ~fr[f].entry /\ ~fr[f].txs /\ fr[f].pid = NoPid
                                        /\ fr[f].told = 0
    BY DEF IInv, TypeOK, Life, FrameRec
  <1>2. CASE \E w \in Wcids : PostFail(f, w)
    <2> PICK w \in Wcids : PostFail(f, w)  BY <1>2
    <2> DEFINE x == [fr[f] EXCEPT !.at = "done", !.w = w, !.told = 1]
    <2>1. fr' = [fr EXCEPT ![f] = x] /\ fr[f].at = "new"
      BY DEF PostFail, NextFrame, IInv, TypeOK
    <2>2. x \in FrameRec /\ x.at = "done" /\ x.w = w /\ x.told = 1 /\ ~x.entry /\ ~x.txs
          /\ x.pid = NoPid
      BY <1>1, <2>1 DEF FrameRec
    <2> HIDE DEF x
    <2>3. UNCHANGED <<polled, sta, gp, due, ctl>>
      BY DEF PostFail
    <2>4. TypeOK'
      BY <2>1, <2>2, <2>3 DEF IInv, TypeOK
    <2>5. Life' /\ Listed'
      BY <2>1, <2>2, <2>3 DEF IInv, TypeOK, Life, Listed
    <2>6. Waited' /\ StationGone'
      BY <2>1, <2>2, <2>3 DEF IInv, TypeOK, Life, Waited, StationGone, Entries
    <2> QED BY <2>4, <2>5, <2>6 DEF IInv
  <1>3. CASE \E w \in Wcids : PostStart(f, w)
    <2>1. PICK w \in Wcids : PostStart(f, w)
      BY <1>3
    <2>2. PICK want \in BOOLEAN :
          fr' = [fr EXCEPT ![f].at = "post", ![f].w = w, ![f].seen = want /\ sta[w] = "up"]
      BY <2>1 DEF PostStart
    <2> DEFINE s == want /\ sta[w] = "up"
               x == [fr[f] EXCEPT !.at = "post", !.w = w, !.seen = s]
    <2>3. fr' = [fr EXCEPT ![f] = x] /\ fr[f].at = "new"
      BY <2>1, <2>2 DEF PostStart, NextFrame, IInv, TypeOK
    <2>4. s \in BOOLEAN /\ (s => sta[w] = "up")
      OBVIOUS
    <2> HIDE DEF s
    <2>5. x \in FrameRec /\ x.at = "post" /\ x.w = w /\ x.told = 0 /\ ~x.entry /\ ~x.txs
          /\ x.pid = NoPid /\ (x.seen => sta[w] = "up")
      BY <1>1, <2>3, <2>4 DEF FrameRec
    <2> HIDE DEF x
    <2>6. UNCHANGED <<polled, sta, gp, due, ctl>>
      BY <2>1 DEF PostStart
    <2>7. TypeOK'
      BY <2>3, <2>5, <2>6 DEF IInv, TypeOK
    <2>8. Life' /\ Listed'
      BY <2>3, <2>5, <2>6 DEF IInv, TypeOK, Life, Listed
    <2>9. Waited' /\ StationGone'
      BY <2>3, <2>5, <2>6 DEF IInv, TypeOK, Life, Waited, StationGone, Entries
    <2> QED BY <2>7, <2>8, <2>9 DEF IInv
  <1>4. CASE PostEnd(f)
    <2>1. fr[f].at = "post"  BY <1>4 DEF PostEnd
    <2>2. CASE fr[f].seen /\ FreePids(fr[f].w) # {}
      <3> DEFINE p == Min(FreePids(fr[f].w))
                 x == [fr[f] EXCEPT !.at = "chip", !.seen = FALSE, !.entry = TRUE, !.pid = p]
      <3>1. p \in Pids
        BY <2>2, MinPid DEF FreePids
      <3>2. fr' = [fr EXCEPT ![f] = x] /\ polled' = polled \cup {fr[f].w}
        BY <1>4, <2>2 DEF PostEnd, IInv, TypeOK
      <3> HIDE DEF p
      <3>3. p # NoPid
        BY <3>1, StatusAssumption DEF Pids, NoPid
      <3>4. x \in FrameRec /\ x.at = "chip" /\ x.w = fr[f].w /\ x.told = 0 /\ x.entry
            /\ ~x.txs /\ x.pid # NoPid /\ ~x.seen
        BY <1>1, <2>1, <3>1, <3>3 DEF FrameRec
      <3>5. fr[f].w \in Wcids /\ sta[fr[f].w] # "gone"
        BY <2>1, <2>2 DEF IInv, Life, Waited
      <3> HIDE DEF x
      <3> QED BY <1>1, <1>4, <2>1, <3>2, <3>4, <3>5
              DEF PostEnd, IInv, TypeOK, Life, Listed, Waited, StationGone, Entries
    <2>3. CASE ~(fr[f].seen /\ FreePids(fr[f].w) # {})
      <3> DEFINE x == [fr[f] EXCEPT !.at = "chip", !.seen = FALSE]
      <3>1. fr' = [fr EXCEPT ![f] = x] /\ polled' = polled
        BY <1>4, <2>3 DEF PostEnd, IInv, TypeOK
      <3>2. x \in FrameRec /\ x.at = "chip" /\ x.w = fr[f].w /\ x.told = 0 /\ ~x.entry
            /\ ~x.txs /\ x.pid = NoPid /\ ~x.seen
        BY <1>1, <2>1 DEF FrameRec
      <3> HIDE DEF x
      <3> QED BY <1>1, <1>4, <2>1, <3>1, <3>2
              DEF PostEnd, IInv, TypeOK, Life, Listed, Waited, StationGone, Entries
    <2> QED BY <2>2, <2>3
  <1> QED BY <1>2, <1>3, <1>4 DEF Post

(* A step on a frame that leaves its life alone.                           *)
LEMMA FramePreserves ==
  ASSUME IInv, NEW f \in Frames, NEW x \in FrameRec, fr' = [fr EXCEPT ![f] = x],
         /\ x.entry = fr[f].entry /\ x.pid = fr[f].pid /\ x.txs = fr[f].txs
         /\ x.told = fr[f].told /\ x.w = fr[f].w
         /\ x.at = fr[f].at \/ (fr[f].at = "chip" /\ x.at = "napi")
         /\ x.seen = fr[f].seen,
         UNCHANGED <<polled, sta, gp>>
  PROVE  /\ fr' \in [Frames -> FrameRec]
         /\ Life' /\ Listed' /\ Waited' /\ StationGone'
  <1>1. fr' \in [Frames -> FrameRec]
    BY DEF IInv, TypeOK
  <1>2. Life' /\ Listed'
    BY DEF IInv, TypeOK, Life, Listed
  <1>3. Waited' /\ StationGone'
    BY DEF IInv, TypeOK, Waited, StationGone, Entries
  <1> QED BY <1>1, <1>2, <1>3

(* tx_free events, the poll, and the sending of status reports.            *)
LEMMA ChipPreserves ==
  ASSUME IInv, NEW f \in Frames, Chip(f) \/ Age(f)
  PROVE  IInv'
  <1>0. fr[f] \in FrameRec
    BY DEF IInv, TypeOK
  <1>1. CASE TxFree(f)
    <2> DEFINE x == [fr[f] EXCEPT !.at = "napi"]
    <2>1. fr' = [fr EXCEPT ![f] = x] /\ fr[f].at = "chip"
      BY <1>1 DEF TxFree, IInv, TypeOK
    <2>2. /\ x \in FrameRec /\ x.at = "napi" /\ x.entry = fr[f].entry
          /\ x.pid = fr[f].pid /\ x.txs = fr[f].txs /\ x.told = fr[f].told
          /\ x.w = fr[f].w /\ x.seen = fr[f].seen
      BY <1>0 DEF FrameRec
    <2> HIDE DEF x
    <2>3. UNCHANGED <<polled, sta, gp, due, ctl>>
      BY <1>1 DEF TxFree
    <2> QED BY <2>1, <2>2, <2>3, FramePreserves DEF IInv, TypeOK
  <1>2. CASE TxwiFree(f)
    <2>1. /\ {f} \in SUBSET Frames /\ \A g \in {f} : fr[g].at \in {"chip", "napi"}
          /\ fr' = Apply(Complete, {f}) /\ UNCHANGED <<polled, sta, gp, due, ctl>>
      BY <1>2 DEF TxwiFree
    <2>2. fr' \in [Frames -> FrameRec] /\ Life' /\ Listed' /\ Waited' /\ StationGone'
      BY <2>1, TokensBack
    <2> QED BY <2>1, <2>2 DEF IInv, TypeOK
  <1>3. CASE Report(f)
    <2> DEFINE x == [fr[f] EXCEPT !.sent = TRUE]
    <2>1. fr' = [fr EXCEPT ![f] = x]
      BY <1>3 DEF Report, IInv, TypeOK
    <2>2. /\ x \in FrameRec /\ x.at = fr[f].at /\ x.entry = fr[f].entry
          /\ x.pid = fr[f].pid /\ x.txs = fr[f].txs /\ x.told = fr[f].told
          /\ x.w = fr[f].w /\ x.seen = fr[f].seen
      BY <1>0 DEF FrameRec
    <2> HIDE DEF x
    <2>3. UNCHANGED <<polled, sta, gp, ctl>>
      BY <1>3 DEF Report
    <2>4. fr[f].w \in Wcids /\ fr[f].pid \in Pids
      BY <1>0, <1>3 DEF Report, IInv, Life, FrameRec
    <2>5. due' \subseteq [w : Wcids, pid : Pids]
      BY <1>3, <2>4 DEF Report, IInv, TypeOK
    <2>6. /\ fr' \in [Frames -> FrameRec]
          /\ Life' /\ Listed' /\ Waited' /\ StationGone'
      BY <2>1, <2>2, <2>3, FramePreserves
    <2> QED BY <2>3, <2>5, <2>6 DEF IInv, TypeOK
  <1>4. CASE Age(f)
    <2> DEFINE x == [fr[f] EXCEPT !.old = TRUE]
    <2>1. fr' = [fr EXCEPT ![f] = x]
      BY <1>4 DEF Age, IInv, TypeOK
    <2>2. /\ x \in FrameRec /\ x.at = fr[f].at /\ x.entry = fr[f].entry
          /\ x.pid = fr[f].pid /\ x.txs = fr[f].txs /\ x.told = fr[f].told
          /\ x.w = fr[f].w /\ x.seen = fr[f].seen
      BY <1>0 DEF FrameRec
    <2> HIDE DEF x
    <2>3. UNCHANGED <<polled, sta, gp, due, ctl>>
      BY <1>4 DEF Age
    <2>4. /\ fr' \in [Frames -> FrameRec]
          /\ Life' /\ Listed' /\ Waited' /\ StationGone'
      BY <2>1, <2>2, <2>3, FramePreserves
    <2> QED BY <2>3, <2>4 DEF IInv, TypeOK
  <1> QED BY <1>1, <1>2, <1>3, <1>4 DEF Chip

(* Steps that take a set of frames out of the table of the stations W and  *)
(* change neither dev->wcid nor the waiting of a removal.                  *)
LEMMA TakeOutPreserves ==
  ASSUME IInv, NEW S \in SUBSET Frames, \A f \in S : fr[f].entry,
         NEW W \in SUBSET Wcids,
         fr' = Apply(StatusDone, S), polled' = Unlist(W, S), UNCHANGED <<sta, gp>>
  PROVE  /\ fr' \in [Frames -> FrameRec] /\ polled' \subseteq Wcids
         /\ Life' /\ Listed' /\ Waited' /\ StationGone'
  <1>1. /\ fr' \in [Frames -> FrameRec] /\ polled' \subseteq polled
        /\ Life' /\ Listed'
        /\ \A f \in Frames : /\ fr'[f].at = fr[f].at /\ fr'[f].seen = fr[f].seen
                             /\ fr'[f].w = fr[f].w
                             /\ fr'[f].entry <=> fr[f].entry /\ f \notin S
    BY TakeOut
  <1>2. Waited' /\ StationGone'
    BY <1>1 DEF IInv, Waited, StationGone, Entries
  <1> QED BY <1>1, <1>2 DEF IInv, TypeOK

(* A status report, whether it finds its frame, another of the same packet *)
(* id, or only entries that waited too long.                               *)
LEMMA TxsPreserves ==
  ASSUME IInv, NEW e \in due, Txs(e)
  PROVE  IInv'
  <1>1. e.w \in Wcids /\ due' \subseteq [w : Wcids, pid : Pids]
    BY DEF Txs, IInv, TypeOK
  <1>2. UNCHANGED <<sta, gp, ctl>>
    BY DEF Txs
  <1>3. CASE UNCHANGED <<fr, polled>>
    BY <1>1, <1>2, <1>3 DEF IInv, TypeOK, Life, Listed, Waited, StationGone, Entries
  <1>4. CASE ~UNCHANGED <<fr, polled>>
    <2> DEFINE hit == {f \in Entries(e.w) : fr[f].pid = e.pid}
               out == IF hit # {} THEN hit ELSE Stale(e.w)
    <2>1. fr' = Apply(StatusDone, out) /\ polled' = Unlist({e.w}, out)
      BY <1>4 DEF Txs
    <2>2. out \in SUBSET Frames /\ \A f \in out : fr[f].entry
      BY DEF Stale, Entries
    <2> HIDE DEF out
    <2>3. {e.w} \in SUBSET Wcids
      BY <1>1
    <2>4. /\ fr' \in [Frames -> FrameRec] /\ polled' \subseteq Wcids
          /\ Life' /\ Listed' /\ Waited' /\ StationGone'
      BY <1>2, <2>1, <2>2, <2>3, TakeOutPreserves
    <2> QED BY <1>1, <1>2, <2>4 DEF IInv, TypeOK
  <1> QED BY <1>3, <1>4

(* mac_work drops what waited too long.                                    *)
LEMMA MacWorkPreserves == IInv /\ MacWork => IInv'
  <1> SUFFICES ASSUME IInv, MacWork PROVE IInv'  OBVIOUS
  <1> DEFINE out == UNION {Stale(w) : w \in polled}
  <1>1. out \in SUBSET Frames /\ \A f \in out : fr[f].entry
    BY DEF Stale, Entries
  <1>2. fr' = Apply(StatusDone, out) /\ polled' = Unlist(polled, out)
        /\ UNCHANGED <<sta, gp, due, ctl>>
    BY DEF MacWork
  <1>3. polled \in SUBSET Wcids
    BY DEF IInv, TypeOK
  <1> HIDE DEF out
  <1> QED BY <1>1, <1>2, <1>3, TakeOutPreserves DEF IInv, TypeOK

(* Unlinking a station fixes the posts its removal waits for; emptying its *)
(* table leaves nothing, and no post that could add to it.                 *)
LEMMA RemovalPreserves ==
  ASSUME IInv, NEW w \in Wcids, Removal(w)
  PROVE  IInv'
  <1>1. CASE Unlink(w)
    <2>1. TypeOK'
      BY <1>1 DEF Unlink, IInv, TypeOK, At
    <2>2. Life' /\ Listed' /\ StationGone'
      BY <1>1 DEF Unlink, IInv, TypeOK, Life, Listed, StationGone, Entries
    <2>3. Waited'
      BY <1>1 DEF Unlink, IInv, TypeOK, Waited, At
    <2> QED BY <2>1, <2>2, <2>3 DEF IInv
  <1>2. CASE Cleanup(w)
    <2>1. Entries(w) \in SUBSET Frames /\ \A f \in Entries(w) : fr[f].entry
      BY DEF Entries
    <2>2. fr' = Apply(StatusDone, Entries(w)) /\ polled' = Unlist({w}, Entries(w))
      BY <1>2 DEF Cleanup
    <2>3. /\ fr' \in [Frames -> FrameRec] /\ polled' \subseteq polled
          /\ Life' /\ Listed'
          /\ \A f \in Frames : /\ fr'[f].at = fr[f].at /\ fr'[f].seen = fr[f].seen
                               /\ fr'[f].w = fr[f].w
                               /\ fr'[f].entry <=> fr[f].entry /\ f \notin Entries(w)
      <3>1. {w} \in SUBSET Wcids  OBVIOUS
      <3> QED BY <2>1, <2>2, <3>1, TakeOut
    <2>4. TypeOK'
      BY <1>2, <2>3 DEF Cleanup, IInv, TypeOK
    <2>5. Waited'
      BY <1>2, <2>3 DEF Cleanup, IInv, TypeOK, Waited, At
    <2>6. StationGone'
      <3> SUFFICES ASSUME NEW v \in Wcids, sta'[v] = "gone"
                   PROVE  Entries(v)' = {} /\ v \notin polled'
        BY DEF StationGone
      <3>1. CASE v = w
        BY <2>2, <2>3, <3>1 DEF Entries, Unlist
      <3>2. CASE v # w
        <4>1. sta[v] = "gone"
          BY <1>2, <3>2 DEF Cleanup, IInv, TypeOK
        <4> QED BY <2>3, <4>1 DEF IInv, StationGone, Entries
      <3> QED BY <3>1, <3>2
    <2> QED BY <2>3, <2>4, <2>5, <2>6 DEF IInv
  <1> QED BY <1>1, <1>2 DEF Removal

(* The reset work, whichever of its parts fails, and channel changes.      *)
LEMMA ResetPreserves == IInv /\ (RsStart \/ Reset \/ ChannelChange) => IInv'
  <1>1. ASSUME IInv, UNCHANGED <<fr, polled, sta, gp>>, ctl' \in CtlRec, due' \subseteq due
        PROVE  IInv'
    BY <1>1 DEF IInv, TypeOK, Life, Listed, Waited, StationGone, Entries
  <1> SUFFICES ASSUME IInv, RsStart \/ Reset \/ ChannelChange PROVE IInv'  OBVIOUS
  <1>0. ctl \in CtlRec  BY DEF IInv, TypeOK
  <1>2. CASE RsStart
    <2>1. ctl' \in CtlRec /\ UNCHANGED <<fr, polled, sta, gp, due>>
      <3>1. PICK c \in {"dead", ctl.chip} :
              ctl' = [ctl EXCEPT !.rs = "lock", !.reset = TRUE, !.mac = FALSE, !.chip = c,
                                 !.resets = @ + 1]
        BY <1>2 DEF RsStart
      <3>2. ctl.resets + 1 \in Nat /\ c \in {"up", "dead"}
        BY <1>0 DEF CtlRec
      <3>3. ctl' \in CtlRec
        BY <1>0, <3>1, <3>2 DEF CtlRec
      <3> QED BY <1>2, <3>3 DEF RsStart
    <2> QED BY <1>1, <2>1
  <1>3. CASE RsLock
    <2>1. ctl' \in CtlRec /\ UNCHANGED <<fr, polled, sta, gp, due>>
      <3>1. ctl.tries + 1 \in Nat
        BY <1>0 DEF CtlRec
      <3> QED BY <1>0, <1>3, <3>1 DEF RsLock, CtlRec
    <2> QED BY <1>1, <2>1
  <1>4. CASE RsQuiet
    <2>1. ctl' \in CtlRec /\ UNCHANGED <<fr, polled, sta, gp, due>>
      BY <1>0, <1>4 DEF RsQuiet, CtlRec
    <2> QED BY <1>1, <2>1
  <1>5. CASE RsTokenPut
    <2>1. At("chip") \in SUBSET Frames /\ \A f \in At("chip") : fr[f].at \in {"chip", "napi"}
      BY DEF At
    <2>2. fr' = Apply(Complete, At("chip")) /\ UNCHANGED <<polled, sta, gp>>
      BY <1>5 DEF RsTokenPut
    <2>3. fr' \in [Frames -> FrameRec] /\ Life' /\ Listed' /\ Waited' /\ StationGone'
      BY <2>1, <2>2, TokensBack
    <2>4. ctl' \in CtlRec /\ due' \subseteq due
      BY <1>0, <1>5 DEF RsTokenPut, CtlRec
    <2> QED BY <1>5, <2>3, <2>4 DEF RsTokenPut, IInv, TypeOK
  <1>6. CASE RsFlush
    <2> DEFINE out == UNION {Entries(w) : w \in polled}
    <2>1. out \in SUBSET Frames /\ \A f \in out : fr[f].entry
      BY DEF Entries
    <2>2. /\ \/ fr' = Apply(StatusDone, out) /\ polled' = Unlist(polled, out)
             \/ UNCHANGED <<fr, polled>>
          /\ UNCHANGED <<sta, gp, due>>
          /\ ctl' \in CtlRec
      BY <1>6, <1>0 DEF RsFlush, CtlRec
    <2> HIDE DEF out
    <2>3. CASE UNCHANGED <<fr, polled>>
      BY <1>1, <2>2, <2>3
    <2>4. CASE fr' = Apply(StatusDone, out) /\ polled' = Unlist(polled, out)
      <3>1. polled \in SUBSET Wcids
        BY DEF IInv, TypeOK
      <3>2. /\ fr' \in [Frames -> FrameRec] /\ polled' \subseteq Wcids
            /\ Life' /\ Listed' /\ Waited' /\ StationGone'
        BY <2>1, <2>2, <2>4, <3>1, TakeOutPreserves
      <3> QED BY <2>2, <3>2 DEF IInv, TypeOK
    <2> QED BY <2>2, <2>3, <2>4
  <1>7. CASE RsFw
    <2>1. ctl' \in CtlRec /\ UNCHANGED <<fr, polled, sta, gp, due>>
      BY <1>0, <1>7 DEF RsFw, CtlRec
    <2> QED BY <1>1, <2>1
  <1>8. CASE RsEnd
    <2>1. ctl' \in CtlRec /\ UNCHANGED <<fr, polled, sta, gp, due>>
      BY <1>0, <1>8 DEF RsEnd, CtlRec
    <2> QED BY <1>1, <2>1
  <1>9. CASE ChannelChange
    <2>1. ctl' \in CtlRec /\ UNCHANGED <<fr, polled, sta, gp, due>>
      <3>1. ctl.chans + 1 \in Nat
        BY <1>0 DEF CtlRec
      <3> QED BY <1>0, <1>9, <3>1 DEF ChannelChange, CtlRec
    <2> QED BY <1>1, <2>1
  <1> QED BY <1>2, <1>3, <1>4, <1>5, <1>6, <1>7, <1>8, <1>9 DEF Reset

-----------------------------------------------------------------------------
(* IInv is an inductive invariant of the specification.                    *)
LEMMA Inductive == Spec => []IInv
  <1>1. IInv /\ [Next]_vars => IInv'
    <2> SUFFICES ASSUME IInv, [Next]_vars PROVE IInv'  OBVIOUS
    <2>1. CASE \E f \in Frames : Post(f) \/ Chip(f) \/ Age(f)
      BY <2>1, PostPreserves, ChipPreserves
    <2>2. CASE \E e \in due : Txs(e)
      BY <2>2, TxsPreserves
    <2>3. CASE MacWork
      BY <2>3, MacWorkPreserves
    <2>4. CASE \E w \in Wcids : Removal(w)
      BY <2>4, RemovalPreserves
    <2>5. CASE RsStart \/ Reset \/ ChannelChange
      BY <2>5, ResetPreserves
    <2>6. CASE UNCHANGED vars
      BY <2>6 DEF vars, IInv, TypeOK, Life, Listed, Waited, StationGone, Entries
    <2> QED BY <2>1, <2>2, <2>3, <2>4, <2>5, <2>6 DEF Next
  <1> QED BY <1>1, InitIInv, PTL DEF Spec

(* The state keeps its shape.                                              *)
THEOREM TypeCorrect == Spec => []TypeOK
  <1>1. IInv => TypeOK  BY DEF IInv
  <1> QED BY <1>1, Inductive, PTL

(* No order of status report, tx_free event, timeout, flush and removal    *)
(* has a frame reported, and so freed, twice, or while its token or packet *)
(* id still refers to it.                                                  *)
THEOREM OnceOnly == Spec => []ReportedOnce
  <1>1. IInv => ReportedOnce
    BY DEF IInv, TypeOK, FrameRec, Life, ReportedOnce
  <1> QED BY <1>1, Inductive, PTL

(* None of them has a frame forgotten: what has its token back and is not  *)
(* reported is in the table of a station on wcid_list.                     *)
THEOREM NoneLost == Spec => []FrameKept
  <1>1. IInv => FrameKept
    BY DEF IInv, TypeOK, FrameRec, Life, Listed, FrameKept
  <1> QED BY <1>1, Inductive, PTL

(* Together: every frame is accounted for exactly once.                    *)
THEOREM AllAccounted == Spec => []Accounted
  <1>1. ReportedOnce /\ FrameKept => Accounted  BY DEF Accounted
  <1> QED BY <1>1, OnceOnly, NoneLost, PTL

(* A removed station keeps no packet id, also of a frame that was being    *)
(* posted while it was removed.                                            *)
THEOREM GoneStaysGone == Spec => []StationGone
  <1>1. IInv => StationGone  BY DEF IInv
  <1> QED BY <1>1, Inductive, PTL
=============================================================================
