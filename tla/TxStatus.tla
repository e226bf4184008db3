----------------------------- MODULE TxStatus -----------------------------
(***************************************************************************)
(* What becomes of a frame that was handed to the chip (tx.c, mac80211.c,  *)
(* mt76_connac_mac.c, mt7921/mac.c): it holds a token until a tx_free      *)
(* event or a reset returns it, and, when its status was asked for, a      *)
(* packet id of its station until a status report (TXS), a timeout, a      *)
(* flush or the removal of the station takes it out of that table.  The    *)
(* frame is reported to mac80211, and freed, when both are through.        *)
(*                                                                         *)
(* A step is what runs under status_lock, or under the transmit queue's    *)
(* lock for the two halves of a post.  How frames get here is TxSched's    *)
(* subject; here any frame may be posted to any station.                   *)
(*                                                                         *)
(* Definitions with a suffix, Complete_NoTxs and the like, are the same    *)
(* thing with a bug, to see that a property notices it.                    *)
(***************************************************************************)
EXTENDS Integers, FiniteSets, FiniteSetsExt

CONSTANTS
    N,           \* bound: frames, numbered in the order they are posted
    Wcids,       \* stations
    PidMax,      \* MT_PACKET_ID_MASK, the largest packet id
    MaxResets,   \* bound: chip resets
    MaxTries,    \* bound: attempts of one reset (10 in the code)
    MaxChannels  \* bound: channel changes

ASSUME StatusAssumption == N \in Nat /\ PidMax \in Nat \ {0}

Frames == 1 .. N

NoPid == 0       \* MT_PACKET_ID_NO_ACK, MT_PACKET_ID_NO_SKB
Pids  == 1 .. PidMax

VARIABLES
    fr,      \* the frames
    polled,  \* dev->wcid_list: stations whose packet ids mac_work looks at
    sta,     \* "up", "unlinked" from dev->wcid, "gone"
    gp,      \* frames being posted when the station was unlinked
    due,     \* status reports the chip has sent
    ctl      \* RESET bit, dev->mutex, reset work, mac_work, the chip

vars == <<fr, polled, sta, gp, due, ctl>>

(* at: "new", "post" (under the queue's lock), "chip" (with a token),      *)
(* "napi" (token taken back), "done" (MT_TX_CB_DMA_DONE).  entry: in the   *)
(* packet id table of its station.  told: how often it was reported.       *)
Init ==
    /\ fr = [f \in Frames |-> [at |-> "new", w |-> "none", seen |-> FALSE, pid |-> NoPid,
               entry |-> FALSE, txs |-> FALSE, old |-> FALSE, sent |-> FALSE, told |-> 0]]
    /\ polled = {}
    /\ sta = [w \in Wcids |-> "up"] /\ gp = [w \in Wcids |-> {}]
    /\ due = {}
    /\ ctl = [reset |-> FALSE, mutex |-> FALSE, rs |-> "idle", mac |-> TRUE,
              chip |-> "up", resets |-> 0, tries |-> 0, chans |-> 0]

At(p)      == {f \in Frames : fr[f].at = p}
Entries(w) == {f \in Frames : fr[f].entry /\ fr[f].w = w}     \* wcid->pktid
Torn       == ctl.rs \in {"tear", "flush", "fw"}              \* worker, NAPI off

-----------------------------------------------------------------------------
(* Completion.                                                             *)

(* __mt76_tx_complete_skb: without a packet id, or with its report here    *)
(* already, the frame is through; else it waits in the table.              *)
Complete_NoTxs(x) == [x EXCEPT !.at = "done", !.old = FALSE,
                               !.told = IF x.pid = NoPid THEN @ + 1 ELSE @]
Complete(x) == [x EXCEPT !.at = "done", !.old = FALSE,
                         !.told = IF x.pid = NoPid \/ x.txs THEN @ + 1 ELSE @]

(* __mt76_tx_status_skb_done for a frame taken out of the table.           *)
StatusDone_Find(x) == [x EXCEPT !.txs = TRUE,
                                !.told = IF x.at = "done" THEN @ + 1 ELSE @]
StatusDone(x) == [x EXCEPT !.entry = FALSE, !.txs = TRUE,
                           !.told = IF x.at = "done" THEN @ + 1 ELSE @]

Apply(Op(_), S) == [f \in Frames |-> IF f \in S THEN Op(fr[f]) ELSE fr[f]]

(* mt76_tx_status_skb_get drops the entries that waited too long.          *)
Stale(w) == {f \in Entries(w) : fr[f].at = "done" /\ fr[f].old}

(* A station leaves wcid_list with its last entry.                         *)
Unlist_Any(W, S) == polled \ W
Unlist(W, S) == polled \ {w \in W : Entries(w) \subseteq S}

-----------------------------------------------------------------------------
(* Posting: mt76_dma_tx_queue_skb, mt7921e_tx_prepare_skb.                 *)

NextFrame(f) == fr[f].at = "new" /\ \A g \in 1 .. f - 1 : fr[g].at # "new"

PostFail(f, w) ==       \* reset, no memory, ring full, no token
    /\ NextFrame(f) /\ sta[w] # "gone"
    /\ fr' = [fr EXCEPT ![f].at = "done", ![f].w = w, ![f].told = 1]
    /\ UNCHANGED <<polled, sta, gp, due, ctl>>

(* mt76_tx_status_skb_add tests dev->wcid before it takes status_lock.     *)
PostStart_NoTest(f, w) ==
    /\ NextFrame(f) /\ sta[w] # "gone" /\ At("post") = {}
    /\ ~ctl.reset /\ ~Torn
    /\ \E want \in BOOLEAN :
         fr' = [fr EXCEPT ![f].at = "post", ![f].w = w,
                          ![f].seen = want]
    /\ UNCHANGED <<polled, sta, gp, due, ctl>>

PostStart(f, w) ==
    /\ NextFrame(f) /\ sta[w] # "gone" /\ At("post") = {}
    /\ ~ctl.reset /\ ~Torn
    /\ \E want \in BOOLEAN :
         fr' = [fr EXCEPT ![f].at = "post", ![f].w = w,
                          ![f].seen = want /\ sta[w] = "up"]
    /\ UNCHANGED <<polled, sta, gp, due, ctl>>

FreePids(w) == Pids \ {fr[g].pid : g \in Entries(w)}

PostEnd(f) ==
    /\ fr[f].at = "post"
    /\ IF fr[f].seen /\ FreePids(fr[f].w) # {}
       THEN /\ fr' = [fr EXCEPT ![f].at = "chip", ![f].seen = FALSE, ![f].entry = TRUE,
                                ![f].pid = Min(FreePids(fr[f].w))]
            /\ polled' = polled \cup {fr[f].w}
       ELSE /\ fr' = [fr EXCEPT ![f].at = "chip", ![f].seen = FALSE]
            /\ UNCHANGED polled
    /\ UNCHANGED <<sta, gp, due, ctl>>

-----------------------------------------------------------------------------
(* Events of the chip.                                                     *)

TxFree(f) ==            \* mt7921_mac_tx_free: mt76_token_release
    /\ fr[f].at = "chip" /\ ctl.chip = "up" /\ At("napi") = {}
    /\ fr' = [fr EXCEPT ![f].at = "napi"]
    /\ UNCHANGED <<polled, sta, gp, due, ctl>>

TxwiFree(f) ==          \* mt76_connac2_txwi_free
    /\ fr[f].at = "napi"
    /\ fr' = Apply(Complete, {f})
    /\ UNCHANGED <<polled, sta, gp, due, ctl>>

(* The chip reports a frame once, early, late or never; the report names   *)
(* the station and the packet id only.                                     *)
Report(f) ==
    /\ fr[f].pid # NoPid /\ ~fr[f].sent /\ ctl.chip = "up"
    /\ fr[f].at \in {"chip", "napi", "done"}
    /\ fr' = [fr EXCEPT ![f].sent = TRUE]
    /\ due' = due \cup {[w |-> fr[f].w, pid |-> fr[f].pid]}
    /\ UNCHANGED <<polled, sta, gp, ctl>>

(* mt7921_mac_add_txs, mt76_connac2_mac_add_txs_skb.                       *)
Txs(e) ==
    LET hit == {f \in Entries(e.w) : fr[f].pid = e.pid}
        out == IF hit # {} THEN hit ELSE Stale(e.w)
    IN
    /\ e \in due /\ ~Torn
    /\ due' = due \ {e}
    /\ \/ /\ sta[e.w] # "gone"
          /\ fr' = Apply(StatusDone, out) /\ polled' = Unlist({e.w}, out)
       \/ sta[e.w] # "up" /\ UNCHANGED <<fr, polled>>
    /\ UNCHANGED <<sta, gp, ctl>>

-----------------------------------------------------------------------------
(* Time, and mac_work (mt76_tx_status_check without flush).                *)

Age(f) ==
    /\ fr[f].at = "done" /\ fr[f].entry /\ ~fr[f].old
    /\ fr' = [fr EXCEPT ![f].old = TRUE]
    /\ UNCHANGED <<polled, sta, gp, due, ctl>>

MacWork ==
    LET out == UNION {Stale(w) : w \in polled} IN
    /\ ctl.mac
    /\ fr' = Apply(StatusDone, out)
    /\ polled' = Unlist(polled, out)
    /\ UNCHANGED <<sta, gp, due, ctl>>

-----------------------------------------------------------------------------
(* Removing a station: mt76_sta_pre_rcu_remove takes it out of dev->wcid,  *)
(* mac80211 waits for the posts then under way, and mt76_wcid_cleanup      *)
(* empties its table.                                                      *)

Unlink(w) ==
    /\ sta[w] = "up" /\ ~ctl.mutex
    /\ sta' = [sta EXCEPT ![w] = "unlinked"]
    /\ gp' = [gp EXCEPT ![w] = At("post")]
    /\ UNCHANGED <<fr, polled, due, ctl>>

Cleanup(w) ==
    /\ sta[w] = "unlinked" /\ ~ctl.mutex /\ gp[w] \cap At("post") = {}
    /\ sta' = [sta EXCEPT ![w] = "gone"]
    /\ gp' = [gp EXCEPT ![w] = {}]
    /\ fr' = Apply(StatusDone, Entries(w))
    /\ polled' = Unlist({w}, Entries(w))
    /\ UNCHANGED <<due, ctl>>

-----------------------------------------------------------------------------
(* The reset work, and a channel change, which clears the RESET bit and    *)
(* queues mac_work whatever the reset is at.                               *)

RsStart ==
    /\ ctl.rs = "idle" /\ ctl.resets < MaxResets
    /\ \E c \in {"dead", ctl.chip} :
         ctl' = [ctl EXCEPT !.rs = "lock", !.reset = TRUE, !.mac = FALSE, !.chip = c,
                            !.resets = @ + 1]
    /\ UNCHANGED <<fr, polled, sta, gp, due>>

RsLock ==
    /\ ctl.rs = "lock" /\ ~ctl.mutex
    /\ ctl' = [ctl EXCEPT !.rs = "quiet", !.mutex = TRUE, !.tries = @ + 1]
    /\ UNCHANGED <<fr, polled, sta, gp, due>>

RsQuiet ==              \* mt76_worker_disable, napi_disable
    /\ ctl.rs = "quiet" /\ At("post") = {} /\ At("napi") = {}
    /\ ctl' = [ctl EXCEPT !.rs = "tear"]
    /\ UNCHANGED <<fr, polled, sta, gp, due>>

RsTokenPut ==           \* mt76_connac2_tx_token_put
    /\ ctl.rs = "tear"
    /\ fr' = Apply(Complete, At("chip"))
    /\ due' = {}
    /\ ctl' = [ctl EXCEPT !.rs = "flush", !.chip = "dead"]
    /\ UNCHANGED <<polled, sta, gp>>

(* mt792x_wpdma_reset flushes the tables, unless the chip or its DMA       *)
(* engine could not be reset; the caller ignores which.                    *)
RsFlush ==
    LET out == UNION {Entries(w) : w \in polled} IN
    /\ ctl.rs = "flush"
    /\ \/ fr' = Apply(StatusDone, out) /\ polled' = Unlist(polled, out)
       \/ UNCHANGED <<fr, polled>>
    /\ ctl' = [ctl EXCEPT !.rs = "fw"]
    /\ UNCHANGED <<sta, gp, due>>

RsFw ==                 \* the firmware runs and mac_work is queued, or not
    /\ ctl.rs = "fw"
    /\ \/ ctl' = [ctl EXCEPT !.rs = "end", !.mutex = FALSE, !.chip = "up", !.mac = TRUE]
       \/ ctl' = [ctl EXCEPT !.rs = IF ctl.tries < MaxTries THEN "lock" ELSE "end",
                             !.mutex = FALSE]
    /\ UNCHANGED <<fr, polled, sta, gp, due>>

RsEnd ==
    /\ ctl.rs = "end"
    /\ ctl' = [ctl EXCEPT !.rs = "idle", !.reset = FALSE, !.tries = 0]
    /\ UNCHANGED <<fr, polled, sta, gp, due>>

ChannelChange ==        \* mt76_set_channel, mt7921_set_channel
    /\ ctl.chans < MaxChannels /\ ~ctl.mutex /\ At("post") = {}
    /\ ctl' = [ctl EXCEPT !.chans = @ + 1, !.reset = FALSE, !.mac = TRUE]
    /\ UNCHANGED <<fr, polled, sta, gp, due>>

-----------------------------------------------------------------------------
Post(f)  == PostEnd(f) \/ \E w \in Wcids : PostFail(f, w) \/ PostStart(f, w)
Chip(f)  == TxFree(f) \/ TxwiFree(f) \/ Report(f)
Removal(w) == Unlink(w) \/ Cleanup(w)
Reset    == RsLock \/ RsQuiet \/ RsTokenPut \/ RsFlush \/ RsFw \/ RsEnd

Next ==
    \/ \E f \in Frames : Post(f) \/ Chip(f) \/ Age(f)
    \/ \E e \in due : Txs(e)
    \/ MacWork
    \/ \E w \in Wcids : Removal(w)
    \/ RsStart \/ Reset \/ ChannelChange

Fairness ==
    /\ \A f \in Frames : WF_vars(PostEnd(f)) /\ WF_vars(TxwiFree(f)) /\ WF_vars(Age(f))
    /\ WF_vars(MacWork) /\ WF_vars(Reset)

Spec == Init /\ [][Next]_vars /\ Fairness

-----------------------------------------------------------------------------
(* Properties.                                                             *)

FrameRec == [at : {"new", "post", "chip", "napi", "done"}, w : Wcids \cup {"none"},
             seen : BOOLEAN, pid : {NoPid} \cup Pids, entry : BOOLEAN, txs : BOOLEAN,
             old : BOOLEAN, sent : BOOLEAN, told : Nat]

CtlRec == [reset : BOOLEAN, mutex : BOOLEAN, mac : BOOLEAN, chip : {"up", "dead"},
           rs : {"idle", "lock", "quiet", "tear", "flush", "fw", "end"},
           resets : Nat, tries : Nat, chans : Nat]

TypeOK ==
    /\ fr \in [Frames -> FrameRec]
    /\ polled \subseteq Wcids
    /\ sta \in [Wcids -> {"up", "unlinked", "gone"}]
    /\ gp \in [Wcids -> SUBSET Frames]
    /\ due \subseteq [w : Wcids, pid : Pids]
    /\ ctl \in CtlRec

(* A frame is reported, and so freed, at most once, and once it is nothing *)
(* in the driver refers to it: no token, no poll, no packet id.            *)
ReportedOnce == \A f \in Frames :
    /\ fr[f].told <= 1
    /\ fr[f].told = 1 => fr[f].at = "done" /\ ~fr[f].entry

(* A frame handed to the driver and not yet reported is somewhere it will  *)
(* be found: it is being posted, has its token, is in the poll's hands, or *)
(* is in the table of a station that is on wcid_list.                      *)
FrameKept == \A f \in Frames :
    fr[f].at = "done" /\ fr[f].told = 0 => fr[f].entry /\ fr[f].w \in polled

(* Every frame is accounted for once, in whatever order its status report, *)
(* its tx_free event, the timeout, the flush and the removal of its        *)
(* station come (mt76_tx_status_skb_done, mt76_tx_complete_skb).           *)
Accounted == ReportedOnce /\ FrameKept

(* A removed station has no packet ids, and nobody will look at it again,  *)
(* also when a frame was posted to it while it was being removed.          *)
StationGone == \A w \in Wcids : sta[w] = "gone" => Entries(w) = {} /\ w \notin polled

(* A frame the chip is through with is reported in the end, though its     *)
(* status report is lost; unless a reset failed for good, after which      *)
(* nothing queues mac_work.                                                *)
GivenUp  == ctl.rs = "idle" /\ ~ctl.mac
Answered == \A f \in Frames :
    fr[f].at = "done" /\ fr[f].told = 0 ~> fr[f].told = 1 \/ GivenUp
=============================================================================
