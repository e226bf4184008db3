------------------------------- MODULE TxDesc -------------------------------
(***************************************************************************)
(* The transmit descriptor of a frame and what comes back about it         *)
(* (mt76_connac2_mac_write_txwi and mt76_connac_write_hw_txp of            *)
(* src/src/mt76/mt76_connac_mac.c, the station poll of mt7921/mac.c,       *)
(* mt792x_tx). The chip is a connac2 on PCIe (mt7921, mt7902): the fields  *)
(* that the code sets for other chips only are left out.                   *)
(*                                                                         *)
(* A frame f is a record: encap (its header is 802.3), type, subtype, qid, *)
(* ac, tid, multicast, robust, key, pid, ...; a descriptor is the record   *)
(* of the fields that are written.                                         *)
(***************************************************************************)
EXTENDS RxDesc
LOCAL INSTANCE SequencesExt
LOCAL INSTANCE FiniteSetsExt

Acs == <<"VO", "VI", "BE", "BK">>                  \* IEEE80211_AC_VO is 0
AcNumber(ac) == CHOOSE i \in 0 .. 3 : Acs[i + 1] = ac
LmacMapping(i) == 3 - i

FirstPid == 3       \* MT_PACKET_ID_FIRST
WmmSets == 4        \* MT76_CONNAC_MAX_WMM_SETS
AltX == 16          \* MT_LMAC_ALTX0
BcnX == 18          \* MT_LMAC_BCN0

(* mt792x_tx: whose entry of the station table a frame is sent with, and   *)
(* the queue it waits in while the chip sleeps.                            *)
TxWcid(f) == IF f.sta # "none" THEN f.sta ELSE IF f.vif # "none" THEN f.vif ELSE "global"
WaitsIn(qid) == IF qid \in Range(Acs) THEN qid ELSE "BE"

-----------------------------------------------------------------------------
(* The rate of a frame that is sent at a fixed one: the lowest of the      *)
(* basic rates; a frame of no interface goes at the lowest rate of 2.4 GHz.*)
TxRateVal(vif, basic) ==
    LET offset == Number(vif # "none" /\ vif # "2GHZ", 4)
        lowest == IF vif = "none" \/ basic = {} THEN 0 ELSE Min(basic)
        at == lowest + offset
    IN Mt76Rates[(IF at >= Len(Mt76Rates) THEN offset ELSE at) + 1]

Fragment(f) == CASE f.moreFrags /\ f.firstFrag -> "first"
                 [] f.moreFrags /\ ~f.firstFrag -> "mid"
                 [] ~f.moreFrags /\ ~f.firstFrag -> "last"
                 [] OTHER -> "none"

Format(f) ==
    CASE f.changed = "discovery" -> [fmt |-> "FW", queue |-> AltX]
      [] f.changed = "beacon" -> [fmt |-> "FW", queue |-> BcnX]
      [] f.changed \notin {"discovery", "beacon"} /\ f.qid \notin Range(Acs) -> [fmt |-> "CT", queue |-> AltX]
      [] OTHER -> [fmt |-> "CT", queue |-> f.wmm * WmmSets + LmacMapping(AcNumber(f.ac))]

(* The TID of an ADDBA request or a block ack request is in the frame.     *)
TxTid(f) == (IF ~f.encap /\ f.subtype \in {"ADDBA", "BAR"} THEN f.baTid ELSE f.tid) % 8
Bip(f) == f.key = "AES_CMAC" /\ f.multicast /\ f.robust
FixRate(f) == ~f.encap /\ (f.type # "DATA" \/ f.multicast \/ f.minRate)
SubtypeOf(f) == IF ~f.encap THEN f.subtype ELSE IF f.wme THEN "QOS_DATA" ELSE "DATA"

Txwi(f) ==
    [format |-> Format(f), header |-> IF f.encap THEN "802.3" ELSE "802.11",
     type |-> IF f.encap THEN "DATA" ELSE f.type, subtype |-> SubtypeOf(f), tid |-> TxTid(f),
     addBa |-> ~f.encap /\ f.subtype = "ADDBA",
     protect |-> f.key # "none" /\ (f.encap \/ ~Bip(f)), bip |-> ~f.encap /\ Bip(f),
     frag |-> IF f.encap THEN "none" ELSE Fragment(f),
     fixRate |-> FixRate(f), rate |-> IF FixRate(f) THEN TxRateVal(f.band, f.basic) ELSE <<>>,
     baDisable |-> FixRate(f), hostStatus |-> f.pid >= FirstPid, noAck |-> f.noAck,
     ownSeq |-> ~f.encap /\ f.injected,
     amsdu |-> f.amsdu /\ f.pid < FirstPid /\ (f.encap \/ ~f.injected) /\ ~FixRate(f)]

(* A block ack session is started with the first QoS data frame of a TID   *)
(* below those of voice (mt76_connac2_tx_check_aggr, and its caller, which *)
(* leaves EAPOL frames out).                                               *)
CheckAggr(sta, txwi, eapol) ==
    IF sta.on /\ sta.ht /\ ~eapol /\ txwi.tid < 6 /\ txwi.type = "DATA" /\ txwi.subtype = "QOS_DATA"
       /\ txwi.tid \notin sta.started
    THEN <<txwi.tid>> ELSE <<>>

-----------------------------------------------------------------------------
(* The table of buffers behind the descriptor: two in a row, the last one  *)
(* marked, with which the buffers are unmapped.                            *)
TxpBufs == 4
LenBits == 4096

WriteTxp(bufs) ==
    [i \in 1 .. TxpBufs |->
        IF i > Len(bufs) THEN [addr |-> 0, len |-> 0, last |-> FALSE]
        ELSE [addr |-> bufs[i].addr, len |-> bufs[i].len % LenBits, last |-> i = Len(bufs)]]

UnmapTxp(txp) ==
    LET ends == {i \in DOMAIN txp : txp[i].last} \union {TxpBufs}
    IN [i \in 1 .. Min(ends) |-> [addr |-> txp[i].addr, len |-> txp[i].len]]

(* mt76_connac_gen_ppe_thresh: the bits after the byte with the number of  *)
(* streams, by constant bytes and a mask of the last one.                  *)
Bytes == <<28, 199, 113>>
PpeBits(nss, units) == 3 * nss * units * 2
PpeThresh(nss, units) ==
    LET bits == PpeBits(nss, units)
        size == (bits + 7) \div 8
    IN [i \in 1 .. size |-> IF i < size THEN Bytes[((i - 1) % 3) + 1]
                            ELSE Bytes[((i - 1) % 3) + 1] % (2 ^ ((bits - 1) % 8))]

-----------------------------------------------------------------------------
(* mt76_connac2_mac_fill_txs: the rate a status report speaks of.          *)
FillTxs(band, t) ==
    LET limit == [HT |-> 31, HT_GF |-> 31, VHT |-> 9, HE_SU |-> 11, HE_EXT_SU |-> 11, HE_TB |-> 11, HE_MU |-> 11]
        legacy == t.mode \in {"CCK", "OFDM"}
    IN [ok |-> legacy \/ (t.mode \in DOMAIN limit /\ t.idx <= limit[t.mode]),
        rate |-> IF legacy THEN BandRates(band)[GetRate(band, t.idx, t.mode = "CCK") + 1] ELSE <<t.mode, t.idx>>,
        nss |-> IF t.stbc /\ t.nss > 0 THEN (t.nss + 1) \div 2 ELSE t.nss + 1,
        bw |-> IF t.bw \in 1 .. 3 THEN <<"40", "80", "160">>[t.bw] ELSE "20"]

(* The station poll: air time of the four queues of the chip since the     *)
(* last poll, registered for a TID of the access category. A counter that  *)
(* was large at the last poll has all of them cleared.                     *)
AcTid == [BE |-> 0, BK |-> 1, VI |-> 4, VO |-> 6]
Airtime(last, now, width) ==
    LET time == [q \in 0 .. 3 |-> (now[q] - last[q]) % (2 ^ width)]
        clear == \E q \in 0 .. 3 : (last[q] \div 2 ^ (width - 2)) % 2 = 1
    IN [last |-> IF clear THEN [q \in 0 .. 3 |-> 0] ELSE now, clear |-> clear,
        told |-> [i \in 0 .. 3 |-> [tid |-> AcTid[Acs[i + 1]], time |-> time[LmacMapping(i)]]]]

(* The guard interval of the rate in use, for each bandwidth.              *)
GuardInterval(rate, word) ==
    CASE rate.kind = "HE" -> [he |-> (word \div 2 ^ (24 + 2 * rate.bw)) % 4, short |-> rate.short]
      [] rate.kind \in {"HT", "VHT"} -> [he |-> rate.he, short |-> (word \div 2 ^ (12 + rate.bw)) % 2 = 1]
      [] OTHER -> [he |-> rate.he, short |-> rate.short]

(* The signal of the responses, of the antennas in use; the field of the   *)
(* fourth is read with ten bits of the second and third in it.             *)
Rssi(field) == LET n == IF field >= 220 THEN (field - 220) \div 2 ELSE -((220 - field) \div 2)
               IN ((n + 128) % 256) - 128
AckSignal(b, antennas) ==
    LET chain == <<Rssi(b[1]), Rssi(b[2]), Rssi(b[3]), Rssi(b[4] * 1024 + b[3] * 4 + b[2] \div 64)>>
    IN RxSignal(SelectSeq([i \in 1 .. 4 |-> IF i \in antennas THEN chain[i] ELSE 1], LAMBDA s : s <= 0))

-----------------------------------------------------------------------------
Frame == [encap |-> FALSE, type |-> "DATA", subtype |-> "QOS_DATA", qid |-> "BE", ac |-> "BE", tid |-> 0,
          baTid |-> 5, multicast |-> FALSE, robust |-> FALSE, key |-> "none", pid |-> 0, amsdu |-> TRUE,
          minRate |-> FALSE, injected |-> FALSE, noAck |-> FALSE, moreFrags |-> FALSE, firstFrag |-> TRUE,
          changed |-> "none", wmm |-> 0, wme |-> TRUE, band |-> "2GHZ", basic |-> {0}]

(* A frame whose status the host waits for, or with a sequence number of   *)
(* its own, or at a fixed rate, is sent alone, never inside an A-MSDU; one *)
(* at a fixed rate is outside a block ack session too, and says so in a    *)
(* rate of its band. Robust management frames to a group are protected by  *)
(* BIP and by nothing else.                                                *)
ASSUME SentAlone ==
    \A encap, multi, robust, min, inj, am \in BOOLEAN, pid \in {0, 1, 3, 100}, key \in {"none", "CCMP", "AES_CMAC"},
       kind \in {<<"DATA", "QOS_DATA">>, <<"DATA", "NULL">>, <<"MGMT", "ADDBA">>, <<"MGMT", "BEACON">>, <<"CTL", "BAR">>},
       band \in {"2GHZ", "5GHZ"}, basic \in {{}, {0}, {1, 3}, {7}, {11}} :
        LET t == Txwi([Frame EXCEPT !.encap = encap, !.multicast = multi, !.robust = robust, !.minRate = min,
                           !.injected = inj, !.amsdu = am, !.pid = pid, !.key = key, !.type = kind[1],
                           !.subtype = kind[2], !.band = band, !.basic = basic])
        IN /\ t.amsdu => ~t.hostStatus /\ ~t.ownSeq /\ ~t.fixRate
           /\ t.fixRate => t.baDisable /\ t.header = "802.11" /\ t.rate \in Range(BandRates(band))
           /\ t.bip => ~t.protect /\ multi /\ key = "AES_CMAC"
           /\ key # "none" => t.protect \/ t.bip
           /\ t.tid = IF kind[2] \in {"ADDBA", "BAR"} /\ ~encap THEN 5 ELSE 0

(* No two access categories, of one interface or of several, share a queue *)
(* of the chip, nor do they share one with management frames and beacons.  *)
ASSUME QueuesApart ==
    LET uses == {<<w, ac>> : w \in 0 .. WmmSets - 1, ac \in Range(Acs)}
        queue(u) == Format([Frame EXCEPT !.wmm = u[1], !.ac = u[2]]).queue
    IN \A u, v \in uses : (queue(u) = queue(v) => u = v) /\ queue(u) < AltX

(* The parts of a fragmented frame are a first one, some in the middle and *)
(* a last one; a whole frame is none of these.                             *)
ASSUME FragmentsMarked ==
    \A n \in 1 .. 5 : LET mark == [i \in 1 .. n |-> Fragment([moreFrags |-> i < n, firstFrag |-> i = 1])]
                      IN IF n = 1 THEN mark = <<"none">>
                         ELSE mark = <<"first">> \o [i \in 1 .. n - 2 |-> "mid"] \o <<"last">>

(* A block ack session is asked for once, for a TID of QoS data, which the *)
(* descriptor gives back as it was in the frame.                           *)
ASSUME SessionsOnce ==
    \A encap, wme \in BOOLEAN, sub \in {"QOS_DATA", "QOS_NULL", "DATA"}, tid \in 0 .. 7, started \in SUBSET {0, 5, 6} :
        LET f == [Frame EXCEPT !.encap = encap, !.wme = wme, !.subtype = sub, !.tid = tid]
            asked == CheckAggr([on |-> TRUE, ht |-> TRUE, started |-> started], Txwi(f), FALSE)
        IN asked = IF tid \in (0 .. 5) \ started /\ (IF encap THEN wme ELSE sub = "QOS_DATA") THEN <<tid>> ELSE <<>>

(* Every buffer of a frame is unmapped, once, with the length it had.      *)
ASSUME BuffersUnmapped ==
    \A n \in 1 .. TxpBufs : \A lens \in [1 .. n -> {0, 1, LenBits - 1}] :
        LET bufs == [i \in 1 .. n |-> [addr |-> i, len |-> lens[i]]] IN UnmapTxp(WriteTxp(bufs)) = bufs

(* For every number of streams and every size of resource unit the PPE     *)
(* thresholds are 0 for 16 us and 7, which is never, for 8 us; what        *)
(* follows them in the last byte is zero.                                  *)
ASSUME PpeConstant ==
    \A nss \in 1 .. 8, units \in {2, 4} :
        LET bytes == PpeThresh(nss, units)
            bit(n) == IF n = 0 THEN 0 ELSE (bytes[((n - 1) \div 8) + 1] \div 2 ^ ((n - 1) % 8)) % 2
        IN /\ \A k \in 0 .. nss * units - 1 : \A j \in 0 .. 2 : bit(6 * k + j) = 0 /\ bit(6 * k + 3 + j) = 1
           /\ \A n \in PpeBits(nss, units) .. 8 * Len(bytes) : bit(n) = 0

(* A frame that was sent at a fixed rate is reported with this rate.       *)
ASSUME RateReportedBack ==
    \A band \in {"2GHZ", "5GHZ", "6GHZ"}, basic \in SUBSET {0, 1, 2, 3, 7, 9, 11} :
        LET sent == TxRateVal(band, basic)
            got == FillTxs(band, [mode |-> sent[1], idx |-> sent[2], stbc |-> FALSE, nss |-> 0, bw |-> 0])
        IN got.ok /\ got.rate = sent /\ (basic # {} /\ Min(basic) < Len(BandRates(band)) =>
                                            sent = BandRates(band)[Min(basic) + 1])

(* All of the growth of a queue's counter is registered, also when it      *)
(* wraps or is cleared, and for a TID whose frames use this queue.         *)
ASSUME AirtimeRegistered ==
    LET tidAc == [t \in 0 .. 7 |-> <<"BE", "BK", "BK", "BE", "VI", "VI", "VO", "VO">>[t + 1]]
        Poll(st, g) ==
            LET now == [q \in 0 .. 3 |-> (st.hw[q] + (IF q = st.queue THEN g ELSE 0)) % 16]
                r == Airtime(st.last, now, 4)
                Told(i, sum) == sum + (IF tidAc[r.told[i].tid] = st.ac THEN r.told[i].time ELSE 0)
            IN [st EXCEPT !.hw = IF r.clear THEN [q \in 0 .. 3 |-> 0] ELSE now, !.last = r.last,
                          !.sum = FoldSet(Told, @, 0 .. 3)]
        zero == [q \in 0 .. 3 |-> 0]
    IN \A ac \in Range(Acs), gs \in [1 .. 4 -> {0, 1, 3, 7}] :
          LET queue == Format([Frame EXCEPT !.ac = ac]).queue
              end == FoldLeft(Poll, [hw |-> zero, last |-> zero, sum |-> 0, ac |-> ac, queue |-> queue], gs)
          IN end.sum = gs[1] + gs[2] + gs[3] + gs[4]

(* The wide field of the fourth antenna matters on no chip of up to three. *)
ASSUME AckSignalOfThree ==
    \A b1, b2, b4 \in {40, 100, 200, 219}, chains \in SUBSET (1 .. 3) :
        AckSignal(<<b1, b2, 60, b4>>, chains) = AckSignal(<<b1, b2, 60, 0>>, chains)

(* The guard interval of one bandwidth is in bits no other one has.        *)
ASSUME GuardIntervalsApart ==
    \A bw, other \in 0 .. 3, gi \in 0 .. 1 :
        LET he == [kind |-> "HE", bw |-> bw, he |-> 0, short |-> FALSE]
            vht == [he EXCEPT !.kind = "VHT"]
        IN /\ other < 3 => GuardInterval(he, gi * 2 ^ (24 + 2 * other)).he = Number(bw = other, gi)
           /\ GuardInterval(vht, gi * 2 ^ (12 + other)).short <=> (bw = other /\ gi = 1)

(* A frame that waits for the chip to wake waits in a queue of its own     *)
(* category, management frames with best effort, under the entry of its    *)
(* station or interface.                                                   *)
ASSUME WaitsWithItsOwner ==
    /\ \A q \in Range(Acs) \union {"PSD", "BEACON", "CAB"} : WaitsIn(q) \in Range(Acs) /\ (q \in Range(Acs) => WaitsIn(q) = q)
    /\ \A sta \in {"none", "sta"}, vif \in {"none", "vif"} :
          TxWcid([sta |-> sta, vif |-> vif]) = IF {sta, vif} = {"none"} THEN "global"
                                               ELSE IF sta = "none" THEN vif ELSE sta
=============================================================================
