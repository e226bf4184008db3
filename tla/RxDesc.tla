------------------------------- MODULE RxDesc -------------------------------
(***************************************************************************)
(* What the driver reads out of a received frame's descriptor and does to  *)
(* the frame before the reorder buffer or mac80211 see it                  *)
(* (mt7921_mac_fill_rx of src/src/mt76/mt7921/mac.c, mt76_connac_mac.c,    *)
(* mt792x_mac.c and the receive half of mac80211.c): rates, the header     *)
(* that the hardware translated, A-MSDUs, packet numbers, power save.      *)
(*                                                                         *)
(* A descriptor is a record of the fields the code reads; lengths are in   *)
(* bytes; fc is the frame control field; addresses are strings.            *)
(***************************************************************************)
EXTENDS Integers, Sequences, FiniteSets
LOCAL INSTANCE SequencesExt
LOCAL INSTANCE FiniteSetsExt

MaxOf(a, b) == IF a > b THEN a ELSE b
Number(test, n) == IF test THEN n ELSE 0

-----------------------------------------------------------------------------
(* Legacy rates: kind and hardware value; a band has all, or OFDM alone.   *)
Mt76Rates == << <<"CCK", 0>>, <<"CCK", 1>>, <<"CCK", 2>>, <<"CCK", 3>>, <<"OFDM", 11>>,
                <<"OFDM", 15>>, <<"OFDM", 10>>, <<"OFDM", 14>>, <<"OFDM", 9>>, <<"OFDM", 13>>,
                <<"OFDM", 8>>, <<"OFDM", 12>> >>
BandRates(band) == IF band = "2GHZ" THEN Mt76Rates ELSE SubSeq(Mt76Rates, 5, 12)

GetRate(band, idx, cck) ==
    LET want == IF cck /\ (idx \div 4) % 2 = 1 THEN idx - 4 ELSE idx
        from == Number(~cck /\ band = "2GHZ", 4)
        rates == BandRates(band)
        hits == {i \in from .. Len(rates) - 1 : rates[i + 1][2] = want}
    IN IF hits = {} \/ (cck /\ band # "2GHZ") THEN 0 ELSE Min(hits)

HeModes == {"HE_SU", "HE_EXT_SU", "HE_TB", "HE_MU"}
Ru106 == "106"

(* mt76_connac2_mac_fill_rx_rate; rate.idx carries MCS, DCM and the tones  *)
(* of an extended range PPDU, rate.bw is 0 to 3 for 20 to 160 MHz.         *)
RxRate(band, rate) ==
    LET he == rate.mode \in HeModes
        idx == CASE rate.mode \in {"CCK", "OFDM"} -> GetRate(band, rate.idx, rate.mode = "CCK")
                 [] he -> rate.idx % 16
                 [] OTHER -> rate.idx
        narrow == /\ rate.bw = 1 /\ (rate.idx \div 32) % 2 = 1
                  /\ rate.mode \in HeModes \union {"OFDM", "HT_GF"}
        limit == [HT |-> 31, HT_GF |-> 31, VHT |-> 11]
    IN [ok |-> /\ rate.mode \in HeModes \union DOMAIN limit \union {"CCK", "OFDM"}
               /\ rate.mode \in DOMAIN limit => idx <= limit[rate.mode]
               /\ rate.bw \in 0 .. 3,
        idx |-> idx, nss |-> Number(he \/ rate.mode = "VHT", rate.nsts + 1),
        shortGi |-> ~he /\ rate.gi > 0, heGi |-> Number(he /\ rate.gi < 3, rate.gi),
        dcm |-> he /\ (rate.idx \div 16) % 2 = 1, stbc |-> rate.stbc,
        bw |-> IF narrow THEN Ru106 ELSE <<"20", "40", "80", "160">>[(rate.bw % 4) + 1]]

(* Resource units: the number of the first one of each size.               *)
RuSizes == <<"26", "52", "106", "242", "484", "996", "2x996">>
RuFirst == <<0, 37, 53, 61, 65, 67, 68>>
RuOf(ru) == LET k == Max({i \in DOMAIN RuFirst : RuFirst[i] <= ru})
            IN [size |-> RuSizes[k], offset |-> ru - RuFirst[k]]

(* The radiotap header of an HE frame: what it says it knows, and of an MU *)
(* frame the bandwidth of the second header, read from the status after    *)
(* the resource unit was put there.                                        *)
HeKnown(mode) ==
    {"DATA_MCS", "DATA_DCM", "STBC", "CODING", "LDPC_XSYMSEG", "DOPPLER", "SPTL_REUSE", "BSS_COLOR",
     "GI", "TXBF", "PE_DISAMBIG", "TXOP"} \union
    (CASE mode = "HE_SU" -> {"UL_DL", "BEAM_CHANGE", "BW_RU"}
       [] mode = "HE_EXT_SU" -> {"UL_DL", "BW_RU"}
       [] mode = "HE_MU" -> {"UL_DL", "BW_RU", "RU_OFFSET"}
       [] OTHER -> {"SPTL_REUSE2", "SPTL_REUSE3", "SPTL_REUSE4", "BW_RU", "RU_OFFSET"})

HeMu(bw) == [bw |-> bw, ch2 |-> bw # "20", rest |-> bw \notin {"20", "40"}]

HeRadiotap(mode, bw, ru) ==
    LET unit == mode \in {"HE_MU", "HE_TB"}
        now == IF unit THEN "RU" ELSE bw
    IN [known |-> HeKnown(mode), bw |-> now,
        ru |-> IF unit THEN <<RuOf(ru)>> ELSE <<>>,
        mu |-> IF mode = "HE_MU" THEN <<HeMu(now)>> ELSE <<>>]

-----------------------------------------------------------------------------
(* The station of a frame, or, when it was sent to a group, the entry of   *)
(* its interface; the channel, of which 6 GHz comes as 181 and up.         *)
RxWcid(table, idx, unicast) ==
    IF unicast \/ table[idx].kind = "none" THEN table[idx]
    ELSE IF table[idx].kind = "vif" \/ table[idx].vif = "none" THEN [kind |-> "none"]
    ELSE [kind |-> "vif", vif |-> table[idx].vif]

ChannelOf(chfreq) ==
    IF chfreq > 180 THEN [band |-> "6GHZ", chan |-> ((chfreq - 181) * 4 + 1) % 256]
    ELSE [band |-> IF chfreq > 14 THEN "5GHZ" ELSE "2GHZ", chan |-> chfreq]

(* mt7921_mac_fill_rx: the groups of words in front of the frame.          *)
Offset(d) == 4 * (6 + Number(4 \in d.groups, 4) + Number(1 \in d.groups, 4)
                    + Number(2 \in d.groups, 2) + Number(3 \in d.groups, 2)
                    + Number({3, 5} \subseteq d.groups, 18))
TooShort(d) == d.groups \intersect 1 .. 4 # {} /\ Offset(d) >= d.len

Ccmp == {"CCMP", "CCMP_CCX", "CCMP_256"}
WithIv == Ccmp \union {"TKIP", "TKIP_NO_MIC", "GCMP", "GCMP_256"}
DecryptedBy(d) == d.sec # "none" /\ ~d.clm /\ ~d.cm
CarriesIv(d) == 1 \in d.groups /\ DecryptedBy(d) /\ d.sec \in WithIv

Unusable(d) == \/ d.band1 \/ ~d.running \/ d.amsduErr \/ (d.hdrTrans /\ d.cm)
              \/ ~d.channels \/ d.maxLenErr \/ TooShort(d)
              \/ (3 \in d.groups /\ ~d.rateOk)
              \/ (d.hdrTrans /\ 4 \in d.groups /\ d.fc.moreFrags /\ (~d.unicast \/ d.vif = "none"))

(* Only of a frame with group 4 is the frame control field known when the  *)
(* hardware has translated the header; a first fragment is translated back.*)
Reversed(d) == d.hdrTrans /\ 4 \in d.groups /\ d.fc.moreFrags
Is8023(d) == d.hdrTrans /\ ~Reversed(d)
FcKnown(d) == ~Is8023(d) \/ 4 \in d.groups
Inserted(d) == ~Is8023(d) /\ CarriesIv(d) /\ d.sec \in Ccmp /\ d.frag

FillRx(d) ==
    [drop |-> Unusable(d), monitor |-> d.icv, eth |-> Is8023(d), decrypted |-> DecryptedBy(d),
     ivStripped |-> DecryptedBy(d) /\ ~Inserted(d), header |-> Inserted(d),
     iv |-> IF CarriesIv(d) THEN d.pn ELSE 0,
     csum |-> d.csum, badFcs |-> d.fcs, badMic |-> d.tkipMic,
     amsdu |-> d.payload # "msdu", first |-> d.payload = "first", last |-> d.payload = "last",
     ampdu |-> 2 \in d.groups /\ ~d.nonAmpdu,
     radiotap |-> 3 \in d.groups /\ d.mode \in HeModes /\ ~Is8023(d),
     aggr |-> d.wcid # "none" /\ FcKnown(d) /\ d.fc.qos /\ d.unicast /\ ~d.fc.null,
     gap |-> Offset(d) + 2 * d.pad]

(* Subframes of one A-MPDU have one time stamp, and get one reference,     *)
(* which is never zero.                                                    *)
AmpduRef(phy, stamp, width) ==
    LET next == (phy.ref + 1) % (2 ^ width)
    IN IF stamp = phy.stamp THEN phy
       ELSE [stamp |-> stamp, ref |-> IF next = 0 THEN 1 ELSE next]

-----------------------------------------------------------------------------
(* mt76_connac2_reverse_frag0_hdr_trans: the 802.11 header again, from the *)
(* 802.3 header and the words of group 4.                                  *)
ReverseHdr(eth, fc, seq, qos, ht, vif, sta) ==
    [fc |-> fc, seq |-> seq, addr1 |-> vif.addr, addr2 |-> sta,
     addr3 |-> CASE ~fc.toDs /\ ~fc.fromDs -> vif.bssid
                 [] ~fc.toDs /\ fc.fromDs -> eth.source
                 [] OTHER -> eth.dest,
     addr4 |-> IF fc.toDs /\ fc.fromDs THEN <<eth.source>> ELSE <<>>,
     ht |-> IF fc.order THEN <<ht>> ELSE <<>>,
     qos |-> IF fc.qos THEN <<qos>> ELSE <<>>,
     llc |-> CASE eth.proto \in {"AARP", "IPX"} -> <<"bridge tunnel", eth.proto>>
               [] eth.proto = "length" -> <<>>
               [] OTHER -> <<"rfc1042", eth.proto>>]

-----------------------------------------------------------------------------
(* mt76_rx_release_burst: subframes of an A-MSDU come one by one, and go   *)
(* on together. burst: what is collected; out: what went on.               *)
NoBurst == [burst |-> <<>>, out |-> <<>>]
Seq0(q) == q.burst[1].seqno

(* A single frame taken for an A-MSDU has an LLC header where the first    *)
(* subframe has its destination address.                                   *)
ReleaseAmsdu(q) ==
    [burst |-> <<>>, out |-> IF Len(q.burst) > 1 /\ q.burst[1].llc THEN q.out ELSE Append(q.out, q.burst)]

ReleaseBurst(q, f) ==
    LET before == IF q.burst # <<>> /\ (~f.amsdu \/ f.first \/ f.seqno # Seq0(q)) THEN ReleaseAmsdu(q) ELSE q
        with == [before EXCEPT !.burst = Append(@, f)]
    IN IF ~f.amsdu \/ f.last THEN ReleaseAmsdu(with) ELSE with

(* Where the LLC header is looked for, past the header of the frame.       *)
AmsduOffset(st, hdrLen) ==
    IF st.eth THEN 0 ELSE hdrLen + Number(st.decrypted /\ ~st.ivStripped, 8)

(* mt76_insert_ccmp_hdr: eight bytes of header between the 802.11 header   *)
(* and the data, from the packet number, its last byte first.              *)
CcmpHdr(pn, keyId) == <<pn[6], pn[5], 0, 32 + 64 * keyId, pn[4], pn[3], pn[2], pn[1]>>
InsertCcmp(frame, hdrLen, pn, keyId) ==
    SubSeq(frame, 1, hdrLen) \o CcmpHdr(pn, keyId) \o SubSeq(frame, hdrLen + 1, Len(frame))

(* mt76_check_ccmp_pn: one counter for each TID, and one for management    *)
(* frames that are not to a distribution system. The test for the first    *)
(* fragment looks at the frame control field, of which a data frame has    *)
(* bits set where the fragment number is in the sequence control.          *)
MgmtIdx == 16
CheckPn(pns, f) ==
    LET idx == IF ~f.eth /\ f.mgmt /\ ~f.toDs THEN MgmtIdx ELSE f.tid
        skip == \/ ~f.decrypted \/ f.monitor \/ ~f.check
                \/ ~f.eth /\ ~f.ivStripped /\ f.frag /\ ~f.mgmt
    IN IF skip THEN [pns |-> pns, monitor |-> f.monitor, validated |-> FALSE]
       ELSE IF f.iv <= pns[idx] THEN [pns |-> pns, monitor |-> TRUE, validated |-> FALSE]
       ELSE [pns |-> [pns EXCEPT ![idx] = f.iv], monitor |-> FALSE, validated |-> f.ivStripped]

(* The signal of the chains together, in dBm.                              *)
RxSignal(chains) ==
    LET Merge(sig, cur) ==
            LET high == MaxOf(sig, cur)
                diff == high - (IF sig < cur THEN sig ELSE cur)
            IN high + (CASE diff = 0 -> 3 [] diff \in {1, 2} -> 2 [] diff \in 3 .. 6 -> 1 [] OTHER -> 0)
    IN FoldLeft(Merge, -128, SelectSeq(chains, LAMBDA c : c <= 0))

(* mt76_check_sta of an interface whose stations' power save is watched:   *)
(* what mac80211 is told, and the flag after it.                           *)
CheckPs(ps, f) ==
    IF f.eth THEN [ps |-> ps, calls |-> <<>>]
    ELSE IF f.kind = "pspoll" THEN [ps |-> ps, calls |-> << <<"pspoll">> >>]
    ELSE IF f.moreFrags \/ f.kind = "control" THEN [ps |-> ps, calls |-> <<>>]
    ELSE [ps |-> f.pm,
          calls |-> (IF f.pm /\ f.kind = "qos" THEN << <<"uapsd">> >> ELSE <<>>)
                    \o (IF f.pm # ps THEN << <<"ps", f.pm>> >> ELSE <<>>)]

-----------------------------------------------------------------------------
(* Packets of the receive ring: mt7921_rx_check takes some before a frame  *)
(* is made of the buffer, mt7921_queue_rx_skb the others.                  *)
TxsCount(len) == IF len < 40 THEN 0 ELSE (len \div 4 - 2) \div 8

RxCheck(type, len) ==
    CASE type = "TXRX_NOTIFY" -> <<"tx free">>
      [] type = "TXS" -> [i \in 1 .. TxsCount(len) |-> "status"]
      [] OTHER -> <<"keep">>

QueueRx(type, flag, len, fills) ==
    CASE type = "TXRX_NOTIFY" -> <<"tx free">>
      [] type = "TXS" -> [i \in 1 .. TxsCount(len) |-> "status"]
      [] type = "RX_EVENT" /\ flag # 1 -> <<"event">>
      [] type \in {"NORMAL", "NORMAL_MCU"} \/ (type = "RX_EVENT" /\ flag = 1) ->
            IF fills THEN <<"frame">> ELSE <<>>
      [] OTHER -> <<>>

-----------------------------------------------------------------------------
(* What must hold of them, over the inputs TLC tries.                      *)

(* The rate a legacy frame was sent with is the rate that is reported,     *)
(* with either preamble.                                                   *)
ASSUME LegacyRatesFound ==
    \A band \in {"2GHZ", "5GHZ", "6GHZ"} : \A i \in DOMAIN BandRates(band) :
        LET r == BandRates(band)[i]
        IN \A short \in {0} \union Number(r[1] = "CCK", 4) .. 4 :
              GetRate(band, r[2] + Number(r[1] = "CCK", short), r[1] = "CCK") = i - 1

(* An HE frame's MCS, DCM, streams and bandwidth come out of the bits they *)
(* share; a rate no encoding has is refused.                               *)
ASSUME RatesDecoded ==
    /\ \A mode \in HeModes, mcs \in 0 .. 11, dcm, tone \in {0, 1}, nsts \in 0 .. 1, bw \in 0 .. 3 :
          LET got == RxRate("5GHZ", [mode |-> mode, idx |-> mcs + 16 * dcm + 32 * tone, nsts |-> nsts,
                                     gi |-> 2, stbc |-> FALSE, bw |-> bw])
          IN /\ got.ok /\ got.idx = mcs /\ got.dcm = (dcm = 1) /\ got.nss = nsts + 1
             /\ got.bw = IF bw = 1 /\ tone = 1 THEN Ru106 ELSE <<"20", "40", "80", "160">>[bw + 1]
    /\ \A mode \in {"HT", "VHT", "EHT_SU"}, idx \in 0 .. 127, bw \in 0 .. 7 :
          RxRate("5GHZ", [mode |-> mode, idx |-> idx, nsts |-> 0, gi |-> 1, stbc |-> FALSE, bw |-> bw]).ok
              <=> bw < 4 /\ idx < (CASE mode = "HT" -> 32 [] mode = "VHT" -> 12 [] OTHER -> 0)

(* Resource units are numbered size by size: 9, 4, 2 and 1 of a size in    *)
(* 20 MHz of an 80 MHz channel, and one 26-tone unit in its middle.        *)
ASSUME RuNumbered ==
    LET of(size) == {n \in 0 .. 68 : RuOf(n).size = size}
        count == <<4 * 9 + 1, 4 * 4, 4 * 2, 4, 2, 1, 1>>
    IN \A k \in DOMAIN RuSizes :
          {RuOf(n).offset : n \in of(RuSizes[k])} = 0 .. count[k] - 1 /\ Cardinality(of(RuSizes[k])) = count[k]

(* The second HE-MU header never has the bandwidth of the frame.           *)
ASSUME HeMuBandwidthLost ==
    \A bw \in {"20", "40", "80", "160"}, ru \in 0 .. 68 : HeRadiotap("HE_MU", bw, ru).mu[1].bw # bw

(* Every 6 GHz channel fits the byte of the descriptor.                    *)
ASSUME ChannelsFound ==
    /\ \A i \in 0 .. 58 : ChannelOf(181 + i) = [band |-> "6GHZ", chan |-> 1 + 4 * i]
    /\ \A c \in {1, 14, 36, 177} : ChannelOf(c) = [band |-> IF c < 15 THEN "2GHZ" ELSE "5GHZ", chan |-> c]

Desc == [groups |-> {4, 1, 2, 3}, len |-> 200, pad |-> 0, band1 |-> FALSE, running |-> TRUE,
         amsduErr |-> FALSE, hdrTrans |-> FALSE, cm |-> FALSE, clm |-> FALSE, icv |-> FALSE,
         channels |-> TRUE, maxLenErr |-> FALSE, rateOk |-> TRUE, mode |-> "HE_SU", sec |-> "CCMP",
         frag |-> FALSE, unicast |-> TRUE, wcid |-> "sta", vif |-> "wlan0", payload |-> "msdu", pn |-> 7,
         csum |-> TRUE, fcs |-> FALSE, tkipMic |-> FALSE, nonAmpdu |-> FALSE,
         fc |-> [qos |-> TRUE, null |-> FALSE, moreFrags |-> FALSE]]

(* The frame starts where the walk over the groups ends, and a descriptor  *)
(* that ends in the middle of a group is refused where the walk meets it.  *)
ASSUME GroupsWalked ==
    LET size == <<4, 2, 2, 4, 18>>
    IN \A all \in SUBSET (1 .. 5), len \in {24 + 4 * k : k \in 0 .. 33} :
          LET Step(w, g) == IF g \notin all \/ (g = 5 /\ 3 \notin all) THEN w
                            ELSE LET to == w.at + 4 * size[g]
                                 IN [at |-> to, bad |-> w.bad \/ to >= len]
              walk == FoldLeft(Step, [at |-> 24, bad |-> FALSE], <<4, 1, 2, 3, 5>>)
              d == [Desc EXCEPT !.groups = all, !.len = len]
          IN Offset(d) = walk.at /\ TooShort(d) = walk.bad

(* A frame goes on with an 802.3 header, or with an 802.11 header, never   *)
(* half of each; one said to be decrypted whose packet number is not said  *)
(* to be stripped has it in its header, and there the payload of an A-MSDU *)
(* is looked for; only a frame of a known station is put in order.         *)
ASSUME HeadersConsistent ==
    \A groups \in {{}, {4}, {1}, {1, 4}, {1, 2, 3, 4}}, trans, cm, clm, frag, uni, more \in BOOLEAN,
       sec \in {"none", "CCMP", "GCMP", "WEP"}, wcid, vif \in {"none", "w"} :
        LET d == [Desc EXCEPT !.groups = groups, !.hdrTrans = trans, !.cm = cm, !.clm = clm, !.frag = frag,
                              !.unicast = uni, !.sec = sec, !.wcid = wcid, !.vif = vif, !.fc.moreFrags = more]
            st == FillRx(d)
        IN ~st.drop =>
             /\ st.eth => ~st.header /\ ~st.radiotap /\ AmsduOffset(st, 26) = 0
             /\ st.decrypted /\ ~st.ivStripped <=> st.header
             /\ ~st.eth => AmsduOffset(st, 26) = 26 + Number(st.header, Len(CcmpHdr(<<0, 0, 0, 0, 0, 0>>, 0)))
             /\ st.aggr => wcid # "none" /\ uni /\ (st.eth => 4 \in groups)
             /\ trans /\ 4 \in groups /\ more => ~st.eth /\ uni

(* A first fragment has its 802.11 header back as the sender wrote it.     *)
ASSUME HeaderReversed ==
    \A toDs, fromDs, order, qos \in BOOLEAN, x, y \in {"x", "y"},
       llc \in {<<"rfc1042", "IP">>, <<"bridge tunnel", "AARP">>, <<"bridge tunnel", "IPX">>, <<>>} :
        LET vif == [addr |-> "us", bssid |-> "bss"]
            fc == [toDs |-> toDs, fromDs |-> fromDs, order |-> order, qos |-> qos]
            sent == [fc |-> fc, seq |-> 5, addr1 |-> "us", addr2 |-> "sta",
                     addr3 |-> IF toDs \/ fromDs THEN x ELSE "bss",
                     addr4 |-> IF toDs /\ fromDs THEN <<y>> ELSE <<>>,
                     ht |-> IF order THEN <<3>> ELSE <<>>, qos |-> IF qos THEN <<2>> ELSE <<>>, llc |-> llc]
            eth == [dest |-> IF toDs THEN sent.addr3 ELSE sent.addr1,
                    source |-> IF ~fromDs THEN sent.addr2 ELSE IF toDs THEN y ELSE sent.addr3,
                    proto |-> IF llc = <<>> THEN "length" ELSE llc[2]]
        IN ReverseHdr(eth, fc, 5, 2, 3, vif, "sta") = sent

(* Subframes go on in their order and none is lost but with a burst that   *)
(* was none; a burst is of one sequence number, a first subframe can only  *)
(* begin it and a last one end it, and an A-MSDU that is complete goes on  *)
(* whole, whatever came before it.                                         *)
Subframes == {[amsdu |-> FALSE, first |-> FALSE, last |-> FALSE, seqno |-> n, llc |-> l] :
                  n \in {1, 2}, l \in BOOLEAN}
             \union {[amsdu |-> TRUE, first |-> p = 1, last |-> p = 3, seqno |-> n, llc |-> l] :
                  p \in 1 .. 3, n \in {1, 2}, l \in BOOLEAN}
ASSUME BurstsWhole ==
    \A n \in 0 .. 3 : \A fs \in [1 .. n -> Subframes] :
        LET q == FoldLeft(ReleaseBurst, NoBurst, fs)
            first == [amsdu |-> TRUE, first |-> TRUE, last |-> FALSE, seqno |-> 2, llc |-> FALSE]
            mid == [first EXCEPT !.first = FALSE]
            whole == <<first, mid, [mid EXCEPT !.last = TRUE]>>
            after == FoldLeft(ReleaseBurst, q, whole)
            sane(b) == \A i \in DOMAIN b : /\ b[i].seqno = b[1].seqno /\ (b[i].first => i = 1)
                                           /\ (b[i].last => i = Len(b)) /\ (~b[i].amsdu => Len(b) = 1)
        IN /\ sane(q.burst) /\ \A i \in DOMAIN q.out : sane(q.out[i])
           /\ Len(after.out) > 0 /\ after.out[Len(after.out)] = whole /\ after.burst = <<>>
           /\ (\A i \in DOMAIN fs : ~fs[i].llc) => FlattenSeq(q.out) \o q.burst = fs

(* No packet number is accepted twice or after a later one of its counter, *)
(* except in frames that are left to mac80211.                             *)
PnFrames == {[eth |-> e, mgmt |-> m, toDs |-> FALSE, tid |-> t, decrypted |-> TRUE, monitor |-> FALSE,
              check |-> TRUE, ivStripped |-> s, frag |-> g, iv |-> iv] :
                e, m, s, g \in BOOLEAN, t \in {0, 1}, iv \in {1, 2}}
ASSUME PnsIncrease ==
    \A a, b, c \in PnFrames :
        LET none == [i \in {0, 1, MgmtIdx} |-> 0]
            r1 == CheckPn(none, a)
            r2 == CheckPn(r1.pns, b)
            r3 == CheckPn(r2.pns, c)
            idx(f) == IF ~f.eth /\ f.mgmt THEN MgmtIdx ELSE f.tid
            frame == <<a, b, c>>
            valid == <<r1.validated, r2.validated, r3.validated>>
        IN /\ \A i, j \in 1 .. 3 : i < j /\ valid[i] /\ valid[j] /\ idx(frame[i]) = idx(frame[j])
                                   => frame[i].iv < frame[j].iv
           /\ \A i \in DOMAIN none : r1.pns[i] <= r2.pns[i] /\ r2.pns[i] <= r3.pns[i]

(* The packet number that is put back is the one that was taken out.       *)
ASSUME CcmpInserted ==
    LET pn == <<1, 2, 3, 4, 5, 6>>
        frame == InsertCcmp([i \in 1 .. 30 |-> 100 + i], 26, pn, 2)
    IN /\ SubSeq(frame, 1, 26) = [i \in 1 .. 26 |-> 100 + i] /\ SubSeq(frame, 35, 38) = <<127, 128, 129, 130>>
       /\ <<frame[34], frame[33], frame[32], frame[31], frame[28], frame[27]>> = pn /\ Len(frame) = 38

(* Two chains give the same signal in either order, not below the better   *)
(* and at most 3 dB above it.                                              *)
ASSUME SignalsCombine ==
    \A a, b \in -121 .. 0 : LET s == RxSignal(<<a, b>>)
                            IN s = RxSignal(<<b, a>>) /\ s \in MaxOf(a, b) .. MaxOf(a, b) + 3

(* mac80211 hears of power save in turns: asleep, awake, asleep, ...       *)
PsFrames == {[eth |-> e, kind |-> k, moreFrags |-> m, pm |-> p] :
                e, m, p \in BOOLEAN, k \in {"qos", "data", "mgmt", "pspoll", "control"}}
ASSUME PowerSaveAlternates ==
    \A ps \in BOOLEAN : \A fs \in [1 .. 2 -> PsFrames] :
        LET one == CheckPs(ps, fs[1])
            two == CheckPs(one.ps, fs[2])
            told == SelectSeq(one.calls \o two.calls, LAMBDA c : c \in {<<"ps", TRUE>>, <<"ps", FALSE>>})
        IN /\ \A i \in DOMAIN told : told[i][2] = IF i = 1 THEN ~ps ELSE ~told[i - 1][2]
           /\ two.ps = IF told = <<>> THEN ps ELSE told[Len(told)][2]

(* A packet is taken once: before its buffer becomes a frame, or after.    *)
ASSUME PacketsTakenOnce ==
    /\ \A type \in {"TXRX_NOTIFY", "TXS", "RX_EVENT", "NORMAL", "NORMAL_MCU", "RXD"}, flag \in {0, 1},
          len \in 0 .. 120, fills \in BOOLEAN :
          RxCheck(type, len) # <<"keep">> => QueueRx(type, flag, len, fills) = RxCheck(type, len)
    /\ \A len \in 0 .. 120 : \A k \in 1 .. 4 : TxsCount(len) >= k <=> len >= 8 + 32 * k

(* References of A-MPDUs are never zero, also after they wrap.             *)
ASSUME RefsNotZero ==
    \A ref \in 1 .. 7 : LET next == AmpduRef([stamp |-> 0, ref |-> ref], 1, 3)
                        IN next.ref \notin {ref, 0} /\ AmpduRef(next, 1, 3) = next
=============================================================================
