------------------------------ MODULE ConnacMcu ------------------------------
(***************************************************************************)
(* What the driver writes into its commands to the firmware about an       *)
(* interface and a station (src/src/mt76/mt76_connac_mcu.c): which TLVs a  *)
(* request carries, and what they say. A TLV is a record with its tag; a   *)
(* request is a sequence of them, in the order of the code. The chip is a  *)
(* connac2 (mt7921, mt7902); what the code does for others is left out.    *)
(*                                                                         *)
(*   v   an interface: type, p2p, omac, bssid, aid, he, ...                *)
(*   s   a station, or NoSta: aid, addr, wme, ht, vht, he, capa6, ...      *)
(*   w   an entry of the WTBL: idx, sta, disabled, hdrTrans, fourAddr      *)
(***************************************************************************)
EXTENDS Integers, Sequences, FiniteSets
LOCAL INSTANCE TLC
LOCAL INSTANCE SequencesExt

CONSTANT NoSta    \* no station: the NULL of link_sta and of wcid

IfTypes == {"STATION", "AP", "ADHOC", "MESH_POINT", "MONITOR", "P2P_DEVICE"}
Bands == {"2GHZ", "5GHZ", "6GHZ"}
NoAddr == "00:00"
Broadcast == "ff:ff"

Optional(test, x) == IF test THEN <<x>> ELSE <<>>
Tags(request) == {request[i].tag : i \in DOMAIN request}

-----------------------------------------------------------------------------
(* Interfaces: connection types, and the hardware BSS of an index of the   *)
(* extended range.                                                         *)
HwBss(v) == IF v.omac > 16 THEN 0 ELSE v.omac

ApConn(v) == IF v.p2p THEN "P2P_GO" ELSE "INFRA_AP"
StaConn(v) == IF v.p2p THEN "P2P_GC" ELSE "INFRA_STA"

OmacConn(v) == CASE v.type \in {"MONITOR", "MESH_POINT", "AP"} -> ApConn(v)
                 [] v.type = "STATION" -> StaConn(v)
                 [] v.type = "ADHOC" -> "IBSS_ADHOC"
                 [] OTHER -> "none"

BssOmacTlv(v) == [tag |-> "BSS_INFO_OMAC", conn |-> OmacConn(v), omac |-> v.omac,
                  band |-> v.band, hw |-> HwBss(v)]

BssExtTlv(v) == Optional(v.omac >= 16, [tag |-> "BSS_INFO_EXT_BSS", offset |-> (v.omac - 16) * 4116])

(* PHY modes: bss_basic's own bits, and those of a station record.         *)
PhyMode(band, cap) ==
    CASE band = "2GHZ" -> {"B", "G"} \union (IF cap.ht THEN {"GN"} ELSE {})
                                     \union (IF cap.he THEN {"AX_24G"} ELSE {})
      [] band = "5GHZ" -> {"A"} \union (IF cap.ht THEN {"AN"} ELSE {})
                                \union (IF cap.vht THEN {"AC"} ELSE {})
                                \union (IF cap.he THEN {"AX_5G"} ELSE {})
      [] band = "6GHZ" -> {"A", "AN", "AC", "AX_5G"}

PhyModeExt(band, cap, eht) ==
    (IF band = "6GHZ" THEN {"AX_6G"} ELSE {}) \union
    (IF cap.eht /\ eht THEN {CASE band = "6GHZ" -> "BE_6G" [] band = "5GHZ" -> "BE_5G"
                                [] OTHER -> "BE_24G"} ELSE {})

PhyModeV2(band, cap) ==
    (IF band = "2GHZ" THEN {"HR_DSSS", "ERP"} ELSE {"OFDM"})
    \union (IF cap.ht THEN {"HT"} ELSE {})
    \union (IF cap.vht /\ band # "2GHZ" THEN {"VHT"} ELSE {})
    \union (IF cap.he THEN {"HE"} ELSE {}) \union (IF cap.eht THEN {"BE"} ELSE {})

(* mt76_connac_mcu_uni_add_dev: the device before its BSS, and in the      *)
(* other order when both go.                                               *)
DevConn(v) == CASE v.type \in {"MESH_POINT", "MONITOR", "AP"} -> "INFRA_AP"
                [] v.type = "STATION" -> "INFRA_STA"
                [] v.type = "P2P_DEVICE" -> "P2P_GO"
                [] v.type = "ADHOC" -> "IBSS_ADHOC"

AddDev(v, wcid, enable) ==
    LET dev == [tag |-> "DEV_INFO", omac |-> v.omac, active |-> enable, addr |-> v.addr]
        bss == [tag |-> "BSS_INFO", bss |-> v.idx, active |-> enable, conn |-> DevConn(v),
                hw |-> HwBss(v), bmc |-> wcid, conn_state |-> 1]
    IN IF enable THEN <<dev, bss>> ELSE <<bss, dev>>

(* mt76_connac_mcu_uni_set_chctx.                                          *)
Chctx(chan) ==
    LET wide == chan.width \in {40, 80, 160, "80P80", 5, 10}
    IN [tag |-> "BSS_RLM", control |-> chan.control, center |-> chan.center,
        bw |-> IF wide THEN chan.width ELSE 20, ht_op_info |-> IF wide THEN 4 ELSE 0,
        sco |-> IF chan.control < chan.center THEN 1 ELSE IF chan.control > chan.center THEN 3 ELSE 0]

(* mt76_connac_mcu_uni_bss_he_tlv: zero asks for the default.              *)
BssHe(v, enable) ==
    [tag |-> "BSS_HE", pe |-> IF v.pe = 0 THEN 4 ELSE v.pe, rts |-> IF v.rts = 0 THEN 1023 ELSE v.rts,
     color |-> IF enable THEN v.color ELSE 0]

(* mt76_connac_mcu_uni_add_bss: up to four commands, of which one that     *)
(* fails is the last. Only an AP is ever deactivated.                      *)
AddBss(v, wcid, enable, chan, cap) ==
    <<[tag |-> "BSS_BASIC", active |-> v.type \in {"MESH_POINT", "AP"} => enable,
       conn |-> CASE v.type \in {"MESH_POINT", "AP"} -> ApConn(v) [] v.type = "STATION" -> StaConn(v)
                  [] v.type = "ADHOC" -> "IBSS_ADHOC" [] OTHER -> "none",
       mode |-> PhyMode(chan.band, cap), nonht |-> PhyModeV2(chan.band, cap),
       ext |-> IF chan.band = "6GHZ" THEN {"AX_6G"} ELSE {},
       hw |-> HwBss(v), bmc |-> wcid, conn_state |-> IF enable THEN 0 ELSE 1]>>
    \o Optional(v.he, BssHe(v, enable))
    \o Optional(enable /\ v.indicator > 0,
                [tag |-> "BSS_MBSSID", max |-> v.indicator, index |-> v.index])
    \o <<Chctx(chan)>>

(* mt76_connac_mcu_bss_basic_tlv: a station interface names its AP's entry *)
(* instead of its own.                                                     *)
BssBasicTlv(v, wcid, ap, enable, maxInd) ==
    IF v.type = "AP" /\ v.indicator > maxInd THEN <<>>
    ELSE <<[tag |-> "BSS_INFO_BASIC", active |-> enable,
            network |-> IF v.type = "ADHOC" THEN "IBSS" ELSE IF v.p2p THEN "P2P" ELSE "INFRA",
            bmc |-> IF v.type = "STATION" /\ enable /\ ap # NoSta THEN ap ELSE wcid,
            bssid |-> IF v.type = "MONITOR" THEN "macaddr" ELSE v.bssid]>>

-----------------------------------------------------------------------------
(* Stations. The MUAR index says where the address of the entry is found.  *)
StaReqMuar(v, w) == IF w = NoSta THEN 0 ELSE IF ~w.sta /\ ~w.disabled THEN 14 ELSE v.omac

PeerConn(v) == CASE v.type \in {"MESH_POINT", "AP"} -> "INFRA_STA"
                 [] v.type = "STATION" -> "INFRA_AP"
                 [] v.type = "ADHOC" -> "IBSS_ADHOC"
                 [] OTHER -> "none"

StaBasicTlv(v, s, secure, newly) ==
    LET state == [tag |-> "STA_REC_BASIC", secure |-> secure, new |-> newly /\ secure]
        own == v.type = "STATION" /\ v.bssid # NoAddr
    IN IF s = NoSta
       THEN state @@ [conn |-> "INFRA_BC", peer |-> IF own THEN v.bssid ELSE Broadcast,
                      aid |-> IF own THEN v.aid ELSE 0, qos |-> FALSE]
       ELSE state @@ [conn |-> PeerConn(v), peer |-> s.addr, qos |-> s.wme,
                      aid |-> IF v.type = "STATION" THEN v.aid ELSE s.aid]

StaUapsd(v, s) ==
    Optional(v.type = "AP" /\ s.wme, [tag |-> "STA_REC_APPS", acs |-> s.uapsd, sp |-> s.maxSp])

AmsduTlv(v, s) ==
    Optional(v.type \in {"AP", "STATION"} /\ s.amsdu > 0,
             [tag |-> "STA_REC_HW_AMSDU", num |-> 8, big |-> s.amsdu >= 7991])

(* mt76_connac_mcu_sta_he_tlv: the capabilities it knows, each under the   *)
(* name of the element it is read from, and the firmware's for it.         *)
HeCapOf == {
    <<"HTC_HE", "HTC">>, <<"BSR", "BSR">>, <<"OMI_CONTROL", "OM">>, <<"BQR", "BQR">>,
    <<"AMSDU_IN_AMPDU", "AMSDU_IN_AMPDU">>, <<"RU_MAPPING_IN_2G", "BW20_RU242">>,
    <<"RU_MAPPING_IN_5G", "BW20_RU242">>, <<"LDPC", "LDPC">>, <<"SU_08US", "SU_1LTF_8US">>,
    <<"NDP_4LTF", "NDP_4LTF_3DOT2MS">>, <<"STBC_TX_UNDER_80", "LE_EQ_80M_TX_STBC">>,
    <<"STBC_RX_UNDER_80", "LE_EQ_80M_RX_STBC">>, <<"PARTIAL_BW", "PARTIAL_BW_EXT_RANGE">>,
    <<"SU_MU_4LTF", "SU_MU_4LTF_8US">>, <<"STBC_TX_ABOVE_80", "GT_80M_TX_STBC">>,
    <<"STBC_RX_ABOVE_80", "GT_80M_RX_STBC">>, <<"ER_SU_4LTF", "ER_SU_4LTF_8US">>,
    <<"ER_SU_1LTF", "ER_SU_1LTF_8US">>, <<"CQI", "TRIG_CQI_FK">>,
    <<"TX_1024QAM", "TX_1024QAM_UNDER_RU242">>, <<"RX_1024QAM", "RX_1024QAM_UNDER_RU242">>}

HeMcsSets(s) == {80} \union (IF s.bw = 160 THEN {160} ELSE {})
                     \union (IF s.bw = 160 /\ "80PLUS80" \in s.heElem THEN {8080} ELSE {})

HeTlv(s) ==
    [tag |-> "STA_REC_HE", cap |-> {p[2] : p \in {q \in HeCapOf : q[1] \in s.heElem}},
     mcs |-> HeMcsSets(s), dcm_rx_max_nss |-> s.dcmMaxRu, pkt_ext |-> 2]

HeTlvV2(s) == [tag |-> "STA_REC_HE_V2", elem |-> s.heElem, mcs |-> HeMcsSets(s), pkt_ext |-> 2]

(* Legacy rates: four of CCK and eight of OFDM at 2.4 GHz, OFDM elsewhere. *)
LegacyRates(band, rates) ==
    IF band = "2GHZ" THEN [cck |-> rates % 16, ofdm |-> rates \div 16] ELSE [cck |-> 0, ofdm |-> rates]

StaTlv(v, s, band, state) ==
       Optional(s.ht, [tag |-> "STA_REC_HT"])
    \o Optional(s.vht, [tag |-> "STA_REC_VHT"])
    \o StaUapsd(v, s)
    \o (IF s.ht \/ s.he THEN AmsduTlv(v, s) ELSE <<>>)
    \o (IF s.he THEN <<HeTlv(s), HeTlvV2(s)>> ELSE <<>>)
    \o Optional(s.he /\ band = "6GHZ" /\ state = "ASSOC", [tag |-> "STA_REC_HE_6G", capa |-> s.capa6])
    \o <<[tag |-> "STA_REC_PHY", type |-> PhyModeV2(band, s)],
         [tag |-> "STA_REC_RA", legacy |-> LegacyRates(band, s.rates), mcs |-> s.ht],
         [tag |-> "STA_REC_STATE", state |-> state,
          opmode |-> IF s.vht THEN <<s.bw, s.nss - 1>> ELSE <<0, 0>>]>>

(* The WTBL part of a request: nested TLVs, each adding its length to the  *)
(* outer TLV and one to the count of the WTBL header.                      *)
HdrTransTlv(v, w) ==
    LET both == w # NoSta /\ w.fourAddr
    IN [tag |-> "WTBL_HDR_TRANS", to_ds |-> v.type = "STATION" \/ both,
        from_ds |-> v.type # "STATION" \/ both,
        no_rx_trans |-> w # NoSta => ~w.hdrTrans]

UpdateHdrTrans(v, w) == [op |-> "SET", tlvs |-> <<HdrTransTlv(v, w)>>]

WtblGeneric(v, s) ==
    <<IF s = NoSta
      THEN [tag |-> "WTBL_GENERIC", muar |-> 14, aid |-> 0, qos |-> FALSE,
            peer |-> IF v.type = "STATION" THEN v.bssid ELSE Broadcast]
      ELSE [tag |-> "WTBL_GENERIC", muar |-> v.omac, qos |-> s.wme, peer |-> s.addr,
            aid |-> IF v.type = "STATION" THEN v.aid ELSE s.aid],
      [tag |-> "WTBL_RX", rca1 |-> s # NoSta => v.type # "AP", rca2 |-> TRUE, rv |-> TRUE]>>

(* mt76_connac_mcu_wtbl_ht_tlv; the A-MPDU length exponents of HT and VHT, *)
(* of which the larger counts when there is an HT TLV.                     *)
WtblHt(s) ==
    LET ht == s.ht \/ s.capa6 # 0  vht == s.vht \/ s.capa6 # 0
        af == IF s.ht THEN s.ampduFactor ELSE s.capa6
    IN    Optional(ht, [tag |-> "WTBL_HT", ldpc |-> s.ldpc,
                        af |-> IF vht /\ s.vhtAmpdu > af THEN s.vhtAmpdu ELSE af])
       \o Optional(vht, [tag |-> "WTBL_VHT", ldpc |-> s.vhtLdpc])
       \o <<[tag |-> "WTBL_SMPS", smps |-> s.smps = "DYNAMIC"]>>

(* mt76_connac_mcu_sta_cmd: a WTBL entry is emptied before it is written,  *)
(* and only emptied when the station goes. When the firmware keeps the     *)
(* records itself (offload) the driver describes no station of its own.    *)
StaCmd(v, s, w, enable, newly, state, band, offload) ==
    [muar |-> StaReqMuar(v, w),
     tlvs |-> Optional(s # NoSta \/ ~offload, StaBasicTlv(v, s, enable, newly)) \o
              (IF s # NoSta /\ enable THEN StaTlv(v, s, band, state) ELSE <<>>),
     wtbl |-> [op |-> "RESET_AND_SET",
               tlvs |-> IF ~enable THEN <<>>
                        ELSE WtblGeneric(v, s) \o <<HdrTransTlv(v, w)>> \o
                             (IF s # NoSta THEN WtblHt(s) ELSE <<>>)]]

(* mt76_connac_mcu_add_nested_tlv and alloc_wtbl_req on the lengths.       *)
NestedLen(lens) == FoldLeft(LAMBDA a, l : [len |-> a.len + l, num |-> a.num + 1],
                            [len |-> 4 + 8, num |-> 0], lens)

-----------------------------------------------------------------------------
(* Block-ack agreements: two commands, the WTBL's and the station record's.*)
WtblBa(p, enable, tx) ==
    [tag |-> "WTBL_BA", tid |-> p.tid, type |-> IF tx THEN "ORIGINATOR" ELSE "RECIPIENT",
     en |-> tx /\ enable, ssn |-> IF tx /\ enable THEN p.ssn ELSE 0, reset |-> ~tx,
     win |-> IF enable THEN p.buf ELSE 0]

StaBaTlv(p, enable, tx) ==
    [tag |-> "STA_REC_BA", tid |-> p.tid, type |-> IF tx THEN "ORIGINATOR" ELSE "RECIPIENT",
     en |-> IF enable THEN {p.tid} ELSE {}, ssn |-> p.ssn, win |-> p.buf, amsdu |-> p.amsdu]

StaBa(p, enable, tx) == <<[op |-> "SET", tlvs |-> <<WtblBa(p, enable, tx)>>], StaBaTlv(p, enable, tx)>>

(* Keys. A BIP key is sent together with the CCMP key stored before it.    *)
KnownCiphers == {"WEP40", "WEP104", "TKIP", "AES_CMAC", "CCMP", "CCMP_256", "GCMP", "GCMP_256",
                 "BIP_GMAC_128", "BIP_GMAC_256", "BIP_CMAC_256", "SMS4"}

KeyTlv(stored, key, set) ==
    IF ~set THEN [add |-> FALSE, keys |-> <<>>]
    ELSE [add |-> TRUE,
          keys |-> IF key.cipher = "AES_CMAC"
                   THEN <<[cipher |-> "CCMP", key |-> stored.key, id |-> stored.id],
                          [cipher |-> "AES_CMAC", key |-> key.key, id |-> 0]>>
                   ELSE <<[cipher |-> key.cipher, key |-> key.key, id |-> key.id]>>]

KeyStored(stored, key, set) ==
    IF set /\ key.cipher = "CCMP" THEN [key |-> key.key, id |-> key.id] ELSE stored

KeyRefused(key, set) == set /\ key.cipher \notin KnownCiphers

-----------------------------------------------------------------------------
(* Scans. A list of more than 64 channels, or of none, is left to the      *)
(* firmware, which scans all it may.                                       *)
ScanBand(band) == CASE band = "2GHZ" -> 1 [] band = "6GHZ" -> 3 [] OTHER -> 2
ScanChannel(c) == [band |-> ScanBand(c.band), num |-> c.num]
Some(seq, n) == SubSeq(seq, 1, IF Len(seq) < n THEN Len(seq) ELSE n)

HwScanReq(chans, ssids, seqNum) ==
    LET listed == Len(chans) \in 1 .. 64
        named == SelectSeq(ssids, LAMBDA x : Len(x) > 0)
        all == [i \in DOMAIN chans |-> ScanChannel(chans[i])]
    IN [seq |-> seqNum, active |-> ssids # <<>>, probes |-> IF ssids # <<>> THEN 2 ELSE 0, ssids |-> named,
        ssid_type |-> IF named # <<>> THEN 4 ELSE 1, channel_type |-> IF listed THEN 4 ELSE 0,
        channels |-> IF listed THEN Some(all, 32) ELSE <<>>,
        ext_channels |-> IF listed THEN SubSeq(all, 33, Len(all)) ELSE <<>>]

NextScanSeq(seq) == (seq + 1) % 128

SchedScanReq(chans, ssids, matches, plans, seqNum) ==
    [seq |-> seqNum, ssids |-> ssids, matches |-> matches, channel_type |-> IF chans # <<>> THEN 4 ELSE 0,
     channels |-> [i \in DOMAIN Some(chans, 64) |-> ScanChannel(chans[i])], intervals |-> plans]

(* mt76_connac_mcu_build_rnr_scan_param: every BSSID once, on the channel  *)
(* it came first with, as many as there is room for.                       *)
RnrParam(params, room) ==
    FoldLeft(LAMBDA got, p : IF Len(got) < room /\ \A i \in DOMAIN got : got[i].bssid # p.bssid
                             THEN Append(got, p) ELSE got, <<>>, params)

(* mt76_connac_mcu_set_channel_domain: what is enabled, band after band.   *)
ChannelDomain(chans) ==
    LET on(b) == SelectSeq(chans, LAMBDA c : c.band = b /\ ~c.disabled)
    IN [n |-> [b \in Bands |-> Len(on(b))], list |-> on("2GHZ") \o on("5GHZ") \o on("6GHZ")]

-----------------------------------------------------------------------------
(* Power save, offloads and wake-up on WLAN.                               *)
VifPs(v) == Optional(v.type = "STATION", [tag |-> "PS_PROFILE", ps |-> IF v.ps THEN 2 ELSE 0])

(* mt76_connac_sta_state_dp: the firmware may sleep deeply but while a     *)
(* station is neither gone nor authorized.                                 *)
DeepSleep(old, new) ==
    CASE <<old, new>> \in {<<"ASSOC", "AUTHORIZED">>, <<"NONE", "NOTEXIST">>} -> {TRUE}
      [] <<old, new>> \in {<<"NOTEXIST", "NONE">>, <<"AUTHORIZED", "ASSOC">>} -> {FALSE}
      [] OTHER -> {}

ArpFilter(addrs) == [mode |-> 2, ips |-> Some(addrs, 4)]

KeyIter(tlv, key) ==
    LET cipher == IF key.cipher = "TKIP" THEN 3 ELSE 4
    IN CASE key.cipher \notin {"AES_CMAC", "CCMP", "TKIP"} -> tlv
         [] key.cipher \in {"AES_CMAC", "CCMP", "TKIP"} /\ key.pairwise ->
              [tlv EXCEPT !.proto = IF key.cipher = "TKIP" THEN 1 ELSE 2, !.pair = cipher, !.id = key.id]
         [] OTHER -> [tlv EXCEPT !.group = cipher]

GtkRekey(keys) == FoldLeft(KeyIter, [proto |-> 0, pair |-> 0, group |-> 0, id |-> 0], keys)

WowTriggers(wow) ==
    (IF wow.magic THEN {"MAGIC"} ELSE {}) \union (IF wow.disconnect THEN {"DISCONNECT", "BCN_LOST"} ELSE {})
    \union (IF wow.nd THEN {"SCH_SCAN_HIT"} ELSE {}) \union (IF wow.patterns # <<>> THEN {"BITMAP"} ELSE {})

WowCtrl(wow, suspend) ==
    (IF wow.nd THEN <<[tag |-> "SCHED_SCAN_REQ"], [tag |-> "SCHED_SCAN_ENABLE", active |-> suspend]>> ELSE <<>>)
    \o <<[tag |-> "WOW_CTRL", cmd |-> IF suspend THEN 1 ELSE 2, trigger |-> WowTriggers(wow), hif |-> "PCIE"]>>

(* mt76_connac_mcu_set_suspend_iter, for every interface; an interface is  *)
(* suspended when the device no longer runs.                               *)
SuspendIter(running, wow) ==
    LET suspend == ~running
    IN <<[tag |-> "GTK_REKEY", mode |-> running], [tag |-> "ARP", mode |-> suspend],
         [tag |-> "SUSPEND_MODE", enable |-> suspend, mdtim |-> 1, wow |-> TRUE]>>
       \o [i \in DOMAIN wow.patterns |-> [tag |-> "WOW_PATTERN", index |-> i - 1, enable |-> suspend]]
       \o WowCtrl(wow, suspend)

-----------------------------------------------------------------------------
(* mt76_connac2_mcu_fill_message: the header in front of a command.        *)
NextMsgSeq(seq) == IF (seq + 1) % 16 = 0 THEN (seq + 2) % 256 ELSE (seq + 1) % 256

Header(cmd, seq, len) ==
    CASE cmd.name = "FW_SCATTER" -> [seq |-> seq % 16, bytes |-> len]
      [] cmd.name # "FW_SCATTER" /\ cmd.uni -> [seq |-> seq % 16, bytes |-> len + 48, cid |-> cmd.id, option |-> "EXT_ACK"]
      [] OTHER -> [seq |-> seq % 16, bytes |-> len + 64, cid |-> cmd.id, ext |-> cmd.ext,
                   set_query |-> IF cmd.ext # 0 \/ cmd.ce THEN IF cmd.query THEN "Q" ELSE "SET" ELSE "NA",
                   ack |-> cmd.ext # 0, to |-> IF cmd.wa THEN "H2C" ELSE "H2N"]

(* mt76_connac2_get_data_mode: how a section of the patch is decrypted.    *)
DataMode(sec) ==
    {"NEED_RSP"} \union
    CASE sec = "AES" -> {"ENCRYPT", "KEY_IDX", "RESET_SEC_IV"}
      [] sec = "SCRAMBLE" -> {"ENCRYPT", "ENCRY_MODE_SEL", "RESET_SEC_IV"}
      [] OTHER -> {}
-----------------------------------------------------------------------------
(* What the commands must say, over small inputs. Interfaces and stations: *)
Iface(type, p2p) ==
    [type |-> type, p2p |-> p2p, omac |-> 0, idx |-> 0, band |-> 0, addr |-> "a0:01", bssid |-> "b0:01",
     aid |-> 5, he |-> TRUE, pe |-> 0, rts |-> 0, color |-> 3, indicator |-> 1, index |-> 0, ps |-> TRUE]
Ifaces == {Iface(type, p2p) : type \in IfTypes, p2p \in BOOLEAN}
Station(ht, vht, he, capa6) ==
    [addr |-> "c0:01", aid |-> 1, wme |-> TRUE, uapsd |-> {}, maxSp |-> 0, amsdu |-> 7935, ht |-> ht, vht |-> vht,
     he |-> he, eht |-> FALSE, capa6 |-> capa6, heElem |-> {q[1] : q \in HeCapOf}, bw |-> 160, nss |-> 2,
     dcmMaxRu |-> 0, rates |-> 4095, ampduFactor |-> 3, vhtAmpdu |-> 7, ldpc |-> TRUE, vhtLdpc |-> TRUE,
     smps |-> "OFF"]
Stations == {Station(ht, vht, he, capa6) : ht, vht, he \in BOOLEAN, capa6 \in {0, 2}}
Entry(sta) == [sta |-> sta, disabled |-> FALSE, hdrTrans |-> TRUE, fourAddr |-> FALSE]
Channels(n) == [i \in 1 .. n |-> [band |-> IF i % 3 = 0 THEN "2GHZ" ELSE IF i % 3 = 1 THEN "5GHZ" ELSE "6GHZ",
                                  num |-> i, disabled |-> i % 4 = 0]]
Distinct(seq) == \A i, j \in DOMAIN seq : i # j => seq[i] # seq[j]

(* The two ends of a link name each other: what a record says of its peer  *)
(* is what the peer's interface says of itself.                            *)
ASSUME RolesMeet ==
    \A v \in {Iface("AP", FALSE), Iface("STATION", FALSE)}, u \in {Iface("AP", FALSE), Iface("STATION", FALSE)} :
        v # u => PeerConn(v) = OmacConn(u) /\ DevConn(v) = OmacConn(v)

(* A device is set up before its BSS and torn down after it.               *)
ASSUME DeviceEncloses ==
    \A v \in Ifaces : AddDev(v, 0, TRUE)[1].tag = "DEV_INFO" /\ AddDev(v, 0, FALSE)[2].tag = "DEV_INFO"

(* A station that comes has its capabilities told to both tables, one that *)
(* goes leaves an empty entry of the WTBL and a disconnected record.       *)
ASSUME StationDescribed ==
    \A v \in Ifaces, s \in Stations, band \in Bands, state \in {"NONE", "ASSOC"} :
        LET comes == StaCmd(v, s, Entry(TRUE), TRUE, TRUE, state, band, TRUE)
            goes == StaCmd(v, s, Entry(TRUE), FALSE, FALSE, "NONE", band, TRUE)
        IN /\ Distinct([i \in DOMAIN comes.tlvs |-> comes.tlvs[i].tag])
           /\ {"STA_REC_BASIC", "STA_REC_PHY", "STA_REC_RA", "STA_REC_STATE"} \subseteq Tags(comes.tlvs)
           /\ s.ht => "STA_REC_HT" \in Tags(comes.tlvs) /\ "WTBL_HT" \in Tags(comes.wtbl.tlvs)
           /\ s.vht => "STA_REC_VHT" \in Tags(comes.tlvs) /\ "WTBL_VHT" \in Tags(comes.wtbl.tlvs)
           /\ s.he <=> "STA_REC_HE_V2" \in Tags(comes.tlvs)
           /\ "STA_REC_HE_6G" \in Tags(comes.tlvs) => band = "6GHZ" /\ state = "ASSOC"
           /\ Tags(goes.tlvs) = {"STA_REC_BASIC"} /\ ~goes.tlvs[1].secure /\ goes.wtbl.tlvs = <<>>

(* Every legacy rate is in exactly one of the two fields.                  *)
ASSUME LegacyRatesKept ==
    \A rates \in 0 .. 4095 : LegacyRates("2GHZ", rates).cck + 16 * LegacyRates("2GHZ", rates).ofdm = rates

(* The length of the outer TLV is what is nested in it.                    *)
ASSUME NestedLengths ==
    \A a, b, c \in {8, 12, 20} : NestedLen(<<a, b, c>>) = [len |-> 12 + a + b + c, num |-> 3]

(* An integrity key is useless without the pairwise key the firmware keeps *)
(* it with, which came before it.                                          *)
ASSUME BipKeyComplete ==
    LET ccmp == [cipher |-> "CCMP", key |-> "k1", id |-> 1]
        bip == [cipher |-> "AES_CMAC", key |-> "k2", id |-> 4]
        sent == KeyTlv(KeyStored([key |-> "", id |-> 0], ccmp, TRUE), bip, TRUE)
    IN sent.keys[1] = ccmp /\ sent.keys[2].key = bip.key

(* The channels of a scan are those that were asked for, in their order,   *)
(* the same ones whatever their number, until the list is left out.        *)
ASSUME ScanListSent ==
    \A n \in {0, 1, 31, 32, 33, 63, 64, 65} :
        LET req == HwScanReq(Channels(n), <<>>, 0)
        IN req.channels \o req.ext_channels =
               (IF n \in 1 .. 64 THEN [i \in 1 .. n |-> ScanChannel(Channels(n)[i])] ELSE <<>>)

(* Every access point reported for 6 GHz is looked for once.               *)
ASSUME RnrOnce ==
    \A params \in [1 .. 4 -> [bssid : {"b1", "b2", "b3"}, channel : {1, 5}]], room \in 1 .. 4 :
        LET got == RnrParam(params, room)
            found == {p.bssid : p \in ToSet(params)}
        IN /\ Distinct([i \in DOMAIN got |-> got[i].bssid]) /\ ToSet(got) \subseteq ToSet(params)
           /\ Len(got) = IF Cardinality(found) < room THEN Cardinality(found) ELSE room

(* The counts of the channel domain delimit its list.                      *)
ASSUME DomainCounts ==
    \A n \in 0 .. 9 :
        LET d == ChannelDomain(Channels(n))
            band(i) == IF i <= d.n["2GHZ"] THEN "2GHZ" ELSE IF i <= d.n["2GHZ"] + d.n["5GHZ"] THEN "5GHZ" ELSE "6GHZ"
        IN \A i \in DOMAIN d.list : d.list[i].band = band(i) /\ ~d.list[i].disabled

(* Along the ladder of a station's states, the firmware is told at every   *)
(* step that changes whether it may sleep, and only then.                  *)
Ladder == <<"NOTEXIST", "NONE", "AUTH", "ASSOC", "AUTHORIZED">>
ASSUME DeepSleepFollows ==
    LET sleeps(state) == state \in {"NOTEXIST", "AUTHORIZED"}
    IN \A i, j \in 1 .. 5 : i - j \in {1, -1} =>
           DeepSleep(Ladder[i], Ladder[j]) =
               IF sleeps(Ladder[i]) = sleeps(Ladder[j]) THEN {} ELSE {sleeps(Ladder[j])}

(* What is turned on for the sleep is turned off after it, and back.       *)
ASSUME SuspendUndone ==
    LET wow == [magic |-> TRUE, disconnect |-> TRUE, nd |-> TRUE, patterns |-> <<"p">>]
    IN Tags(SuspendIter(TRUE, wow)) = Tags(SuspendIter(FALSE, wow))

(* No command has the sequence number 0, nor that of the one before it.    *)
ASSUME SeqUsable ==
    \A seq \in 0 .. 255 : NextMsgSeq(seq) \in 0 .. 255 /\ NextMsgSeq(seq) % 16 \notin {0, seq % 16}
=============================================================================
