------------------------------ MODULE TxPower ------------------------------
(***************************************************************************)
(* The transmit power the driver tells the firmware: limits of the device  *)
(* tree (src/src/mt76/eeprom.c), of user space and of ACPI's SAR tables    *)
(* (mac80211.c, mt792x_acpi_sar.c), the table of rates and channels that   *)
(* the firmware gets (mt76_connac_mcu.c), and the country's rules          *)
(* (mt7921/mcu.c, mt7921/init.c).                                          *)
(*                                                                         *)
(* Powers are signed bytes in half dBm. A list that is absent is <<>>.     *)
(***************************************************************************)
EXTENDS Integers, Sequences, FiniteSets
LOCAL INSTANCE SequencesExt
LOCAL INSTANCE Functions

Smaller(a, b) == IF a < b THEN a ELSE b
Larger(a, b) == IF a > b THEN a ELSE b
S8(x) == ((x + 128) % 256) - 128
First(seq, Test(_)) == SelectInSeq(seq, Test)                  \* 0: there is none
Before(seq, stop) == SubSeq(seq, 1, IF stop = 0 THEN Len(seq) ELSE stop - 1)
Same(n, x) == [i \in 1 .. n |-> x]

-----------------------------------------------------------------------------
(* Limits of the device tree: the node of the country, or of the region,   *)
(* or the last node that is for neither, and in it the first of a channel. *)
RegionName(region) == [unset |-> "ww", ETSI |-> "etsi", FCC |-> "fcc", JP |-> "jp"][region]

LimitsNode(nodes, alpha2, region) ==
    LET for(n) == alpha2 \in n.country \/ RegionName(region) \in n.regdomain
        mine == First(nodes, for)
        any == SelectLastInSeq(nodes, LAMBDA n : n.country = {} /\ n.regdomain = {})
    IN IF mine # 0 THEN mine ELSE any

ChannelNode(nodes, hw) ==
    First(nodes, LAMBDA n : \E i \in DOMAIN n.channels : hw \in n.channels[i][1] .. n.channels[i][2])

TxsDelta(node, nss) == IF Len(node.txsDelta) < nss THEN 0 ELSE node.txsDelta[nss]

(* mt76_apply_array_limit; the multi version reads groups of a repeat      *)
(* count and one row, of which fewer may be there than rows are wanted.    *)
ArrayLimit(pwr, data, target, delta) ==
    IF Len(data) < Len(pwr) THEN pwr
    ELSE [i \in DOMAIN pwr |-> Smaller(S8(target), S8(data[i] + delta))]

MultiArrayLimit(rows, data, target, delta) ==
    LET width == Len(rows[1])
        Row(st, i) ==
            IF Len(st.data) < width + 1 THEN [st EXCEPT !.data = <<>>]
            ELSE LET rest == IF st.cur > 1 THEN st.data ELSE SubSeq(st.data, width + 2, Len(st.data))
                 IN [rows |-> [st.rows EXCEPT ![i] = ArrayLimit(@, Tail(st.data), target, delta)],
                     data |-> rest,
                     cur |-> IF st.cur > 1 THEN st.cur - 1 ELSE IF rest = <<>> THEN 0 ELSE rest[1]]
        first == [rows |-> rows, data |-> data, cur |-> IF data = <<>> THEN 0 ELSE data[1]]
    IN FoldLeft(Row, first, [i \in 1 .. Len(rows) |-> i]).rows

PathDelta(chains) == IF chains \in 1 .. 5 THEN <<0, 6, 9, 12, 14>>[chains] ELSE 0

(* mt76_get_rate_power_limits; dims gives the sizes of the tables.         *)
Limits(dims, target) ==
    [cck |-> Same(dims.cck, target), ofdm |-> Same(dims.ofdm, target),
     mcs |-> Same(dims.mcs, Same(dims.mcsWidth, target)), ru |-> Same(dims.ru, Same(dims.ruWidth, target)),
     paths |-> Same(dims.cck, 0)]

RatePowerLimits(dims, node, target, chains) ==
    LET all == Limits(dims, target)
        delta == TxsDelta(node, chains)
    IN [cck |-> ArrayLimit(all.cck, node.cck, target, delta),
        ofdm |-> ArrayLimit(all.ofdm, node.ofdm, target, delta),
        mcs |-> MultiArrayLimit(all.mcs, node.mcs, target, delta),
        ru |-> MultiArrayLimit(all.ru, node.ru, target, delta),
        paths |-> ArrayLimit(all.paths, node.paths, target + PathDelta(chains), delta)]

(* mt76_connac_mcu_build_sku: the rates in the order of the firmware.      *)
BuildSku(limits, is2g) ==
       (IF is2g THEN limits.cck ELSE Same(Len(limits.cck), 127)) \o limits.ofdm
    \o SubSeq(limits.mcs[1], 1, 8) \o SubSeq(limits.mcs[2], 1, 8) \o <<limits.mcs[1][1]>>
    \o FlattenSeq([i \in DOMAIN limits.mcs |-> limits.mcs[i] \o <<127, 127>>])
    \o FlattenSeq(limits.ru)

(* mt76_get_of_eeprom: the sources in order; mt76_eeprom_override.         *)
OfEeprom(data, mtd, nvmem, len) ==
    CASE data # <<>> /\ Len(data) <= len -> data
      [] ~(data # <<>> /\ Len(data) <= len) /\ Len(mtd) >= len -> SubSeq(mtd, 1, len)
      [] ~(data # <<>> /\ Len(data) <= len) /\ Len(mtd) < len /\ Len(nvmem) >= len -> SubSeq(nvmem, 1, len)
      [] OTHER -> <<>>

-----------------------------------------------------------------------------
(* The regulatory limit of a channel; frequencies 5 GHz and 6 GHz differ.  *)
ChPower(chans, hw, target) ==
    LET i == First(chans, LAMBDA c : c.hw = hw)
    IN IF i = 0 \/ chans[i].disabled THEN target ELSE Smaller(S8(2 * chans[i].maxReg), S8(target))

Ranges == << <<2402, 2494>>, <<5150, 5350>>, <<5350, 5470>>, <<5470, 5725>>, <<5725, 5950>>, <<5945, 6165>>,
             <<6165, 6405>>, <<6405, 6525>>, <<6525, 6705>>, <<6705, 6865>>, <<6865, 7125>> >>
NoRange == [on |-> FALSE, power |-> 0]
NoFrp == [i \in DOMAIN Ranges |-> NoRange]

(* mt76_init_sar_power: what user space sets, in quarters of a dBm.        *)
InitSar(frp, specs) ==
    FoldLeft(LAMBDA f, s : [f EXCEPT ![s.range] =
                 [on |-> TRUE, power |-> IF s.power \div 2 \in -127 .. 127 THEN s.power \div 2 ELSE 127]],
             frp, specs)

SarPower(frp, freq, power) ==
    LET asked == IF power \in -127 .. 127 THEN power ELSE 127
        i == First([j \in DOMAIN Ranges |-> j],
                   LAMBDA j : frp[j].on /\ Ranges[j][1] <= freq /\ freq < Ranges[j][2])
    IN IF i = 0 THEN asked ELSE Smaller(frp[i].power, asked)

PowerBound(frp, freq, txpower, chains) == S8(S8(SarPower(frp, freq, txpower * 2)) - PathDelta(chains))

(* mt76_connac_mcu_set_rate_txpower: band after band, at most eight        *)
(* channels a message, until a message is lost; last ends the whole table.   *)
Every(from, to, step) == [i \in 1 .. (to - from) \div step + 1 |-> from + (i - 1) * step]
ChanList(band) ==
    CASE band = "2GHZ" -> Every(1, 14, 1)
      [] band = "5GHZ" -> Every(36, 64, 2) \o Every(100, 128, 2) \o Every(132, 144, 2)
                          \o Every(149, 161, 2) \o Every(165, 177, 4)
      [] band = "6GHZ" -> SelectSeq(Every(1, 233, 2), LAMBDA c : c % 32 # 31 /\ c # 231)

LastChannel(caps) ==
    LET top == IF "6GHZ" \in caps THEN "6GHZ" ELSE IF "5GHZ" \in caps THEN "5GHZ" ELSE "2GHZ"
    IN ChanList(top)[Len(ChanList(top))]

BandMessages(band, caps) ==
    LET chans == ChanList(band)
        part(i) == SubSeq(chans, 8 * i - 7, Smaller(8 * i, Len(chans)))
    IN [i \in 1 .. (Len(chans) + 7) \div 8 |->
           [band |-> band, channels |-> part(i), last |-> part(i)[Len(part(i))] = LastChannel(caps)]]

RateTxPower(caps, lost) ==
    LET all == FlattenSeq([i \in 1 .. 3 |-> LET b == <<"2GHZ", "5GHZ", "6GHZ">>[i]
                                            IN IF b \in caps THEN BandMessages(b, caps) ELSE <<>>])
    IN Before(all, IF lost = {} THEN 0 ELSE CHOOSE i \in lost : \A j \in lost : i <= j)

TxPowerLevel(level) == IF level = 0 THEN 127 ELSE 2 * level

(* What a rate gets on a channel: regulatory, then SAR, then device tree.  *)
RateTable(dims, frp, chans, node, c, freq, level, chains) ==
    LET target == SarPower(frp, freq, ChPower(chans, c, TxPowerLevel(level)))
    IN RatePowerLimits(dims, node, target, chains)

-----------------------------------------------------------------------------
(* ACPI: four tables, of which those that are not in order are left out.   *)
(* Each is [there, len, ver, enable, ...]; the sizes are those of the      *)
(* structures of mt792x_acpi_sar.h.                                        *)
Readable(tbl) == tbl.there /\ tbl.len >= 4
ClVersion(cl) == IF Readable(cl) /\ cl.len \in {19, 26} THEN cl.ver ELSE 0
Entries(ver, tbl, pre, size) == IF tbl.len < pre THEN 0 ELSE (tbl.len - pre) \div size

AcpiSar(cl, dyn, geo, fg) ==
    LET ver == ClVersion(cl)
        n == IF ver = 1 THEN Entries(ver, dyn, 6, 6) ELSE Entries(ver, dyn, 7, 12)
        m == IF ver = 1 THEN Entries(ver, geo, 6, 5) ELSE Entries(ver, geo, 7, 7)
    IN [ver |-> ver, list |-> Readable(cl) /\ cl.len \in {19, 26},
        dyn |-> Readable(dyn) /\ ver \in {1, 2} /\ dyn.enable /\ n \in 1 .. 8,
        geo |-> Readable(geo) /\ ver \in {1, 2} /\ m \in 3 .. 8,
        fg |-> Readable(fg) /\ fg.len >= 8]

GeoPower(sar, geo, region, band, dyn) ==
    LET row == geo[CASE region = "FCC" -> 1 [] region = "ETSI" -> 2 [] OTHER -> 3]
        col == CASE band = "2GHZ" -> 1 [] band = "5GHZ" -> 2 [] band = "6GHZ" -> 3
    IN IF ~sar.geo \/ (sar.ver = 1 /\ col = 3) THEN dyn
       ELSE Smaller(S8(row[col].pwr), S8(dyn + row[col].offset))

RangePower(sar, tables, region, i) ==
    LET start == Ranges[i][1]
        band == IF start >= 5945 THEN "6GHZ" ELSE IF start >= 5150 THEN "5GHZ" ELSE "2GHZ"
    IN IF i > (IF sar.ver = 1 THEN 5 ELSE 11) THEN 127
       ELSE GeoPower(sar, tables.geo, region, band, S8(tables.dyn[i]))

(* mt792x_init_acpi_sar_power, within mt7921_set_tx_sar_pwr.               *)
AcpiPower(sar, tables, region, frp, default) ==
    IF ~sar.dyn THEN frp
    ELSE [i \in DOMAIN frp |->
             IF ~default /\ ~frp[i].on THEN frp[i]
             ELSE [on |-> TRUE, power |-> Smaller(IF default THEN 127 ELSE frp[i].power,
                                                  RangePower(sar, tables, region, i))]]

SetTxSarPwr(sar, tables, region, frp, specs) ==
    LET user == IF specs = <<>> THEN frp ELSE InitSar(frp, specs)
    IN AcpiPower(sar, tables, region, user, specs = <<>>)

AcpiFlags(has, sar, flags) ==
    IF ~has THEN {}
    ELSE {0} \union (IF sar.fg THEN (IF 1 \in flags THEN {1} ELSE {}) \union (IF 4 \in flags THEN {2} ELSE {})
                     ELSE {})

(* mt792x_acpi_get_mtcl_conf: two bits each of 6 GHz, 5.9 GHz and of BE,   *)
(* by the country or the entry that stands for it. kind places a country   *)
(* in the lists: "listed", one of the "EU", or "other". The lists of BE    *)
(* put the EU under the entry of the US.                                   *)
Listed(cl, field, cc, kind) == (CASE kind = "listed" -> cc [] kind = "EU" -> "EU" [] OTHER -> "00") \in cl[field]

MtclMap(cl, cc, kind) ==
    [six |-> IF Listed(cl, "cl6g", cc, kind) \/ cl.mode6g = 2 THEN (IF cl.mode6g > 2 THEN 0 ELSE cl.mode6g) ELSE 0,
     fiveNine |-> IF cl.ver > 1 /\ Listed(cl, "cl5g9", cc, kind) THEN (IF cl.mode5g9 > 1 THEN 0 ELSE cl.mode5g9) ELSE 0]

MtclMapBe(cl, cc, kind) ==
    LET entry == IF kind = "listed" THEN cc ELSE "US"
    IN IF cl.ver # 3 \/ kind = "other" THEN 2
       ELSE IF entry \in cl.clbe THEN IF cl.modeBe > 2 THEN 0 ELSE cl.modeBe ELSE 0

MtclConf(sar, cl, cc, kind, kindBe) ==
    IF ~sar.list THEN "invalid" ELSE [map |-> MtclMap(cl, cc, kind), be |-> MtclMapBe(cl, cc, kindBe)]

-----------------------------------------------------------------------------
(* The country's rules (CLC): found in the firmware, and sent for the      *)
(* country, or for "00" when there are none for it.                        *)
LoadClc(have, regions, room, encap) ==
    LET fits(i) == FoldLeft(LAMBDA n, r : n + r.len, 0, SubSeq(regions, 1, i)) <= room
        bad == First([i \in DOMAIN regions |-> i], LAMBDA i : ~fits(i))
        clc == First(regions, LAMBDA r : r.clc)
        Take(got, c) == IF c.idx \in DOMAIN got \/ (c.idx = 0 /\ c.encap # encap) THEN got
                        ELSE [i \in DOMAIN got \union {c.idx} |-> IF i = c.idx THEN c.rules ELSE got[i]]
    IN IF clc = 0 \/ (bad # 0 /\ bad <= clc) THEN have ELSE FoldLeft(Take, have, regions[clc].parts)

ClcCommands(rules, cc) == SelectSeq(rules, LAMBDA r : r.cc = cc)

SetClc(clc, cc) ==
    LET sent(i) == IF ClcCommands(clc[i], cc) # <<>> THEN ClcCommands(clc[i], cc) ELSE ClcCommands(clc[i], "00")
        Send(st, i) == IF st.failed \/ i \notin DOMAIN clc THEN st
                       ELSE [cmds |-> st.cmds \o sent(i), failed |-> sent(i) = <<>>]
    IN FoldLeft(Send, [cmds |-> <<>>, failed |-> FALSE], <<0, 1, 2>>)

(* mt7921_regd_set_6ghz_power_type: one interface decides, several do not. *)
PowerType(stations, is_add, ap) ==
    IF stations > 1 THEN "DEFAULT" ELSE IF ~is_add THEN "UNSET"
    ELSE IF ap \in {"SP", "VLP", "LPI", "UNSET"} THEN ap ELSE "DEFAULT"

(* mt7921_regd_channel_update: what of a band is disabled. np and bandNp:  *)
(* the device tree has limits, and limits for the band.                    *)
Unii == << <<5845, 5925>>, <<5925, 6425>>, <<6425, 6525>>, <<6525, 6875>>, <<6875, 7125>> >>
Disabled(c, np, bandNp, conf) ==
    \/ np # <<>> /\ (bandNp = <<>> \/ ChannelNode(bandNp, c.hw) = 0)
    \/ \E i \in DOMAIN Unii : /\ i = 1 <=> c.band = "5GHZ"
                              /\ i - 1 \notin conf /\ c.freq \in Unii[i][1] .. Unii[i][2]
RegdChannels(chans, np, bandNp, conf) ==
    [i \in DOMAIN chans |-> [chans[i] EXCEPT !.disabled = @ \/ Disabled(chans[i], np, bandNp, conf)]]
-----------------------------------------------------------------------------
(* What they must do, over small inputs.                                   *)
MT7921Dims == [cck |-> 4, ofdm |-> 8, mcs |-> 4, mcsWidth |-> 10, ru |-> 7, ruWidth |-> 12]
SmallDims == [cck |-> 2, ofdm |-> 2, mcs |-> 3, mcsWidth |-> 2, ru |-> 2, ruWidth |-> 2]
BandCaps == SUBSET {"2GHZ", "5GHZ", "6GHZ"} \ {{}}
Frequency(band, c) ==
    IF band = "2GHZ" /\ c = 14 THEN 2484
    ELSE (CASE band = "2GHZ" -> 2407 [] band = "5GHZ" -> 5000 [] band = "6GHZ" -> 5950) + 5 * c

(* The rows of a limit are run-length coded: each has the power of its     *)
(* group, those that are not there the target, and none more than that.    *)
ASSUME RunLengths ==
    \A a, b \in 0 .. 3, target \in {20, 40}, delta \in {-3, 0, 3} :
        LET rows == MultiArrayLimit(Same(3, Same(2, target)), <<a, 30, 31, b, 50, 10>>, target, delta)
            reps(n) == IF n = 0 THEN 1 ELSE n
        IN \A i \in 1 .. 3 :
             rows[i] = IF i <= reps(a) THEN <<Smaller(target, 30 + delta), Smaller(target, 31 + delta)>>
                       ELSE IF i <= reps(a) + reps(b) THEN <<Smaller(target, 50 + delta), Smaller(target, 10 + delta)>>
                       ELSE <<target, target>>

(* The table has a power for each of the firmware's 161 rates, none over   *)
(* the target, but for the rates the band does not have.                   *)
ASSUME SkuWithin ==
    \A target \in {-10, 0, 46}, is2g \in BOOLEAN :
        LET sku == BuildSku(Limits(MT7921Dims, target), is2g)
        IN Len(sku) = 161 /\ \A i \in DOMAIN sku : sku[i] \in {target, 127}

(* No rate is sent with more than the regulatory limit, the limit of the   *)
(* SAR range of its channel, or the power that user space asked for.       *)
ASSUME RateBounded ==
    \A c \in {36, 100, 165}, level \in {0, 10, 20}, reg \in {10, 23}, power \in {60, 100}, range \in 1 .. 5 :
        LET frp == InitSar(NoFrp, << [range |-> range, power |-> power] >>)
            freq == Frequency("5GHZ", c)
            node == [txsDelta |-> <<0, 3>>, cck |-> <<>>, ofdm |-> <<50, 20>>, mcs |-> <<3, 44, 12>>,
                     ru |-> <<>>, paths |-> <<>>]
            got == RateTable(SmallDims, frp, << [hw |-> c, disabled |-> FALSE, maxReg |-> reg] >>,
                             node, c, freq, level, 2)
        IN \A p \in Range(got.cck) \union Range(got.ofdm) \union Range(FlattenSeq(got.mcs)) :
             /\ p <= 2 * reg /\ (level > 0 => p <= 2 * level)
             /\ Ranges[range][1] <= freq /\ freq < Ranges[range][2] => p <= power \div 2

(* Every channel of every band is sent once, in messages of at most eight, *)
(* and the last message and no other says that it is the last; after a     *)
(* message that is lost none is sent.                                      *)
ASSUME TableSent ==
    \A caps \in BandCaps, lost \in {{}, {3}, {1, 5}} :
        LET msgs == RateTxPower(caps, lost)
            chans == {<<msgs[i].band, c>> : i \in DOMAIN msgs, c \in 1 .. 233}
            sent == UNION {{<<msgs[i].band, msgs[i].channels[j]>> : j \in DOMAIN msgs[i].channels} : i \in DOMAIN msgs}
        IN IF lost # {} THEN Len(msgs) = (IF 1 \in lost THEN 0 ELSE 2)
           ELSE /\ sent = {<<b, c>> \in chans : c \in Range(ChanList(b))}
                /\ FoldLeft(LAMBDA n, m : n + Len(m.channels), 0, msgs) = Cardinality(sent)
                /\ \A i \in DOMAIN msgs : Len(msgs[i].channels) \in 1 .. 8 /\ (msgs[i].last <=> i = Len(msgs))

(* Every channel that has a power has a SAR range, and only one; every     *)
(* 20 MHz channel of 6 GHz is in one part of the band the rules speak of,  *)
(* but for 185, which straddles two and needs both.                        *)
ASSUME RangesPartition ==
    \A band \in {"2GHZ", "5GHZ", "6GHZ"} : \A c \in Range(ChanList(band)) :
        LET freq == Frequency(band, c)
            parts == {j \in 2 .. 5 : freq \in Unii[j][1] .. Unii[j][2]}
        IN /\ Cardinality({j \in DOMAIN Ranges : Ranges[j][1] <= freq /\ freq < Ranges[j][2]}) = 1
           /\ band = "6GHZ" /\ c % 4 = 1 => Cardinality(parts) = IF c = 185 THEN 2 ELSE 1

(* With ACPI's tables no SAR limit is above them, whatever user space set  *)
(* before or sets now.                                                     *)
AcpiTables == [dyn |-> <<40, 30, 30, 30, 30, 20, 20, 20, 20, 20, 20>>,
               geo |-> [i \in 1 .. 3 |-> << [pwr |-> 40 + i, offset |-> 0], [pwr |-> 30, offset |-> i],
                                            [pwr |-> 127, offset |-> -i] >>]]
ASSUME AcpiHolds ==
    \A ver \in {1, 2}, region \in {"FCC", "ETSI", "JP"}, range \in DOMAIN Ranges, old, new \in {20, 90} :
        LET sar == [ver |-> ver, list |-> TRUE, dyn |-> TRUE, geo |-> TRUE, fg |-> FALSE]
            start == SetTxSarPwr(sar, AcpiTables, region, NoFrp, <<>>)
            user(frp, p) == SetTxSarPwr(sar, AcpiTables, region, frp, << [range |-> range, power |-> 2 * p] >>)
            after == user(user(start, old), new)
        IN \A i \in DOMAIN Ranges : /\ after[i].on
                                    /\ after[i].power <= RangePower(sar, AcpiTables, region, i)
                                    /\ i = range => after[i].power <= new

(* The flags and lists of a table that could not be read are not used.     *)
ASSUME AcpiTablesChecked ==
    \A ver \in 1 .. 3, len \in {3, 18, 19, 26}, entries \in 0 .. 9, enable \in BOOLEAN :
        LET tbl(v, n) == [there |-> TRUE, len |-> n, ver |-> v, enable |-> enable]
            size(v) == IF v = 1 THEN 6 + 6 * entries ELSE 7 + 12 * entries
            sar == AcpiSar(tbl(ver, len), tbl(ver, size(ver)), tbl(ver, 5), tbl(ver, 8))
        IN /\ sar.dyn <=> len \in {19, 26} /\ ver < 3 /\ enable /\ entries \in 1 .. 8
           /\ ~sar.geo /\ sar.fg /\ (sar.list <=> len \in {19, 26})

(* A country without rules of its own gets those of "00", table by table.  *)
ASSUME ClcDefault ==
    LET rules(ccs) == [i \in DOMAIN ccs |-> [cc |-> ccs[i]]]
        part(idx, ccs) == [idx |-> idx, encap |-> 0, rules |-> rules(ccs)]
        have == LoadClc(<<>>, << [len |-> 5, clc |-> FALSE], [len |-> 5, clc |-> TRUE,
                    parts |-> <<part(0, <<"US", "00">>), part(1, <<"00">>), part(1, <<"US">>)>>] >>, 10, 0)
        got == SetClc([i \in DOMAIN have \ {0} |-> have[i]], "US")
        both == SetClc([i \in {0, 1} |-> IF i = 0 THEN rules(<<"US", "00">>) ELSE have[1]], "US")
    IN /\ got.cmds = rules(<<"00">>) /\ ~got.failed
       /\ both.cmds = rules(<<"US", "00">>) /\ ~both.failed
       /\ SetClc([i \in {0} |-> rules(<<"US">>)], "DE").failed

(* Regulatory updates only ever disable channels, and with no device tree  *)
(* and all parts of the bands allowed they disable none.                   *)
ASSUME RegdOnlyDisables ==
    LET chans == << [hw |-> 36, freq |-> 5180, band |-> "5GHZ", disabled |-> FALSE],
                    [hw |-> 173, freq |-> 5865, band |-> "5GHZ", disabled |-> TRUE],
                    [hw |-> 1, freq |-> 5955, band |-> "6GHZ", disabled |-> FALSE] >>
    IN /\ RegdChannels(chans, <<>>, <<>>, 0 .. 7) = chans
       /\ \A conf \in SUBSET (0 .. 4) : \A i \in DOMAIN chans :
             chans[i].disabled => RegdChannels(chans, <<>>, <<>>, conf)[i].disabled
=============================================================================
