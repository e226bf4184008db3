------------------------------ MODULE FwTables ------------------------------
(***************************************************************************)
(* What the firmware has been told of interfaces and stations, over the    *)
(* life of the device: mt7921_add_interface, mt792x_remove_interface,      *)
(* start_ap, stop_ap, sta_add, sta_event, sta_remove, set_key and          *)
(* ampdu_action of src/src/mt76/mt7921/main.c, and mt7921_vif_connect_iter *)
(* of mt7921/mac.c, which tells it again after a chip reset, without the   *)
(* device mutex.                                                           *)
(*                                                                         *)
(* An operation is a list of commands, sent one by one with the mutex; a   *)
(* command that is not answered asks for a reset, one that is refused or   *)
(* not sent does not, and either ends a strict operation. The tables of    *)
(* the firmware are outside the driver: they hold what its commands say.   *)
(*                                                                         *)
(* Names with an underscore are the same step with a bug, for checking     *)
(* that the properties notice.                                             *)
(***************************************************************************)
EXTENDS OffChannel, Sequences

CONSTANTS
    Aps, Stas,  \* interfaces that are access points, and stations
    Peers,      \* stations of mac80211: clients, or the access point of a station
    Records     \* entries of the station table that peers may have

Vifs == Aps \union Stas
Indices == 0 .. Cardinality(Vifs) - 1
NoVif == "none"
ASSUME TablesAssumption == /\ Records \in Nat \ {0} /\ IsFiniteSet(Vifs)
                           /\ NoVif \notin Vifs /\ Aps \intersect Stas = {}

VARIABLES
    drv,    \* the driver's view: vif_mask by interface, started access points, stations
    op,     \* the mac80211 operation under way
    iter,   \* mt7921_vif_connect_iter: interfaces left, and the commands for one;
            \* history: whether a removal or a suspend crossed it, and what
            \* the firmware was not told since, see TablesRestored
    fw      \* the firmware's tables

tabvars == <<drv, op, iter, fw>>

Gone == -1                                          \* neither index nor entry
NoPeer == [st |-> "off", wcid |-> Gone, vif |-> NoVif]
NoOp == [name |-> "none", who |-> NoVif, at |-> Gone, vif |-> NoVif, todo |-> <<>>]
NoRecord == [on |-> FALSE, keys |-> {}, ba |-> {}]
NoTables == [dev |-> [i \in Indices |-> NoVif], bss |-> [i \in Indices |-> {}],
             rec |-> [w \in 1 .. Records |-> NoRecord]]

IterIdle == [left |-> {}, todo |-> <<>>, crossed |-> FALSE, refused |-> {}]

TabInit ==
    /\ OffInit /\ op = NoOp /\ iter = IterIdle /\ fw = NoTables
    /\ drv = [idx |-> [v \in Vifs |-> Gone], started |-> {}, beacon |-> {}, mask |-> {},
              peer |-> [p \in Peers |-> NoPeer]]

Added == {v \in Vifs : drv.idx[v] # Gone}
Active(v) == v \in Added /\ ~(op.name = "remove" /\ op.who = v)
Least(S) == CHOOSE n \in S : \A m \in S : n <= m
Present(p) == drv.peer[p].st # "off"

-----------------------------------------------------------------------------
(* A command: what it is about, the entry, whose it is, on or off. An      *)
(* update of a station resets its entry and sets it anew; keys and         *)
(* sessions go into an entry that is there.                                *)
Cmd(what, at, who, on) == [what |-> what, at |-> at, who |-> who, on |-> on]

Member(set, c) == IF c.on THEN set \union {c.who} ELSE set \ {c.who}

Reset_KeepKeys(r, on) == [r EXCEPT !.on = on]
Reset(r, on) == [NoRecord EXCEPT !.on = on]

Told(c) ==
    CASE c.what = "dev" /\ c.on -> [fw EXCEPT !.dev[c.at] = c.who]
      [] c.what = "dev" /\ ~c.on -> [fw EXCEPT !.dev[c.at] = NoVif, !.bss[c.at] = {}]
      [] c.what \in {"bss", "own", "beacon"} ->
            [fw EXCEPT !.bss[c.at] = IF c.on THEN @ \union {c.what} ELSE {}]
      [] c.what = "rec" -> [fw EXCEPT !.rec[c.at] = Reset(@, c.on)]
      [] c.what = "key" /\ fw.rec[c.at].on -> [fw EXCEPT !.rec[c.at].keys = Member(@, c)]
      [] c.what = "ba" /\ fw.rec[c.at].on -> [fw EXCEPT !.rec[c.at].ba = Member(@, c)]
      [] OTHER -> fw

(* What may come of a command. One of no answer asks for a reset. One that *)
(* the firmware refuses has a positive status, and one that there is no    *)
(* memory for, or no beacon that fits, is not sent: an error, and that is  *)
(* all. set_bss_pm awaits no answer.                                       *)
Awaits(c) == c.what # "pm"
Understood(c) == Awaits(c) /\ Answered /\ chip.running /\ fw' = Told(c) /\ UNCHANGED work
Posted(c) == ~Awaits(c) /\ UNCHANGED <<faults, work, fw>>
Ignored(c) == Awaits(c) /\ (Unanswered \/ (Alive /\ ~chip.running /\ UNCHANGED faults)) /\ AskReset
              /\ fw' \in {fw} \union (IF chip.running /\ Delivered THEN {Told(c)} ELSE {})
Refused(c) == Fault /\ UNCHANGED <<work, fw>>

(* What the firmware does not know of interfaces after that.               *)
TableEntry(c) == <<c.what, c.at>>
VifEntries == {"dev", "bss", "own", "beacon"} \X Indices
Learned(c) == iter.refused \ {TableEntry(c)}
Missed(c) == iter.refused \union ({TableEntry(c)} \intersect VifEntries)

OnlyTables == UNCHANGED <<chip, path, load, scene, pm, suspended, regd, full, init, done, report,
                          removal, seen, offvars>>

-----------------------------------------------------------------------------
(* The operations of mac80211, one at a time.                              *)
Begin(name, who, at, vif, todo) ==
    /\ "tables" \in scene.ops /\ Calm /\ mutex = "free" /\ op = NoOp
    /\ op' = [name |-> name, who |-> who, at |-> at, vif |-> vif, todo |-> todo] /\ mutex' = "mac"
    /\ iter' = [iter EXCEPT !.crossed = @ \/ (name = "remove" /\ iter.todo # <<>> /\ Head(iter.todo).who = who)]
    /\ UNCHANGED <<faults, work, fw>> /\ OnlyTables

AddInterface(v) ==
    LET i == Least(Indices \ {drv.idx[u] : u \in Vifs})
    IN /\ drv.idx[v] = Gone /\ Begin("add", v, i, v, <<Cmd("dev", i, v, TRUE)>>) /\ UNCHANGED drv

RemoveInterface(v) ==
    /\ v \in Added \ drv.started /\ \A p \in Peers : drv.peer[p].vif # v
    /\ Begin("remove", v, drv.idx[v], v, <<Cmd("dev", drv.idx[v], v, FALSE)>>) /\ UNCHANGED drv

StartAp(v) ==
    /\ v \in (Aps \intersect Added) \ drv.started
    /\ Begin("start", v, drv.idx[v], v, <<Cmd("bss", drv.idx[v], v, TRUE), Cmd("pm", drv.idx[v], v, TRUE),
                                        Cmd("own", drv.idx[v], v, TRUE)>>)
    /\ UNCHANGED drv

(* bss_info_changed of an access point that is started: its beacon is      *)
(* switched on, or is another.                                             *)
EnableBeacon(v) ==
    /\ v \in drv.started
    /\ Begin("beacon", v, drv.idx[v], v, <<Cmd("beacon", drv.idx[v], v, TRUE)>>)
    /\ drv' = [drv EXCEPT !.beacon = @ \union {v}]

StopAp(v) ==
    /\ v \in drv.started /\ \A p \in Peers : drv.peer[p].vif # v
    /\ Begin("stop", v, drv.idx[v], v, <<Cmd("pm", drv.idx[v], v, FALSE), Cmd("bss", drv.idx[v], v, FALSE)>>)
    /\ drv' = [drv EXCEPT !.started = @ \ {v}, !.beacon = @ \ {v}]

(* mt76_wcid_alloc takes the first free entry before the firmware is asked.*)
StaAdd(p, v) ==
    LET w == Least(1 .. Records \ drv.mask)
    IN /\ ~Present(p) /\ v \in drv.started \union (Stas \intersect Added) /\ 1 .. Records \ drv.mask # {}
       /\ v \in Stas => \A q \in Peers : drv.peer[q].vif # v
       /\ Begin("sta add", p, w, v, <<Cmd("rec", w, p, TRUE)>>)
       /\ drv' = [drv EXCEPT !.mask = @ \union {w}]

Bss(v, on) == IF v \in Stas THEN <<Cmd("bss", drv.idx[v], v, on)>> ELSE <<>>

StaAssoc(p) ==
    LET me == drv.peer[p]
    IN /\ me.st = "none"
       /\ Begin("assoc", p, me.wcid, me.vif, Bss(me.vif, TRUE) \o <<Cmd("rec", me.wcid, p, TRUE)>>)
       /\ drv' = [drv EXCEPT !.peer[p].st = "assoc"]

StaRemove(p) ==
    LET me == drv.peer[p]
    IN /\ Present(p) /\ UNCHANGED drv
       /\ Begin("sta remove", p, me.wcid, me.vif, <<Cmd("rec", me.wcid, p, FALSE)>> \o Bss(me.vif, FALSE))

(* Of a key that is deleted only a station that is not associated tells.   *)
SetKey(p, set) ==
    /\ drv.peer[p].st = "assoc" /\ (set \/ drv.peer[p].vif \in Stas) /\ UNCHANGED drv
    /\ Begin("key", p, drv.peer[p].wcid, drv.peer[p].vif, <<Cmd("key", drv.peer[p].wcid, p, set)>>)

Ampdu(p, start) ==
    /\ drv.peer[p].st = "assoc" /\ UNCHANGED drv
    /\ Begin("ampdu", p, drv.peer[p].wcid, drv.peer[p].vif, <<Cmd("ba", drv.peer[p].wcid, p, start)>>)

Strict == {"add", "start", "stop", "sta add", "key"}
Passes == op' = [op EXCEPT !.todo = Tail(@)]
Fails == op' = IF op.name \in Strict THEN [NoOp EXCEPT !.name = "failed"] ELSE [op EXCEPT !.todo = Tail(@)]

Command ==
    /\ op.todo # <<>> /\ UNCHANGED <<mutex, drv>> /\ OnlyTables
    /\ LET c == Head(op.todo)
       IN \/ (Understood(c) \/ Posted(c)) /\ Passes /\ iter' = [iter EXCEPT !.refused = Learned(c)]
          \/ Refused(c) /\ Fails /\ iter' = [iter EXCEPT !.refused = Missed(c)]
          \/ Ignored(c) /\ Fails /\ UNCHANGED iter

(* What the driver remembers of it. An entry that was taken for a station  *)
(* that could not be added stays taken.                                    *)
Remembered ==
    CASE op.name = "add" -> [drv EXCEPT !.idx[op.who] = op.at]
      [] op.name = "remove" -> [drv EXCEPT !.idx[op.who] = Gone]
      [] op.name = "start" -> [drv EXCEPT !.started = @ \union {op.who}]
      [] op.name = "sta add" -> [drv EXCEPT !.peer[op.who] = [st |-> "none", wcid |-> op.at, vif |-> op.vif]]
      [] op.name = "sta remove" -> [drv EXCEPT !.peer[op.who] = NoPeer, !.mask = @ \ {op.at}]
      [] OTHER -> drv

Return ==
    /\ op # NoOp /\ op.todo = <<>> /\ op' = NoOp /\ mutex' = "free" /\ drv' = Remembered
    /\ UNCHANGED <<faults, work, iter, fw>> /\ OnlyTables

Operation == \/ \E v \in Vifs : AddInterface(v) \/ RemoveInterface(v) \/ StartAp(v) \/ EnableBeacon(v) \/ StopAp(v)
             \/ \E p \in Peers : \/ \E v \in Vifs : StaAdd(p, v)
                                 \/ StaAssoc(p) \/ StaRemove(p)
                                 \/ \E on \in BOOLEAN : SetKey(p, on) \/ Ampdu(p, on)
             \/ Command \/ Return

-----------------------------------------------------------------------------
(* mt7921_vif_connect_iter, interface by interface and command by command; *)
(* mac80211 disconnects the stations, whose peers it removes as usual.     *)
(* Of an access point whose beacon is not on there is no template to send. *)
Reconnect(v) ==
    LET i == drv.idx[v]
    IN <<Cmd("dev", i, v, TRUE)>> \o
       (IF v \in Aps THEN <<Cmd("bss", i, v, TRUE), Cmd("own", i, v, TRUE)>> ELSE <<>>) \o
       (IF v \in drv.beacon THEN <<Cmd("beacon", i, v, TRUE)>> ELSE <<>>)

IterNext ==
    /\ work.at = "ifaces" /\ iter.todo = <<>>
    /\ \E v \in iter.left : iter' = [iter EXCEPT !.left = @ \ {v}, !.todo = IF Active(v) THEN Reconnect(v) ELSE <<>>]
    /\ UNCHANGED <<faults, work, mutex, drv, op, fw>> /\ OnlyTables

IterCommand ==
    /\ iter.todo # <<>> /\ UNCHANGED <<mutex, drv, op>> /\ OnlyTables
    /\ LET c == Head(iter.todo)
           rest == Tail(iter.todo)
       IN \/ Understood(c) /\ iter' = [iter EXCEPT !.todo = rest, !.refused = Learned(c)]
          \/ Refused(c) /\ iter' = [iter EXCEPT !.todo = rest, !.refused = Missed(c)]
          \/ Ignored(c) /\ iter' = [iter EXCEPT !.todo = rest, !.crossed = @ \/ suspended]

IterStart_Nobody == IterIdle
IterStart == [IterIdle EXCEPT !.left = {v \in Vifs : Active(v)}]

(* What the life of the device does: a firmware that stops forgets, and    *)
(* the reset's last step is the iteration.                                 *)
TabAlong ==
    /\ Quiesce => op = NoOp
    /\ work.at = "ifaces" /\ work'.at # "ifaces" => iter.left = {} /\ iter.todo = <<>>
    /\ fw' = IF Forgets THEN NoTables ELSE fw
    /\ iter' = IF work.at = "clear" /\ work'.at = "ifaces" THEN IterStart ELSE iter
    /\ UNCHANGED <<drv, op>>

TabNext == \/ OffNext /\ TabAlong
           \/ Operation \/ IterNext \/ IterCommand

TabSpec == TabInit /\ [][TabNext]_<<vars, offvars, tabvars>>

-----------------------------------------------------------------------------
(* Types of the tables on both sides.                                      *)
TabTypeOK ==
    /\ OffTypeOK /\ LifeTypeOK
    /\ drv.idx \in [Vifs -> Indices \union {Gone}] /\ drv.mask \subseteq 1 .. Records
    /\ drv.started \subseteq Aps /\ drv.beacon \subseteq drv.started
    /\ drv.peer \in [Peers -> [st : {"off", "none", "assoc"}, wcid : {Gone} \union 1 .. Records,
                               vif : Vifs \union {NoVif}]]
    /\ iter.left \subseteq Vifs /\ iter.crossed \in BOOLEAN /\ iter.refused \subseteq VifEntries
    /\ fw.dev \in [Indices -> Vifs \union {NoVif}]
    /\ fw.bss \in [Indices -> SUBSET {"bss", "own", "beacon"}]
    /\ fw.rec \in [1 .. Records -> [on : BOOLEAN, keys : SUBSET Peers, ba : SUBSET Peers]]

(* Once no reset is due or under way the firmware knows every interface    *)
(* that the driver has, under the index the driver uses, and of every      *)
(* access point that is started the BSS, its own entry and, when it was    *)
(* switched on, the beacon: whatever commands and resets went wrong before.*)
(* The exceptions: what it was told last in vain, by a command that was    *)
(* refused or not sent, which neither bss_info_changed nor the iteration   *)
(* takes notice of: that entry alone may be missing; an interface that is  *)
(* removed while the iteration is at it may be told the firmware again,    *)
(* under an index that is free for the next one; and an iteration that     *)
(* loses a command when suspend has set its flag asks for no reset, so     *)
(* that the interface stays unknown (mt7921_vif_connect_iter,              *)
(* mt7921_mcu_uni_add_beacon_offload, mt792x_reset, mt7921_start_ap).      *)
KnownVif(v) == fw.dev[drv.idx[v]] = v \/ <<"dev", drv.idx[v]>> \in iter.refused
KnownBss(v, what) == what \in fw.bss[drv.idx[v]] \/ <<what, drv.idx[v]>> \in iter.refused

TablesRestored ==
    (/\ removal \in {"no", "init", "unregister"} /\ ~iter.crossed
     /\ ~work.queued /\ work.at = "idle" /\ op = NoOp) =>
        \A v \in Added : /\ KnownVif(v)
                         /\ v \in drv.started => KnownBss(v, "bss") /\ KnownBss(v, "own")
                         /\ v \in drv.beacon => KnownBss(v, "beacon")

(* No key and no block ack session of a station that has gone is left in   *)
(* the entry of the one that has its number now, though the firmware is    *)
(* seldom told that a key is deleted (mt7921_set_key,                      *)
(* mt76_connac_mcu_sta_cmd).                                               *)
EntriesFresh ==
    \A p \in Peers : Present(p) => LET r == fw.rec[drv.peer[p].wcid] IN r.keys \union r.ba \subseteq {p}

(* The numbers by which driver and firmware call stations and interfaces   *)
(* mean the same to both, whatever order operations, lost commands, resets *)
(* and suspends come in (mt7921_mac_sta_add, mt7921_mac_sta_remove).       *)
NumbersMeet == TabTypeOK /\ EntriesFresh
=============================================================================
