------------------------------ MODULE MCDriver ------------------------------
(***************************************************************************)
(* Instance of FwTables, of which a behaviour has one of seven scenes: a   *)
(* device that boots; one that sleeps, or is removed, while the chip fails *)
(* to wake; one that listens on another channel, or scans; one that serves *)
(* stations after one thing has gone wrong, at most two interfaces and     *)
(* stations at a time; and one with one interface that is suspended once.  *)
(* It also evaluates what is assumed of the pure modules.                  *)
(***************************************************************************)
EXTENDS FwTables, ConnacMcu, TxPower, TxDesc, TLC
Up == [up |-> TRUE, doze |-> FALSE, regd |-> FALSE, suspend |-> TRUE, remove |-> FALSE, spent |-> 0, ops |-> {}]
Boot == [Up EXCEPT !.up = FALSE, !.remove = TRUE]
Sleep == [Up EXCEPT !.doze = TRUE, !.regd = TRUE]
Leave == [Up EXCEPT !.doze = TRUE, !.regd = TRUE, !.suspend = FALSE, !.remove = TRUE]
Away == [Up EXCEPT !.spent = 1, !.ops = {"roc"}]
Search == [Up EXCEPT !.spent = 1, !.ops = {"scan"}]
Serve == [Up EXCEPT !.suspend = FALSE, !.spent = 1, !.ops = {"tables"}]
Nap == [Up EXCEPT !.ops = {"tables"}]
SomeScenes == {Boot, Sleep, Leave, Away, Search, Serve, Nap}
Symmetry == Permutations(Peers)
Served == Cardinality(Added') + Cardinality({p \in Peers : Present(p)'})
Few == IF scene = Nap THEN Served <= 1 /\ seen'.suspends <= 1 ELSE Served <= 2
SceneSpec == TabInit /\ [][TabNext /\ Few]_<<vars, offvars, tabvars>>
=============================================================================
