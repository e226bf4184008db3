----------------------------- MODULE MCTxSched -----------------------------
(***************************************************************************)
(* Instances of TxSched for TLC: w1 gets frames of every kind, w2 pending  *)
(* ones; a behaviour of SceneSpec has at most Together frames, resets and  *)
(* channel changes.                                                        *)
(***************************************************************************)
EXTENDS TxSched
CONSTANTS w1, w2, Together
AllKinds == {w1} \X Kinds
TwoStations == AllKinds \cup {<<w2, "pend">>}

SceneNext == Next /\ ctl'.sends + ctl'.resets + ctl'.chans <= Together
SceneSpec == Init /\ [][SceneNext]_vars /\ Fairness
=============================================================================
