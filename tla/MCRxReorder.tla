---------------------------- MODULE MCRxReorder ------------------------------
(***************************************************************************)
(* Instance of RxReorder for TLC, of which a behaviour has one of two      *)
(* scenes: one session at a time and any frame, or sessions that replace   *)
(* each other, some starting numbers and frames on both sides of the wrap, *)
(* three of them where liveness is checked.                                *)
(***************************************************************************)
EXTENDS RxReorder, TLC

Symmetry == Permutations(Tids)

VARIABLE scene
InScene ==
    \/ scene = "one" /\ Cardinality({t \in Tids : tid'[t] # Freed}) <= 1
    \/ /\ scene \in {"many", "live"}
       /\ napi'.pc = "lock" =>
              napi'.skb.sn \in {0, 2, 5} \cup (IF scene = "many" THEN {1} ELSE {})
       /\ aggr' \notin {aggr, NoTid} => tid'[aggr'].head \in {0, SN - 1}
SceneInit == Init /\ scene \in {"one", "many"}
SceneNext == Next /\ UNCHANGED scene /\ InScene
SceneSpec == SceneInit /\ [][SceneNext]_<<vars, scene>>
LiveInit == Init /\ scene = "live"
LiveSpec == LiveInit /\ [][SceneNext]_<<vars, scene>> /\ Fairness
=============================================================================
