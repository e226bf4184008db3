--------------------------- MODULE MCPowerMgmt -------------------------------
(***************************************************************************)
(* Instances of PowerMgmt for TLC.  Next to mac_work and dev->wq, Company  *)
(* of the other threads take part in a behaviour, the tx worker and a      *)
(* mutex user never both; the rest stay away, which Fairness allows them.  *)
(* Time passes only when ps_work is about to look at it: nobody else does, *)
(* so nothing is lost.                                                     *)
(***************************************************************************)
EXTENDS PowerMgmt

CONSTANTS
    Company,     \* bound: threads that meet
    Doing        \* bound: what users do in their sections, a set of Tasks

VARIABLE present

SceneInit ==
    /\ Init
    /\ present \in {S \in SUBSET (Clients \cup (Users \ {Mac})) :
          Cardinality(S) = Company /\ (S \cap TxPolls = {} \/ S \cap Users = {})}
SceneNext ==
    /\ Next /\ UNCHANGED present
    /\ \A c \in Clients \ present : client'[c] = "idle"
    /\ \A u \in Users \ (present \cup {Mac}) : user'[u].pc = "idle"
    /\ \A u \in Users : user'[u].task \in Doing
    /\ idle' /\ ~idle => wq = "ps_idle"
SceneSpec == SceneInit /\ [][SceneNext]_<<vars, present>>
LiveSpec == SceneSpec /\ Fairness
=============================================================================
