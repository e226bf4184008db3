---------------------------- MODULE MCBluetooth ----------------------------
(***************************************************************************)
(* Instance of BtMtk, of which a behaviour has one of three scenes: frames *)
(* to send, SCO links, or a firmware that hangs; the last two after a      *)
(* setup during which nothing fails and nobody suspends the device.        *)
(***************************************************************************)
EXTENDS BtMtk

SomeLoads == {[sco |-> 2, tx |-> 0, hangs |-> FALSE], [sco |-> 0, tx |-> 1, hangs |-> FALSE],
               [sco |-> 0, tx |-> 0, hangs |-> TRUE]}
Undisturbed == faults' = 0 /\ pm'.op = "none"
SceneNext == MtkNext /\ (load.tx = 0 /\ hci' = "setup" => Undisturbed)
SceneSpec == MtkInit /\ [][SceneNext]_allvars
=============================================================================
