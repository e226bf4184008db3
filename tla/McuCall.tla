-------------------------------- MODULE McuCall --------------------------------
(***************************************************************************)
(* What a caller of mt76_mcu_send_and_get_msg is promised: its command is  *)
(* sent when no other is in flight, and a call that waits returns without  *)
(* an error only after the firmware served that very command.  A call may  *)
(* fail at any time, also after the firmware served it.                    *)
(***************************************************************************)
CONSTANT Senders

VARIABLES
    stage,     \* per sender: "idle", "called", "sent" or "served"
    waits,     \* per sender: its call waits for an answer
    result     \* per sender: how its last call ended

vars == <<stage, waits, result>>

Init == /\ stage = [s \in Senders |-> "idle"]
        /\ waits = [s \in Senders |-> FALSE]
        /\ result = [s \in Senders |-> "none"]

InFlight(s) == stage[s] \in {"sent", "served"}

Goto(s, to) == stage' = [stage EXCEPT ![s] = to]

Call(s) == /\ stage[s] = "idle" /\ Goto(s, "called")
           /\ \E w \in BOOLEAN : waits' = [waits EXCEPT ![s] = w]
           /\ result' = [result EXCEPT ![s] = "none"]

Send(s) == /\ stage[s] = "called" /\ Goto(s, "sent")
           /\ \A o \in Senders : ~InFlight(o)
           /\ UNCHANGED <<waits, result>>

Serve(s) == stage[s] = "sent" /\ Goto(s, "served") /\ UNCHANGED <<waits, result>>

End(s, how) == /\ Goto(s, "idle")
               /\ waits' = [waits EXCEPT ![s] = FALSE]
               /\ result' = [result EXCEPT ![s] = how]

Return(s) == InFlight(s) /\ (waits[s] => stage[s] = "served") /\ End(s, "ok")

Fail(s) == stage[s] # "idle" /\ End(s, "failed")

Next == \E s \in Senders : Call(s) \/ Send(s) \/ Serve(s) \/ Return(s) \/ Fail(s)

Spec == Init /\ [][Next]_vars
=============================================================================
