---------------------------- MODULE RingDelivery ----------------------------
(***************************************************************************)
(* What the push sender promises about one ring event, whatever the number *)
(* of Lambda executions that work on it: at most one execution at a time   *)
(* delivers the ring to phones, delivering may be given up and begun again *)
(* by another execution, and once the ring is marked delivered nothing is  *)
(* delivered any more.  PushDelivery implements this specification with a  *)
(* lease kept in a DynamoDB item.                                          *)
(***************************************************************************)
CONSTANT Delivery        \* the asynchronous invocations for the ring event

VARIABLES delivering,    \* the executions that may be talking to FCM
          done           \* the event has been marked delivered

abstractVars == <<delivering, done>>

Init == /\ delivering = {}
        /\ done = FALSE

Begin(d) == /\ delivering = {}
            /\ ~done
            /\ delivering' = {d}
            /\ UNCHANGED done

GiveUp(d) == /\ d \in delivering
             /\ delivering' = delivering \ {d}
             /\ UNCHANGED done

Finish(d) == /\ delivering \subseteq {d}
             /\ delivering' = {}
             /\ done' = TRUE

Next == \E d \in Delivery : Begin(d) \/ GiveUp(d) \/ Finish(d)

Spec == Init /\ [][Next]_abstractVars
=============================================================================
