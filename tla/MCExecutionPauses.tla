------------------------- MODULE MCExecutionPauses -------------------------
(***************************************************************************)
(* Instances of the paused runner for model checking: no station orders,   *)
(* no workflow orders.                                                     *)
(***************************************************************************)
EXTENDS ExecutionPauses

NoOrder == <<>>
NoWorkflow == [m \in Mission |-> None]
=============================================================================
