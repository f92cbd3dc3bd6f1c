------------------------------ MODULE MCTriggers ------------------------------
(* One update the adapter asks for and one it does not. *)
EXTENDS TriggerGateway

WantedAndOther == <<"wanted", "other">>
===============================================================================
