------------------------------ MODULE EventCalls ------------------------------
(***************************************************************************)
(* What an adapter knows of the event pipeline: it calls the handler for   *)
(* an event and sooner or later gets an answer, which may be an error.     *)
(* EventPipeline implements this, TriggerGateway relies on it.             *)
(***************************************************************************)
CONSTANT Handlers   \* calls that may be under way at a time

VARIABLE call       \* the state of each

CallStates == {"idle", "busy", "answered"}

CallsInit == call = [h \in Handlers |-> "idle"]

\* An event without a tenant fails at once.
Begin(h) ==
    /\ call[h] = "idle"
    /\ \E s \in {"busy", "answered"} : call' = [call EXCEPT ![h] = s]

Answer(h) ==
    /\ call[h] = "busy"
    /\ call' = [call EXCEPT ![h] = "answered"]

Collect(h) ==
    /\ call[h] = "answered"
    /\ call' = [call EXCEPT ![h] = "idle"]

\* The process ends.
Abandon == call' = [h \in Handlers |-> "idle"]

CallsNext == Abandon \/ \E h \in Handlers : Begin(h) \/ Answer(h) \/ Collect(h)

EveryCallIsAnswered == \A h \in Handlers : WF_call(Answer(h))

CallsSpec == CallsInit /\ [][CallsNext]_call /\ EveryCallIsAnswered
===============================================================================
