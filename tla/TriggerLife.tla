----------------------------- MODULE TriggerLife -----------------------------
(***************************************************************************)
(* A trigger as the trigger gateway sees it: is there one, is it Active,   *)
(* and what does its spec say.  The trigger reconciler implements this     *)
(* (TriggerController), the gateway relies on it (TriggerGateway).         *)
(***************************************************************************)
CONSTANT Specs      \* the specs users write

AdapterTypes == {"telegram", "webhook", "cron"}

\* "slack" is a valid type for which the gateway has no adapter.
ASSUME SpecsAssumption == Specs \subseteq AdapterTypes \cup {"slack", "invalid"}

\* validateTriggerSpec
Valid(spec) == spec # "invalid"

VARIABLE offered    \* the trigger's spec, or "none", and whether it is Active

Offers == [spec: Specs \cup {"none"}, active: BOOLEAN]
Nothing == [spec |-> "none", active |-> FALSE]

LifeInit == offered = Nothing

\* A user creates the trigger, or edits it, which leaves its phase as it is.
Write(spec) == offered' = [offered EXCEPT !.spec = spec]

Approve ==
    /\ offered.spec # "none"
    /\ Valid(offered.spec)
    /\ offered' = [offered EXCEPT !.active = TRUE]

Reject ==
    /\ offered.spec # "none"
    /\ offered' = [offered EXCEPT !.active = FALSE]

Remove == offered' = Nothing

LifeNext == Approve \/ Reject \/ Remove \/ \E spec \in Specs : Write(spec)

LifeSpec == LifeInit /\ [][LifeNext]_offered
=============================================================================
