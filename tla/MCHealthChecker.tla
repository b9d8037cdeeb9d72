-------------------------- MODULE MCHealthChecker ---------------------------
(* Instances of HealthChecker for TLC. *)
EXTENDS HealthChecker

(* A service with a test and a restart policy, as compose writes it. *)
Policy == [scope |-> TRUE, enabled |-> TRUE, test |-> "CMD", restart |-> TRUE,
           startPeriod |-> FALSE, interval |-> 1, retries |-> 1]
Plain == [Policy EXCEPT !.restart = FALSE]
Patient == [Policy EXCEPT !.startPeriod = TRUE, !.retries = 2]
OptedOut == [Policy EXCEPT !.enabled = FALSE]
OutOfScope == [Policy EXCEPT !.scope = FALSE]

JustPolicy == {Policy}
AllConfigs == {Policy, Plain, Patient, OptedOut, OutOfScope}

(* How the daemon may find an instance: running, put down on purpose, or   *)
(* not created yet.                                                        *)
Up == [power |-> "running", raw |-> Policy, intent |-> FALSE]
Frozen == [Up EXCEPT !.power = "frozen", !.intent = TRUE]
Down == [Up EXCEPT !.power = "stopped", !.intent = TRUE]
Missing == [Up EXCEPT !.power = "absent"]

JustUp == {Up}
AsIntended == {Up, Frozen, Down, Missing}
=============================================================================
