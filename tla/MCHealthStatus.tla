--------------------------- MODULE MCHealthStatus ---------------------------
(* An instance of HealthStatus for TLC. *)
EXTENDS HealthStatus

(* A service with a policy, and one that is only watched. *)
Kept == [scope |-> TRUE, enabled |-> TRUE, test |-> "CMD", restart |-> TRUE,
         startPeriod |-> FALSE, interval |-> 1, retries |-> 2]
Watched == [Kept EXCEPT !.restart = FALSE, !.startPeriod = TRUE]
KeptOrWatched == {Kept, Watched}
=============================================================================
