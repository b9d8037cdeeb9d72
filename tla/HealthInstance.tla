--------------------------- MODULE HealthInstance ---------------------------
(***************************************************************************)
(* What ic-healthd keeps of one watched instance, and the pure functions   *)
(* of cmd/ic-healthd/checker/instance.go that rewrite it.                  *)
(*                                                                         *)
(* Time is abstracted to what the code asks of it.  A `due' of now.Add(d)  *)
(* is FALSE (not reached yet) until the clock passes it, an action         *)
(* deadline is `over' once passed, a start period is `startOver' once      *)
(* passed.  Delays keep their size, in units of DefaultRestartDelay,       *)
(* because the backoff doubles them.                                       *)
(*                                                                         *)
(* The status the daemon reports is in HealthStatus: no branch of the      *)
(* scheduler reads it.                                                     *)
(***************************************************************************)
EXTENDS Integers

CONSTANTS
    TaskIds,              \* identities of action contexts
    NoTask,               \* the nil context
    DefaultRestartDelay,  \* lower clamp of the base delay
    MaxRestartDelay,      \* cap of the doubling
    MaxFailures           \* bound: the failure count saturates here

ASSUME HealthAssumption ==
    /\ NoTask \notin TaskIds
    /\ DefaultRestartDelay \in Nat \ {0}
    /\ MaxRestartDelay \in Nat \ {0}
    /\ DefaultRestartDelay <= MaxRestartDelay
    /\ MaxFailures \in Nat \ {0}

(* The keys of an instance (and, for scope, of its project) that the       *)
(* checker reads.  test is abstracted to the shapes the code tells apart:  *)
(* absent, an empty list, the no-op, a command, and one that does not      *)
(* parse.  restart says whether the value is one of RestartPolicies.       *)
RawConfig ==
    [scope: BOOLEAN, enabled: BOOLEAN,
     test: {"", "[]", "NONE", "CMD", "bad"}, restart: BOOLEAN,
     startPeriod: BOOLEAN, interval: Nat, retries: Nat]

Config ==
    [test: {"[]", "NONE", "CMD"}, restart: BOOLEAN, startPeriod: BOOLEAN,
     interval: Nat \ {0}, retries: Nat \ {0}, running: BOOLEAN]

Instance ==
    [state: {"idle", "checking", "restarting", "parked"},
     action: {"check", "start", ""},
     due: BOOLEAN,
     ctx: TaskIds \union {NoTask},
     over: BOOLEAN,
     inStart: BOOLEAN, startOver: BOOLEAN,
     failures: 0..MaxFailures,
     delay: 1..MaxRestartDelay,
     cfg: Config]

AtMost(a, b) == IF a <= b THEN a ELSE b
AtLeast(a, b) == IF a >= b THEN a ELSE b

-----------------------------------------------------------------------------
(* Parsing the configuration. *)

WantsChecking(raw) == raw.test # "" \/ raw.restart

(* Every way out of parseInstanceConfig with an error: not opted in,       *)
(* nothing to watch, or a malformed key.                                   *)
ParseFails(raw) ==
    \/ ~raw.enabled
    \/ ~WantsChecking(raw)
    \/ raw.test = "bad"
    \/ raw.interval = 0
    \/ raw.retries = 0

ParseInstanceConfig(raw, running) ==
    [test |-> IF raw.test = "" THEN "NONE" ELSE raw.test,
     restart |-> raw.restart,
     startPeriod |-> raw.startPeriod,
     interval |-> raw.interval,
     retries |-> raw.retries,
     running |-> running]

BaseRestartDelay(cfg) ==
    AtLeast(AtMost(cfg.interval * cfg.retries, MaxRestartDelay), DefaultRestartDelay)

-----------------------------------------------------------------------------
(* Rewriting an instance. *)

(* What the daemon takes the instance's power to be. *)
SetRunning(r, b) == [r EXCEPT !.cfg = [r.cfg EXCEPT !.running = b]]

(* Mutant: a start earns a fresh restart budget before any probe did. *)
StartedResetsBackoff(r) ==
    [SetRunning(r, TRUE) EXCEPT
              !.state = "idle", !.action = "check",
              !.failures = 0, !.due = TRUE, !.delay = BaseRestartDelay(r.cfg),
              !.inStart = r.cfg.startPeriod, !.startOver = FALSE]

InstanceStarted(r) ==
    [SetRunning(r, TRUE) EXCEPT
              !.state = "idle", !.action = "check",
              !.failures = 0, !.due = TRUE,
              !.inStart = r.cfg.startPeriod, !.startOver = FALSE]

(* Mutant: the doubling has no cap. *)
BackoffUncapped(r) == [r EXCEPT !.due = FALSE, !.delay = 2 * r.delay]

(* due = now + restartDelay, and the delay doubles up to its cap. *)
Backoff(r) ==
    [r EXCEPT !.due = FALSE, !.delay = AtMost(2 * r.delay, MaxRestartDelay)]

QueueRestart(r) == Backoff([r EXCEPT !.action = "start"])

(* The action that held the context has ended, or is given up. *)
Release(r) == [r EXCEPT !.ctx = NoTask, !.over = FALSE]

NewInstance(cfg) ==
    [state |-> IF cfg.running THEN "idle" ELSE "parked",
     action |-> IF cfg.running THEN "check" ELSE "",
     due |-> TRUE, ctx |-> NoTask, over |-> FALSE,
     inStart |-> cfg.running /\ cfg.startPeriod, startOver |-> FALSE,
     failures |-> 0, delay |-> BaseRestartDelay(cfg), cfg |-> cfg]

(* A held instance meets what an event read.  instanceStarted runs before  *)
(* the new configuration is assigned, so it arms the old start period.     *)
Refreshed(r, running) ==
    IF ~running /\ r.action = "check"
    THEN [r EXCEPT !.state = "parked", !.action = ""]
    ELSE IF running /\ r.state = "parked" THEN InstanceStarted(r) ELSE r

SaveInstance(held, r, raw, running) ==
    LET cfg == ParseInstanceConfig(raw, running)
    IN  IF held THEN [Refreshed(r, running) EXCEPT !.cfg = cfg] ELSE NewInstance(cfg)

-----------------------------------------------------------------------------
(* What the outcome of an action does to its instance. *)

CheckFailed(r) ==
    IF r.inStart THEN r
    ELSE IF r.failures + 1 < r.cfg.retries \/ ~r.cfg.restart
    THEN [r EXCEPT !.failures = AtMost(r.failures + 1, MaxFailures)]
    ELSE QueueRestart([r EXCEPT !.failures = 0])

(* The next check, unless a restart is queued: that one has its own due. *)
NextCheck(r) == IF r.action = "start" THEN r ELSE [r EXCEPT !.due = FALSE]

EndedCheck(r) ==
    Release([r EXCEPT !.state = "idle", !.inStart = r.inStart /\ ~r.startOver])

Checked(r, err) ==
    LET e == EndedCheck(r) IN
    CASE err = "notRunning" ->
            IF e.cfg.restart THEN QueueRestart(SetRunning(e, FALSE)) ELSE SetRunning(e, FALSE)
      [] err = "ok" ->
            NextCheck([e EXCEPT !.failures = 0, !.inStart = FALSE,
                                !.delay = BaseRestartDelay(e.cfg)])
      [] OTHER -> NextCheck(CheckFailed(e))

Restarted(r, err) ==
    LET e == Release(r) IN
    CASE err = "ok" -> InstanceStarted(e)
      [] err = "intent" -> [e EXCEPT !.state = "parked"]
      [] OTHER -> QueueRestart([e EXCEPT !.state = "idle"])

(* Mutant: the abandoned action keeps the slot. *)
AbandonedKeepsContext(r) ==
    LET e == [r EXCEPT !.state = "idle"] IN
    IF r.state = "checking" THEN NextCheck(CheckFailed(e)) ELSE Backoff(e)

(* The watchdog gives the action up: a failed probe, or a failed restart. *)
Abandoned(r) ==
    LET e == Release([r EXCEPT !.state = "idle"]) IN
    IF r.state = "checking" THEN NextCheck(CheckFailed(e)) ELSE Backoff(e)

(* Mutant: the stop queues no restart. *)
StoppedForgotten(r) == [r EXCEPT !.state = "idle"]

(* A stop nobody is known to have asked for.  One already waiting on its   *)
(* restart keeps its backoff.                                              *)
StoppedUnasked(r) ==
    IF r.action = "start" THEN [r EXCEPT !.state = "idle"]
    ELSE QueueRestart([r EXCEPT !.state = "idle"])

=============================================================================
