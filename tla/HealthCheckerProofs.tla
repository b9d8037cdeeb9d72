------------------------ MODULE HealthCheckerProofs -------------------------
(***************************************************************************)
(* TypeOK and OwnedSlots are inductive together, for every set of          *)
(* instances, workers, configurations and operations.  From them follow    *)
(* the action properties: each step is taken apart into the records it     *)
(* rewrites, and of each way to rewrite one it is shown what puts the      *)
(* restart delay back (BacksOff) and what makes a restart due              *)
(* (RestartsByPolicy).                                                     *)
(***************************************************************************)
EXTENDS HealthChecker, TLAPS

-----------------------------------------------------------------------------
(* The operators of HealthInstance keep their type, for every delay and    *)
(* every configuration.                                                    *)

(* baseRestartDelay stays within the bounds it clamps to. *)
LEMMA BaseDelayType ==
    ASSUME NEW cfg \in Config
    PROVE  BaseRestartDelay(cfg) \in 1..MaxRestartDelay
<1>1. cfg.interval * cfg.retries \in Int
  BY DEF Config
<1>2. QED
  BY <1>1, HealthAssumption DEF BaseRestartDelay, AtMost, AtLeast

(* parseInstanceConfig returns a configuration whenever it returns no      *)
(* error: its interval and its retries are then positive.                  *)
LEMMA ParseType ==
    ASSUME NEW raw \in RawConfig, ~ParseFails(raw), NEW running \in BOOLEAN
    PROVE  ParseInstanceConfig(raw, running) \in Config
BY DEF RawConfig, Config, ParseFails, ParseInstanceConfig

(* Recording whether an instance runs touches neither its state nor its    *)
(* context.                                                                *)
LEMMA SetRunningType ==
    ASSUME NEW r \in Instance, NEW b \in BOOLEAN
    PROVE  /\ SetRunning(r, b) \in Instance
           /\ SetRunning(r, b).ctx = r.ctx
           /\ SetRunning(r, b).state = r.state
<1>1. [r.cfg EXCEPT !.running = b] \in Config
  BY DEF Instance, Config
<1>2. QED
  BY <1>1 DEF Instance, SetRunning

(* instanceStarted leaves an instance idle and does not touch the context  *)
(* it holds.                                                               *)
LEMMA StartedType ==
    ASSUME NEW r \in Instance
    PROVE  /\ InstanceStarted(r) \in Instance
           /\ InstanceStarted(r).ctx = r.ctx
           /\ InstanceStarted(r).state = "idle"
<1>1. SetRunning(r, TRUE) \in Instance /\ SetRunning(r, TRUE).ctx = r.ctx
  BY SetRunningType
<1>2. r.cfg.startPeriod \in BOOLEAN
  BY DEF Instance, Config
<1>3. 0 \in 0..MaxFailures
  BY HealthAssumption
<1>4. QED
  BY <1>1, <1>2, <1>3 DEF Instance, InstanceStarted

(* Doubling the delay under its cap keeps it within maxRestartDelay, and   *)
(* leaves state and context alone.                                         *)
LEMMA BackoffType ==
    ASSUME NEW r \in Instance
    PROVE  /\ Backoff(r) \in Instance
           /\ Backoff(r).ctx = r.ctx
           /\ Backoff(r).state = r.state
<1>1. r.delay \in 1..MaxRestartDelay
  BY DEF Instance
<1>2. AtMost(2 * r.delay, MaxRestartDelay) \in 1..MaxRestartDelay
  BY <1>1, HealthAssumption DEF AtMost
<1>3. QED
  BY <1>2 DEF Backoff, Instance

(* Queueing a restart leaves state and context alone. *)
LEMMA QueueRestartType ==
    ASSUME NEW r \in Instance
    PROVE  /\ QueueRestart(r) \in Instance
           /\ QueueRestart(r).ctx = r.ctx
           /\ QueueRestart(r).state = r.state
<1> DEFINE q == [r EXCEPT !.action = "start"]
<1>1. q \in Instance /\ q.ctx = r.ctx /\ q.state = r.state
  BY DEF Instance
<1> HIDE DEF q
<1>2. Backoff(q) \in Instance /\ Backoff(q).ctx = q.ctx /\ Backoff(q).state = q.state
  BY <1>1, BackoffType
<1>3. QueueRestart(r) = Backoff(q)
  BY DEF QueueRestart, q
<1>4. QED
  BY <1>1, <1>2, <1>3

(* Releasing a context leaves the instance without one, in the state it    *)
(* was in.                                                                 *)
LEMMA ReleaseType ==
    ASSUME NEW r \in Instance
    PROVE  /\ Release(r) \in Instance
           /\ Release(r).ctx = NoTask
           /\ Release(r).state = r.state
BY DEF Instance, Release

(* Making an instance idle, or parking it, leaves its context alone. *)
LEMMA IdleType ==
    ASSUME NEW r \in Instance, NEW s \in {"idle", "parked"}
    PROVE  /\ [r EXCEPT !.state = s] \in Instance
           /\ [r EXCEPT !.state = s].ctx = r.ctx
           /\ [r EXCEPT !.state = s].state = s
BY DEF Instance

(* A discovered instance is in no action and holds no context. *)
LEMMA NewInstanceType ==
    ASSUME NEW cfg \in Config
    PROVE  /\ NewInstance(cfg) \in Instance
           /\ NewInstance(cfg).ctx = NoTask
           /\ NewInstance(cfg).state \in {"idle", "parked"}
<1>1. BaseRestartDelay(cfg) \in 1..MaxRestartDelay
  BY BaseDelayType
<1>2. 0 \in 0..MaxFailures
  BY HealthAssumption
<1>3. cfg.running \in BOOLEAN /\ cfg.startPeriod \in BOOLEAN
  BY DEF Config
<1>4. QED
  BY <1>1, <1>2, <1>3 DEF NewInstance, Instance

(* A fold of an event never takes an instance into an action, and leaves   *)
(* the context of the action it may be in.                                 *)
LEMMA SaveType ==
    ASSUME NEW r \in Instance, NEW raw \in RawConfig, ~ParseFails(raw), NEW running \in BOOLEAN
    PROVE  LET s == [Refreshed(r, running) EXCEPT !.cfg = ParseInstanceConfig(raw, running)] IN
           s \in Instance /\ s.ctx = r.ctx /\ s.state \in {r.state, "idle", "parked"}
<1> DEFINE cfg == ParseInstanceConfig(raw, running)
           f == Refreshed(r, running)
<1>1. cfg \in Config
  BY ParseType
<1>2. f \in Instance /\ f.ctx = r.ctx /\ f.state \in {r.state, "idle", "parked"}
  <2>1. CASE ~running /\ r.action = "check"
    BY <2>1 DEF Refreshed, Instance
  <2>2. CASE running /\ r.state = "parked"
    BY <2>2, StartedType DEF Refreshed
  <2>3. CASE ~(~running /\ r.action = "check") /\ ~(running /\ r.state = "parked")
    BY <2>3 DEF Refreshed
  <2>4. QED
    BY <2>1, <2>2, <2>3
<1> HIDE DEF cfg, f
<1>3. [f EXCEPT !.cfg = cfg] \in Instance /\ [f EXCEPT !.cfg = cfg].ctx = f.ctx
        /\ [f EXCEPT !.cfg = cfg].state = f.state
  BY <1>1, <1>2 DEF Instance
<1>4. QED
  BY <1>2, <1>3 DEF cfg, f

(* checkFailed leaves state and context alone, and the failure count in    *)
(* its range.                                                              *)
LEMMA CheckFailedType ==
    ASSUME NEW r \in Instance
    PROVE  /\ CheckFailed(r) \in Instance
           /\ CheckFailed(r).ctx = r.ctx
           /\ CheckFailed(r).state = r.state
<1> DEFINE z == [r EXCEPT !.failures = 0]
           n == [r EXCEPT !.failures = AtMost(r.failures + 1, MaxFailures)]
<1>1. z \in Instance /\ z.ctx = r.ctx /\ z.state = r.state
  <2>1. 0 \in 0..MaxFailures
    BY HealthAssumption
  <2>2. QED
    BY <2>1 DEF Instance
<1>2. n \in Instance /\ n.ctx = r.ctx /\ n.state = r.state
  <2>1. r.failures \in 0..MaxFailures
    BY DEF Instance
  <2>2. AtMost(r.failures + 1, MaxFailures) \in 0..MaxFailures
    BY <2>1, HealthAssumption DEF AtMost
  <2>3. QED
    BY <2>2 DEF Instance
<1> HIDE DEF z, n
<1>3. QueueRestart(z) \in Instance /\ QueueRestart(z).ctx = z.ctx /\ QueueRestart(z).state = z.state
  BY <1>1, QueueRestartType
<1>4. CheckFailed(r) \in {r, n, QueueRestart(z)}
  BY DEF CheckFailed, z, n
<1>5. QED
  BY <1>1, <1>2, <1>3, <1>4

(* Scheduling the next check leaves state and context alone. *)
LEMMA NextCheckType ==
    ASSUME NEW r \in Instance
    PROVE  /\ NextCheck(r) \in Instance
           /\ NextCheck(r).ctx = r.ctx
           /\ NextCheck(r).state = r.state
BY DEF NextCheck, Instance

(* Whatever an action reports, its instance leaves the action and lets go  *)
(* of its context.                                                         *)
LEMMA CheckedType ==
    ASSUME NEW r \in Instance, NEW err
    PROVE  /\ Checked(r, err) \in Instance
           /\ Checked(r, err).ctx = NoTask
           /\ Checked(r, err).state = "idle"
<1> DEFINE p == [r EXCEPT !.state = "idle", !.inStart = r.inStart /\ ~r.startOver]
           e == EndedCheck(r)
           s == SetRunning(e, FALSE)
           f == CheckFailed(e)
           k == [e EXCEPT !.failures = 0, !.inStart = FALSE, !.delay = BaseRestartDelay(e.cfg)]
<1>1. p \in Instance /\ p.state = "idle"
  BY DEF Instance
<1> HIDE DEF p
<1>2. e = Release(p)
  BY DEF EndedCheck, p
<1> HIDE DEF e
<1>3. e \in Instance /\ e.ctx = NoTask /\ e.state = "idle"
  BY <1>1, <1>2, ReleaseType
<1>4. s \in Instance /\ s.ctx = NoTask /\ s.state = "idle"
  BY <1>3, SetRunningType
<1> HIDE DEF s
<1>5. QueueRestart(s) \in Instance /\ QueueRestart(s).ctx = NoTask /\ QueueRestart(s).state = "idle"
  BY <1>4, QueueRestartType
<1>6. f \in Instance /\ f.ctx = NoTask /\ f.state = "idle"
  BY <1>3, CheckFailedType
<1> HIDE DEF f
<1>7. NextCheck(f) \in Instance /\ NextCheck(f).ctx = NoTask /\ NextCheck(f).state = "idle"
  BY <1>6, NextCheckType
<1>8. k \in Instance /\ k.ctx = NoTask /\ k.state = "idle"
  <2>1. 0 \in 0..MaxFailures
    BY HealthAssumption
  <2>2. e.cfg \in Config
    BY <1>3 DEF Instance
  <2>3. BaseRestartDelay(e.cfg) \in 1..MaxRestartDelay
    BY <2>2, BaseDelayType
  <2>4. QED
    BY <1>3, <2>1, <2>3 DEF Instance
<1> HIDE DEF k
<1>9. NextCheck(k) \in Instance /\ NextCheck(k).ctx = NoTask /\ NextCheck(k).state = "idle"
  BY <1>8, NextCheckType
<1>10. CASE err = "notRunning"
  <2>1. Checked(r, err) = IF e.cfg.restart THEN QueueRestart(s) ELSE s
    BY <1>10 DEF Checked, e, s
  <2>2. QED
    BY <1>4, <1>5, <2>1
<1>11. CASE err = "ok"
  <2>1. Checked(r, err) = NextCheck(k)
    BY <1>11 DEF Checked, e, k
  <2>2. QED
    BY <1>9, <2>1
<1>12. CASE err # "notRunning" /\ err # "ok"
  <2>1. Checked(r, err) = NextCheck(f)
    BY <1>12 DEF Checked, e, f
  <2>2. QED
    BY <1>7, <2>1
<1>13. QED
  BY <1>10, <1>11, <1>12

(* Whatever a restart reports, the instance leaves the action and lets go  *)
(* of its context.                                                         *)
LEMMA RestartedType ==
    ASSUME NEW r \in Instance, NEW err
    PROVE  /\ Restarted(r, err) \in Instance
           /\ Restarted(r, err).ctx = NoTask
           /\ Restarted(r, err).state \in {"idle", "parked"}
<1> DEFINE e == Release(r)
           i == [e EXCEPT !.state = "idle"]
           p == [e EXCEPT !.state = "parked"]
<1>1. e \in Instance /\ e.ctx = NoTask
  BY ReleaseType
<1> HIDE DEF e
<1>2. InstanceStarted(e) \in Instance /\ InstanceStarted(e).ctx = NoTask /\ InstanceStarted(e).state = "idle"
  BY <1>1, StartedType
<1>3. p \in Instance /\ p.ctx = NoTask /\ p.state = "parked"
  BY <1>1, IdleType
<1>4. i \in Instance /\ i.ctx = NoTask /\ i.state = "idle"
  BY <1>1, IdleType
<1> HIDE DEF i, p
<1>5. QueueRestart(i) \in Instance /\ QueueRestart(i).ctx = NoTask /\ QueueRestart(i).state = "idle"
  BY <1>4, QueueRestartType
<1>6. Restarted(r, err) \in {InstanceStarted(e), p, QueueRestart(i)}
  BY DEF Restarted, e, i, p
<1>7. QED
  BY <1>2, <1>3, <1>5, <1>6

(* The watchdog leaves an instance idle and without a context. *)
LEMMA AbandonedType ==
    ASSUME NEW r \in Instance
    PROVE  /\ Abandoned(r) \in Instance
           /\ Abandoned(r).ctx = NoTask
           /\ Abandoned(r).state = "idle"
<1> DEFINE i == [r EXCEPT !.state = "idle"]
           e == Release(i)
           f == CheckFailed(e)
<1>1. i \in Instance /\ i.state = "idle"
  BY IdleType
<1> HIDE DEF i
<1>2. e \in Instance /\ e.ctx = NoTask /\ e.state = "idle"
  BY <1>1, ReleaseType
<1> HIDE DEF e
<1>3. f \in Instance /\ f.ctx = NoTask /\ f.state = "idle"
  BY <1>2, CheckFailedType
<1> HIDE DEF f
<1>4. NextCheck(f) \in Instance /\ NextCheck(f).ctx = NoTask /\ NextCheck(f).state = "idle"
  BY <1>3, NextCheckType
<1>5. Backoff(e) \in Instance /\ Backoff(e).ctx = NoTask /\ Backoff(e).state = "idle"
  BY <1>2, BackoffType
<1>6. Abandoned(r) = IF r.state = "checking" THEN NextCheck(f) ELSE Backoff(e)
  BY DEF Abandoned, i, e, f
<1>7. QED
  BY <1>4, <1>5, <1>6

(* A stop event takes an instance out of its action, and leaves the        *)
(* context to the action in flight.                                        *)
LEMMA StoppedUnaskedType ==
    ASSUME NEW r \in Instance
    PROVE  /\ StoppedUnasked(r) \in Instance
           /\ StoppedUnasked(r).ctx = r.ctx
           /\ StoppedUnasked(r).state = "idle"
<1> DEFINE i == [r EXCEPT !.state = "idle"]
<1>1. i \in Instance /\ i.ctx = r.ctx /\ i.state = "idle"
  BY IdleType
<1> HIDE DEF i
<1>2. QueueRestart(i) \in Instance /\ QueueRestart(i).ctx = i.ctx /\ QueueRestart(i).state = i.state
  BY <1>1, QueueRestartType
<1>3. StoppedUnasked(r) \in {i, QueueRestart(i)}
  BY DEF StoppedUnasked, i
<1>4. QED
  BY <1>1, <1>2, <1>3

-----------------------------------------------------------------------------
(* What the rewriting of an instance does to its backoff and to its queue. *)

(* From r to s the restart delay does not shrink, and a restart is queued  *)
(* only where the settings of s ask for one.                               *)
Steady(r, s) ==
    /\ s.delay >= r.delay
    /\ s.action = "start" => r.action = "start" \/ s.cfg.restart

(* The settings that ask for restarts and for probes are those of r. *)
SameSettings(r, s) == s.cfg.restart = r.cfg.restart

(* A restart delay is a number. *)
LEMMA DelayInt == ASSUME NEW r \in Instance PROVE r.delay \in Int
<1>1. r.delay \in 1..MaxRestartDelay
  BY DEF Instance
<1>2. QED
  BY <1>1, HealthAssumption

(* What leaves delay and queue alone is steady. *)
LEMMA SteadyAlone ==
    ASSUME NEW r \in Instance, NEW s \in Instance, s.delay = r.delay,
           s.action = r.action \/ s.action # "start"
    PROVE  Steady(r, s)
BY DelayInt DEF Steady

(* instanceStarted resets no backoff and queues no restart. *)
LEMMA StartedSteady ==
    ASSUME NEW r \in Instance
    PROVE  Steady(r, InstanceStarted(r)) /\ SameSettings(r, InstanceStarted(r))
<1>1. InstanceStarted(r).delay = r.delay /\ InstanceStarted(r).action = "check"
  BY DEF InstanceStarted, SetRunning, Instance
<1>2. InstanceStarted(r).cfg = [r.cfg EXCEPT !.running = TRUE]
  BY DEF InstanceStarted, SetRunning, Instance
<1>3. InstanceStarted(r).cfg.restart = r.cfg.restart
  BY <1>2 DEF Instance, Config
<1>4. QED
  BY <1>1, <1>3, SteadyAlone, StartedType DEF SameSettings

(* The delay doubles up to its cap, so it does not shrink. *)
LEMMA BackoffSteady ==
    ASSUME NEW r \in Instance
    PROVE  /\ Backoff(r).delay >= r.delay
           /\ Backoff(r).action = r.action /\ Backoff(r).cfg = r.cfg
<1>1. r.delay \in 1..MaxRestartDelay
  BY DEF Instance
<1>2. AtMost(2 * r.delay, MaxRestartDelay) >= r.delay
  BY <1>1, HealthAssumption DEF AtMost
<1>3. QED
  BY <1>2 DEF Backoff, Instance

(* Queueing a restart backs off. *)
LEMMA QueueRestartSteady ==
    ASSUME NEW r \in Instance
    PROVE  QueueRestart(r).delay >= r.delay /\ QueueRestart(r).cfg = r.cfg
<1> DEFINE q == [r EXCEPT !.action = "start"]
<1>1. q \in Instance /\ q.delay = r.delay /\ q.cfg = r.cfg
  BY DEF Instance
<1>2. QueueRestart(r) = Backoff(q)
  BY DEF QueueRestart
<1> HIDE DEF q
<1>3. QED
  BY <1>1, <1>2, BackoffSteady

(* Neither backoff nor queue nor settings depend on state and context. *)
LEMMA LeftSteady ==
    ASSUME NEW r \in Instance, NEW s \in {"idle", "parked"}
    PROVE  LET i == [r EXCEPT !.state = s] IN
           /\ i.delay = r.delay /\ i.action = r.action /\ i.cfg = r.cfg
           /\ Release(r).delay = r.delay /\ Release(r).action = r.action
           /\ Release(r).cfg = r.cfg
BY DEF Release, Instance

(* A held instance that meets what an event read keeps its delay, and its  *)
(* queue if it does not lose it.                                           *)
LEMMA SaveSteady ==
    ASSUME NEW r \in Instance, NEW raw, NEW running \in BOOLEAN
    PROVE  LET s == [Refreshed(r, running) EXCEPT !.cfg = ParseInstanceConfig(raw, running)] IN
           s.delay = r.delay /\ s.action \in {r.action, "check", ""}
<1>1. /\ Refreshed(r, running).delay = r.delay
      /\ Refreshed(r, running).action \in {r.action, "check", ""}
  <2>1. InstanceStarted(r).delay = r.delay /\ InstanceStarted(r).action = "check"
    BY DEF InstanceStarted, SetRunning, Instance
  <2>2. CASE ~running /\ r.action = "check"
    BY <2>2 DEF Refreshed, Instance
  <2>3. CASE ~(~running /\ r.action = "check")
    BY <2>1, <2>3 DEF Refreshed
  <2>4. QED
    BY <2>2, <2>3
<1>2. Refreshed(r, running) \in Instance
  BY IdleType, StartedType, ZenonT(60) DEF Refreshed, Instance
<1>3. QED
  BY <1>1, <1>2 DEF Instance

(* A failed check backs off when it queues a restart, and queues one only  *)
(* under a policy.                                                         *)
LEMMA CheckFailedSteady ==
    ASSUME NEW r \in Instance
    PROVE  Steady(r, CheckFailed(r)) /\ CheckFailed(r).cfg = r.cfg
<1> DEFINE z == [r EXCEPT !.failures = 0]
           n == [r EXCEPT !.failures = AtMost(r.failures + 1, MaxFailures)]
<1>1. z \in Instance /\ z.delay = r.delay /\ z.action = r.action /\ z.cfg = r.cfg
  <2>1. 0 \in 0..MaxFailures
    BY HealthAssumption
  <2>2. QED
    BY <2>1 DEF Instance
<1>2. n.delay = r.delay /\ n.action = r.action /\ n.cfg = r.cfg
  BY DEF Instance
<1> HIDE DEF z, n
<1>3. r.delay >= r.delay
  BY DelayInt
<1>4. CASE r.inStart \/ r.failures + 1 < r.cfg.retries \/ ~r.cfg.restart
  <2>1. CheckFailed(r) \in {r, n}
    BY <1>4 DEF CheckFailed, n
  <2>2. QED
    BY <1>2, <1>3, <2>1 DEF Steady
<1>5. CASE ~(r.inStart \/ r.failures + 1 < r.cfg.retries \/ ~r.cfg.restart)
  <2>1. CheckFailed(r) = QueueRestart(z) /\ r.cfg.restart
    BY <1>5 DEF CheckFailed, z
  <2>2. QED
    BY <1>1, <2>1, QueueRestartSteady DEF Steady
<1>6. QED
  BY <1>4, <1>5

(* Scheduling the next check touches neither. *)
LEMMA NextCheckSteady ==
    ASSUME NEW r \in Instance
    PROVE  /\ NextCheck(r).delay = r.delay /\ NextCheck(r).action = r.action
           /\ NextCheck(r).cfg = r.cfg
BY DEF NextCheck, Instance

(* Whatever a probe reports but its success, the delay does not shrink;    *)
(* and whatever it reports, a restart is queued only under a policy.       *)
LEMMA CheckedSteady ==
    ASSUME NEW r \in Instance, NEW err
    PROVE  /\ err # "ok" => Checked(r, err).delay >= r.delay
           /\ Checked(r, err).action = "start"
                 => r.action = "start" \/ Checked(r, err).cfg.restart
<1> DEFINE p == [r EXCEPT !.state = "idle", !.inStart = r.inStart /\ ~r.startOver]
           e == EndedCheck(r)
           s == SetRunning(e, FALSE)
           f == CheckFailed(e)
           k == [e EXCEPT !.failures = 0, !.inStart = FALSE, !.delay = BaseRestartDelay(e.cfg)]
<1>1. p \in Instance /\ p.delay = r.delay /\ p.action = r.action
  BY DEF Instance
<1> HIDE DEF p
<1>2. e = Release(p)
  BY DEF EndedCheck, p
<1> HIDE DEF e
<1>3. e \in Instance /\ e.delay = r.delay /\ e.action = r.action
  BY <1>1, <1>2, ReleaseType, LeftSteady
<1>4. s \in Instance /\ s.delay = e.delay /\ s.action = e.action /\ s.cfg.restart = e.cfg.restart
  <2>1. s \in Instance
    BY <1>3, SetRunningType
  <2>2. e.cfg \in Config /\ s.cfg = [e.cfg EXCEPT !.running = FALSE]
    BY <1>3 DEF SetRunning, Instance
  <2>3. s.delay = e.delay /\ s.action = e.action
    BY <1>3 DEF SetRunning, Instance
  <2>4. QED
    BY <2>1, <2>2, <2>3 DEF Config
<1> HIDE DEF s
<1>5. QueueRestart(s).delay >= s.delay /\ QueueRestart(s).cfg = s.cfg
  BY <1>4, QueueRestartSteady
<1>6. f \in Instance /\ Steady(e, f) /\ f.cfg = e.cfg
  BY <1>3, CheckFailedSteady, CheckFailedType
<1> HIDE DEF f
<1>7. NextCheck(f).delay = f.delay /\ NextCheck(f).action = f.action /\ NextCheck(f).cfg = f.cfg
  BY <1>6, NextCheckSteady
<1>8. k \in Instance /\ k.action = e.action
  <2>1. 0 \in 0..MaxFailures
    BY HealthAssumption
  <2>2. e.cfg \in Config
    BY <1>3 DEF Instance
  <2>3. BaseRestartDelay(e.cfg) \in 1..MaxRestartDelay
    BY <2>2, BaseDelayType
  <2>4. QED
    BY <1>3, <2>1, <2>3 DEF Instance
<1> HIDE DEF k
<1>9. NextCheck(k).action = k.action
  BY <1>8, NextCheckSteady
<1>10. CASE err = "notRunning"
  <2>1. Checked(r, err) = IF e.cfg.restart THEN QueueRestart(s) ELSE s
    BY <1>10 DEF Checked, e, s
  <2>2. CASE e.cfg.restart
    BY <1>3, <1>4, <1>5, <2>1, <2>2
  <2>3. CASE ~e.cfg.restart
    <3>1. Checked(r, err) = s
      BY <2>1, <2>3
    <3>2. s.delay >= r.delay
      BY <1>3, <1>4, DelayInt
    <3>3. QED
      BY <1>3, <1>4, <3>1, <3>2
  <2>4. QED
    BY <2>2, <2>3
<1>11. CASE err = "ok"
  <2>1. Checked(r, err) = NextCheck(k)
    BY <1>11 DEF Checked, e, k
  <2>2. QED
    BY <1>3, <1>8, <1>9, <1>11, <2>1
<1>12. CASE err # "notRunning" /\ err # "ok"
  <2>1. Checked(r, err) = NextCheck(f)
    BY <1>12 DEF Checked, e, f
  <2>2. QED
    BY <1>3, <1>6, <1>7, <2>1 DEF Steady
<1>13. QED
  BY <1>10, <1>11, <1>12

(* Whatever a restart reports, the delay does not shrink. *)
LEMMA RestartedSteady ==
    ASSUME NEW r \in Instance, NEW err
    PROVE  Restarted(r, err).delay >= r.delay
<1> DEFINE e == Release(r)
           i == [e EXCEPT !.state = "idle"]
           p == [e EXCEPT !.state = "parked"]
<1>1. e \in Instance /\ e.delay = r.delay
  BY ReleaseType, LeftSteady
<1> HIDE DEF e
<1>2. InstanceStarted(e).delay >= e.delay
  BY <1>1, StartedSteady DEF Steady
<1>3. p.delay = e.delay /\ p \in Instance
  BY <1>1, LeftSteady, IdleType
<1>4. i.delay = e.delay /\ i \in Instance
  BY <1>1, LeftSteady, IdleType
<1> HIDE DEF i, p
<1>5. QueueRestart(i).delay >= i.delay
  BY <1>4, QueueRestartSteady
<1>6. p.delay >= r.delay
  BY <1>1, <1>3, DelayInt
<1>7. Restarted(r, err) \in {InstanceStarted(e), p, QueueRestart(i)}
  BY DEF Restarted, e, i, p
<1>8. QED
  BY <1>1, <1>2, <1>4, <1>5, <1>6, <1>7

(* The watchdog is steady: it takes an overrun for a failure. *)
LEMMA AbandonedSteady ==
    ASSUME NEW r \in Instance
    PROVE  Steady(r, Abandoned(r))
<1> DEFINE i == [r EXCEPT !.state = "idle"]
           e == Release(i)
           f == CheckFailed(e)
<1>1. i \in Instance /\ i.delay = r.delay /\ i.action = r.action
  BY IdleType, LeftSteady
<1> HIDE DEF i
<1>2. e \in Instance /\ e.delay = r.delay /\ e.action = r.action
  BY <1>1, ReleaseType, LeftSteady
<1> HIDE DEF e
<1>3. f \in Instance /\ Steady(e, f)
  BY <1>2, CheckFailedType, CheckFailedSteady
<1> HIDE DEF f
<1>4. NextCheck(f).delay = f.delay /\ NextCheck(f).action = f.action /\ NextCheck(f).cfg = f.cfg
  BY <1>3, NextCheckSteady
<1>5. Backoff(e).delay >= e.delay /\ Backoff(e).action = e.action
  BY <1>2, BackoffSteady
<1>6. Abandoned(r) = IF r.state = "checking" THEN NextCheck(f) ELSE Backoff(e)
  BY DEF Abandoned, i, e, f
<1>7. CASE r.state = "checking"
  BY <1>2, <1>3, <1>4, <1>6, <1>7 DEF Steady
<1>8. CASE r.state # "checking"
  BY <1>2, <1>5, <1>6, <1>8 DEF Steady
<1>9. QED
  BY <1>7, <1>8

(* A stop nobody asked for queues a restart, under the settings held. *)
LEMMA StoppedUnaskedSteady ==
    ASSUME NEW r \in Instance
    PROVE  StoppedUnasked(r).delay >= r.delay /\ StoppedUnasked(r).cfg = r.cfg
<1> DEFINE i == [r EXCEPT !.state = "idle"]
<1>1. i \in Instance /\ i.delay = r.delay /\ i.cfg = r.cfg
  BY IdleType, LeftSteady
<1> HIDE DEF i
<1>2. QueueRestart(i).delay >= i.delay /\ QueueRestart(i).cfg = i.cfg
  BY <1>1, QueueRestartSteady
<1>3. i.delay >= r.delay
  BY <1>1, DelayInt
<1>4. StoppedUnasked(r) \in {i, QueueRestart(i)}
  BY DEF StoppedUnasked, i
<1>5. QED
  BY <1>1, <1>2, <1>3, <1>4

-----------------------------------------------------------------------------

(* The inductive invariant. *)
IInv == TypeOK /\ OwnedSlots

(* An instance in no action that holds no context owns nothing. *)
LEMMA OwnsNothing ==
    ASSUME NEW i, NEW r, NEW workers, r.ctx = NoTask, r.state \in {"idle", "parked"}
    PROVE  OwnedBy(i, r, workers)
BY DEF OwnedBy

(* Leaving an action, with its context kept, keeps what is owned. *)
LEMMA OwnsStill ==
    ASSUME NEW i, NEW r, NEW s, NEW workers, OwnedBy(i, r, workers),
           s.ctx = r.ctx, s.state \in {r.state, "idle", "parked"}
    PROVE  OwnedBy(i, s, workers)
BY DEF OwnedBy

(* What is owned depends only on the worker that holds the context. *)
LEMMA OwnsElsewhere ==
    ASSUME NEW i, NEW r, NEW workers, NEW workers2, OwnedBy(i, r, workers),
           r.ctx # NoTask => /\ workers2[r.ctx].of = workers[r.ctx].of
                             /\ workers2[r.ctx].kind = workers[r.ctx].kind
                             /\ workers2[r.ctx].cancelled = workers[r.ctx].cancelled
    PROVE  OwnedBy(i, r, workers2)
BY DEF OwnedBy

(* The value kept for an instance that is not tracked is an instance in no *)
(* action.                                                                 *)
LEMMA BlankType == Blank \in Instance /\ Blank.ctx = NoTask /\ Blank.state \in {"idle", "parked"}
<1> DEFINE c == [test |-> "NONE", restart |-> FALSE, startPeriod |-> FALSE,
                 interval |-> 1, retries |-> 1, running |-> FALSE]
<1>1. c \in Config
  BY DEF Config
<1> HIDE DEF c
<1>2. Blank = NewInstance(c)
  BY DEF Blank, c
<1>3. QED
  BY <1>1, <1>2, NewInstanceType

(* A free worker is a worker that works on nothing. *)
LEMMA FreeTaskType == FreeTask \in Tasks /\ FreeTask.kind = "none"
BY CheckerAssumption DEF FreeTask, Tasks

(* Every event the model emits is one the checker folds. *)
LEMMA EventType ==
    ASSUME NEW a \in {"started", "stopped", "updated", "deleted"}
    PROVE  Event(a) \in Events
BY DEF Event, Events, Reads, Unread

(* The invariant holds when the daemon comes up. *)
LEMMA InitIInv == Init => IInv
<1> SUFFICES ASSUME Init PROVE IInv
  OBVIOUS
<1>1. inst \in [Instances -> Instance]
  BY BlankType DEF Init
<1>2. task \in [TaskIds -> Tasks]
  BY FreeTaskType DEF Init
<1>3. incus \in [Instances -> Server]
  BY CheckerAssumption DEF Init
<1>4. line \in [Instances -> Seq(Events)]
  <2>1. <<>> \in Seq(Events) /\ <<Event("updated")>> \in Seq(Events)
    BY EventType
  <2>2. QED
    BY <2>1 DEF Init
<1>5. QED
  BY <1>1, <1>2, <1>3, <1>4, CheckerAssumption DEF Init, IInv, TypeOK, OwnedSlots

-----------------------------------------------------------------------------
(* Events. *)

(* What the head of a line carries, once it has been read. *)
LEMMA SeenType ==
    ASSUME TypeOK, NEW i \in Instances, line[i] # <<>>, Seen(i).kind = "read"
    PROVE  Seen(i).raw \in RawConfig /\ Seen(i).running \in BOOLEAN
<1>1. line[i] \in Seq(Events)
  BY DEF TypeOK
<1>2. Head(line[i]) \in Events
  BY <1>1
<1>3. Seen(i) \in Reads
  BY <1>2 DEF Seen, Events
<1>4. Seen(i) \in [kind: {"gone", "read"}, running: BOOLEAN, raw: RawConfigs]
  BY <1>3 DEF Reads, Unread
<1>5. QED
  BY <1>4, CheckerAssumption

(* A fold takes one event off its line and touches nothing else outside    *)
(* the loop.                                                               *)
LEMMA FoldingType ==
    ASSUME TypeOK, NEW i \in Instances, NEW acts, Folding(i, acts)
    PROVE  /\ line' \in [Instances -> Seq(Events)]
           /\ incus' = incus /\ client' = client /\ ops' = ops
           /\ line[i] # <<>>
<1>1. line[i] \in Seq(Events) /\ line[i] # <<>>
  BY DEF TypeOK, Folding
<1>2. Tail(line[i]) \in Seq(Events)
  BY <1>1
<1>3. QED
  BY <1>1, <1>2 DEF Folding, TypeOK

(* Cancelling the action of i touches no context another instance holds. *)
LEMMA CancelledType ==
    ASSUME IInv, NEW i \in Instances
    PROVE  /\ Cancelled(i) \in [TaskIds -> Tasks]
           /\ \A j \in tracked : j # i => OwnedBy(j, inst[j], Cancelled(i))
<1>1. CASE i \in tracked /\ inst[i].ctx # NoTask
  <2> DEFINE t == inst[i].ctx
  <2>1. inst[i] \in Instance
    BY DEF IInv, TypeOK
  <2>2. t \in TaskIds
    BY <1>1, <2>1 DEF Instance
  <2>3. task \in [TaskIds -> Tasks]
    BY DEF IInv, TypeOK
  <2>4. task[t].of = i
    BY <1>1 DEF IInv, OwnedSlots, OwnedBy
  <2>5. Cancelled(i) = [task EXCEPT ![t].cancelled = TRUE]
    BY <1>1 DEF Cancelled
  <2> HIDE DEF t
  <2>6. Cancelled(i) \in [TaskIds -> Tasks]
    <3>1. [task[t] EXCEPT !.cancelled = TRUE] \in Tasks
      BY <2>2, <2>3 DEF Tasks
    <3>2. QED
      BY <2>2, <2>3, <2>5, <3>1
  <2>7. ASSUME NEW j \in tracked, j # i
        PROVE  OwnedBy(j, inst[j], Cancelled(i))
    <3>1. OwnedBy(j, inst[j], task)
      BY DEF IInv, OwnedSlots
    <3>2. inst[j].ctx # NoTask => inst[j].ctx \in TaskIds /\ inst[j].ctx # t
      BY <2>4, <2>7, <3>1 DEF OwnedBy, IInv, TypeOK, Instance
    <3>3. inst[j].ctx # NoTask => Cancelled(i)[inst[j].ctx] = task[inst[j].ctx]
      BY <2>3, <2>5, <3>2
    <3>4. QED
      BY <3>1, <3>3, OwnsElsewhere
  <2>8. QED
    BY <2>6, <2>7
<1>2. CASE ~(i \in tracked /\ inst[i].ctx # NoTask)
  BY <1>2 DEF Cancelled, IInv, TypeOK, OwnedSlots
<1>3. QED
  BY <1>1, <1>2

(* Forgetting an instance leaves the others theirs, whether its action is  *)
(* cancelled or left to run.                                               *)
LEMMA DropIInv ==
    ASSUME IInv, NEW i \in Instances, Drop(i), task' \in {task, Cancelled(i)}, todo' = tracked',
           line' \in [Instances -> Seq(Events)], incus' = incus, client' = client, ops' = ops
    PROVE  IInv'
<1>1. inst' \in [Instances -> Instance]
  BY BlankType DEF Drop, IInv, TypeOK
<1>2. task' \in [TaskIds -> Tasks]
  BY CancelledType DEF IInv, TypeOK
<1>3. tracked' = tracked \ {i} /\ \A j \in tracked' : inst'[j] = inst[j]
  BY DEF Drop, IInv, TypeOK
<1>4. ASSUME NEW j \in tracked'
      PROVE  OwnedBy(j, inst'[j], task')
  <2>1. j \in tracked /\ j # i /\ inst'[j] = inst[j]
    BY <1>3
  <2>2. OwnedBy(j, inst[j], task) /\ OwnedBy(j, inst[j], Cancelled(i))
    BY <2>1, CancelledType DEF IInv, OwnedSlots
  <2>3. QED
    BY <2>1, <2>2
<1>5. TypeOK'
  BY <1>1, <1>2, <1>3 DEF IInv, TypeOK
<1>6. QED
  BY <1>4, <1>5 DEF IInv, OwnedSlots

(* Holding a new form of an instance that keeps its context, or has none,  *)
(* and enters no action.                                                   *)
LEMMA HoldIInv ==
    ASSUME IInv, NEW i \in Instances, NEW r \in Instance, Hold(i, r),
           OwnedBy(i, r, task), task' = task, todo' = tracked',
           line' \in [Instances -> Seq(Events)], incus' = incus, client' = client, ops' = ops
    PROVE  IInv'
<1>1. inst' \in [Instances -> Instance]
  BY DEF Hold, IInv, TypeOK
<1>2. ASSUME NEW j \in tracked'
      PROVE  OwnedBy(j, inst'[j], task')
  <2>1. CASE j = i
    BY <2>1 DEF Hold, IInv, TypeOK
  <2>2. CASE j # i
    BY <2>2 DEF Hold, IInv, TypeOK, OwnedSlots
  <2>3. QED
    BY <2>1, <2>2
<1>3. TypeOK'
  BY <1>1 DEF Hold, IInv, TypeOK
<1>4. QED
  BY <1>2, <1>3 DEF IInv, OwnedSlots

(* What an accepted event saves: an instance that owns what it owned. *)
LEMMA SavedType ==
    ASSUME IInv, NEW i \in Instances, line[i] # <<>>, Seen(i).kind = "read", Accepted(i)
    PROVE  /\ Saved(i) \in Instance
           /\ OwnedBy(i, Saved(i), task)
<1>1. inst[i] \in Instance
  BY DEF IInv, TypeOK
<1>2. Seen(i).raw \in RawConfig /\ Seen(i).running \in BOOLEAN /\ ~ParseFails(Seen(i).raw)
  BY SeenType DEF IInv, Accepted
<1>3. CASE i \in tracked
  <2>1. /\ Saved(i) \in Instance /\ Saved(i).ctx = inst[i].ctx
        /\ Saved(i).state \in {inst[i].state, "idle", "parked"}
    BY <1>1, <1>2, <1>3, SaveType DEF Saved, SaveInstance
  <2>2. OwnedBy(i, inst[i], task)
    BY <1>3 DEF IInv, OwnedSlots
  <2>3. QED
    BY <2>1, <2>2, OwnsStill
<1>4. CASE i \notin tracked
  <2> DEFINE cfg == ParseInstanceConfig(Seen(i).raw, Seen(i).running)
  <2>1. Saved(i) = NewInstance(cfg)
    BY <1>4 DEF Saved, SaveInstance
  <2>2. Saved(i) \in Instance /\ Saved(i).ctx = NoTask /\ Saved(i).state \in {"idle", "parked"}
    BY <1>2, <2>1, ParseType, NewInstanceType
  <2>3. QED
    BY <2>2, OwnsNothing
<1>5. QED
  BY <1>3, <1>4

(* Folding any event, in any state, keeps the invariant. *)
LEMMA FoldIInv ==
    ASSUME IInv, NEW i \in Instances, Fold(i)
    PROVE  IInv'
<1>1. todo' = tracked'
  BY DEF Fold
<1>2. CASE FoldUnread(i)
  <2>1. line' \in [Instances -> Seq(Events)] /\ incus' = incus /\ client' = client /\ ops' = ops
    BY <1>2, FoldingType DEF FoldUnread, IInv
  <2>2. tracked' = tracked /\ inst' = inst /\ task' = task
    BY <1>2 DEF FoldUnread
  <2>3. QED
    BY <1>1, <2>1, <2>2 DEF IInv, TypeOK, OwnedSlots
<1>3. CASE FoldUnserveable(i)
  <2>1. line' \in [Instances -> Seq(Events)] /\ incus' = incus /\ client' = client /\ ops' = ops
    BY <1>3, FoldingType DEF FoldUnserveable, FoldingRead, IInv
  <2>2. Drop(i) /\ task' = Cancelled(i)
    BY <1>3 DEF FoldUnserveable
  <2>3. QED
    BY <1>1, <2>1, <2>2, DropIInv
<1>4. CASE FoldRefused(i)
  <2>1. line' \in [Instances -> Seq(Events)] /\ incus' = incus /\ client' = client /\ ops' = ops
    BY <1>4, FoldingType DEF FoldRefused, FoldingRead, IInv
  <2>2. Drop(i) /\ task' = task
    BY <1>4 DEF FoldRefused
  <2>3. QED
    BY <1>1, <2>1, <2>2, DropIInv
<1>5. CASE FoldStarted(i)
  <2>1. line' \in [Instances -> Seq(Events)] /\ incus' = incus /\ client' = client /\ ops' = ops
          /\ line[i] # <<>>
    BY <1>5, FoldingType DEF FoldStarted, FoldingRead, IInv
  <2> DEFINE s == Saved(i)
             n == StartedNews(s)
  <2>2. s \in Instance /\ OwnedBy(i, s, task)
    BY <1>5, <2>1, SavedType DEF FoldStarted, FoldingRead
  <2>3. Hold(i, n) /\ task' = task
    BY <1>5 DEF FoldStarted
  <2> HIDE DEF s
  <2>4. n \in Instance /\ n.ctx = s.ctx /\ n.state \in {s.state, "idle"}
    BY <2>2, StartedType DEF StartedNews
  <2> HIDE DEF n
  <2>5. OwnedBy(i, n, task)
    BY <2>2, <2>4, OwnsStill
  <2>6. QED
    BY <1>1, <2>1, <2>3, <2>4, <2>5, HoldIInv
<1>6. CASE FoldStopped(i)
  <2>1. line' \in [Instances -> Seq(Events)] /\ incus' = incus /\ client' = client /\ ops' = ops
          /\ line[i] # <<>>
    BY <1>6, FoldingType DEF FoldStopped, FoldingRead, IInv
  <2> DEFINE s == Saved(i)
             n == StoppedUnasked(s)
  <2>2. s \in Instance /\ OwnedBy(i, s, task)
    BY <1>6, <2>1, SavedType DEF FoldStopped, FoldingRead
  <2>3. CASE Hold(i, n) /\ task' = task
    <3> HIDE DEF s
    <3>1. n \in Instance /\ n.ctx = s.ctx /\ n.state = "idle"
      BY <2>2, StoppedUnaskedType
    <3> HIDE DEF n
    <3>2. OwnedBy(i, n, task)
      BY <2>2, <3>1, OwnsStill
    <3>3. QED
      BY <1>1, <2>1, <2>3, <3>1, <3>2, HoldIInv
  <2>4. CASE Drop(i) /\ task' = Cancelled(i)
    BY <1>1, <2>1, <2>4, DropIInv
  <2>5. QED
    BY <1>6, <2>3, <2>4 DEF FoldStopped
<1>7. CASE FoldUpdated(i)
  <2>1. line' \in [Instances -> Seq(Events)] /\ incus' = incus /\ client' = client /\ ops' = ops
          /\ line[i] # <<>>
    BY <1>7, FoldingType DEF FoldUpdated, FoldingRead, IInv
  <2>2. Saved(i) \in Instance /\ OwnedBy(i, Saved(i), task)
    BY <1>7, <2>1, SavedType DEF FoldUpdated, FoldingRead
  <2>3. Hold(i, Saved(i)) /\ task' = task
    BY <1>7 DEF FoldUpdated
  <2>4. QED
    BY <1>1, <2>1, <2>2, <2>3, HoldIInv
<1>8. CASE FoldDeleted(i)
  <2>1. line' \in [Instances -> Seq(Events)] /\ incus' = incus /\ client' = client /\ ops' = ops
    BY <1>8, FoldingType DEF FoldDeleted, IInv
  <2>2. Drop(i) /\ task' = Cancelled(i)
    BY <1>8 DEF FoldDeleted
  <2>3. QED
    BY <1>1, <2>1, <2>2, DropIInv
<1>9. QED
  BY <1>2, <1>3, <1>4, <1>5, <1>6, <1>7, <1>8 DEF Fold

-----------------------------------------------------------------------------
(* The loop's own steps. *)

(* The world outside the loop is as it was. *)
LEMMA WorldType ==
    ASSUME TypeOK, UNCHANGED worldVars
    PROVE  /\ incus' \in [Instances -> Server]
           /\ line' \in [Instances -> Seq(Events)]
           /\ client' \in [Instances -> {"none", "stop", "start", "pause", "unpause"}]
           /\ ops' \in 0..MaxOps
BY DEF TypeOK, worldVars

(* A visit of runInstanceActions keeps the invariant: it gives an action   *)
(* up, submits one, is refused, or passes by.                              *)
LEMMA VisitIInv ==
    ASSUME IInv, NEW i \in todo, Visit(i)
    PROVE  IInv'
<1>1. /\ todo' \subseteq tracked' /\ tracked' = tracked /\ UNCHANGED worldVars
      /\ i \in tracked /\ i \in Instances
  BY DEF Visit, Abandon, Submit, Refuse, PassBy, Visiting, IInv, TypeOK
<1>2. inst[i] \in Instance /\ OwnedBy(i, inst[i], task)
  BY <1>1 DEF IInv, TypeOK, OwnedSlots
<1>3. CASE Abandon(i)
  <2>1. Abandoned(inst[i]) \in Instance /\ OwnedBy(i, Abandoned(inst[i]), task')
    BY <1>2, AbandonedType, OwnsNothing
  <2>2. inst' \in [Instances -> Instance] /\ inst'[i] = Abandoned(inst[i])
          /\ \A j \in tracked : j # i => inst'[j] = inst[j]
    BY <1>1, <1>3, <2>1 DEF Abandon, IInv, TypeOK
  <2>3. task' = Cancelled(i)
    BY <1>3 DEF Abandon
  <2>4. OwnedSlots'
    BY <1>1, <2>1, <2>2, <2>3, CancelledType DEF OwnedSlots
  <2>5. TypeOK'
    BY <1>1, <2>2, <2>3, CancelledType, WorldType DEF IInv, TypeOK
  <2>6. QED
    BY <2>4, <2>5 DEF IInv
<1>4. CASE Submit(i)
  <2> DEFINE t == FreshId
             k == Due(inst[i])
             n == NewTask(i, k)
             r == Submitted(inst[i], t)
  <2>1. t \in TaskIds /\ task[t] = FreeTask
    BY <1>4 DEF Submit, FreshId
  <2>2. /\ k \in {"check", "start"}
        /\ k = "check" => inst[i].action = "check"
        /\ k = "start" => inst[i].action = "start"
    BY <1>4 DEF Submit, Due
  <2>3. task' = [task EXCEPT ![t] = n] /\ inst' = [inst EXCEPT ![i] = r]
    BY <1>4 DEF Submit
  <2>4. n \in Tasks /\ n.of = i /\ n.kind = k /\ ~n.cancelled
    BY <1>1, <1>2, <2>2 DEF NewTask, Tasks, Instance, Config
  <2>5. /\ r \in Instance /\ r.ctx = t
        /\ r.state = IF inst[i].action = "check" THEN "checking" ELSE "restarting"
    BY <1>2, <2>1 DEF Submitted, Instance
  <2> HIDE DEF t, k, n, r
  <2>6. task' \in [TaskIds -> Tasks] /\ inst' \in [Instances -> Instance] /\ task'[t] = n
          /\ inst'[i] = r /\ \A j \in tracked : j # i => inst'[j] = inst[j]
    BY <1>1, <2>1, <2>3, <2>4, <2>5 DEF IInv, TypeOK
  <2>7. t # NoTask
    BY <2>1, HealthAssumption
  <2>8. OwnedBy(i, inst'[i], task')
    BY <2>2, <2>4, <2>5, <2>6, <2>7 DEF OwnedBy
  <2>9. ASSUME NEW j \in tracked, j # i
        PROVE  OwnedBy(j, inst'[j], task')
    <3>1. OwnedBy(j, inst[j], task) /\ inst'[j] = inst[j]
      BY <2>6, <2>9 DEF IInv, OwnedSlots
    <3>2. inst[j].ctx # NoTask => inst[j].ctx \in TaskIds /\ inst[j].ctx # t
      BY <2>1, <3>1, FreeTaskType DEF OwnedBy, IInv, TypeOK, Instance
    <3>3. inst[j].ctx # NoTask => task'[inst[j].ctx] = task[inst[j].ctx]
      BY <2>3, <3>2 DEF IInv, TypeOK
    <3>4. QED
      BY <3>1, <3>3, OwnsElsewhere
  <2>10. OwnedSlots'
    BY <1>1, <2>8, <2>9 DEF OwnedSlots
  <2>11. TypeOK'
    BY <1>1, <2>6, WorldType DEF IInv, TypeOK
  <2>12. QED
    BY <2>10, <2>11 DEF IInv
<1>5. CASE Refuse(i)
  <2> DEFINE r == [inst[i] EXCEPT !.due = FALSE]
  <2>1. r \in Instance /\ r.ctx = inst[i].ctx /\ r.state = inst[i].state
    BY <1>2 DEF Instance
  <2>2. inst' = [inst EXCEPT ![i] = r] /\ task' = task
    BY <1>1, <1>5 DEF Refuse, IInv, TypeOK
  <2> HIDE DEF r
  <2>3. OwnedBy(i, r, task)
    BY <1>2, <2>1, OwnsStill
  <2>4. inst' \in [Instances -> Instance] /\ inst'[i] = r
          /\ \A j \in tracked : j # i => inst'[j] = inst[j]
    BY <1>1, <2>1, <2>2 DEF IInv, TypeOK
  <2>5. OwnedSlots'
    BY <1>1, <2>2, <2>3, <2>4 DEF IInv, OwnedSlots
  <2>6. TypeOK'
    BY <1>1, <2>2, <2>4, WorldType DEF IInv, TypeOK
  <2>7. QED
    BY <2>5, <2>6 DEF IInv
<1>6. CASE PassBy(i)
  <2>1. inst' = inst /\ task' = task
    BY <1>6 DEF PassBy
  <2>2. QED
    BY <1>1, <2>1, WorldType DEF IInv, TypeOK, OwnedSlots
<1>7. QED
  BY <1>3, <1>4, <1>5, <1>6 DEF Visit

(* The timer only starts a walk. *)
LEMMA TimerIInv == ASSUME IInv, Timer PROVE IInv'
BY WorldType DEF Timer, IInv, TypeOK, OwnedSlots

(* Freeing a worker nobody holds the context of. *)
LEMMA FreedIInv ==
    ASSUME IInv, NEW t \in TaskIds, task' = [task EXCEPT ![t] = FreeTask],
           tracked' = tracked, todo' \subseteq tracked, UNCHANGED worldVars,
           inst' \in [Instances -> Instance],
           \A j \in tracked : OwnedBy(j, inst'[j], task) /\ inst'[j].ctx # t
    PROVE  IInv'
<1>1. task' \in [TaskIds -> Tasks]
  BY FreeTaskType DEF IInv, TypeOK
<1>2. ASSUME NEW j \in tracked
      PROVE  OwnedBy(j, inst'[j], task')
  <2>1. inst'[j].ctx # NoTask => inst'[j].ctx \in TaskIds
    BY DEF IInv, TypeOK, Instance
  <2>2. inst'[j].ctx # NoTask => task'[inst'[j].ctx] = task[inst'[j].ctx]
    BY <2>1 DEF IInv, TypeOK
  <2>3. QED
    BY <2>2, OwnsElsewhere
<1>3. TypeOK'
  BY <1>1, WorldType DEF IInv, TypeOK
<1>4. QED
  BY <1>2, <1>3 DEF IInv, OwnedSlots

(* Taking a result in keeps the invariant, whether the instance still      *)
(* holds its context or the result is stale.                               *)
LEMMA ReceiveIInv ==
    ASSUME IInv, NEW t \in TaskIds, Receive(t)
    PROVE  IInv'
<1>1. /\ task' = [task EXCEPT ![t] = FreeTask]
      /\ todo' = tracked /\ tracked' = tracked /\ UNCHANGED worldVars
  BY DEF Receive
<1>2. ASSUME NEW j \in tracked, inst[j].ctx = t
      PROVE  task[t].of = j /\ Current(t)
  BY <1>2, HealthAssumption DEF IInv, OwnedSlots, OwnedBy, Current
<1>3. CASE Current(t)
  <2> DEFINE i == task[t].of
             r == Applied(inst[i], task[t])
  <2>1. i \in tracked /\ i \in Instances /\ inst[i] \in Instance
    BY <1>3 DEF Current, IInv, TypeOK
  <2>2. inst' = [inst EXCEPT ![i] = r]
    BY <1>3 DEF Receive
  <2>3. r \in Instance /\ r.ctx = NoTask /\ r.state \in {"idle", "parked"}
    BY <2>1, CheckedType, RestartedType DEF Applied
  <2> HIDE DEF r
  <2>4. inst' \in [Instances -> Instance] /\ inst'[i] = r
          /\ \A j \in tracked : j # i => inst'[j] = inst[j]
    BY <2>1, <2>2, <2>3 DEF IInv, TypeOK
  <2>5. ASSUME NEW j \in tracked
        PROVE  OwnedBy(j, inst'[j], task) /\ inst'[j].ctx # t
    <3>1. CASE j = i
      BY <2>3, <2>4, <3>1, OwnsNothing, HealthAssumption
    <3>2. CASE j # i
      BY <1>2, <2>4, <3>2 DEF IInv, OwnedSlots
    <3>3. QED
      BY <3>1, <3>2
  <2>6. QED
    BY <1>1, <2>4, <2>5, FreedIInv
<1>4. CASE ~Current(t)
  <2>1. inst' = inst
    BY <1>4 DEF Receive
  <2>2. \A j \in tracked : OwnedBy(j, inst'[j], task) /\ inst'[j].ctx # t
    BY <1>2, <1>4, <2>1 DEF IInv, OwnedSlots
  <2>3. inst' \in [Instances -> Instance]
    BY <2>1 DEF IInv, TypeOK
  <2>4. QED
    BY <1>1, <2>2, <2>3, FreedIInv
<1>5. QED
  BY <1>3, <1>4

(* A cancelled worker may go: no instance holds its context. *)
LEMMA GiveUpIInv ==
    ASSUME IInv, NEW t \in TaskIds, GiveUp(t)
    PROVE  IInv'
<1>1. /\ task' = [task EXCEPT ![t] = FreeTask] /\ task[t].cancelled
      /\ todo' = todo /\ tracked' = tracked /\ inst' = inst /\ UNCHANGED worldVars
  BY DEF GiveUp
<1>2. \A j \in tracked : OwnedBy(j, inst'[j], task) /\ inst'[j].ctx # t
  BY <1>1, HealthAssumption DEF IInv, OwnedSlots, OwnedBy
<1>3. inst' \in [Instances -> Instance] /\ todo' \subseteq tracked
  BY <1>1 DEF IInv, TypeOK
<1>4. QED
  BY <1>1, <1>2, <1>3, FreedIInv

-----------------------------------------------------------------------------
(* The world's steps. *)

(* Announcing an event keeps the lines well typed. *)
LEMMA EmitType ==
    ASSUME TypeOK, NEW i \in Instances, NEW a \in {"started", "stopped", "updated", "deleted"}, Emit(i, a)
    PROVE  line' \in [Instances -> Seq(Events)]
<1>1. line[i] \in Seq(Events) /\ Event(a) \in Events
  BY EventType DEF TypeOK
<1>2. Append(line[i], Event(a)) \in Seq(Events)
  BY <1>1
<1>3. QED
  BY <1>2 DEF Emit, TypeOK

(* A change of power keeps the record of the server well typed. *)
LEMMA PowerType ==
    ASSUME TypeOK, NEW i \in Instances, NEW p \in {"stopped", "running", "frozen"}
    PROVE  [incus EXCEPT ![i].power = p] \in [Instances -> Server]
<1>1. [incus[i] EXCEPT !.power = p] \in Server
  BY DEF TypeOK, Server
<1>2. QED
  BY <1>1 DEF TypeOK

(* A change of power and its event keep server and lines well typed. *)
LEMMA SetPowerType ==
    ASSUME TypeOK, NEW i \in Instances, NEW p \in {"stopped", "running"},
           NEW a \in {"started", "stopped"}, SetPower(i, p, a)
    PROVE  incus' \in [Instances -> Server] /\ line' \in [Instances -> Seq(Events)]
BY EmitType, PowerType DEF SetPower

(* Writing the marker and its event keep server and lines well typed. *)
LEMMA MarkType ==
    ASSUME TypeOK, NEW i \in Instances, NEW value \in BOOLEAN, Mark(i, value)
    PROVE  incus' \in [Instances -> Server] /\ line' \in [Instances -> Seq(Events)]
<1>1. [incus[i] EXCEPT !.intent = value] \in Server
  BY DEF TypeOK, Server
<1>2. incus' \in [Instances -> Server]
  BY <1>1 DEF Mark, TypeOK
<1>3. line' \in [Instances -> Seq(Events)]
  BY EmitType DEF Mark, TypeOK
<1>4. QED
  BY <1>2, <1>3

(* The bound on operations is kept. *)
LEMMA SpendType ==
    ASSUME TypeOK, NEW op, Spend(op)
    PROVE  ops' \in 0..MaxOps
BY CheckerAssumption DEF TypeOK, Spend

(* A worker moves on from one call to the next: it keeps the action it is. *)
LEMMA CallIInv ==
    ASSUME IInv, NEW t \in TaskIds, Call(t)
    PROVE  IInv'
<1> DEFINE Moved == \E s \in {"state", "exec", "stop", "start", "done"},
                      e \in {"ok", "fail", "notRunning", "intent"} :
                      task' = [task EXCEPT ![t] = [task[t] EXCEPT !.step = s, !.err = e]]
<1>1. task \in [TaskIds -> Tasks] /\ task[t] \in Tasks /\ task[t].of \in Instances
  BY DEF IInv, TypeOK, Tasks
<1>2. ASSUME NEW s \in {"state", "exec", "stop", "start", "done"}, Step(t, s)
      PROVE  Moved
  <2>1. task[t].err \in {"ok", "fail", "notRunning", "intent"}
    BY <1>1 DEF Tasks
  <2>2. [task[t] EXCEPT !.step = s] = [task[t] EXCEPT !.step = s, !.err = task[t].err]
    BY <1>1 DEF Tasks
  <2>3. task' = [task EXCEPT ![t] = [task[t] EXCEPT !.step = s, !.err = task[t].err]]
    BY <1>1, <1>2, <2>2 DEF Step
  <2>4. QED
    BY <2>1, <2>3
<1>3. ASSUME NEW e \in {"ok", "fail", "notRunning", "intent"}, Finish(t, e)
      PROVE  Moved
  BY <1>1, <1>3 DEF Finish
<1>4. Moved
  <2>1. CASE CallFails(t)
    BY <1>3, <2>1 DEF CallFails
  <2>2. CASE RestartGet(t)
    BY <1>2, <1>3, <2>2 DEF RestartGet
  <2>3. CASE RestartState(t)
    BY <1>2, <2>3 DEF RestartState
  <2>4. CASE RestartStop(t)
    BY <1>2, <1>3, <2>4 DEF RestartStop
  <2>5. CASE RestartStart(t)
    BY <1>3, <2>5 DEF RestartStart
  <2>6. CASE CheckState(t)
    BY <1>2, <1>3, <2>6 DEF CheckState
  <2>7. CASE CheckExec(t)
    BY <1>3, <2>7 DEF CheckExec
  <2>8. QED
    BY <2>1, <2>2, <2>3, <2>4, <2>5, <2>6, <2>7 DEF Call
<1>5. incus' \in [Instances -> Server] /\ line' \in [Instances -> Seq(Events)]
  <2>1. CASE NoChange
    BY <2>1 DEF NoChange, IInv, TypeOK
  <2>2. CASE RestartStop(t)
    BY <1>1, <2>1, <2>2, SetPowerType DEF RestartStop, IInv
  <2>3. CASE RestartStart(t)
    BY <1>1, <2>1, <2>3, SetPowerType DEF RestartStart, IInv
  <2>4. QED
    BY <2>1, <2>2, <2>3 DEF Call, CallFails, RestartGet, RestartState, CheckState, CheckExec
<1>6. ops' \in 0..MaxOps
  BY SpendType DEF Call, CallFails, RestartGet, RestartState, RestartStop, RestartStart,
                   CheckState, CheckExec, Fault, IInv, TypeOK
<1>7. /\ task' \in [TaskIds -> Tasks]
      /\ \A u \in TaskIds : /\ task'[u].of = task[u].of /\ task'[u].kind = task[u].kind
                            /\ task'[u].cancelled = task[u].cancelled
  <2>1. PICK s \in {"state", "exec", "stop", "start", "done"},
             e \in {"ok", "fail", "notRunning", "intent"} :
             task' = [task EXCEPT ![t] = [task[t] EXCEPT !.step = s, !.err = e]]
    BY <1>4
  <2> DEFINE m == [task[t] EXCEPT !.step = s, !.err = e]
  <2>2. m \in Tasks /\ m.of = task[t].of /\ m.kind = task[t].kind /\ m.cancelled = task[t].cancelled
    BY <1>1 DEF Tasks
  <2> HIDE DEF m
  <2>3. task' = [task EXCEPT ![t] = m]
    BY <2>1 DEF m
  <2>4. QED
    BY <1>1, <2>2, <2>3
<1>8. tracked' = tracked /\ inst' = inst /\ todo' = todo /\ client' = client
  BY DEF Call
<1>9. ASSUME NEW j \in tracked'
      PROVE  OwnedBy(j, inst'[j], task')
  <2>1. OwnedBy(j, inst[j], task)
    BY <1>8 DEF IInv, OwnedSlots
  <2>2. inst[j].ctx # NoTask => inst[j].ctx \in TaskIds
    BY <1>8 DEF IInv, TypeOK, Instance
  <2>3. QED
    BY <1>7, <1>8, <2>1, <2>2, OwnsElsewhere
<1>10. TypeOK'
  BY <1>5, <1>6, <1>7, <1>8 DEF IInv, TypeOK
<1>11. QED
  BY <1>9, <1>10 DEF IInv, OwnedSlots

(* One read answers every event of the instance that waits for one. *)
LEMMA EnrichIInv ==
    ASSUME IInv, NEW i \in Instances, Enrich(i)
    PROVE  IInv'
<1>1. line[i] \in Seq(Events) /\ incus[i] \in Server
  BY DEF IInv, TypeOK
<1>2. ASSUME NEW s \in [kind: {"gone", "read"}, running: BOOLEAN, raw: RawConfigs]
      PROVE  Settled(i, s) \in Seq(Events)
  <2>1. \A k \in DOMAIN line[i] : line[i][k] \in Events
    BY <1>1
  <2>2. \A k \in DOMAIN line[i] : [line[i][k] EXCEPT !.read = s] \in Events
    BY <2>1 DEF Events, Reads
  <2>3. DOMAIN line[i] = 1..Len(line[i]) /\ Len(line[i]) \in Nat
    BY <1>1
  <2>4. Settled(i, s) \in [1..Len(line[i]) -> Events]
    BY <2>1, <2>2, <2>3 DEF Settled
  <2>5. QED
    BY <2>3, <2>4
<1>3. /\ Snapshot(i) \in [kind: {"gone", "read"}, running: BOOLEAN, raw: RawConfigs]
      /\ [Snapshot(i) EXCEPT !.kind = "gone"] \in [kind: {"gone", "read"}, running: BOOLEAN, raw: RawConfigs]
  BY <1>1 DEF Snapshot, Server
<1>4. line' \in [Instances -> Seq(Events)]
  BY <1>2, <1>3 DEF Enrich, IInv, TypeOK
<1>5. ops' \in 0..MaxOps
  BY SpendType DEF Enrich, Fault, IInv, TypeOK
<1>6. QED
  BY <1>4, <1>5 DEF Enrich, IInv, TypeOK, OwnedSlots

(* The daemon's own state is out of the world's reach. *)
LEMMA OutsideIInv ==
    ASSUME IInv, UNCHANGED <<tracked, inst, todo, task>>,
           incus' \in [Instances -> Server], line' \in [Instances -> Seq(Events)],
           client' \in [Instances -> {"none", "stop", "start", "pause", "unpause"}], ops' \in 0..MaxOps
    PROVE  IInv'
BY DEF IInv, TypeOK, OwnedSlots

(* What the world does to an instance keeps the invariant. *)
LEMMA EnvironmentIInv ==
    ASSUME IInv, NEW i \in Instances, Environment(i)
    PROVE  IInv'
<1>1. ASSUME NEW op, World(i, op)
      PROVE  UNCHANGED <<tracked, inst, todo, task>> /\ ops' \in 0..MaxOps
  BY <1>1, SpendType DEF World, IInv
<1>2. incus[i] \in Server /\ incus \in [Instances -> Server]
  BY DEF IInv, TypeOK
<1>3. client \in [Instances -> {"none", "stop", "start", "pause", "unpause"}]
        /\ line \in [Instances -> Seq(Events)]
  BY DEF IInv, TypeOK
<1>4. CASE Crash(i)
  BY <1>1, <1>3, <1>4, SetPowerType, OutsideIInv DEF Crash, IInv
<1>5. CASE Delete(i)
  <2>1. [incus[i] EXCEPT !.power = "absent", !.intent = FALSE] \in Server
    BY <1>2 DEF Server
  <2>2. incus' \in [Instances -> Server]
    BY <1>2, <1>5, <2>1 DEF Delete
  <2>3. QED
    BY <1>1, <1>3, <1>5, <2>2, EmitType, OutsideIInv DEF Delete, IInv
<1>6. CASE ClientStops(i) \/ ClientStarts(i) \/ ClientPauses(i)
  <2>1. ASSUME NEW c \in {"stop", "start", "pause"}, NEW from, NEW value \in BOOLEAN,
               Begin(i, c, from, value)
        PROVE  IInv'
    BY <1>1, <1>3, <2>1, MarkType, OutsideIInv DEF Begin, IInv
  <2>2. QED
    BY <1>6, <2>1 DEF ClientStops, ClientStarts, ClientPauses
<1>7. CASE ClientUnpauses(i)
  BY <1>1, <1>3, <1>7, SetPowerType, OutsideIInv DEF ClientUnpauses, IInv
<1>8. ASSUME NEW c \in RawConfigs, Update(i, c)
      PROVE  IInv'
  <2>1. [incus[i] EXCEPT !.raw = c] \in Server
    BY <1>2 DEF Server
  <2>2. incus' \in [Instances -> Server]
    BY <1>2, <1>8, <2>1 DEF Update
  <2>3. QED
    BY <1>1, <1>3, <1>8, <2>2, EmitType, OutsideIInv DEF Update, IInv
<1>9. ASSUME NEW c \in RawConfigs, Create(i, c)
      PROVE  IInv'
  <2>1. [power |-> "stopped", raw |-> c, intent |-> TRUE] \in Server
    BY DEF Server
  <2>2. incus' \in [Instances -> Server]
    BY <1>2, <1>9, <2>1 DEF Create
  <2>3. QED
    BY <1>1, <1>3, <1>9, <2>2, OutsideIInv DEF Create
<1>10. QED
  BY <1>4, <1>5, <1>6, <1>7, <1>8, <1>9 DEF Environment

(* The second half of a compose command keeps the invariant. *)
LEMMA ClientFinishesIInv ==
    ASSUME IInv, NEW i \in Instances, ClientFinishes(i)
    PROVE  IInv'
<1>1. incus' \in [Instances -> Server] /\ line' \in [Instances -> Seq(Events)]
  <2>1. CASE SetPower(i, "stopped", "stopped") \/ SetPower(i, "running", "started")
    BY <2>1, SetPowerType DEF IInv
  <2>2. CASE incus' = [incus EXCEPT ![i].power = "frozen"] /\ UNCHANGED line
    BY <2>2, PowerType DEF IInv, TypeOK
  <2>3. CASE Mark(i, FALSE)
    BY <2>3, MarkType DEF IInv
  <2>4. CASE NoChange
    BY <2>4 DEF NoChange, IInv, TypeOK
  <2>5. QED
    BY <2>1, <2>2, <2>3, <2>4 DEF ClientFinishes
<1>2. /\ client' \in [Instances -> {"none", "stop", "start", "pause", "unpause"}]
      /\ UNCHANGED <<tracked, inst, todo, task>> /\ ops' \in 0..MaxOps
  BY DEF ClientFinishes, IInv, TypeOK
<1>3. QED
  BY <1>1, <1>2, OutsideIInv

(* Time passing sets a flag of an instance. *)
LEMMA ClockIInv ==
    ASSUME IInv, NEW i \in Instances, DuePasses(i) \/ DeadlinePasses(i) \/ StartPeriodPasses(i)
    PROVE  IInv'
<1>1. PICK f \in {"due", "over", "startOver"} : Clock(i, f)
  BY DEF DuePasses, DeadlinePasses, StartPeriodPasses
<1>2. ops' \in 0..MaxOps
  BY SpendType DEF DuePasses, DeadlinePasses, StartPeriodPasses, Fault, IInv, TypeOK
<1> DEFINE r == [inst[i] EXCEPT ![f] = TRUE]
<1>3. inst[i] \in Instance /\ inst \in [Instances -> Instance]
  BY DEF IInv, TypeOK
<1>4. r \in Instance /\ r.ctx = inst[i].ctx /\ r.state = inst[i].state
  <2>1. CASE f = "due"
    BY <1>3, <2>1 DEF Instance
  <2>2. CASE f = "over"
    BY <1>3, <2>2 DEF Instance
  <2>3. CASE f = "startOver"
    BY <1>3, <2>3 DEF Instance
  <2>4. QED
    BY <2>1, <2>2, <2>3
<1>5. inst' = [inst EXCEPT ![i] = r]
  BY <1>1, <1>3 DEF Clock
<1> HIDE DEF r
<1>6. i \in tracked /\ OwnedBy(i, r, task)
  BY <1>1, <1>4, OwnsStill DEF Clock, IInv, OwnedSlots
<1>7. inst' \in [Instances -> Instance] /\ inst'[i] = r /\ \A j \in tracked : j # i => inst'[j] = inst[j]
  BY <1>3, <1>4, <1>5 DEF IInv, TypeOK
<1>8. UNCHANGED <<tracked, todo, task, incus, line, client>>
  BY <1>1 DEF Clock
<1>9. OwnedSlots'
  BY <1>6, <1>7, <1>8 DEF IInv, OwnedSlots
<1>10. TypeOK'
  BY <1>2, <1>7, <1>8 DEF IInv, TypeOK
<1>11. QED
  BY <1>9, <1>10 DEF IInv

-----------------------------------------------------------------------------
(* Every step keeps the invariant. *)
LEMMA NextIInv == IInv /\ [Next]_vars => IInv'
<1> SUFFICES ASSUME IInv, [Next]_vars PROVE IInv'
  OBVIOUS
<1>1. CASE UNCHANGED vars
  BY <1>1 DEF vars, IInv, TypeOK, OwnedSlots
<1>2. ASSUME NEW i \in todo, Visit(i) PROVE IInv'
  BY <1>2, VisitIInv
<1>3. CASE Timer
  BY <1>3, TimerIInv
<1>4. ASSUME NEW t \in TaskIds, Receive(t) \/ Call(t) \/ GiveUp(t) PROVE IInv'
  BY <1>4, ReceiveIInv, CallIInv, GiveUpIInv
<1>5. ASSUME NEW i \in Instances,
             \/ Fold(i) \/ Enrich(i)
             \/ DuePasses(i) \/ DeadlinePasses(i) \/ StartPeriodPasses(i)
             \/ ClientFinishes(i) \/ Environment(i)
      PROVE  IInv'
  BY <1>5, FoldIInv, EnrichIInv, ClockIInv, ClientFinishesIInv, EnvironmentIInv
<1>6. QED
  BY <1>1, <1>2, <1>3, <1>4, <1>5 DEF Next

(* Every reachable state of the checker and its world is well typed. *)
THEOREM TypeCorrect == Spec => []TypeOK
<1>1. IInv => TypeOK
  BY DEF IInv
<1>2. QED
  BY InitIInv, NextIInv, <1>1, PTL DEF Spec

(* No slot is ever orphaned: an instance that counts as checking or as     *)
(* restarting holds the context of a live worker of that kind which works  *)
(* for it, whatever order events, results and deadlines come in.           *)
THEOREM SlotsOwned == Spec => []OwnedSlots
<1>1. IInv => OwnedSlots
  BY DEF IInv
<1>2. QED
  BY InitIInv, NextIInv, <1>1, PTL DEF Spec

-----------------------------------------------------------------------------
(* What every step does to the backoff and to the queue of an instance. *)

(* The delay of a watched instance shrinks only when it is earned, and a   *)
(* restart enters its queue only under a policy or as a retry.             *)
DelayKept(i) ==
    i \in tracked /\ i \in tracked' => inst'[i].delay >= inst[i].delay \/ Earned(i)
QueueKept(i) ==
    i \in tracked' /\ inst'[i].action = "start"
        => inst[i].action = "start" \/ inst'[i].cfg.restart \/ Retried(i)
Promised(i) == DelayKept(i) /\ QueueKept(i)

(* A step that leaves an instance alone keeps both promises to it. *)
LEMMA AlonePromised ==
    ASSUME TypeOK, NEW i \in Instances, inst'[i] = inst[i]
    PROVE  Promised(i)
<1>1. inst[i].delay \in Int
  BY DelayInt DEF TypeOK
<1>2. QED
  BY <1>1 DEF Promised, DelayKept, QueueKept

(* A step that rewrites one instance keeps them to all the others. *)
LEMMA OneRewritten ==
    ASSUME TypeOK, NEW i \in Instances, NEW r, inst' = [inst EXCEPT ![i] = r],
           Promised(i)
    PROVE  \A j \in Instances : Promised(j)
<1> SUFFICES ASSUME NEW j \in Instances, j # i PROVE Promised(j)
  OBVIOUS
<1>1. inst'[j] = inst[j]
  BY DEF TypeOK
<1>2. QED
  BY <1>1, AlonePromised

(* A visit: the watchdog backs off or queues under a policy, and neither a *)
(* submission nor a refusal touches delay or queue.                        *)
LEMMA VisitPromised ==
    ASSUME IInv, NEW i \in todo, Visit(i)
    PROVE  \A j \in Instances : Promised(j)
<1>1. TypeOK /\ i \in Instances /\ inst[i] \in Instance /\ inst \in [Instances -> Instance]
  BY DEF IInv, TypeOK
<1>2. ASSUME NEW r, inst' = [inst EXCEPT ![i] = r],
             r.delay >= inst[i].delay, r.action = "start" => inst[i].action = "start" \/ r.cfg.restart
      PROVE  \A j \in Instances : Promised(j)
  <2>1. inst'[i] = r
    BY <1>1, <1>2
  <2>2. Promised(i)
    BY <1>2, <2>1 DEF Promised, DelayKept, QueueKept
  <2>3. QED
    BY <1>1, <1>2, <2>2, OneRewritten
<1>3. inst[i].delay \in Int
  BY <1>1, DelayInt
<1>4. CASE Abandon(i)
  <2>1. inst' = [inst EXCEPT ![i] = Abandoned(inst[i])]
    BY <1>1, <1>4 DEF Abandon
  <2>2. Steady(inst[i], Abandoned(inst[i]))
    BY <1>1, AbandonedSteady
  <2>3. QED
    BY <1>2, <2>1, <2>2 DEF Steady
<1>5. CASE Submit(i)
  <2> DEFINE r == Submitted(inst[i], FreshId)
  <2>1. inst' = [inst EXCEPT ![i] = r]
    BY <1>1, <1>5 DEF Submit
  <2>2. r.delay = inst[i].delay /\ r.action = inst[i].action
    BY <1>1 DEF Submitted, Instance
  <2> HIDE DEF r
  <2>3. r.delay >= inst[i].delay
    BY <1>3, <2>2
  <2>4. QED
    BY <1>2, <2>1, <2>2, <2>3
<1>6. CASE Refuse(i)
  <2> DEFINE r == [inst[i] EXCEPT !.due = FALSE]
  <2>1. inst' = [inst EXCEPT ![i] = r]
    BY <1>1, <1>6 DEF Refuse
  <2>2. r.delay = inst[i].delay /\ r.action = inst[i].action
    BY <1>1 DEF Instance
  <2> HIDE DEF r
  <2>3. r.delay >= inst[i].delay
    BY <1>3, <2>2
  <2>4. QED
    BY <1>2, <2>1, <2>2, <2>3
<1>7. CASE PassBy(i)
  BY <1>1, <1>7, AlonePromised DEF PassBy
<1>8. QED
  BY <1>4, <1>5, <1>6, <1>7 DEF Visit

(* A result: only a probe of the instance's own that succeeded resets the  *)
(* delay, and only its own restart queues another whatever the policy.     *)
LEMMA ReceivePromised ==
    ASSUME IInv, NEW t \in TaskIds, Receive(t)
    PROVE  \A j \in Instances : Promised(j)
<1>1. TypeOK
  BY DEF IInv
<1>2. CASE ~Current(t)
  BY <1>1, <1>2, AlonePromised DEF Receive
<1>3. CASE Current(t)
  <2> DEFINE i == task[t].of
             r == Applied(inst[i], task[t])
  <2>1. i \in tracked /\ i \in Instances /\ inst[i] \in Instance
    BY <1>1, <1>3 DEF Current, TypeOK
  <2>2. task[t].step = "done" /\ task[t].kind \in {"check", "start"}
    <3>1. OwnedBy(i, inst[i], task) /\ inst[i].ctx = t
      BY <1>3, <2>1 DEF Current, IInv, OwnedSlots
    <3>2. task[t].kind # "none"
      BY <3>1, HealthAssumption DEF OwnedBy
    <3>3. task[t] \in Tasks
      BY <1>1 DEF TypeOK
    <3>4. QED
      BY <3>2, <3>3 DEF Receive, Tasks
  <2>3. inst' = [inst EXCEPT ![i] = r]
    BY <1>3 DEF Receive
  <2>4. inst'[i] = r
    BY <1>1, <2>1, <2>3 DEF TypeOK
  <2>5. CASE task[t].kind = "check"
    <3>1. r = Checked(inst[i], task[t].err)
      BY <2>5 DEF Applied
    <3>2. /\ task[t].err # "ok" => r.delay >= inst[i].delay
          /\ r.action = "start" => inst[i].action = "start" \/ r.cfg.restart
      BY <2>1, <3>1, CheckedSteady
    <3>3. task[t].err = "ok" => Earned(i)
      BY <1>3, <2>2, <2>5 DEF Earned, At
    <3> HIDE DEF r
    <3>4. Promised(i)
      BY <2>4, <3>2, <3>3 DEF Promised, DelayKept, QueueKept
    <3>5. QED
      BY <1>1, <2>1, <2>3, <3>4, OneRewritten
  <2>6. CASE task[t].kind = "start"
    <3>1. r = Restarted(inst[i], task[t].err)
      BY <2>6 DEF Applied
    <3>2. r.delay >= inst[i].delay
      BY <2>1, <3>1, RestartedSteady
    <3>3. Retried(i)
      BY <1>3, <2>2, <2>6 DEF Retried, At
    <3> HIDE DEF r
    <3>4. Promised(i)
      BY <2>4, <3>2, <3>3 DEF Promised, DelayKept, QueueKept
    <3>5. QED
      BY <1>1, <2>1, <2>3, <3>4, OneRewritten
  <2>7. QED
    BY <2>2, <2>5, <2>6
<1>4. QED
  BY <1>2, <1>3

(* What an accepted event saves of a watched instance keeps its delay; of  *)
(* any instance it queues no restart that was not queued.                  *)
LEMMA SavedSteady ==
    ASSUME IInv, NEW i \in Instances, line[i] # <<>>, Seen(i).kind = "read", Accepted(i)
    PROVE  /\ i \in tracked => Saved(i).delay = inst[i].delay
           /\ Saved(i).action = "start" => i \in tracked /\ inst[i].action = "start"
<1>1. inst[i] \in Instance /\ Seen(i).running \in BOOLEAN
  BY SeenType DEF IInv, TypeOK
<1>2. CASE i \in tracked
  <2>1. Saved(i).delay = inst[i].delay /\ Saved(i).action \in {inst[i].action, "check", ""}
    BY <1>1, <1>2, SaveSteady DEF Saved, SaveInstance
  <2>2. QED
    BY <1>2, <2>1
<1>3. CASE i \notin tracked
  BY <1>3 DEF Saved, SaveInstance, NewInstance
<1>4. QED
  BY <1>2, <1>3

(* An event: a start resets no backoff, a stop queues a restart under a    *)
(* policy only, and an instance that leaves the map is promised nothing.   *)
LEMMA FoldPromised ==
    ASSUME IInv, NEW i \in Instances, Fold(i)
    PROVE  \A j \in Instances : Promised(j)
<1>1. TypeOK /\ inst \in [Instances -> Instance] /\ tracked \subseteq Instances
  BY DEF IInv, TypeOK
<1>2. CASE FoldUnread(i)
  BY <1>1, <1>2, AlonePromised DEF FoldUnread
<1>3. ASSUME Drop(i)
      PROVE  \A j \in Instances : Promised(j)
  <2>1. Promised(i)
    BY <1>3 DEF Drop, Promised, DelayKept, QueueKept
  <2>2. QED
    BY <1>1, <1>3, <2>1, OneRewritten DEF Drop
<1>4. CASE FoldUnserveable(i) \/ FoldRefused(i) \/ FoldDeleted(i)
  BY <1>3, <1>4 DEF FoldUnserveable, FoldRefused, FoldDeleted
<1>5. ASSUME NEW r, Hold(i, r), i \in tracked => r.delay >= inst[i].delay,
             r.action = "start" => inst[i].action = "start" \/ r.cfg.restart
      PROVE  \A j \in Instances : Promised(j)
  <2>1. inst'[i] = r
    BY <1>1, <1>5 DEF Hold
  <2>2. Promised(i)
    BY <1>5, <2>1 DEF Promised, DelayKept, QueueKept
  <2>3. QED
    BY <1>1, <1>5, <2>2, OneRewritten DEF Hold
<1>6. ASSUME FoldStarted(i) \/ FoldStopped(i) \/ FoldUpdated(i)
      PROVE  /\ Saved(i) \in Instance
             /\ i \in tracked => Saved(i).delay = inst[i].delay
             /\ Saved(i).action = "start" => i \in tracked /\ inst[i].action = "start"
             /\ i \in tracked => inst[i].delay \in Int
  <2>1. line[i] # <<>> /\ Seen(i).kind = "read" /\ Accepted(i)
    BY <1>6 DEF FoldStarted, FoldStopped, FoldUpdated, FoldingRead, Folding
  <2>2. QED
    BY <1>1, <2>1, SavedType, SavedSteady, DelayInt
<1>7. CASE FoldStarted(i)
  <2> DEFINE s == Saved(i)
             n == StartedNews(s)
  <2>1. Hold(i, n)
    BY <1>7 DEF FoldStarted
  <2>2. /\ s \in Instance
        /\ i \in tracked => s.delay = inst[i].delay
        /\ s.action = "start" => inst[i].action = "start"
        /\ i \in tracked => inst[i].delay \in Int
    BY <1>6, <1>7
  <2> HIDE DEF s
  <2>3. n = s \/ n = InstanceStarted(s)
    BY DEF StartedNews
  <2>4. InstanceStarted(s).delay >= s.delay
    BY <2>2, StartedSteady DEF Steady
  <2>5. InstanceStarted(s).action = "check"
    BY <2>2 DEF InstanceStarted, SetRunning, Instance
  <2>6. ASSUME i \in tracked PROVE n.delay >= inst[i].delay
    <3>1. s.delay = inst[i].delay /\ inst[i].delay \in Int
      BY <2>2, <2>6
    <3>2. CASE n = s
      BY <3>1, <3>2
    <3>3. CASE n = InstanceStarted(s)
      BY <2>4, <3>1, <3>3
    <3>4. QED
      BY <2>3, <3>2, <3>3
  <2>7. n.action = "start" => inst[i].action = "start"
    BY <2>2, <2>3, <2>5
  <2> HIDE DEF n
  <2>8. QED
    BY <1>5, <2>1, <2>6, <2>7
<1>8. CASE FoldStopped(i)
  <2> DEFINE s == Saved(i)
             n == StoppedUnasked(s)
  <2>1. CASE s.cfg.restart /\ Hold(i, n)
    <3>1. /\ s \in Instance
          /\ i \in tracked => s.delay = inst[i].delay /\ inst[i].delay \in Int
      BY <1>6, <1>8
    <3> HIDE DEF s
    <3>2. n.delay >= s.delay /\ n.cfg = s.cfg
      BY <1>6, <1>8, StoppedUnaskedSteady DEF s
    <3> HIDE DEF n
    <3>3. i \in tracked => n.delay >= inst[i].delay
      BY <3>1, <3>2
    <3>4. n.action = "start" => n.cfg.restart
      BY <2>1, <3>2
    <3>5. QED
      BY <1>5, <2>1, <3>3, <3>4
  <2>2. QED
    BY <1>3, <1>8, <2>1 DEF FoldStopped
<1>9. CASE FoldUpdated(i)
  <2> DEFINE s == Saved(i)
  <2>1. Hold(i, s)
    BY <1>9 DEF FoldUpdated
  <2>2. /\ i \in tracked => s.delay = inst[i].delay /\ inst[i].delay \in Int
        /\ s.action = "start" => inst[i].action = "start"
    BY <1>6, <1>9
  <2> HIDE DEF s
  <2>3. i \in tracked => s.delay >= inst[i].delay
    BY <2>2
  <2>4. QED
    BY <1>5, <2>1, <2>2, <2>3
<1>10. QED
  BY <1>2, <1>4, <1>7, <1>8, <1>9 DEF Fold

(* Time passing touches neither delay nor queue. *)
LEMMA ClockPromised ==
    ASSUME IInv, NEW i \in Instances, DuePasses(i) \/ DeadlinePasses(i) \/ StartPeriodPasses(i)
    PROVE  \A j \in Instances : Promised(j)
<1>1. PICK f \in {"due", "over", "startOver"} : Clock(i, f)
  BY DEF DuePasses, DeadlinePasses, StartPeriodPasses
<1> DEFINE r == [inst[i] EXCEPT ![f] = TRUE]
<1>2. TypeOK /\ inst[i] \in Instance /\ inst[i].delay \in Int /\ inst \in [Instances -> Instance]
  BY DelayInt DEF IInv, TypeOK
<1>3. r.delay = inst[i].delay /\ r.action = inst[i].action
  <2>1. CASE f = "due"
    BY <1>2, <2>1 DEF Instance
  <2>2. CASE f = "over"
    BY <1>2, <2>2 DEF Instance
  <2>3. CASE f = "startOver"
    BY <1>2, <2>3 DEF Instance
  <2>4. QED
    BY <2>1, <2>2, <2>3
<1>4. inst' = [inst EXCEPT ![i] = r]
  BY <1>1, <1>2 DEF Clock
<1> HIDE DEF r
<1>5. inst'[i] = r
  BY <1>2, <1>4
<1>6. Promised(i)
  BY <1>2, <1>3, <1>5 DEF Promised, DelayKept, QueueKept
<1>7. QED
  BY <1>2, <1>4, <1>6, OneRewritten

(* Every step keeps both promises to every instance. *)
LEMMA NextPromised == IInv /\ [Next]_vars => \A j \in Instances : Promised(j)
<1> SUFFICES ASSUME IInv, [Next]_vars PROVE \A j \in Instances : Promised(j)
  OBVIOUS
<1>1. ASSUME inst' = inst PROVE \A j \in Instances : Promised(j)
  BY <1>1, AlonePromised DEF IInv
<1>2. CASE UNCHANGED vars
  BY <1>1, <1>2 DEF vars
<1>3. ASSUME NEW i \in todo, Visit(i) PROVE \A j \in Instances : Promised(j)
  BY <1>3, VisitPromised
<1>4. CASE Timer
  BY <1>1, <1>4 DEF Timer
<1>5. ASSUME NEW t \in TaskIds, Receive(t) \/ Call(t) \/ GiveUp(t)
      PROVE  \A j \in Instances : Promised(j)
  BY <1>1, <1>5, ReceivePromised DEF Call, GiveUp
<1>6. ASSUME NEW i \in Instances, Enrich(i) \/ ClientFinishes(i) \/ Environment(i)
      PROVE  \A j \in Instances : Promised(j)
  <2>1. inst' = inst
    BY <1>6 DEF Enrich, ClientFinishes, Environment, World, Crash, Delete, ClientStops,
                ClientStarts, ClientPauses, ClientUnpauses, Begin, Update, Create
  <2>2. QED
    BY <1>1, <2>1
<1>7. ASSUME NEW i \in Instances,
             Fold(i) \/ DuePasses(i) \/ DeadlinePasses(i) \/ StartPeriodPasses(i)
      PROVE  \A j \in Instances : Promised(j)
  BY <1>7, FoldPromised, ClockPromised
<1>8. QED
  BY <1>2, <1>3, <1>4, <1>5, <1>6, <1>7 DEF Next

(* A crash loop backs off, through starts, stop events, failed restarts    *)
(* and new settings: the restart delay of an instance the daemon watches   *)
(* shrinks in no step but the one that takes in a passed probe of its own. *)
THEOREM BacksOff == Spec => BackoffKept
<1> DEFINE A == \A i \in tracked : i \in tracked' /\ inst'[i].delay < inst[i].delay => Earned(i)
<1>1. IInv /\ [Next]_vars => A
  <2> SUFFICES ASSUME IInv, [Next]_vars,
                      NEW i \in tracked, i \in tracked', inst'[i].delay < inst[i].delay
               PROVE  Earned(i)
    OBVIOUS
  <2>1. i \in Instances /\ inst[i] \in Instance
    BY DEF IInv, TypeOK
  <2>2. inst'[i] \in Instance
    BY <2>1, NextIInv DEF IInv, TypeOK
  <2>3. inst[i].delay \in Int /\ inst'[i].delay \in Int
    BY <2>1, <2>2, DelayInt
  <2>4. inst'[i].delay >= inst[i].delay \/ Earned(i)
    BY <2>1, NextPromised DEF Promised, DelayKept
  <2>5. QED
    BY <2>3, <2>4
<1>2. QED
  BY InitIInv, NextIInv, <1>1, PTL DEF Spec, BackoffKept

(* A restart is queued for an instance only where its settings ask for     *)
(* restarts, or as the retry of one begun when they did.                   *)
THEOREM RestartsByPolicy == Spec => PolicyOnly
<1> DEFINE A == \A i \in tracked' : inst'[i].action = "start" /\ inst[i].action # "start"
                                       => inst'[i].cfg.restart \/ Retried(i)
<1>1. IInv /\ [Next]_vars => A
  <2> SUFFICES ASSUME IInv, [Next]_vars, NEW i \in tracked',
                      inst'[i].action = "start", inst[i].action # "start"
               PROVE  inst'[i].cfg.restart \/ Retried(i)
    OBVIOUS
  <2>1. i \in Instances
    BY NextIInv DEF IInv, TypeOK
  <2>2. QED
    BY <2>1, NextPromised DEF Promised, QueueKept
<1>2. QED
  BY InitIInv, NextIInv, <1>1, PTL DEF Spec, PolicyOnly
=============================================================================
