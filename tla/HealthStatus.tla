---------------------------- MODULE HealthStatus ----------------------------
(***************************************************************************)
(* How ic-healthd reports one instance's health: the status it remembers,  *)
(* the goroutines that write it to user.healthcheck.status, and the        *)
(* instance-updated events by which its own writes come back to it.        *)
(*                                                                         *)
(* reportStatus writes only on a transition, so a write that lands late,   *)
(* or on top of a newer one, is put right only because every event that    *)
(* carries a read makes saveInstance remember what the server really has.  *)
(*                                                                         *)
(* The instance itself is HealthInstance's record.  Of its schedule only   *)
(* the order of things is kept: a due action may be submitted at any time, *)
(* and a restart is one step.                                              *)
(***************************************************************************)
EXTENDS HealthInstance, Sequences

CONSTANTS
    Writers,     \* bound: write goroutines in flight at once
    Raws,        \* the settings the instance may have
    Left,        \* what an earlier daemon may have left on it
    Operations,  \* what the world does of its own accord
    MaxOps,      \* bound: how often
    MaxLine      \* bound: events on their way when the world adds one

Labels == {"unknown", "starting", "stopped", "healthy", "unhealthy"}

ASSUME StatusAssumption ==
    /\ Left \subseteq Labels
    /\ Raws \subseteq {raw \in RawConfig : ~ParseFails(raw)}
    /\ Operations \subseteq {"stop", "start", "sicken", "heal", "fault"}
    /\ MaxOps \in Nat /\ MaxLine \in Nat

VARIABLES
    raw,      \* the server: its settings, its power, the marker of a stop asked
    running, intent, healthy, label,  \* for, what a test would find, the key
    held,     \* the instance is in the map
    inst,     \* what the map has for it
    status,   \* inst.status: "" once a write has failed
    probe,    \* the check whose context inst holds, then what it found
    writes,   \* the write goroutines
    line,     \* events on their way, oldest first
    lost,     \* history: a report of a stop failed to land
    ops

server == <<raw, running, intent, healthy, label>>
vars == <<server, held, inst, status, probe, writes, line, lost, ops>>

Idle == [status |-> "unknown", step |-> "free"]
Unread == [running |-> FALSE, label |-> "unread"]
Event(a) == [act |-> a, read |-> Unread]

(* The state of the reporter and of the server it reports to is well typed. *)
TypeOK ==
    /\ raw \in Raws /\ running \in BOOLEAN /\ intent \in BOOLEAN /\ healthy \in BOOLEAN
    /\ label \in Labels /\ status \in Labels \union {""}
    /\ held \in BOOLEAN /\ inst \in Instance /\ lost \in BOOLEAN
    /\ probe \in {"none", "out", "ok", "fail", "notRunning"}
    /\ writes \in [Writers -> [status: Labels, step: {"free", "write", "failed"}]]
    /\ line \in Seq([act: {"started", "stopped", "updated"},
                     read: [running: BOOLEAN, label: Labels \union {"unread"}]])
    /\ ops \in 0..MaxOps

(* The daemon comes up, and finds what an earlier one has left behind. *)
Init ==
    /\ raw \in Raws /\ running \in BOOLEAN /\ healthy \in BOOLEAN /\ label \in Left
    /\ intent = FALSE
    /\ held = FALSE /\ inst = NewInstance(ParseInstanceConfig(raw, FALSE))
    /\ status = "unknown" /\ probe = "none"
    /\ writes = [w \in Writers |-> Idle]
    /\ line = <<Event("updated")>>
    /\ lost = FALSE /\ ops = 0

-----------------------------------------------------------------------------
(* Reporting. *)

Free == {w \in Writers : writes[w] = Idle}

(* had is what the instance last had; goroutines are interchangeable. *)
ReportStatus(had, s) ==
    IF s = had THEN status' = had /\ UNCHANGED writes
    ELSE /\ status' = s
         /\ Free # {}
         /\ writes' = [writes EXCEPT ![CHOOSE w \in Free : TRUE] = [status |-> s, step |-> "write"]]

(* The server announces a change.  Updates waiting for their read are one  *)
(* event: they share the read, and the debounce drops the repeats.         *)
Emit(a) ==
    IF a = "updated" /\ \E k \in DOMAIN line : line[k] = Event("updated")
    THEN UNCHANGED line
    ELSE line' = Append(line, Event(a))

WriteLands(w) ==
    /\ writes[w].step = "write"
    /\ label' = writes[w].status
    /\ Emit("updated")
    /\ writes' = [writes EXCEPT ![w] = Idle]
    /\ UNCHANGED <<raw, running, intent, healthy, held, inst, status, probe, lost, ops>>

Spend(op) == op \in Operations /\ ops < MaxOps /\ ops' = ops + 1

WriteFails(w) ==
    /\ writes[w].step = "write" /\ Spend("fault")
    /\ writes' = [writes EXCEPT ![w].step = "failed"]
    /\ UNCHANGED <<server, held, inst, status, probe, line, lost>>

(* Mutant: a write that failed is remembered as one that landed. *)
FailureForgotten(w) ==
    /\ writes[w].step = "failed"
    /\ writes' = [writes EXCEPT ![w] = Idle]
    /\ UNCHANGED status
    /\ lost' = (lost \/ writes[w].status = "stopped")
    /\ UNCHANGED <<server, held, inst, probe, line, ops>>

(* Nothing landed, so what was recorded is forgotten. *)
TakeFailure(w) ==
    /\ writes[w].step = "failed"
    /\ writes' = [writes EXCEPT ![w] = Idle]
    /\ status' = IF held /\ status = writes[w].status THEN "" ELSE status
    /\ lost' = (lost \/ writes[w].status = "stopped")
    /\ UNCHANGED <<server, held, inst, probe, line, ops>>

-----------------------------------------------------------------------------
(* Folding an event: saveInstance, then what the action adds. *)

Seen == Head(line).read
Saved == SaveInstance(held, inst, raw, Seen.running)

Fold(act) ==
    /\ line # <<>> /\ Head(line).act = act /\ Seen.label # "unread"
    /\ line' = Tail(line)
    /\ UNCHANGED <<server, lost, ops>>

(* Mutant: a fold leaves the remembered status alone. *)
SavedKeepsStatus(read) == status

(* saveInstance remembers what the server has, whoever wrote it. *)
SavedStatus(read) == read.label

FoldStarted ==
    /\ Fold("started")
    /\ held' = TRUE
    /\ status' = SavedStatus(Seen)
    /\ inst' = IF Saved.state = "checking" THEN Saved ELSE InstanceStarted(Saved)
    /\ UNCHANGED <<probe, writes>>

(* Without a policy the instance is dropped, its probe cancelled. *)
FoldStopped ==
    /\ Fold("stopped")
    /\ ReportStatus(SavedStatus(Seen), "stopped")
    /\ held' = raw.restart
    /\ IF raw.restart THEN inst' = StoppedUnasked(Saved) /\ UNCHANGED probe
       ELSE inst' = Release(Saved) /\ probe' = "none"

FoldUpdated ==
    /\ Fold("updated")
    /\ held' = TRUE /\ inst' = Saved
    /\ IF Seen.running
       THEN status' = SavedStatus(Seen) /\ UNCHANGED writes
       ELSE ReportStatus(SavedStatus(Seen), "stopped")
    /\ UNCHANGED probe

-----------------------------------------------------------------------------
(* Probes, as far as they are reported.  A probe whose context is replaced *)
(* or given up reports nothing.                                            *)

Submitted == [inst EXCEPT !.state = "checking", !.ctx = CHOOSE t \in TaskIds : TRUE]

ProbeStarts ==
    /\ held /\ inst.state = "idle" /\ inst.action = "check"
    /\ inst.cfg.running /\ inst.cfg.test # "[]"
    /\ inst' = Submitted /\ probe' = "out"
    /\ UNCHANGED <<server, held, status, writes, line, lost, ops>>

(* What the worker finds, in the middle of whatever else goes on. *)
ProbeFinds ==
    /\ probe = "out"
    /\ probe' = IF ~running THEN "notRunning" ELSE IF healthy THEN "ok" ELSE "fail"
    /\ UNCHANGED <<server, held, inst, status, writes, line, lost, ops>>

(* The status one failed check earns; until the retries are exhausted a    *)
(* failure is no news.                                                     *)
FailedStatus(r) ==
    IF r.inStart THEN "starting"
    ELSE IF r.failures + 1 < r.cfg.retries THEN status ELSE "unhealthy"

CheckedStatus ==
    CASE probe = "ok" -> "healthy"
      [] probe = "notRunning" -> "stopped"
      [] OTHER -> FailedStatus(EndedCheck(inst))

TakeProbe ==
    /\ probe \in {"ok", "fail", "notRunning"}
    /\ probe' = "none"
    /\ inst' = Checked(inst, probe)
    /\ ReportStatus(status, CheckedStatus)
    /\ UNCHANGED <<server, held, line, lost, ops>>

(* The watchdog gives up a probe that hangs, which one of a healthy        *)
(* instance does not.  Of an instance parked meanwhile it reports nothing. *)
ProbeOverruns ==
    /\ held /\ inst.state # "idle" /\ inst.ctx # NoTask /\ probe = "out" /\ ~healthy
    /\ probe' = "none"
    /\ inst' = Abandoned(inst)
    /\ IF inst.state = "checking" THEN ReportStatus(status, FailedStatus(inst)) ELSE UNCHANGED <<status, writes>>
    /\ UNCHANGED <<server, held, line, lost, ops>>

StartPeriodPasses ==
    /\ inst.inStart /\ ~inst.startOver /\ inst' = [inst EXCEPT !.startOver = TRUE]
    /\ UNCHANGED <<server, held, status, probe, writes, line, lost, ops>>

(* A queued restart: it parks an instance that was stopped on purpose, and *)
(* starts one that is down.  One that runs it would stop first, which ends *)
(* every verdict: here that is a stop of the world's, and until then the   *)
(* restart stays queued.  Its context replaces that of a probe.            *)
Restarting == held /\ inst.state = "idle" /\ inst.action = "start" /\ probe' = "none"

RestartParks ==
    /\ Restarting /\ intent
    /\ inst' = Restarted(inst, "intent")
    /\ UNCHANGED <<server, held, status, writes, line, lost, ops>>

RestartStarts ==
    /\ Restarting /\ ~intent /\ ~running
    /\ running' = TRUE /\ Emit("started")
    /\ inst' = Restarted(inst, "ok")
    /\ UNCHANGED <<raw, intent, healthy, label, held, status, writes, lost, ops>>

RestartStep == RestartParks \/ RestartStarts

-----------------------------------------------------------------------------
(* The world. *)

Daemon == <<held, inst, status, probe, writes, lost>>

(* A crash, or a stop that was asked for and is marked as such. *)
Stops ==
    /\ Spend("stop") /\ Len(line) < MaxLine /\ running /\ running' = FALSE /\ Emit("stopped")
    /\ intent' \in BOOLEAN
    /\ UNCHANGED <<raw, healthy, label, Daemon>>
Starts ==
    /\ Spend("start") /\ Len(line) < MaxLine /\ ~running /\ running' = TRUE /\ Emit("started")
    /\ intent' = FALSE
    /\ UNCHANGED <<raw, healthy, label, Daemon>>
Sickens ==
    /\ Spend("sicken") /\ healthy /\ healthy' = FALSE
    /\ UNCHANGED <<raw, running, intent, label, line, Daemon>>
Heals ==
    /\ Spend("heal") /\ ~healthy /\ healthy' = TRUE
    /\ UNCHANGED <<raw, running, intent, label, line, Daemon>>

(* One read serves every event that waits for one. *)
Enrich ==
    /\ \E k \in DOMAIN line : line[k].read = Unread
    /\ line' = [k \in DOMAIN line |->
                  IF line[k].read = Unread
                  THEN [line[k] EXCEPT !.read = [running |-> running, label |-> label]]
                  ELSE line[k]]
    /\ UNCHANGED <<server, held, inst, status, probe, writes, lost, ops>>

-----------------------------------------------------------------------------
Reporting == \E w \in Writers : WriteLands(w) \/ TakeFailure(w)
Folding == FoldStarted \/ FoldStopped \/ FoldUpdated
Probing == ProbeStarts \/ ProbeFinds \/ TakeProbe

Next ==
    \/ Reporting \/ \E w \in Writers : WriteFails(w)
    \/ Folding \/ Enrich \/ Probing \/ ProbeOverruns \/ StartPeriodPasses \/ RestartStep
    \/ Stops \/ Starts \/ Sickens \/ Heals

Spec == Init /\ [][Next]_vars

(* Goroutines and calls run on; the clock passes a start period.  The loop *)
(* selects at random between events and results, so neither starves.  A    *)
(* probe comes to an end or is given up.                                   *)
Fairness ==
    /\ WF_vars(Enrich) /\ WF_vars(StartPeriodPasses) /\ SF_vars(RestartStep)
    /\ SF_vars(Folding) /\ SF_vars(ProbeStarts)
    /\ SF_vars(ProbeFinds \/ TakeProbe \/ ProbeOverruns)
    /\ \A w \in Writers : SF_vars(WriteLands(w) \/ TakeFailure(w))

LiveSpec == Spec /\ Fairness

(* The same, and tests do not hang for ever. *)
AnsweringSpec == LiveSpec /\ SF_vars(ProbeFinds) /\ SF_vars(TakeProbe)

-----------------------------------------------------------------------------
(* Properties. *)

Truth == IF ~running THEN "stopped" ELSE IF healthy THEN "healthy" ELSE "unhealthy"

(* Once an instance that runs settles down, with no restart queued, the    *)
(* key on the server comes to say what its probes find and stays that way, *)
(* though writes overtake one another, fail, and come back as events with  *)
(* a read that is already old.                                             *)
VerdictConverges ==
    \A s \in {"healthy", "unhealthy"} : <>[](Truth = s /\ inst.action # "start") => <>[](label = s)

(* An instance that stays down comes to be reported as stopped, unless the *)
(* write itself failed: with no probe to come, nothing reports it again.   *)
StopConverges == <>[](Truth = "stopped") /\ []~lost => <>[](label = "stopped")

=============================================================================
