---------------------------- MODULE DeployProofs ----------------------------
(***************************************************************************)
(* What holds of Deploy for every project, every plan and every number of  *)
(* workers.  The invariant is in layers, each proved from those below it:  *)
(*                                                                         *)
(*   Base      the runs follow the plan, a pool hands each task to one     *)
(*             worker, and a task is where its action may be;              *)
(*   Torn      how far the current run of a teardown is;                   *)
(*   Brought   what the current run of a deployment has come to;           *)
(*   Grounded  the volumes that instances are made from are whole;         *)
(*   Verdicts  what a wait has counted as healthy still is.                *)
(*                                                                         *)
(* A step is the next run's begin, a batch that opens or closes, a step of *)
(* one worker (Works), or one that leaves the runs alone (Aside).          *)
(***************************************************************************)
EXTENDS Deploy, FiniteSetTheorems, SequenceTheorems, TLAPS

PhaseOf(k) == Plan[plan][k]
Act(k) == PhaseOf(k).act

(* The batch a resource is in, counted as the run goes. *)
Turn(run, r) == IF run.desc THEN Levels + 1 - Priority[r] ELSE Priority[r]

(* What a run is done with, well or badly. *)
Taken(k, r) ==
    /\ r \in runs[k].members
    /\ \/ Turn(runs[k], r) < runs[k].turn
       \/ /\ Turn(runs[k], r) = runs[k].turn /\ r \notin runs[k].queue
          /\ \A w \in Workers : ~(Busy(k, w) /\ Res(k, w) = r)

Excused(k) == runs[k].errs \union runs[k].failed

-----------------------------------------------------------------------------
(* A run is one of the plan's, with its phase's flags. *)
Formed(k) ==
    /\ k <= Len(Plan[plan])
    /\ runs[k] \in Run
    /\ runs[k].desc = PhaseOf(k).desc /\ runs[k].failFast = PhaseOf(k).failFast

(* Queue and tasks are of the current batch, no resource in two places. *)
Manned(k) ==
    /\ runs[k].queue \subseteq Batch(runs[k], runs[k].turn)
    /\ \A w \in Workers : Busy(k, w) =>
          Res(k, w) \in Batch(runs[k], runs[k].turn) \ runs[k].queue
    /\ \A v, w \in Workers : v # w /\ Busy(k, v) /\ Busy(k, w) => Res(k, v) # Res(k, w)

(* Only a run that fails fast is cancelled, and it has an error by then. *)
Troubled(k) ==
    runs[k].cancelled \/ (\E w \in Workers : runs[k].worker[w].at = "failing")
        => runs[k].failFast /\ runs[k].errs # {}

(* A worker leaves an open batch for want of work or because of an error. *)
Staffed(k) ==
    runs[k].open /\ ~runs[k].cancelled /\ (\E w \in Workers : runs[k].worker[w].at = "gone")
        => runs[k].queue = {}

(* What a run is when its pool is not open, and how it comes to its        *)
(* result: an error of a fail-fast run ends it with workers still out,     *)
(* every other run ends with its last batch.                               *)
Closed(k) ==
    /\ runs[k].open => runs[k].result = "running"
    /\ ~runs[k].open /\ (runs[k].result # "failed" \/ ~runs[k].failFast) =>
          /\ AllGone(runs[k]) /\ runs[k].queue = {}
          /\ runs[k].errs \subseteq runs[k].failed
          /\ runs[k].failFast => runs[k].failed = {}
    /\ runs[k].result = "ok" \/ (runs[k].result = "failed" /\ ~runs[k].failFast)
          => runs[k].turn = Levels
    /\ runs[k].result = "ok" => runs[k].failed = {}
    /\ runs[k].result = "failed" => runs[k].failed # {}
    /\ runs[k].failFast /\ runs[k].open => runs[k].failed = {}

(* The next run begins when this one has ended, and not after an abort. *)
Past(k) ==
    k < Current =>
        /\ runs[k].result # "running"
        /\ runs[k].result = "failed" => PhaseOf(k).onError # "abort"

Pooled(k) == Formed(k) /\ Manned(k) /\ Troubled(k) /\ Staffed(k) /\ Closed(k) /\ Past(k)

PoolInv == runs \in Seq(Run) /\ \A k \in DOMAIN runs : Pooled(k)

-----------------------------------------------------------------------------
(* What the state is made of. What a client has read of the services, and  *)
(* what ic-healthd is to restart, is on the server.                        *)
Typed ==
    /\ plan \in Plans /\ order \in ServiceOrders /\ runs \in Seq(Run)
    /\ known \subseteq Resources /\ exists \subseteq Resources
    /\ running \subseteq Services /\ queued \subseteq Services \intersect Policy
    /\ filled \subseteq Volumes \intersect exists
    /\ known \intersect Services \subseteq exists
    /\ queued \subseteq exists
    /\ faults \in Nat /\ joined \in BOOLEAN

(* Where a task stands. *)
Fits(step, act) ==
    \/ step = "begin" \/ (step = "power" /\ act = "stop") \/ (step = "fill" /\ act = "ensure")
    \/ (step \in {"deps", "health"} /\ act = "start")

Tasked(k, w) ==
    LET task == runs[k].worker[w]
        r == Res(k, w)
    IN  /\ Fits(task.step, Act(k))
        /\ task.left # {} => task.step = "deps"
        /\ task.step \in {"deps", "health"} => r \in Services /\ task.left \subseteq DependsOn[r]
        /\ task.step = "health" => r \in running
        /\ task.step = "fill" => r \in Volumes /\ r \in exists \ filled
        /\ task.step = "power" => r \in known \intersect marker
        /\ Act(k) = "start" => r \in known
        /\ ~runs[k].desc /\ r \in Services => DependsOn[r] \intersect runs[k].queue = {}

(* What runs are made over. *)
Scoped(k) ==
    /\ runs[k].members \subseteq Add(Stacked(PhaseOf(k)))
    /\ Act(k) = "stop" => runs[k].members \subseteq Services
    /\ Act(k) = "delete" /\ plan # "purge" => runs[k].members \intersect Volumes = {}
    /\ Act(k) = "start" => runs[k].members \subseteq known
    /\ Act(k) # "start" => Services \subseteq runs[k].members
    /\ Act(k) = "ensure" => runs[k].members = Add(Stacked(PhaseOf(k)))

Ensured(k) ==
    k = Current /\ Act(k) = "ensure" => \A r \in runs[k].members :
        /\ Turn(runs[k], r) < runs[k].turn => r \in known
        /\ Taken(k, r) /\ runs[k].errs = {} => r \in known

Tasks == \A k \in DOMAIN runs :
    /\ Scoped(k) /\ Ensured(k)
    /\ \A w \in Workers : Busy(k, w) => Tasked(k, w)

-----------------------------------------------------------------------------
(* With nothing gone wrong no task has failed, and no read was lost. *)
Faultless == faults = 0 => lost = {} /\ \A k \in DOMAIN runs : Excused(k) = {}

MayRun(r) == r \in running \/ r \notin marker

(* How far the current run is with the services that the command has seen. *)
LookedUp(k) ==
    Act(k) = "lookup" /\ (PhaseOf(k).failFast => Excused(k) = {}) =>
        \A r \in Services \ lost : Taken(k, r) /\ r \in exists => r \in known

Stopped(k) ==
    Act(k) = "stop" =>
        /\ (exists \intersect Services) \ lost \subseteq known
        /\ \A r \in Services : Taken(k, r) /\ r \in known /\ MayRun(r) => r \in Excused(k)

Deleted(k) ==
    Act(k) = "delete" =>
        /\ \A r \in (exists \intersect Services) \ lost : r \notin known => r \in Excused(k)
        /\ \A r \in Services \ lost : Taken(k, r) /\ r \in exists => r \in Excused(k)
        /\ faults = 0 => \A r \in exists \intersect Services : ~MayRun(r)

Torn == Faultless /\ \A k \in DOMAIN runs : k = Current => LookedUp(k) /\ Stopped(k) /\ Deleted(k)

(* What there is of a recreate's services is new, where the teardown saw   *)
(* it.                                                                     *)
Remade(k) ==
    Act(k) \in {"ensure", "start"} /\ plan \in {"recreate", "rebuild"} =>
        (exists \intersect Services) \ lost \subseteq made

(* A start takes up every service there is, and none is left down without  *)
(* an error.  That of a restart knows those its reads have found.          *)
Started(k) ==
    Act(k) = "start" =>
        /\ plan # "restart" => Services \subseteq runs[k].members /\ Services \subseteq exists
        /\ ~joined => (exists \intersect Services) \ lost \subseteq runs[k].members
        /\ \A r \in Services : Taken(k, r) /\ r \notin running => Excused(k) # {}

(* What runs of a restart's services once all were stopped is new. *)
Anew(k) ==
    k > 2 /\ plan = "restart" /\ ~joined => (exists \intersect running) \ lost \subseteq renewed

(* Success, once reported, stays true. *)
Brought == TrueSuccess /\ \A k \in DOMAIN runs : k = Current => Remade(k) /\ Started(k) /\ Anew(k)

-----------------------------------------------------------------------------
(* A task has the volume in hand, to fill it. *)
Filling(v) == \E k \in DOMAIN runs, w \in Workers :
    Busy(k, w) /\ runs[k].worker[w].step = "fill" /\ Res(k, w) = v

(* What the client has read of the volumes is whole, and so is what an     *)
(* instance is made from; a volume that is not is being filled.            *)
Grounded ==
    MaxFaults < 2 =>
        /\ known \intersect Volumes \subseteq filled
        /\ \A v \in exists \intersect Volumes : v \in filled \/ Filling(v)
        /\ \A s \in exists \intersect Services : Volumes \intersect Needs(s) \subseteq filled

(* A healthy verdict is one of a running instance, unless it outlived its  *)
(* stop, and the dependencies a task no longer waits for have one.         *)
Verdicts ==
    /\ label \ late \subseteq running
    /\ \A k \in DOMAIN runs, w \in Workers :
          Busy(k, w) /\ runs[k].worker[w].step = "deps"
             => DependsOn[Res(k, w)] \ (runs[k].worker[w].left \union late) \subseteq label

Base == Typed /\ PoolInv /\ Tasks
IInv == Base /\ Torn /\ Brought /\ Grounded /\ Verdicts

-----------------------------------------------------------------------------
(* The plans. *)

(* The phases of a restart. *)
LEMMA PlanRestart ==
    /\ Len(Plan["restart"]) = 4
    /\ Plan["restart"][1] = Phase("lookup", TRUE, FALSE, "join", TRUE)
    /\ Plan["restart"][2] = Phase("stop", TRUE, FALSE, "join", FALSE)
    /\ Plan["restart"][3] = Phase("lookup", FALSE, TRUE, "join", TRUE)
    /\ Plan["restart"][4] = Phase("start", FALSE, TRUE, "join", FALSE)
<1> DEFINE S == {StopPhases[1], StopPhases[2], StartPhases[1], StartPhases[2]}
<1>1. Plan["restart"] = StopPhases \o StartPhases
  BY DEF Plan, StopStart
<1>2. StopPhases \in Seq(S) /\ StartPhases \in Seq(S) /\ Len(StopPhases) = 2 /\ Len(StartPhases) = 2
  BY DEF StopPhases, StartPhases
<1>3. /\ Len(Plan["restart"]) = 4
      /\ Plan["restart"][1] = StopPhases[1] /\ Plan["restart"][2] = StopPhases[2]
      /\ Plan["restart"][3] = StartPhases[1] /\ Plan["restart"][4] = StartPhases[2]
  <2>1. /\ Len(StopPhases \o StartPhases) = Len(StopPhases) + Len(StartPhases)
        /\ \A i \in 1..Len(StopPhases) + Len(StartPhases) :
              (StopPhases \o StartPhases)[i] =
                 IF i <= Len(StopPhases) THEN StopPhases[i] ELSE StartPhases[i - Len(StopPhases)]
    <3> HIDE DEF S
    <3>1. QED
      BY <1>2, ConcatProperties, Zenon
  <2>2. QED
    BY <1>1, <1>2, <2>1
<1>4. QED
  BY <1>3 DEF StopPhases, StartPhases

(* The phases of a recreate, and of a rebuild. *)
LEMMA PlanRecreate ==
    \A p \in {"recreate", "rebuild"} :
        /\ Len(Plan[p]) = 5
        /\ Plan[p][1] = Phase("lookup", TRUE, FALSE, "ignore", TRUE)
        /\ Plan[p][2] = Phase("stop", TRUE, FALSE, "ignore", FALSE)
        /\ Plan[p][3] = Phase("delete", TRUE, FALSE, "abort", FALSE)
        /\ Plan[p][4] = Phase("ensure", FALSE, TRUE, "abort", TRUE)
        /\ Plan[p][5] = Phase("start", FALSE, TRUE, "abort", FALSE)
<1> SUFFICES ASSUME NEW p \in {"recreate", "rebuild"}
             PROVE  /\ Len(Plan[p]) = 5
                    /\ Plan[p][1] = Phase("lookup", TRUE, FALSE, "ignore", TRUE)
                    /\ Plan[p][2] = Phase("stop", TRUE, FALSE, "ignore", FALSE)
                    /\ Plan[p][3] = Phase("delete", TRUE, FALSE, "abort", FALSE)
                    /\ Plan[p][4] = Phase("ensure", FALSE, TRUE, "abort", TRUE)
                    /\ Plan[p][5] = Phase("start", FALSE, TRUE, "abort", FALSE)
  OBVIOUS
<1> DEFINE s == Teardown("abort")
           S == {s[1], s[2], s[3], BringUp[1], BringUp[2]}
<1>1. Plan[p] = s \o BringUp
  <2>1. Plan["recreate"] = s \o BringUp /\ Plan["rebuild"] = s \o BringUp
    BY DEF Plan
  <2>2. QED
    BY <2>1
<1>2. s \in Seq(S) /\ BringUp \in Seq(S) /\ Len(s) = 3 /\ Len(BringUp) = 2
  BY DEF Teardown, BringUp
<1>3. /\ Len(Plan[p]) = 5
      /\ Plan[p][1] = s[1] /\ Plan[p][2] = s[2] /\ Plan[p][3] = s[3]
      /\ Plan[p][4] = BringUp[1] /\ Plan[p][5] = BringUp[2]
  <2>1. /\ Len(s \o BringUp) = Len(s) + Len(BringUp)
        /\ \A i \in 1..Len(s) + Len(BringUp) :
              (s \o BringUp)[i] = IF i <= Len(s) THEN s[i] ELSE BringUp[i - Len(s)]
    <3> HIDE DEF S, s
    <3>1. QED
      BY <1>2, ConcatProperties, Zenon
  <2> HIDE DEF s
  <2>2. QED
    BY <1>1, <1>2, <2>1
<1>4. QED
  BY <1>3 DEF Teardown, BringUp

(* The phases of a teardown. *)
LEMMA PlanDown ==
    \A p \in {"down", "purge"} :
        /\ Len(Plan[p]) = 3
        /\ Plan[p][1] = Phase("lookup", TRUE, FALSE, "ignore", TRUE)
        /\ Plan[p][2] = Phase("stop", TRUE, FALSE, "ignore", FALSE)
        /\ Plan[p][3] = Phase("delete", TRUE, FALSE, "ignore", FALSE)
<1> SUFFICES ASSUME NEW p \in {"down", "purge"}
             PROVE  /\ Len(Plan[p]) = 3
                    /\ Plan[p][1] = Phase("lookup", TRUE, FALSE, "ignore", TRUE)
                    /\ Plan[p][2] = Phase("stop", TRUE, FALSE, "ignore", FALSE)
                    /\ Plan[p][3] = Phase("delete", TRUE, FALSE, "ignore", FALSE)
  OBVIOUS
<1>1. Plan["down"] = Teardown("ignore") /\ Plan["purge"] = Teardown("ignore")
  BY DEF Plan
<1>2. Plan[p] = Teardown("ignore")
  BY <1>1
<1>3. QED
  BY <1>2 DEF Teardown

(* The phases of a deployment. *)
LEMMA PlanUp ==
    /\ Len(Plan["up"]) = 2
    /\ Plan["up"][1] = Phase("ensure", FALSE, TRUE, "abort", TRUE)
    /\ Plan["up"][2] = Phase("start", FALSE, TRUE, "abort", FALSE)
  BY DEF Plan, BringUp

(* No command has fewer than two phases or more than five. *)
LEMMA PlanLengths == plan \in Plans => Len(Plan[plan]) \in 2..5
<1> SUFFICES ASSUME plan \in Plans PROVE Len(Plan[plan]) \in 2..5
  OBVIOUS
<1>1. plan \in {"up", "restart"} \/ plan \in {"down", "purge"} \/ plan \in {"recreate", "rebuild"}
  BY DeployAssumption DEF DeployAssumption
<1>2. CASE plan \in {"up", "restart"}
  BY <1>2, PlanUp, PlanRestart
<1>3. CASE plan \in {"down", "purge"}
  <2>1. Len(Plan[plan]) = 3
    BY <1>3, PlanDown, Zenon
  <2>2. QED
    BY <2>1
<1>4. CASE plan \in {"recreate", "rebuild"}
  <2>1. Len(Plan[plan]) = 5
    BY <1>4, PlanRecreate, Zenon
  <2>2. QED
    BY <2>1
<1>5. QED
  BY <1>1, <1>2, <1>3, <1>4

(* What the plans have in common. *)
LEMMA PlanFacts ==
    ASSUME plan \in Plans, NEW k \in 1..Len(Plan[plan])
    PROVE  /\ Len(Plan[plan]) \in 2..5
           /\ Act(k) \in {"lookup", "stop", "delete", "ensure", "start"}
           /\ PhaseOf(k).desc \in BOOLEAN /\ PhaseOf(k).failFast \in BOOLEAN
           /\ Act(k) \in {"stop", "delete"} => PhaseOf(k).desc /\ ~PhaseOf(k).failFast
           /\ Act(k) \in {"ensure", "start"} => ~PhaseOf(k).desc /\ PhaseOf(k).failFast
           /\ PhaseOf(k).newClient <=> Act(k) \in {"lookup", "ensure"}
           /\ Act(k) = "delete" /\ plan \notin {"down", "purge"} => PhaseOf(k).onError = "abort"
           /\ Act(k) = "ensure" => PhaseOf(k).onError = "abort"
           /\ k = 1 => Act(k) = IF plan = "up" THEN "ensure" ELSE "lookup"
           /\ k = 1 /\ Act(k) = "lookup" => ~PhaseOf(k).failFast
           /\ plan = "restart" =>
                 /\ PhaseOf(k).onError = "join" /\ Len(Plan[plan]) = 4
                 /\ (k = 1 /\ Act(k) = "lookup") \/ (k = 2 /\ Act(k) = "stop")
                    \/ (k = 3 /\ Act(k) = "lookup") \/ (k = 4 /\ Act(k) = "start")
           /\ plan # "restart" /\ Act(k) = "lookup" => k = 1 /\ ~PhaseOf(k).failFast
           /\ k = Len(Plan[plan]) /\ plan \notin {"down", "purge"} =>
                 Act(k) = "start" /\ PhaseOf(k).onError # "ignore"
           /\ k > 1 /\ plan # "restart" =>
                 \/ Act(k - 1) = "lookup" /\ Act(k) = "stop"
                 \/ Act(k - 1) = "stop" /\ Act(k) = "delete"
                 \/ Act(k - 1) = "delete" /\ Act(k) = "ensure"
                 \/ Act(k - 1) = "ensure" /\ Act(k) = "start"
<1>1. CASE plan = "up"
  <2>1. k = 1 \/ k = 2
    BY <1>1, PlanUp
  <2>2. CASE k = 1
    BY <1>1, <2>2, PlanUp DEF PhaseOf, Act, Phase
  <2>3. CASE k = 2
    BY <1>1, <2>3, PlanUp DEF PhaseOf, Act, Phase
  <2>4. QED
    BY <2>1, <2>2, <2>3
<1>2. CASE plan \in {"down", "purge"}
  <2>0. /\ Len(Plan[plan]) = 3
        /\ Plan[plan][1] = Phase("lookup", TRUE, FALSE, "ignore", TRUE)
        /\ Plan[plan][2] = Phase("stop", TRUE, FALSE, "ignore", FALSE)
        /\ Plan[plan][3] = Phase("delete", TRUE, FALSE, "ignore", FALSE)
    BY <1>2, PlanDown, Zenon
  <2>1. k = 1 \/ k = 2 \/ k = 3
    BY <1>2, <2>0
  <2>2. CASE k = 1
    BY <1>2, <2>2, <2>0 DEF PhaseOf, Act, Phase
  <2>3. CASE k = 2
    BY <1>2, <2>3, <2>0 DEF PhaseOf, Act, Phase
  <2>4. CASE k = 3
    BY <1>2, <2>4, <2>0 DEF PhaseOf, Act, Phase
  <2>5. QED
    BY <2>1, <2>2, <2>3, <2>4
<1>3. CASE plan \in {"recreate", "rebuild"}
  <2>0. /\ Len(Plan[plan]) = 5
        /\ Plan[plan][1] = Phase("lookup", TRUE, FALSE, "ignore", TRUE)
        /\ Plan[plan][2] = Phase("stop", TRUE, FALSE, "ignore", FALSE)
        /\ Plan[plan][3] = Phase("delete", TRUE, FALSE, "abort", FALSE)
        /\ Plan[plan][4] = Phase("ensure", FALSE, TRUE, "abort", TRUE)
        /\ Plan[plan][5] = Phase("start", FALSE, TRUE, "abort", FALSE)
    BY <1>3, PlanRecreate, Zenon
  <2>1. k = 1 \/ k = 2 \/ k = 3 \/ k = 4 \/ k = 5
    BY <1>3, <2>0
  <2>2. CASE k = 1
    BY <1>3, <2>2, <2>0 DEF PhaseOf, Act, Phase
  <2>3. CASE k = 2
    BY <1>3, <2>3, <2>0 DEF PhaseOf, Act, Phase
  <2>4. CASE k = 3
    BY <1>3, <2>4, <2>0 DEF PhaseOf, Act, Phase
  <2>5. CASE k = 4
    BY <1>3, <2>5, <2>0 DEF PhaseOf, Act, Phase
  <2>6. CASE k = 5
    BY <1>3, <2>6, <2>0 DEF PhaseOf, Act, Phase
  <2>7. QED
    BY <2>1, <2>2, <2>3, <2>4, <2>5, <2>6
<1>4. CASE plan = "restart"
  <2>1. k = 1 \/ k = 2 \/ k = 3 \/ k = 4
    BY <1>4, PlanRestart
  <2>2. CASE k = 1
    BY <1>4, <2>2, PlanRestart DEF PhaseOf, Act, Phase
  <2>3. CASE k = 2
    BY <1>4, <2>3, PlanRestart DEF PhaseOf, Act, Phase
  <2>4. CASE k = 3
    BY <1>4, <2>4, PlanRestart DEF PhaseOf, Act, Phase
  <2>5. CASE k = 4
    BY <1>4, <2>5, PlanRestart DEF PhaseOf, Act, Phase
  <2>6. QED
    BY <2>1, <2>2, <2>3, <2>4, <2>5
<1>5. QED
  BY <1>1, <1>2, <1>3, <1>4, DeployAssumption DEF DeployAssumption

-----------------------------------------------------------------------------
(* The pool. *)

(* One run is rewritten, and the others are as they were. *)
LEMMA Rewritten ==
    ASSUME runs \in Seq(Run), NEW k \in DOMAIN runs, NEW run \in Run,
           runs' = [runs EXCEPT ![k] = run]
    PROVE  /\ runs' \in Seq(Run) /\ DOMAIN runs' = DOMAIN runs /\ Current' = Current
           /\ runs'[k] = run /\ \A j \in DOMAIN runs : j # k => runs'[j] = runs[j]
  BY DEF Current

(* A step that rewrites one run alone has that run's pool to answer for. *)
LEMMA OneRun ==
    ASSUME PoolInv, UNCHANGED plan, NEW k \in DOMAIN runs, NEW run \in Run,
           runs' = [runs EXCEPT ![k] = run], Pooled(k)'
    PROVE  PoolInv'
<1>1. ASSUME NEW j \in DOMAIN runs, j # k PROVE Pooled(j)'
  <2>1. runs'[j] = runs[j] /\ Current' = Current
    BY <1>1, Rewritten DEF PoolInv
  <2>2. Pooled(j)
    BY DEF PoolInv
  <2>3. QED
    BY <2>1, <2>2 DEF Pooled, Formed, PhaseOf, Manned, Troubled, Staffed, Closed, Past, Busy, Res
<1>2. QED
  BY <1>1, Rewritten DEF PoolInv

(* A worker at rest. *)
LEMMA Resting ==
    \A at \in {"idle", "busy", "failing", "gone"} :
        AtRest(at) \in Worker /\ AtRest(at).at = at /\ AtRest(at).left = {}
  BY DEF AtRest, Worker

(* A run whose batch opens is one. *)
LEMMA OpenedRun ==
    ASSUME NEW R \in Run, R.turn # Levels
    PROVE  BatchOpened(R) \in Run
<1> PICK W : W = [w \in Workers |-> AtRest("idle")]
  OBVIOUS
<1>1. W \in [Workers -> Worker]
  BY Resting
<1> PICK n, Q : n = R.turn + 1 /\ Q = Batch(R, R.turn + 1)
  OBVIOUS
<1>2. n \in 0..Levels /\ Q \in SUBSET Resources
  BY StackAssumption DEF Run, StackAssumption, Batch
<1>3. BatchOpened(R) = [R EXCEPT !.turn = n, !.open = TRUE, !.queue = Q, !.worker = W,
                                 !.errs = {}, !.cancelled = FALSE]
  BY DEF BatchOpened
<1>4. QED
  BY ONLY R \in Run, <1>1, <1>2, <1>3 DEF Run

(* A run whose batch is over is one. *)
LEMMA ClosedRun ==
    ASSUME NEW R \in Run
    PROVE  BatchClosed(R) \in Run
<1> PICK failed : failed = R.failed \union R.errs
  OBVIOUS
<1> PICK verdict : verdict = IF R.failFast /\ R.errs # {} THEN "failed" ELSE "running"
  OBVIOUS
<1>1. failed \in SUBSET Resources /\ verdict \in {"running", "ok", "failed"}
  BY DEF Run
<1>2. BatchClosed(R) = [R EXCEPT !.open = FALSE, !.failed = failed, !.result = verdict]
  BY DEF BatchClosed
<1>3. QED
  BY ONLY R \in Run, <1>1, <1>2 DEF Run

(* The pool's invariant when runBatch opens a batch, or the run is over. *)
LEMMA OpenPool ==
    ASSUME Typed, PoolInv, OpenBatch
    PROVE  PoolInv'
<1> PICK k : k = Current
  OBVIOUS
<1> PICK R : R = runs[k]
  OBVIOUS
<1>1. k \in DOMAIN runs /\ R \in Run /\ ~R.open /\ R.result = "running" /\ Pooled(k) /\ UNCHANGED plan
  BY DEF OpenBatch, BetweenBatches, Current, PoolInv, Typed, Command
<1>2. AllGone(R) /\ R.queue = {}
  BY <1>1 DEF Pooled, Closed
<1>3. CASE R.turn = Levels
  <2> PICK S : S = RunOver(R)
    OBVIOUS
  <2>1. runs' = [runs EXCEPT ![k] = S]
    BY <1>3 DEF OpenBatch, Rewrite
  <2>2. S \in Run /\ S = [R EXCEPT !.result = S.result] /\ S.result = IF R.failed = {} THEN "ok" ELSE "failed"
    BY <1>1 DEF RunOver, Run
  <2>3. runs'[k] = S /\ Current' = Current
    BY <1>1, <2>1, <2>2, Rewritten DEF PoolInv
  <2>4. Pooled(k)'
    BY <1>1, <1>2, <1>3, <2>2, <2>3 DEF Pooled, Formed, PhaseOf, Manned, Troubled, Staffed, Closed, Past, Busy, Res, Run, AllGone, Batch
  <2>5. QED
    BY <1>1, <2>1, <2>2, <2>4, OneRun
<1>4. CASE R.turn # Levels
  <2> PICK S : S = BatchOpened(R)
    OBVIOUS
  <2>1. runs' = [runs EXCEPT ![k] = S]
    BY <1>4 DEF OpenBatch, Rewrite
  <2>2. R.turn + 1 \in 0..Levels /\ Batch(R, R.turn + 1) \in SUBSET Resources
    BY <1>1, <1>4, StackAssumption DEF Run, StackAssumption, Batch
  <2>3. /\ S.members = R.members /\ S.desc = R.desc /\ S.failFast = R.failFast
        /\ S.failed = R.failed /\ S.result = R.result
        /\ S.turn = R.turn + 1 /\ S.open /\ S.queue = Batch(R, R.turn + 1)
        /\ S.worker = [w \in Workers |-> AtRest("idle")] /\ S.errs = {} /\ ~S.cancelled
    BY <1>1 DEF BatchOpened, Run
  <2>4. S \in Run
    BY <1>1, <1>4, OpenedRun
  <2>5. runs'[k] = S /\ Current' = Current
    BY <1>1, <2>1, <2>4, Rewritten DEF PoolInv
  <2>6. \A w \in Workers : S.worker[w].at = "idle"
    BY <2>3 DEF AtRest
  <2>7. Batch(S, S.turn) = S.queue
    BY <2>3 DEF Batch
  <2>8. Pooled(k)'
    BY <1>1, <1>2, <2>3, <2>4, <2>5, <2>6, <2>7
    DEF Pooled, Formed, PhaseOf, Manned, Troubled, Staffed, Closed, Past, Busy, AllGone
  <2>9. QED
    BY <1>1, <2>1, <2>4, <2>8, OneRun
<1>5. QED
  BY <1>3, <1>4

(* The pool's invariant when the pool returns. *)
LEMMA ClosePool ==
    ASSUME Typed, PoolInv, CloseBatch
    PROVE  PoolInv'
<1> PICK k : k = Current
  OBVIOUS
<1> PICK R : R = runs[k]
  OBVIOUS
<1> PICK S : S = BatchClosed(R)
  OBVIOUS
<1>1. k \in DOMAIN runs /\ R \in Run /\ BatchOver(R) /\ Pooled(k) /\ UNCHANGED plan
  BY DEF CloseBatch, Current, PoolInv, Typed, Command
<1>2. runs' = [runs EXCEPT ![k] = S]
  BY DEF CloseBatch, Rewrite
<1>3. /\ S.members = R.members /\ S.desc = R.desc /\ S.failFast = R.failFast
      /\ S.turn = R.turn /\ S.queue = R.queue /\ S.worker = R.worker
      /\ S.errs = R.errs /\ S.cancelled = R.cancelled /\ ~S.open
      /\ S.failed = R.failed \union R.errs
      /\ S.result = IF R.failFast /\ R.errs # {} THEN "failed" ELSE "running"
  BY <1>1 DEF BatchClosed, Run
<1>4. S \in Run
  BY <1>1, ClosedRun
<1>5. runs'[k] = S /\ Current' = Current
  BY <1>1, <1>2, <1>4, Rewritten DEF PoolInv
<1>6. R.open /\ R.result = "running"
  BY <1>1 DEF BatchOver
<1>7. ~(R.failFast /\ R.errs # {}) => AllGone(R) /\ R.queue = {}
  <2> SUFFICES ASSUME ~(R.failFast /\ R.errs # {}) PROVE AllGone(R) /\ R.queue = {}
    OBVIOUS
  <2>1. AllGone(R) /\ ~R.cancelled
    BY <1>1 DEF BatchOver, Pooled, Troubled
  <2>2. \E w \in Workers : R.worker[w].at = "gone"
    BY <2>1, StackAssumption DEF AllGone, StackAssumption
  <2>3. QED
    BY <1>1, <1>6, <2>1, <2>2 DEF Pooled, Staffed
<1>8. Batch(S, S.turn) = Batch(R, R.turn)
  BY <1>3 DEF Batch
<1>9. Formed(k)' /\ Manned(k)' /\ Troubled(k)' /\ Staffed(k)'
  BY <1>1, <1>3, <1>4, <1>5, <1>8 DEF Pooled, Formed, PhaseOf, Manned, Troubled, Staffed, Busy, Res
<1>10. Closed(k)'
  BY <1>1, <1>3, <1>5, <1>6, <1>7 DEF Pooled, Closed, AllGone
<1>11. Past(k)'
  BY <1>1, <1>5 DEF Past, Current, PoolInv
<1>12. QED
  BY <1>1, <1>2, <1>4, <1>9, <1>10, <1>11, OneRun DEF Pooled

(* What a worker's step may make of a run. *)
Moves(R, S, w) ==
    /\ S \in Run /\ R.worker[w].at # "gone"
    /\ S.members = R.members /\ S.desc = R.desc /\ S.failFast = R.failFast /\ S.turn = R.turn
    /\ S.open = R.open /\ S.failed = R.failed /\ S.result = R.result
    /\ \A v \in Workers : v # w => S.worker[v] = R.worker[v]
    /\ S.queue \subseteq R.queue /\ R.errs \subseteq S.errs /\ (R.cancelled => S.cancelled)
    /\ R.worker[w].at # "busy" => S.errs = R.errs
    /\ \A r \in R.queue \ S.queue :
          R.cancelled \/ (S.worker[w].at = "busy" /\ S.worker[w].res = r)
    /\ S.worker[w].at = "busy" =>
          \/ /\ R.worker[w].at = "busy" /\ S.worker[w].res = R.worker[w].res
             /\ S.queue = R.queue
          \/ /\ R.worker[w].at = "idle" /\ S.worker[w].res \in R.queue
             /\ S.queue = R.queue \ {S.worker[w].res}
    /\ S.worker[w].at = "failing" \/ (S.cancelled /\ ~R.cancelled) => S.errs # {} /\ R.failFast
    /\ S.worker[w].at = "gone" => S.cancelled \/ S.queue = {}

(* The pool's invariant when one worker moves. *)
LEMMA MovePool ==
    ASSUME PoolInv, UNCHANGED plan, NEW k \in DOMAIN runs, NEW w \in Workers, NEW S,
           Moves(runs[k], S, w), runs' = [runs EXCEPT ![k] = S]
    PROVE  PoolInv'
<1> PICK R : R = runs[k]
  OBVIOUS
<1>1. R \in Run /\ Pooled(k) /\ S \in Run
  BY DEF PoolInv, Moves
<1>2. runs'[k] = S /\ Current' = Current
  BY <1>1, Rewritten DEF PoolInv
<1>3. Batch(S, S.turn) = Batch(R, R.turn)
  BY DEF Moves, Batch
<1>4. Formed(k)' /\ Past(k)'
  BY <1>1, <1>2 DEF Moves, Pooled, Formed, PhaseOf, Past
<1>5. Manned(k)'
  BY <1>1, <1>2, <1>3 DEF Moves, Pooled, Manned, Busy, Res
<1>6. Troubled(k)'
  BY <1>1, <1>2 DEF Moves, Pooled, Troubled
<1>7. Staffed(k)'
  BY <1>1, <1>2 DEF Moves, Pooled, Staffed
<1>8. Closed(k)'
  BY <1>1, <1>2 DEF Moves, Pooled, Closed, AllGone
<1>9. QED
  BY <1>1, <1>2, <1>4, <1>5, <1>6, <1>7, <1>8, OneRun DEF Pooled

(* The steps of a worker are such. *)
LEMMA MovesAre ==
    ASSUME NEW R \in Run, NEW w \in Workers
    PROVE  /\ \A r \in R.queue : R.worker[w].at = "idle" /\ (R.cancelled => R.errs # {} /\ R.failFast)
                 => Moves(R, Received(R, w, r), w)
           /\ R.worker[w].at = "idle" /\ R.queue = {} => Moves(R, Left(R, w), w)
           /\ R.worker[w].at = "failing" /\ R.errs # {} /\ R.failFast => Moves(R, Cancelled(R, w), w)
           /\ R.worker[w].at = "busy" =>
                 /\ Moves(R, Succeeded(R, w), w)
                 /\ R.worker[w].res \in Resources => Moves(R, Errored(R, w), w)
                 /\ \A step \in {"begin", "power", "fill", "deps", "health"}, left \in SUBSET Resources :
                       Moves(R, [R EXCEPT !.worker[w].step = step, !.worker[w].left = left], w)
<1>1. R.worker \in [Workers -> Worker] /\ R.worker[w] \in Worker /\ R.queue \subseteq Resources
  BY DEF Run
<1>2. ASSUME NEW r \in R.queue, R.worker[w].at = "idle", R.cancelled => R.errs # {} /\ R.failFast
      PROVE  Moves(R, Received(R, w, r), w)
  <2> PICK S : S = Received(R, w, r)
    OBVIOUS
  <2> PICK x : x = IF R.cancelled THEN AtRest("gone") ELSE [AtRest("busy") EXCEPT !.res = r]
    OBVIOUS
  <2>1. x \in Worker /\ x.at = (IF R.cancelled THEN "gone" ELSE "busy") /\ (~R.cancelled => x.res = r)
    BY <1>1, <1>2 DEF AtRest, Worker
  <2>2. S = [R EXCEPT !.queue = R.queue \ {r}, !.worker = [R.worker EXCEPT ![w] = x]]
    BY DEF Received, Run
  <2>3. S \in Run
    <3>1. [R.worker EXCEPT ![w] = x] \in [Workers -> Worker] /\ R.queue \ {r} \in SUBSET Resources
      BY <1>1, <2>1
    <3>2. QED
      BY <2>2, <3>1 DEF Run
  <2>4. QED
    BY <1>1, <1>2, <2>1, <2>2, <2>3 DEF Moves, Run
<1>3. ASSUME R.worker[w].at = "idle", R.queue = {}
      PROVE  Moves(R, Left(R, w), w)
  <2> PICK S : S = Left(R, w)
    OBVIOUS
  <2>1. S = [R EXCEPT !.worker = [R.worker EXCEPT ![w] = AtRest("gone")]] /\ S \in Run
    BY <1>1, Resting DEF Left, Run
  <2>2. QED
    BY <1>1, <1>3, <2>1, Resting DEF Moves, Run
<1>4. ASSUME R.worker[w].at = "failing", R.errs # {}, R.failFast
      PROVE  Moves(R, Cancelled(R, w), w)
  <2> PICK S : S = Cancelled(R, w)
    OBVIOUS
  <2>1. S = [R EXCEPT !.cancelled = TRUE, !.worker = [R.worker EXCEPT ![w] = AtRest("gone")]] /\ S \in Run
    BY <1>1, Resting DEF Cancelled, Run
  <2>2. QED
    <3>1. /\ S.worker[w].at = "gone" /\ S.cancelled /\ S.queue = R.queue /\ S.errs = R.errs
          /\ \A v \in Workers : v # w => S.worker[v] = R.worker[v]
      BY <1>1, <2>1, Resting DEF Run
    <3>2. /\ S.members = R.members /\ S.desc = R.desc /\ S.failFast = R.failFast
          /\ S.turn = R.turn /\ S.open = R.open /\ S.failed = R.failed /\ S.result = R.result
      BY <2>1 DEF Run
    <3>3. QED
      BY <1>4, <2>1, <3>1, <3>2 DEF Moves
<1>5. ASSUME R.worker[w].at = "busy"
      PROVE  Moves(R, Succeeded(R, w), w)
  <2> PICK S : S = Succeeded(R, w)
    OBVIOUS
  <2>1. S = [R EXCEPT !.worker = [R.worker EXCEPT ![w] = AtRest("idle")]] /\ S \in Run
    BY <1>1, Resting DEF Succeeded, Run
  <2>2. QED
    BY <1>1, <1>5, <2>1, Resting DEF Moves, Run
<1>6. ASSUME R.worker[w].at = "busy", R.worker[w].res \in Resources
      PROVE  Moves(R, Errored(R, w), w)
  <2> PICK S : S = Errored(R, w)
    OBVIOUS
  <2> PICK x : x = AtRest(IF R.failFast THEN "failing" ELSE "idle")
    OBVIOUS
  <2>1. x \in Worker /\ x.at = (IF R.failFast THEN "failing" ELSE "idle")
    BY Resting DEF AtRest
  <2>2. S = [R EXCEPT !.errs = R.errs \union {R.worker[w].res}, !.worker = [R.worker EXCEPT ![w] = x]]
    BY DEF Errored, Run
  <2>3. S \in Run
    <3>1. [R.worker EXCEPT ![w] = x] \in [Workers -> Worker]
          /\ R.errs \union {R.worker[w].res} \in SUBSET Resources
      BY <1>1, <1>6, <2>1 DEF Run
    <3>2. QED
      BY <2>2, <3>1 DEF Run
  <2>4. QED
    BY <1>1, <1>6, <2>1, <2>2, <2>3 DEF Moves, Run
<1>7. ASSUME R.worker[w].at = "busy", NEW step \in {"begin", "power", "fill", "deps", "health"},
             NEW left \in SUBSET Resources
      PROVE  Moves(R, [R EXCEPT !.worker[w].step = step, !.worker[w].left = left], w)
  <2> PICK S : S = [R EXCEPT !.worker[w].step = step, !.worker[w].left = left]
    OBVIOUS
  <2> PICK x : x = [R.worker[w] EXCEPT !.step = step, !.left = left]
    OBVIOUS
  <2>1. x \in Worker /\ x.at = "busy" /\ x.res = R.worker[w].res
    BY <1>1, <1>7 DEF Worker
  <2>2. S = [R EXCEPT !.worker = [R.worker EXCEPT ![w] = x]]
    BY <1>1, ZenonT(60) DEF Run, Worker
  <2>3. S \in Run
    BY <1>1, <2>1, <2>2 DEF Run
  <2>4. QED
    BY <1>1, <1>7, <2>1, <2>2, <2>3 DEF Moves, Run
<1>8. QED
  BY <1>2, <1>3, <1>4, <1>5, <1>6, <1>7

(* What a worker may do, in the pool's eyes. *)
Works(k, w) ==
    Task(k, w) \/ LookupFails(k, w) \/ FillFails(k, w) \/ WaitTimesOut(k, w) \/ TaskFails(k, w)

InTask(k, w) ==
    \/ Ends(k, w) \/ Fails(k, w)
    \/ \E step \in {"begin", "power", "fill", "deps", "health"}, left \in SUBSET Resources :
          Steps(k, w, step, left)

(* A task's resource is one of the run's, in its batch and out of the      *)
(* queue.                                                                  *)
LEMMA BusyHas ==
    ASSUME PoolInv, NEW k \in DOMAIN runs, NEW w \in Workers, Busy(k, w)
    PROVE  /\ Res(k, w) \in runs[k].members /\ Res(k, w) \in Resources
           /\ Turn(runs[k], Res(k, w)) = runs[k].turn /\ Res(k, w) \notin runs[k].queue
<1>1. Pooled(k) /\ runs[k] \in Run
  BY DEF PoolInv, Pooled, Formed
<1>2. Res(k, w) \in Batch(runs[k], runs[k].turn) \ runs[k].queue
  BY <1>1 DEF Pooled, Manned
<1>3. runs[k].members \subseteq Resources /\ runs[k].turn \in 0..Levels
  BY <1>1 DEF Run
<1>4. Priority[Res(k, w)] \in 1..Levels /\ Levels \in Nat
  BY <1>2, <1>3, StackAssumption DEF Batch, StackAssumption
<1>5. QED
  BY <1>2, <1>3, <1>4 DEF Batch, Turn

(* What is neither a receive nor a cancellation is a step of a task. *)
LEMMA TaskSteps ==
    ASSUME Typed, PoolInv, NEW k \in DOMAIN runs, NEW w \in Workers, Works(k, w),
           ~Receive(k, w), ~Cancel(k, w)
    PROVE  Busy(k, w) /\ InTask(k, w) /\ UNCHANGED <<plan, order, joined, result>>
<1>1. runs[k].worker \in [Workers -> Worker] /\ runs[k].worker[w] \in Worker
  BY DEF PoolInv, Pooled, Formed, Run
<1>2. Services \subseteq Resources /\ DependsOn \in [Services -> SUBSET Services]
  BY DeployAssumption DEF DeployAssumption
<1>3. {} \in SUBSET Resources /\ runs[k].worker[w].left \in SUBSET Resources
  BY <1>1 DEF Worker
<1> USE DEF InTask, Busy, Doing
<1>4. CASE \/ Lookup(k, w) \/ StopBegins(k, w) \/ PowerOff(k, w) \/ Delete(k, w) \/ Ensure(k, w)
           \/ CreateVolume(k, w) \/ FillVolume(k, w) \/ StartNetwork(k, w) \/ StartVolume(k, w)
  BY <1>3, <1>4 DEF Lookup, StopBegins, PowerOff, Delete, Refused, Ensure, CreateVolume, FillVolume,
     StartNetwork, StartVolume, Command
<1>5. CASE StartBegins(k, w)
  <2>1. Res(k, w) \in Services /\ DependsOn[Res(k, w)] \in SUBSET Resources
    BY <1>2, <1>5 DEF StartBegins
  <2>2. QED
    BY <1>5, <2>1 DEF StartBegins, Command
<1>6. CASE DependencySeen(k, w)
  <2>1. PICK d \in runs[k].worker[w].left : Steps(k, w, "deps", runs[k].worker[w].left \ {d})
    BY <1>6 DEF DependencySeen
  <2>2. runs[k].worker[w].left \ {d} \in SUBSET Resources
    BY <1>3
  <2>3. InTask(k, w)
    BY <2>1, <2>2
  <2>4. QED
    BY <1>6, <2>3 DEF DependencySeen, Command
<1>7. CASE PowerOn(k, w) \/ HealthSeen(k, w) \/ LookupFails(k, w) \/ FillFails(k, w)
           \/ WaitTimesOut(k, w) \/ TaskFails(k, w)
  BY <1>3, <1>7 DEF PowerOn, HealthSeen, LookupFails, FillFails, WaitTimesOut, TaskFails, Command
<1>8. QED
  BY <1>4, <1>5, <1>6, <1>7 DEF Works, Task

(* All a worker does to the runs is to move within its own run. *)
LEMMA WorkerMoves ==
    ASSUME Typed, PoolInv, NEW k \in DOMAIN runs, NEW w \in Workers, Works(k, w)
    PROVE  /\ UNCHANGED <<plan, order, joined, result>> /\ result = "none"
           /\ \E S : Moves(runs[k], S, w) /\ runs' = [runs EXCEPT ![k] = S]
<1> PICK R : R = runs[k]
  OBVIOUS
<1>1. R \in Run /\ Pooled(k)
  BY DEF PoolInv, Pooled, Formed
<1>2. CASE Receive(k, w)
  <2>1. UNCHANGED <<plan, order, joined, result>> /\ R.worker[w].at = "idle" /\ result = "none"
    BY <1>2 DEF Receive, Rewrite, Command
  <2>2. R.cancelled => R.errs # {} /\ R.failFast
    BY <1>1 DEF Pooled, Troubled
  <2>3. CASE R.queue = {} /\ Rewrite(k, Left(R, w))
    BY <1>1, <2>1, <2>3, MovesAre DEF Rewrite
  <2>4. CASE \E r \in InLine(R, Stacked(Plan[plan][k])) : Rewrite(k, Received(R, w, r))
    <3>1. PICK r \in R.queue : Rewrite(k, Received(R, w, r))
      BY <2>4 DEF InLine
    <3>2. Moves(R, Received(R, w, r), w)
      BY <1>1, <2>1, <2>2, MovesAre
    <3>3. QED
      BY <2>1, <3>1, <3>2 DEF Rewrite
  <2>5. QED
    BY <1>2, <2>3, <2>4 DEF Receive
<1>3. CASE Cancel(k, w)
  <2>1. R.worker[w].at = "failing" /\ R.errs # {} /\ R.failFast
    BY <1>1, <1>3 DEF Cancel, Pooled, Troubled
  <2>2. Moves(R, Cancelled(R, w), w)
    BY <1>1, <2>1, MovesAre
  <2>3. QED
    BY <1>3, <2>2 DEF Cancel, Rewrite, Command
<1>4. CASE ~Receive(k, w) /\ ~Cancel(k, w)
  <2>1. Busy(k, w) /\ InTask(k, w) /\ UNCHANGED <<plan, order, joined, result>>
    BY <1>4, TaskSteps
  <2>2. R.worker[w].at = "busy" /\ R.worker[w].res \in Resources
    BY <2>1, BusyHas DEF Busy, Res
  <2>3. CASE Ends(k, w)
    BY <1>1, <2>1, <2>2, <2>3, MovesAre DEF Ends, Rewrite
  <2>4. CASE Fails(k, w)
    BY <1>1, <2>1, <2>2, <2>4, MovesAre DEF Fails, Rewrite
  <2>5. CASE \E step \in {"begin", "power", "fill", "deps", "health"}, left \in SUBSET Resources :
                Steps(k, w, step, left)
    <3>1. PICK step \in {"begin", "power", "fill", "deps", "health"}, left \in SUBSET Resources :
                Steps(k, w, step, left)
      BY <2>5
    <3>2. Moves(R, [R EXCEPT !.worker[w].step = step, !.worker[w].left = left], w)
      BY <1>1, <2>2, MovesAre
    <3>3. QED
      BY <2>1, <3>1, <3>2 DEF Steps, Rewrite
  <2>6. QED
    BY <2>1, <2>3, <2>4, <2>5 DEF InTask
<1>5. QED
  BY <1>2, <1>3, <1>4

(* So what a worker does keeps the pool's invariant. *)
LEMMA WorkerPool ==
    ASSUME Typed, PoolInv, NEW k \in DOMAIN runs, NEW w \in Workers, Works(k, w)
    PROVE  PoolInv'
<1>1. PICK S : Moves(runs[k], S, w) /\ runs' = [runs EXCEPT ![k] = S]
  BY WorkerMoves
<1>2. QED
  BY <1>1, WorkerMoves, MovePool

(* A run is put behind the ones there are. *)
LEMMA Appended ==
    ASSUME runs \in Seq(Run), NEW run \in Run, runs' = Append(runs, run)
    PROVE  /\ runs' \in Seq(Run) /\ Current' = Current + 1 /\ DOMAIN runs' = DOMAIN runs \union {Current + 1}
           /\ runs'[Current + 1] = run /\ \A j \in DOMAIN runs : runs'[j] = runs[j]
           /\ DOMAIN runs = 1..Current /\ Current \in Nat
  BY DEF Current

(* A run is well-formed when it is made. *)
LEMMA NewRunIs ==
    ASSUME NEW members \in SUBSET Resources, NEW desc \in BOOLEAN, NEW failFast \in BOOLEAN,
           NEW run, run = NewRun(members, desc, failFast)
    PROVE  /\ run \in Run /\ AllGone(run) /\ run.queue = {} /\ ~run.open /\ run.turn = 0
           /\ run.result = "running" /\ run.errs = {} /\ run.failed = {} /\ ~run.cancelled
           /\ run.members = members /\ run.desc = desc /\ run.failFast = failFast
<1>1. [w \in Workers |-> AtRest("gone")] \in [Workers -> Worker] /\ AtRest("gone").at = "gone"
  BY Resting
<1>2. Levels \in Nat
  BY StackAssumption DEF StackAssumption
<1>3. QED
  BY <1>1, <1>2 DEF NewRun, Run, AllGone

(* The pool's invariant when the command goes on to its next run. *)
LEMMA NextPool ==
    ASSUME Typed, PoolInv, NextRun, runs' # runs
    PROVE  /\ PoolInv' /\ Current' = Current + 1 /\ \A j \in DOMAIN runs : runs'[j] = runs[j]
           /\ Current + 1 <= Len(Plan[plan]) /\ Current \in Nat /\ DOMAIN runs = 1..Current
           /\ runs'[Current + 1] = NewRun(Members(Plan[plan][Current + 1]),
                   Plan[plan][Current + 1].desc, Plan[plan][Current + 1].failFast)
           /\ runs'[Current + 1] \in Run
           /\ Current > 0 => /\ runs[Current].result # "running"
                             /\ runs[Current].result = "failed" => PhaseOf(Current).onError # "abort"
<1> PICK n : n = Current + 1
  OBVIOUS
<1> PICK run : run = NewRun(Members(Plan[plan][n]), Plan[plan][n].desc, Plan[plan][n].failFast)
  OBVIOUS
<1>1. /\ Current < Len(Plan[plan]) /\ runs' = Append(runs, run) /\ UNCHANGED <<plan, order>>
      /\ runs # <<>> => runs[Current].result # "running"
      /\ ~(runs # <<>> /\ runs[Current].result = "failed" /\ Plan[plan][Current].onError = "abort")
  BY DEF NextRun
<1>2. Current \in Nat /\ DOMAIN runs = 1..Current /\ (Current > 0 => runs # <<>>)
  BY DEF Current, PoolInv
<1>3. n \in 1..Len(Plan[plan])
  <2>1. Len(Plan[plan]) \in Nat
    BY PlanUp, PlanLengths DEF Typed
  <2>2. QED
    BY <1>1, <1>2, <2>1
<1>4. Plan[plan][n].desc \in BOOLEAN /\ Plan[plan][n].failFast \in BOOLEAN
  BY <1>3, PlanFacts DEF Typed, PhaseOf
<1>5. Members(Plan[plan][n]) \in SUBSET Resources
  BY DeployAssumption DEF Members, ForActionF, Supports, DeployAssumption
<1>6. run \in Run
  BY <1>4, <1>5, NewRunIs
<1>7. /\ runs' \in Seq(Run) /\ Current' = n /\ DOMAIN runs' = DOMAIN runs \union {n}
      /\ runs'[n] = run /\ \A j \in DOMAIN runs : runs'[j] = runs[j]
  BY <1>1, <1>6, Appended DEF PoolInv
<1>8. ASSUME NEW j \in DOMAIN runs PROVE Pooled(j)'
  <2>1. Pooled(j) /\ runs'[j] = runs[j]
    BY <1>7 DEF PoolInv
  <2>2. Past(j)'
    BY <1>1, <1>2, <1>7, <2>1 DEF Pooled, Past, PhaseOf
  <2>3. QED
    BY <1>1, <2>1, <2>2 DEF Pooled, Formed, PhaseOf, Manned, Troubled, Staffed, Closed, Busy, Res
<1>9. Pooled(n)'
  <2>1. /\ AllGone(run) /\ run.queue = {} /\ ~run.open /\ run.turn = 0
        /\ run.result = "running" /\ run.errs = {} /\ run.failed = {} /\ ~run.cancelled
        /\ run.desc = Plan[plan][n].desc /\ run.failFast = Plan[plan][n].failFast
    <3> PICK m : m = Members(Plan[plan][n])
      OBVIOUS
    <3> PICK d : d = Plan[plan][n].desc
      OBVIOUS
    <3> PICK f : f = Plan[plan][n].failFast
      OBVIOUS
    <3>1. m \in SUBSET Resources /\ d \in BOOLEAN /\ f \in BOOLEAN /\ run = NewRun(m, d, f)
      BY <1>4, <1>5
    <3>2. AllGone(run)
      BY ONLY <3>1, NewRunIs
    <3>3. /\ run.queue = {} /\ ~run.open /\ run.turn = 0
          /\ run.result = "running" /\ run.errs = {} /\ run.failed = {} /\ ~run.cancelled
          /\ run.desc = d /\ run.failFast = f
      BY ONLY <3>1 DEF NewRun
    <3>4. QED
      BY <3>2, <3>3
  <2>2. Past(n)' /\ Formed(n)'
    <3>1. ~(n < Current')
      BY <1>1, <1>7
    <3>2. n <= Len(Plan[plan'])
      BY <1>1, <1>2, <1>3
    <3>3. runs'[n].desc = Plan[plan'][n].desc /\ runs'[n].failFast = Plan[plan'][n].failFast
      BY <1>1, <1>7, <2>1
    <3>4. QED
      BY <1>6, <1>7, <3>1, <3>2, <3>3 DEF Past, Formed, PhaseOf
  <2>3. \A w \in Workers : run.worker[w].at = "gone"
    BY <2>1 DEF AllGone
  <2>4. QED
    BY <1>7, <2>1, <2>2, <2>3 DEF Pooled, Manned, Troubled, Staffed, Closed, Busy, AllGone
<1>10. PoolInv'
  BY <1>7, <1>8, <1>9 DEF PoolInv
<1>11. QED
  BY <1>1, <1>2, <1>3, <1>6, <1>7, <1>10 DEF PhaseOf

(* Every service is in the dependency order once: all of them are stacked. *)
LEMMA OrderFacts ==
    ASSUME order \in ServiceOrders
    PROVE  /\ Len(order) \in Nat /\ DOMAIN order = 1..Len(order)
           /\ \A i \in DOMAIN order : order[i] \in Services
           /\ \A s \in Services : \E i \in DOMAIN order : order[i] = s
<1>1. IsFiniteSet(Services) /\ Cardinality(Services) \in Nat
  BY DeployAssumption, FS_CardinalityType DEF DeployAssumption
<1> PICK D : D = 1..Cardinality(Services)
  OBVIOUS
<1>2. order \in [D -> Services] /\ \A i, j \in D : i # j => order[i] # order[j]
  BY DEF ServiceOrders, SetToSeqs
<1>3. order \in Injection(D, Services)
  BY <1>2 DEF Injection, IsInjective
<1>4. IsFiniteSet(D) /\ Cardinality(D) = Cardinality(Services)
  BY <1>1, FS_Interval
<1>5. order \in Surjection(D, Services)
  <2> PICK o : o = order
    OBVIOUS
  <2>1. o \in Injection(D, Services)
    BY <1>3
  <2>2. o \in Surjection(D, Services)
    BY <1>1, <1>4, <2>1, FS_Injection
  <2>3. QED
    BY <2>2
<1>6. \A s \in Services : \E i \in D : order[i] = s
  BY <1>5 DEF Surjection
<1>7. Len(order) = Cardinality(Services) /\ DOMAIN order = D
  BY <1>1, <1>2
<1>8. QED
  BY <1>1, <1>2, <1>6, <1>7

(* What is stacked: every service, with all its resources, and nothing but *)
(* resources; for a deployment list by list in dependency order.           *)
LEMMA StackedIs ==
    ASSUME Typed, NEW k \in 1..Len(Plan[plan])
    PROVE  /\ \A s \in Services : ToSet(ResourcesOf[s]) \subseteq Add(Stacked(PhaseOf(k)))
           /\ Services \subseteq Add(Stacked(PhaseOf(k)))
           /\ ~PhaseOf(k).desc =>
                 /\ DOMAIN Stacked(PhaseOf(k)) = DOMAIN order
                 /\ \A i \in DOMAIN order : Stacked(PhaseOf(k))[i] = ResourcesOf[order[i]]
<1>1. /\ Len(order) \in Nat /\ DOMAIN order = 1..Len(order)
      /\ \A i \in DOMAIN order : order[i] \in Services
      /\ \A s \in Services : \E i \in DOMAIN order : order[i] = s
  BY OrderFacts DEF Typed
<1>2. \A s \in Services : s \in ToSet(ResourcesOf[s])
  BY DeployAssumption DEF DeployAssumption
<1> PICK o : o = IF PhaseOf(k).desc THEN Reverse(order) ELSE order
  OBVIOUS
<1>3. \A s \in Services : \E i \in DOMAIN o : o[i] = s
  <2>1. CASE PhaseOf(k).desc
    <3> SUFFICES ASSUME NEW s \in Services PROVE \E i \in DOMAIN o : o[i] = s
      OBVIOUS
    <3>1. PICK i \in 1..Len(order) : order[i] = s
      BY <1>1
    <3>2. o = [j \in 1..Len(order) |-> order[(Len(order) - j) + 1]]
      BY <2>1 DEF Reverse
    <3>3. Len(order) + 1 - i \in 1..Len(order) /\ (Len(order) - (Len(order) + 1 - i)) + 1 = i
      BY <1>1
    <3>4. QED
      BY <3>1, <3>2, <3>3
  <2>2. CASE ~PhaseOf(k).desc
    BY <1>1, <2>2
  <2>3. QED
    BY <2>1, <2>2
<1>4. Stacked(PhaseOf(k)) = [i \in DOMAIN o |-> ResourcesOf[o[i]]]
  BY DEF Stacked, AddOrdered
<1>5. ASSUME NEW s \in Services PROVE ToSet(ResourcesOf[s]) \subseteq Add(Stacked(PhaseOf(k)))
  <2>1. PICK i \in DOMAIN o : o[i] = s
    BY <1>3
  <2>2. Stacked(PhaseOf(k))[i] = ResourcesOf[s] /\ i \in DOMAIN Stacked(PhaseOf(k))
    BY <1>4, <2>1
  <2>3. QED
    BY <2>2 DEF Add
<1>6. ~PhaseOf(k).desc => o = order
  OBVIOUS
<1>7. QED
  BY <1>2, <1>4, <1>5, <1>6

(* A worker that outlives its run is one of a restart's second look, whose *)
(* failure does not end the command.                                       *)
LEMMA Outlives ==
    ASSUME Typed, PoolInv, NEW k \in DOMAIN runs, NEW w \in Workers,
           runs[k].worker[w].at # "gone", k < Len(Plan[plan]), runs[k].result # "running",
           runs[k].result = "failed" => PhaseOf(k).onError # "abort"
    PROVE  plan = "restart" /\ k = 3 /\ Act(k) = "lookup"
<1>1. Pooled(k) /\ Current \in Nat /\ DOMAIN runs = 1..Current
  BY DEF PoolInv, Current
<1>2. Len(Plan[plan]) \in 2..5 /\ k + 1 \in 1..Len(Plan[plan]) /\ k \in 1..Len(Plan[plan])
  BY <1>1, PlanLengths DEF Typed, Pooled, Formed
<1>3. runs[k].result = "failed" /\ runs[k].failFast
  BY <1>1 DEF Pooled, Closed, AllGone
<1>4. PhaseOf(k).failFast /\ PhaseOf(k).onError # "abort"
  BY <1>1, <1>3 DEF Pooled, Formed
<1>5. Act(k) \in {"lookup", "start"}
  BY <1>2, <1>4, PlanFacts DEF Typed
<1>6. CASE plan # "restart"
  <2>1. Act(k) = "start"
    BY <1>2, <1>4, <1>5, <1>6, PlanFacts DEF Typed
  <2>2. Act((k + 1) - 1) # "start"
    BY <1>1, <1>2, <1>6, PlanFacts DEF Typed
  <2>3. (k + 1) - 1 = k
    BY <1>2
  <2>4. QED
    BY <2>1, <2>2, <2>3
<1>7. CASE plan = "restart"
  <2>1. k \in {1, 2, 3}
    BY <1>2, <1>7, PlanRestart
  <2>2. k = 3
    BY <1>4, <1>7, <2>1, PlanRestart DEF PhaseOf, Phase
  <2>3. QED
    BY <1>7, <2>2, PlanRestart DEF PhaseOf, Phase, Act
<1>8. QED
  BY <1>6, <1>7

(* So nothing but that overlaps the next run. *)
LEMMA OnlyCurrent ==
    ASSUME Typed, PoolInv, NEW k \in DOMAIN runs, NEW w \in Workers,
           runs[k].worker[w].at # "gone", k # Current
    PROVE  /\ plan = "restart" /\ k = 3 /\ Current = 4
           /\ Act(k) = "lookup" /\ Act(Current) = "start"
<1>1. /\ Pooled(k) /\ Pooled(Current) /\ Current \in Nat /\ DOMAIN runs = 1..Current
      /\ k < Current /\ k \in Nat
  BY DEF PoolInv, Current
<1>2. Len(Plan[plan]) \in 2..5 /\ Current <= Len(Plan[plan]) /\ k < Len(Plan[plan])
  BY <1>1, PlanLengths DEF Typed, Pooled, Formed
<1>3. runs[k].result # "running" /\ (runs[k].result = "failed" => PhaseOf(k).onError # "abort")
  BY <1>1 DEF Pooled, Past
<1>4. plan = "restart" /\ k = 3 /\ Act(k) = "lookup"
  BY <1>2, <1>3, Outlives
<1>5. Current = 4
  BY <1>1, <1>2, <1>4, PlanRestart
<1>6. QED
  BY <1>4, <1>5, PlanRestart DEF PhaseOf, Phase, Act

(* What a worker's step leaves of the runs. *)
LEMMA WorkKeeps ==
    ASSUME Typed, PoolInv, NEW k \in DOMAIN runs, NEW w \in Workers, Works(k, w)
    PROVE  /\ DOMAIN runs' = DOMAIN runs /\ Current' = Current
           /\ \A j \in DOMAIN runs : j # k => runs'[j] = runs[j]
           /\ \A v \in Workers : v # w => runs'[k].worker[v] = runs[k].worker[v]
           /\ \A j \in DOMAIN runs :
                 /\ runs'[j].members = runs[j].members /\ runs'[j].desc = runs[j].desc
                 /\ runs'[j].failFast = runs[j].failFast
                 /\ runs'[j].turn = runs[j].turn /\ runs'[j].open = runs[j].open
                 /\ runs'[j].failed = runs[j].failed /\ runs'[j].result = runs[j].result
                 /\ runs'[j].queue \subseteq runs[j].queue /\ runs[j].errs \subseteq runs'[j].errs
           /\ runs[k].worker[w].at # "busy" => runs'[k].errs = runs[k].errs
<1>1. PICK S : Moves(runs[k], S, w) /\ runs' = [runs EXCEPT ![k] = S]
  BY WorkerMoves
<1>2. S \in Run /\ runs \in Seq(Run)
  BY <1>1 DEF Moves, PoolInv
<1>3. /\ DOMAIN runs' = DOMAIN runs /\ Current' = Current
      /\ runs'[k] = S /\ \A j \in DOMAIN runs : j # k => runs'[j] = runs[j]
  BY <1>1, <1>2, Rewritten
<1>4. QED
  BY <1>1, <1>3 DEF Moves

(* A resource is done with by the worker that has it, or left in a queue   *)
(* that has been cancelled.                                                *)
LEMMA TakenBy ==
    ASSUME Typed, PoolInv, NEW k \in DOMAIN runs, NEW w \in Workers, Works(k, w),
           NEW j \in DOMAIN runs, NEW r \in Resources, Taken(j, r)'
    PROVE  \/ Taken(j, r)
           \/ j = k /\ runs[k].failFast /\ runs[k].errs # {}
           \/ j = k /\ Busy(k, w) /\ ~Busy(k, w)' /\ Res(k, w) = r
<1> PICK R : R = runs[k]
  OBVIOUS
<1>1. PICK S : Moves(R, S, w) /\ runs' = [runs EXCEPT ![k] = S]
  BY WorkerMoves
<1>2. S \in Run /\ runs \in Seq(Run) /\ Pooled(k)
  BY <1>1 DEF Moves, PoolInv
<1>3. runs'[k] = S /\ \A i \in DOMAIN runs : i # k => runs'[i] = runs[i]
  BY <1>1, <1>2, Rewritten
<1>4. CASE j # k
  BY <1>3, <1>4 DEF Taken, Turn, Busy, Res
<1>5. CASE j = k
  <2> SUFFICES ASSUME ~Taken(k, r), ~(R.failFast /\ R.errs # {})
               PROVE  Busy(k, w) /\ ~Busy(k, w)' /\ Res(k, w) = r
    BY <1>5
  <2>1. r \in R.members /\ S.turn = R.turn /\ Turn(S, r) = Turn(R, r)
    BY <1>1, <1>3, <1>5 DEF Moves, Taken, Turn
  <2>2. /\ Turn(R, r) = R.turn /\ r \notin S.queue
        /\ \A v \in Workers : ~(S.worker[v].at = "busy" /\ S.worker[v].res = r)
    BY <1>3, <1>5, <2>1 DEF Taken, Busy, Res
  <2>3. ~R.cancelled
    BY <1>2 DEF Pooled, Troubled
  <2>4. r \notin R.queue
    BY <1>1, <2>2, <2>3 DEF Moves
  <2>5. PICK v \in Workers : R.worker[v].at = "busy" /\ R.worker[v].res = r
    BY <2>1, <2>2, <2>4 DEF Taken, Busy, Res
  <2>6. v = w
    BY <1>1, <2>2, <2>5 DEF Moves
  <2>7. S.worker[w].at # "busy"
    BY <1>1, <2>2, <2>4, <2>5, <2>6 DEF Moves
  <2>8. QED
    BY <1>3, <2>5, <2>6, <2>7 DEF Busy, Res
<1>6. QED
  BY <1>4, <1>5

(* A task ends, fails, or goes on. *)
LEMMA TaskEffect ==
    ASSUME PoolInv, NEW k \in DOMAIN runs, NEW w \in Workers, Busy(k, w)
    PROVE  /\ Ends(k, w) => ~Busy(k, w)' /\ runs'[k].errs = runs[k].errs
           /\ Fails(k, w) => ~Busy(k, w)' /\ runs'[k].errs = runs[k].errs \union {Res(k, w)}
           /\ \A step \in {"begin", "power", "fill", "deps", "health"}, left \in SUBSET Resources :
                 Steps(k, w, step, left) =>
                    /\ Busy(k, w)' /\ runs'[k].errs = runs[k].errs /\ runs'[k].queue = runs[k].queue
                    /\ Res(k, w)' = Res(k, w)
                    /\ runs'[k].worker[w].step = step /\ runs'[k].worker[w].left = left
<1> PICK R : R = runs[k]
  OBVIOUS
<1>1. R \in Run /\ R.worker \in [Workers -> Worker] /\ R.worker[w] \in Worker /\ runs \in Seq(Run)
  BY DEF PoolInv, Pooled, Formed, Run
<1>2. ASSUME Ends(k, w) PROVE ~Busy(k, w)' /\ runs'[k].errs = R.errs
  <2>1. runs'[k] = Succeeded(R, w)
    BY <1>1, <1>2 DEF Ends, Rewrite
  <2>2. Succeeded(R, w).worker[w].at = "idle" /\ Succeeded(R, w).errs = R.errs
    BY <1>1, Resting DEF Succeeded, Run
  <2>3. QED
    BY <2>1, <2>2 DEF Busy
<1>3. ASSUME Fails(k, w) PROVE ~Busy(k, w)' /\ runs'[k].errs = R.errs \union {Res(k, w)}
  <2>1. runs'[k] = Errored(R, w)
    BY <1>1, <1>3 DEF Fails, Rewrite
  <2>2. Errored(R, w).worker[w].at # "busy" /\ Errored(R, w).errs = R.errs \union {R.worker[w].res}
    BY <1>1, Resting DEF Errored, Run
  <2>3. QED
    BY <2>1, <2>2 DEF Busy, Res
<1>4. ASSUME NEW step \in {"begin", "power", "fill", "deps", "health"}, NEW left \in SUBSET Resources,
             Steps(k, w, step, left)
      PROVE  /\ Busy(k, w)' /\ runs'[k].errs = R.errs /\ runs'[k].queue = R.queue
             /\ Res(k, w)' = Res(k, w)
             /\ runs'[k].worker[w].step = step /\ runs'[k].worker[w].left = left
  <2> PICK S : S = [R EXCEPT !.worker[w].step = step, !.worker[w].left = left]
    OBVIOUS
  <2>1. runs'[k] = S
    BY <1>1, <1>4 DEF Steps, Rewrite
  <2> PICK x : x = [R.worker[w] EXCEPT !.step = step, !.left = left]
    OBVIOUS
  <2>2. S = [R EXCEPT !.worker = [R.worker EXCEPT ![w] = x]]
    BY <1>1, ZenonT(60) DEF Run, Worker
  <2> PICK W : W = [R.worker EXCEPT ![w] = x]
    OBVIOUS
  <2>3. S.worker[w] = x /\ S.errs = R.errs /\ S.queue = R.queue
    <3>1. S.worker = W /\ S.errs = R.errs /\ S.queue = R.queue
      BY <1>1, <2>2 DEF Run
    <3>2. W[w] = x
      BY <1>1
    <3>3. QED
      BY <3>1, <3>2
  <2>4. /\ S.worker[w].at = "busy" /\ S.worker[w].res = R.worker[w].res
        /\ S.worker[w].step = step /\ S.worker[w].left = left
    BY <1>1, <2>3 DEF Worker, Busy
  <2>5. QED
    BY <2>1, <2>3, <2>4 DEF Busy, Res
<1>5. QED
  BY <1>2, <1>3, <1>4

-----------------------------------------------------------------------------
(* The tasks. *)

(* The sets of resources are apart. *)
LEMMA Apart ==
    /\ Services \subseteq Resources /\ Volumes \subseteq Resources /\ Networks \subseteq Resources
    /\ Services \intersect Volumes = {} /\ Services \intersect Networks = {}
    /\ Resources = Services \union Networks \union Volumes
    /\ Policy \subseteq Services /\ Watched \subseteq Services /\ Late \subseteq Services
    /\ DependsOn \in [Services -> SUBSET Services]
  BY DeployAssumption DEF DeployAssumption

(* The state stays well-formed, whatever a worker does. *)
LEMMA WorkTyped ==
    ASSUME Base, NEW k \in DOMAIN runs, NEW w \in Workers, Works(k, w)
    PROVE  Typed'
<1>1. Typed /\ PoolInv /\ PoolInv' /\ UNCHANGED <<plan, order, joined, result>>
  BY WorkerPool, WorkerMoves DEF Base
<1>2. plan' \in Plans /\ order' \in ServiceOrders' /\ runs' \in Seq(Run) /\ joined' \in BOOLEAN
  <2>1. ServiceOrders' = ServiceOrders
    BY DEF ServiceOrders, Topological
  <2>2. QED
    BY <1>1, <2>1 DEF Typed, PoolInv
<1> DEFINE Rest == /\ known \subseteq Resources /\ exists \subseteq Resources
                   /\ running \subseteq Services /\ queued \subseteq Services \intersect Policy
                   /\ filled \subseteq Volumes \intersect exists
                   /\ known \intersect Services \subseteq exists
                   /\ queued \subseteq exists
                   /\ faults \in Nat
<1>3. Rest
  BY <1>1 DEF Typed
<1>4. ASSUME Busy(k, w) PROVE Tasked(k, w) /\ Res(k, w) \in Resources
  BY <1>1, <1>4, BusyHas DEF Base, Tasks
<1> USE DEF Doing, Busy, server, Command
<1>5. CASE Receive(k, w) \/ Cancel(k, w) \/ StartNetwork(k, w) \/ StartVolume(k, w)
           \/ DependencySeen(k, w) \/ HealthSeen(k, w) \/ StopBegins(k, w) \/ StartBegins(k, w)
  <2>1. UNCHANGED <<known, exists, running, queued, filled, faults>>
    BY <1>5 DEF Receive, Cancel, StartNetwork, StartVolume, DependencySeen, HealthSeen, StopBegins, StartBegins
  <2>2. QED
    BY <1>1, <1>2, <1>3, <2>1 DEF Typed
<1>6. CASE LookupFails(k, w) \/ WaitTimesOut(k, w) \/ TaskFails(k, w)
  <2>1. UNCHANGED <<exists, running, queued, filled>> /\ known' \subseteq known
        /\ faults' \in {faults, faults + 1}
    BY <1>6 DEF LookupFails, WaitTimesOut, TaskFails, Fault
  <2>2. QED
    BY <1>1, <1>2, <1>3, <2>1 DEF Typed
<1>7. CASE Lookup(k, w) \/ PowerOff(k, w) \/ PowerOn(k, w)
  <2>1. CASE Lookup(k, w)
    BY <1>1, <1>2, <1>3, <1>4, <2>1 DEF Lookup, Typed
  <2>2. CASE PowerOff(k, w)
    <3>1. Res(k, w) \in known
      BY <1>4, <2>2 DEF PowerOff, Tasked
    <3>2. QED
      BY <1>1, <1>2, <1>3, <2>2, <3>1, Apart DEF PowerOff, Typed
  <2>3. CASE PowerOn(k, w)
    <3>1. Res(k, w) \in Services
      BY <1>4, <2>3 DEF PowerOn, Tasked
    <3>2. QED
      BY <1>1, <1>2, <1>3, <2>3, <3>1 DEF PowerOn, Typed
  <2>4. QED
    BY <1>7, <2>1, <2>2, <2>3
<1>8. CASE Delete(k, w)
  <2>1. /\ \E gone \in {{}, {Res(k, w)} \intersect known} :
              /\ exists' = exists \ gone /\ queued' = queued \ gone /\ filled' = filled \ gone
        /\ known' = known \ {Res(k, w)} /\ UNCHANGED <<running, faults>>
    BY <1>8 DEF Delete
  <2>2. QED
    BY <1>1, <1>2, <1>3, <2>1 DEF Typed
<1>9. CASE Ensure(k, w) \/ CreateVolume(k, w)
  <2>1. Res(k, w) \in Resources
    BY <1>4, <1>9 DEF Ensure, CreateVolume
  <2>2. CASE Ensure(k, w)
    BY <1>1, <1>2, <1>3, <2>1, <2>2 DEF Ensure, Typed
  <2>3. CASE CreateVolume(k, w)
    BY <1>1, <1>2, <1>3, <2>1, <2>3 DEF CreateVolume, Typed
  <2>4. QED
    BY <1>9, <2>2, <2>3
<1>10. CASE FillVolume(k, w) \/ FillFails(k, w)
  <2>1. Res(k, w) \in Volumes /\ Res(k, w) \in exists \ filled
    BY <1>4, <1>10 DEF FillVolume, FillFails, Tasked
  <2>2. CASE FillVolume(k, w)
    BY <1>1, <1>2, <1>3, <2>1, <2>2, Apart DEF FillVolume, Typed
  <2>3. CASE FillFails(k, w)
    <3>1. /\ UNCHANGED <<running, queued, filled>>
          /\ \/ exists' = exists \ {Res(k, w)} /\ known' = known
             \/ exists' = exists /\ known' = known \union {Res(k, w)}
          /\ faults' \in {faults + 1, faults + 2}
      BY <2>3 DEF FillFails, Fault
    <3>2. QED
      BY <1>1, <1>2, <1>3, <2>1, <3>1, Apart DEF Typed
  <2>4. QED
    BY <1>10, <2>2, <2>3
<1>11. QED
  BY <1>5, <1>6, <1>7, <1>8, <1>9, <1>10 DEF Works, Task

(* A start is the last run of a command. *)
LEMMA StartIsLast ==
    ASSUME Typed, PoolInv, NEW k \in DOMAIN runs, Act(k) = "start"
    PROVE  k = Current
<1>1. DOMAIN runs = 1..Current /\ Current \in Nat /\ Current \in DOMAIN runs
  BY DEF PoolInv, Current
<1>2. Len(Plan[plan]) \in 2..5 /\ k \in 1..Len(Plan[plan]) /\ Current <= Len(Plan[plan])
  BY <1>1, PlanLengths DEF Typed, PoolInv, Pooled, Formed
<1>3. SUFFICES ASSUME k < Len(Plan[plan]) PROVE FALSE
  BY <1>1, <1>2
<1>4. k + 1 \in 1..Len(Plan[plan]) /\ (k + 1) - 1 = k
  BY <1>2, <1>3
<1>5. plan # "restart" => Act(k) # "start"
  <2>1. plan # "restart" => Act((k + 1) - 1) # "start"
    BY <1>4, PlanFacts DEF Typed
  <2>2. QED
    BY <1>4, <2>1
<1>6. plan = "restart" => k = 4 /\ Len(Plan[plan]) = 4
  BY <1>2, PlanFacts DEF Typed
<1>7. plan = "restart"
  BY <1>5
<1>8. k < Len(Plan[plan]) /\ k = 4 /\ Len(Plan[plan]) = 4
  BY <1>3, <1>6, <1>7
<1>9. QED
  BY <1>8

(* What a worker's step takes away and gives. *)
LEMMA Effects ==
    ASSUME Base, NEW k \in DOMAIN runs, NEW w \in Workers, Works(k, w)
    PROVE  /\ \/ known \subseteq known'
              \/ Busy(k, w) /\ Act(k) = "delete" /\ known \ {Res(k, w)} \subseteq known'
           /\ exists' = exists \/ (Busy(k, w) /\ Act(k) \in {"delete", "ensure"})
           /\ \/ exists \subseteq exists' \/ (Busy(k, w) /\ Act(k) = "delete")
              \/ /\ Busy(k, w) /\ runs[k].worker[w].step = "fill"
                 /\ exists \ {Res(k, w)} \subseteq exists'
           /\ \/ filled' \subseteq filled
              \/ /\ Busy(k, w) /\ runs[k].worker[w].step = "fill"
                 /\ filled' \subseteq filled \union {Res(k, w)}
           /\ marker \subseteq marker' \/ (Busy(k, w) /\ Act(k) \in {"delete", "start"})
           /\ running \subseteq running' \/ (Busy(k, w) /\ Act(k) = "stop")
           /\ running' \subseteq running \/ (Busy(k, w) /\ Act(k) = "start")
           /\ running' \ running \subseteq renewed' /\ renewed \subseteq renewed' /\ made \subseteq made'
           /\ exists' \ exists \subseteq made' \union Volumes
           /\ lost \subseteq lost' /\ (lost' = lost \/ LookupFails(k, w))
           /\ faults' \in Nat /\ faults' >= faults /\ (faults' = 0 => faults = 0)
<1>1. faults \in Nat /\ faults' \in Nat
  BY WorkTyped DEF Base, Typed
<1>2. ASSUME Busy(k, w), runs[k].worker[w].step = "fill" PROVE Res(k, w) \in Volumes
  BY <1>2 DEF Base, Tasks, Tasked
<1> USE DEF Doing, Busy, server, Command, Act, PhaseOf
<1>3. CASE Receive(k, w) \/ Cancel(k, w) \/ StartNetwork(k, w) \/ StartVolume(k, w)
           \/ DependencySeen(k, w) \/ HealthSeen(k, w)
  BY <1>1, <1>3 DEF Receive, Cancel, StartNetwork, StartVolume, DependencySeen, HealthSeen
<1>4. CASE Lookup(k, w) \/ StopBegins(k, w) \/ PowerOff(k, w) \/ StartBegins(k, w) \/ PowerOn(k, w)
  BY <1>1, <1>4 DEF Lookup, StopBegins, PowerOff, StartBegins, PowerOn
<1>5. CASE LookupFails(k, w) \/ WaitTimesOut(k, w) \/ TaskFails(k, w)
  BY <1>1, <1>5 DEF LookupFails, WaitTimesOut, TaskFails, Fault
<1>6. CASE Delete(k, w)
  BY <1>1, <1>6 DEF Delete
<1>7. CASE Ensure(k, w)
  BY <1>1, <1>7 DEF Ensure
<1>8. CASE CreateVolume(k, w) \/ FillVolume(k, w)
  BY <1>1, <1>8 DEF CreateVolume, FillVolume
<1>9. CASE FillFails(k, w)
  BY <1>1, <1>9 DEF FillFails, Fault
<1>10. QED
  BY <1>3, <1>4, <1>5, <1>6, <1>7, <1>8, <1>9 DEF Works, Task

(* A service at the head of the line of a deployment has every dependency  *)
(* ahead of it: none is still in the queue.                                *)
LEMMA HeadOfLine ==
    ASSUME Typed, PoolInv, NEW k \in DOMAIN runs, ~PhaseOf(k).desc,
           NEW r \in InLine(runs[k], Stacked(PhaseOf(k))), r \in Services
    PROVE  DependsOn[r] \intersect (runs[k].queue \ {r}) = {}
<1> SUFFICES ASSUME NEW d \in DependsOn[r], d \in runs[k].queue, d # r PROVE FALSE
  OBVIOUS
<1> PICK stack : stack = Stacked(PhaseOf(k))
  OBVIOUS
<1>1. k \in 1..Len(Plan[plan])
  <2>1. Len(Plan[plan]) \in Nat /\ k <= Len(Plan[plan]) /\ k \in Nat /\ k >= 1
    BY PlanLengths DEF Typed, PoolInv, Pooled, Formed
  <2>2. QED
    BY <2>1
<1>2. DOMAIN stack = DOMAIN order /\ \A i \in DOMAIN order : stack[i] = ResourcesOf[order[i]]
  BY <1>1, StackedIs
<1>3. /\ Len(order) \in Nat /\ DOMAIN order = 1..Len(order)
      /\ \A i \in DOMAIN order : order[i] \in Services
  BY OrderFacts DEF Typed
<1>4. \A s \in Services : ToSet(ResourcesOf[s]) \intersect Services = {s}
  BY DeployAssumption DEF DeployAssumption
<1>5. Before(stack, r, d)
  BY DEF InLine
<1>6. PICK i \in DOMAIN stack : /\ \A h \in 1..(i - 1) : {r, d} \intersect ToSet(stack[h]) = {}
                                /\ \E j \in DOMAIN stack[i] : stack[i][j] = r
  BY <1>5 DEF Before
<1>7. order[i] = r
  <2>1. r \in ToSet(ResourcesOf[order[i]])
    BY <1>2, <1>6 DEF ToSet
  <2>2. QED
    BY <1>2, <1>3, <1>4, <2>1
<1>8. DependsOn[r] \subseteq {order[h] : h \in 1..(i - 1)}
  BY <1>2, <1>7 DEF Typed, ServiceOrders, Topological
<1>9. PICK h \in 1..(i - 1) : order[h] = d
  BY <1>8
<1>10. h \in DOMAIN order
  BY <1>2, <1>3
<1>11. d \in ToSet(stack[h])
  BY <1>2, <1>3, <1>4, <1>9, <1>10
<1>12. QED
  BY <1>6, <1>11

(* What a step says of the action. *)
LEMMA StepAct ==
    ASSUME NEW k, NEW w, Tasked(k, w)
    PROVE  /\ runs[k].worker[w].step = "fill" => Act(k) = "ensure"
           /\ runs[k].worker[w].step = "power" => Act(k) = "stop"
           /\ runs[k].worker[w].step \in {"deps", "health"} => Act(k) = "start"
  BY DEF Tasked, Fits

(* What another worker's task has come to still holds. *)
LEMMA OthersKeep ==
    ASSUME Base, NEW k \in DOMAIN runs, NEW w \in Workers, Works(k, w),
           NEW j \in DOMAIN runs, NEW v \in Workers, j # k \/ v # w, Busy(j, v)'
    PROVE  Busy(j, v) /\ Tasked(j, v)' /\ Res(j, v)' = Res(j, v)
<1>1. Busy(k, w) => Tasked(k, w)
  BY DEF Base, Tasks
<1>2. /\ runs'[j].worker[v] = runs[j].worker[v] /\ runs'[j].desc = runs[j].desc
      /\ runs'[j].queue \subseteq runs[j].queue /\ UNCHANGED plan
  BY WorkKeeps, WorkerMoves DEF Base
<1>3. Busy(j, v) /\ Tasked(j, v) /\ Res(j, v)' = Res(j, v)
  BY <1>2 DEF Busy, Res, Base, Tasks
<1>4. /\ Act(j) # "lookup" => j = Current
      /\ Busy(k, w) /\ Act(k) # "lookup" => k = Current
  BY <1>3, OnlyCurrent DEF Base, Busy
<1>5. j = k /\ Busy(k, w) => Res(j, v) # Res(k, w)
  BY <1>3 DEF Base, PoolInv, Pooled, Manned
<1>6. Act(j)' = Act(j)
  BY <1>2 DEF Act, PhaseOf
<1>7. Act(j) \in {"stop", "start", "ensure"} => known \subseteq known'
  BY <1>4, Effects
<1>8. Act(j) = "ensure" /\ Res(j, v) \in exists \ filled => Res(j, v) \in exists' \ filled'
  <2>1. SUFFICES ASSUME Act(j) = "ensure", Res(j, v) \in exists \ filled PROVE Res(j, v) \in exists' \ filled'
    OBVIOUS
  <2>2. j = Current /\ ~(Busy(k, w) /\ Act(k) = "delete")
    BY <1>4, <2>1
  <2>3. Busy(k, w) /\ runs[k].worker[w].step = "fill" => Act(k) = "ensure"
    BY <1>1, StepAct
  <2>4. Busy(k, w) /\ runs[k].worker[w].step = "fill" => Res(j, v) # Res(k, w)
    BY <1>4, <1>5, <2>2, <2>3
  <2>5. QED
    BY <2>1, <2>2, <2>4, Effects
<1>9. Act(j) = "stop" => marker \subseteq marker'
  BY <1>4, Effects
<1>10. Act(j) = "start" => running \subseteq running'
  BY <1>4, Effects
<1>11. Tasked(j, v)'
  BY <1>2, <1>3, <1>6, <1>7, <1>8, <1>9, <1>10 DEF Tasked, Res, Fits
<1>12. QED
  BY <1>3, <1>11

(* Where a task that goes on has come to. *)
LEMMA GoesOn ==
    ASSUME Base, NEW k \in DOMAIN runs, NEW w \in Workers, Works(k, w), Busy(k, w)'
    PROVE  Tasked(k, w)' /\ (Busy(k, w) => Res(k, w)' = Res(k, w))
<1>1. Typed /\ PoolInv /\ PoolInv' /\ UNCHANGED plan /\ runs \in Seq(Run) /\ runs[k] \in Run
  BY WorkerPool, WorkerMoves DEF Base, PoolInv, Pooled, Formed
<1>2. Act(k)' = Act(k) /\ runs'[k].desc = runs[k].desc /\ runs'[k].queue \subseteq runs[k].queue
  BY <1>1, WorkKeeps DEF Act, PhaseOf
<1>3. k \in 1..Len(Plan[plan]) /\ runs[k].desc = PhaseOf(k).desc /\ Pooled(k)
  <2>1. Len(Plan[plan]) \in Nat /\ k <= Len(Plan[plan]) /\ k \in Nat /\ k >= 1 /\ Pooled(k)
    BY <1>1, PlanLengths DEF Typed, PoolInv, Pooled, Formed
  <2>2. QED
    BY <2>1 DEF Pooled, Formed
<1>4. DependsOn \in [Services -> SUBSET Services] /\ Services \subseteq Resources
  BY Apart
<1>5. CASE Receive(k, w)
  <2> PICK R : R = runs[k]
    OBVIOUS
  <2>0. R.worker[w].at = "idle" /\ ~Busy(k, w) /\ UNCHANGED known
    BY <1>5 DEF Receive, Busy, server
  <2>1. PICK r \in InLine(R, Stacked(PhaseOf(k))) : runs' = [runs EXCEPT ![k] = Received(R, w, r)]
    <3>1. Left(R, w).worker[w].at # "busy"
      BY <1>1, Resting DEF Left, Run
    <3>2. ~Rewrite(k, Left(R, w))
      BY <1>1, <3>1 DEF Rewrite, Busy
    <3>3. QED
      BY <1>5, <3>2 DEF Receive, Rewrite, PhaseOf
  <2> PICK S : S = Received(R, w, r)
    OBVIOUS
  <2> PICK x : x = IF R.cancelled THEN AtRest("gone") ELSE [AtRest("busy") EXCEPT !.res = r]
    OBVIOUS
  <2>2. runs'[k] = S
    BY <1>1, <2>1
  <2>3. S = [R EXCEPT !.queue = R.queue \ {r}, !.worker = [R.worker EXCEPT ![w] = x]]
    BY <1>1 DEF Received, Run
  <2> PICK W : W = [R.worker EXCEPT ![w] = x]
    OBVIOUS
  <2>4. S.queue = R.queue \ {r} /\ S.worker[w] = x
    <3>1. S.queue = R.queue \ {r} /\ S.worker = W
      BY <1>1, <2>3 DEF Run
    <3>2. W[w] = x
      BY <1>1 DEF Run
    <3>3. QED
      BY <3>1, <3>2
  <2>5. x.at = "busy"
    BY <2>2, <2>4 DEF Busy
  <2>6. x.res = r /\ x.step = "begin" /\ x.left = {}
    BY <2>5 DEF AtRest
  <2>7. Res(k, w)' = r /\ runs'[k].worker[w].step = "begin" /\ runs'[k].worker[w].left = {}
    BY <2>2, <2>4, <2>6 DEF Res
  <2>8. ~runs[k].desc /\ r \in Services => DependsOn[r] \intersect runs'[k].queue = {}
    BY <1>1, <1>3, <2>1, <2>2, <2>4, HeadOfLine
  <2>9. Act(k) = "start" => r \in known'
    <3>1. r \in R.members
      BY <1>3, <2>1 DEF InLine, Pooled, Manned, Batch
    <3>2. QED
      BY <2>0, <3>1 DEF Base, Tasks, Scoped
  <2>10. Fits("begin", Act(k))
    BY DEF Fits
  <2>11. Tasked(k, w)'
    BY <1>2, <2>7, <2>8, <2>9, <2>10 DEF Tasked
  <2>12. QED
    BY <2>0, <2>11
<1>6. CASE Cancel(k, w)
  <2>1. Cancelled(runs[k], w).worker[w].at # "busy"
    BY <1>1, Resting DEF Cancelled, Run
  <2>2. QED
    BY <1>1, <1>6, <2>1 DEF Cancel, Rewrite, Busy
<1>7. CASE ~Receive(k, w) /\ ~Cancel(k, w)
  <2> PICK r : r = Res(k, w)
    OBVIOUS
  <2>1. Busy(k, w) /\ Tasked(k, w) /\ r \in Resources /\ ~Ends(k, w) /\ ~Fails(k, w)
    <3>1. Busy(k, w)
      BY <1>1, <1>7, TaskSteps
    <3>2. QED
      BY <1>1, <3>1, TaskEffect, BusyHas DEF Base, Tasks
  <2>2. /\ Act(k) = "start" /\ known' = known => r \in known'
        /\ ~runs'[k].desc /\ r \in Services => DependsOn[r] \intersect runs'[k].queue = {}
    BY <1>2, <2>1 DEF Tasked
  <2>3. CASE StopBegins(k, w)
    <3>1. Act(k) = "stop" /\ Steps(k, w, "power", {})
      BY <2>1, <2>3 DEF StopBegins, Doing, Act, PhaseOf, server
    <3>2. r \in known' \intersect marker'
      BY <2>1, <2>3 DEF StopBegins, server
    <3>7. Res(k, w)' = r /\ runs'[k].worker[w].step = "power" /\ runs'[k].worker[w].left = {}
      BY <1>1, <2>1, <3>1, <3>2, TaskEffect
    <3>8. QED
      BY <1>2, <2>2, <3>1, <3>2, <3>7 DEF Tasked, Fits
  <2>4. CASE CreateVolume(k, w)
    <3>1. Act(k) = "ensure" /\ Steps(k, w, "fill", {}) /\ r \in Volumes
      BY <2>1, <2>4 DEF CreateVolume, Doing, Act, PhaseOf, server
    <3>2. r \in exists' \ filled'
      BY <1>1, <2>4 DEF CreateVolume, Typed
    <3>7. Res(k, w)' = r /\ runs'[k].worker[w].step = "fill" /\ runs'[k].worker[w].left = {}
      BY <1>1, <2>1, <3>1, <3>2, TaskEffect
    <3>8. QED
      BY <1>2, <2>2, <3>1, <3>2, <3>7 DEF Tasked, Fits
  <2>5. CASE StartBegins(k, w)
    <3>1. Act(k) = "start" /\ Steps(k, w, "deps", DependsOn[r]) /\ r \in Services /\ known' = known
      BY <2>1, <2>5 DEF StartBegins, Doing, Act, PhaseOf, server
    <3>2. DependsOn[r] \in SUBSET Resources
      BY <1>4, <3>1
    <3>7. Res(k, w)' = r /\ runs'[k].worker[w].step = "deps" /\ runs'[k].worker[w].left = DependsOn[r]
      BY <1>1, <2>1, <3>1, <3>2, TaskEffect
    <3>8. QED
      BY <1>2, <2>2, <3>1, <3>2, <3>7 DEF Tasked, Fits
  <2>6. CASE DependencySeen(k, w)
    <3> PICK left : left = runs[k].worker[w].left
      OBVIOUS
    <3>0. PICK d \in left : Steps(k, w, "deps", left \ {d})
      BY <2>6 DEF DependencySeen
    <3>1. /\ Act(k) = "start" /\ runs[k].worker[w].step = "deps" /\ known' = known
          /\ Steps(k, w, "deps", left \ {d})
      BY <2>6, <3>0 DEF DependencySeen, Doing, Act, PhaseOf, server
    <3>2. r \in Services /\ left \subseteq DependsOn[r] /\ left \ {d} \in SUBSET Resources
      BY <1>4, <2>1, <3>1 DEF Tasked
    <3>7. Res(k, w)' = r /\ runs'[k].worker[w].step = "deps" /\ runs'[k].worker[w].left = left \ {d}
      BY <1>1, <2>1, <3>1, <3>2, TaskEffect
    <3>8. QED
      BY <1>2, <2>2, <3>1, <3>2, <3>7 DEF Tasked, Fits
  <2>7. CASE PowerOn(k, w)
    <3>1. /\ Act(k) = "start" /\ runs[k].worker[w].step = "deps" /\ known' = known
          /\ r \in running' /\ Steps(k, w, "health", {})
      BY <2>1, <2>7 DEF PowerOn, Doing, Act, PhaseOf, server
    <3>2. r \in Services
      BY <2>1, <3>1 DEF Tasked
    <3>7. Res(k, w)' = r /\ runs'[k].worker[w].step = "health" /\ runs'[k].worker[w].left = {}
      BY <1>1, <2>1, <3>1, <3>2, TaskEffect
    <3>8. QED
      BY <1>2, <2>2, <3>1, <3>2, <3>7 DEF Tasked, Fits
  <2>8. Tasked(k, w)'
    BY <1>7, <2>1, <2>3, <2>4, <2>5, <2>6, <2>7
    DEF Works, Task, Lookup, LookupFails, PowerOff, Delete, Refused, Ensure, FillVolume, FillFails,
        StartNetwork, StartVolume, HealthSeen, WaitTimesOut, TaskFails, Doing
  <2>9. Res(k, w)' = Res(k, w)
    <3>1. PICK step \in {"begin", "power", "fill", "deps", "health"}, left \in SUBSET Resources :
             Steps(k, w, step, left)
      BY <1>1, <1>7, <2>1, TaskSteps DEF InTask
    <3>2. QED
      BY <1>1, <2>1, <3>1, TaskEffect
  <2>10. QED
    BY <2>8, <2>9
<1>8. QED
  BY <1>5, <1>6, <1>7

(* A worker keeps the tasks' invariant. *)
LEMMA WorkTasks ==
    ASSUME Base, NEW k \in DOMAIN runs, NEW w \in Workers, Works(k, w)
    PROVE  Tasks'
<1>1. Typed /\ PoolInv /\ PoolInv' /\ UNCHANGED <<plan, order>> /\ DOMAIN runs' = DOMAIN runs /\ Current' = Current
  BY WorkerPool, WorkerMoves, WorkKeeps DEF Base
<1>2. \A j \in DOMAIN runs : \A v \in Workers : Busy(j, v)' => Tasked(j, v)'
  <2> SUFFICES ASSUME NEW j \in DOMAIN runs, NEW v \in Workers, Busy(j, v)' PROVE Tasked(j, v)'
    OBVIOUS
  <2>1. CASE j = k /\ v = w
    BY <2>1, GoesOn
  <2>2. CASE j # k \/ v # w
    BY <2>2, OthersKeep
  <2>3. QED
    BY <2>1, <2>2
<1>3. Busy(k, w) /\ Act(k) # "lookup" => k = Current
  BY <1>1, OnlyCurrent DEF Busy
<1>4. ASSUME NEW j \in DOMAIN runs PROVE Scoped(j)'
  <2>1. Scoped(j) /\ runs'[j].members = runs[j].members
    BY <1>1, WorkKeeps DEF Base, Tasks
  <2>2. Act(j)' = Act(j) /\ PhaseOf(j)' = PhaseOf(j) /\ Stacked(PhaseOf(j))' = Stacked(PhaseOf(j))
    BY <1>1 DEF Act, PhaseOf, Stacked
  <2>3. Act(j) = "start" => known \subseteq known'
    BY <1>1, <1>3, StartIsLast, Effects
  <2>4. QED
    BY <1>1, <2>1, <2>2, <2>3 DEF Scoped
<1>5. ASSUME NEW j \in DOMAIN runs PROVE Ensured(j)'
  <2>1. /\ runs'[j].members = runs[j].members /\ runs'[j].turn = runs[j].turn /\ runs'[j].desc = runs[j].desc
        /\ runs[j].errs \subseteq runs'[j].errs /\ runs[j].members \subseteq Resources
    BY <1>1, WorkKeeps DEF PoolInv, Pooled, Formed, Run
  <2>2. Act(j)' = Act(j)
    BY <1>1 DEF Act, PhaseOf
  <2> SUFFICES ASSUME j = Current, Act(j) = "ensure", NEW r \in runs[j].members
               PROVE  /\ Turn(runs[j], r) < runs[j].turn => r \in known'
                      /\ Taken(j, r)' /\ runs'[j].errs = {} => r \in known'
    BY <1>1, <2>1, <2>2 DEF Ensured, Turn
  <2>3. /\ Turn(runs[j], r) < runs[j].turn => r \in known
        /\ Taken(j, r) /\ runs[j].errs = {} => r \in known
    BY DEF Base, Tasks, Ensured
  <2>4. known \subseteq known'
    BY <1>3, Effects
  <2>5. ASSUME Taken(j, r)', runs'[j].errs = {} PROVE r \in known'
    <3>1. runs[j].errs = {} /\ r \in Resources
      BY <2>1, <2>5
    <3>2. Taken(j, r) \/ (j = k /\ Busy(k, w) /\ ~Busy(k, w)' /\ Res(k, w) = r)
      BY <1>1, <2>5, <3>1, TakenBy
    <3>3. CASE j = k /\ Busy(k, w) /\ ~Busy(k, w)' /\ Res(k, w) = r
      <4>1. ~Fails(k, w)
        BY <1>1, <2>5, <3>3, TaskEffect
      <4>2. \A step \in {"begin", "power", "fill", "deps", "health"}, left \in SUBSET Resources :
               ~Steps(k, w, step, left)
        BY <1>1, <3>3, TaskEffect
      <4>3. ~Receive(k, w) /\ ~Cancel(k, w)
        BY <3>3 DEF Busy, Receive, Cancel
      <4>4. ~CreateVolume(k, w)
        <5>1. {} \in SUBSET Resources
          OBVIOUS
        <5>2. ~Steps(k, w, "fill", {})
          BY <4>2, <5>1
        <5>3. QED
          BY <5>2 DEF CreateVolume
      <4>5. Ensure(k, w) \/ FillVolume(k, w) \/ FillFails(k, w)
        BY <3>3, <4>1, <4>3, <4>4 DEF Works, Task, Lookup, LookupFails, StopBegins, PowerOff, Delete,
           StartNetwork, StartVolume, StartBegins, DependencySeen, PowerOn, HealthSeen,
           WaitTimesOut, TaskFails, Doing, Act, PhaseOf
      <4>6. QED
        BY <3>3, <4>1, <4>5 DEF Ensure, FillVolume, FillFails
    <3>4. QED
      BY <2>3, <2>4, <3>1, <3>2, <3>3
  <2>6. QED
    BY <2>3, <2>4, <2>5
<1>6. QED
  BY <1>1, <1>2, <1>4, <1>5 DEF Tasks

(* What begins with a run. *)
LEMMA NextTasks ==
    ASSUME Base, NextRun, runs' # runs
    PROVE  Typed' /\ Tasks'
<1> PICK n : n = Current + 1
  OBVIOUS
<1>1. Typed /\ PoolInv /\ UNCHANGED <<plan, order, server, queued, faults, result>>
      /\ PhaseOf(n)' = PhaseOf(n)
  BY DEF Base, NextRun, PhaseOf
<1>2. /\ PoolInv' /\ Current' = n /\ \A j \in DOMAIN runs : runs'[j] = runs[j]
      /\ n <= Len(Plan[plan]) /\ Current \in Nat /\ DOMAIN runs = 1..Current
      /\ runs'[n] = NewRun(Members(PhaseOf(n)), PhaseOf(n).desc, PhaseOf(n).failFast)
      /\ Current > 0 => /\ runs[Current].result # "running"
                        /\ runs[Current].result = "failed" => PhaseOf(Current).onError # "abort"
  BY <1>1, NextPool DEF PhaseOf
<1>3. DOMAIN runs' = DOMAIN runs \union {n} /\ n \notin DOMAIN runs /\ n \in 1..Len(Plan[plan])
  <2>1. Len(Plan[plan]) \in Nat
    BY <1>1, PlanLengths DEF Typed
  <2>2. DOMAIN runs' = 1..n
    BY <1>2 DEF PoolInv, Current
  <2>3. QED
    BY <1>2, <2>1, <2>2
<1>4. known' = (IF PhaseOf(n).newClient THEN {} ELSE known) /\ joined' \in BOOLEAN
  BY <1>1 DEF NextRun, PhaseOf, Typed
<1>5. Typed'
  <2>1. ServiceOrders' = ServiceOrders
    BY DEF ServiceOrders, Topological
  <2>2. QED
    BY <1>1, <1>2, <1>4, <2>1 DEF Typed, PoolInv, server
<1>6. ASSUME NEW j \in DOMAIN runs
      PROVE  /\ Act(j)' = Act(j) /\ Act(j) # "start" /\ j # Current'
             /\ \A v \in Workers : runs[j].worker[v].at # "gone" => Act(j) = "lookup"
  <2>1. Act(j)' = Act(j) /\ j # Current'
    BY <1>1, <1>2, <1>6 DEF Act, PhaseOf
  <2>2. Current < Len(Plan[plan])
    BY <1>2, <1>3
  <2>3. Act(j) # "start"
    <3>1. SUFFICES ASSUME Act(j) = "start" PROVE FALSE
      OBVIOUS
    <3>2. j = Current /\ j > 0
      BY <1>1, <1>2, <3>1, StartIsLast
    <3>3. CASE plan = "restart"
      BY <1>1, <1>2, <2>2, <3>1, <3>2, <3>3, PlanFacts, PlanRestart DEF Typed
    <3>4. CASE plan # "restart"
      <4>1. Act((Current + 1) - 1) # "start" /\ (Current + 1) - 1 = Current
        BY <1>1, <1>2, <1>3, <3>2, <3>4, PlanFacts DEF Typed
      <4>2. QED
        BY <3>1, <3>2, <4>1
    <3>5. QED
      BY <3>3, <3>4
  <2>4. ASSUME NEW v \in Workers, runs[j].worker[v].at # "gone" PROVE Act(j) = "lookup"
    <3>1. CASE j = Current
      BY <1>1, <1>2, <2>2, <2>4, <3>1, Outlives
    <3>2. CASE j # Current
      BY <1>1, <2>4, <3>2, OnlyCurrent
    <3>3. QED
      BY <3>1, <3>2
  <2>5. QED
    BY <2>1, <2>3, <2>4
<1>7. ASSUME NEW j \in DOMAIN runs'
      PROVE  Scoped(j)' /\ Ensured(j)' /\ \A v \in Workers : Busy(j, v)' => Tasked(j, v)'
  <2>1. CASE j \in DOMAIN runs
    <3>1. Scoped(j) /\ runs'[j] = runs[j] /\ \A v \in Workers : Busy(j, v) => Tasked(j, v)
      BY <1>2, <2>1 DEF Base, Tasks
    <3>2. Stacked(PhaseOf(j))' = Stacked(PhaseOf(j))
      BY <1>1 DEF Stacked, PhaseOf
    <3>3. Scoped(j)'
      BY <1>1, <1>6, <2>1, <3>1, <3>2 DEF Scoped
    <3>4. Ensured(j)'
      BY <1>6, <2>1 DEF Ensured
    <3>5. ASSUME NEW v \in Workers, Busy(j, v)' PROVE Tasked(j, v)'
      <4>1. Busy(j, v) /\ Tasked(j, v) /\ Act(j) = "lookup" /\ Act(j)' = Act(j) /\ Res(j, v)' = Res(j, v)
        BY <1>6, <2>1, <3>1, <3>5 DEF Busy, Res
      <4>2. QED
        BY <1>1, <3>1, <4>1 DEF Tasked, Fits, server
    <3>6. QED
      BY <3>3, <3>4, <3>5
  <2>2. CASE j = n
    <3> PICK M : M = Members(PhaseOf(n))
      OBVIOUS
    <3>1. runs'[n].members = M /\ runs'[n].turn = 0 /\ \A v \in Workers : runs'[n].worker[v].at = "gone"
      BY <1>2 DEF NewRun, AtRest
    <3>2. /\ M = Add(Stacked(PhaseOf(n))) \intersect Supports(Act(n)) \intersect Filter(PhaseOf(n))
          /\ Services \subseteq Add(Stacked(PhaseOf(n)))
      BY <1>1, <1>3, StackedIs DEF Members, ForActionF, Act
    <3>3. Act(n)' = Act(n) /\ Stacked(PhaseOf(n))' = Stacked(PhaseOf(n))
      BY <1>1 DEF Act, Stacked, PhaseOf
    <3>4. /\ M \subseteq Add(Stacked(PhaseOf(n)))
          /\ Act(n) = "stop" => M \subseteq Services
          /\ Act(n) = "delete" /\ plan # "purge" => M \intersect Volumes = {}
          /\ Act(n) # "start" => Services \subseteq M
      BY <3>2, Apart DEF Supports, Filter, Act
    <3>5. Act(n) = "start" => M \subseteq known'
      <4>1. Act(n) = "start" => ~PhaseOf(n).newClient
        BY <1>1, <1>3, PlanFacts DEF Typed
      <4>2. QED
        BY <1>4, <3>2, <4>1 DEF Filter, Act
    <3>6. Act(n) = "ensure" => M = Add(Stacked(PhaseOf(n)))
      <4>1. Add(Stacked(PhaseOf(n))) \subseteq Resources
        <5> PICK o : o = IF PhaseOf(n).desc THEN Reverse(order) ELSE order
          OBVIOUS
        <5>1. /\ Len(order) \in Nat /\ DOMAIN order = 1..Len(order)
              /\ \A i \in DOMAIN order : order[i] \in Services
          BY <1>1, OrderFacts DEF Typed
        <5>2. DOMAIN o = 1..Len(order) /\ \A i \in DOMAIN o : o[i] \in Services
          BY <5>1 DEF Reverse
        <5>3. Stacked(PhaseOf(n)) = [i \in DOMAIN o |-> ResourcesOf[o[i]]]
          BY DEF Stacked, AddOrdered
        <5>4. \A s \in Services : ToSet(ResourcesOf[s]) \subseteq Resources
          <6>1. ResourcesOf \in [Services -> Seq(Resources)]
            BY DeployAssumption DEF DeployAssumption
          <6>2. QED
            BY <6>1 DEF ToSet
        <5>5. QED
          BY <5>2, <5>3, <5>4 DEF Add
      <4>2. QED
        BY <3>2, <4>1 DEF Supports, Filter, Act
    <3>7. Scoped(n)'
      BY <1>1, <3>1, <3>3, <3>4, <3>5, <3>6 DEF Scoped
    <3>8. Ensured(n)'
      <4>1. \A r \in M : Turn(runs'[n], r) \in 1..Levels
        <5>1. M \subseteq Resources /\ Priority \in [Resources -> 1..Levels] /\ Levels \in Nat
          BY <3>2, Apart, StackAssumption DEF StackAssumption, Supports
        <5>2. QED
          BY <5>1 DEF Turn
      <4>2. QED
        BY <3>1, <4>1 DEF Ensured, Taken, Turn
    <3>9. QED
      BY <2>2, <3>1, <3>7, <3>8 DEF Busy
  <2>3. QED
    BY <1>3, <2>1, <2>2
<1>8. QED
  BY <1>5, <1>7 DEF Tasks

(* Between batches nothing is done that was not, and nothing forgotten. *)
LEMMA BatchKeeps ==
    ASSUME Typed, PoolInv, OpenBatch \/ CloseBatch
    PROVE  /\ PoolInv' /\ DOMAIN runs' = DOMAIN runs /\ Current' = Current
           /\ UNCHANGED <<plan, order, known, server, queued, lost, late, joined, result, faults>>
           /\ \A j \in DOMAIN runs :
                 /\ runs'[j].members = runs[j].members /\ runs'[j].desc = runs[j].desc
                 /\ Excused(j)' = Excused(j)
                 /\ \A v \in Workers : Busy(j, v) \/ Busy(j, v)' =>
                       runs'[j].worker[v] = runs[j].worker[v] /\ runs'[j].queue = runs[j].queue
                 /\ \A r \in Resources : Taken(j, r)' => Taken(j, r)
                 /\ \/ runs'[j].turn = runs[j].turn /\ runs'[j].errs = runs[j].errs
                    \/ /\ \A r \in runs[j].members : Turn(runs[j], r) <= runs[j].turn => Taken(j, r)
                       /\ runs'[j].turn = runs[j].turn + 1
                       /\ runs[j].failFast => Excused(j) = {}
<1> PICK k : k = Current
  OBVIOUS
<1> PICK R : R = runs[k]
  OBVIOUS
<1>1. k \in DOMAIN runs /\ R \in Run /\ Pooled(k) /\ runs \in Seq(Run)
      /\ UNCHANGED <<plan, order, known, server, queued, lost, late, joined, result, faults>>
  BY DEF OpenBatch, CloseBatch, Current, PoolInv, Typed, Command
<1>2. PoolInv'
  BY OpenPool, ClosePool
<1>3. ASSUME NEW S \in Run, runs' = [runs EXCEPT ![k] = S]
      PROVE  /\ DOMAIN runs' = DOMAIN runs /\ Current' = Current /\ runs'[k] = S
             /\ \A j \in DOMAIN runs : j # k => runs'[j] = runs[j]
  BY <1>1, <1>3, Rewritten
<1>4. \A r \in R.members : Turn(R, r) \in 1..Levels
  <2>1. R.members \subseteq Resources /\ Priority \in [Resources -> 1..Levels] /\ Levels \in Nat
    BY <1>1, StackAssumption DEF StackAssumption, Run
  <2>2. QED
    BY <2>1 DEF Turn
<1>5. ASSUME NEW S \in Run, runs' = [runs EXCEPT ![k] = S],
             S.members = R.members, S.desc = R.desc,
             S.errs \union S.failed = R.errs \union R.failed,
             \A v \in Workers : "busy" \in {S.worker[v].at, R.worker[v].at} => S.worker[v] = R.worker[v] /\ S.queue = R.queue,
             \A r \in Resources : Taken(k, r)' => Taken(k, r),
             \/ S.turn = R.turn /\ S.errs = R.errs
             \/ /\ \A r \in R.members : Turn(R, r) <= R.turn => Taken(k, r)
                /\ S.turn = R.turn + 1
                /\ R.failFast => R.errs \union R.failed = {}
      PROVE  \A j \in DOMAIN runs :
                 /\ runs'[j].members = runs[j].members /\ runs'[j].desc = runs[j].desc
                 /\ Excused(j)' = Excused(j)
                 /\ \A v \in Workers : Busy(j, v) \/ Busy(j, v)' =>
                       runs'[j].worker[v] = runs[j].worker[v] /\ runs'[j].queue = runs[j].queue
                 /\ \A r \in Resources : Taken(j, r)' => Taken(j, r)
                 /\ \/ runs'[j].turn = runs[j].turn /\ runs'[j].errs = runs[j].errs
                    \/ /\ \A r \in runs[j].members : Turn(runs[j], r) <= runs[j].turn => Taken(j, r)
                       /\ runs'[j].turn = runs[j].turn + 1
                       /\ runs[j].failFast => Excused(j) = {}
  <2> TAKE j \in DOMAIN runs
  <2>1. CASE j = k
    BY <1>3, <1>5, <2>1 DEF Busy, Excused
  <2>2. CASE j # k
    <3>1. runs'[j] = runs[j]
      BY <1>3, <1>5, <2>2
    <3>2. QED
      BY <3>1 DEF Busy, Excused, Taken, Turn, Res
  <2>3. QED
    BY <2>1, <2>2
<1>6. CASE OpenBatch
  <2>1. ~R.open /\ R.result = "running" /\ AllGone(R) /\ R.queue = {} /\ R.errs \subseteq R.failed
        /\ (R.failFast => R.failed = {})
    BY <1>1, <1>6 DEF OpenBatch, BetweenBatches, Pooled, Closed
  <2>2. \A r \in R.members : Turn(R, r) <= R.turn => Taken(k, r)
    <3>1. R.turn \in Nat /\ Levels \in Nat
      BY <1>1, StackAssumption DEF Run, StackAssumption
    <3>2. QED
      BY <1>4, <2>1, <3>1 DEF Taken, AllGone, Busy
  <2>3. CASE R.turn = Levels
    <3> PICK S : S = RunOver(R)
      OBVIOUS
    <3>1. runs' = [runs EXCEPT ![k] = S]
      BY <1>6, <2>3 DEF OpenBatch, Rewrite
    <3>2. S \in Run /\ S.members = R.members /\ S.desc = R.desc /\ S.errs = R.errs /\ S.failed = R.failed
          /\ S.worker = R.worker /\ S.queue = R.queue /\ S.turn = R.turn
      BY <1>1 DEF RunOver, Run
    <3>3. \A r \in Resources : Taken(k, r)' => Taken(k, r)
      BY <1>3, <3>1, <3>2 DEF Taken, Turn, Busy, Res
    <3>4. QED
      BY <1>1, <1>2, <1>3, <1>5, <3>1, <3>2, <3>3
  <2>4. CASE R.turn # Levels
    <3> PICK S : S = BatchOpened(R)
      OBVIOUS
    <3>1. runs' = [runs EXCEPT ![k] = S]
      BY <1>6, <2>4 DEF OpenBatch, Rewrite
    <3>2. S.members = R.members /\ S.desc = R.desc /\ S.errs = {} /\ S.failed = R.failed
          /\ S.queue = Batch(R, R.turn + 1) /\ S.turn = R.turn + 1
          /\ S.worker = [v \in Workers |-> AtRest("idle")]
      BY <1>1 DEF BatchOpened, Run
    <3>3. S \in Run
      BY <1>1, <2>4, OpenedRun
    <3>4. \A v \in Workers : S.worker[v].at # "busy"
      BY <3>2 DEF AtRest
    <3>5. \A r \in Resources : Taken(k, r)' => Taken(k, r)
      <4>1. R.turn \in Nat /\ Levels \in Nat
        BY <1>1, StackAssumption DEF Run, StackAssumption
      <4> SUFFICES ASSUME NEW r \in Resources, Taken(k, r)' PROVE Taken(k, r)
        OBVIOUS
      <4>2. r \in R.members /\ runs'[k] = S /\ Turn(S, r) = Turn(R, r)
        BY <1>3, <3>1, <3>2, <3>3 DEF Taken, Turn
      <4>3. Turn(R, r) = R.turn + 1 => r \in S.queue
        <5>1. Priority[r] \in 1..Levels
          BY StackAssumption DEF StackAssumption
        <5>2. QED
          BY <3>2, <4>1, <4>2, <5>1 DEF Turn, Batch
      <4>4. Turn(R, r) <= R.turn
        BY <1>4, <3>2, <4>1, <4>2, <4>3 DEF Taken
      <4>5. QED
        BY <2>2, <4>2, <4>4
    <3>6. S.errs \union S.failed = R.errs \union R.failed /\ (R.failFast => R.errs \union R.failed = {})
      BY <2>1, <3>2
    <3>7. \A v \in Workers : "busy" \in {S.worker[v].at, R.worker[v].at} => S.worker[v] = R.worker[v] /\ S.queue = R.queue
      BY <2>1, <3>4 DEF AllGone
    <3>8. QED
      BY <1>1, <1>2, <1>3, <1>5, <2>2, <3>1, <3>2, <3>3, <3>5, <3>6, <3>7
  <2>5. QED
    BY <2>3, <2>4
<1>7. CASE CloseBatch
  <2> PICK S : S = BatchClosed(R)
    OBVIOUS
  <2>1. runs' = [runs EXCEPT ![k] = S]
    BY <1>7 DEF CloseBatch, Rewrite
  <2>2. S \in Run /\ S.members = R.members /\ S.desc = R.desc /\ S.errs = R.errs
        /\ S.failed = R.failed \union R.errs
        /\ S.worker = R.worker /\ S.queue = R.queue /\ S.turn = R.turn
    BY <1>1, ClosedRun, ZenonT(60) DEF BatchClosed, Run
  <2>3. \A r \in Resources : Taken(k, r)' => Taken(k, r)
    BY <1>3, <2>1, <2>2 DEF Taken, Turn, Busy, Res
  <2>4. QED
    BY <1>1, <1>2, <1>3, <1>5, <2>1, <2>2, <2>3
<1>8. QED
  BY <1>6, <1>7

(* Steps that leave the runs alone. *)
Aside ==
    \/ CommandEnds \/ BetweenRunsFails \/ Done \/ UNCHANGED vars
    \/ (NextRun /\ runs' = runs)
    \/ \E i \in Services : Verdict(i) \/ ReportsStop(i) \/ RestartDue(i)

(* They leave what the tasks rest on alone. *)
LEMMA AsideKeeps ==
    ASSUME Typed, PoolInv, Aside
    PROVE  /\ UNCHANGED <<plan, runs, order, known, exists, marker, filled, made, joined, lost, late>>
           /\ running \subseteq running' /\ queued' \subseteq queued
           /\ renewed \subseteq renewed' /\ running' \ running \subseteq renewed' \intersect (queued \ marker)
           /\ faults' \in Nat /\ faults' >= faults /\ (faults' = 0 => faults = 0)
           /\ Typed' /\ PoolInv'
<1>1. /\ UNCHANGED <<plan, runs, order, known, exists, marker, filled, made, joined, lost, late>>
      /\ running \subseteq running' /\ queued' \subseteq queued
      /\ renewed \subseteq renewed' /\ running' \ running \subseteq renewed' \intersect (queued \ marker)
      /\ faults' \in Nat /\ faults' >= faults /\ (faults' = 0 => faults = 0)
      /\ joined' \in BOOLEAN
  <2>1. CASE CommandEnds \/ BetweenRunsFails \/ Done \/ UNCHANGED vars
    BY <2>1 DEF CommandEnds, BetweenRunsFails, Fault, Done, vars, server, Typed
  <2>2. CASE NextRun /\ runs' = runs
    <3>1. runs' # Append(runs, NewRun(Members(Plan[plan][Current + 1]),
                    Plan[plan][Current + 1].desc, Plan[plan][Current + 1].failFast))
      BY <2>2 DEF PoolInv
    <3>2. UNCHANGED <<known, joined>>
      BY <2>2, <3>1 DEF NextRun
    <3>3. QED
      BY <2>2, <3>2 DEF NextRun, Typed, server
  <2>3. CASE \E i \in Services : Verdict(i) \/ ReportsStop(i) \/ RestartDue(i)
    BY <2>3 DEF Verdict, ReportsStop, RestartDue, Healthd, Command, Typed
  <2>4. QED
    BY <2>1, <2>2, <2>3 DEF Aside
<1>2. Typed'
  <2>1. ServiceOrders' = ServiceOrders
    BY DEF ServiceOrders, Topological
  <2>2. running' \subseteq Services
    BY <1>1 DEF Typed
  <2>3. QED
    BY <1>1, <2>1, <2>2 DEF Typed
<1>3. PoolInv'
  BY <1>1 DEF PoolInv, Pooled, Formed, Manned, Troubled, Staffed, Closed, Past, PhaseOf, Busy, Res, Current
<1>4. QED
  BY <1>1, <1>2, <1>3

(* Every step is one of these. *)
LEMMA Cases ==
    ASSUME [Next]_vars
    PROVE  \/ NextRun /\ runs' # runs
           \/ OpenBatch \/ CloseBatch
           \/ \E k \in DOMAIN runs, w \in Workers : Works(k, w)
           \/ Aside
  BY DEF Next, Sequencing, Works, Aside

(* What the runs, the pools and the tasks rest on holds throughout. *)
LEMMA BaseStep ==
    ASSUME Base, [Next]_vars
    PROVE  Base'
<1>1. Typed /\ PoolInv /\ Tasks
  BY DEF Base
<1>2. CASE NextRun /\ runs' # runs
  BY <1>1, <1>2, NextPool, NextTasks DEF Base
<1>3. CASE OpenBatch \/ CloseBatch
  <2>1. /\ PoolInv' /\ DOMAIN runs' = DOMAIN runs /\ Current' = Current
        /\ UNCHANGED <<plan, order, known, server, queued, lost, late, joined, result, faults>>
    BY <1>1, <1>3, BatchKeeps
  <2>2. Typed'
    <3>1. ServiceOrders' = ServiceOrders
      BY DEF ServiceOrders, Topological
    <3>2. QED
      BY <1>1, <2>1, <3>1 DEF Typed, server, PoolInv
  <2>3. ASSUME NEW j \in DOMAIN runs
        PROVE  Scoped(j)' /\ Ensured(j)' /\ \A v \in Workers : Busy(j, v)' => Tasked(j, v)'
    <3>1. /\ runs'[j].members = runs[j].members /\ runs'[j].desc = runs[j].desc
          /\ \A v \in Workers : Busy(j, v)' =>
                 runs'[j].worker[v] = runs[j].worker[v] /\ runs'[j].queue = runs[j].queue
          /\ \A r \in Resources : Taken(j, r)' => Taken(j, r)
          /\ \/ runs'[j].turn = runs[j].turn /\ runs'[j].errs = runs[j].errs
             \/ /\ \A r \in runs[j].members : Turn(runs[j], r) <= runs[j].turn => Taken(j, r)
                /\ runs'[j].turn = runs[j].turn + 1
                /\ runs[j].failFast => Excused(j) = {}
      BY <1>1, <1>3, BatchKeeps
    <3>2. Scoped(j) /\ Ensured(j) /\ (\A v \in Workers : Busy(j, v) => Tasked(j, v)) /\ Pooled(j)
      BY <1>1 DEF Tasks, PoolInv
    <3>3. Act(j)' = Act(j) /\ Stacked(PhaseOf(j))' = Stacked(PhaseOf(j))
      BY <2>1 DEF Act, PhaseOf, Stacked
    <3>4. Scoped(j)'
      BY <2>1, <3>1, <3>2, <3>3 DEF Scoped
    <3>5. ASSUME NEW v \in Workers, Busy(j, v)' PROVE Tasked(j, v)'
      <4>1. Busy(j, v) /\ Tasked(j, v) /\ runs'[j].worker[v] = runs[j].worker[v]
            /\ runs'[j].queue = runs[j].queue
        BY <3>1, <3>2, <3>5 DEF Busy
      <4>2. QED
        BY <2>1, <3>1, <3>3, <4>1 DEF Tasked, Res, server
    <3>6. Ensured(j)'
      <4> SUFFICES ASSUME j = Current, Act(j) = "ensure", NEW r \in runs[j].members
                   PROVE  /\ Turn(runs[j], r) < runs'[j].turn => r \in known
                          /\ Taken(j, r)' /\ runs'[j].errs = {} => r \in known
        BY <2>1, <3>1, <3>3 DEF Ensured, Turn, server
      <4>1. /\ Turn(runs[j], r) < runs[j].turn => r \in known
            /\ Taken(j, r) /\ runs[j].errs = {} => r \in known
        BY <3>2 DEF Ensured
      <4>2. r \in Resources /\ runs[j].turn \in Nat /\ Turn(runs[j], r) \in Int
        <5>1. runs[j] \in Run /\ Priority \in [Resources -> 1..Levels] /\ Levels \in Nat
          BY <3>2, StackAssumption DEF StackAssumption, Pooled, Formed
        <5>2. QED
          BY <5>1 DEF Run, Turn
      <4>3. CASE runs'[j].turn = runs[j].turn /\ runs'[j].errs = runs[j].errs
        BY <3>1, <4>1, <4>2, <4>3
      <4>4. CASE /\ \A q \in runs[j].members : Turn(runs[j], q) <= runs[j].turn => Taken(j, q)
                 /\ runs'[j].turn = runs[j].turn + 1
                 /\ runs[j].failFast => Excused(j) = {}
        <5>1. runs[j].failFast
          <6>1. j \in 1..Len(Plan[plan]) /\ runs[j].failFast = PhaseOf(j).failFast
            <7>1. Len(Plan[plan]) \in Nat /\ j <= Len(Plan[plan]) /\ j \in Nat /\ j >= 1
              BY <1>1, <3>2, PlanLengths DEF Typed, PoolInv, Pooled, Formed
            <7>2. QED
              BY <3>2, <7>1 DEF Pooled, Formed
          <6>2. QED
            BY <1>1, <6>1, PlanFacts DEF Typed
        <5>2. runs[j].errs = {}
          BY <4>4, <5>1 DEF Excused
        <5>3. QED
          BY <3>1, <4>1, <4>2, <4>4, <5>2
      <4>5. QED
        BY <3>1, <4>3, <4>4
    <3>7. QED
      BY <3>4, <3>5, <3>6
  <2>4. QED
    BY <2>1, <2>2, <2>3 DEF Base, Tasks
<1>4. CASE \E k \in DOMAIN runs, w \in Workers : Works(k, w)
  <2>1. PICK k \in DOMAIN runs, w \in Workers : Works(k, w)
    BY <1>4
  <2>2. QED
    BY <1>1, <2>1, WorkTyped, WorkerPool, WorkTasks DEF Base
<1>5. CASE Aside
  <2>1. /\ UNCHANGED <<plan, runs, order, known, exists, marker, filled, made>>
        /\ running \subseteq running' /\ Typed' /\ PoolInv'
    BY <1>1, <1>5, AsideKeeps
  <2>2. Tasks'
    BY <1>1, <2>1 DEF Tasks, Scoped, Ensured, Tasked, Taken, Turn, Busy, Res, Act, PhaseOf, Stacked, Current
  <2>3. QED
    BY <2>1, <2>2 DEF Base
<1>6. QED
  BY <1>2, <1>3, <1>4, <1>5, Cases

(* It holds at the start. *)
LEMMA BaseInit ==
    ASSUME Init PROVE Base
<1>1. runs = <<>> /\ DOMAIN runs = {} /\ runs \in Seq(Run)
  BY DEF Init
<1>2. exists \subseteq Resources /\ running \subseteq Services
  BY Apart DEF Init
<1>3. Typed
  BY <1>1, <1>2, Apart DEF Init, Typed
<1>4. QED
  BY <1>1, <1>3 DEF Base, PoolInv, Tasks

(* Base holds in every reachable state. *)
LEMMA Based == Spec => []Base
<1>1. Init => Base
  BY BaseInit
<1>2. Base /\ [Next]_vars => Base'
  BY BaseStep
<1>3. QED
  BY <1>1, <1>2, PTL DEF Spec

(* A run of the command's plan. *)
LEMMA RunOfPlan ==
    ASSUME Base, NEW k \in DOMAIN runs
    PROVE  /\ k \in 1..Len(Plan[plan]) /\ Current \in 1..Len(Plan[plan]) /\ k \in 1..Current
           /\ runs[k] \in Run /\ Pooled(k) /\ Typed /\ PoolInv
           /\ runs[k].desc = PhaseOf(k).desc /\ runs[k].failFast = PhaseOf(k).failFast
<1>1. Typed /\ PoolInv /\ Pooled(k) /\ Current \in Nat /\ DOMAIN runs = 1..Current
  BY DEF Base, PoolInv, Current
<1>2. Pooled(Current) /\ Len(Plan[plan]) \in Nat
  BY <1>1, PlanLengths DEF Typed, PoolInv
<1>3. QED
  BY <1>1, <1>2 DEF Pooled, Formed

(* The workers take a deployment's instances in dependency order: with a   *)
(* pool of any size no start waits for one that is still in the queue      *)
(* behind it (Stack.Add, runBatch, Instance.waitForDependencies).          *)
THEOREM StartsInLine == Spec => []NeverWaitsBehind
<1>1. Base => NeverWaitsBehind
  <2> SUFFICES ASSUME Base, NEW k \in DOMAIN runs, NEW w \in Workers, Busy(k, w)
               PROVE  runs[k].worker[w].left \intersect runs[k].queue = {}
    BY DEF NeverWaitsBehind
  <2>1. Tasked(k, w)
    BY DEF Base, Tasks
  <2>2. CASE runs[k].worker[w].left = {}
    BY <2>2
  <2>3. CASE runs[k].worker[w].left # {}
    <3>1. /\ Act(k) = "start" /\ Res(k, w) \in Services
          /\ runs[k].worker[w].left \subseteq DependsOn[Res(k, w)]
      BY <2>1, <2>3 DEF Tasked, Fits
    <3>2. ~runs[k].desc
      BY <3>1, RunOfPlan, PlanFacts DEF Typed
    <3>3. QED
      BY <2>1, <3>1, <3>2 DEF Tasked
  <2>4. QED
    BY <2>2, <2>3
<1>2. QED
  BY <1>1, Based, PTL

-----------------------------------------------------------------------------
(* Deployment and teardown. *)

(* A resource that has a turn before the current one is done with. *)
LEMMA Turns ==
    ASSUME Base, NEW k \in DOMAIN runs
    PROVE  /\ runs[k].turn \in 0..Levels /\ Levels \in Nat
           /\ \A r \in Resources : Turn(runs[k], r) \in 1..Levels /\ Priority[r] \in 1..Levels
           /\ runs[k].members \subseteq Resources
  BY RunOfPlan, StackAssumption DEF Run, Turn, StackAssumption

(* The batches ensure what an instance is made from before the instance. *)
LEMMA NeedsFirst == Base => DependenciesEnsured
<1> SUFFICES ASSUME Base, NEW k \in DOMAIN runs, NEW w \in Workers, Busy(k, w), Act(k) = "ensure",
                    NEW q \in Needs(Res(k, w))
             PROVE  q \in known
  BY DEF DependenciesEnsured, Act, PhaseOf
<1> PICK r : r = Res(k, w)
  OBVIOUS
<1>1. Typed /\ PoolInv /\ k \in 1..Len(Plan[plan]) /\ Ensured(k) /\ Scoped(k) /\ k = Current
  BY RunOfPlan, OnlyCurrent DEF Base, Tasks, Busy
<1>2. r \in Services /\ q \in ToSet(ResourcesOf[r]) \ {r} /\ Priority[q] < Priority[r]
  BY DeployAssumption DEF DeployAssumption, Needs
<1>3. q \in runs[k].members
  BY <1>1, <1>2, StackedIs DEF Scoped
<1>4. ~runs[k].desc
  BY <1>1, RunOfPlan, PlanFacts DEF Typed
<1>5. Turn(runs[k], r) = runs[k].turn
  BY <1>1, BusyHas
<1>6. Turn(runs[k], q) < runs[k].turn
  BY <1>2, <1>3, <1>4, <1>5, Turns, Apart DEF Turn
<1>7. QED
  BY <1>1, <1>3, <1>6 DEF Ensured

(* Where nothing has failed, a teardown meets nothing that is in use. *)
LEMMA UsersFirst == Base /\ Torn => NothingInUse
<1> SUFFICES ASSUME Base, Torn, NEW k \in DOMAIN runs, NEW w \in Workers, Busy(k, w), Act(k) = "delete",
                    Res(k, w) \in known, faults = 0, InUse(Res(k, w))
             PROVE  FALSE
  BY DEF NothingInUse, Act, PhaseOf
<1> PICK r : r = Res(k, w)
  OBVIOUS
<1>1. Typed /\ PoolInv /\ k \in 1..Len(Plan[plan]) /\ Scoped(k) /\ k = Current
  BY RunOfPlan, OnlyCurrent DEF Base, Tasks, Busy
<1>2. Deleted(k) /\ Excused(k) = {} /\ lost = {}
  BY <1>1 DEF Torn, Faultless
<1>3. r \notin running
  BY <1>1, <1>2 DEF Deleted, MayRun, Typed
<1>4. PICK s \in exists \intersect Services : s # r /\ r \in ToSet(ResourcesOf[s])
  BY <1>3 DEF InUse
<1>5. Priority[r] < Priority[s]
  BY <1>4, DeployAssumption DEF DeployAssumption
<1>6. runs[k].desc
  BY <1>1, RunOfPlan, PlanFacts DEF Typed
<1>7. r \in Resources /\ Turn(runs[k], r) = runs[k].turn
  BY <1>1, BusyHas
<1>8. Turn(runs[k], s) < runs[k].turn
  BY <1>4, <1>5, <1>6, <1>7, Turns, Apart DEF Turn
<1>9. s \in runs[k].members
  BY <1>1, <1>4 DEF Scoped
<1>10. Taken(k, s)
  BY <1>8, <1>9 DEF Taken
<1>11. QED
  BY <1>2, <1>4, <1>10 DEF Deleted

(* A run reports what its tasks have failed at, and no more. *)
LEMMA FailedBy ==
    ASSUME Base, NEW k \in DOMAIN runs, NEW w \in Workers, Works(k, w), NEW j \in DOMAIN runs
    PROVE  \/ Excused(j)' = Excused(j) /\ ~(j = k /\ Fails(k, w))
           \/ j = k /\ Busy(k, w) /\ Fails(k, w) /\ Excused(k)' = Excused(k) \union {Res(k, w)}
<1>1. Typed /\ PoolInv
  BY DEF Base
<1>2. /\ \A i \in DOMAIN runs : i # k => runs'[i] = runs[i]
      /\ runs'[k].failed = runs[k].failed
      /\ runs[k].worker[w].at # "busy" => runs'[k].errs = runs[k].errs
  BY <1>1, WorkKeeps
<1>3. CASE j # k
  BY <1>2, <1>3 DEF Excused
<1>4. CASE j = k /\ ~Busy(k, w)
  <2>1. ~Fails(k, w)
    <3>1. Receive(k, w) \/ Cancel(k, w)
      BY <1>1, <1>4, TaskSteps
    <3> PICK R : R = runs[k]
      OBVIOUS
    <3>2. R \in Run /\ R.worker \in [Workers -> Worker] /\ runs \in Seq(Run) /\ Pooled(k)
      BY <1>1 DEF PoolInv, Pooled, Formed, Run
    <3>3. ASSUME Fails(k, w) PROVE FALSE
      <4>1. runs'[k] = Errored(R, w) /\ Errored(R, w).cancelled = R.cancelled
            /\ Errored(R, w).queue = R.queue
            /\ Errored(R, w).worker[w] = AtRest(IF R.failFast THEN "failing" ELSE "idle")
        BY <3>2, <3>3 DEF Fails, Rewrite, Errored, Run
      <4>2. CASE Cancel(k, w)
        <5>1. runs'[k] = Cancelled(R, w) /\ Cancelled(R, w).worker[w] = AtRest("gone")
          BY <3>2, <4>2 DEF Cancel, Rewrite, Cancelled, Run
        <5>2. QED
          BY <4>1, <5>1, Resting
      <4>3. CASE Receive(k, w) /\ runs' = [runs EXCEPT ![k] = Left(R, w)]
        <5>1. runs'[k] = Left(R, w) /\ Left(R, w).worker[w] = AtRest("gone")
          BY <3>2, <4>3 DEF Left, Run
        <5>2. QED
          BY <4>1, <5>1, Resting
      <4>4. CASE \E r \in R.queue : runs' = [runs EXCEPT ![k] = Received(R, w, r)]
        <5>1. PICK r \in R.queue : runs'[k] = Received(R, w, r)
          BY <3>2, <4>4
        <5>2. Received(R, w, r).queue = R.queue \ {r}
          BY <3>2 DEF Received, Run
        <5>3. QED
          BY <4>1, <5>1, <5>2
      <4>5. QED
        BY <3>1, <4>2, <4>3, <4>4 DEF Receive, Rewrite, InLine
    <3>4. QED
      BY <3>3
  <2>2. QED
    BY <1>2, <1>4, <2>1 DEF Excused, Busy
<1>5. CASE j = k /\ Busy(k, w)
  <2>1. CASE Fails(k, w)
    <3>1. runs'[k].errs = runs[k].errs \union {Res(k, w)}
      BY <1>1, <1>5, <2>1, TaskEffect
    <3>2. QED
      BY <1>2, <1>5, <2>1, <3>1 DEF Excused
  <2>2. CASE ~Fails(k, w)
    <3>1. ~Receive(k, w) /\ ~Cancel(k, w)
      BY <1>5 DEF Busy, Receive, Cancel
    <3>2. Ends(k, w) \/ \E step \in {"begin", "power", "fill", "deps", "health"}, left \in SUBSET Resources :
                           Steps(k, w, step, left)
      BY <1>1, <2>2, <3>1, TaskSteps DEF InTask
    <3>3. runs'[k].errs = runs[k].errs
      BY <1>1, <1>5, <3>2, TaskEffect
    <3>4. QED
      BY <1>2, <1>5, <2>2, <3>3 DEF Excused
  <2>3. QED
    BY <2>1, <2>2
<1>6. QED
  BY <1>3, <1>4, <1>5

(* A run that went well, or to its end, has done with all of its members.  *)
LEMMA RunDone ==
    ASSUME Base, NEW k \in DOMAIN runs, runs[k].result # "running"
    PROVE  /\ runs[k].result = "ok" \/ ~runs[k].failFast => \A r \in runs[k].members : Taken(k, r)
           /\ runs[k].result = "ok" <=> Excused(k) = {}
           /\ runs[k].result \in {"ok", "failed"}
<1>1. Pooled(k) /\ runs[k] \in Run
  BY RunOfPlan
<1>2. runs[k].result \in {"ok", "failed"} /\ ~runs[k].open
  BY <1>1 DEF Pooled, Closed, Run
<1>3. runs[k].result = "ok" => Excused(k) = {}
  BY <1>1, <1>2 DEF Pooled, Closed, Excused
<1>4. runs[k].result # "ok" => Excused(k) # {}
  BY <1>1, <1>2 DEF Pooled, Closed, Excused
<1>5. ASSUME runs[k].result = "ok" \/ ~runs[k].failFast, NEW r \in runs[k].members PROVE Taken(k, r)
  <2>1. AllGone(runs[k]) /\ runs[k].queue = {} /\ runs[k].turn = Levels
    BY <1>1, <1>2, <1>5 DEF Pooled, Closed
  <2>2. QED
    BY <2>1, Turns DEF Taken, AllGone, Busy
<1>6. QED
  BY <1>2, <1>3, <1>4, <1>5

(* Where nothing goes wrong no task fails. *)
LEMMA NoFailure ==
    ASSUME Base, Torn, NEW k \in DOMAIN runs, NEW w \in Workers, Works(k, w), faults' = 0,
           NEW j \in DOMAIN runs
    PROVE  Excused(j)' = Excused(j)
<1>1. faults = 0 /\ Typed /\ PoolInv
  BY Effects DEF Base
<1>2. NothingInUse /\ DependenciesEnsured
  BY NeedsFirst, UsersFirst
<1>3. SUFFICES ASSUME j = k, Busy(k, w), Fails(k, w) PROVE Excused(k)' = Excused(k)
  BY FailedBy
<1>4. ~LookupFails(k, w) /\ ~FillFails(k, w) /\ ~WaitTimesOut(k, w) /\ ~TaskFails(k, w)
  BY <1>1 DEF LookupFails, FillFails, WaitTimesOut, TaskFails, Fault, Typed, Torn, Faultless
<1>5. ~Receive(k, w) /\ ~Cancel(k, w)
  BY <1>3 DEF Busy, Receive, Cancel
<1>6. Delete(k, w) => Ends(k, w)
  BY <1>1, <1>2, <1>3 DEF NothingInUse, Delete, Doing
<1>7. Ensure(k, w) => Ends(k, w)
  BY <1>2, <1>3 DEF DependenciesEnsured, Ensure, Doing
<1>8. ~(\E step \in {"begin", "power", "fill", "deps", "health"}, left \in SUBSET Resources :
           Steps(k, w, step, left))
  BY <1>1, <1>3, TaskEffect
<1>9. Ends(k, w)
  <2>1. ~CreateVolume(k, w)
    <3>1. {} \in SUBSET Resources
      OBVIOUS
    <3>2. ~Steps(k, w, "fill", {})
      BY <1>8, <3>1
    <3>3. QED
      BY <3>2 DEF CreateVolume
  <2>2. ~DependencySeen(k, w)
    <3> PICK left : left = runs[k].worker[w].left
      OBVIOUS
    <3>1. SUFFICES ASSUME DependencySeen(k, w) PROVE FALSE
      OBVIOUS
    <3>2. PICK d : Steps(k, w, "deps", left \ {d})
      BY <3>1 DEF DependencySeen
    <3>3. left \ {d} \in SUBSET Resources
      BY <1>1, RunOfPlan DEF Run, Worker
    <3>4. QED
      BY <1>8, <3>2, <3>3
  <2>3. StopBegins(k, w) \/ StartBegins(k, w) \/ PowerOn(k, w) => Ends(k, w)
    <3>1. DependsOn \in [Services -> SUBSET Services] /\ Services \subseteq Resources /\ {} \in SUBSET Resources
      BY Apart
    <3>2. ~Steps(k, w, "power", {}) /\ ~Steps(k, w, "health", {})
      BY <1>8, <3>1
    <3>3. Res(k, w) \in Services => ~Steps(k, w, "deps", DependsOn[Res(k, w)])
      <4> PICK r : r = Res(k, w)
        OBVIOUS
      <4>1. r \in Services => DependsOn[r] \in SUBSET Resources
        BY <3>1
      <4>2. r \in Services => ~Steps(k, w, "deps", DependsOn[r])
        BY <1>8, <4>1
      <4>3. QED
        BY <4>2
    <3>4. QED
      BY <3>2, <3>3 DEF StopBegins, StartBegins, PowerOn
  <2>4. QED
    BY <1>4, <1>5, <1>6, <1>7, <2>1, <2>2, <2>3
    DEF Works, Task, Lookup, PowerOff, FillVolume, StartNetwork, StartVolume, HealthSeen
<1>10. QED
  BY <1>1, <1>3, <1>9, TaskEffect, WorkKeeps DEF Excused

(* How the current run of a teardown comes on, with every step of a task. *)
LEMMA WorkTorn ==
    ASSUME Base, Torn, NEW k \in DOMAIN runs, NEW w \in Workers, Works(k, w)
    PROVE  Torn'
<1>1. /\ Typed /\ PoolInv /\ UNCHANGED plan /\ DOMAIN runs' = DOMAIN runs /\ Current' = Current
      /\ Current \in DOMAIN runs
  BY WorkKeeps, WorkerMoves, RunOfPlan DEF Base, PoolInv, Current
<1>2. Faultless'
  <2>1. faults' = 0 => faults = 0 /\ lost' = lost
    BY <1>1, Effects DEF LookupFails, Fault, Typed
  <2>2. QED
    BY <1>1, <2>1, NoFailure DEF Torn, Faultless
<1> PICK c : c = Current
  OBVIOUS
<1>3. /\ c \in DOMAIN runs /\ LookedUp(c) /\ Stopped(c) /\ Deleted(c) /\ Act(c)' = Act(c)
      /\ lost \subseteq lost'
  BY <1>1, Effects DEF Torn, Act, PhaseOf
<1>4. Act(c) \in {"lookup", "stop", "delete"} => k = c
  <2>1. CASE k # c
    <3>1. runs[k].worker[w].at = "gone" \/ Act(c) = "start"
      BY <1>1, <2>1, OnlyCurrent
    <3>2. runs[k].worker[w].at # "gone"
      BY <1>1, WorkerMoves DEF Moves
    <3>3. QED
      BY <3>1, <3>2
  <2>2. QED
    BY <2>1
<1>5. Excused(c) \subseteq Excused(c)' /\ (Busy(k, w) /\ Fails(k, w) => Res(k, w) \in Excused(k)')
  <2>1. Busy(k, w) /\ Fails(k, w) => runs'[k].errs = runs[k].errs \union {Res(k, w)}
    BY <1>1, TaskEffect
  <2>2. QED
    BY <1>3, <2>1, FailedBy DEF Excused
<1>6. ASSUME NEW r \in Services, Taken(c, r)', ~Taken(c, r), k = c, Excused(c) = {} \/ ~runs[c].failFast
      PROVE  Busy(k, w) /\ Res(k, w) = r /\ (Ends(k, w) \/ Fails(k, w)) /\ ~Receive(k, w) /\ ~Cancel(k, w)
  <2>1. r \in Resources
    BY Apart
  <2>2. Busy(k, w) /\ ~Busy(k, w)' /\ Res(k, w) = r
    BY <1>1, <1>6, <2>1, TakenBy DEF Excused
  <2>3. ~Receive(k, w) /\ ~Cancel(k, w)
    BY <2>2 DEF Busy, Receive, Cancel
  <2>4. InTask(k, w)
    BY <1>1, <2>3, TaskSteps
  <2>5. QED
    BY <1>1, <2>2, <2>3, <2>4, TaskEffect DEF InTask
<1>7. LookedUp(c)'
  <2> SUFFICES ASSUME Act(c) = "lookup", PhaseOf(c).failFast => Excused(c)' = {},
                      NEW r \in Services \ lost', Taken(c, r)', r \in exists'
               PROVE  r \in known'
    BY <1>1, <1>3 DEF LookedUp, PhaseOf
  <2>1. /\ k = c /\ exists' = exists /\ known \subseteq known' /\ r \notin lost
        /\ runs[c].failFast = PhaseOf(c).failFast
        /\ runs[c].failFast => Excused(c) = {}
    BY <1>1, <1>3, <1>4, <1>5, Effects, RunOfPlan
  <2>2. CASE Taken(c, r)
    BY <1>3, <2>1, <2>2 DEF LookedUp
  <2>3. CASE ~Taken(c, r)
    <3>1. /\ Busy(k, w) /\ Res(k, w) = r /\ (Ends(k, w) \/ Fails(k, w))
          /\ ~Receive(k, w) /\ ~Cancel(k, w)
      BY <1>6, <2>1, <2>3
    <3>2. ~LookupFails(k, w)
      BY <3>1 DEF LookupFails
    <3>3. Lookup(k, w)
      BY <2>1, <3>1, <3>2 DEF Works, Task, StopBegins, PowerOff, Delete, Ensure, CreateVolume, FillVolume, FillFails,
         StartNetwork, StartVolume, StartBegins, DependencySeen, PowerOn, HealthSeen, WaitTimesOut,
         TaskFails, Doing, Act, PhaseOf
    <3>4. QED
      BY <2>1, <3>1, <3>3 DEF Lookup
  <2>4. QED
    BY <2>2, <2>3
<1>8. Stopped(c)'
  <2> SUFFICES ASSUME Act(c) = "stop"
               PROVE  /\ (exists' \intersect Services) \ lost' \subseteq known'
                      /\ \A r \in Services : Taken(c, r)' /\ r \in known' /\ MayRun(r)' => r \in Excused(c)'
    BY <1>3 DEF Stopped
  <2>1. /\ k = c /\ exists' = exists /\ known \subseteq known' /\ marker \subseteq marker'
        /\ running' \subseteq running
    BY <1>3, <1>4, Effects
  <2>2. ~runs[c].failFast
    BY <1>1, <1>3, RunOfPlan, PlanFacts DEF Typed
  <2>3. known' = known
    BY <2>1 DEF Works, Task, Receive, Cancel, Lookup, LookupFails, StopBegins, PowerOff, Delete, Ensure,
       CreateVolume, FillVolume, FillFails,
       StartNetwork, StartVolume, StartBegins, DependencySeen, PowerOn, HealthSeen, WaitTimesOut,
       TaskFails, Doing, Act, PhaseOf
  <2>4. ASSUME NEW r \in Services, Taken(c, r)', r \in known', MayRun(r)' PROVE r \in Excused(c)'
    <3>1. CASE Taken(c, r)
      BY <1>3, <1>5, <2>1, <2>3, <2>4, <3>1 DEF Stopped, MayRun
    <3>2. CASE ~Taken(c, r)
      <4>1. /\ Busy(k, w) /\ Res(k, w) = r /\ (Ends(k, w) \/ Fails(k, w))
            /\ ~Receive(k, w) /\ ~Cancel(k, w)
        BY <1>6, <2>1, <2>2, <2>4, <3>2
      <4>2. StopBegins(k, w) \/ PowerOff(k, w) \/ (TaskFails(k, w) /\ Fails(k, w))
        BY <2>1, <4>1 DEF Works, Task, Lookup, LookupFails, Delete, Ensure, CreateVolume, FillVolume, FillFails,
           StartNetwork, StartVolume, StartBegins, DependencySeen, PowerOn, HealthSeen, WaitTimesOut,
           TaskFails, Doing, Act, PhaseOf
      <4>3. CASE StopBegins(k, w)
        <5>1. {} \in SUBSET Resources
          OBVIOUS
        <5>2. ~Steps(k, w, "power", {})
          <6>1. Ends(k, w) \/ Fails(k, w) => ~Busy(k, w)'
            BY <1>1, <4>1, TaskEffect
          <6>2. Steps(k, w, "power", {}) => Busy(k, w)'
            BY <1>1, <4>1, <5>1, TaskEffect
          <6>3. QED
            BY <4>1, <6>1, <6>2
        <5>3. r \notin known \intersect running /\ marker' = marker \union ({r} \intersect known)
          BY <4>1, <4>3, <5>2 DEF StopBegins
        <5>4. QED
          BY <2>1, <2>3, <2>4, <5>3 DEF MayRun
      <4>4. CASE PowerOff(k, w)
        <5>1. Tasked(k, w)
          BY <4>1 DEF Base, Tasks
        <5>2. r \in marker /\ running' = running \ {r}
          BY <4>1, <4>4, <5>1 DEF Tasked, PowerOff, Doing
        <5>3. QED
          BY <2>1, <2>4, <5>2 DEF MayRun
      <4>5. CASE TaskFails(k, w) /\ Fails(k, w)
        BY <1>5, <2>1, <4>1, <4>5
      <4>6. QED
        BY <4>2, <4>3, <4>4, <4>5
    <3>3. QED
      BY <3>1, <3>2
  <2>5. QED
    BY <1>3, <2>1, <2>3, <2>4 DEF Stopped
<1>9. Deleted(c)'
  <2> SUFFICES ASSUME Act(c) = "delete"
               PROVE  /\ \A r \in (exists' \intersect Services) \ lost' : r \notin known' => r \in Excused(c)'
                      /\ \A r \in Services \ lost' : Taken(c, r)' /\ r \in exists' => r \in Excused(c)'
                      /\ faults' = 0 => \A r \in exists' \intersect Services : ~MayRun(r)'
    BY <1>3 DEF Deleted
  <2>1. k = c /\ running' = running /\ ~runs[c].failFast /\ (faults' = 0 => faults = 0)
    BY <1>1, <1>3, <1>4, Effects, RunOfPlan, PlanFacts, ZenonT(60)
  <2>2. /\ \A r \in (exists \intersect Services) \ lost' : r \notin known => r \in Excused(c)
        /\ \A r \in Services \ lost' : Taken(c, r) /\ r \in exists => r \in Excused(c)
        /\ faults = 0 => \A r \in exists \intersect Services : ~MayRun(r)
    BY <1>3, <2>1 DEF Deleted
  <2>3. \/ Receive(k, w) \/ Cancel(k, w) \/ Delete(k, w)
        \/ TaskFails(k, w) /\ Busy(k, w)
    BY <2>1 DEF Works, Task, Lookup, LookupFails, StopBegins, PowerOff, Ensure, CreateVolume, FillVolume, FillFails,
       StartNetwork, StartVolume, StartBegins, DependencySeen, PowerOn, HealthSeen, WaitTimesOut,
       TaskFails, Doing, Act, PhaseOf, Busy
  <2>4. CASE Receive(k, w) \/ Cancel(k, w)
    <3>1. UNCHANGED <<exists, known, marker, running, faults>> /\ \A r \in Services : Taken(c, r)' => Taken(c, r)
      BY <1>6, <2>1, <2>4 DEF Receive, Cancel, server
    <3>2. QED
      BY <1>5, <2>2, <3>1 DEF MayRun
  <2>5. CASE TaskFails(k, w) /\ Busy(k, w)
    <3>1. Fails(k, w) /\ known' = known \ {Res(k, w)} /\ UNCHANGED <<exists, marker>>
      BY <2>1, <2>5 DEF TaskFails, server, Act, PhaseOf
    <3>2. \A r \in Services : Taken(c, r)' => Taken(c, r) \/ r = Res(k, w)
      BY <1>6, <2>1
    <3>3. Res(k, w) \in Excused(c)'
      BY <1>5, <2>1, <2>5, <3>1
    <3>4. QED
      BY <1>5, <2>1, <2>2, <3>1, <3>2, <3>3 DEF MayRun
  <2>6. CASE Delete(k, w)
    <3> PICK r0 : r0 = Res(k, w)
      OBVIOUS
    <3>1. Busy(k, w) /\ known' = known \ {r0}
      BY <2>6 DEF Delete, Doing, Busy
    <3>2. \A r \in Services : Taken(c, r)' => Taken(c, r) \/ r = r0
      BY <1>6, <2>1
    <3>3. CASE r0 \in known /\ InUse(r0)
      <4>1. UNCHANGED <<exists, marker>> /\ (r0 \in Services => Fails(k, w))
        BY <2>6, <3>3, Apart DEF Delete, Refused
      <4>2. r0 \in Services => r0 \in Excused(c)'
        BY <1>5, <2>1, <3>1, <4>1
      <4>3. QED
        BY <1>5, <2>1, <2>2, <3>1, <3>2, <4>1, <4>2 DEF MayRun
    <3>4. CASE ~(r0 \in known /\ InUse(r0))
      <4>1. exists' = exists \ ({r0} \intersect known) /\ marker' = marker \ ({r0} \intersect known)
        BY <2>6, <3>4 DEF Delete
      <4>2. QED
        BY <1>5, <2>1, <2>2, <3>1, <3>2, <4>1 DEF MayRun
    <3>5. QED
      BY <3>3, <3>4
  <2>7. QED
    BY <2>3, <2>4, <2>5, <2>6
<1>10. QED
  BY <1>1, <1>2, <1>7, <1>8, <1>9 DEF Torn

(* What a run begins with is what the one before it has done. *)
LEMMA NextTorn ==
    ASSUME Base, Torn, NextRun, runs' # runs
    PROVE  Torn'
<1> PICK c : c = Current
  OBVIOUS
<1> PICK n : n = c + 1
  OBVIOUS
<1>1. /\ Typed /\ PoolInv /\ UNCHANGED <<plan, order, server, queued, lost, faults, result>>
      /\ PhaseOf(n)' = PhaseOf(n) /\ Act(n)' = Act(n)
  BY DEF Base, NextRun, PhaseOf, Act
<1>2. /\ PoolInv' /\ Current' = n /\ \A j \in DOMAIN runs : runs'[j] = runs[j]
      /\ n <= Len(Plan[plan]) /\ c \in Nat /\ DOMAIN runs = 1..c
      /\ runs'[n] = NewRun(Members(PhaseOf(n)), PhaseOf(n).desc, PhaseOf(n).failFast)
      /\ c > 0 => runs[c].result # "running"
  BY <1>1, NextPool DEF PhaseOf
<1>3. DOMAIN runs' = DOMAIN runs \union {n} /\ n \in 1..Len(Plan[plan])
  <2>1. Len(Plan[plan]) \in Nat
    BY <1>1, PlanLengths DEF Typed
  <2>2. DOMAIN runs' = 1..n
    BY <1>2 DEF PoolInv, Current
  <2>3. QED
    BY <1>2, <2>1, <2>2
<1>4. Excused(n)' = {} /\ \A r \in Services : ~Taken(n, r)'
  <2>1. runs'[n].errs = {} /\ runs'[n].failed = {} /\ runs'[n].turn = 0
    BY <1>2 DEF NewRun
  <2>2. \A r \in Services : Turn(runs'[n], r) \in 1..Levels /\ Levels \in Nat
    BY StackAssumption, Apart DEF StackAssumption, Turn
  <2>3. QED
    BY <2>1, <2>2 DEF Excused, Taken
<1>5. Faultless'
  BY <1>1, <1>2, <1>3, <1>4 DEF Torn, Faultless, Excused
<1>6. Act(n) = "stop" => c = 1 /\ Act(c) = "lookup"
  <2>1. (c + 1) - 1 = c /\ (n = 1 <=> c = 0)
    BY <1>2
  <2>2. SUFFICES ASSUME Act(n) = "stop" PROVE c = 1 /\ Act(c) = "lookup"
    OBVIOUS
  <2>3. n # 1
    BY <1>1, <1>3, <2>2, PlanFacts DEF Typed
  <2>4. CASE plan = "restart"
    <3>1. n = 2 /\ c = 1
      BY <1>1, <1>2, <1>3, <2>2, <2>4, PlanFacts DEF Typed
    <3>2. QED
      BY <2>4, <3>1, PlanRestart DEF Act, PhaseOf, Phase
  <2>5. CASE plan # "restart"
    <3>1. Act(n - 1) = "lookup" /\ n - 1 = c
      BY <1>1, <1>2, <1>3, <2>2, <2>3, <2>5, PlanFacts DEF Typed
    <3>2. c \in 1..Len(Plan[plan])
      BY <1>2, <1>3, <2>1, <2>3
    <3>3. c = 1
      BY <1>1, <2>5, <3>1, <3>2, PlanFacts DEF Typed
    <3>4. QED
      BY <3>1, <3>3
  <2>6. QED
    BY <2>4, <2>5
<1>7. Act(n) = "delete" => c > 0 /\ Act(c) = "stop"
  <2>1. SUFFICES ASSUME Act(n) = "delete" PROVE c > 0 /\ Act(c) = "stop"
    OBVIOUS
  <2>2. n # 1 /\ plan # "restart"
    BY <1>1, <1>3, <2>1, PlanFacts DEF Typed
  <2>3. Act(n - 1) = "stop" /\ n - 1 = c
    BY <1>1, <1>2, <1>3, <2>1, <2>2, PlanFacts DEF Typed
  <2>4. QED
    BY <1>2, <2>2, <2>3
<1>8. known' = IF PhaseOf(n).newClient THEN {} ELSE known
  BY <1>1 DEF NextRun, PhaseOf
<1>9. LookedUp(n)'
  BY <1>4 DEF LookedUp
<1>10. Stopped(n)'
  <2> SUFFICES ASSUME Act(n) = "stop" PROVE (exists \intersect Services) \ lost \subseteq known'
    BY <1>1, <1>4 DEF Stopped, server
  <2>1. known' = known
    BY <1>1, <1>3, <1>8, PlanFacts DEF Typed
  <2>2. c \in DOMAIN runs /\ Act(c) = "lookup" /\ LookedUp(c) /\ Scoped(c) /\ runs[c].result # "running"
    BY <1>2, <1>6 DEF Torn, Base, Tasks
  <2>3. Services \subseteq runs[c].members /\ ~runs[c].failFast /\ ~PhaseOf(c).failFast
    BY <1>1, <1>6, <2>2, RunOfPlan, PlanFacts DEF Scoped, Typed
  <2>4. \A r \in Services : Taken(c, r)
    BY <2>2, <2>3, RunDone
  <2>5. QED
    BY <2>1, <2>2, <2>3, <2>4 DEF LookedUp
<1>11. Deleted(n)'
  <2> SUFFICES ASSUME Act(n) = "delete"
               PROVE  /\ (exists \intersect Services) \ lost \subseteq known'
                      /\ faults = 0 => \A r \in exists \intersect Services : ~MayRun(r)
    BY <1>1, <1>4 DEF Deleted, server, MayRun
  <2>1. known' = known
    BY <1>1, <1>3, <1>8, PlanFacts DEF Typed
  <2>2. c \in DOMAIN runs /\ Act(c) = "stop" /\ Stopped(c) /\ Scoped(c) /\ runs[c].result # "running"
    BY <1>2, <1>7 DEF Torn, Base, Tasks
  <2>3. Services \subseteq runs[c].members /\ ~runs[c].failFast
    BY <1>1, <2>2, RunOfPlan, PlanFacts DEF Scoped, Typed
  <2>4. \A r \in Services : Taken(c, r)
    BY <2>2, <2>3, RunDone
  <2>5. faults = 0 => Excused(c) = {} /\ lost = {}
    BY <2>2 DEF Torn, Faultless
  <2>6. QED
    BY <2>1, <2>2, <2>4, <2>5 DEF Stopped
<1>12. QED
  BY <1>2, <1>5, <1>9, <1>10, <1>11 DEF Torn

(* How far a teardown is stays true, whatever the next step is. *)
LEMMA TornStep ==
    ASSUME Base, Torn, [Next]_vars
    PROVE  Torn'
<1>1. Typed /\ PoolInv
  BY DEF Base
<1>2. CASE NextRun /\ runs' # runs
  BY <1>2, NextTorn
<1>3. CASE OpenBatch \/ CloseBatch
  <2>1. /\ DOMAIN runs' = DOMAIN runs /\ Current' = Current
        /\ UNCHANGED <<plan, known, server, lost, faults>>
        /\ \A j \in DOMAIN runs :
              Excused(j)' = Excused(j) /\ \A r \in Services : Taken(j, r)' => Taken(j, r)
    BY <1>1, <1>3, BatchKeeps, Apart
  <2>2. QED
    BY <2>1 DEF Torn, Faultless, LookedUp, Stopped, Deleted, MayRun, Act, PhaseOf, server
<1>4. CASE \E k \in DOMAIN runs, w \in Workers : Works(k, w)
  BY <1>4, WorkTorn
<1>5. CASE Aside
  <2>1. /\ UNCHANGED <<plan, runs, known, exists, marker, lost>>
        /\ \A i \in running' \ running : i \notin marker
        /\ (faults' = 0 => faults = 0)
    BY <1>1, <1>5, AsideKeeps
  <2>2. \A r : MayRun(r)' => MayRun(r)
    BY <2>1 DEF MayRun
  <2>3. Faultless' /\ Current' = Current
    BY <2>1 DEF Torn, Faultless, Excused, Current
  <2>4. ASSUME NEW j \in DOMAIN runs, j = Current PROVE LookedUp(j)' /\ Stopped(j)' /\ Deleted(j)'
    <3>1. LookedUp(j) /\ Stopped(j) /\ Deleted(j)
      BY <2>4 DEF Torn
    <3>2. Excused(j)' = Excused(j) /\ Act(j)' = Act(j) /\ \A r \in Services : Taken(j, r)' = Taken(j, r)
      BY <2>1 DEF Excused, Taken, Turn, Busy, Res, Act, PhaseOf
    <3>3. QED
      BY <2>1, <2>2, <2>3, <3>1, <3>2 DEF LookedUp, Stopped, Deleted, PhaseOf
  <2>5. QED
    BY <2>1, <2>3, <2>4 DEF Torn
<1>6. QED
  BY <1>2, <1>3, <1>4, <1>5, Cases

(* Deployment ensures what an instance is made from before the instance;   *)
(* teardown deletes it after, and where nothing has failed the server      *)
(* refuses no delete (Stack.ForAction, runBatch, Instance.Ensure).         *)
THEOREM OrderKept == Spec => []InOrder
<1>1. Init => Torn
  BY DEF Init, Torn, Faultless
<1>2. Base /\ Torn /\ [Next]_vars => Torn'
  BY TornStep
<1>3. Base /\ Torn => InOrder
  BY NeedsFirst, UsersFirst DEF InOrder
<1>4. QED
  BY <1>1, <1>2, <1>3, Based, PTL DEF Spec

-----------------------------------------------------------------------------
(* A command that reports success. *)

(* What a deployment has come to stays, with every step of a task. *)
LEMMA WorkBrought ==
    ASSUME Base, Torn, Brought, NEW k \in DOMAIN runs, NEW w \in Workers, Works(k, w)
    PROVE  Brought'
<1> PICK c : c = Current
  OBVIOUS
<1>1. /\ Typed /\ PoolInv /\ UNCHANGED <<plan, joined, result>> /\ DOMAIN runs' = DOMAIN runs /\ Current' = c
      /\ c \in DOMAIN runs /\ result = "none"
  BY WorkKeeps, WorkerMoves, RunOfPlan DEF Base, PoolInv, Current
<1>2. Remade(c) /\ Started(c) /\ Anew(c) /\ Act(c)' = Act(c) /\ lost \subseteq lost'
  BY <1>1, Effects DEF Brought, Act, PhaseOf
<1>3. k = c \/ (k # c /\ Act(k) = "lookup" /\ Act(c) = "start")
  <2>1. runs[k].worker[w].at # "gone"
    BY <1>1, WorkerMoves DEF Moves
  <2>2. QED
    BY <1>1, <2>1, OnlyCurrent
<1>4. Remade(c)'
  <2>1. exists' \ exists \subseteq made' \union Volumes /\ made \subseteq made'
    BY Effects
  <2>2. QED
    BY <1>1, <1>2, <2>1, Apart DEF Remade
<1>5. plan = "restart" => exists' = exists
  BY <1>1, RunOfPlan, PlanFacts, Effects DEF Typed
<1>6. Anew(c)'
  <2>1. running' \ running \subseteq renewed' /\ renewed \subseteq renewed'
    BY Effects
  <2>2. QED
    BY <1>1, <1>2, <1>5, <2>1 DEF Anew
<1>7. Started(c)'
  <2> SUFFICES ASSUME Act(c) = "start"
               PROVE  /\ plan # "restart" => Services \subseteq runs'[c].members /\ Services \subseteq exists'
                      /\ ~joined => (exists' \intersect Services) \ lost' \subseteq runs'[c].members
                      /\ \A r \in Services : Taken(c, r)' /\ r \notin running' => Excused(c)' # {}
    BY <1>1, <1>2 DEF Started
  <2>1. exists' = exists /\ runs'[c].members = runs[c].members /\ running \subseteq running'
    BY <1>1, <1>3, Effects, WorkKeeps
  <2>2. Excused(c) \subseteq Excused(c)'
    BY <1>1, FailedBy
  <2>3. ASSUME NEW r \in Services, Taken(c, r)', r \notin running' PROVE Excused(c)' # {}
    <3> SUFFICES ASSUME Excused(c) = {} PROVE Excused(c)' # {}
      BY <2>2
    <3>1. r \in Resources /\ r \notin running
      BY <2>1, <2>3, Apart
    <3>2. ~Taken(c, r)
      BY <1>2, <3>1 DEF Started
    <3>3. c = k /\ Busy(k, w) /\ ~Busy(k, w)' /\ Res(k, w) = r
      BY <1>1, <2>3, <3>1, <3>2, TakenBy DEF Excused
    <3>4. ~Receive(k, w) /\ ~Cancel(k, w) /\ Tasked(k, w)
      BY <3>3 DEF Busy, Receive, Cancel, Base, Tasks
    <3>5. Ends(k, w) \/ Fails(k, w)
      BY <1>1, <3>3, <3>4, TaskSteps, TaskEffect DEF InTask
    <3>6. CASE Fails(k, w)
      BY <1>1, <3>3, <3>6, TaskEffect DEF Excused
    <3>7. CASE ~Fails(k, w)
      <4>1. StartBegins(k, w) \/ PowerOn(k, w) \/ HealthSeen(k, w) \/ DependencySeen(k, w)
        BY <2>3, <3>3, <3>4, <3>7, Apart DEF Works, Task, Lookup, LookupFails, StopBegins, PowerOff, Delete, Ensure,
           CreateVolume, FillVolume, FillFails, StartNetwork, StartVolume,
           WaitTimesOut, TaskFails, Doing, Act, PhaseOf
      <4> ~DependencySeen(k, w)
        <5> SUFFICES ASSUME DependencySeen(k, w) PROVE FALSE
          OBVIOUS
        <5> PICK d : Steps(k, w, "deps", runs[k].worker[w].left \ {d})
          BY DEF DependencySeen
        <5>1. runs[k].worker[w].left \ {d} \in SUBSET Resources
          BY <1>1, RunOfPlan DEF Run, Worker
        <5>2. QED
          BY <1>1, <3>3, <5>1, TaskEffect
      <4>2. CASE StartBegins(k, w)
        <5>1. DependsOn[r] \in SUBSET Resources
          BY Apart
        <5>2. ~Steps(k, w, "deps", DependsOn[r])
          BY <1>1, <3>3, <5>1, TaskEffect
        <5>3. QED
          BY <3>1, <3>3, <4>2, <5>2 DEF StartBegins
      <4>3. CASE PowerOn(k, w)
        BY <2>3, <3>3, <4>3 DEF PowerOn
      <4>4. CASE HealthSeen(k, w)
        BY <3>1, <3>3, <3>4, <4>4 DEF HealthSeen, Doing, Tasked
      <4>5. QED
        BY <4>1, <4>2, <4>3, <4>4
    <3>8. QED
      BY <3>6, <3>7
  <2>4. QED
    BY <1>2, <2>1, <2>3 DEF Started
<1>8. TrueSuccess'
  BY <1>1 DEF TrueSuccess
<1>9. QED
  BY <1>1, <1>4, <1>6, <1>7, <1>8 DEF Brought

(* A deployment begins where the teardown, or the stop, has come to. *)
LEMMA NextBrought ==
    ASSUME Base, Torn, Brought, NextRun, runs' # runs
    PROVE  Brought'
<1> PICK c : c = Current
  OBVIOUS
<1> PICK n : n = c + 1
  OBVIOUS
<1>1. /\ Typed /\ PoolInv /\ UNCHANGED <<plan, order, server, queued, lost, faults, result>> /\ result = "none"
      /\ PhaseOf(n)' = PhaseOf(n) /\ Act(n)' = Act(n)
  BY DEF Base, NextRun, PhaseOf, Act
<1>2. /\ PoolInv' /\ Current' = n /\ \A j \in DOMAIN runs : runs'[j] = runs[j]
      /\ n <= Len(Plan[plan]) /\ c \in Nat /\ DOMAIN runs = 1..c
      /\ runs'[n] = NewRun(Members(PhaseOf(n)), PhaseOf(n).desc, PhaseOf(n).failFast)
      /\ c > 0 => /\ runs[c].result # "running"
                  /\ runs[c].result = "failed" => PhaseOf(c).onError # "abort"
  BY <1>1, NextPool DEF PhaseOf
<1>3. n \in 1..Len(Plan[plan]) /\ (n = 1 <=> c = 0) /\ n - 1 = c /\ (c > 0 => c \in 1..Len(Plan[plan]))
  <2>1. Len(Plan[plan]) \in Nat
    BY <1>1, PlanLengths DEF Typed
  <2>2. QED
    BY <1>2, <2>1
<1>4. c > 0 => /\ c \in DOMAIN runs /\ Remade(c) /\ Anew(c) /\ LookedUp(c) /\ Stopped(c) /\ Deleted(c)
               /\ Scoped(c) /\ Ensured(c)
  BY <1>2 DEF Torn, Brought, Base, Tasks
<1>5. \A r \in Services : ~Taken(n, r)'
  <2>1. runs'[n].turn = 0
    BY <1>2 DEF NewRun
  <2>2. \A r \in Services : Turn(runs'[n], r) \in 1..Levels /\ Levels \in Nat
    BY StackAssumption, Apart DEF StackAssumption, Turn
  <2>3. QED
    BY <2>1, <2>2 DEF Taken
<1>6. known' = IF PhaseOf(n).newClient THEN {} ELSE known
  BY <1>1 DEF NextRun, PhaseOf
<1>7. plan # "restart" /\ c > 0 =>
         /\ Act(n) = "ensure" => Act(c) = "delete"
         /\ Act(n) = "start" => Act(c) = "ensure"
  BY <1>1, <1>3, PlanFacts DEF Typed
<1>8. c = 0 => Act(n) # "start" /\ (Act(n) = "ensure" => plan = "up")
  BY <1>1, <1>3, PlanFacts DEF Typed
<1>9. plan = "restart" =>
         /\ n = 3 => Act(c) = "stop" /\ c > 0
         /\ n = 4 => Act(c) = "lookup" /\ c > 0
         /\ Act(n) # "ensure" /\ (Act(n) = "start" => n = 4) /\ n <= 4
         /\ c > 0 => PhaseOf(c).onError = "join"
  <2> SUFFICES ASSUME plan = "restart"
               PROVE  /\ n = 3 => Act(c) = "stop" /\ c > 0
                      /\ n = 4 => Act(c) = "lookup" /\ c > 0
                      /\ Act(n) # "ensure" /\ (Act(n) = "start" => n = 4) /\ n <= 4
                      /\ c > 0 => PhaseOf(c).onError = "join"
    OBVIOUS
  <2>1. n \in 1..4 /\ Len(Plan[plan]) = 4
    BY <1>3, PlanRestart
  <2>2. n = 3 => c = 2
    BY <1>3
  <2>3. n = 4 => c = 3
    BY <1>3
  <2>4. (n = 3 => Act(c) = "stop") /\ (n = 4 => Act(c) = "lookup")
    BY <2>2, <2>3, PlanRestart DEF Act, PhaseOf, Phase
  <2>5. Act(n) # "ensure" /\ (Act(n) = "start" => n = 4)
    BY <1>1, <1>3, PlanFacts DEF Typed
  <2>6. c > 0 => PhaseOf(c).onError = "join"
    BY <1>1, <1>3, PlanFacts DEF Typed
  <2>7. QED
    BY <2>1, <2>2, <2>3, <2>4, <2>5, <2>6
<1>10. Remade(n)'
  <2> SUFFICES ASSUME Act(n) \in {"ensure", "start"}, plan \in {"recreate", "rebuild"}
               PROVE  (exists \intersect Services) \ lost \subseteq made
    BY <1>1 DEF Remade, server
  <2>1. c > 0
    BY <1>2, <1>8
  <2>2. CASE Act(n) = "ensure"
    <3>1. Act(c) = "delete" /\ PhaseOf(c).onError = "abort"
      BY <1>1, <1>3, <1>7, <2>1, <2>2, PlanFacts DEF Typed
    <3>2. runs[c].result = "ok" /\ Excused(c) = {} /\ \A r \in runs[c].members : Taken(c, r)
      BY <1>2, <1>4, <2>1, <3>1, RunDone
    <3>3. Services \subseteq runs[c].members
      BY <1>4, <2>1, <3>1 DEF Scoped
    <3>4. QED
      BY <1>4, <2>1, <3>1, <3>2, <3>3 DEF Deleted
  <2>3. CASE Act(n) = "start"
    BY <1>4, <1>7, <2>1, <2>3 DEF Remade
  <2>4. QED
    BY <2>2, <2>3
<1>11. c > 0 /\ ~joined' => ~joined /\ ~(runs[c].result = "failed" /\ PhaseOf(c).onError = "join")
  <2>1. c > 0 => runs # <<>>
    BY <1>2
  <2>2. QED
    BY <1>1, <2>1 DEF NextRun, PhaseOf
<1>12. Anew(n)'
  <2> SUFFICES ASSUME n > 2, plan = "restart", ~joined'
               PROVE  (exists \intersect running) \ lost \subseteq renewed
    BY <1>1 DEF Anew, server
  <2>1. c > 0 /\ (n = 3 \/ n = 4) /\ ~joined
        /\ ~(runs[c].result = "failed" /\ PhaseOf(c).onError = "join")
    BY <1>2, <1>9, <1>11
  <2>2. CASE n = 3
    <3>1. Act(c) = "stop" /\ runs[c].result = "ok"
      BY <1>2, <1>4, <1>9, <2>1, <2>2, RunDone
    <3>2. Excused(c) = {} /\ \A r \in runs[c].members : Taken(c, r)
      BY <1>4, <2>1, <3>1, RunDone
    <3>3. Services \subseteq runs[c].members
      BY <1>4, <2>1, <3>1 DEF Scoped
    <3>4. \A r \in (exists \intersect Services) \ lost : r \notin running
      BY <1>4, <2>1, <3>1, <3>2, <3>3 DEF Stopped, MayRun
    <3>5. QED
      BY <1>1, <3>4 DEF Typed
  <2>3. CASE n = 4
    <3>1. c > 2
      BY <1>3, <2>3
    <3>2. QED
      BY <1>4, <2>1, <3>1 DEF Anew
  <2>4. QED
    BY <2>1, <2>2, <2>3
<1>13. Started(n)'
  <2> SUFFICES ASSUME Act(n) = "start"
               PROVE  /\ plan # "restart" => Services \subseteq runs'[n].members /\ Services \subseteq exists
                      /\ ~joined' => (exists \intersect Services) \ lost \subseteq runs'[n].members
    BY <1>1, <1>5 DEF Started, server
  <2>1. c > 0
    BY <1>2, <1>8
  <2>2. Services \intersect known \subseteq runs'[n].members
    <3>1. runs'[n].members = Add(Stacked(PhaseOf(n))) \intersect Supports("start") \intersect known
      BY <1>2 DEF NewRun, Members, ForActionF, Filter, Act
    <3>2. Services \subseteq Add(Stacked(PhaseOf(n)))
      BY <1>1, <1>3, StackedIs
    <3>3. QED
      BY <3>1, <3>2, Apart DEF Supports
  <2>3. CASE plan # "restart"
    <3>1. Act(c) = "ensure" /\ PhaseOf(c).onError = "abort"
      BY <1>1, <1>3, <1>7, <2>1, <2>3, PlanFacts DEF Typed
    <3>2. runs[c].result = "ok" /\ Excused(c) = {} /\ \A r \in runs[c].members : Taken(c, r)
      BY <1>2, <1>4, <2>1, <3>1, RunDone
    <3>3. Services \subseteq runs[c].members
      BY <1>4, <2>1, <3>1 DEF Scoped
    <3>4. Services \subseteq known
      BY <1>4, <2>1, <3>1, <3>2, <3>3 DEF Ensured, Excused
    <3>5. QED
      BY <1>1, <2>2, <3>4 DEF Typed
  <2>4. CASE plan = "restart"
    <3> SUFFICES ASSUME ~joined' PROVE (exists \intersect Services) \ lost \subseteq runs'[n].members
      BY <2>4
    <3>1. Act(c) = "lookup" /\ PhaseOf(c).onError = "join" /\ runs[c].result = "ok"
      BY <1>2, <1>4, <1>9, <1>11, <2>1, <2>4, RunDone
    <3>2. Excused(c) = {} /\ \A r \in runs[c].members : Taken(c, r)
      BY <1>2, <1>4, <2>1, <3>1, RunDone
    <3>3. Services \subseteq runs[c].members
      BY <1>4, <2>1, <3>1 DEF Scoped
    <3>4. (exists \intersect Services) \ lost \subseteq known
      BY <1>4, <2>1, <3>1, <3>2, <3>3 DEF LookedUp
    <3>5. known' = known
      BY <1>1, <1>3, <1>6, PlanFacts DEF Typed
    <3>6. QED
      BY <2>2, <3>4
  <2>5. QED
    BY <2>3, <2>4
<1>14. TrueSuccess'
  BY <1>1 DEF TrueSuccess
<1>15. QED
  BY <1>2, <1>10, <1>12, <1>13, <1>14 DEF Brought

(* A command that has come to its end has done what its runs have. *)
LEMMA EndBrought ==
    ASSUME Base, Torn, Brought, CommandEnds
    PROVE  TrueSuccess'
<1> PICK c : c = Current
  OBVIOUS
<1>1. /\ Typed /\ PoolInv /\ c = Len(Plan[plan]) /\ runs[c].result # "running"
      /\ UNCHANGED <<plan, runs, exists, running, made, renewed, lost, joined, faults>>
      /\ result' = IF joined \/ (runs[c].result = "failed" /\ PhaseOf(c).onError # "ignore")
                   THEN "failed" ELSE "ok"
  BY DEF CommandEnds, Base, server, PhaseOf
<1>2. SUFFICES ASSUME result' = "ok", plan \notin {"down", "purge"}
               PROVE  /\ plan # "restart" => Services \subseteq running
                      /\ plan \in {"recreate", "rebuild"} => Services \ lost \subseteq made
                      /\ plan = "restart" =>
                            (exists \intersect Services) \ lost \subseteq running \intersect renewed
  BY <1>1 DEF TrueSuccess
<1>3. c \in 1..Len(Plan[plan]) /\ c \in DOMAIN runs
  <2>1. Len(Plan[plan]) \in 2..5
    BY <1>1, PlanLengths DEF Typed
  <2>2. runs \in Seq(Run)
    BY <1>1 DEF PoolInv
  <2>3. DOMAIN runs = 1..Len(runs)
    BY ONLY <2>2
  <2>4. c = Len(runs) /\ c \in 2..5
    BY <1>1, <2>1 DEF Current
  <2>5. QED
    BY ONLY <1>1, <2>3, <2>4
<1>4. Act(c) = "start" /\ PhaseOf(c).onError # "ignore" /\ (plan = "restart" => c > 2)
  BY <1>1, <1>2, <1>3, PlanFacts DEF Typed
<1>5. ~joined /\ runs[c].result = "ok"
  BY <1>1, <1>2, <1>3, <1>4, RunDone
<1>6. Excused(c) = {} /\ \A r \in runs[c].members : Taken(c, r)
  BY <1>3, <1>5, RunDone
<1>7. Remade(c) /\ Started(c) /\ Anew(c)
  BY <1>3 DEF Brought
<1>8. CASE plan # "restart"
  <2>1. Services \subseteq exists /\ Services \subseteq running
    BY <1>4, <1>6, <1>7, <1>8 DEF Started
  <2>2. QED
    BY <1>4, <1>7, <1>8, <2>1 DEF Remade
<1>9. CASE plan = "restart"
  <2>1. (exists \intersect Services) \ lost \subseteq running
    BY <1>4, <1>5, <1>6, <1>7 DEF Started
  <2>2. QED
    BY <1>4, <1>5, <1>7, <1>9, <2>1 DEF Anew
<1>10. QED
  BY <1>8, <1>9

(* What a deployment has come to stays, whatever the next step is. *)
LEMMA BroughtStep ==
    ASSUME Base, Torn, Brought, [Next]_vars
    PROVE  Brought'
<1>1. Typed /\ PoolInv
  BY DEF Base
<1>2. CASE NextRun /\ runs' # runs
  BY <1>2, NextBrought
<1>3. CASE OpenBatch \/ CloseBatch
  <2>1. /\ DOMAIN runs' = DOMAIN runs /\ Current' = Current
        /\ UNCHANGED <<plan, server, lost, faults, joined, result>>
        /\ \A j \in DOMAIN runs :
              /\ Excused(j)' = Excused(j) /\ runs'[j].members = runs[j].members
              /\ \A r \in Services : Taken(j, r)' => Taken(j, r)
    BY <1>1, <1>3, BatchKeeps, Apart
  <2>2. QED
    BY <2>1 DEF Brought, Remade, Started, Anew, TrueSuccess, Act, PhaseOf, server
<1>4. CASE \E k \in DOMAIN runs, w \in Workers : Works(k, w)
  BY <1>4, WorkBrought
<1>5. CASE Aside
  <2>1. /\ UNCHANGED <<plan, runs, known, exists, made, lost, joined>>
        /\ running \subseteq running' /\ renewed \subseteq renewed' /\ running' \ running \subseteq renewed'
        /\ Current' = Current
    BY <1>1, <1>5, AsideKeeps DEF Current
  <2>2. ASSUME NEW j \in DOMAIN runs, j = Current PROVE Remade(j)' /\ Started(j)' /\ Anew(j)'
    <3>1. Remade(j) /\ Started(j) /\ Anew(j)
      BY <2>2 DEF Brought
    <3>2. Excused(j)' = Excused(j) /\ Act(j)' = Act(j) /\ \A r \in Services : Taken(j, r)' = Taken(j, r)
      BY <2>1 DEF Excused, Taken, Turn, Busy, Res, Act, PhaseOf
    <3>3. Remade(j)' /\ Anew(j)'
      BY <2>1, <3>1, <3>2 DEF Remade, Anew
    <3>4. Started(j)'
      BY <2>1, <3>1, <3>2 DEF Started
    <3>5. QED
      BY <3>3, <3>4
  <2>3. TrueSuccess'
    <3>1. CASE CommandEnds
      BY <3>1, EndBrought
    <3>2. CASE ~CommandEnds
      <4>1. result' = result \/ result' = "failed"
        BY <1>5, <3>2 DEF Aside, BetweenRunsFails, Done, vars, NextRun, Verdict, ReportsStop, RestartDue, Healthd, Command
      <4>2. QED
        BY <2>1, <4>1 DEF Brought, TrueSuccess
    <3>3. QED
      BY <3>1, <3>2
  <2>4. QED
    BY <2>1, <2>2, <2>3 DEF Brought
<1>6. QED
  BY <1>2, <1>3, <1>4, <1>5, Cases

(* A command that reports success has done what it says, in whatever order *)
(* the goroutines went, and whatever failed on the way however often:      *)
(* every service runs, a recreate has replaced each instance, a restart    *)
(* has started it anew.  What is excepted are the instances a read of      *)
(* which failed, as Instance.Ensure takes that for "not found", and they   *)
(* alone: with another service lost the rest is still as it should be.     *)
THEOREM SuccessIsTrue == Spec => []TrueSuccess
<1>1. Init => Torn /\ Brought
  BY DEF Init, Torn, Faultless, Brought, TrueSuccess
<1>2. Base /\ Torn /\ Brought /\ [Next]_vars => Torn' /\ Brought'
  BY TornStep, BroughtStep
<1>3. Brought => TrueSuccess
  BY DEF Brought
<1>4. QED
  BY <1>1, <1>2, <1>3, Based, PTL DEF Spec

-----------------------------------------------------------------------------
(* The volumes. *)

(* A volume is filled by a worker of the current run, one that ensures. *)
LEMMA Filler ==
    ASSUME Base, NEW j \in DOMAIN runs, NEW u \in Workers, Busy(j, u), runs[j].worker[u].step = "fill"
    PROVE  j = Current /\ Act(j) = "ensure" /\ Res(j, u) \in (Volumes \intersect exists) \ filled
<1>1. Tasked(j, u)
  BY DEF Base, Tasks
<1>2. Act(j) = "ensure" /\ Res(j, u) \in (Volumes \intersect exists) \ filled
  BY <1>1, StepAct DEF Tasked
<1>3. QED
  BY <1>2, OnlyCurrent DEF Base, Busy

(* No other worker ends it. *)
LEMMA StillFilling ==
    ASSUME Base, NEW k \in DOMAIN runs, NEW w \in Workers, Works(k, w), NEW v, Filling(v),
           ~(Busy(k, w) /\ runs[k].worker[w].step = "fill" /\ Res(k, w) = v)
    PROVE  Filling(v)'
<1>1. PICK j \in DOMAIN runs, u \in Workers :
          Busy(j, u) /\ runs[j].worker[u].step = "fill" /\ Res(j, u) = v
  BY DEF Filling
<1>2. j # k \/ u # w
  BY <1>1
<1>3. DOMAIN runs' = DOMAIN runs /\ runs'[j].worker[u] = runs[j].worker[u]
  BY <1>2, WorkKeeps DEF Base
<1>4. QED
  BY <1>1, <1>3 DEF Filling, Busy, Res

(* A volume that a task meets has all its image has for it, or it is the   *)
(* task that fills it.                                                     *)
LEMMA MetWhole ==
    ASSUME Base, Grounded, MaxFaults < 2, NEW k \in DOMAIN runs, NEW w \in Workers, Busy(k, w),
           Act(k) \in {"lookup", "ensure"}, runs[k].worker[w].step # "fill",
           Res(k, w) \in exists \intersect Volumes
    PROVE  Res(k, w) \in filled
<1>1. SUFFICES ASSUME Filling(Res(k, w)) PROVE FALSE
  BY DEF Grounded
<1>2. PICK j \in DOMAIN runs, u \in Workers :
          Busy(j, u) /\ runs[j].worker[u].step = "fill" /\ Res(j, u) = Res(k, w)
  BY <1>1 DEF Filling
<1>3. j = Current /\ Act(j) = "ensure"
  BY <1>2, Filler
<1>4. k = Current
  BY <1>3, OnlyCurrent DEF Base, Busy
<1>5. QED
  BY <1>2, <1>3, <1>4, RunOfPlan DEF Pooled, Manned

(* What exists is whole, or being filled, after every step of a task. *)
LEMMA WorkGrounded ==
    ASSUME Base, Grounded, MaxFaults < 2, NEW k \in DOMAIN runs, NEW w \in Workers, Works(k, w)
    PROVE  Grounded'
<1> PICK r : r = Res(k, w)
  OBVIOUS
<1>1. /\ Typed /\ Typed'
      /\ known \intersect Volumes \subseteq filled
      /\ \A v \in exists \intersect Volumes : v \in filled \/ Filling(v)
      /\ \A s \in exists \intersect Services : Volumes \intersect Needs(s) \subseteq filled
  BY WorkTyped DEF Base, Grounded
<1>2. Busy(k, w) => Tasked(k, w)
  BY DEF Base, Tasks
<1>3. \A v : Filling(v) /\ ~(Busy(k, w) /\ runs[k].worker[w].step = "fill" /\ r = v) => Filling(v)'
  BY StillFilling
<1>4. Busy(k, w) => r \in Resources
  BY BusyHas DEF Base
<1> USE DEF Doing, Busy, server, Command, Act, PhaseOf
<1>5. CASE \/ Receive(k, w) \/ Cancel(k, w) \/ StartNetwork(k, w) \/ StartVolume(k, w)
           \/ DependencySeen(k, w) \/ HealthSeen(k, w) \/ StopBegins(k, w) \/ PowerOff(k, w)
           \/ StartBegins(k, w) \/ PowerOn(k, w) \/ LookupFails(k, w) \/ WaitTimesOut(k, w)
           \/ TaskFails(k, w)
  <2>1. known' \subseteq known /\ UNCHANGED <<exists, filled>>
    BY <1>5 DEF Receive, Cancel, StartNetwork, StartVolume, DependencySeen, HealthSeen, StopBegins,
       PowerOff, StartBegins, PowerOn, LookupFails, WaitTimesOut, TaskFails
  <2>2. ~(Busy(k, w) /\ runs[k].worker[w].step = "fill" /\ r \in Volumes)
    <3> SUFFICES ASSUME Busy(k, w), runs[k].worker[w].step = "fill" PROVE FALSE
      OBVIOUS
    <3>1. Act(k) = "ensure"
      BY <1>2, StepAct
    <3>2. QED
      BY <1>5, <3>1 DEF Receive, Cancel, StartNetwork, StartVolume, DependencySeen, HealthSeen,
         StopBegins, PowerOff, StartBegins, PowerOn, LookupFails, WaitTimesOut, TaskFails
  <2>3. QED
    BY <1>1, <1>3, <2>1, <2>2 DEF Grounded
<1>6. CASE Lookup(k, w)
  <2>1. known' = known \union ({r} \intersect exists) /\ UNCHANGED <<exists, filled>>
        /\ Busy(k, w) /\ Act(k) = "lookup" /\ runs[k].worker[w].step # "fill"
    BY <1>6 DEF Lookup
  <2>2. r \in exists \intersect Volumes => r \in filled
    BY <2>1, MetWhole
  <2>3. QED
    BY <1>1, <1>3, <2>1, <2>2 DEF Grounded
<1>7. CASE Delete(k, w)
  <2>1. /\ Busy(k, w) /\ runs[k].worker[w].step # "fill" /\ known' = known \ {r}
        /\ \/ UNCHANGED <<exists, filled>>
           \/ r \in known /\ ~InUse(r) /\ exists' = exists \ {r} /\ filled' = filled \ {r}
    BY <1>7 DEF Delete
  <2>2. ASSUME NEW s \in exists' \intersect Services PROVE Volumes \intersect Needs(s) \subseteq filled'
    <3>1. SUFFICES ASSUME r \in Volumes \intersect Needs(s), ~InUse(r) PROVE FALSE
      BY <1>1, <2>1, <2>2
    <3>2. s \in exists /\ s # r /\ r \in ToSet(ResourcesOf[s])
      BY <2>1, <3>1, Apart DEF Needs
    <3>3. QED
      BY <3>1, <3>2 DEF InUse
  <2>3. QED
    BY <1>1, <1>3, <2>1, <2>2 DEF Grounded
<1>8. CASE Ensure(k, w)
  <2>1. /\ Busy(k, w) /\ runs[k].worker[w].step # "fill" /\ Act(k) = "ensure"
        /\ r \notin Volumes \ exists /\ filled' = filled
        /\ \/ UNCHANGED <<known, exists>>
           \/ /\ r \in exists \/ Needs(r) \subseteq known
              /\ known' = known \union {r} /\ exists' = exists \union {r}
    BY <1>8 DEF Ensure
  <2>2. r \in Volumes => r \in filled
    BY <2>1, MetWhole
  <2>3. ASSUME NEW s \in exists' \intersect Services PROVE Volumes \intersect Needs(s) \subseteq filled'
    BY <1>1, <2>1, <2>3
  <2>4. QED
    BY <1>1, <1>3, <2>1, <2>2, <2>3 DEF Grounded
<1>9. CASE CreateVolume(k, w)
  <2>1. /\ Busy(k, w) /\ runs[k].worker[w].step # "fill" /\ Steps(k, w, "fill", {})
        /\ exists' = exists \union {r} /\ r \in Volumes /\ UNCHANGED <<known, filled>>
    BY <1>9 DEF CreateVolume
  <2>2. Filling(r)'
    <3>1. {} \in SUBSET Resources /\ "fill" \in {"begin", "power", "fill", "deps", "health"}
      OBVIOUS
    <3>2. Busy(k, w)' /\ Res(k, w)' = r /\ runs'[k].worker[w].step = "fill"
      BY <2>1, <3>1, TaskEffect DEF Base
    <3>3. DOMAIN runs' = DOMAIN runs
      BY WorkKeeps DEF Base
    <3>4. QED
      BY <3>2, <3>3 DEF Filling
  <2>3. QED
    BY <1>1, <1>3, <2>1, <2>2, Apart DEF Grounded
<1>10. CASE FillVolume(k, w)
  BY <1>1, <1>3, <1>10 DEF FillVolume, Grounded
<1>11. CASE FillFails(k, w)
  <2>1. /\ Busy(k, w) /\ runs[k].worker[w].step = "fill"
        /\ exists' = exists \ {r} /\ UNCHANGED <<known, filled>>
    BY <1>1, <1>11, DeployAssumption DEF FillFails, Typed, DeployAssumption
  <2>2. r \notin filled
    BY <2>1, Filler
  <2>3. QED
    BY <1>1, <1>3, <2>1, <2>2 DEF Grounded
<1>12. QED
  BY <1>5, <1>6, <1>7, <1>8, <1>9, <1>10, <1>11 DEF Works, Task

(* What exists is whole, or being filled, whatever the next step is. *)
LEMMA GroundedStep ==
    ASSUME Base, Grounded, [Next]_vars
    PROVE  Grounded'
<1>1. Typed /\ PoolInv
  BY DEF Base
<1>2. SUFFICES ASSUME MaxFaults < 2 PROVE Grounded'
  BY DEF Grounded
<1>3. CASE NextRun /\ runs' # runs
  <2>1. (known' = known \/ known' = {}) /\ UNCHANGED <<exists, filled>>
    BY <1>3 DEF NextRun, server
  <2>2. \A v : Filling(v) => Filling(v)'
    <3>1. Current' = Current + 1 /\ \A j \in DOMAIN runs : runs'[j] = runs[j]
      BY <1>1, <1>3, NextPool
    <3>2. DOMAIN runs \subseteq DOMAIN runs'
      BY <1>1, <1>3, <3>1, NextPool DEF PoolInv, Current
    <3>3. QED
      BY <3>1, <3>2 DEF Filling, Busy, Res
  <2>3. QED
    BY <1>2, <2>1, <2>2 DEF Grounded
<1>4. CASE OpenBatch \/ CloseBatch
  <2>1. /\ DOMAIN runs' = DOMAIN runs /\ UNCHANGED <<known, exists, filled>>
        /\ \A j \in DOMAIN runs, v \in Workers : Busy(j, v) => runs'[j].worker[v] = runs[j].worker[v]
    BY <1>1, <1>4, BatchKeeps DEF server
  <2>2. \A v : Filling(v) => Filling(v)'
    BY <2>1 DEF Filling, Busy, Res
  <2>3. QED
    BY <1>2, <2>1, <2>2 DEF Grounded
<1>5. CASE \E k \in DOMAIN runs, w \in Workers : Works(k, w)
  BY <1>2, <1>5, WorkGrounded
<1>6. CASE Aside
  <2>1. UNCHANGED <<runs, known, exists, filled>>
    BY <1>1, <1>6, AsideKeeps
  <2>2. QED
    BY <2>1 DEF Grounded, Filling, Busy, Res
<1>7. QED
  BY <1>3, <1>4, <1>5, <1>6, Cases

(* What a step does to the volumes that are whole. *)
LEMMA WholeStay ==
    ASSUME Base, [Next]_vars, plan # "purge"
    PROVE  filled \subseteq exists'
<1>1. Typed /\ PoolInv /\ filled \subseteq Volumes \intersect exists
  BY DEF Base, Typed
<1>2. SUFFICES ASSUME exists' # exists PROVE filled \subseteq exists'
  BY <1>1
<1>3. PICK k \in DOMAIN runs, w \in Workers : Works(k, w)
  <2>1. ~(OpenBatch \/ CloseBatch)
    BY <1>2 DEF OpenBatch, CloseBatch, server
  <2>2. ~NextRun
    BY <1>2 DEF NextRun, server
  <2>3. ~Aside
    BY <1>1, <1>2, AsideKeeps
  <2>4. QED
    BY <2>1, <2>2, <2>3, Cases
<1>4. CASE Delete(k, w)
  <2>1. Busy(k, w) /\ Act(k) = "delete" /\ exists \ {Res(k, w)} \subseteq exists'
    BY <1>2, <1>4 DEF Delete, Doing, Busy, Act, PhaseOf
  <2>2. Res(k, w) \in runs[k].members /\ Scoped(k)
    BY <1>1, <2>1, BusyHas DEF Base, Tasks
  <2>3. Res(k, w) \notin Volumes
    BY <2>1, <2>2 DEF Scoped
  <2>4. QED
    BY <1>1, <2>1, <2>3
<1>5. CASE FillFails(k, w)
  <2>1. Busy(k, w) /\ runs[k].worker[w].step = "fill" /\ exists \ {Res(k, w)} \subseteq exists'
    BY <1>5 DEF FillFails, Doing, Busy
  <2>2. QED
    BY <1>1, <2>1, Filler
<1>6. CASE ~Delete(k, w) /\ ~FillFails(k, w)
  <2>1. exists \subseteq exists'
    BY <1>3, <1>6 DEF Works, Task, Receive, Cancel, Lookup, LookupFails, StopBegins, PowerOff, Ensure,
       CreateVolume, FillVolume, StartNetwork, StartVolume, StartBegins, DependencySeen, PowerOn,
       HealthSeen, WaitTimesOut, TaskFails, server
  <2>2. QED
    BY <1>1, <2>1
<1>7. QED
  BY <1>4, <1>5, <1>6

(* What a step starts: a service the client has read or ic-healthd watches. *)
LEMMA StartedBy ==
    ASSUME Base, [Next]_vars, NEW i \in running' \ running
    PROVE  /\ i \in exists \intersect Services
           /\ \/ RestartDue(i) /\ i \in queued
              \/ \E k \in DOMAIN runs, w \in Workers :
                    Busy(k, w) /\ runs[k].worker[w].step = "deps" /\ Res(k, w) = i /\ PowerOn(k, w)
<1>1. Typed /\ PoolInv
  BY DEF Base
<1>2. CASE NextRun \/ OpenBatch \/ CloseBatch
  BY <1>2 DEF NextRun, OpenBatch, CloseBatch, server
<1>3. CASE Aside
  <2>1. PICK s \in Services : Verdict(s) \/ ReportsStop(s) \/ RestartDue(s)
    <3>1. running' # running
      OBVIOUS
    <3>2. ~(CommandEnds \/ BetweenRunsFails \/ Done \/ UNCHANGED vars \/ NextRun)
      BY <3>1 DEF CommandEnds, BetweenRunsFails, Done, vars, server, NextRun
    <3>3. QED
      BY <1>3, <3>2 DEF Aside
  <2>2. RestartDue(s) /\ s = i
    BY <2>1 DEF Verdict, ReportsStop, RestartDue, Healthd
  <2>3. i \in queued /\ i \in exists
    BY <1>1, <2>2 DEF RestartDue, Typed
  <2>4. QED
    BY <2>1, <2>2, <2>3
<1>4. CASE \E k \in DOMAIN runs, w \in Workers : Works(k, w)
  <2>1. PICK k \in DOMAIN runs, w \in Workers : Works(k, w)
    BY <1>4
  <2>2. PowerOn(k, w)
    BY <2>1 DEF Works, Task, Receive, Cancel, Lookup, LookupFails, StopBegins, PowerOff, Delete, Ensure,
       CreateVolume, FillVolume, FillFails, StartNetwork, StartVolume, StartBegins, DependencySeen,
       HealthSeen, WaitTimesOut, TaskFails, server
  <2>3. /\ Busy(k, w) /\ runs[k].worker[w].step = "deps" /\ Act(k) = "start" /\ Res(k, w) = i
    BY <2>2 DEF PowerOn, Doing, Busy, Act, PhaseOf
  <2>4. Tasked(k, w)
    BY <2>3 DEF Base, Tasks
  <2>5. i \in known \intersect Services
    BY <2>3, <2>4 DEF Tasked
  <2>6. QED
    BY <1>1, <2>2, <2>3, <2>5 DEF Typed
<1>5. QED
  BY <1>2, <1>3, <1>4, Cases

(* Nothing but `down --volumes` takes a volume that has been filled,       *)
(* whatever fails (Stack.filterResources, StorageVolume.Delete).           *)
THEOREM VolumesStay ==
    Spec => [][plan # "purge" => filled \subseteq exists']_vars
<1>1. Base /\ [Next]_vars => (plan # "purge" => filled \subseteq exists')
  BY WholeStay
<1>2. QED
  BY <1>1, Based, PTL DEF Spec

(* And where the server does not fail twice, so that a volume whose        *)
(* prefetch has failed is taken back, nothing is started on a volume that  *)
(* lacks what its image has for it (StorageVolume.Ensure).                 *)
THEOREM DataStays ==
    ASSUME MaxFaults < 2
    PROVE  Spec => DataKept
<1>1. Init => Grounded
  <2>1. Init => filled = exists \intersect Volumes /\ known = {} /\ exists \in {{}, Volumes, Resources}
    BY DEF Init
  <2>2. Init => (exists \intersect Services # {} => exists = Resources)
    BY <2>1, Apart
  <2>3. QED
    BY <2>1, <2>2, Apart DEF Grounded
<1>2. Base /\ Grounded /\ [Next]_vars => Grounded'
  BY GroundedStep
<1>3. Base /\ Grounded /\ [Next]_vars =>
         [/\ plan # "purge" => filled \subseteq exists'
          /\ \A i \in running' \ running : Volumes \intersect Needs(i) \subseteq filled]_vars
  <2> SUFFICES ASSUME Base, Grounded, [Next]_vars
               PROVE  /\ plan # "purge" => filled \subseteq exists'
                      /\ \A i \in running' \ running : Volumes \intersect Needs(i) \subseteq filled
    OBVIOUS
  <2>1. plan # "purge" => filled \subseteq exists'
    BY WholeStay
  <2>2. ASSUME NEW i \in running' \ running PROVE Volumes \intersect Needs(i) \subseteq filled
    <3>1. i \in exists \intersect Services
      BY <2>2, StartedBy
    <3>2. QED
      BY <3>1 DEF Grounded
  <2>3. QED
    BY <2>1, <2>2
<1>4. QED
  BY <1>1, <1>2, <1>3, Based, PTL DEF Spec, DataKept

-----------------------------------------------------------------------------
(* The dependencies. *)

(* A wait for dependencies is part of the current run, a deployment's. *)
LEMMA WaitsInStart ==
    ASSUME Base, NEW j \in DOMAIN runs, NEW u \in Workers, Busy(j, u), runs[j].worker[u].step = "deps"
    PROVE  /\ j = Current /\ Act(j) = "start"
           /\ Res(j, u) \in Services /\ runs[j].worker[u].left \subseteq DependsOn[Res(j, u)]
<1>1. Tasked(j, u)
  BY DEF Base, Tasks
<1>2. Act(j) = "start" /\ Res(j, u) \in Services /\ runs[j].worker[u].left \subseteq DependsOn[Res(j, u)]
  BY <1>1, StepAct DEF Tasked
<1>3. QED
  BY <1>2, StartIsLast DEF Base

(* A wait counts healthy verdicts alone, and they stay while it lasts. *)
LEMMA WorkVerdicts ==
    ASSUME Base, Verdicts, NEW k \in DOMAIN runs, NEW w \in Workers, Works(k, w)
    PROVE  Verdicts'
<1> PICK r : r = Res(k, w)
  OBVIOUS
<1>1. /\ Typed /\ PoolInv /\ label \ late \subseteq running
      /\ \A j \in DOMAIN runs, u \in Workers :
            Busy(j, u) /\ runs[j].worker[u].step = "deps"
                => DependsOn[Res(j, u)] \ (runs[j].worker[u].left \union late) \subseteq label
  BY DEF Base, Verdicts
<1>2. Busy(k, w) => Tasked(k, w)
  BY DEF Base, Tasks
<1>3. /\ label' \ late' \subseteq running' /\ late \subseteq late'
      /\ label' = label \/ (Busy(k, w) /\ Act(k) \in {"stop", "delete"})
  <2> USE DEF Doing, Busy, server, Command, Act, PhaseOf
  <2>1. CASE PowerOff(k, w)
    BY <1>1, <2>1 DEF PowerOff
  <2>2. CASE Delete(k, w)
    BY <1>1, <2>2 DEF Delete
  <2>3. CASE ~PowerOff(k, w) /\ ~Delete(k, w)
    <3>1. label' = label /\ late' = late /\ running \subseteq running'
      BY <2>3 DEF Works, Task, Receive, Cancel, Lookup, LookupFails, StopBegins, Ensure,
         CreateVolume, FillVolume, FillFails, StartNetwork, StartVolume, StartBegins, DependencySeen,
         PowerOn, HealthSeen, WaitTimesOut, TaskFails
    <3>2. QED
      BY <1>1, <3>1
  <2>4. QED
    BY <2>1, <2>2, <2>3
<1>4. ASSUME NEW j \in DOMAIN runs', NEW u \in Workers, Busy(j, u)', runs'[j].worker[u].step = "deps"
      PROVE  DependsOn[Res(j, u)'] \ (runs'[j].worker[u].left \union late') \subseteq label'
  <2>1. j \in DOMAIN runs
    BY <1>1, WorkKeeps
  <2>2. CASE j # k \/ u # w
    <3>1. runs'[j].worker[u] = runs[j].worker[u]
      BY <1>1, <2>1, <2>2, WorkKeeps
    <3>2. Busy(j, u) /\ runs[j].worker[u].step = "deps" /\ Res(j, u)' = Res(j, u)
      BY <1>4, <3>1 DEF Busy, Res
    <3>3. j = Current /\ Act(j) = "start"
      BY <2>1, <3>2, WaitsInStart
    <3>4. Busy(k, w) => k = Current \/ Act(k) = "lookup"
      BY <1>1, OnlyCurrent DEF Busy
    <3>5. label' = label
      BY <1>3, <3>3, <3>4
    <3>6. QED
      BY <1>1, <1>3, <2>1, <3>1, <3>2, <3>5
  <2>3. CASE j = k /\ u = w
    <3>1. Busy(k, w)' /\ runs'[k].worker[w].step = "deps"
      BY <1>4, <2>3
    <3>2. ~Receive(k, w) /\ ~Cancel(k, w)
      <4>1. Receive(k, w) \/ Cancel(k, w) => ~(runs'[k].worker[w].at = "busy" /\ runs'[k].worker[w].step = "deps")
        <5> PICK R : R = runs[k]
          OBVIOUS
        <5>1. R \in Run /\ R.worker \in [Workers -> Worker] /\ runs \in Seq(Run)
          BY <1>1 DEF PoolInv, Pooled, Formed, Run
        <5>2. CASE Cancel(k, w)
          <6>1. runs'[k] = Cancelled(R, w)
            BY <5>1, <5>2 DEF Cancel, Rewrite
          <6>2. Cancelled(R, w).worker[w].at = "gone"
            BY <5>1, Resting DEF Cancelled, Run
          <6>3. QED
            BY <6>1, <6>2
        <5>3. CASE Receive(k, w) /\ runs'[k] = Left(R, w)
          <6>1. Left(R, w).worker[w].at = "gone"
            BY <5>1, Resting DEF Left, Run
          <6>2. QED
            BY <5>3, <6>1
        <5>4. CASE Receive(k, w) /\ runs'[k] # Left(R, w)
          <6>1. PICK q : Rewrite(k, Received(R, w, q))
            BY <5>1, <5>4 DEF Receive, Rewrite
          <6>2. runs'[k] = Received(R, w, q)
            BY <5>1, <6>1 DEF Rewrite
          <6>3. Received(R, w, q).worker[w].step = "begin"
            BY <5>1 DEF Received, Run, AtRest
          <6>4. QED
            BY <6>2, <6>3
        <5>5. QED
          BY <5>2, <5>3, <5>4
      <4>2. QED
        BY <3>1, <4>1 DEF Busy
    <3>3. Busy(k, w) /\ InTask(k, w)
      BY <1>1, <3>2, TaskSteps
    <3>4. PICK step \in {"begin", "power", "fill", "deps", "health"}, left \in SUBSET Resources :
              Steps(k, w, step, left)
      BY <1>1, <3>1, <3>3, TaskEffect DEF InTask
    <3>5. /\ step = "deps" /\ runs'[k].worker[w].left = left /\ Res(k, w)' = r
          /\ ~Ends(k, w) /\ ~Fails(k, w)
      BY <1>1, <3>1, <3>3, <3>4, TaskEffect
    <3>6. StartBegins(k, w) \/ DependencySeen(k, w)
      <4>1. {} \in SUBSET Resources
        OBVIOUS
      <4>2. ~Steps(k, w, "power", {}) /\ ~Steps(k, w, "fill", {}) /\ ~Steps(k, w, "health", {})
        BY <1>1, <3>1, <3>3, <4>1, TaskEffect
      <4>3. QED
        BY <3>2, <3>5, <4>2 DEF Works, Task, Lookup, LookupFails, StopBegins, PowerOff, Delete, Refused,
           Ensure, CreateVolume, FillVolume, FillFails, StartNetwork, StartVolume, PowerOn, HealthSeen,
           WaitTimesOut, TaskFails
    <3>7. CASE StartBegins(k, w)
      <4>1. r \in Services /\ Steps(k, w, "deps", DependsOn[r]) /\ DependsOn[r] \in SUBSET Resources
        BY <3>5, <3>7, Apart DEF StartBegins
      <4>2. runs'[k].worker[w].left = DependsOn[r]
        BY <1>1, <3>3, <4>1, TaskEffect
      <4>3. QED
        BY <2>3, <3>5, <4>2
    <3>8. CASE DependencySeen(k, w)
      <4> PICK rest : rest = runs[k].worker[w].left
        OBVIOUS
      <4>1. PICK d \in label : Steps(k, w, "deps", rest \ {d})
        BY <3>8 DEF DependencySeen
      <4>2. rest \in SUBSET Resources
        BY <1>1 DEF PoolInv, Pooled, Formed, Run, Worker
      <4>3. rest \ {d} \in SUBSET Resources
        BY <4>2
      <4>4. runs'[k].worker[w].left = rest \ {d}
        BY <1>1, <3>3, <4>1, <4>3, TaskEffect
      <4>5. /\ runs[k].worker[w].step = "deps" /\ label' = label
        BY <3>8 DEF DependencySeen, Doing, server
      <4>6. DependsOn[r] \ (rest \union late) \subseteq label
        BY <1>1, <3>3, <4>5
      <4>7. DependsOn[r] \ ((rest \ {d}) \union late') \subseteq label'
        BY <1>3, <4>1, <4>5, <4>6
      <4>8. QED
        BY <2>3, <3>5, <4>4, <4>7
    <3>9. QED
      BY <3>6, <3>7, <3>8
  <2>4. QED
    BY <2>2, <2>3
<1>5. QED
  BY <1>3, <1>4 DEF Verdicts

(* A verdict stands while its instance runs, whatever the next step is. *)
LEMMA VerdictsStep ==
    ASSUME Base, Verdicts, [Next]_vars
    PROVE  Verdicts'
<1>1. Typed /\ PoolInv
  BY DEF Base
<1>2. /\ label \ late \subseteq running
      /\ \A j \in DOMAIN runs, u \in Workers :
            Busy(j, u) /\ runs[j].worker[u].step = "deps"
                => DependsOn[Res(j, u)] \ (runs[j].worker[u].left \union late) \subseteq label
  BY DEF Verdicts
<1>4. CASE NextRun /\ runs' # runs
  <2>1. UNCHANGED <<label, running, late>>
    BY <1>4 DEF NextRun, server
  <2>2. /\ Current' = Current + 1 /\ \A j \in DOMAIN runs : runs'[j] = runs[j]
        /\ runs'[Current + 1] = NewRun(Members(PhaseOf(Current + 1)), PhaseOf(Current + 1).desc,
                                       PhaseOf(Current + 1).failFast)
        /\ PoolInv'
    BY <1>1, <1>4, NextPool DEF PhaseOf
  <2>3. ASSUME NEW j \in DOMAIN runs', NEW u \in Workers, Busy(j, u)'
        PROVE  j \in DOMAIN runs /\ Busy(j, u)
    <3>1. j \in 1..(Current + 1) /\ DOMAIN runs = 1..Current /\ Current \in Nat
      <4>1. runs \in Seq(Run) /\ runs' \in Seq(Run)
        BY <1>1, <2>2 DEF PoolInv
      <4>2. DOMAIN runs = 1..Current /\ Current \in Nat /\ DOMAIN runs' = 1..Current'
        BY <4>1 DEF Current
      <4>3. QED
        BY <2>2, <4>2
    <3>2. j # Current + 1
      <4> PICK n : n = Current + 1
        OBVIOUS
      <4>1. runs'[n].worker[u].at = "gone"
        BY <2>2 DEF NewRun, AtRest
      <4>2. QED
        BY <2>3, <4>1 DEF Busy
    <3>3. QED
      BY <2>2, <2>3, <3>1, <3>2 DEF Busy
  <2>4. QED
    BY <1>2, <2>1, <2>2, <2>3 DEF Verdicts, Res
<1>5. CASE OpenBatch \/ CloseBatch
  <2>1. /\ DOMAIN runs' = DOMAIN runs /\ UNCHANGED <<label, running, late>>
        /\ \A j \in DOMAIN runs, v \in Workers : Busy(j, v)' => runs'[j].worker[v] = runs[j].worker[v]
    BY <1>1, <1>5, BatchKeeps DEF server
  <2>2. QED
    BY <1>2, <2>1 DEF Verdicts, Busy, Res
<1>6. CASE \E k \in DOMAIN runs, w \in Workers : Works(k, w)
  BY <1>6, WorkVerdicts
<1>7. CASE Aside
  <2>1. runs' = runs /\ running \subseteq running' /\ late' = late
    BY <1>1, <1>7, AsideKeeps
  <2>2. CASE \E i \in Services : Verdict(i)
    BY <1>2, <2>1, <2>2 DEF Verdict, Verdicts, Busy, Res
  <2>3. CASE \E i \in Services : ReportsStop(i)
    <3>1. PICK i \in Services : ReportsStop(i)
      BY <2>3
    <3>2. i \in late /\ label' = label \ {i}
      BY <1>2, <3>1 DEF ReportsStop
    <3>3. QED
      BY <1>2, <2>1, <3>2 DEF Verdicts, Busy, Res
  <2>4. CASE ~\E i \in Services : Verdict(i) \/ ReportsStop(i)
    <3>1. label' = label
      BY <1>7, <2>4 DEF Aside, CommandEnds, BetweenRunsFails, Done, vars, server, NextRun, RestartDue
    <3>2. QED
      BY <1>2, <2>1, <3>1 DEF Verdicts, Busy, Res
  <2>5. QED
    BY <2>2, <2>3, <2>4
<1>8. QED
  BY <1>4, <1>5, <1>6, <1>7, Cases

(* Whatever fails and whatever ic-healthd does meanwhile, no instance is   *)
(* started by a command before all it depends on run and are reported      *)
(* healthy (Instance.waitForDependencies), but for one whose verdict       *)
(* ic-healthd was late to withdraw when the command stopped it.  A restart *)
(* of ic-healthd's own (instanceRestartAction) waits for none.             *)
THEOREM StartsWait == Spec => DependenciesAwaited
<1>1. Init => Verdicts
  BY DEF Init, Verdicts
<1>2. Base /\ Verdicts /\ [Next]_vars => Verdicts'
  BY VerdictsStep
<1>3. Base /\ Verdicts /\ [Next]_vars =>
         [\A i \in running' \ running :
             runs' # runs => DependsOn[i] \ late \subseteq running \intersect label]_vars
  <2> SUFFICES ASSUME Base, Verdicts, [Next]_vars, NEW i \in running' \ running, runs' # runs
               PROVE  DependsOn[i] \ late \subseteq running \intersect label
    OBVIOUS
  <2>1. ~RestartDue(i)
    BY DEF RestartDue, Healthd
  <2>2. PICK k \in DOMAIN runs, w \in Workers :
            Busy(k, w) /\ runs[k].worker[w].step = "deps" /\ Res(k, w) = i /\ PowerOn(k, w)
    BY <2>1, StartedBy DEF Base
  <2>3. runs[k].worker[w].left = {}
    BY <2>2 DEF PowerOn, DependenciesMet
  <2>4. DependsOn[i] \ late \subseteq label
    BY <2>2, <2>3 DEF Verdicts
  <2>5. QED
    BY <2>4 DEF Verdicts
<1>4. QED
  BY <1>1, <1>2, <1>3, Based, PTL DEF Spec, DependenciesAwaited
=============================================================================
