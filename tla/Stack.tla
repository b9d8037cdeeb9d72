------------------------------- MODULE Stack -------------------------------
(***************************************************************************)
(* client.Stack and client.WorkerPool: one action run over a set of        *)
(* resources, batch by batch in the order of their priorities, each batch  *)
(* by a pool of workers that take its tasks in turn.                       *)
(*                                                                         *)
(* Nothing here is a state machine of its own: a run is a record, and each *)
(* operator says what one step of one goroutine makes of it.  Deploy puts  *)
(* the runs of a command and the tasks' own steps together.                *)
(***************************************************************************)
EXTENDS Naturals, Sequences, SequencesExt

CONSTANTS
    Resources,
    NoResource,
    Levels,      \* the priorities are 1..Levels, created first, deleted last
    Priority,
    Workers

ASSUME StackAssumption ==
    /\ Levels \in Nat /\ Priority \in [Resources -> 1..Levels]
    /\ NoResource \notin Resources /\ Workers # {}

(* A worker: about to receive, in a task, with an error it has sent but    *)
(* not yet cancelled for, or gone.  A task's own progress is step and left.*)
Worker == [at: {"idle", "busy", "failing", "gone"}, res: Resources \union {NoResource},
           step: {"begin", "power", "fill", "deps", "health"}, left: SUBSET Resources]

AtRest(at) == [at |-> at, res |-> NoResource, step |-> "begin", left |-> {}]

Run == [members: SUBSET Resources, desc: BOOLEAN, failFast: BOOLEAN,
        turn: 0..Levels, open: BOOLEAN,
        queue: SUBSET Resources, worker: [Workers -> Worker],
        errs: SUBSET Resources, cancelled: BOOLEAN,
        failed: SUBSET Resources, result: {"running", "ok", "failed"}]

-----------------------------------------------------------------------------
(* What is in the stack: lists of resources, one behind the other. *)

(* Mutant: the lists as a map yields them, here the other way round. *)
AddUnordered(order, of) == [k \in DOMAIN order |-> of[order[Len(order) + 1 - k]]]

AddOrdered(order, of) == [k \in DOMAIN order |-> of[order[k]]]

(* The same resource object must not run twice in parallel: the first of   *)
(* several counts, and a comes before b where the first list that has      *)
(* either has no b up to an a.                                             *)
Add(stack) == UNION {ToSet(stack[k]) : k \in DOMAIN stack}

Before(stack, a, b) ==
    \E k \in DOMAIN stack :
        /\ \A i \in 1..(k - 1) : {a, b} \intersect ToSet(stack[i]) = {}
        /\ \E j \in DOMAIN stack[k] : stack[k][j] = a /\ \A i \in 1..j : stack[k][i] # b

ForActionF(stack, supported, filter) == Add(stack) \intersect supported \intersect filter

(* The stable sort, cut into groups: the turn-th priority's resources.  A  *)
(* priority nobody has is a batch that ends at once.                       *)
Batch(run, turn) ==
    {r \in run.members : Priority[r] = IF run.desc THEN Levels + 1 - turn ELSE turn}

(* The sort is stable: a batch is handed out as its members were added. *)
InLine(run, stack) == {r \in run.queue : \A q \in run.queue \ {r} : Before(stack, r, q)}

-----------------------------------------------------------------------------
(* What one step makes of a run. *)

NewRun(members, desc, failFast) ==
    [members |-> members, desc |-> desc, failFast |-> failFast,
     turn |-> 0, open |-> FALSE, queue |-> {}, worker |-> [w \in Workers |-> AtRest("gone")],
     errs |-> {}, cancelled |-> FALSE, failed |-> {}, result |-> "running"]

BetweenBatches(run) == run.result = "running" /\ ~run.open

(* runBatch fills the channel of tasks and starts the workers. *)
BatchOpened(run) ==
    [run EXCEPT !.turn = run.turn + 1, !.open = TRUE,
                !.queue = Batch(run, run.turn + 1),
                !.worker = [w \in Workers |-> AtRest("idle")],
                !.errs = {}, !.cancelled = FALSE]

(* A worker receives; it looks for a cancellation with the task in hand,   *)
(* and on an empty channel, which is closed, it leaves.                    *)
Received(run, w, r) ==
    [run EXCEPT !.queue = @ \ {r},
                !.worker[w] = IF run.cancelled THEN AtRest("gone")
                              ELSE [AtRest("busy") EXCEPT !.res = r]]

Left(run, w) == [run EXCEPT !.worker[w] = AtRest("gone")]

Succeeded(run, w) == [run EXCEPT !.worker[w] = AtRest("idle")]

(* The error is on its way before the other workers are cancelled. *)
Errored(run, w) ==
    [run EXCEPT !.errs = run.errs \union {run.worker[w].res},
                !.worker[w] = AtRest(IF run.failFast THEN "failing" ELSE "idle")]

Cancelled(run, w) == [run EXCEPT !.cancelled = TRUE, !.worker[w] = AtRest("gone")]

AllGone(run) == \A w \in Workers : run.worker[w].at = "gone"

(* Mutant: the pool does not wait for its workers, only for its tasks to   *)
(* be taken.                                                               *)
BatchTaken(run) == run.open /\ run.result = "running"
                   /\ (run.queue = {} \/ (run.failFast /\ run.errs # {}))

(* The pool returns: on the first error at once, with other tasks still    *)
(* running, else when every worker has gone.                               *)
BatchOver(run) == run.open /\ run.result = "running"
                  /\ (AllGone(run) \/ (run.failFast /\ run.errs # {}))

(* Mutant: without FailFast only the last batch's errors count. *)
BatchClosedLast(run) ==
    [run EXCEPT !.open = FALSE, !.failed = run.errs,
                !.result = IF run.failFast /\ run.errs # {} THEN "failed" ELSE "running"]

BatchClosed(run) ==
    [run EXCEPT !.open = FALSE, !.failed = run.failed \union run.errs,
                !.result = IF run.failFast /\ run.errs # {} THEN "failed" ELSE "running"]

RunOver(run) == [run EXCEPT !.result = IF run.failed = {} THEN "ok" ELSE "failed"]

=============================================================================
