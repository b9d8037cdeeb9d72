----------------------------- MODULE EventChain -----------------------------
(***************************************************************************)
(* The chain that keeps ic-dns in step with an Incus server: the source's  *)
(* sessions, the enricher's loop with its pool of reads and its sweeper,   *)
(* and what the plugin behind it has been told.                            *)
(*                                                                         *)
(* The server changes on its own; an event says that something changed and *)
(* never what, so everything hangs on reads that overlap with changes.     *)
(***************************************************************************)
EXTENDS Enricher, FiniteSets

CONSTANTS
    Contents,     \* what an instance may be configured as
    Kinds,        \* bound: the changes that happen on the server
    InboxSize,
    CommandBuffer,
    MaxLine,      \* bound: the line a round may be added to
    MaxChanges,   \* bounds: changes on the server; breaks of the stream and
    MaxTroubles   \* calls to the server that fail, together

ASSUME ChainAssumption ==
    /\ Contents \subseteq Nat /\ InboxSize \in Nat \ {0} /\ CommandBuffer \in Nat \ {0}
    /\ DueCap \in Nat \ {0} /\ MaxLine \in Nat \ {0} /\ MaxChanges \in Nat /\ MaxTroubles \in Nat
    /\ Workers # {} /\ IsFiniteSet(Workers) /\ IsFiniteSet(Instances)
    /\ Net # Prj /\ {Net, Prj, None} \intersect Instances = {}
    /\ None \notin Said \union Call \union Event \union [c: Nat, up: BOOLEAN]

VARIABLES
    srv, subnet,   \* the server: its instances and its network
    connected, chain, raised,  \* the source: a session is open, the state it
                   \* stamps, the sweep-ends the enricher has raised
    inbox, e,      \* the enricher's inbox and its loop
    sw, stray,     \* the sweeper, and what one that was stopped still says
    view, healthy, \* the plugin behind: what it was told, and of a whole round
    stayed,        \* history: there from the start, and never deleted
    lost,          \* history: an event did not get through
    changes, breaks, faults

world == <<srv, subnet, stayed, changes>>
source == <<connected, chain, raised, breaks>>
vars == <<world, source, inbox, e, sw, stray, view, healthy, lost, faults>>

Gone == None
Running == [c: Contents, up: BOOLEAN]

(* Where a run of the sweeper is: about to ask, or with something to say.  *)
(* The projects and the networks' names are listed where they are said: in *)
(* this model they never change.                                           *)
Asking == {"networks", "instances", "trickle", "rest"}
Saying == {"projects", "network", "warm", "listing", "done"}

Sweeper == [at: Asking \union Saying, names: SUBSET Instances, net: 0..2]
NewRun == [at |-> "projects", names |-> {}, net |-> 0]

(* Every part of the chain's state is well typed. *)
TypeOK ==
    /\ srv \in [Instances -> Running \union {Gone}] /\ subnet \in 1..2
    /\ connected \in BOOLEAN /\ chain \in {"cold", "warm"} /\ raised \in 0..CommandBuffer
    /\ inbox \in Seq(Event) /\ Len(inbox) <= InboxSize
    /\ e \in Loop /\ e.owed \in 0..1 /\ Len(e.results) <= Cardinality(Workers)
    /\ sw \in Sweeper /\ stray \in Sweeper \union {None}
    /\ view \in [Instances -> Said \union {None}] /\ healthy \in BOOLEAN
    /\ stayed \subseteq Instances /\ lost \in BOOLEAN
    /\ changes \in 0..MaxChanges /\ breaks \in 0..MaxTroubles /\ faults \in 0..MaxTroubles

(* The process starts against a server that may have instances; the loop   *)
(* has just taken in that the first session is open.                       *)
Init ==
    /\ srv \in [Instances -> [c: {1}, up: {TRUE}] \union {Gone}] /\ subnet = 1
    /\ connected = TRUE /\ chain = "cold" /\ raised = 0
    /\ inbox = <<>> /\ e = NewLoop
    /\ sw = NewRun /\ stray = None
    /\ view = [i \in Instances |-> None] /\ healthy = FALSE
    /\ stayed = {i \in Instances : srv[i] # Gone} /\ lost = FALSE
    /\ changes = 0 /\ breaks = 0 /\ faults = 0

-----------------------------------------------------------------------------
(* The plugin behind folds what it is told; only of an instance that was   *)
(* read does it learn anything.                                            *)

Folded(v, ev) ==
    IF ev.who = None \/ ev.failed THEN v
    ELSE IF ev.act = "deleted" THEN [v EXCEPT ![ev.who] = None]
    ELSE IF ev.data # None THEN [v EXCEPT ![ev.who] = ev.data] ELSE v

Health(h, ev) == IF ev.act = "sweep-end" THEN TRUE ELSE IF ev.act = "disconnected" THEN FALSE ELSE h

(* The loop's step ends by handing on what may leave. *)
HandOn(s) ==
    /\ e' = Released(s)
    /\ view' = FoldLeft(LAMBDA v, it : IF it.st = "go" THEN Folded(v, it.ev) ELSE v, view, Leaving(s))
    /\ healthy' = FoldLeft(LAMBDA h, it : IF it.st = "go" THEN Health(h, it.ev) ELSE h, healthy, Leaving(s))

(* Handle: a full inbox hands the event on at once, as dropped; the plugin *)
(* behind takes a dropped session event or round end for one all the same. *)
Handle(ev) ==
    IF Len(inbox) < InboxSize
    THEN inbox' = Append(inbox, ev) /\ UNCHANGED <<healthy, lost>>
    ELSE healthy' = Health(healthy, ev) /\ lost' = TRUE /\ UNCHANGED inbox

-----------------------------------------------------------------------------
(* The server. *)

Change(kind) == kind \in Kinds /\ changes < MaxChanges /\ changes' = changes + 1

Announce(ev) ==
    IF connected THEN Handle(ev) ELSE lost' = TRUE /\ UNCHANGED <<inbox, healthy>>

Apart == <<source, e, sw, stray, view, faults>>

Start(i) ==
    /\ srv[i] = Gone /\ Change("start")
    /\ \E c \in Contents : srv' = [srv EXCEPT ![i] = [c |-> c, up |-> FALSE]]
    /\ Announce(NewEvent("started", i))
    /\ UNCHANGED <<Apart, subnet, stayed>>

Update(i) ==
    /\ srv[i] # Gone /\ Change("update")
    /\ \E c \in Contents \ {srv[i].c} : srv' = [srv EXCEPT ![i].c = c]
    /\ Announce(NewEvent("updated", i))
    /\ UNCHANGED <<Apart, subnet, stayed>>

(* A lease is announced by nobody. *)
Lease(i) ==
    /\ srv[i] # Gone /\ ~srv[i].up
    /\ srv' = [srv EXCEPT ![i].up = TRUE]
    /\ UNCHANGED <<Apart, subnet, stayed, changes, inbox, healthy, lost>>

Delete(i) ==
    /\ srv[i] # Gone /\ Change("delete")
    /\ srv' = [srv EXCEPT ![i] = Gone] /\ stayed' = stayed \ {i}
    /\ Announce(NewEvent("deleted", i))
    /\ UNCHANGED <<Apart, subnet>>

(* A profile's change is in every instance, and names none. *)
Profile ==
    /\ Change("profile")
    /\ \E c \in Contents :
          srv' = [i \in Instances |-> IF srv[i] = Gone THEN Gone ELSE [srv[i] EXCEPT !.c = c]]
    /\ Announce(NewEvent("profile", None))
    /\ UNCHANGED <<Apart, subnet, stayed>>

(* A restart is announced like a start, and the address is gone until the  *)
(* next lease.                                                             *)
Restart(i) ==
    /\ srv[i] # Gone /\ Change("restart")
    /\ srv' = [srv EXCEPT ![i].up = FALSE]
    /\ Announce(NewEvent("started", i))
    /\ UNCHANGED <<Apart, subnet, stayed>>

Subnet ==
    /\ Change("subnet") /\ subnet' = 3 - subnet
    /\ Announce(NewEvent("network", None))
    /\ UNCHANGED <<Apart, srv, stayed>>

-----------------------------------------------------------------------------
(* The source. *)

Disconnect ==
    /\ connected /\ breaks + faults < MaxTroubles /\ breaks' = breaks + 1
    /\ connected' = FALSE /\ chain' = "cold"
    /\ Handle(NewEvent("disconnected", None))
    /\ UNCHANGED <<world, raised, e, sw, stray, view, faults>>

Connect ==
    /\ ~connected /\ connected' = TRUE
    /\ Handle(NewEvent("connected", None))
    /\ UNCHANGED <<world, chain, raised, breaks, e, sw, stray, view, faults>>

(* A command is taken in a session and between two alike. *)
Apply ==
    /\ raised > 0 /\ raised' = raised - 1
    /\ chain' = "warm"
    /\ Handle(NewEvent("sweep-end", None))
    /\ UNCHANGED <<world, connected, breaks, e, sw, stray, view, faults>>

-----------------------------------------------------------------------------
(* The pool's workers. *)

Fault == breaks + faults < MaxTroubles /\ faults' = faults + 1
Reading(w, at) == e.worker[w].at = at /\ e.worker[w].live
Pool == <<world, source, inbox, sw, stray, view, healthy, lost>>

Deliver(w, ans) ==
    /\ Len(e.results) < Cardinality(Workers)
    /\ LET res == [key |-> e.worker[w].key, live |-> e.worker[w].live, ans |-> ans]
       IN  e' = [e EXCEPT !.worker[w] = Idle, !.results = Append(@, res)]

GetInstance(w) ==
    LET i == e.worker[w].key IN
    /\ Reading(w, "reading") /\ i \in Instances
    /\ IF srv[i] = Gone THEN Deliver(w, NotFound)
       ELSE e' = [e EXCEPT !.worker[w].at = "got", !.worker[w].got = srv[i].c]
    /\ UNCHANGED <<Pool, faults>>

(* The state is read after the instance.  One without an address is polled *)
(* until it has one or the time is up, and a poll that fails changes       *)
(* nothing; one that was starting is itself read once more.                *)
GetInstanceState(w) ==
    LET i == e.worker[w].key IN
    /\ Reading(w, "got")
    /\ IF srv[i] = Gone THEN Deliver(w, NotFound)
       ELSE IF srv[i].up THEN Deliver(w, Found(e.worker[w].got, TRUE))
       ELSE e' = [e EXCEPT !.worker[w].at = "polling"]
    /\ UNCHANGED <<Pool, faults>>

Poll(w) ==
    LET i == e.worker[w].key IN
    /\ Reading(w, "polling")
    /\ \/ /\ srv[i] # Gone /\ srv[i].up
          /\ \/ Deliver(w, Found(e.worker[w].got, TRUE))
             \/ e.calls[i].wfr /\ Deliver(w, Found(srv[i].c, TRUE))
       \/ Deliver(w, Found(e.worker[w].got, FALSE))
    /\ UNCHANGED <<Pool, faults>>

GetNetwork(w) ==
    /\ Reading(w, "reading") /\ e.worker[w].key = Net /\ Deliver(w, Found(subnet, TRUE))
    /\ UNCHANGED <<Pool, faults>>

GetProject(w) ==
    /\ Reading(w, "reading") /\ e.worker[w].key = Prj /\ Deliver(w, Found(1, TRUE))
    /\ UNCHANGED <<Pool, faults>>

(* Which of a read's calls fails makes no odds. *)
ReadFails(w) ==
    /\ Reading(w, "reading") /\ Fault /\ Deliver(w, Failed)
    /\ UNCHANGED Pool

Abandoned(w) ==
    /\ e.worker[w].at # "idle" /\ ~e.worker[w].live /\ Deliver(w, Failed)
    /\ UNCHANGED <<Pool, faults>>

-----------------------------------------------------------------------------
(* The sweeper: projects, networks, then instances, each listed and then   *)
(* said, round after round.  What fails is only logged: a listing costs    *)
(* what it would have listed.  Without the projects there is no run, which *)
(* is a run put off.                                                       *)

Outside == <<world, source, e, stray, view, healthy, lost>>
At(step) == sw' = [sw EXCEPT !.at = step]

SweepFails ==
    /\ Fault
    /\ \/ sw.at = "networks" /\ At("warm")
       \/ sw.at = "instances" /\ At("done")
    /\ UNCHANGED <<Outside, inbox>>

SweepNetworks ==
    /\ sw.at = "networks" /\ sw' = [sw EXCEPT !.at = "network", !.net = subnet]
    /\ UNCHANGED <<Outside, inbox, faults>>

SweepInstances ==
    /\ sw.at = "instances"
    /\ sw' = [sw EXCEPT !.at = "listing", !.names = {i \in Instances : srv[i] # Gone}]
    /\ UNCHANGED <<Outside, inbox, faults>>

(* One name after the other, into the inbox, which the sweeper waits for. *)
Trickle ==
    /\ sw.at = "trickle" /\ Len(inbox) < InboxSize
    /\ \E i \in sw.names :
          /\ inbox' = Append(inbox, NewEvent("updated", i))
          /\ sw' = [sw EXCEPT !.names = @ \ {i}, !.at = IF sw.names = {i} THEN "done" ELSE @]
    /\ UNCHANGED <<Outside, faults>>

(* The next run begins when the interval is over, which is long: MaxLine   *)
(* bounds what may still be in the line by then.                           *)
NextRun ==
    /\ sw.at = "rest" /\ Len(inbox) + Len(e.q) < MaxLine /\ sw' = NewRun
    /\ UNCHANGED <<Outside, inbox, faults>>

-----------------------------------------------------------------------------
(* The enricher's loop: one step per case of its select. *)

(* A run that is stopped fails in what it asks, and where it has something *)
(* to say may say it before it sees that it was stopped: also that the     *)
(* networks are all read, since a listing of them that fails is passed by. *)
Stopped(run) ==
    {None} \union
    (IF run.at \in Saying \union {"trickle"} THEN {run}
     ELSE IF run.at = "networks" THEN {[run EXCEPT !.at = "warm"]} ELSE {})

(* A session that opens stops the run where it stands and starts another. *)
TakeEvent ==
    /\ inbox # <<>> /\ inbox' = Tail(inbox)
    /\ HandOn(Accept(e, Head(inbox)))
    /\ IF Head(inbox).act = "connected" THEN sw' = NewRun /\ stray' \in Stopped(sw)
       ELSE UNCHANGED <<sw, stray>>
    /\ UNCHANGED <<world, source, lost, faults>>

(* sweepEnd puts the round's end in at the head of the chain, so that it   *)
(* comes to the plugin behind everything of the round; it waits for room.  *)
SweepEnd(s) ==
    /\ raised < CommandBuffer /\ raised' = raised + 1
    /\ HandOn([s EXCEPT !.ending = FALSE])
    /\ UNCHANGED <<connected, chain, breaks>>

Goes(s) == HandOn(s) /\ UNCHANGED source

(* What a listing leaves out goes the way an announced delete does. *)
Pruned(s, names) ==
    FoldLeft(LAMBDA t, i : Accept(t, NewEvent("deleted", i)), s, SetToSeq(MissingInstances(s, names)))

AcceptSweep(msg) ==
    \/ msg.at = "projects" /\ Goes(Send(e, Prj, FALSE, FALSE))
    \/ msg.at = "network" /\ Goes([e EXCEPT !.net = msg.net])
    \/ msg.at = "warm" /\ Goes(Flush(e))
    \/ msg.at = "listing" /\ Goes(Pruned(e, msg.names))
    \/ msg.at = "done" /\ e.owed > 0 /\ Goes([e EXCEPT !.ending = TRUE])
    \/ msg.at = "done" /\ e.owed = 0 /\ SweepEnd(e)

Onward(run) ==
    CASE run.at = "projects" -> [run EXCEPT !.at = "networks"]
      [] run.at = "network" -> [run EXCEPT !.at = "warm", !.net = 0]
      [] run.at = "warm" -> [run EXCEPT !.at = "instances"]
      [] run.at = "listing" -> [run EXCEPT !.at = IF run.names = {} THEN "done" ELSE "trickle"]
      [] run.at = "done" -> [run EXCEPT !.at = "rest"]

TakeSweep ==
    /\ sw.at \in Saying /\ AcceptSweep(sw) /\ sw' = Onward(sw)
    /\ UNCHANGED <<world, inbox, stray, lost, faults>>

TakeStray ==
    /\ stray # None
    /\ \/ /\ stray.at \in Saying /\ AcceptSweep(stray)
          /\ stray' \in {None} \union (IF stray.at \in {"projects", "listing"}
                                    THEN Stopped(Onward(stray)) ELSE {})
          /\ UNCHANGED inbox
       \/ /\ stray.at = "trickle" /\ Len(inbox) < InboxSize
          /\ \E i \in stray.names : inbox' = Append(inbox, NewEvent("updated", i))
          /\ stray' = None /\ UNCHANGED <<source, e, view, healthy>>
       \/ stray' = None /\ UNCHANGED <<source, e, view, healthy, inbox>>
    /\ UNCHANGED <<world, sw, lost, faults>>

(* Mutant: the last project read does not end the round that waits for it. *)
TakeResultNoEnd ==
    /\ e.results # <<>>
    /\ LET res == Head(e.results)
           s == [e EXCEPT !.results = Tail(@)]
       IN  Goes(IF res.live THEN SettleRead(s, res.key, res.ans) ELSE s)
    /\ UNCHANGED <<world, inbox, sw, stray, lost, faults>>

TakeResult ==
    /\ e.results # <<>>
    /\ LET res == Head(e.results)
           s == [e EXCEPT !.results = Tail(@)]
           t == SettleRead(s, res.key, res.ans)
       IN  IF ~res.live THEN Goes(s)
           ELSE IF res.key = Prj /\ t.ending /\ t.owed = 0 THEN SweepEnd(t) ELSE Goes(t)
    /\ UNCHANGED <<world, inbox, sw, stray, lost, faults>>

TakeRetry ==
    /\ \E i \in Instances : e.due[i] > 0 /\ \E t \in TakeDue(e, i) : Goes(FanOut(t, {i}))
    /\ UNCHANGED <<world, inbox, sw, stray, lost, faults>>

TakeRefused ==
    /\ e.waiting # <<>> /\ Goes(Retried(e))
    /\ UNCHANGED <<world, inbox, sw, stray, lost, faults>>

-----------------------------------------------------------------------------
ServerStep ==
    \/ \E i \in Instances : Start(i) \/ Restart(i) \/ Update(i) \/ Lease(i) \/ Delete(i)
    \/ Profile \/ Subnet

Read(w) ==
    \/ GetInstance(w) \/ GetInstanceState(w) \/ Poll(w)
    \/ GetNetwork(w) \/ GetProject(w) \/ Abandoned(w)

Sweep == SweepNetworks \/ SweepInstances \/ Trickle \/ NextRun

Next ==
    \/ ServerStep \/ Disconnect \/ Connect \/ Apply
    \/ \E w \in Workers : Read(w) \/ ReadFails(w)
    \/ Sweep \/ SweepFails
    \/ TakeEvent \/ TakeSweep \/ TakeStray \/ TakeResult \/ TakeRetry \/ TakeRefused

Spec == Init /\ [][Next]_vars

(* The goroutines run on, a select serves every case that stays ready, the *)
(* source reconnects, reads end by their timeout and intervals by the      *)
(* clock.  Of the loop's cases this is weak fairness with ENABLED spelt    *)
(* out, which TLC evaluates faster.                                        *)
Room == raised < CommandBuffer

Fairness ==
    /\ WF_vars(Connect) /\ WF_vars(Apply) /\ WF_vars(Sweep)
    /\ \A w \in Workers : WF_vars(Read(w))
    /\ <>[](inbox # <<>>) => []<><<TakeEvent>>_vars
    /\ <>[](sw.at \in Saying /\ (sw.at = "done" => e.owed > 0 \/ Room)) => []<><<TakeSweep>>_vars
    /\ <>[](e.results # <<>> /\ (e.ending => Room)) => []<><<TakeResult>>_vars
    /\ <>[](\E i \in Instances : e.due[i] > 0) => []<><<TakeRetry>>_vars
    /\ <>[](e.waiting # <<>> /\ \E w \in Workers : e.worker[w].at = "idle")
       => []<><<TakeRefused>>_vars

LiveSpec == Spec /\ Fairness

-----------------------------------------------------------------------------
(* Properties. *)

Places(k) ==
    Cardinality({j \in DOMAIN e.cold : e.cold[j] = k})
    + Cardinality({j \in DOMAIN e.pending : e.pending[j] = k})
    + Cardinality({j \in DOMAIN e.waiting : e.waiting[j] = k})
    + Cardinality({w \in Workers : e.worker[w].at # "idle" /\ e.worker[w].key = k
                                   /\ e.worker[w].live})
    + Cardinality({j \in DOMAIN e.results : e.results[j].key = k /\ e.results[j].live})

(* However reads are joined, withdrawn, held back and refused, a read that *)
(* is owed is in one place and one only, and an event that waits has one:  *)
(* else it would hold up the line behind it for ever, or be answered twice.*)
ReadsAccounted ==
    /\ \A k \in Keys : Places(k) = IF e.calls[k] = None THEN 0 ELSE 1
    /\ \A j \in DOMAIN e.q : e.q[j].st = "wait" => e.calls[e.q[j].ev.who] # None
    /\ e.owed = IF e.calls[Prj] = None THEN 0 ELSE 1

(* The plugin behind is told that a round has ended only after everything  *)
(* of it: whoever was there from the start has been told of by then.       *)
WholeBeforeReady ==
    healthy /\ faults = 0 /\ ~lost => \A i \in stayed : view[i] # None

(* An instance is never told of before what its project sets is known.     *)
ProjectFirst ==
    faults = 0 => \A i \in Instances : view[i] # None => view[i].proj

Truth(i) ==
    IF srv[i] = Gone THEN None
    ELSE [c |-> srv[i].c, up |-> srv[i].up, net |-> subnet, proj |-> TRUE]

(* What is there is told of, and right, in the end and for good: whatever  *)
(* events a break or a full inbox lost, and whatever reads found meanwhile.*)
ServesWhatIsThere ==
    <>[](\A i \in Instances : srv[i] # Gone => view[i] = Truth(i))

(* The chain warms up, and warms up again after a break.                   *)
BecomesReady == <>[](chain = "warm" /\ healthy)

=============================================================================
