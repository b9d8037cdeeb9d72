------------------------------ MODULE Enricher ------------------------------
(***************************************************************************)
(* What the enricher's loop owns: the line of events, the reads it has     *)
(* sent and not answered, the fleet as last read, and the archive of what  *)
(* was last said.  One record holds it all, and each operator says what    *)
(* one call of the loop makes of it; EventChain puts the loop, its         *)
(* goroutines and its neighbours together.                                 *)
(*                                                                         *)
(* One project with one network that all instances sit on.  A read's       *)
(* answer about an instance is its content and whether it has its address. *)
(* What is served is a whole project: no filter on instances.              *)
(***************************************************************************)
EXTENDS Integers, SequencesExt

CONSTANTS
    Instances,
    Net, Prj,   \* the keys of the network's and of the project's read
    Workers,    \* the read pool
    DueCap,     \* bound: how often one instance is due another read
    None

Keys == Instances \union {Net, Prj}

(* Nothing is said of the project before it was read, whatever it sets. *)
Said == [c: Nat, up: BOOLEAN, net: Nat, proj: BOOLEAN]

Event == [act: {"connected", "disconnected", "sweep-end", "network", "profile",
                "updated", "started", "deleted"},
          who: Instances \union {None}, data: Said \union {None}, failed: BOOLEAN]

NewEvent(act, who) == [act |-> act, who |-> who, data |-> None, failed |-> FALSE]

(* A place in the line: waiting for a read, free to go, or gone already    *)
(* but keeping its place until it reaches the front.                       *)
Item == [ev: Event, st: {"wait", "go", "skip"}]

(* Only an instance's read has more than one call to the server.           *)
Worker == {r \in [at: {"idle", "reading", "got", "polling"}, key: Keys, live: BOOLEAN, got: Nat] :
             r.at \in {"got", "polling"} => r.key \in Instances}
Idle == [at |-> "idle", key |-> Prj, live |-> FALSE, got |-> 0]

Answer == [is: {"ok", "gone", "error"}, c: Nat, up: BOOLEAN]
Failed == [is |-> "error", c |-> 0, up |-> FALSE]
NotFound == [is |-> "gone", c |-> 0, up |-> FALSE]
Found(c, up) == [is |-> "ok", c |-> c, up |-> up]

(* The answer to a read that is not live, because it was withdrawn, is not *)
(* looked at.                                                              *)
Result == [key: Keys, live: BOOLEAN, ans: Answer]

(* A read that is owed: also for a fan-out, and until the instance runs.   *)
Call == [fan: BOOLEAN, wfr: BOOLEAN]

Loop == [q: Seq(Item), calls: [Keys -> Call \union {None}],
         cold: Seq(Keys), pending: Seq(Keys), waiting: Seq(Keys),
         warm: BOOLEAN, asked: BOOLEAN, owed: Int, ending: BOOLEAN,
         worker: [Workers -> Worker],
         results: Seq(Result),
         held: [Instances -> Said \union {None}], net: Nat, proj: BOOLEAN,
         arch: [Instances -> Event \union {None}],
         due: [Instances -> 0..DueCap]]

NewLoop ==
    [q |-> <<>>, calls |-> [k \in Keys |-> None],
     cold |-> <<>>, pending |-> <<>>, waiting |-> <<>>,
     warm |-> FALSE, asked |-> FALSE, owed |-> 0, ending |-> FALSE,
     worker |-> [w \in Workers |-> Idle], results |-> <<>>,
     held |-> [i \in Instances |-> None], net |-> 0, proj |-> FALSE,
     arch |-> [i \in Instances |-> None], due |-> [i \in Instances |-> 0]]

-----------------------------------------------------------------------------
(* The reads: at most one out per key. *)

Without(seq, k) ==
    FoldLeft(LAMBDA kept, j : IF j = k THEN kept ELSE Append(kept, j), <<>>, seq)

(* submit, or a place among the refused. *)
Offer(s, k) ==
    LET idle == {w \in Workers : s.worker[w].at = "idle"} IN
    IF idle = {} THEN [s EXCEPT !.waiting = Append(@, k)]
    ELSE [s EXCEPT !.worker[CHOOSE w \in idle : TRUE] =
                      [at |-> "reading", key |-> k, live |-> TRUE, got |-> 0]]

(* Mutant: a withdrawn read stays among those the first round holds back,  *)
(* and its worker's answer still counts.                                   *)
CancelHalf(s, k) ==
    [s EXCEPT !.calls[k] = None, !.waiting = Without(@, k), !.pending = Without(@, k)]

Cancel(s, k) ==
    [s EXCEPT !.calls[k] = None,
              !.waiting = Without(@, k), !.cold = Without(@, k), !.pending = Without(@, k),
              !.worker = [w \in Workers |->
                            IF @[w].key = k THEN [@[w] EXCEPT !.live = FALSE] ELSE @[w]],
              !.results = [j \in DOMAIN @ |->
                            IF @[j].key = k THEN [@[j] EXCEPT !.live = FALSE] ELSE @[j]]]

(* An instance is not read before the first round has its network, nor     *)
(* while its project is read.                                              *)
Place(s, k) ==
    IF k \in Instances /\ ~s.warm THEN [s EXCEPT !.cold = Append(@, k)]
    ELSE IF k \in Instances /\ s.calls[Prj] # None THEN [s EXCEPT !.pending = Append(@, k)]
    ELSE Offer(s, k)

(* An event that waits for the instance to run has a read in flight that   *)
(* does not wait withdrawn; any other joins it.                            *)
Send(s, k, fan, wfr) ==
    LET out == s.calls[k] IN
    IF out # None /\ ~(k \in Instances /\ wfr /\ ~out.wfr)
    THEN [s EXCEPT !.calls[k] = [fan |-> out.fan \/ fan, wfr |-> out.wfr \/ wfr]]
    ELSE LET t == IF out = None THEN s ELSE Cancel(s, k)
             u == [t EXCEPT !.calls[k] = [fan |-> fan \/ (out # None /\ out.fan), wfr |-> wfr],
                            !.owed = @ + IF k = Prj THEN 1 ELSE 0]
         IN  Place(u, k)

(* In Go the order is a map's; which of them is refused makes no odds. *)
FanOut(s, who) == FoldLeft(LAMBDA t, i : Send(t, i, TRUE, FALSE), s, SetToSeq(who))

InState(s) == {i \in Instances : s.held[i] # None}
NetworkInstances(s) == InState(s)   \* all sit on the one network
MissingInstances(s, listed) == InState(s) \ listed

(* Mutant: what was held back goes as soon as the networks are known. *)
FlushEarly(s) ==
    IF s.warm THEN [s EXCEPT !.asked = TRUE]
    ELSE FoldLeft(LAMBDA t, k :
                      IF t.calls[k] = None THEN t
                      ELSE LET u == [t EXCEPT !.calls[k] = None]
                           IN  Offer([u EXCEPT !.calls[k] = t.calls[k]], k),
                  [s EXCEPT !.asked = TRUE, !.warm = TRUE, !.cold = <<>>], s.cold)

Flush(s) ==
    IF s.warm \/ s.owed > 0 THEN [s EXCEPT !.asked = TRUE]
    ELSE FoldLeft(LAMBDA t, k :
                      IF t.calls[k] = None THEN t
                      ELSE Send([t EXCEPT !.calls[k] = None], k, t.calls[k].fan, t.calls[k].wfr),
                  [s EXCEPT !.asked = TRUE, !.warm = TRUE, !.cold = <<>>], s.cold)

(* Mutant: what waited for a project is sent on by the round alone. *)
DoneNoPending(s, k) ==
    LET d == [s EXCEPT !.calls[k] = None, !.owed = @ - IF k = Prj THEN 1 ELSE 0]
    IN  IF k = Prj /\ d.asked THEN Flush(d) ELSE d

Done(s, k) ==
    LET d == [s EXCEPT !.calls[k] = None, !.owed = @ - IF k = Prj THEN 1 ELSE 0]
        f == IF d.asked THEN Flush(d) ELSE d
    IN  IF k # Prj THEN d
        ELSE FoldLeft(LAMBDA t, j : IF t.calls[j] = None THEN t ELSE Offer(t, j),
                      [f EXCEPT !.pending = <<>>], f.pending)

(* The refused are offered again until one is refused. *)
Retried(s) ==
    FoldLeft(LAMBDA t, k : Offer(t, k), [s EXCEPT !.waiting = <<>>], s.waiting)

-----------------------------------------------------------------------------
(* What is due another read, any number of times over: at DueCap there are *)
(* that many or more.                                                      *)

Soon(s, i) == [s EXCEPT !.due[i] = IF @ = DueCap THEN @ ELSE @ + 1]

TakeDue(s, i) ==
    {[s EXCEPT !.due[i] = @ - 1]} \union (IF s.due[i] = DueCap THEN {s} ELSE {})

-----------------------------------------------------------------------------
(* The line. *)

Push(s, ev, st) == [s EXCEPT !.q = Append(@, [ev |-> ev, st |-> st])]

(* Mutant: what waits for a read is passed by. *)
ReadyLenAll(s) == Len(s.q)

(* What may leave: everything in front of the first that waits. *)
ReadyLen(s) ==
    LET wait == {j \in DOMAIN s.q : s.q[j].st = "wait"}
    IN  IF wait = {} THEN Len(s.q) ELSE Min(wait) - 1

Leaving(s) == SubSeq(s.q, 1, ReadyLen(s))
Released(s) == [s EXCEPT !.q = SubSeq(@, ReadyLen(s) + 1, Len(@))]

-----------------------------------------------------------------------------
(* One event taken in. *)

(* A project nobody has read is asked for by an event that wants it. *)
ReadProject(s, act) ==
    IF act \in {"updated", "started"} /\ ~s.proj THEN Send(s, Prj, FALSE, FALSE) ELSE s

Forgotten(s, i) == [s EXCEPT !.held[i] = None, !.arch[i] = None]

(* The event itself first, then the read it causes. *)
AcceptNetwork(s, ev) == Send(Push(s, ev, "go"), Net, FALSE, FALSE)

Accept(s, ev) ==
    LET i == ev.who
        t == ReadProject(s, ev.act)
    IN  CASE ev.act \in {"connected", "disconnected", "sweep-end"} -> Push(s, ev, "go")
          [] ev.act = "network" -> AcceptNetwork(s, ev)
          [] ev.act = "profile" -> FanOut(Push(s, ev, "go"), InState(s))
          [] ev.act = "deleted" -> Push(Forgotten(s, i), ev, "go")
          [] ev.act \in {"updated", "started"} ->
                 Send(Push(t, ev, "wait"), i, FALSE, ev.act = "started")

-----------------------------------------------------------------------------
(* One read answered. *)

(* patchState: what is held from now on, what the key is owed, and whether *)
(* the read landed.  One on a network nobody has read is no read.          *)
Landed(s, ans) == ans.is = "gone" \/ (ans.is = "ok" /\ s.net # 0)

(* What a whole read patches in. *)
SetInstance(s, i, ans) ==
    [s EXCEPT !.held[i] = [c |-> ans.c, up |-> ans.up, net |-> s.net, proj |-> s.proj]]

Patched(s, i, ans) ==
    IF ans.is = "gone" THEN Forgotten(s, i)
    ELSE IF ans.is = "error" THEN Soon(s, i)
    ELSE IF s.net = 0 THEN Soon(Send(s, Net, FALSE, FALSE), i)
    ELSE IF ans.up THEN SetInstance(s, i, ans) ELSE Soon(SetInstance(s, i, ans), i)

(* The archive files what is about to be said, and tells whether it is news. *)
Filed(s, ev) == [s EXCEPT !.arch[ev.who] = ev]
News(s, ev) == s.arch[ev.who] # ev

SettleItem(s, j, landed) ==
    LET ev == [s.q[j].ev EXCEPT !.data = s.held[s.q[j].ev.who]] IN
    IF ~landed
    THEN [s EXCEPT !.q[j] = [ev |-> [s.q[j].ev EXCEPT !.failed = TRUE], st |-> "go"]]
    ELSE [Filed(s, ev) EXCEPT !.q[j] = [ev |-> ev, st |-> IF News(s, ev) THEN "go" ELSE "skip"]]

SettleWaiting(s, i, landed) ==
    FoldLeftDomain(LAMBDA u, j : IF u.q[j].st = "wait" /\ u.q[j].ev.who = i
                                 THEN SettleItem(u, j, landed) ELSE u, s, s.q)

(* The events that waited, in the order of the line, then the one a        *)
(* fan-out would make, which is news only if theirs were not the same.     *)
SettleInstance(s, i, ans, fan) ==
    LET landed == Landed(s, ans)
        p == Patched(s, i, ans)
        t == SettleWaiting(p, i, landed)
        syn == [NewEvent("updated", i) EXCEPT !.data = t.held[i]]
        said == Filed(t, syn)
    IN  IF ~fan \/ ~landed \/ ans.is = "gone" THEN t
        ELSE IF News(t, syn) THEN Push(said, syn, "go") ELSE said

SettleNetwork(s, ans) ==
    IF ans.is = "error" THEN s
    ELSE LET t == [s EXCEPT !.net = ans.c] IN FanOut(t, NetworkInstances(t))

SettleProject(s, ans) ==
    IF ans.is = "error" THEN s
    ELSE LET t == [s EXCEPT !.proj = TRUE] IN FanOut(t, InState(t))

SettleRead(s, k, ans) ==
    LET d == Done(s, k) IN
    IF k = Net THEN SettleNetwork(d, ans)
    ELSE IF k = Prj THEN SettleProject(d, ans)
    ELSE SettleInstance(d, k, ans, s.calls[k].fan)

=============================================================================
