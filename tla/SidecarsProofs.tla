--------------------------- MODULE SidecarsProofs ---------------------------
(***************************************************************************)
(* A project is never watched by a sidecar of its own and by the shared    *)
(* one, whatever the commands, their interleaving, the requests that fail  *)
(* and the upgrade of the global project that may come in between; and on  *)
(* hosts that need no upgrade, what commands that all end well brought up  *)
(* is up.                                                                  *)
(*                                                                         *)
(* Sidecars only says that a command marks its project in a later step     *)
(* than the one that tears the project's own sidecar down.  Between the    *)
(* two are a check, which may put an upgrade in front, and other commands, *)
(* of the same project too.  The invariant therefore looks ahead: whatever *)
(* a command still has to do, a mark for a daemon the project has a        *)
(* sidecar of its own for comes after that sidecar's teardown.  The second *)
(* invariant, further down, looks ahead for the sidecars' starts.          *)
(***************************************************************************)
EXTENDS Sidecars, TLAPS, FiniteSetTheorems, SequenceTheorems

(* What a step does, on what, and the steps: a teardown that fails ends    *)
(* its command.                                                            *)
Doings ==
    {"acquire", "release", "check", "recheck", "project", "dropproject", "dropnet", "mark",
     "teardown", "lookup", "inst", "create", "replace", "stop", "delete", "start", "return",
     "see", "run", "halt", "alias", "ensure", "get", "peer", "acl", "attach", "detach", "patch",
     "delacl", "unpeer", "delnet"}
Objects == Nets \union Daemons \union LockNames \union Instances \union ACLs \union {""}
StepType ==
    {s \in [do : Doings, on : Objects, with : SUBSET Objects, err : {"abort", "join", "skip", "stop"}] :
        s.do = "teardown" => s.err = "abort"}
Quiet == {s \in StepType : s.do # "mark"}

(* The steps that make a sidecar, the others that are about one, and those *)
(* of an upgrade.                                                          *)
Making == {"lookup", "inst", "create"}
Handled == Making \union {"replace", "start", "stop", "delete", "recheck", "dropproject", "dropnet"}
Calm == {s \in Quiet : s.do \notin Handled}
Strict == {s \in Calm : s.err = "abort"}

(* A mark for one of these daemons comes after its teardown. *)
TornFirst(todo, owned) ==
    \A i \in 1..Len(todo) :
        todo[i].do = "mark" /\ todo[i].on \in owned
            => \E j \in 1..(i - 1) : todo[j].do = "teardown" /\ todo[j].on = todo[i].on

(* A command has its fields.  Nothing is said of those the argument does   *)
(* not need.                                                               *)
Shape == {"job", "res", "todo", "at", "snap", "tries", "have", "known", "held", "seen", "bad", "dirty"}
Fields(r) == r = [f \in Shape |-> r[f]]

CommandsOK ==
    /\ cmd = [c \in Commands |-> cmd[c]]
    /\ \A c \in Commands : Fields(cmd[c]) /\ job(c) \in Jobs /\ cmd[c].todo \in Seq(StepType)

AheadOK ==
    \A c \in Commands : \A p \in Projects :
        job(c).project = p => TornFirst(cmd[c].todo, own[p])

OwnersOK ==
    /\ own \in [Projects -> SUBSET Daemons]
    /\ mark \in [Projects -> SUBSET Objects]

IInv == CommandsOK /\ OwnersOK /\ AheadOK /\ OneDaemon

-----------------------------------------------------------------------------
(* Lists of steps. *)

(* A set's members come in some order, each once or more. *)
LEMMA Ordered ==
    ASSUME NEW S, IsFiniteSet(S)
    PROVE  Cardinality(S) \in Nat /\ SetToSeq(S) \in [1..Cardinality(S) -> S]
<1>1. Cardinality(S) \in Nat /\ ExistsBijection(1..Cardinality(S), S)
  BY FS_CardinalityType
<1>2. \E f \in [1..Cardinality(S) -> S] : IsInjective(f)
  BY <1>1 DEF ExistsBijection, Bijection, Injection
<1> QED
  BY <1>1, <1>2 DEF SetToSeq

(* What is in front of a list, and quiet, changes nothing. *)
LEMMA InFront ==
    ASSUME NEW q \in Seq(Quiet), NEW s \in Seq(StepType), NEW owned, TornFirst(s, owned)
    PROVE  q \o s \in Seq(StepType) /\ TornFirst(q \o s, owned)
<1>1. q \in Seq(StepType)
  BY DEF Quiet
<1>2. /\ q \o s \in Seq(StepType) /\ Len(q \o s) = Len(q) + Len(s)
      /\ \A i \in 1..Len(q \o s) : (q \o s)[i] = IF i <= Len(q) THEN q[i] ELSE s[i - Len(q)]
  BY <1>1, ConcatProperties
<1>3. ASSUME NEW i \in 1..Len(q \o s), (q \o s)[i].do = "mark", (q \o s)[i].on \in owned
      PROVE  \E j \in 1..(i - 1) : (q \o s)[j].do = "teardown" /\ (q \o s)[j].on = (q \o s)[i].on
  <2>1. ~(i <= Len(q))
    BY <1>2, <1>3 DEF Quiet
  <2>2. i - Len(q) \in 1..Len(s) /\ (q \o s)[i] = s[i - Len(q)]
    BY <1>2, <2>1
  <2>3. PICK j \in 1..(i - Len(q) - 1) : s[j].do = "teardown" /\ s[j].on = s[i - Len(q)].on
    BY <1>3, <2>2 DEF TornFirst
  <2>4. /\ j + Len(q) \in 1..(i - 1) /\ j + Len(q) \in 1..Len(q \o s) /\ ~(j + Len(q) <= Len(q))
        /\ (j + Len(q)) - Len(q) = j
    BY <1>2, <2>2, <2>3
  <2>5. (q \o s)[j + Len(q)] = s[j]
    BY <1>2, <2>4
  <2> QED
    BY <2>2, <2>3, <2>4, <2>5
<1> QED
  BY <1>2, <1>3 DEF TornFirst

(* Two lists, one after the other. *)
LEMMA OneAfterTheOther ==
    ASSUME NEW s \in Seq(StepType), NEW t \in Seq(StepType), NEW owned,
           TornFirst(s, owned), TornFirst(t, owned)
    PROVE  s \o t \in Seq(StepType) /\ TornFirst(s \o t, owned)
<1>2. /\ s \o t \in Seq(StepType) /\ Len(s \o t) = Len(s) + Len(t)
      /\ \A i \in 1..Len(s \o t) : (s \o t)[i] = IF i <= Len(s) THEN s[i] ELSE t[i - Len(s)]
  BY ConcatProperties
<1>3. ASSUME NEW i \in 1..Len(s \o t), (s \o t)[i].do = "mark", (s \o t)[i].on \in owned
      PROVE  \E j \in 1..(i - 1) : (s \o t)[j].do = "teardown" /\ (s \o t)[j].on = (s \o t)[i].on
  <2>1. CASE i <= Len(s)
    <3>1. i \in 1..Len(s) /\ (s \o t)[i] = s[i]
      BY <1>2, <2>1
    <3>2. PICK j \in 1..(i - 1) : s[j].do = "teardown" /\ s[j].on = s[i].on
      BY <1>3, <3>1 DEF TornFirst
    <3>3. j \in 1..Len(s \o t) /\ j <= Len(s)
      BY <1>2, <2>1, <3>2
    <3>4. (s \o t)[j] = s[j]
      BY <1>2, <3>3
    <3> QED
      BY <3>1, <3>2, <3>4
  <2>2. CASE ~(i <= Len(s))
    <3>2. i - Len(s) \in 1..Len(t) /\ (s \o t)[i] = t[i - Len(s)]
      BY <1>2, <2>2
    <3>3. PICK j \in 1..(i - Len(s) - 1) : t[j].do = "teardown" /\ t[j].on = t[i - Len(s)].on
      BY <1>3, <3>2 DEF TornFirst
    <3>4. /\ j + Len(s) \in 1..(i - 1) /\ j + Len(s) \in 1..Len(s \o t) /\ ~(j + Len(s) <= Len(s))
          /\ (j + Len(s)) - Len(s) = j
      BY <1>2, <3>2, <3>3
    <3>5. (s \o t)[j + Len(s)] = t[j]
      BY <1>2, <3>4
    <3> QED
      BY <3>2, <3>3, <3>4, <3>5
  <2> QED
    BY <2>1, <2>2
<1> QED
  BY <1>2, <1>3 DEF TornFirst

(* The first step done, the rest is as it was, if a teardown has removed   *)
(* what it was for.                                                        *)
LEMMA FirstDone ==
    ASSUME NEW s \in Seq(StepType), s # <<>>, NEW owned, NEW owned2, owned2 \subseteq owned,
           TornFirst(s, owned), Head(s).do = "teardown" => Head(s).on \notin owned2
    PROVE  Tail(s) \in Seq(StepType) /\ TornFirst(Tail(s), owned2)
<1>1. /\ Tail(s) \in Seq(StepType) /\ Len(Tail(s)) = Len(s) - 1 /\ Head(s) = s[1]
      /\ \A i \in 1..Len(Tail(s)) : Tail(s)[i] = s[i + 1]
  BY HeadTailProperties
<1>2. ASSUME NEW i \in 1..Len(Tail(s)), Tail(s)[i].do = "mark", Tail(s)[i].on \in owned2
      PROVE  \E j \in 1..(i - 1) : Tail(s)[j].do = "teardown" /\ Tail(s)[j].on = Tail(s)[i].on
  <2>1. i + 1 \in 1..Len(s) /\ Tail(s)[i] = s[i + 1]
    BY <1>1
  <2>2. PICK j \in 1..i : s[j].do = "teardown" /\ s[j].on = s[i + 1].on
    BY <1>2, <2>1 DEF TornFirst
  <2>3. j # 1
    BY <1>1, <1>2, <2>1, <2>2
  <2>4. j - 1 \in 1..(i - 1) /\ j - 1 \in 1..Len(Tail(s)) /\ (j - 1) + 1 = j
    BY <2>2, <2>3, <1>1
  <2>5. Tail(s)[j - 1] = s[j]
    BY <1>1, <2>4
  <2> QED
    BY <2>1, <2>2, <2>4, <2>5
<1> QED
  BY <1>1, <1>2 DEF TornFirst

(* A quiet list marks nothing. *)
LEMMA QuietTornFirst ==
    ASSUME NEW q \in Seq(Quiet), NEW owned
    PROVE  q \in Seq(StepType) /\ TornFirst(q, owned)
BY DEF Quiet, TornFirst

(* The narrower lists are lists of the wider kind. *)
LEMMA StrictIsQuiet ==
    /\ Strict \subseteq Calm /\ Calm \subseteq Quiet /\ Quiet \subseteq StepType
    /\ Seq(Strict) \subseteq Seq(Calm) /\ Seq(Calm) \subseteq Seq(Quiet)
    /\ Seq(Quiet) \subseteq Seq(StepType)
<1>1. Strict \subseteq Calm /\ Calm \subseteq Quiet /\ Quiet \subseteq StepType
  BY DEF Strict, Calm, Quiet
<1> QED
  BY <1>1

-----------------------------------------------------------------------------
(* The lists commands are made of. *)

(* What a step is made of decides what it is. *)
LEMMA StepIs ==
    \A do \in Doings, on \in Objects : \A with \in SUBSET Objects :
        /\ Step(do, on, with) \in StepType
        /\ do # "mark" => Step(do, on, with) \in Quiet
BY DEF Step, StepType, Quiet, Doings

(* The same, for one whose failure does not end the command. *)
LEMMA OnIs ==
    \A err \in {"abort", "join", "skip", "stop"}, do \in Doings, on \in Objects :
        \A with \in SUBSET Objects :
            do \notin {"mark", "teardown"} => On(err, Step(do, on, with)) \in Quiet
BY DEF On, Step, StepType, Quiet

(* Networks, daemons, locks, replicas and ACLs are what steps are on.      *)
LEMMA ObjectsAre ==
    /\ Nets \subseteq Objects /\ Daemons \subseteq Objects /\ LockNames \subseteq Objects
    /\ Instances \subseteq Objects /\ ACLs \subseteq Objects /\ "" \in Objects
    /\ Projects \subseteq Nets /\ Resolver \in Nets /\ Bridge \in Nets
BY DEF Objects, Nets

(* The ACLs by their names. *)
LEMMA ACLsAre ==
    /\ \A n \in Nets : defaultACLName(n) \in ACLs
    /\ \A p \in Projects : dnsACLName(p) \in ACLs
BY DEF ACLs

(* A lock is two requests more than its name says; none is a mark, none is *)
(* about a sidecar, and none may fail.                                     *)
LEMMA LockStrict == \A name \in LockNames : Lock(name) \in Seq(Strict)
<1> TAKE name \in LockNames
<1>1. "global" \in Objects /\ name \in Objects /\ {} \in SUBSET Objects
  BY ObjectsAre DEF LockNames
<1>2. /\ Step("acquire", "global", {}) \in Strict /\ Step("release", "global", {}) \in Strict
      /\ Step("acquire", name, {}) \in Strict
  BY <1>1 DEF Step, StepType, Doings, Strict, Calm, Quiet, Handled, Making
<1> QED
  BY <1>2 DEF Lock

(* The start of a network looks up, peers and attaches. *)
LEMMA StartStrict ==
    \A n \in Nets : \A peers \in SUBSET Nets, acls \in SUBSET ACLs :
        IsFiniteSet(peers) /\ IsFiniteSet(acls) => StartNetwork(n, peers, acls) \in Seq(Strict)
<1> SUFFICES ASSUME NEW n \in Nets, NEW peers \in SUBSET Nets, NEW acls \in SUBSET ACLs,
                    IsFiniteSet(peers), IsFiniteSet(acls)
             PROVE  StartNetwork(n, peers, acls) \in Seq(Strict)
  OBVIOUS
<1> DEFINE targets == IF n \in Projects THEN Targets[n] ELSE {}
<1>1. targets \in SUBSET Nets /\ IsFiniteSet(targets) /\ IsFiniteSet(peers \union targets)
  <2>1. targets \in SUBSET Projects
    BY NetsAssumption
  <2>2. IsFiniteSet(targets)
    BY <2>1, SidecarsAssumption, FS_Subset
  <2> QED
    BY <2>1, <2>2, ObjectsAre, FS_Union
<1>2. EachTwo(LAMBDA t : Step("get", t, {}), LAMBDA t : Step("peer", t, {n}), targets) \in Seq(Strict)
  <2> DEFINE F(t) == Step("get", t, {})
             G(t) == Step("peer", t, {n})
  <2>1. Cardinality(targets) \in Nat /\ SetToSeq(targets) \in [1..Cardinality(targets) -> targets]
    BY <1>1, Ordered
  <2>2. \A t \in targets : F(t) \in Strict /\ G(t) \in Strict
    BY <1>1, ObjectsAre DEF Step, StepType, Doings, Strict, Calm, Quiet, Handled, Making
  <2> HIDE DEF targets, F, G
  <2>3. \A i \in 1..2 * Cardinality(targets) : SetToSeq(targets)[(i + 1) \div 2] \in targets
    BY <2>1
  <2>4. EachTwo(F, G, targets) \in Seq(Strict)
    BY <2>1, <2>2, <2>3 DEF EachTwo
  <2> QED
    BY <2>4 DEF F, G
<1>3. Each(LAMBDA t : Step("peer", n, {t}), peers \union targets) \in Seq(Strict)
  <2> DEFINE F(t) == Step("peer", n, {t})
  <2>0. PICK S : S = peers \union targets
    OBVIOUS
  <2>1. Cardinality(S) \in Nat /\ SetToSeq(S) \in [1..Cardinality(S) -> S]
    BY <1>1, <2>0, Ordered
  <2>2. \A t \in S : F(t) \in Strict
    BY <1>1, <2>0, ObjectsAre DEF Step, StepType, Doings, Strict, Calm, Quiet, Handled, Making
  <2> HIDE DEF F
  <2>3. Each(F, S) \in Seq(Strict)
    BY <2>1, <2>2 DEF Each
  <2> QED
    BY <2>0, <2>3 DEF F
<1>4. Each(LAMBDA a : Step("acl", a, {}), acls) \in Seq(Strict)
  <2>1. Cardinality(acls) \in Nat /\ SetToSeq(acls) \in [1..Cardinality(acls) -> acls]
    BY Ordered
  <2>2. \A a \in acls : Step("acl", a, {}) \in Strict
    BY ObjectsAre DEF Step, StepType, Doings, Strict, Calm, Quiet, Handled, Making
  <2> QED
    BY <2>1, <2>2 DEF Each
<1>5. <<Step("attach", n, acls)>> \in Seq(Strict)
  <2>1. Step("attach", n, acls) \in Strict
    BY ObjectsAre DEF Step, StepType, Doings, Strict, Calm, Quiet, Handled, Making
  <2> QED
    BY <2>1
<1> HIDE DEF targets
<1> QED
  <2>1. CASE ~ovn
    BY <2>1 DEF StartNetwork
  <2>2. CASE ovn
    <3> DEFINE a == EachTwo(LAMBDA t : Step("get", t, {}), LAMBDA t : Step("peer", t, {n}), targets)
               b == Each(LAMBDA t : Step("peer", n, {t}), peers \union targets)
               e == Each(LAMBDA x : Step("acl", x, {}), acls)
               f == <<Step("attach", n, acls)>>
    <3>1. StartNetwork(n, peers, acls) = a \o b \o e \o f
      BY <2>2 DEF StartNetwork, targets
    <3>2. a \in Seq(Strict) /\ b \in Seq(Strict) /\ e \in Seq(Strict) /\ f \in Seq(Strict)
      BY <1>2, <1>3, <1>4, <1>5
    <3> HIDE DEF a, b, e, f
    <3> QED
      BY <3>1, <3>2
  <2> QED
    BY <2>1, <2>2

(* The sets a network is started with are finite. *)
LEMMA SmallSets == IsFiniteSet({}) /\ (\A x : IsFiniteSet({x})) /\ (\A x, y : IsFiniteSet({x, y}))
<1>1. ASSUME NEW x, NEW y PROVE IsFiniteSet({x, y})
  <2>1. IsFiniteSet({x} \union {y})
    BY FS_Singleton, FS_Union
  <2>2. {x} \union {y} = {x, y}
    OBVIOUS
  <2> QED
    BY <2>1, <2>2
<1> QED
  BY <1>1, FS_EmptySet, FS_Singleton

(* The resolver's wiring marks nothing. *)
LEMMA WireStrict == \A p \in Projects : Wire(p) \in Seq(Strict)
<1> TAKE p \in Projects
<1> DEFINE a == Lock("network")
           b == <<Step("ensure", Resolver, {})>>
           e == StartNetwork(Resolver, {p}, {defaultACLName(Resolver), dnsACLName(p)})
           f == <<Step("ensure", p, {})>>
           g == StartNetwork(p, {Resolver}, {defaultACLName(p)})
<1>1. a \in Seq(Strict)
  BY LockStrict DEF LockNames
<1>2. b \in Seq(Strict) /\ f \in Seq(Strict)
  <2>1. Step("ensure", Resolver, {}) \in Strict /\ Step("ensure", p, {}) \in Strict
    BY ObjectsAre DEF Step, StepType, Doings, Strict, Calm, Quiet, Handled, Making
  <2> QED
    BY <2>1
<1>3. e \in Seq(Strict)
  <2>1. /\ {p} \in SUBSET Nets /\ {defaultACLName(Resolver), dnsACLName(p)} \in SUBSET ACLs
        /\ Resolver \in Nets
    BY ObjectsAre, ACLsAre
  <2> QED
    BY <2>1, SmallSets, StartStrict
<1>4. g \in Seq(Strict)
  <2>1. {Resolver} \in SUBSET Nets /\ {defaultACLName(p)} \in SUBSET ACLs /\ p \in Nets
    BY ObjectsAre, ACLsAre
  <2> QED
    BY <2>1, SmallSets, StartStrict
<1>5. Wire(p) = IF ~ovn THEN <<>> ELSE a \o b \o e \o f \o g
  BY DEF Wire
<1> HIDE DEF a, b, e, f, g
<1>6. CASE ovn
  BY <1>1, <1>2, <1>3, <1>4, <1>5, <1>6
<1>7. CASE ~ovn
  BY <1>5, <1>7
<1> QED
  BY <1>6, <1>7

(* One request for each replica. *)
LEMMA EachInstanceCalm ==
    /\ Each(LAMBDA i : Step("run", i, {}), Instances) \in Seq(Strict)
    /\ Each(LAMBDA i : On("skip", Step("halt", i, {})), Instances) \in Seq(Calm)
<1> DEFINE F(i) == Step("run", i, {})
           G(i) == On("skip", Step("halt", i, {}))
<1>1. Cardinality(Instances) \in Nat /\ SetToSeq(Instances) \in [1..Cardinality(Instances) -> Instances]
  BY SidecarsAssumption, Ordered
<1>2. \A i \in Instances : F(i) \in Strict /\ G(i) \in Calm
  BY ObjectsAre DEF On, Step, StepType, Doings, Strict, Calm, Quiet, Handled, Making
<1> HIDE DEF F, G
<1>3. Each(F, Instances) \in Seq(Strict) /\ Each(G, Instances) \in Seq(Calm)
  BY <1>1, <1>2 DEF Each
<1> QED
  BY <1>3 DEF F, G

(* A sidecar of the project's own goes before the project is marked. *)
LEMMA SidecarUpInLine ==
    \A p, owned : \A d \in Daemons :
        SidecarUp(p, d) \in Seq(StepType) /\ TornFirst(SidecarUp(p, d), owned)
<1> TAKE p, owned
<1> TAKE d \in Daemons
<1> DEFINE s == SidecarUp(p, d)
           a == Step("teardown", d, {})
           b == Step("check", "", {})
           e == Step("project", "", {})
           f == Step("mark", d, {})
           g == Step("lookup", d, {})
<1>1. a \in StepType /\ b \in StepType /\ e \in StepType /\ f \in StepType /\ g \in StepType
  BY ObjectsAre DEF Step, StepType, Doings
<1>2. /\ a.do = "teardown" /\ a.on = d /\ f.on = d
      /\ b.do = "check" /\ e.do = "project" /\ g.do = "lookup"
  BY DEF Step
<1>3. s = <<a, b, e, f, g>>
  BY DEF SidecarUp
<1> HIDE DEF s, a, b, e, f, g
<1>4. s \in Seq(StepType) /\ Len(s) = 5 /\ s[1] = a /\ s[2] = b /\ s[3] = e /\ s[4] = f /\ s[5] = g
  BY <1>1, <1>3
<1>5. ASSUME NEW i \in 1..5, s[i].do = "mark"
      PROVE  \E j \in 1..(i - 1) : s[j].do = "teardown" /\ s[j].on = s[i].on
  <2>1. i = 4
    <3>1. i = 1 \/ i = 2 \/ i = 3 \/ i = 4 \/ i = 5
      OBVIOUS
    <3> QED
      BY <1>2, <1>4, <1>5, <3>1
  <2> QED
    BY <1>2, <1>4, <2>1
<1>6. s \in Seq(StepType) /\ TornFirst(s, owned)
  BY <1>4, <1>5 DEF TornFirst
<1> QED
  BY <1>6 DEF s

(* A quiet list is in line whatever the project has. *)
LEMMA QuietInLine == \A q \in Seq(Quiet) : \A owned : q \in Seq(StepType) /\ TornFirst(q, owned)
BY QuietTornFirst

(* So is a list after another that is. *)
LEMMA JoinedInLine ==
    \A s, t \in Seq(StepType) : \A owned :
        TornFirst(s, owned) /\ TornFirst(t, owned)
            => s \o t \in Seq(StepType) /\ TornFirst(s \o t, owned)
BY OneAfterTheOther

(* What `up` does is in line. *)
LEMMA UpInLine ==
    \A p \in Projects : \A owned : Up(p) \in Seq(StepType) /\ TornFirst(Up(p), owned)
<1> TAKE p \in Projects
<1> TAKE owned
<1> DEFINE a == SidecarUp(p, "healthd")
           b == <<Step("return", "", {})>>
           e == SidecarUp(p, "dns")
           f == Wire(p)
           g == <<Step("see", "", {})>>
           h == Each(LAMBDA i : Step("run", i, {}), Instances)
           OK(s) == s \in Seq(StepType) /\ TornFirst(s, owned)
<1>1. OK(a) /\ OK(e)
  BY SidecarUpInLine DEF Daemons
<1>2. OK(b) /\ OK(g)
  <2> DEFINE x == Step("return", "", {})
             y == Step("see", "", {})
  <2>1. x \in Quiet /\ y \in Quiet
    BY ObjectsAre DEF Step, StepType, Quiet, Doings
  <2> HIDE DEF x, y
  <2>2. <<x>> \in Seq(Quiet) /\ <<y>> \in Seq(Quiet)
    BY <2>1
  <2> USE DEF x, y
  <2> QED
    BY <2>2, QuietInLine
<1>3. OK(f) /\ OK(h)
  <2>1. f \in Seq(Quiet) /\ h \in Seq(Quiet)
    BY WireStrict, EachInstanceCalm, StrictIsQuiet
  <2> QED
    BY <2>1, QuietInLine
<1>4. Up(p) = (a \o b) \o (e \o f \o b) \o (g \o h)
  BY DEF Up, healthdUp, dnsUp, DeployInstances
<1> HIDE DEF a, b, e, f, g, h
<1>5. OK(a \o b)
  BY <1>1, <1>2, JoinedInLine
<1>6. OK(e \o f)
  BY <1>1, <1>3, JoinedInLine
<1>7. OK(e \o f \o b)
  BY <1>6, <1>2, JoinedInLine
<1>8. OK(g \o h)
  BY <1>2, <1>3, JoinedInLine
<1>9. OK((a \o b) \o (e \o f \o b))
  BY <1>5, <1>7, JoinedInLine
<1>10. OK((a \o b) \o (e \o f \o b) \o (g \o h))
  BY <1>8, <1>9, JoinedInLine
<1> QED
  BY <1>4, <1>10

(* What `down` does marks nothing. *)
LEMMA DownCalm == \A p \in Projects : Down(p) \in Seq(Calm)
<1> TAKE p \in Projects
<1> DEFINE a == <<On("skip", Step("see", "", {}))>>
           b == Each(LAMBDA i : On("skip", Step("halt", i, {})), Instances)
           l == Lock("network")
           u == <<Step("get", Resolver, {}),
                  On("join", Step("detach", Resolver, {dnsACLName(p)})),
                  On("join", Step("delacl", Resolver, {dnsACLName(p)})),
                  On("join", Step("unpeer", p, {Resolver})), On("join", Step("unpeer", Resolver, {p})),
                  Step("return", "", {})>>
           d == <<On("stop", Step("get", p, {})),
                  On("stop", Step("detach", p, {defaultACLName(p)})),
                  On("stop", Step("delacl", p, {defaultACLName(p)})),
                  On("stop", Step("unpeer", p, {})), On("stop", Step("delnet", p, {}))>>
<1>0. /\ p \in Objects /\ Resolver \in Objects /\ "" \in Objects
      /\ {dnsACLName(p)} \in SUBSET Objects /\ {defaultACLName(p)} \in SUBSET Objects
      /\ {Resolver} \in SUBSET Objects /\ {p} \in SUBSET Objects /\ {} \in SUBSET Objects
  BY ObjectsAre, ACLsAre
<1>1. a \in Seq(Calm)
  <2> DEFINE x == On("skip", Step("see", "", {}))
  <2>1. x \in Calm
    BY <1>0 DEF On, Step, StepType, Doings, Strict, Calm, Quiet, Handled, Making
  <2> HIDE DEF x
  <2>2. <<x>> \in Seq(Calm)
    BY <2>1
  <2> QED
    BY <2>2 DEF x
<1>2. b \in Seq(Calm) /\ l \in Seq(Calm)
  BY EachInstanceCalm, LockStrict, StrictIsQuiet DEF LockNames
<1>3. u \in Seq(Calm)
  <2> DEFINE v == Step("get", Resolver, {})
             w == On("join", Step("detach", Resolver, {dnsACLName(p)}))
             x == On("join", Step("delacl", Resolver, {dnsACLName(p)}))
             y == On("join", Step("unpeer", p, {Resolver}))
             z == On("join", Step("unpeer", Resolver, {p}))
             r == Step("return", "", {})
  <2>1. v \in Calm /\ w \in Calm /\ x \in Calm /\ y \in Calm /\ z \in Calm /\ r \in Calm
    BY <1>0 DEF On, Step, StepType, Doings, Strict, Calm, Quiet, Handled, Making
  <2> HIDE DEF v, w, x, y, z, r
  <2>2. <<v, w, x, y, z, r>> \in Seq(Calm)
    BY <2>1
  <2> QED
    BY <2>2 DEF v, w, x, y, z, r
<1>4. d \in Seq(Calm)
  <2> DEFINE v == On("stop", Step("get", p, {}))
             w == On("stop", Step("detach", p, {defaultACLName(p)}))
             x == On("stop", Step("delacl", p, {defaultACLName(p)}))
             y == On("stop", Step("unpeer", p, {}))
             z == On("stop", Step("delnet", p, {}))
  <2>1. v \in Calm /\ w \in Calm /\ x \in Calm /\ y \in Calm /\ z \in Calm
    BY <1>0 DEF On, Step, StepType, Doings, Strict, Calm, Quiet, Handled, Making
  <2> HIDE DEF v, w, x, y, z
  <2>2. <<v, w, x, y, z>> \in Seq(Calm)
    BY <2>1
  <2> QED
    BY <2>2 DEF v, w, x, y, z
<1>5. Down(p) = a \o b \o (l \o u) \o d
  BY DEF Down, Unwire
<1> HIDE DEF a, b, l, u, d
<1> QED
  BY <1>1, <1>2, <1>3, <1>4, <1>5

(* Every command's list is in line when the command starts. *)
LEMMA ProgramInLine ==
    \A j \in Jobs : \A owned : Program(j) \in Seq(StepType) /\ TornFirst(Program(j), owned)
<1> TAKE j \in Jobs
<1> TAKE owned
<1>1. CASE j.what = "up"
  <2>1. j.project \in Projects
    BY <1>1 DEF Jobs
  <2>2. Program(j) = Up(j.project)
    BY <1>1 DEF Program
  <2> QED
    BY <2>1, <2>2, UpInLine
<1>2. CASE j.what = "down"
  <2>1. j.project \in Projects
    BY <1>2 DEF Jobs
  <2>2. Program(j) = Down(j.project)
    BY <1>2 DEF Program
  <2> QED
    BY <2>1, <2>2, DownCalm, StrictIsQuiet, QuietInLine
<1>3. CASE j.what = "daemon"
  <2> DEFINE a == Step("check", "", {})
             b == Step("project", "", {})
             e == Step("lookup", "dns", {})
             f == Step("lookup", "healthd", {})
             g == Step("return", "", {})
  <2>1. a \in Quiet /\ b \in Quiet /\ e \in Quiet /\ f \in Quiet /\ g \in Quiet
    BY ObjectsAre DEF Step, StepType, Quiet, Doings, Daemons
  <2>2. Program(j) = <<a, b, e, g>> \/ Program(j) = <<a, b, f, g>>
    BY <1>3 DEF Program, dnsUpGlobal, healthdUpGlobal
  <2> HIDE DEF a, b, e, f, g
  <2>3. <<a, b, e, g>> \in Seq(Quiet) /\ <<a, b, f, g>> \in Seq(Quiet)
    BY <2>1
  <2> QED
    BY <2>2, <2>3, QuietInLine
<1>4. CASE j.what = "none"
  <2>1. Program(j) = <<>> /\ <<>> \in Seq(Quiet)
    BY <1>4 DEF Program
  <2> QED
    BY <2>1, QuietInLine
<1>5. j.what \in {"up", "down", "daemon", "none"}
  BY DEF Jobs
<1> QED
  BY <1>1, <1>2, <1>3, <1>4, <1>5

-----------------------------------------------------------------------------
(* How a command goes on. *)

(* The ways on: its list as it is, given up, or with its first step done,  *)
(* a quiet list in its place.                                              *)
Onward(c, r) ==
    /\ Fields(r) /\ r.job = cmd[c].job
    /\ \/ r.todo = cmd[c].todo
       \/ r.todo = <<>>
       \/ /\ cmd[c].todo # <<>> /\ step(c).do # "teardown"
          /\ \E q \in Seq(Quiet) : r.todo = q \o Tail(cmd[c].todo)

Moves(c) == \E r : Onward(c, r) /\ cmd' = [cmd EXCEPT ![c] = r]

(* A step that neither marks nor tears down. *)
Plain(c) == Moves(c) /\ UNCHANGED <<own, mark>>

(* A quiet list in the place of the first step. *)
LEMMA InsteadIs ==
    ASSUME CommandsOK, NEW c \in Commands
    PROVE  \A q : /\ Fields(Instead(c, q)) /\ Instead(c, q).job = cmd[c].job
                  /\ Instead(c, q).todo = q \o Tail(cmd[c].todo)
BY DEF CommandsOK, Fields, Shape, Instead

(* ... which is one way on. *)
LEMMA InsteadOn ==
    ASSUME CommandsOK, NEW c \in Commands, cmd[c].todo # <<>>, step(c).do # "teardown"
    PROVE  \A q \in Seq(Quiet) : Onward(c, Instead(c, q))
BY InsteadIs DEF Onward

(* So is the first step done. *)
LEMMA PastOn ==
    ASSUME CommandsOK, NEW c \in Commands, cmd[c].todo # <<>>, step(c).do # "teardown"
    PROVE  Onward(c, Past(c))
<1>1. <<>> \in Seq(Quiet)
  OBVIOUS
<1> QED
  BY <1>1, InsteadOn DEF Past

(* And the fields the argument does not look at may change. *)
LEMMA OtherFields ==
    ASSUME NEW c, NEW r, Onward(c, r), NEW x, NEW y, NEW z
    PROVE  /\ Onward(c, [r EXCEPT !.held = x]) /\ Onward(c, [r EXCEPT !.known = x])
           /\ Onward(c, [r EXCEPT !.have = x]) /\ Onward(c, [r EXCEPT !.seen = x])
           /\ Onward(c, [r EXCEPT !.known = x, !.held = y])
           /\ Onward(c, [r EXCEPT !.at = x, !.snap = y])
           /\ Onward(c, [r EXCEPT !.at = x, !.snap = y, !.tries = z])
<1>1. /\ Fields(r) /\ r.job = cmd[c].job
      /\ \/ r.todo = cmd[c].todo
         \/ r.todo = <<>>
         \/ /\ cmd[c].todo # <<>> /\ step(c).do # "teardown"
            /\ \E q \in Seq(Quiet) : r.todo = q \o Tail(cmd[c].todo)
  BY DEF Onward
<1>2. ASSUME NEW n, Fields(n), n.job = r.job, n.todo = r.todo
      PROVE  Onward(c, n)
  BY <1>1, <1>2 DEF Onward
<1>3. /\ Fields([r EXCEPT !.held = x]) /\ [r EXCEPT !.held = x].job = r.job
      /\ [r EXCEPT !.held = x].todo = r.todo
  BY <1>1 DEF Fields, Shape
<1>4. /\ Fields([r EXCEPT !.known = x]) /\ [r EXCEPT !.known = x].job = r.job
      /\ [r EXCEPT !.known = x].todo = r.todo
  BY <1>1 DEF Fields, Shape
<1>5. /\ Fields([r EXCEPT !.have = x]) /\ [r EXCEPT !.have = x].job = r.job
      /\ [r EXCEPT !.have = x].todo = r.todo
  BY <1>1 DEF Fields, Shape
<1>6. /\ Fields([r EXCEPT !.seen = x]) /\ [r EXCEPT !.seen = x].job = r.job
      /\ [r EXCEPT !.seen = x].todo = r.todo
  BY <1>1 DEF Fields, Shape
<1>7. /\ Fields([r EXCEPT !.known = x, !.held = y]) /\ [r EXCEPT !.known = x, !.held = y].job = r.job
      /\ [r EXCEPT !.known = x, !.held = y].todo = r.todo
  BY <1>1 DEF Fields, Shape
<1>8. /\ Fields([r EXCEPT !.at = x, !.snap = y]) /\ [r EXCEPT !.at = x, !.snap = y].job = r.job
      /\ [r EXCEPT !.at = x, !.snap = y].todo = r.todo
  BY <1>1 DEF Fields, Shape
<1>9. /\ Fields([r EXCEPT !.at = x, !.snap = y, !.tries = z])
      /\ [r EXCEPT !.at = x, !.snap = y, !.tries = z].job = r.job
      /\ [r EXCEPT !.at = x, !.snap = y, !.tries = z].todo = r.todo
  BY <1>1 DEF Fields, Shape
<1>10. Onward(c, [r EXCEPT !.held = x])
  BY <1>2, <1>3
<1>11. Onward(c, [r EXCEPT !.known = x])
  BY <1>2, <1>4
<1>12. Onward(c, [r EXCEPT !.have = x])
  BY <1>2, <1>5
<1>13. Onward(c, [r EXCEPT !.seen = x])
  BY <1>2, <1>6
<1>14. Onward(c, [r EXCEPT !.known = x, !.held = y])
  BY <1>2, <1>7
<1>15. Onward(c, [r EXCEPT !.at = x, !.snap = y])
  BY <1>2, <1>8
<1>16. Onward(c, [r EXCEPT !.at = x, !.snap = y, !.tries = z])
  BY <1>2, <1>9
<1> QED
  BY <1>10, <1>11, <1>12, <1>13, <1>14, <1>15, <1>16

(* A command is on its way as it is. *)
LEMMA SameOn ==
    ASSUME CommandsOK, NEW c \in Commands
    PROVE  Onward(c, cmd[c])
BY DEF CommandsOK, Onward

(* An end gives its list up. *)
LEMMA EndedMoves ==
    ASSUME CommandsOK, NEW c \in Commands, NEW res, Ended(c, res)
    PROVE  Moves(c)
<1> DEFINE r == [Idle(job(c)) EXCEPT !.res = res]
<1>1. Fields(r) /\ r.job = job(c) /\ r.todo = <<>>
  BY DEF Fields, Shape, Idle
<1>2. cmd' = [cmd EXCEPT ![c] = r]
  BY DEF Ended
<1> HIDE DEF r
<1>3. Onward(c, r)
  BY <1>1 DEF Onward, job
<1> QED
  BY <1>2, <1>3 DEF Moves

(* A step that fails ends the command, or is past; a teardown's failure    *)
(* ends it.                                                                *)
LEMMA FailsMoves ==
    ASSUME CommandsOK, NEW c \in Commands, cmd[c].todo # <<>>, Fails(c)
    PROVE  Moves(c)
<1>1. CASE step(c).err = "abort" /\ Ended(c, "failed")
  BY <1>1, EndedMoves
<1>2. CASE /\ step(c).err # "abort"
           /\ Goes(c, [Past(c) EXCEPT !.bad = @ \/ step(c).err = "join",
                                      !.dirty = @ \/ step(c).err \in {"skip", "stop"},
                                      !.todo = IF step(c).err = "stop" THEN <<>> ELSE @])
  <2>1. step(c) \in StepType
    BY HeadTailProperties DEF CommandsOK, step
  <2>2. step(c).do # "teardown"
    BY <1>2, <2>1 DEF StepType
  <2>3. PICK p : p = Past(c)
    OBVIOUS
  <2>4. Onward(c, p)
    BY <2>2, <2>3, PastOn
  <2>5. PICK bad, dirty, todo :
          /\ todo = p.todo \/ todo = <<>>
          /\ cmd' = [cmd EXCEPT ![c] = [p EXCEPT !.bad = bad, !.dirty = dirty, !.todo = todo]]
    <3>1. cmd' = [cmd EXCEPT ![c] = [p EXCEPT !.bad = p.bad \/ step(c).err = "join",
                                              !.dirty = p.dirty \/ step(c).err \in {"skip", "stop"},
                                              !.todo = IF step(c).err = "stop" THEN <<>> ELSE p.todo]]
      BY <1>2, <2>3 DEF Goes
    <3> QED
      BY <3>1
  <2>6. PICK n : n = [p EXCEPT !.bad = bad, !.dirty = dirty, !.todo = todo]
    OBVIOUS
  <2>7. Fields(n) /\ n.job = p.job /\ n.todo = todo
    BY <2>4, <2>6 DEF Onward, Fields, Shape
  <2>8. Onward(c, n)
    BY <2>4, <2>5, <2>7 DEF Onward
  <2> QED
    BY <2>5, <2>6, <2>8 DEF Moves
<1> QED
  BY <1>1, <1>2 DEF Fails

-----------------------------------------------------------------------------
(* The steps, one after the other. *)

(* What a command is doing is not nothing. *)
LEMMA DoingIs ==
    ASSUME CommandsOK, NEW c \in Commands, NEW do, Doing(c, do)
    PROVE  cmd[c].todo # <<>> /\ step(c).do = do /\ step(c) \in StepType
BY HeadTailProperties DEF Doing, step, CommandsOK

(* Goes on, nothing else of the argument's changed. *)
LEMMA GoesPlain ==
    ASSUME NEW c, NEW r, Onward(c, r), Goes(c, r), UNCHANGED <<own, mark>>
    PROVE  Plain(c)
BY DEF Plain, Moves, Goes

(* Past a step, nothing else of the argument's changed. *)
LEMMA PastPlain ==
    ASSUME CommandsOK, NEW c \in Commands, cmd[c].todo # <<>>, step(c).do # "teardown",
           Goes(c, Past(c)), UNCHANGED <<own, mark>>
    PROVE  Plain(c)
BY PastOn, GoesPlain

(* A failure that changes nothing of the projects. *)
LEMMA FailsPlain ==
    ASSUME CommandsOK, NEW c \in Commands, cmd[c].todo # <<>>, FailsHere(c)
    PROVE  Plain(c)
BY FailsMoves DEF FailsHere, Plain, projects

(* The return of a function, and of the command. *)
LEMMA ReturnPlain ==
    ASSUME CommandsOK, NEW c \in Commands, Return(c) \/ Finish(c)
    PROVE  Plain(c)
<1>1. CASE Return(c) /\ ~cmd[c].bad
  <2>1. cmd[c].todo # <<>> /\ step(c).do # "teardown"
    BY <1>1, DoingIs DEF Return
  <2>2. Onward(c, [Past(c) EXCEPT !.held = {}])
    BY <2>1, PastOn, OtherFields
  <2> QED
    BY <1>1, <2>2, GoesPlain DEF Return, projects
<1>2. CASE Return(c) /\ cmd[c].bad
  BY <1>2, EndedMoves DEF Return, projects, Plain
<1>3. CASE Finish(c)
  BY <1>3, EndedMoves DEF Finish, projects, Plain
<1> QED
  BY <1>1, <1>2, <1>3

(* A step's list is in place of the first step of one that is doing it.    *)
LEMMA InsteadPlain ==
    ASSUME CommandsOK, NEW c \in Commands, cmd[c].todo # <<>>, step(c).do # "teardown",
           NEW q \in Seq(Quiet), Goes(c, Instead(c, q)), UNCHANGED <<own, mark>>
    PROVE  Plain(c)
BY InsteadOn, GoesPlain

(* The looks at the global project put an upgrade in front. *)
LEMMA CheckPlain ==
    ASSUME CommandsOK, NEW c \in Commands, Check(c) \/ Recheck(c)
    PROVE  Plain(c)
<1> DEFINE x1 == Step("project", "", {})
           x2 == Step("acquire", "global", {})
           x3 == Step("recheck", "", {})
           y1 == Step("release", "global", {})
           y2 == Step("dropproject", "", {})
           y3 == Step("dropnet", "", {})
           y4 == Step("check", "", {})
<1>1. x1 \in Quiet /\ x2 \in Quiet /\ x3 \in Quiet /\ y1 \in Quiet /\ y2 \in Quiet /\ y3 \in Quiet /\ y4 \in Quiet
  BY ObjectsAre DEF Step, StepType, Quiet, Doings, LockNames
<1>2. /\ cmd[c].todo # <<>> /\ step(c).do # "teardown" /\ UNCHANGED <<own, mark>>
      /\ Goes(c, Past(c)) \/ Goes(c, Instead(c, <<x1, x2, x3>>)) \/ Goes(c, Instead(c, <<y1, y2, y3, y4>>))
  <2>1. CASE Check(c)
    <3>1. cmd[c].todo # <<>> /\ step(c).do # "teardown"
      <4>1. Doing(c, "check")
        BY <2>1 DEF Check
      <4> HIDE DEF x1, x2, x3, y1, y2, y3, y4
      <4> QED
        BY <4>1, DoingIs
    <3>2. Goes(c, Past(c)) \/ Goes(c, Instead(c, <<x1, x2, x3>>))
      BY <2>1 DEF Check
    <3> QED
      BY <2>1, <3>1, <3>2 DEF Check, projects
  <2>2. CASE Recheck(c)
    <3>1. cmd[c].todo # <<>> /\ step(c).do # "teardown"
      <4>1. Doing(c, "recheck")
        BY <2>2 DEF Recheck
      <4> HIDE DEF x1, x2, x3, y1, y2, y3, y4
      <4> QED
        BY <4>1, DoingIs
    <3>2. Goes(c, Past(c)) \/ Goes(c, Instead(c, <<y1, y2, y3, y4>>))
      BY <2>2 DEF Recheck
    <3> QED
      BY <2>2, <3>1, <3>2 DEF Recheck, projects
  <2> QED
    BY <2>1, <2>2
<1> HIDE DEF x1, x2, x3, y1, y2, y3, y4
<1>3. <<x1, x2, x3>> \in Seq(Quiet) /\ <<y1, y2, y3, y4>> \in Seq(Quiet)
  BY <1>1
<1>4. CASE Goes(c, Past(c))
  BY <1>2, <1>4, PastPlain
<1>5. CASE Goes(c, Instead(c, <<x1, x2, x3>>))
  BY <1>2, <1>3, <1>5, InsteadPlain
<1>6. CASE Goes(c, Instead(c, <<y1, y2, y3, y4>>))
  BY <1>2, <1>3, <1>6, InsteadPlain
<1> QED
  BY <1>2, <1>4, <1>5, <1>6

(* The global project and its locks. *)
LEMMA GlobalPlain ==
    ASSUME CommandsOK, NEW c \in Commands,
           DropProject(c) \/ DropNetwork(c) \/ EnsureProject(c) \/ Acquire(c) \/ Release(c)
    PROVE  Plain(c)
<1>1. CASE DropProject(c) \/ EnsureProject(c)
  <2>1. cmd[c].todo # <<>> /\ step(c).do # "teardown"
    BY <1>1, DoingIs DEF DropProject, EnsureProject
  <2>2. PICK x : Goes(c, [Past(c) EXCEPT !.known = x]) /\ UNCHANGED <<own, mark>>
    BY <1>1 DEF DropProject, EnsureProject
  <2>3. Onward(c, [Past(c) EXCEPT !.known = x])
    BY <2>1, PastOn, OtherFields
  <2> QED
    BY <2>2, <2>3, GoesPlain
<1>2. CASE DropNetwork(c)
  <2>1. cmd[c].todo # <<>> /\ step(c).do # "teardown"
    BY <1>2, DoingIs DEF DropNetwork
  <2> QED
    BY <1>2, <2>1, PastPlain DEF DropNetwork, projects
<1>3. CASE Acquire(c) /\ Ensured(c) # "none"
  <2>1. cmd[c].todo # <<>> /\ step(c).do # "teardown"
    BY <1>3, DoingIs DEF Acquire
  <2>2. PICK p : p = Past(c)
    OBVIOUS
  <2>3. PICK x : Goes(c, [p EXCEPT !.known = TRUE, !.held = x]) /\ UNCHANGED <<own, mark>>
    BY <1>3, <2>2 DEF Acquire
  <2>4. Onward(c, [p EXCEPT !.known = TRUE, !.held = x])
    BY <2>1, <2>2, PastOn, OtherFields
  <2> QED
    BY <2>3, <2>4, GoesPlain
<1>4. CASE Acquire(c) /\ Ensured(c) = "none"
  BY <1>4, DoingIs, FailsPlain DEF Acquire
<1>5. CASE Release(c)
  <2>1. cmd[c].todo # <<>> /\ step(c).do # "teardown"
    BY <1>5, DoingIs DEF Release
  <2>2. PICK p : p = Past(c)
    OBVIOUS
  <2>3. PICK x : Goes(c, [p EXCEPT !.held = x]) /\ UNCHANGED <<own, mark>>
    BY <1>5, <2>2 DEF Release, projects
  <2>4. Onward(c, [p EXCEPT !.held = x])
    BY <2>1, <2>2, PastOn, OtherFields
  <2> QED
    BY <2>3, <2>4, GoesPlain
<1> QED
  BY <1>1, <1>2, <1>3, <1>4, <1>5

(* The lists of a project's network, and none for no project. *)
LEMMA EnsureAllStrict ==
    ASSUME CommandsOK, NEW c \in Commands
    PROVE  EnsureAll(c) \in Seq(Strict) /\ StartAll(c) \in Seq(Strict)
<1>1. PICK p : p = job(c).project
  OBVIOUS
<1>2. p \in Projects \/ p = None
  BY <1>1 DEF CommandsOK, Jobs
<1>3. CASE p = None
  BY <1>1, <1>3 DEF EnsureAll, StartAll
<1>4. CASE p # None
  <2>1. p \in Projects /\ p \in Nets /\ {} \in SUBSET Nets /\ {defaultACLName(p)} \in SUBSET ACLs
    BY <1>2, <1>4, ObjectsAre, ACLsAre
  <2>2. StartNetwork(p, {}, {defaultACLName(p)}) \in Seq(Strict)
    BY <2>1, SmallSets, StartStrict
  <2> DEFINE x == Step("ensure", p, {})
  <2>3. x \in Strict
    BY <2>1, ObjectsAre DEF Step, StepType, Doings, Strict, Calm, Quiet, Handled, Making
  <2>4. EnsureAll(c) = <<x>> /\ StartAll(c) = StartNetwork(p, {}, {defaultACLName(p)})
    BY <1>1, <1>4 DEF EnsureAll, StartAll
  <2> HIDE DEF x
  <2> QED
    BY <2>2, <2>3, <2>4
<1> QED
  BY <1>3, <1>4

(* What is looked up brings the image, the sidecar and its networks.       *)
LEMMA LookupPlain ==
    ASSUME CommandsOK, NEW c \in Commands, Lookup(c) \/ LookupFails(c)
    PROVE  Plain(c)
<1>1. CASE Lookup(c)
  <2>1. cmd[c].todo # <<>> /\ step(c).do # "teardown" /\ step(c) \in StepType
    BY <1>1, DoingIs DEF Lookup
  <2>2. PICK d : d = step(c).on
    OBVIOUS
  <2>3. d \in Objects
    BY <2>1, <2>2 DEF StepType
  <2>4. PICK have : have = inst[d].image
    OBVIOUS
  <2> DEFINE fetch == IF have = "new" THEN <<>> ELSE Lock("store") \o <<Step("release", "store", {})>>
             s == <<Step("inst", d, {}), Step("replace", d, {})>>
             e == <<Step("start", d, {})>>
  <2>5. fetch \in Seq(Quiet)
    <3> DEFINE x == Step("release", "store", {})
    <3>1. Lock("store") \in Seq(Quiet) /\ x \in Quiet
      BY LockStrict, StrictIsQuiet, ObjectsAre DEF LockNames, Step, StepType, Quiet, Doings
    <3> HIDE DEF x
    <3>2. Lock("store") \o <<x>> \in Seq(Quiet) /\ <<>> \in Seq(Quiet)
      BY <3>1
    <3> QED
      BY <3>2 DEF x
  <2>6. s \in Seq(Quiet) /\ e \in Seq(Quiet)
    <3> DEFINE x == Step("inst", d, {})
               y == Step("replace", d, {})
               z == Step("start", d, {})
    <3>1. x \in Quiet /\ y \in Quiet /\ z \in Quiet
      BY <2>3 DEF Step, StepType, Quiet, Doings
    <3> HIDE DEF x, y, z
    <3>2. <<x, y>> \in Seq(Quiet) /\ <<z>> \in Seq(Quiet)
      BY <3>1
    <3> QED
      BY <3>2 DEF x, y, z
  <2>7. PICK a, b : a = EnsureAll(c) /\ b = StartAll(c)
    OBVIOUS
  <2>8. PICK q : q = a \o fetch \o s \o b \o e
    OBVIOUS
  <2>9. /\ Goes(c, [Instead(c, q) EXCEPT !.have = have]) /\ UNCHANGED <<own, mark>>
    BY <1>1, <2>2, <2>4, <2>7, <2>8 DEF Lookup, projects
  <2>10. a \in Seq(Quiet) /\ b \in Seq(Quiet)
    BY <2>7, EnsureAllStrict, StrictIsQuiet
  <2> HIDE DEF fetch, s, e
  <2>11. q \in Seq(Quiet)
    BY <2>5, <2>6, <2>8, <2>10
  <2>12. PICK r : r = Instead(c, q)
    OBVIOUS
  <2>13. Onward(c, [r EXCEPT !.have = have])
    BY <2>1, <2>11, <2>12, InsteadOn, OtherFields
  <2> QED
    BY <2>9, <2>12, <2>13, GoesPlain
<1>2. CASE LookupFails(c)
  BY <1>2, DoingIs, FailsPlain DEF LookupFails
<1> QED
  BY <1>1, <1>2

(* The hook in front of a sidecar: its network and its nic, or none.       *)
LEMMA HookPlain ==
    ASSUME CommandsOK, NEW c \in Commands, HookEnsure(c)
    PROVE  Plain(c)
<1>1. cmd[c].todo # <<>> /\ step(c).do # "teardown"
  BY DoingIs DEF HookEnsure
<1> DEFINE x == Step("ensure", Resolver, {})
           y == Step("patch", Resolver, {})
           v1 == Step("create", "dns", {})
           v2 == Step("create", "dns", {Resolver})
           w1 == Step("create", "healthd", {})
           w2 == Step("create", "healthd", {Resolver})
<1>2. x \in Quiet /\ y \in Quiet /\ v1 \in Quiet /\ v2 \in Quiet /\ w1 \in Quiet /\ w2 \in Quiet
  <2>1. Resolver \in Objects /\ "dns" \in Objects /\ "healthd" \in Objects
    BY ObjectsAre DEF Daemons
  <2>2. {Resolver} \in SUBSET Objects /\ {} \in SUBSET Objects
    BY <2>1
  <2> QED
    BY <2>1, <2>2 DEF Step, StepType, Quiet, Doings
<1>3. PICK q : /\ Goes(c, Instead(c, q))
               /\ q \in {<<v1>>, <<x, y>> \o <<v2>>, <<w1>>, <<x, y>> \o <<w2>>}
  BY DEF HookEnsure, dnsGetResources, healthdGetResources, sidecarEnsureNetwork
<1>4. UNCHANGED <<own, mark>>
  BY DEF HookEnsure, projects
<1> HIDE DEF x, y, v1, v2, w1, w2
<1>5. q \in Seq(Quiet)
  <2>1. /\ <<x, y>> \in Seq(Quiet) /\ <<v1>> \in Seq(Quiet) /\ <<v2>> \in Seq(Quiet)
        /\ <<w1>> \in Seq(Quiet) /\ <<w2>> \in Seq(Quiet)
    BY <1>2
  <2>2. <<x, y>> \o <<v2>> \in Seq(Quiet) /\ <<x, y>> \o <<w2>> \in Seq(Quiet)
    BY <2>1
  <2> QED
    BY <1>3, <2>1, <2>2
<1> QED
  BY <1>1, <1>3, <1>4, <1>5, InsteadPlain

(* A sidecar that is older makes way and is made again. *)
LEMMA ReplacePlain ==
    ASSUME CommandsOK, NEW c \in Commands, Replace(c)
    PROVE  Plain(c)
<1>1. cmd[c].todo # <<>> /\ step(c).do # "teardown" /\ step(c) \in StepType
  BY DoingIs DEF Replace
<1>2. PICK d : d = step(c).on
  OBVIOUS
<1>3. d \in Objects
  BY <1>1, <1>2 DEF StepType
<1> DEFINE x == Step("stop", d, {})
           y == Step("delete", d, {})
           z == Step("inst", d, {})
<1>4. x \in Quiet /\ y \in Quiet /\ z \in Quiet
  BY <1>3 DEF Step, StepType, Quiet, Doings
<1>5. PICK a : a = EnsureAll(c)
  OBVIOUS
<1>6. PICK q : q = <<x, y>> \o a \o <<z>>
  OBVIOUS
<1>7. /\ Goes(c, Past(c)) \/ Goes(c, [Instead(c, q) EXCEPT !.have = "none"])
      /\ UNCHANGED <<own, mark>>
  BY <1>2, <1>5, <1>6 DEF Replace, projects
<1>8. a \in Seq(Quiet)
  BY <1>5, EnsureAllStrict, StrictIsQuiet
<1> HIDE DEF x, y, z
<1>9. q \in Seq(Quiet)
  BY <1>4, <1>6, <1>8
<1>10. PICK r : r = Instead(c, q)
  OBVIOUS
<1>11. Onward(c, [r EXCEPT !.have = "none"])
  BY <1>1, <1>9, <1>10, InsteadOn, OtherFields
<1>12. CASE Goes(c, Past(c))
  BY <1>1, <1>7, <1>12, PastPlain
<1>13. CASE Goes(c, [Instead(c, q) EXCEPT !.have = "none"])
  BY <1>7, <1>10, <1>11, <1>13, GoesPlain
<1> QED
  BY <1>7, <1>12, <1>13

(* The sidecar is made, changed, or is not there. *)
LEMMA InstancePlain ==
    ASSUME CommandsOK, NEW c \in Commands, CreateInstance(c) \/ ChangeInstance(c)
    PROVE  Plain(c)
<1>1. cmd[c].todo # <<>> /\ step(c).do # "teardown"
  <2>1. \E do \in {"create", "stop", "delete", "start"} : Doing(c, do)
    BY DEF CreateInstance, ChangeInstance
  <2> QED
    BY <2>1, DoingIs
<1>2. PICK p : p = Past(c)
  OBVIOUS
<1>3. \/ \E x : Goes(c, [p EXCEPT !.have = x]) /\ UNCHANGED <<own, mark>>
      \/ Goes(c, p) /\ UNCHANGED <<own, mark>>
      \/ FailsHere(c)
  BY <1>2 DEF CreateInstance, ChangeInstance, projects
<1>4. CASE FailsHere(c)
  BY <1>1, <1>4, FailsPlain
<1>5. CASE Goes(c, p) /\ UNCHANGED <<own, mark>>
  BY <1>1, <1>2, <1>5, PastPlain
<1>6. CASE \E x : Goes(c, [p EXCEPT !.have = x]) /\ UNCHANGED <<own, mark>>
  <2>1. PICK x : Goes(c, [p EXCEPT !.have = x]) /\ UNCHANGED <<own, mark>>
    BY <1>6
  <2>2. Onward(c, [p EXCEPT !.have = x])
    BY <1>1, <1>2, PastOn, OtherFields
  <2> QED
    BY <2>1, <2>2, GoesPlain
<1> QED
  BY <1>3, <1>4, <1>5, <1>6

(* The project's replicas, and the records of those the run has seen.      *)
LEMMA ReplicasPlain ==
    ASSUME CommandsOK, NEW c \in Commands, See(c) \/ RunInstance(c) \/ HaltInstance(c)
    PROVE  Plain(c)
<1>1. cmd[c].todo # <<>> /\ step(c).do # "teardown" /\ step(c) \in StepType
  <2>1. \E do \in {"see", "run", "halt"} : Doing(c, do)
    BY DEF See, RunInstance, HaltInstance
  <2> QED
    BY <2>1, DoingIs
<1>2. PICK r, seen : Watched(c, r, seen)
  BY DEF See, RunInstance, HaltInstance
<1>3. PICK q : q = Alias(c)
  OBVIOUS
<1>4. q \in Seq(Quiet)
  <2>1. PICK err : err = step(c).err
    OBVIOUS
  <2>2. err \in {"abort", "join", "skip", "stop"}
    BY <1>1, <2>1 DEF StepType
  <2> DEFINE x == On(err, Step("alias", Bridge, {}))
  <2>3. x \in Quiet
    BY <2>2, ObjectsAre DEF On, Step, StepType, Quiet, Doings
  <2>4. q = <<>> \/ q = <<x>>
    BY <1>3, <2>1 DEF Alias
  <2> HIDE DEF x
  <2>5. <<>> \in Seq(Quiet) /\ <<x>> \in Seq(Quiet)
    BY <2>3
  <2> QED
    BY <2>4, <2>5
<1>5. PICK n : n = Instead(c, q)
  OBVIOUS
<1>6. /\ Goes(c, Past(c)) \/ Goes(c, [n EXCEPT !.seen = seen])
      /\ UNCHANGED <<own, mark>>
  BY <1>2, <1>3, <1>5 DEF Watched
<1>7. Onward(c, [n EXCEPT !.seen = seen])
  BY <1>1, <1>4, <1>5, InsteadOn, OtherFields
<1>8. CASE Goes(c, Past(c))
  BY <1>1, <1>6, <1>8, PastPlain
<1>9. CASE Goes(c, [n EXCEPT !.seen = seen])
  BY <1>6, <1>7, <1>9, GoesPlain
<1> QED
  BY <1>6, <1>8, <1>9

(* The networks, their peers and ACLs. *)
LEMMA NetworkPlain ==
    ASSUME CommandsOK, NEW c \in Commands,
           \/ EnsureNetwork(c) \/ CreateNetwork(c) \/ GetNetwork(c) \/ EnsurePeer(c) \/ EnsureACL(c)
           \/ DeleteACL(c) \/ RemovePeer(c) \/ DeleteNetwork(c)
    PROVE  Plain(c)
<1>1. cmd[c].todo # <<>> /\ step(c).do # "teardown"
  <2>1. \E do \in {"ensure", "get", "peer", "acl", "delacl", "unpeer", "delnet"} : Doing(c, do)
    BY DEF EnsureNetwork, CreateNetwork, GetNetwork, EnsurePeer, EnsureACL, DeleteACL, RemovePeer, DeleteNetwork
  <2> QED
    BY <2>1, DoingIs
<1>2. FailsHere(c) \/ (Goes(c, Past(c)) /\ UNCHANGED <<own, mark>>)
  BY DEF EnsureNetwork, CreateNetwork, GetNetwork, EnsurePeer, EnsureACL, DeleteACL, RemovePeer,
         DeleteNetwork, projects
<1> QED
  BY <1>1, <1>2, FailsPlain, PastPlain

(* A read and write, its retries and its second look. *)
LEMMA UpdatePlain ==
    ASSUME CommandsOK, NEW c \in Commands, Gone(c) \/ Read(c) \/ Write(c) \/ Verify(c)
    PROVE  Plain(c)
<1>1. cmd[c].todo # <<>> /\ step(c).do # "teardown"
  <2>1. \E do \in {"attach", "detach", "patch", "alias"} : Doing(c, do)
    BY DEF Gone, Read, Write, Verify, Updating
  <2> QED
    BY <2>1, DoingIs
<1>2. PICK r : r = cmd[c]
  OBVIOUS
<1>3. \/ FailsHere(c)
      \/ Goes(c, Past(c)) /\ UNCHANGED <<own, mark>>
      \/ \E x, y : Goes(c, [r EXCEPT !.at = x, !.snap = y]) /\ UNCHANGED <<own, mark>>
      \/ \E x, y, z : Goes(c, [r EXCEPT !.at = x, !.snap = y, !.tries = z]) /\ UNCHANGED <<own, mark>>
  <2>1. CASE Gone(c)
    BY <2>1 DEF Gone, projects
  <2>2. CASE Read(c)
    BY <1>2, <2>2 DEF Read, projects
  <2>3. CASE Again(c)
    BY <1>2, <2>3 DEF Again, projects
  <2>4. CASE Write(c)
    BY <1>2, <2>3, <2>4 DEF Write, projects
  <2>5. CASE Verify(c)
    BY <1>2, <2>3, <2>5 DEF Verify, projects
  <2> QED
    BY <2>1, <2>2, <2>4, <2>5
<1>4. CASE FailsHere(c)
  BY <1>1, <1>4, FailsPlain
<1>5. CASE Goes(c, Past(c)) /\ UNCHANGED <<own, mark>>
  BY <1>1, <1>5, PastPlain
<1>6. ASSUME NEW x, NEW y, Goes(c, [r EXCEPT !.at = x, !.snap = y]), UNCHANGED <<own, mark>>
      PROVE  Plain(c)
  <2>1. Onward(c, [r EXCEPT !.at = x, !.snap = y])
    BY <1>2, SameOn, OtherFields
  <2> QED
    BY <1>6, <2>1, GoesPlain
<1>7. ASSUME NEW x, NEW y, NEW z, Goes(c, [r EXCEPT !.at = x, !.snap = y, !.tries = z]),
             UNCHANGED <<own, mark>>
      PROVE  Plain(c)
  <2>1. Onward(c, [r EXCEPT !.at = x, !.snap = y, !.tries = z])
    BY <1>2, SameOn, OtherFields
  <2> QED
    BY <1>7, <2>1, GoesPlain
<1> QED
  BY <1>3, <1>4, <1>5, <1>6, <1>7

(* A request that fails. *)
LEMMA FaultPlain ==
    ASSUME CommandsOK, NEW c \in Commands, Fault(c)
    PROVE  Plain(c)
BY FailsPlain DEF Fault

-----------------------------------------------------------------------------
(* The invariant. *)

(* It holds on every host a command may find: nothing is ahead yet.        *)
LEMMA Initially == Init => IInv
<1> SUFFICES ASSUME Init PROVE IInv
  OBVIOUS
<1>1. PICK k \in Cases : Host(k.host) /\ cmd = [c \in Commands |-> Idle(k.jobs[c])]
  BY DEF Init
<1>2. k.host.own \subseteq Daemons /\ k.jobs \in [Commands -> Jobs]
  BY SidecarsAssumption
<1>3. CommandsOK
  <2>1. ASSUME NEW c \in Commands
        PROVE  Fields(cmd[c]) /\ job(c) \in Jobs /\ cmd[c].todo = <<>>
    BY <1>1, <1>2 DEF Fields, Shape, Idle, job
  <2>2. <<>> \in Seq(StepType)
    OBVIOUS
  <2> QED
    BY <1>1, <2>1, <2>2 DEF CommandsOK
<1>4. /\ own = [p \in Projects |-> IF p \in k.host.up THEN {} ELSE k.host.own]
      /\ mark = [p \in Projects |-> IF p \in k.host.up THEN Daemons ELSE {}]
  BY <1>1 DEF Host
<1>5. OwnersOK /\ OneDaemon
  BY <1>2, <1>4, ObjectsAre DEF OwnersOK, OneDaemon
<1>6. AheadOK
  BY <1>1 DEF AheadOK, TornFirst, Idle
<1> QED
  BY <1>3, <1>5, <1>6 DEF IInv

(* A list in line stays so with less to tear down. *)
LEMMA LessOwned ==
    \A s : \A a, b : TornFirst(s, a) /\ b \subseteq a => TornFirst(s, b)
BY DEF TornFirst

(* A command that goes on, by any of its ways, keeps what is ahead in      *)
(* line.                                                                   *)
LEMMA OnwardInLine ==
    ASSUME CommandsOK, AheadOK, NEW c \in Commands, NEW r, Onward(c, r)
    PROVE  /\ Fields(r) /\ r.job = job(c) /\ r.todo \in Seq(StepType)
           /\ \A p \in Projects : job(c).project = p => TornFirst(r.todo, own[p])
<1>1. Fields(r) /\ r.job = job(c)
  BY DEF Onward, job
<1>2. PICK s : s = cmd[c].todo
  OBVIOUS
<1>3. s \in Seq(StepType)
  BY <1>2 DEF CommandsOK
<1>4. ASSUME NEW owned, TornFirst(s, owned)
      PROVE  r.todo \in Seq(StepType) /\ TornFirst(r.todo, owned)
  <2>1. CASE r.todo = s
    BY <1>3, <1>4, <2>1
  <2>2. CASE r.todo = <<>>
    BY <2>2 DEF TornFirst
  <2>3. ASSUME s # <<>>, Head(s).do # "teardown", NEW q \in Seq(Quiet), r.todo = q \o Tail(s)
        PROVE  r.todo \in Seq(StepType) /\ TornFirst(r.todo, owned)
    <3>1. Tail(s) \in Seq(StepType) /\ TornFirst(Tail(s), owned)
      BY <1>3, <1>4, <2>3, FirstDone
    <3> QED
      BY <2>3, <3>1, InFront
  <2> QED
    BY <1>2, <2>1, <2>2, <2>3 DEF Onward, step
<1>5. r.todo \in Seq(StepType)
  <2>1. TornFirst(s, {})
    BY DEF TornFirst
  <2> QED
    BY <1>4, <2>1
<1>6. \A p \in Projects : job(c).project = p => TornFirst(r.todo, own[p])
  BY <1>2, <1>4 DEF AheadOK
<1> QED
  BY <1>1, <1>5, <1>6

(* A command's new state is one that is in line, and no other command's    *)
(* changes.                                                                *)
LEMMA MovedInLine ==
    ASSUME CommandsOK, AheadOK, OwnersOK, NEW c \in Commands, NEW r, Fields(r), r.job = job(c),
           r.todo \in Seq(StepType), cmd' = [cmd EXCEPT ![c] = r],
           own' \in [Projects -> SUBSET Daemons], \A p \in Projects : own'[p] \subseteq own[p],
           \A p \in Projects : job(c).project = p => TornFirst(r.todo, own'[p])
    PROVE  CommandsOK' /\ AheadOK'
<1>1. /\ cmd' = [d \in Commands |-> cmd'[d]]
      /\ \A d \in Commands : cmd'[d] = IF d = c THEN r ELSE cmd[d]
  BY DEF CommandsOK
<1>2. ASSUME NEW d \in Commands
      PROVE  Fields(cmd'[d]) /\ cmd'[d].job = job(d) /\ cmd'[d].todo \in Seq(StepType)
  BY <1>1, <1>2 DEF CommandsOK, job
<1>3. CommandsOK'
  <2>1. \A d \in Commands : job(d)' = job(d)
    BY <1>2 DEF job
  <2> QED
    BY <1>1, <1>2, <2>1 DEF CommandsOK
<1>4. ASSUME NEW d \in Commands, NEW p \in Projects, job(d)'.project = p
      PROVE  TornFirst(cmd'[d].todo, own'[p])
  <2>1. job(d).project = p
    BY <1>2, <1>4 DEF job
  <2>2. CASE d = c
    BY <1>1, <2>1, <2>2
  <2>3. CASE d # c
    <3>1. cmd'[d] = cmd[d] /\ TornFirst(cmd[d].todo, own[p])
      BY <1>1, <2>1, <2>3 DEF AheadOK
    <3> QED
      BY <3>1, LessOwned
  <2> QED
    BY <2>2, <2>3
<1>5. AheadOK'
  BY <1>4 DEF AheadOK
<1> QED
  BY <1>3, <1>5

(* A plain step keeps the invariant. *)
LEMMA PlainKeeps ==
    ASSUME IInv, NEW c \in Commands, Plain(c)
    PROVE  IInv'
<1>1. PICK r : Onward(c, r) /\ cmd' = [cmd EXCEPT ![c] = r]
  BY DEF Plain, Moves
<1>2. own' = own /\ mark' = mark
  BY DEF Plain
<1>3. /\ Fields(r) /\ r.job = job(c) /\ r.todo \in Seq(StepType)
      /\ \A p \in Projects : job(c).project = p => TornFirst(r.todo, own[p])
  BY <1>1, OnwardInLine DEF IInv
<1>4. CommandsOK' /\ AheadOK'
  BY <1>1, <1>2, <1>3, MovedInLine DEF IInv, OwnersOK
<1> QED
  BY <1>2, <1>4 DEF IInv, OwnersOK, OneDaemon

(* A command starts with a list in line. *)
LEMMA StartKeeps ==
    ASSUME IInv, NEW c \in Commands, Start(c)
    PROVE  IInv'
<1>1. PICK j, a : j = job(c) /\ a = Program(job(c))
  OBVIOUS
<1>2. PICK r : r = [cmd[c] EXCEPT !.res = "run", !.todo = a]
  OBVIOUS
<1>3. cmd' = [cmd EXCEPT ![c] = r] /\ own' = own /\ mark' = mark
  BY <1>1, <1>2 DEF Start, projects
<1>4. Fields(cmd[c]) /\ j \in Jobs
  BY <1>1 DEF IInv, CommandsOK
<1>5. Fields(r) /\ r.job = job(c) /\ r.todo = a
  BY <1>2, <1>4 DEF Fields, Shape, job
<1>6. a \in Seq(StepType) /\ \A owned : TornFirst(a, owned)
  BY <1>1, <1>4, ProgramInLine
<1>7. CommandsOK' /\ AheadOK'
  BY <1>3, <1>5, <1>6, MovedInLine DEF IInv, OwnersOK
<1> QED
  BY <1>3, <1>7 DEF IInv, OwnersOK, OneDaemon

(* The teardown of a project's own sidecar: no mark ahead waits for it any *)
(* more, of this command or of another.                                    *)
LEMMA TeardownKeeps ==
    ASSUME IInv, NEW c \in Commands, NEW daemon, Teardown(c, daemon)
    PROVE  IInv'
<1>1. cmd[c].todo # <<>> /\ step(c).do = "teardown" /\ step(c).on = daemon
  BY DoingIs DEF Teardown, IInv
<1>2. PICK r : r = Past(c)
  OBVIOUS
<1>3. PICK o : o = job(c).project
  OBVIOUS
<1>4. /\ cmd' = [cmd EXCEPT ![c] = r] /\ mark' = mark
      /\ own' = [own EXCEPT ![o] = own[o] \ {daemon}]
  BY <1>2, <1>3 DEF Teardown, Goes
<1>5. PICK s : s = cmd[c].todo
  OBVIOUS
<1>6. s \in Seq(StepType) /\ s # <<>> /\ Head(s).on = daemon
  BY <1>1, <1>5 DEF IInv, CommandsOK, step
<1>7. Fields(r) /\ r.job = job(c) /\ r.todo = Tail(s)
  <2>1. Fields(r) /\ r.job = job(c) /\ r.todo = <<>> \o Tail(s)
    BY <1>2, <1>5, InsteadIs DEF IInv, Past, job
  <2>2. Tail(s) \in Seq(StepType)
    BY <1>6, HeadTailProperties
  <2> QED
    BY <2>1, <2>2, ConcatEmptySeq
<1>8. /\ own' \in [Projects -> SUBSET Daemons]
      /\ \A p \in Projects : own'[p] \subseteq own[p]
      /\ o \in Projects => daemon \notin own'[o]
  BY <1>4 DEF IInv, OwnersOK
<1>9. ASSUME NEW p \in Projects, o = p
      PROVE  TornFirst(r.todo, own'[p])
  <2>1. TornFirst(s, own[p])
    BY <1>3, <1>5, <1>9 DEF IInv, AheadOK
  <2> QED
    BY <1>6, <1>7, <1>8, <1>9, <2>1, FirstDone
<1>10. r.todo \in Seq(StepType)
  BY <1>6, <1>7, HeadTailProperties
<1>11. CommandsOK' /\ AheadOK'
  BY <1>3, <1>4, <1>7, <1>8, <1>9, <1>10, MovedInLine DEF IInv
<1>12. OwnersOK' /\ OneDaemon'
  BY <1>4, <1>8 DEF IInv, OwnersOK, OneDaemon
<1> QED
  BY <1>11, <1>12 DEF IInv

(* The mark: the project has no sidecar of its own for the daemon, for     *)
(* nothing is ahead of the mark that could remove one.                     *)
LEMMA MarkKeeps ==
    ASSUME IInv, NEW c \in Commands, Mark(c)
    PROVE  IInv'
<1>1. cmd[c].todo # <<>> /\ step(c).do = "mark" /\ step(c) \in StepType
  BY DoingIs DEF Mark, IInv
<1>2. PICK d : d = step(c).on
  OBVIOUS
<1>3. PICK o : o = job(c).project
  OBVIOUS
<1>4. CASE Plain(c)
  BY <1>4, PlainKeeps
<1>5. CASE Goes(c, Past(c)) /\ own' = own /\ mark' = [mark EXCEPT ![o] = mark[o] \union {d}]
  <2>1. PICK r : r = Past(c)
    OBVIOUS
  <2>2. Onward(c, r) /\ cmd' = [cmd EXCEPT ![c] = r]
    BY <1>1, <1>5, <2>1, PastOn DEF IInv, Goes
  <2>3. /\ Fields(r) /\ r.job = job(c) /\ r.todo \in Seq(StepType)
        /\ \A p \in Projects : job(c).project = p => TornFirst(r.todo, own[p])
    BY <2>2, OnwardInLine DEF IInv
  <2>4. CommandsOK' /\ AheadOK'
    BY <1>5, <2>2, <2>3, MovedInLine DEF IInv, OwnersOK
  <2>5. ASSUME o \in Projects PROVE d \notin own[o]
    <3>1. PICK s : s = cmd[c].todo
      OBVIOUS
    <3>2. s \in Seq(StepType) /\ s # <<>> /\ s[1] = step(c) /\ 1 \in 1..Len(s)
      BY <1>1, <3>1, HeadTailProperties DEF IInv, CommandsOK, step
    <3>3. TornFirst(s, own[o])
      BY <1>3, <2>5, <3>1 DEF IInv, AheadOK
    <3> QED
      BY <1>1, <1>2, <3>2, <3>3 DEF TornFirst
  <2>6. d \in Objects
    BY <1>1, <1>2 DEF StepType
  <2>7. OwnersOK'
    BY <1>5, <2>6 DEF IInv, OwnersOK
  <2>8. OneDaemon'
    <3>1. ASSUME NEW p \in Projects PROVE mark'[p] \intersect own'[p] = {}
      BY <1>5, <2>5, <3>1 DEF IInv, OwnersOK, OneDaemon
    <3> QED
      BY <3>1 DEF OneDaemon
  <2> QED
    BY <2>4, <2>7, <2>8 DEF IInv
<1>6. Plain(c) \/ (Goes(c, Past(c)) /\ own' = own /\ mark' = [mark EXCEPT ![o] = mark[o] \union {d}])
  <2>1. CASE cmd[c].at = "read" /\ d \in mark[o]
    BY <1>1, <1>2, <1>3, <2>1, PastPlain DEF IInv, Mark, projects
  <2>2. CASE cmd[c].at = "read" /\ d \notin mark[o]
    <3>1. PICK r : r = cmd[c]
      OBVIOUS
    <3>2. Goes(c, [r EXCEPT !.at = "write", !.snap = mark[o]]) /\ UNCHANGED <<own, mark>>
      BY <1>2, <1>3, <2>2, <3>1 DEF Mark, projects
    <3>3. PICK x, y : Goes(c, [r EXCEPT !.at = x, !.snap = y]) /\ UNCHANGED <<own, mark>>
      BY <3>2
    <3>4. Onward(c, [r EXCEPT !.at = x, !.snap = y])
      BY <3>1, SameOn, OtherFields DEF IInv
    <3> QED
      BY <3>3, <3>4, GoesPlain
  <2>3. CASE cmd[c].at = "write" /\ cmd[c].snap = mark[o]
    BY <1>2, <1>3, <2>3 DEF Mark
  <2>4. CASE cmd[c].at = "write" /\ cmd[c].snap # mark[o]
    BY <1>1, <1>2, <1>3, <2>4, FailsPlain DEF IInv, Mark
  <2>5. \/ cmd[c].at = "read" /\ d \in mark[o]
        \/ cmd[c].at = "read" /\ d \notin mark[o]
        \/ cmd[c].at = "write" /\ cmd[c].snap = mark[o]
        \/ cmd[c].at = "write" /\ cmd[c].snap # mark[o]
    BY <1>2, <1>3 DEF Mark
  <2> QED
    BY <2>1, <2>2, <2>3, <2>4, <2>5
<1> QED
  BY <1>4, <1>5, <1>6

(* Every step keeps the invariant. *)
LEMMA StepKeeps == IInv /\ [Next]_vars => IInv'
<1> SUFFICES ASSUME IInv, [Next]_vars PROVE IInv'
  OBVIOUS
<1>1. CASE UNCHANGED vars
  <2>1. cmd' = cmd /\ own' = own /\ mark' = mark
    BY <1>1 DEF vars
  <2> QED
    BY <2>1 DEF IInv, CommandsOK, OwnersOK, AheadOK, OneDaemon, job
<1>2. ASSUME NEW c \in Commands, Steps(c) \/ Fault(c)
      PROVE  IInv'
  <2>0. CommandsOK
    BY DEF IInv
  <2>1. CASE Start(c)
    BY <2>1, StartKeeps
  <2>2. CASE Return(c) \/ Finish(c)
    BY <2>0, <2>2, ReturnPlain, PlainKeeps
  <2>3. CASE Check(c) \/ Recheck(c)
    BY <2>0, <2>3, CheckPlain, PlainKeeps
  <2>4. CASE DropProject(c) \/ DropNetwork(c) \/ EnsureProject(c) \/ Acquire(c) \/ Release(c)
    BY <2>0, <2>4, GlobalPlain, PlainKeeps
  <2>5. CASE Mark(c)
    BY <2>5, MarkKeeps
  <2>6. CASE dnsTeardown(c) \/ healthdTeardown(c)
    BY <2>6, TeardownKeeps DEF dnsTeardown, healthdTeardown
  <2>7. CASE Lookup(c) \/ LookupFails(c)
    BY <2>0, <2>7, LookupPlain, PlainKeeps
  <2>8. CASE HookEnsure(c)
    BY <2>0, <2>8, HookPlain, PlainKeeps
  <2>9. CASE CreateInstance(c) \/ ChangeInstance(c)
    BY <2>0, <2>9, InstancePlain, PlainKeeps
  <2>10. CASE Replace(c)
    BY <2>0, <2>10, ReplacePlain, PlainKeeps
  <2>11. CASE See(c) \/ RunInstance(c) \/ HaltInstance(c)
    BY <2>0, <2>11, ReplicasPlain, PlainKeeps
  <2>12. CASE \/ EnsureNetwork(c) \/ CreateNetwork(c) \/ GetNetwork(c) \/ EnsurePeer(c) \/ EnsureACL(c)
              \/ DeleteACL(c) \/ RemovePeer(c) \/ DeleteNetwork(c)
    BY <2>0, <2>12, NetworkPlain, PlainKeeps
  <2>13. CASE Gone(c) \/ Read(c) \/ Write(c) \/ Verify(c)
    BY <2>0, <2>13, UpdatePlain, PlainKeeps
  <2>14. CASE Fault(c)
    BY <2>0, <2>14, FaultPlain, PlainKeeps
  <2> QED
    BY <1>2, <2>1, <2>2, <2>3, <2>4, <2>5, <2>6, <2>7, <2>8, <2>9, <2>10, <2>11, <2>12, <2>13, <2>14
       DEF Steps
<1>3. CASE Done
  BY <1>1, <1>3 DEF Done
<1> QED
  BY <1>1, <1>2, <1>3 DEF Next, Runs

(* A project is never watched by a sidecar of its own and by the shared    *)
(* one: dnsUp and healthdUp tear the first down before AddMissingProject-  *)
(* Config marks the project for the second, and neither another command,   *)
(* nor a failed request, nor the upgrade of the global project in between  *)
(* brings the first back or the mark forward.                              *)
THEOREM NeverTwice == Spec => []OneDaemon
<1>1. IInv => OneDaemon
  BY DEF IInv
<1> QED
  BY Initially, StepKeeps, <1>1, PTL DEF Spec

-----------------------------------------------------------------------------
(* The shared sidecars end up running.                                     *)
(*                                                                         *)
(* The hosts are those that need no upgrade: their global project is as    *)
(* this version makes it and no sidecar is older.  The argument is about   *)
(* the end of a command's whole list, so the invariant says of every list  *)
(* what is still to come: until a wanted sidecar runs, its lookup or its   *)
(* start is ahead; a sidecar is made without a nic only when it is there,  *)
(* that is never; and what a command remembers of a sidecar (`have`) is    *)
(* not put to use for the other one.                                       *)

CurrentHosts ==
    \A k \in Cases : /\ k.host.ovn => k.host.gproj \in {"none", "ovn"}
                     /\ k.host.image \in {"none", "new"}

(* The sidecars that are there, and those that are as they should be. *)
Present == {d \in Daemons : inst[d].image = "new"}
Serving == {d \in Daemons : inst[d] = [image |-> "new", nic |-> TRUE, running |-> TRUE]}

(* A step of a list without an upgrade. *)
Common ==
    {s \in StepType :
        /\ s.do \notin {"stop", "delete", "recheck", "dropproject", "dropnet"}
        /\ s.do \in Handled => s.on \in Daemons
        /\ s.do = "create" => s.with \in {{}, {Resolver}}}

(* A sidecar that a list makes without a nic is there, and so is one whose *)
(* hook would leave the nic out; nothing that changes `have` comes before  *)
(* a hook.                                                                 *)
Tidy(s, have, present) ==
    /\ s \in Seq(Common)
    /\ \A i \in 1..Len(s) :
        /\ s[i].do = "create" /\ s[i].with = {} => s[i].on \in present
        /\ s[i].do = "inst" => /\ have = "none" \/ s[i].on \in present
                               /\ \A j \in 1..(i - 1) : s[j].do \notin Making

Pending(s, d) == \E i \in 1..Len(s) : s[i].do \in {"lookup", "start"} /\ s[i].on = d
Firm(s) == \A i \in 1..Len(s) : s[i].err = "abort"
Wants(j, d) == j.what = "up" \/ j.daemon = d

(* A command and what it still has to do. *)
Fine(r, present, serving) ==
    /\ r.have \in {"none", "new"}
    /\ Tidy(r.todo, r.have, present)
    /\ r.job.what # "down" => Firm(r.todo)
    /\ \A d \in Daemons : Wants(r.job, d) =>
          /\ r.res = "run" => Pending(r.todo, d) \/ d \in serving
          /\ r.res = "ok" => d \in serving

HostsOK ==
    /\ kind = [n \in Nets |-> kind[n]]
    /\ ovn => gproj \in {"none", "ovn"} /\ kind[Resolver] # "bridge"

InstOK ==
    /\ inst = [d \in Daemons |-> inst[d]]
    /\ \A d \in Daemons : inst[d] = NoInst \/ \E b : inst[d] = [image |-> "new", nic |-> TRUE, running |-> b]

FineOK == \A c \in Commands : Fine(cmd[c], Present, Serving)

SInv == IInv /\ HostsOK /\ InstOK /\ FineOK

(* What is there stays there, and a command that was fine is. *)
LEMMA FineMore ==
    ASSUME NEW r, NEW present, NEW serving, NEW present2, NEW serving2,
           Fine(r, present, serving), present \subseteq present2, serving \subseteq serving2
    PROVE  Fine(r, present2, serving2)
BY DEF Fine, Tidy

(* Others stay fine when one goes on. *)
LEMMA MovedFine ==
    ASSUME CommandsOK, FineOK, NEW c \in Commands, NEW r, cmd' = [cmd EXCEPT ![c] = r],
           Fine(r, Present', Serving'), Present \subseteq Present', Serving \subseteq Serving'
    PROVE  FineOK'
<1>1. ASSUME NEW e \in Commands PROVE Fine(cmd'[e], Present', Serving')
  <2>1. CASE e = c
    BY <2>1 DEF CommandsOK
  <2>2. CASE e # c
    <3>1. cmd'[e] = cmd[e] /\ Fine(cmd[e], Present, Serving)
      BY <2>2 DEF CommandsOK, FineOK
    <3> QED
      BY <3>1, FineMore
  <2> QED
    BY <2>1, <2>2
<1> QED
  BY <1>1 DEF FineOK

(* Where the steps of a list come from once others are in place of the     *)
(* first.                                                                  *)
LEMMA InPlace ==
    ASSUME NEW S, NEW s \in Seq(S), s # <<>>, NEW q \in Seq(S), NEW r, r = q \o Tail(s)
    PROVE  /\ r \in Seq(S) /\ Len(q) \in Nat /\ Len(s) \in Nat \ {0} /\ Len(r) = Len(q) + Len(s) - 1
           /\ \A i \in 1..Len(r) :
                \/ i \in 1..Len(q) /\ r[i] = q[i]
                \/ i > Len(q) /\ i - Len(q) + 1 \in 2..Len(s) /\ r[i] = s[i - Len(q) + 1]
           /\ \A i \in 1..Len(q) : i \in 1..Len(r) /\ r[i] = q[i]
           /\ \A i \in 2..Len(s) : Len(q) + i - 1 \in 1..Len(r) /\ r[Len(q) + i - 1] = s[i]
           /\ Head(s) = s[1] /\ 1 \in 1..Len(s)
<1>1. /\ Tail(s) \in Seq(S) /\ Len(Tail(s)) = Len(s) - 1 /\ Head(s) = s[1]
      /\ \A i \in 1..Len(Tail(s)) : Tail(s)[i] = s[i + 1]
  BY HeadTailProperties
<1>2. /\ r \in Seq(S) /\ Len(r) = Len(q) + Len(Tail(s))
      /\ \A i \in 1..Len(r) : r[i] = IF i <= Len(q) THEN q[i] ELSE Tail(s)[i - Len(q)]
  BY <1>1, ConcatProperties
<1>3. Len(q) \in Nat /\ Len(s) \in Nat \ {0}
  BY EmptySeq
<1>4. ASSUME NEW i \in 1..Len(r)
      PROVE  \/ i \in 1..Len(q) /\ r[i] = q[i]
             \/ i > Len(q) /\ i - Len(q) + 1 \in 2..Len(s) /\ r[i] = s[i - Len(q) + 1]
  <2>1. CASE i <= Len(q)
    BY <1>2, <1>3, <2>1
  <2>2. CASE ~(i <= Len(q))
    <3>1. i - Len(q) \in 1..Len(Tail(s)) /\ i - Len(q) + 1 \in 2..Len(s) /\ i > Len(q)
      BY <1>1, <1>2, <1>3, <2>2
    <3> QED
      BY <1>1, <1>2, <2>2, <3>1
  <2> QED
    BY <2>1, <2>2
<1>5. ASSUME NEW i \in 1..Len(q) PROVE i \in 1..Len(r) /\ r[i] = q[i]
  BY <1>1, <1>2, <1>3
<1>6. ASSUME NEW i \in 2..Len(s) PROVE Len(q) + i - 1 \in 1..Len(r) /\ r[Len(q) + i - 1] = s[i]
  <2>1. /\ Len(q) + i - 1 \in 1..Len(r) /\ ~(Len(q) + i - 1 <= Len(q))
        /\ (Len(q) + i - 1) - Len(q) = i - 1 /\ i - 1 \in 1..Len(Tail(s)) /\ (i - 1) + 1 = i
    BY <1>1, <1>2, <1>3
  <2> QED
    BY <1>1, <1>2, <2>1
<1> QED
  BY <1>1, <1>2, <1>3, <1>4, <1>5, <1>6

(* A tidy list in place of the first step of a tidy list: when it changes  *)
(* what the command remembers, the first step was one after which no hook  *)
(* is left.                                                                *)
LEMMA TidyInPlace ==
    ASSUME NEW have, NEW have2, NEW present, NEW present2, present \subseteq present2,
           NEW s, s # <<>>, Tidy(s, have, present), NEW q, Tidy(q, have2, present2),
           \/ Head(s).do \in Making
           \/ have2 = have /\ \A i \in 1..Len(q) : q[i].do \notin Making
    PROVE  Tidy(q \o Tail(s), have2, present2)
<1>1. s \in Seq(Common) /\ q \in Seq(Common)
  BY DEF Tidy
<1>2. PICK r : r = q \o Tail(s)
  OBVIOUS
<1>3. /\ r \in Seq(Common) /\ Len(q) \in Nat /\ Len(s) \in Nat \ {0} /\ Len(r) = Len(q) + Len(s) - 1
      /\ \A i \in 1..Len(r) :
            \/ i \in 1..Len(q) /\ r[i] = q[i]
            \/ i > Len(q) /\ i - Len(q) + 1 \in 2..Len(s) /\ r[i] = s[i - Len(q) + 1]
      /\ Head(s) = s[1] /\ 1 \in 1..Len(s)
  BY <1>1, <1>2, InPlace
<1>4. ASSUME NEW i \in 1..Len(r), r[i].do = "create", r[i].with = {}
      PROVE  r[i].on \in present2
  <2>1. CASE i \in 1..Len(q) /\ r[i] = q[i]
    BY <1>4, <2>1 DEF Tidy
  <2>2. CASE i - Len(q) + 1 \in 2..Len(s) /\ r[i] = s[i - Len(q) + 1]
    <3>1. PICK k \in 1..Len(s) : r[i] = s[k]
      BY <1>3, <2>2
    <3>2. s[k].on \in present
      BY <1>4, <3>1 DEF Tidy
    <3> QED
      BY <3>1, <3>2
  <2> QED
    BY <1>3, <2>1, <2>2
<1>5. ASSUME NEW i \in 1..Len(r), r[i].do = "inst"
      PROVE  /\ have2 = "none" \/ r[i].on \in present2
             /\ \A j \in 1..(i - 1) : r[j].do \notin Making
  <2>1. CASE i \in 1..Len(q) /\ r[i] = q[i]
    <3>1. /\ have2 = "none" \/ q[i].on \in present2
          /\ \A j \in 1..(i - 1) : q[j].do \notin Making
      BY <1>5, <2>1 DEF Tidy
    <3>2. ASSUME NEW j \in 1..(i - 1) PROVE r[j].do \notin Making
      <4>1. j \in 1..Len(r) /\ ~(j > Len(q))
        BY <1>3, <2>1
      <4>2. r[j] = q[j]
        BY <1>3, <4>1
      <4> QED
        BY <3>1, <4>2
    <3> QED
      BY <2>1, <3>1, <3>2
  <2>2. CASE i > Len(q) /\ i - Len(q) + 1 \in 2..Len(s) /\ r[i] = s[i - Len(q) + 1]
    <3>1. PICK k : k = i - Len(q) + 1
      OBVIOUS
    <3>2. k \in 2..Len(s) /\ k \in 1..Len(s) /\ r[i] = s[k] /\ 1 \in 1..(k - 1)
      BY <1>3, <2>2, <3>1
    <3>3. /\ have = "none" \/ s[k].on \in present
          /\ \A j \in 1..(k - 1) : s[j].do \notin Making
      BY <1>5, <3>2 DEF Tidy
    <3>4. Head(s).do \notin Making
      BY <1>3, <3>2, <3>3
    <3>5. have2 = have /\ \A j \in 1..Len(q) : q[j].do \notin Making
      BY <3>4
    <3>6. ASSUME NEW j \in 1..(i - 1) PROVE r[j].do \notin Making
      <4>1. j \in 1..Len(r)
        BY <1>3
      <4>2. CASE j \in 1..Len(q) /\ r[j] = q[j]
        BY <3>5, <4>2
      <4>3. CASE j > Len(q) /\ j - Len(q) + 1 \in 2..Len(s) /\ r[j] = s[j - Len(q) + 1]
        <5>1. j - Len(q) + 1 \in 1..(k - 1)
          BY <1>3, <3>1, <4>3
        <5> QED
          BY <3>3, <4>3, <5>1
      <4> QED
        BY <1>3, <4>1, <4>2, <4>3
    <3> QED
      BY <3>2, <3>3, <3>5, <3>6
  <2> QED
    BY <1>3, <2>1, <2>2
<1>6. Tidy(r, have2, present2)
  BY <1>3, <1>4, <1>5 DEF Tidy
<1> QED
  BY <1>2, <1>6

(* What is ahead stays ahead while the first step is not the one.          *)
LEMMA PendingInPlace ==
    ASSUME NEW s \in Seq(StepType), s # <<>>, NEW q \in Seq(StepType), NEW d
    PROVE  /\ Pending(q, d) => Pending(q \o Tail(s), d)
           /\ Pending(s, d) /\ ~(Head(s).do \in {"lookup", "start"} /\ Head(s).on = d)
                => Pending(q \o Tail(s), d)
           /\ Firm(s) /\ Firm(q) => Firm(q \o Tail(s))
<1>1. PICK r : r = q \o Tail(s)
  OBVIOUS
<1>2. /\ Len(q) \in Nat /\ Len(s) \in Nat \ {0}
      /\ \A i \in 1..Len(r) :
            \/ i \in 1..Len(q) /\ r[i] = q[i]
            \/ i > Len(q) /\ i - Len(q) + 1 \in 2..Len(s) /\ r[i] = s[i - Len(q) + 1]
      /\ \A i \in 1..Len(q) : i \in 1..Len(r) /\ r[i] = q[i]
      /\ \A i \in 2..Len(s) : Len(q) + i - 1 \in 1..Len(r) /\ r[Len(q) + i - 1] = s[i]
      /\ Head(s) = s[1]
  BY <1>1, InPlace
<1>3. Pending(q, d) => Pending(r, d)
  BY <1>2 DEF Pending
<1>4. ASSUME Pending(s, d), ~(Head(s).do \in {"lookup", "start"} /\ Head(s).on = d)
      PROVE  Pending(r, d)
  <2>1. PICK i \in 1..Len(s) : s[i].do \in {"lookup", "start"} /\ s[i].on = d
    BY <1>4 DEF Pending
  <2>2. i # 1
    BY <1>2, <1>4, <2>1
  <2>3. i \in 2..Len(s)
    BY <1>2, <2>2
  <2>4. PICK k \in 1..Len(r) : r[k] = s[i]
    BY <1>2, <2>3
  <2> QED
    BY <2>1, <2>4 DEF Pending
<1>5. ASSUME Firm(s), Firm(q), NEW i \in 1..Len(r) PROVE r[i].err = "abort"
  <2>1. CASE i \in 1..Len(q) /\ r[i] = q[i]
    BY <1>5, <2>1 DEF Firm
  <2>2. CASE i - Len(q) + 1 \in 2..Len(s) /\ r[i] = s[i - Len(q) + 1]
    <3>1. PICK k \in 1..Len(s) : r[i] = s[k]
      BY <1>2, <2>2
    <3> QED
      BY <1>5, <3>1 DEF Firm
  <2> QED
    BY <1>2, <2>1, <2>2
<1> QED
  BY <1>1, <1>3, <1>4, <1>5 DEF Firm

(* A list about no sidecar is tidy. *)
LEMMA CalmTidy ==
    ASSUME NEW q \in Seq(Calm)
    PROVE  /\ q \in Seq(StepType) /\ \A i \in 1..Len(q) : q[i].do \notin Making
           /\ \A have, present : Tidy(q, have, present)
           /\ q \in Seq(Strict) => Firm(q)
<1>1. /\ Calm \subseteq Common /\ Calm \subseteq StepType
      /\ \A x \in Calm : x.do \notin Making /\ x.do # "create" /\ x.do # "inst"
  BY DEF Calm, Quiet, Common, Handled, Making
<1>2. \A i \in 1..Len(q) : q[i] \in Calm
  OBVIOUS
<1>3. q \in Seq(Common) /\ q \in Seq(StepType)
  BY <1>1
<1>4. ASSUME q \in Seq(Strict) PROVE Firm(q)
  BY <1>4 DEF Firm, Strict
<1> QED
  BY <1>1, <1>2, <1>3, <1>4 DEF Tidy

(* A command that goes on with a tidy list in place of its first step.     *)
LEMMA FineInPlace ==
    ASSUME NEW c, NEW present, NEW serving, NEW present2, NEW serving2,
           present \subseteq present2, serving \subseteq serving2,
           Fine(cmd[c], present, serving), cmd[c].res = "run", cmd[c].todo # <<>>,
           NEW r, r.job = cmd[c].job, r.have \in {"none", "new"}, r.res = "run",
           NEW q, r.todo = q \o Tail(cmd[c].todo), Tidy(q, r.have, present2),
           r.job.what # "down" => Firm(q),
           \/ step(c).do \in Making
           \/ r.have = cmd[c].have /\ \A i \in 1..Len(q) : q[i].do \notin Making,
           \A d \in Daemons : step(c).do \in {"lookup", "start"} /\ step(c).on = d
                                => Pending(q, d) \/ d \in serving2
    PROVE  Fine(r, present2, serving2)
<1>1. PICK s : s = cmd[c].todo
  OBVIOUS
<1>2. /\ Tidy(s, cmd[c].have, present) /\ s # <<>> /\ step(c) = Head(s)
      /\ r.job.what # "down" => Firm(s)
      /\ \A d \in Daemons : Wants(r.job, d) => Pending(s, d) \/ d \in serving
  BY <1>1 DEF Fine, step
<1>3. Tidy(r.todo, r.have, present2)
  BY <1>1, <1>2, TidyInPlace
<1>4. s \in Seq(StepType) /\ q \in Seq(StepType)
  BY <1>2 DEF Tidy, Common
<1>5. /\ \A d : Pending(q, d) => Pending(r.todo, d)
      /\ \A d : Pending(s, d) /\ ~(Head(s).do \in {"lookup", "start"} /\ Head(s).on = d)
                  => Pending(r.todo, d)
      /\ Firm(s) /\ Firm(q) => Firm(r.todo)
  BY <1>1, <1>2, <1>4, PendingInPlace
<1>6. ASSUME NEW d \in Daemons, Wants(r.job, d)
      PROVE  Pending(r.todo, d) \/ d \in serving2
  BY <1>2, <1>5, <1>6
<1> QED
  BY <1>2, <1>3, <1>5, <1>6 DEF Fine

-----------------------------------------------------------------------------
(* How a command goes on, once more: with the same list, or with one about *)
(* no sidecar in place of a first step that makes and starts none.         *)
Advances(c, r) ==
    /\ Fields(r) /\ r.job = cmd[c].job /\ r.have = cmd[c].have
    /\ cmd[c].res = "run" /\ r.res = "run"
    /\ \/ r.todo = cmd[c].todo
       \/ /\ cmd[c].todo # <<>> /\ step(c).do \notin Making \union {"start"}
          /\ \E q \in Seq(Calm) : /\ job(c).what # "down" => q \in Seq(Strict)
                                  /\ r.todo = q \o Tail(cmd[c].todo)

(* A step about no sidecar: it goes on, or fails.                          *)
Ordinary(c) ==
    /\ inst' = inst
    /\ \/ \E r : Advances(c, r) /\ cmd' = [cmd EXCEPT ![c] = r]
       \/ cmd[c].res = "run" /\ cmd[c].todo # <<>> /\ Fails(c)

(* With a list in place of its first step. *)
LEMMA InsteadAdvances ==
    ASSUME CommandsOK, NEW c \in Commands, cmd[c].res = "run", cmd[c].todo # <<>>,
           step(c).do \notin Making \union {"start"}, NEW q \in Seq(Calm),
           job(c).what # "down" => q \in Seq(Strict)
    PROVE  Advances(c, Instead(c, q))
<1>1. Fields(cmd[c])
  BY DEF CommandsOK
<1>2. /\ Instead(c, q).have = cmd[c].have /\ Instead(c, q).res = cmd[c].res
      /\ Fields(Instead(c, q)) /\ Instead(c, q).job = cmd[c].job
      /\ Instead(c, q).todo = q \o Tail(cmd[c].todo)
  BY <1>1 DEF Fields, Shape, Instead
<1> QED
  BY <1>2 DEF Advances

(* Past its first step. *)
LEMMA PastAdvances ==
    ASSUME CommandsOK, NEW c \in Commands, cmd[c].res = "run", cmd[c].todo # <<>>,
           step(c).do \notin Making \union {"start"}
    PROVE  Advances(c, Past(c))
<1>1. <<>> \in Seq(Calm) /\ <<>> \in Seq(Strict)
  OBVIOUS
<1> QED
  BY <1>1, InsteadAdvances DEF Past

(* As it is. *)
LEMMA SameAdvances ==
    ASSUME CommandsOK, NEW c \in Commands, cmd[c].res = "run"
    PROVE  Advances(c, cmd[c])
BY DEF CommandsOK, Advances

(* The fields the argument does not look at may change. *)
LEMMA OtherFieldsAdvance ==
    ASSUME NEW c, NEW r, Advances(c, r), NEW x, NEW y, NEW z
    PROVE  /\ Advances(c, [r EXCEPT !.held = x]) /\ Advances(c, [r EXCEPT !.known = x])
           /\ Advances(c, [r EXCEPT !.seen = x])
           /\ Advances(c, [r EXCEPT !.known = x, !.held = y])
           /\ Advances(c, [r EXCEPT !.at = x, !.snap = y])
           /\ Advances(c, [r EXCEPT !.at = x, !.snap = y, !.tries = z])
<1>1. Fields(r)
  BY DEF Advances
<1> DEFINE Same(n) == /\ Fields(n) /\ n.job = r.job /\ n.todo = r.todo
                      /\ n.have = r.have /\ n.res = r.res
<1>2. ASSUME NEW n, Same(n)
      PROVE  Advances(c, n)
  BY <1>2 DEF Advances
<1>3. Same([r EXCEPT !.held = x])
  BY <1>1 DEF Fields, Shape
<1>4. Same([r EXCEPT !.known = x])
  BY <1>1 DEF Fields, Shape
<1>5. Same([r EXCEPT !.seen = x])
  BY <1>1 DEF Fields, Shape
<1>6. Same([r EXCEPT !.known = x, !.held = y])
  BY <1>1 DEF Fields, Shape
<1>7. Same([r EXCEPT !.at = x, !.snap = y])
  BY <1>1 DEF Fields, Shape
<1>8. Same([r EXCEPT !.at = x, !.snap = y, !.tries = z])
  BY <1>1 DEF Fields, Shape
<1> HIDE DEF Same
<1>9. Advances(c, [r EXCEPT !.held = x])
  BY <1>2, <1>3
<1>10. Advances(c, [r EXCEPT !.known = x])
  BY <1>2, <1>4
<1>11. Advances(c, [r EXCEPT !.seen = x])
  BY <1>2, <1>5
<1>12. Advances(c, [r EXCEPT !.known = x, !.held = y])
  BY <1>2, <1>6
<1>13. Advances(c, [r EXCEPT !.at = x, !.snap = y])
  BY <1>2, <1>7
<1>14. Advances(c, [r EXCEPT !.at = x, !.snap = y, !.tries = z])
  BY <1>2, <1>8
<1> QED
  BY <1>9, <1>10, <1>11, <1>12, <1>13, <1>14

(* A command that goes on so is fine. *)
LEMMA AdvancesFine ==
    ASSUME NEW c, NEW r, Advances(c, r), Fine(cmd[c], Present, Serving)
    PROVE  Fine(r, Present, Serving)
<1>1. CASE r.todo = cmd[c].todo
  BY <1>1 DEF Advances, Fine
<1>2. ASSUME cmd[c].todo # <<>>, step(c).do \notin Making \union {"start"}, NEW q \in Seq(Calm),
             job(c).what # "down" => q \in Seq(Strict), r.todo = q \o Tail(cmd[c].todo)
      PROVE  Fine(r, Present, Serving)
  <2>1. /\ \A i \in 1..Len(q) : q[i].do \notin Making
        /\ Tidy(q, r.have, Present)
        /\ q \in Seq(Strict) => Firm(q)
    BY <1>2, CalmTidy
  <2>2. /\ r.job = cmd[c].job /\ r.have = cmd[c].have /\ cmd[c].res = "run" /\ r.res = "run"
        /\ r.have \in {"none", "new"} /\ job(c) = r.job
    BY DEF Advances, Fine, job
  <2>3. step(c).do \notin {"lookup", "start"}
    BY <1>2 DEF Making
  <2> QED
    BY <1>2, <2>1, <2>2, <2>3, FineInPlace
<1> QED
  BY <1>1, <1>2 DEF Advances

(* A command that has ended is fine, if it has failed or all it wanted is  *)
(* as it should be.                                                        *)
LEMMA EndedFine ==
    ASSUME CommandsOK, FineOK, NEW c \in Commands, NEW res, Ended(c, res), inst' = inst,
           \/ res = "failed"
           \/ res = "ok" /\ cmd[c].res = "run" /\ cmd[c].todo = <<>>
    PROVE  FineOK'
<1>1. PICK r : r = [Idle(job(c)) EXCEPT !.res = res]
  OBVIOUS
<1>2. /\ cmd' = [cmd EXCEPT ![c] = r] /\ r.todo = <<>> /\ r.have = "none" /\ r.res = res
      /\ r.job = cmd[c].job
  BY <1>1 DEF Ended, Idle, job
<1>3. Present' = Present /\ Serving' = Serving
  BY DEF Present, Serving
<1>4. Tidy(r.todo, r.have, Present) /\ Firm(r.todo)
  BY <1>2 DEF Tidy, Firm
<1>5. ASSUME NEW d \in Daemons, Wants(r.job, d), res = "ok"
      PROVE  d \in Serving
  <2>1. Pending(<<>>, d) \/ d \in Serving
    BY <1>2, <1>5 DEF FineOK, Fine
  <2> QED
    BY <2>1 DEF Pending
<1>6. Fine(r, Present, Serving)
  BY <1>2, <1>4, <1>5 DEF Fine
<1> QED
  BY <1>2, <1>3, <1>6, MovedFine

(* An ordinary step leaves every command fine: one that fails gives up, or *)
(* is one of a command that wants no sidecar.                              *)
LEMMA OrdinaryKeeps ==
    ASSUME CommandsOK, FineOK, NEW c \in Commands, Ordinary(c)
    PROVE  FineOK'
<1>1. Present' = Present /\ Serving' = Serving /\ inst' = inst
  BY DEF Ordinary, Present, Serving
<1>2. Fine(cmd[c], Present, Serving) /\ Fields(cmd[c]) /\ job(c) \in Jobs
  BY DEF FineOK, CommandsOK
<1>3. ASSUME NEW r, Advances(c, r), cmd' = [cmd EXCEPT ![c] = r]
      PROVE  FineOK'
  <2>1. Fine(r, Present, Serving)
    BY <1>2, <1>3, AdvancesFine
  <2> QED
    BY <1>1, <1>3, <2>1, MovedFine
<1>4. CASE cmd[c].res = "run" /\ cmd[c].todo # <<>> /\ Fails(c)
  <2>1. CASE step(c).err = "abort" /\ Ended(c, "failed")
    BY <1>1, <2>1, EndedFine
  <2>2. CASE /\ step(c).err # "abort"
             /\ Goes(c, [Past(c) EXCEPT !.bad = @ \/ step(c).err = "join",
                                        !.dirty = @ \/ step(c).err \in {"skip", "stop"},
                                        !.todo = IF step(c).err = "stop" THEN <<>> ELSE @])
    <3>1. PICK s : s = cmd[c].todo
      OBVIOUS
    <3>2. s \in Seq(Common) /\ s \in Seq(StepType) /\ s # <<>> /\ step(c) = Head(s)
      BY <1>2, <1>4, <3>1 DEF Fine, Tidy, Common, step
    <3>3. Head(s) = s[1] /\ 1 \in 1..Len(s)
      BY <3>2, InPlace
    <3>4. job(c).what = "down"
      BY <1>2, <2>2, <3>1, <3>2, <3>3 DEF Fine, Firm, job
    <3>5. \A d \in Daemons : ~Wants(job(c), d)
      BY <1>2, <3>4, SidecarsAssumption DEF Jobs, Wants
    <3>6. PICK p : p = Past(c)
      OBVIOUS
    <3>7. /\ Fields(p) /\ p.job = job(c) /\ p.have = cmd[c].have
          /\ p.todo = <<>> \o Tail(s)
      BY <1>2, <3>1, <3>6 DEF Past, Instead, Fields, Shape, job
    <3>8. PICK bad, dirty, todo :
            /\ todo = p.todo \/ todo = <<>>
            /\ cmd' = [cmd EXCEPT ![c] = [p EXCEPT !.bad = bad, !.dirty = dirty, !.todo = todo]]
      <4>1. cmd' = [cmd EXCEPT ![c] = [p EXCEPT !.bad = p.bad \/ step(c).err = "join",
                                                !.dirty = p.dirty \/ step(c).err \in {"skip", "stop"},
                                                !.todo = IF step(c).err = "stop" THEN <<>> ELSE p.todo]]
        BY <2>2, <3>6 DEF Goes
      <4> QED
        BY <4>1
    <3>9. PICK n : n = [p EXCEPT !.bad = bad, !.dirty = dirty, !.todo = todo]
      OBVIOUS
    <3>10. n.job = job(c) /\ n.have = cmd[c].have /\ n.todo = todo
      BY <3>7, <3>9 DEF Fields, Shape
    <3>11. Tidy(n.todo, n.have, Present)
      <4>1. Tidy(<<>>, n.have, Present)
        BY DEF Tidy
      <4>2. Tidy(<<>> \o Tail(s), n.have, Present)
        <5>1. Tidy(s, n.have, Present) /\ \A i \in 1..Len(<<>>) : (<<>>)[i].do \notin Making
          BY <1>2, <3>1, <3>10 DEF Fine
        <5> QED
          BY <3>2, <4>1, <5>1, TidyInPlace
      <4> QED
        BY <3>7, <3>8, <3>10, <4>1, <4>2
    <3>12. Fine(n, Present, Serving)
      BY <1>2, <3>4, <3>5, <3>10, <3>11 DEF Fine
    <3> QED
      BY <1>1, <3>8, <3>9, <3>12, MovedFine
  <2> QED
    BY <1>4, <2>1, <2>2 DEF Fails
<1> QED
  BY <1>3, <1>4 DEF Ordinary

-----------------------------------------------------------------------------
(* What commands are made of. *)

(* A list that makes no sidecar but looks for some, and gives up when a    *)
(* step fails.                                                             *)
Looking ==
    {s \in StepType : /\ s.do \notin Handled \ {"lookup"} /\ s.err = "abort"
                      /\ s.do = "lookup" => s.on \in Daemons}

LEMMA LookingTidy ==
    ASSUME NEW q \in Seq(Looking)
    PROVE  q \in Seq(StepType) /\ Firm(q) /\ \A have, present : Tidy(q, have, present)
<1>1. /\ Looking \subseteq Common /\ Looking \subseteq StepType
      /\ \A x \in Looking : x.do # "create" /\ x.do # "inst" /\ x.err = "abort"
  BY DEF Looking, Common, Handled, Making
<1>2. q \in Seq(Common) /\ q \in Seq(StepType) /\ \A i \in 1..Len(q) : q[i] \in Looking
  BY <1>1
<1> QED
  BY <1>1, <1>2 DEF Tidy, Firm

(* Two such lists, and what is ahead in either. *)
LEMMA LookingJoined ==
    ASSUME NEW s \in Seq(Looking), NEW t \in Seq(Looking)
    PROVE  s \o t \in Seq(Looking) /\ \A d : Pending(s, d) \/ Pending(t, d) => Pending(s \o t, d)
<1>1. /\ s \o t \in Seq(Looking) /\ Len(s \o t) = Len(s) + Len(t)
      /\ \A i \in 1..Len(s \o t) : (s \o t)[i] = IF i <= Len(s) THEN s[i] ELSE t[i - Len(s)]
  BY ConcatProperties
<1>2. ASSUME NEW d, Pending(s, d) PROVE Pending(s \o t, d)
  <2>1. PICK i \in 1..Len(s) : s[i].do \in {"lookup", "start"} /\ s[i].on = d
    BY <1>2 DEF Pending
  <2>2. i \in 1..Len(s \o t) /\ (s \o t)[i] = s[i]
    BY <1>1
  <2> QED
    BY <2>1, <2>2 DEF Pending
<1>3. ASSUME NEW d, Pending(t, d) PROVE Pending(s \o t, d)
  <2>1. PICK i \in 1..Len(t) : t[i].do \in {"lookup", "start"} /\ t[i].on = d
    BY <1>3 DEF Pending
  <2>2. /\ i + Len(s) \in 1..Len(s \o t) /\ ~(i + Len(s) <= Len(s)) /\ (i + Len(s)) - Len(s) = i
    BY <1>1
  <2>3. (s \o t)[i + Len(s)] = t[i]
    BY <1>1, <2>2
  <2> QED
    BY <2>1, <2>2, <2>3 DEF Pending
<1> QED
  BY <1>1, <1>2, <1>3

(* A strict list is one. *)
LEMMA StrictLooking == Strict \subseteq Looking /\ Seq(Strict) \subseteq Seq(Looking)
<1>1. Strict \subseteq Looking
  BY DEF Strict, Calm, Quiet, Looking, Handled, Making
<1> QED
  BY <1>1

(* A daemon's part of `up` ends with its lookup. *)
LEMMA SidecarUpLooking ==
    \A p : \A d \in Daemons : SidecarUp(p, d) \in Seq(Looking) /\ Pending(SidecarUp(p, d), d)
<1> TAKE p
<1> TAKE d \in Daemons
<1> DEFINE a == Step("teardown", d, {})
           b == Step("check", "", {})
           e == Step("project", "", {})
           f == Step("mark", d, {})
           g == Step("lookup", d, {})
<1>1. a \in Looking /\ b \in Looking /\ e \in Looking /\ f \in Looking /\ g \in Looking
  BY ObjectsAre DEF Step, StepType, Doings, Looking, Handled, Making
<1>2. g.do = "lookup" /\ g.on = d
  BY DEF Step
<1>3. SidecarUp(p, d) = <<a, b, e, f, g>>
  BY DEF SidecarUp
<1> HIDE DEF a, b, e, f, g
<1>4. PICK s : s = <<a, b, e, f, g>>
  OBVIOUS
<1>5. s \in Seq(Looking) /\ Len(s) = 5 /\ s[5] = g
  BY <1>1, <1>4
<1>6. Pending(s, d)
  BY <1>2, <1>5 DEF Pending
<1> QED
  BY <1>3, <1>4, <1>5, <1>6

(* `up` looks for both. *)
LEMMA UpLooking ==
    \A p \in Projects : Up(p) \in Seq(Looking) /\ \A d \in Daemons : Pending(Up(p), d)
<1> TAKE p \in Projects
<1> DEFINE a == SidecarUp(p, "healthd")
           b == <<Step("return", "", {})>>
           e == SidecarUp(p, "dns")
           f == Wire(p)
           g == <<Step("see", "", {})>>
           h == Each(LAMBDA i : Step("run", i, {}), Instances)
<1>1. a \in Seq(Looking) /\ e \in Seq(Looking) /\ Pending(a, "healthd") /\ Pending(e, "dns")
  BY SidecarUpLooking DEF Daemons
<1>2. b \in Seq(Looking) /\ g \in Seq(Looking)
  <2> DEFINE x == Step("return", "", {})
             y == Step("see", "", {})
  <2>1. x \in Looking /\ y \in Looking
    BY ObjectsAre DEF Step, StepType, Doings, Looking, Handled, Making
  <2> HIDE DEF x, y
  <2>2. <<x>> \in Seq(Looking) /\ <<y>> \in Seq(Looking)
    BY <2>1
  <2> QED
    BY <2>2 DEF x, y
<1>3. f \in Seq(Looking) /\ h \in Seq(Looking)
  BY WireStrict, EachInstanceCalm, StrictLooking
<1>4. Up(p) = (a \o b) \o ((e \o (f \o b)) \o (g \o h))
  <2>1. Up(p) = (a \o b) \o (e \o f \o b) \o (g \o h)
    BY DEF Up, healthdUp, dnsUp, DeployInstances
  <2> HIDE DEF a, b, e, f, g, h
  <2>2. \A x, y, z \in Seq(Looking) : (x \o y) \o z = x \o (y \o z)
    BY ConcatAssociative
  <2>3. a \o b \in Seq(Looking) /\ f \o b \in Seq(Looking) /\ g \o h \in Seq(Looking)
    BY <1>1, <1>2, <1>3, LookingJoined
  <2>4. (e \o f) \o b = e \o (f \o b)
    BY <1>1, <1>2, <1>3, <2>2
  <2>5. e \o (f \o b) \in Seq(Looking)
    BY <1>1, <2>3, LookingJoined
  <2>6. PICK x, y, z : x = a \o b /\ y = e \o (f \o b) /\ z = g \o h
    OBVIOUS
  <2>7. (x \o y) \o z = x \o (y \o z)
    BY <2>2, <2>3, <2>5, <2>6
  <2>8. Up(p) = (x \o y) \o z
    BY <2>1, <2>4, <2>6
  <2> QED
    BY <2>6, <2>7, <2>8
<1> HIDE DEF a, b, e, f, g, h
<1>5. a \o b \in Seq(Looking) /\ Pending(a \o b, "healthd")
  BY <1>1, <1>2, LookingJoined
<1>6. f \o b \in Seq(Looking) /\ g \o h \in Seq(Looking)
  BY <1>2, <1>3, LookingJoined
<1>7. e \o (f \o b) \in Seq(Looking) /\ Pending(e \o (f \o b), "dns")
  BY <1>1, <1>6, LookingJoined
<1>8. (e \o (f \o b)) \o (g \o h) \in Seq(Looking) /\ Pending((e \o (f \o b)) \o (g \o h), "dns")
  BY <1>6, <1>7, LookingJoined
<1>9. /\ Up(p) \in Seq(Looking)
      /\ Pending(Up(p), "dns") /\ Pending(Up(p), "healthd")
  BY <1>4, <1>5, <1>8, LookingJoined
<1> QED
  BY <1>9 DEF Daemons

(* Every command's list is fine when the command starts. *)
LEMMA ProgramFine ==
    \A j \in Jobs :
        /\ \A have, present : Tidy(Program(j), have, present)
        /\ j.what # "down" => Firm(Program(j))
        /\ \A d \in Daemons : Wants(j, d) => Pending(Program(j), d)
<1> TAKE j \in Jobs
<1>1. CASE j.what = "up"
  <2>1. j.project \in Projects
    BY <1>1 DEF Jobs
  <2>2. Program(j) = Up(j.project)
    BY <1>1 DEF Program
  <2> QED
    BY <2>1, <2>2, UpLooking, LookingTidy
<1>2. CASE j.what = "down"
  <2>1. j.project \in Projects /\ j.daemon = None
    BY <1>2 DEF Jobs
  <2>2. Program(j) = Down(j.project)
    BY <1>2 DEF Program
  <2>3. \A d \in Daemons : ~Wants(j, d)
    BY <1>2, <2>1, SidecarsAssumption DEF Wants
  <2> QED
    BY <1>2, <2>1, <2>2, <2>3, DownCalm, CalmTidy
<1>3. CASE j.what = "daemon"
  <2> DEFINE a == Step("check", "", {})
             b == Step("project", "", {})
             e == Step("lookup", j.daemon, {})
             g == Step("return", "", {})
  <2>0. j.daemon \in Daemons
    BY <1>3 DEF Jobs
  <2>1. a \in Looking /\ b \in Looking /\ e \in Looking /\ g \in Looking
    BY <2>0, ObjectsAre DEF Step, StepType, Doings, Looking, Handled, Making
  <2>2. Program(j) = <<a, b, e, g>>
    BY <1>3, <2>0 DEF Program, dnsUpGlobal, healthdUpGlobal, Daemons
  <2>3. e.do = "lookup" /\ e.on = j.daemon
    BY DEF Step
  <2> HIDE DEF a, b, e, g
  <2>4. PICK s : s = <<a, b, e, g>>
    OBVIOUS
  <2>5. s \in Seq(Looking) /\ Len(s) = 4 /\ s[3] = e
    BY <2>1, <2>4
  <2>6. Pending(s, j.daemon)
    BY <2>3, <2>5 DEF Pending
  <2>7. \A d \in Daemons : Wants(j, d) => d = j.daemon
    BY <1>3 DEF Wants
  <2> QED
    BY <2>2, <2>4, <2>5, <2>6, <2>7, LookingTidy
<1>4. CASE j.what = "none"
  <2>1. Program(j) = <<>> /\ j.daemon = None
    BY <1>4 DEF Program, Jobs
  <2>2. \A d \in Daemons : ~Wants(j, d)
    BY <1>4, <2>1, SidecarsAssumption DEF Wants
  <2>3. <<>> \in Seq(Looking)
    OBVIOUS
  <2> QED
    BY <2>1, <2>2, <2>3, LookingTidy
<1>5. j.what \in {"up", "down", "daemon", "none"}
  BY DEF Jobs
<1> QED
  BY <1>1, <1>2, <1>3, <1>4, <1>5

(* A command starts. *)
LEMMA StartFine ==
    ASSUME CommandsOK, FineOK, NEW c \in Commands, Start(c)
    PROVE  FineOK'
<1>1. PICK a : a = Program(job(c))
  OBVIOUS
<1>2. PICK r : r = [cmd[c] EXCEPT !.res = "run", !.todo = a]
  OBVIOUS
<1>3. cmd' = [cmd EXCEPT ![c] = r] /\ inst' = inst
  BY <1>1, <1>2 DEF Start, projects
<1>4. Fields(cmd[c]) /\ job(c) \in Jobs /\ Fine(cmd[c], Present, Serving)
  BY DEF CommandsOK, FineOK
<1>5. r.job = job(c) /\ r.todo = a /\ r.have = cmd[c].have /\ r.res = "run"
  BY <1>2, <1>4 DEF Fields, Shape, job
<1>6. /\ \A have, present : Tidy(a, have, present)
      /\ job(c).what # "down" => Firm(a)
      /\ \A d \in Daemons : Wants(job(c), d) => Pending(a, d)
  BY <1>1, <1>4, ProgramFine
<1>7. Fine(r, Present, Serving)
  BY <1>4, <1>5, <1>6 DEF Fine
<1>8. Present' = Present /\ Serving' = Serving
  BY <1>3 DEF Present, Serving
<1> QED
  BY <1>3, <1>7, <1>8, MovedFine

-----------------------------------------------------------------------------
(* The steps. *)

(* What a command is doing, and what is known of it. *)
LEMMA DoingFine ==
    ASSUME CommandsOK, FineOK, NEW c \in Commands, NEW do, Doing(c, do)
    PROVE  /\ cmd[c].todo # <<>> /\ cmd[c].res = "run" /\ step(c).do = do
           /\ step(c) \in Common /\ step(c) \in StepType
           /\ job(c).what # "down" => step(c).err = "abort"
           /\ do = "create" /\ step(c).with = {} => step(c).on \in Present
           /\ do = "inst" => cmd[c].have = "none" \/ step(c).on \in Present
<1>1. PICK s : s = cmd[c].todo
  OBVIOUS
<1>2. Tidy(s, cmd[c].have, Present) /\ (job(c).what # "down" => Firm(s))
  BY <1>1 DEF FineOK, Fine, job
<1>3. s \in Seq(Common) /\ s # <<>> /\ Head(s).do = do /\ cmd[c].res = "run" /\ step(c) = Head(s)
  BY <1>1, <1>2 DEF Doing, step, Tidy
<1>4. Head(s) = s[1] /\ 1 \in 1..Len(s) /\ Head(s) \in Common
  BY <1>3, InPlace
<1> QED
  BY <1>1, <1>2, <1>3, <1>4 DEF Tidy, Firm, Common

(* Goes on, no sidecar changed. *)
LEMMA GoesOrdinary ==
    ASSUME NEW c, NEW r, Advances(c, r), Goes(c, r), inst' = inst
    PROVE  Ordinary(c)
BY DEF Ordinary, Goes

(* A failure that changes nothing of the projects. *)
LEMMA FailsOrdinary ==
    ASSUME NEW c, cmd[c].res = "run", cmd[c].todo # <<>>, FailsHere(c)
    PROVE  Ordinary(c)
BY DEF FailsHere, Ordinary, projects

(* The return of a function, and of the command. *)
LEMMA ReturnFine ==
    ASSUME CommandsOK, FineOK, NEW c \in Commands, Return(c) \/ Finish(c)
    PROVE  FineOK'
<1>1. CASE Return(c) /\ ~cmd[c].bad
  <2>1. cmd[c].todo # <<>> /\ cmd[c].res = "run" /\ step(c).do \notin Making \union {"start"}
    BY <1>1, DoingFine DEF Return, Making
  <2>2. Advances(c, [Past(c) EXCEPT !.held = {}])
    BY <2>1, PastAdvances, OtherFieldsAdvance
  <2>3. Ordinary(c)
    BY <1>1, <2>2, GoesOrdinary DEF Return, projects
  <2> QED
    BY <2>3, OrdinaryKeeps
<1>2. CASE Return(c) /\ cmd[c].bad
  BY <1>2, EndedFine DEF Return, projects
<1>3. CASE Finish(c)
  BY <1>3, EndedFine DEF Finish, projects
<1> QED
  BY <1>1, <1>2, <1>3

(* On a host that needs no upgrade none begins. *)
LEMMA CheckOrdinary ==
    ASSUME CommandsOK, FineOK, HostsOK, NEW c \in Commands, Check(c)
    PROVE  Ordinary(c)
<1>1. cmd[c].todo # <<>> /\ cmd[c].res = "run" /\ step(c).do \notin Making \union {"start"}
  <2>1. Doing(c, "check")
    BY DEF Check
  <2> QED
    BY <2>1, DoingFine DEF Making
<1>2. ~(ovn /\ isLegacyGlobal)
  BY DEF HostsOK, isLegacyGlobal
<1>3. Goes(c, Past(c)) /\ inst' = inst
  BY <1>2 DEF Check, projects
<1> QED
  BY <1>1, <1>3, PastAdvances, GoesOrdinary

(* ... and none goes on, nor is a sidecar taken away. *)
LEMMA NoUpgrade ==
    ASSUME CommandsOK, FineOK, NEW c \in Commands
    PROVE  /\ ~Recheck(c) /\ ~DropProject(c) /\ ~DropNetwork(c)
           /\ \A do \in {"stop", "delete"} : ~Doing(c, do)
<1>1. ASSUME NEW do \in {"stop", "delete", "recheck", "dropproject", "dropnet"}, Doing(c, do)
      PROVE  FALSE
  BY <1>1, DoingFine DEF Common
<1> QED
  BY <1>1 DEF Recheck, DropProject, DropNetwork

(* The global project and its locks. *)
LEMMA GlobalOrdinary ==
    ASSUME CommandsOK, FineOK, NEW c \in Commands,
           EnsureProject(c) \/ Acquire(c) \/ Release(c)
    PROVE  Ordinary(c)
<1>1. cmd[c].todo # <<>> /\ cmd[c].res = "run" /\ step(c).do \notin Making \union {"start"}
  <2>1. \E do \in {"project", "acquire", "release"} : Doing(c, do)
    BY DEF EnsureProject, Acquire, Release
  <2> QED
    BY <2>1, DoingFine DEF Making
<1>2. PICK p : p = Past(c)
  OBVIOUS
<1>3. Advances(c, p)
  BY <1>1, <1>2, PastAdvances
<1>4. CASE EnsureProject(c)
  <2>1. PICK x : Goes(c, [p EXCEPT !.known = x]) /\ inst' = inst
    BY <1>2, <1>4 DEF EnsureProject
  <2> QED
    BY <1>3, <2>1, OtherFieldsAdvance, GoesOrdinary
<1>5. CASE Acquire(c) /\ Ensured(c) # "none"
  <2>1. PICK x : Goes(c, [p EXCEPT !.known = TRUE, !.held = x]) /\ inst' = inst
    BY <1>2, <1>5 DEF Acquire
  <2>2. Advances(c, [p EXCEPT !.known = TRUE, !.held = x])
    BY <1>3, OtherFieldsAdvance
  <2> QED
    BY <2>1, <2>2, GoesOrdinary
<1>6. CASE Acquire(c) /\ Ensured(c) = "none"
  BY <1>1, <1>6, FailsOrdinary DEF Acquire
<1>7. CASE Release(c)
  <2>1. PICK x : Goes(c, [p EXCEPT !.held = x]) /\ inst' = inst
    BY <1>2, <1>7 DEF Release, projects
  <2>2. Advances(c, [p EXCEPT !.held = x])
    BY <1>3, OtherFieldsAdvance
  <2> QED
    BY <2>1, <2>2, GoesOrdinary
<1> QED
  BY <1>4, <1>5, <1>6, <1>7

(* The project's mark, and its own sidecars. *)
LEMMA MarkOrdinary ==
    ASSUME CommandsOK, FineOK, NEW c \in Commands, Mark(c) \/ dnsTeardown(c) \/ healthdTeardown(c)
    PROVE  Ordinary(c)
<1>1. cmd[c].todo # <<>> /\ cmd[c].res = "run" /\ step(c).do \notin Making \union {"start"}
  <2>1. \E do \in {"mark", "teardown"} : Doing(c, do)
    BY DEF Mark, dnsTeardown, healthdTeardown, Teardown
  <2> QED
    BY <2>1, DoingFine DEF Making
<1>2. PICK r : r = cmd[c]
  OBVIOUS
<1>3. \/ FailsHere(c)
      \/ Goes(c, Past(c)) /\ inst' = inst
      \/ \E x, y : Goes(c, [r EXCEPT !.at = x, !.snap = y]) /\ inst' = inst
  BY <1>2 DEF Mark, dnsTeardown, healthdTeardown, Teardown, projects
<1>4. CASE FailsHere(c)
  BY <1>1, <1>4, FailsOrdinary
<1>5. CASE Goes(c, Past(c)) /\ inst' = inst
  BY <1>1, <1>5, PastAdvances, GoesOrdinary
<1>6. ASSUME NEW x, NEW y, Goes(c, [r EXCEPT !.at = x, !.snap = y]), inst' = inst
      PROVE  Ordinary(c)
  <2>1. Advances(c, [r EXCEPT !.at = x, !.snap = y])
    BY <1>1, <1>2, SameAdvances, OtherFieldsAdvance
  <2> QED
    BY <1>6, <2>1, GoesOrdinary
<1> QED
  BY <1>3, <1>4, <1>5, <1>6

(* The project's replicas, and the records of those the run has seen.      *)
LEMMA ReplicasOrdinary ==
    ASSUME CommandsOK, FineOK, NEW c \in Commands, See(c) \/ RunInstance(c) \/ HaltInstance(c)
    PROVE  Ordinary(c)
<1>1. /\ cmd[c].todo # <<>> /\ cmd[c].res = "run" /\ step(c).do \notin Making \union {"start"}
      /\ step(c) \in StepType /\ (job(c).what # "down" => step(c).err = "abort")
  <2>1. \E do \in {"see", "run", "halt"} : Doing(c, do)
    BY DEF See, RunInstance, HaltInstance
  <2> QED
    BY <2>1, DoingFine DEF Making
<1>2. PICK r, seen : Watched(c, r, seen)
  BY DEF See, RunInstance, HaltInstance
<1>3. PICK q : q = Alias(c)
  OBVIOUS
<1>4. q \in Seq(Calm) /\ (job(c).what # "down" => q \in Seq(Strict))
  <2>1. PICK err : err = step(c).err
    OBVIOUS
  <2>2. err \in {"abort", "join", "skip", "stop"}
    BY <1>1, <2>1 DEF StepType
  <2> DEFINE x == On(err, Step("alias", Bridge, {}))
  <2>3. x \in Calm /\ (err = "abort" => x \in Strict)
    BY <2>2, ObjectsAre DEF On, Step, StepType, Doings, Strict, Calm, Quiet, Handled, Making
  <2>4. q = <<>> \/ q = <<x>>
    BY <1>3, <2>1 DEF Alias
  <2> HIDE DEF x
  <2>5. <<>> \in Seq(Calm) /\ <<x>> \in Seq(Calm) /\ <<>> \in Seq(Strict)
    BY <2>3
  <2>6. err = "abort" => <<x>> \in Seq(Strict)
    BY <2>3
  <2> QED
    BY <1>1, <2>1, <2>4, <2>5, <2>6
<1>5. PICK n : n = Instead(c, q)
  OBVIOUS
<1>6. /\ Goes(c, Past(c)) \/ Goes(c, [n EXCEPT !.seen = seen])
      /\ inst' = inst
  BY <1>2, <1>3, <1>5 DEF Watched
<1>7. Advances(c, [n EXCEPT !.seen = seen])
  BY <1>1, <1>4, <1>5, InsteadAdvances, OtherFieldsAdvance
<1>8. CASE Goes(c, Past(c))
  BY <1>1, <1>6, <1>8, PastAdvances, GoesOrdinary
<1>9. CASE Goes(c, [n EXCEPT !.seen = seen])
  BY <1>6, <1>7, <1>9, GoesOrdinary
<1> QED
  BY <1>6, <1>8, <1>9

(* The networks, their peers and ACLs. *)
LEMMA NetworkOrdinary ==
    ASSUME CommandsOK, FineOK, NEW c \in Commands,
           \/ EnsureNetwork(c) \/ CreateNetwork(c) \/ GetNetwork(c) \/ EnsurePeer(c) \/ EnsureACL(c)
           \/ DeleteACL(c) \/ RemovePeer(c) \/ DeleteNetwork(c)
    PROVE  Ordinary(c)
<1>1. cmd[c].todo # <<>> /\ cmd[c].res = "run" /\ step(c).do \notin Making \union {"start"}
  <2>1. \E do \in {"ensure", "get", "peer", "acl", "delacl", "unpeer", "delnet"} : Doing(c, do)
    BY DEF EnsureNetwork, CreateNetwork, GetNetwork, EnsurePeer, EnsureACL, DeleteACL, RemovePeer, DeleteNetwork
  <2> QED
    BY <2>1, DoingFine DEF Making
<1>2. FailsHere(c) \/ (Goes(c, Past(c)) /\ inst' = inst)
  BY DEF EnsureNetwork, CreateNetwork, GetNetwork, EnsurePeer, EnsureACL, DeleteACL, RemovePeer,
         DeleteNetwork, projects
<1> QED
  BY <1>1, <1>2, FailsOrdinary, PastAdvances, GoesOrdinary

(* A read and write, its retries and its second look. *)
LEMMA UpdateOrdinary ==
    ASSUME CommandsOK, FineOK, NEW c \in Commands, Gone(c) \/ Read(c) \/ Write(c) \/ Verify(c)
    PROVE  Ordinary(c)
<1>1. cmd[c].todo # <<>> /\ cmd[c].res = "run" /\ step(c).do \notin Making \union {"start"}
  <2>1. \E do \in {"attach", "detach", "patch", "alias"} : Doing(c, do)
    BY DEF Gone, Read, Write, Verify, Updating
  <2> QED
    BY <2>1, DoingFine DEF Making
<1>2. PICK r : r = cmd[c]
  OBVIOUS
<1>3. \/ FailsHere(c)
      \/ Goes(c, Past(c)) /\ inst' = inst
      \/ \E x, y : Goes(c, [r EXCEPT !.at = x, !.snap = y]) /\ inst' = inst
      \/ \E x, y, z : Goes(c, [r EXCEPT !.at = x, !.snap = y, !.tries = z]) /\ inst' = inst
  <2>1. CASE Gone(c)
    BY <2>1 DEF Gone, projects
  <2>2. CASE Read(c)
    BY <1>2, <2>2 DEF Read, projects
  <2>3. CASE Again(c)
    BY <1>2, <2>3 DEF Again, projects
  <2>4. CASE Write(c)
    BY <1>2, <2>3, <2>4 DEF Write, projects
  <2>5. CASE Verify(c)
    BY <1>2, <2>3, <2>5 DEF Verify, projects
  <2> QED
    BY <2>1, <2>2, <2>4, <2>5
<1>4. CASE FailsHere(c)
  BY <1>1, <1>4, FailsOrdinary
<1>5. CASE Goes(c, Past(c)) /\ inst' = inst
  BY <1>1, <1>5, PastAdvances, GoesOrdinary
<1>6. ASSUME NEW x, NEW y, Goes(c, [r EXCEPT !.at = x, !.snap = y]), inst' = inst
      PROVE  Ordinary(c)
  <2>1. Advances(c, [r EXCEPT !.at = x, !.snap = y])
    BY <1>1, <1>2, SameAdvances, OtherFieldsAdvance
  <2> QED
    BY <1>6, <2>1, GoesOrdinary
<1>7. ASSUME NEW x, NEW y, NEW z, Goes(c, [r EXCEPT !.at = x, !.snap = y, !.tries = z]), inst' = inst
      PROVE  Ordinary(c)
  <2>1. Advances(c, [r EXCEPT !.at = x, !.snap = y, !.tries = z])
    BY <1>1, <1>2, SameAdvances, OtherFieldsAdvance
  <2> QED
    BY <1>7, <2>1, GoesOrdinary
<1> QED
  BY <1>3, <1>4, <1>5, <1>6, <1>7

(* A sidecar that is as this version makes it is not replaced. *)
LEMMA ReplaceOrdinary ==
    ASSUME CommandsOK, FineOK, NEW c \in Commands, Replace(c)
    PROVE  Ordinary(c)
<1>1. cmd[c].todo # <<>> /\ cmd[c].res = "run" /\ step(c).do \notin Making \union {"start"}
  BY DoingFine DEF Replace, Making
<1>2. cmd[c].have # "old"
  BY DEF FineOK, Fine
<1>3. Goes(c, Past(c)) /\ inst' = inst
  BY <1>2 DEF Replace, projects
<1> QED
  BY <1>1, <1>3, PastAdvances, GoesOrdinary

(* One tidy list after another: nothing is made in the first, or no hook   *)
(* is left in the second.                                                  *)
LEMMA TidyJoined ==
    ASSUME NEW have, NEW present, NEW s, Tidy(s, have, present), NEW t, Tidy(t, have, present),
           \/ \A i \in 1..Len(s) : s[i].do \notin Making
           \/ \A i \in 1..Len(t) : t[i].do # "inst"
    PROVE  /\ Tidy(s \o t, have, present)
           /\ Firm(s) /\ Firm(t) => Firm(s \o t)
           /\ \A d : Pending(t, d) => Pending(s \o t, d)
           /\ (\A i \in 1..Len(s) : s[i].do # "inst") /\ (\A i \in 1..Len(t) : t[i].do # "inst")
                => \A i \in 1..Len(s \o t) : (s \o t)[i].do # "inst"
<1>1. s \in Seq(Common) /\ t \in Seq(Common)
  BY DEF Tidy
<1>2. PICK r : r = s \o t
  OBVIOUS
<1>3. /\ r \in Seq(Common) /\ Len(r) = Len(s) + Len(t) /\ Len(s) \in Nat /\ Len(t) \in Nat
      /\ \A i \in 1..Len(r) : r[i] = IF i <= Len(s) THEN s[i] ELSE t[i - Len(s)]
  BY <1>1, <1>2, ConcatProperties
<1>4. ASSUME NEW i \in 1..Len(r)
      PROVE  \/ i \in 1..Len(s) /\ r[i] = s[i]
             \/ i > Len(s) /\ i - Len(s) \in 1..Len(t) /\ r[i] = t[i - Len(s)]
  BY <1>3
<1>5. ASSUME NEW i \in 1..Len(r), r[i].do = "create", r[i].with = {}
      PROVE  r[i].on \in present
  BY <1>4, <1>5 DEF Tidy
<1>6. ASSUME NEW i \in 1..Len(r), r[i].do = "inst"
      PROVE  /\ have = "none" \/ r[i].on \in present
             /\ \A j \in 1..(i - 1) : r[j].do \notin Making
  <2>1. CASE i \in 1..Len(s) /\ r[i] = s[i]
    <3>1. \A j \in 1..(i - 1) : j \in 1..Len(s) /\ j \in 1..Len(r) /\ r[j] = s[j]
      BY <1>3, <2>1
    <3> QED
      BY <1>6, <2>1, <3>1 DEF Tidy
  <2>2. CASE i > Len(s) /\ i - Len(s) \in 1..Len(t) /\ r[i] = t[i - Len(s)]
    <3>1. PICK k \in 1..Len(t) : k = i - Len(s) /\ r[i] = t[k]
      BY <2>2
    <3>2. /\ have = "none" \/ t[k].on \in present
          /\ \A j \in 1..(k - 1) : t[j].do \notin Making
      BY <1>6, <3>1 DEF Tidy
    <3>3. \A j \in 1..Len(s) : s[j].do \notin Making
      BY <1>6, <3>1
    <3>4. ASSUME NEW j \in 1..(i - 1) PROVE r[j].do \notin Making
      <4>1. j \in 1..Len(r)
        BY <1>3
      <4>2. CASE j \in 1..Len(s) /\ r[j] = s[j]
        BY <3>3, <4>2
      <4>3. CASE j > Len(s) /\ j - Len(s) \in 1..Len(t) /\ r[j] = t[j - Len(s)]
        <5>1. j - Len(s) \in 1..(k - 1)
          BY <1>3, <3>1, <4>3
        <5> QED
          BY <3>2, <4>3, <5>1
      <4> QED
        BY <1>4, <4>1, <4>2, <4>3
    <3> QED
      BY <3>1, <3>2, <3>4
  <2> QED
    BY <1>4, <2>1, <2>2
<1>7. Tidy(r, have, present)
  BY <1>3, <1>5, <1>6 DEF Tidy
<1>8. ASSUME Firm(s), Firm(t) PROVE Firm(r)
  BY <1>4, <1>8 DEF Firm
<1>9. ASSUME NEW d, Pending(t, d) PROVE Pending(r, d)
  <2>1. PICK i \in 1..Len(t) : t[i].do \in {"lookup", "start"} /\ t[i].on = d
    BY <1>9 DEF Pending
  <2>2. /\ i + Len(s) \in 1..Len(r) /\ ~(i + Len(s) <= Len(s)) /\ (i + Len(s)) - Len(s) = i
    BY <1>3
  <2>3. r[i + Len(s)] = t[i]
    BY <1>3, <2>2
  <2> QED
    BY <2>1, <2>2, <2>3 DEF Pending
<1>10. ASSUME \A i \in 1..Len(s) : s[i].do # "inst", \A i \in 1..Len(t) : t[i].do # "inst"
       PROVE  \A i \in 1..Len(r) : r[i].do # "inst"
  BY <1>4, <1>10
<1> QED
  BY <1>2, <1>7, <1>8, <1>9, <1>10

(* What a lookup found is what there is. *)
LEMMA Images ==
    ASSUME InstOK, NEW d \in Daemons
    PROVE  /\ inst[d].image \in {"none", "new"}
           /\ inst[d].image = "new" <=> d \in Present
           /\ inst[d].image = "new" =>
                \E b : inst[d] = [image |-> "new", nic |-> TRUE, running |-> b]
BY DEF InstOK, NoInst, Present

(* A lookup puts the sidecar's start ahead; its hook leaves the nic out    *)
(* for a sidecar that is there.                                            *)
LEMMA LookupFine ==
    ASSUME CommandsOK, FineOK, InstOK, NEW c \in Commands, Lookup(c)
    PROVE  FineOK' /\ inst' = inst
<1>1. /\ cmd[c].todo # <<>> /\ cmd[c].res = "run" /\ step(c).do = "lookup" /\ step(c) \in Common
  BY DoingFine DEF Lookup
<1>2. PICK d : d = step(c).on
  OBVIOUS
<1>3. d \in Daemons /\ d \in Objects
  BY <1>1, <1>2, ObjectsAre DEF Common, Handled, Making
<1>4. PICK have : have = inst[d].image
  OBVIOUS
<1>5. have \in {"none", "new"} /\ (have = "none" \/ d \in Present)
  BY <1>3, <1>4, Images
<1> DEFINE fetch == IF have = "new" THEN <<>> ELSE Lock("store") \o <<Step("release", "store", {})>>
           x == Step("inst", d, {})
           y == Step("replace", d, {})
           z == Step("start", d, {})
<1>6. PICK f : f = fetch
  OBVIOUS
<1>7. f \in Seq(Strict)
  <2> DEFINE l == Step("release", "store", {})
  <2>1. Lock("store") \in Seq(Strict) /\ l \in Strict
    BY LockStrict, ObjectsAre DEF LockNames, Step, StepType, Doings, Strict, Calm, Quiet, Handled, Making
  <2> HIDE DEF l
  <2>2. Lock("store") \o <<l>> \in Seq(Strict) /\ <<>> \in Seq(Strict)
    BY <2>1
  <2> QED
    BY <1>6, <2>2 DEF l
<1>8. PICK a, b : a = EnsureAll(c) /\ b = StartAll(c)
  OBVIOUS
<1>9. a \in Seq(Strict) /\ b \in Seq(Strict)
  BY <1>8, EnsureAllStrict
<1>10. PICK s, e : s = <<x, y>> /\ e = <<z>>
  OBVIOUS
<1>11. PICK q : q = a \o f \o s \o b \o e
  OBVIOUS
<1>12. Goes(c, [Instead(c, q) EXCEPT !.have = have]) /\ inst' = inst
  BY <1>2, <1>4, <1>6, <1>8, <1>10, <1>11 DEF Lookup, projects
<1>13. /\ Tidy(s, have, Present) /\ Firm(s)
       /\ Tidy(e, have, Present) /\ Firm(e) /\ Pending(e, d) /\ (\A i \in 1..Len(e) : e[i].do # "inst")
  <2>1. /\ x \in Common /\ y \in Common /\ z \in Common
        /\ x.do = "inst" /\ y.do = "replace" /\ z.do = "start" /\ x.on = d /\ z.on = d
        /\ x.err = "abort" /\ y.err = "abort" /\ z.err = "abort"
    BY <1>3 DEF Step, StepType, Doings, Common, Handled, Making
  <2> HIDE DEF x, y, z
  <2>2. /\ s \in Seq(Common) /\ Len(s) = 2 /\ s[1] = x /\ s[2] = y
        /\ e \in Seq(Common) /\ Len(e) = 1 /\ e[1] = z
    BY <1>10, <2>1
  <2>3. /\ \A i \in 1..Len(s) : (i = 1 /\ s[i] = x) \/ (i = 2 /\ s[i] = y)
        /\ \A i \in 1..Len(e) : e[i] = z
    BY <2>2
  <2>4. Tidy(s, have, Present)
    BY <1>5, <2>1, <2>2, <2>3 DEF Tidy
  <2>5. Tidy(e, have, Present)
    BY <2>1, <2>2, <2>3 DEF Tidy
  <2>6. Pending(e, d)
    BY <2>1, <2>2 DEF Pending
  <2> QED
    BY <2>1, <2>3, <2>4, <2>5, <2>6 DEF Firm
<1>14. /\ Tidy(a, have, Present) /\ Tidy(f, have, Present) /\ Tidy(b, have, Present)
       /\ Firm(a) /\ Firm(f) /\ Firm(b)
       /\ (\A i \in 1..Len(a) : a[i].do \notin Making) /\ (\A i \in 1..Len(f) : f[i].do \notin Making)
       /\ \A i \in 1..Len(b) : b[i].do # "inst"
  <2>1. \A t \in Seq(Strict) : /\ Tidy(t, have, Present) /\ Firm(t)
                               /\ \A i \in 1..Len(t) : t[i].do \notin Making
    BY StrictIsQuiet, CalmTidy
  <2> QED
    BY <1>7, <1>9, <2>1 DEF Making
<1>15. Tidy(q, have, Present) /\ Firm(q) /\ Pending(q, d)
  <2>1. PICK v : v = b \o e
    OBVIOUS
  <2>2. Tidy(v, have, Present) /\ Firm(v) /\ Pending(v, d) /\ \A i \in 1..Len(v) : v[i].do # "inst"
    <3>1. \A i \in 1..Len(b) : b[i].do # "inst"
      BY <1>14
    <3> QED
      BY <1>13, <1>14, <2>1, <3>1, TidyJoined
  <2>3. PICK w : w = s \o v
    OBVIOUS
  <2>4. Tidy(w, have, Present) /\ Firm(w) /\ Pending(w, d)
    BY <1>13, <2>2, <2>3, TidyJoined
  <2>5. PICK u : u = f \o w
    OBVIOUS
  <2>6. Tidy(u, have, Present) /\ Firm(u) /\ Pending(u, d)
    BY <1>14, <2>4, <2>5, TidyJoined
  <2>7. Tidy(a \o u, have, Present) /\ Firm(a \o u) /\ Pending(a \o u, d)
    BY <1>14, <2>6, TidyJoined
  <2>8. q = a \o u
    <3>1. /\ a \in Seq(Common) /\ f \in Seq(Common) /\ s \in Seq(Common)
          /\ b \in Seq(Common) /\ e \in Seq(Common)
      BY <1>13, <1>14 DEF Tidy
    <3>3. PICK g : g = a \o f
      OBVIOUS
    <3>4. PICK h : h = g \o s
      OBVIOUS
    <3>5. q = (h \o b) \o e
      BY <1>11, <3>3, <3>4
    <3>6. g \in Seq(Common) /\ h \in Seq(Common) /\ v \in Seq(Common) /\ w \in Seq(Common)
      BY <2>2, <2>4, <3>1, <3>3, <3>4 DEF Tidy
    <3>7. (h \o b) \o e = h \o (b \o e)
      <4>1. h \in Seq(Common) /\ b \in Seq(Common) /\ e \in Seq(Common)
        BY <3>1, <3>6
      <4> QED
        BY <4>1, ConcatAssociative
    <3>8. (g \o s) \o v = g \o (s \o v)
      <4>1. g \in Seq(Common) /\ s \in Seq(Common) /\ v \in Seq(Common)
        BY <3>1, <3>6
      <4> QED
        BY <4>1, ConcatAssociative
    <3>9. (a \o f) \o w = a \o (f \o w)
      <4>1. a \in Seq(Common) /\ f \in Seq(Common) /\ w \in Seq(Common)
        BY <3>1, <3>6
      <4> QED
        BY <4>1, ConcatAssociative
    <3>10. q = h \o v
      BY <2>1, <3>5, <3>7
    <3>11. q = g \o w
      BY <2>3, <3>4, <3>8, <3>10
    <3> QED
      BY <2>5, <3>3, <3>9, <3>11
  <2> QED
    BY <2>7, <2>8
<1>16. PICK n : n = Instead(c, q)
  OBVIOUS
<1>17. PICK r : r = [n EXCEPT !.have = have]
  OBVIOUS
<1>18. r.job = cmd[c].job /\ r.res = "run" /\ r.have = have /\ r.todo = q \o Tail(cmd[c].todo)
  BY <1>1, <1>16, <1>17 DEF CommandsOK, Fields, Shape, Instead
<1>19. Fine(r, Present, Serving)
  <2>1. Fine(cmd[c], Present, Serving) /\ step(c).do \in Making
    BY <1>1 DEF FineOK, Making
  <2> QED
    BY <1>1, <1>2, <1>5, <1>15, <1>18, <2>1, FineInPlace
<1>20. cmd' = [cmd EXCEPT ![c] = r] /\ Present' = Present /\ Serving' = Serving
  BY <1>12, <1>16, <1>17 DEF Goes, Present, Serving
<1> QED
  BY <1>12, <1>19, <1>20, MovedFine

(* The hook: the nic is left out for a sidecar that is there only.         *)
LEMMA HookFine ==
    ASSUME CommandsOK, FineOK, NEW c \in Commands, HookEnsure(c)
    PROVE  FineOK' /\ inst' = inst
<1>1. /\ cmd[c].todo # <<>> /\ cmd[c].res = "run" /\ step(c).do = "inst" /\ step(c) \in Common
      /\ cmd[c].have = "none" \/ step(c).on \in Present
  <2>1. Doing(c, "inst")
    BY DEF HookEnsure
  <2> QED
    BY <2>1, DoingFine
<1>2. PICK d : d = step(c).on
  OBVIOUS
<1>3. d \in Daemons /\ d \in Objects
  BY <1>1, <1>2, ObjectsAre DEF Common, Handled, Making
<1>4. PICK have : have = cmd[c].have
  OBVIOUS
<1> DEFINE x == Step("ensure", Resolver, {})
           y == Step("patch", Resolver, {})
           z1 == Step("create", d, {})
           z2 == Step("create", d, {Resolver})
<1>5. PICK q : /\ Goes(c, Instead(c, q))
               /\ q = IF have # "none" THEN <<z1>> ELSE <<x, y>> \o <<z2>>
  <2>1. CASE d = "dns"
    BY <1>2, <1>4, <2>1 DEF HookEnsure, dnsGetResources, sidecarEnsureNetwork
  <2>2. CASE d = "healthd"
    BY <1>2, <1>4, <2>2 DEF HookEnsure, healthdGetResources, sidecarEnsureNetwork
  <2> QED
    BY <1>3, <2>1, <2>2 DEF Daemons
<1>6. Tidy(q, have, Present) /\ Firm(q)
  <2>1. /\ x \in Common /\ y \in Common /\ z1 \in Common /\ z2 \in Common
        /\ x.do = "ensure" /\ y.do = "patch" /\ z1.do = "create" /\ z2.do = "create"
        /\ z1.on = d /\ z2.with = {Resolver}
        /\ x.err = "abort" /\ y.err = "abort" /\ z1.err = "abort" /\ z2.err = "abort"
    <3>1. Resolver \in Objects /\ {Resolver} \in SUBSET Objects /\ {} \in SUBSET Objects
      BY ObjectsAre
    <3> QED
      BY <1>3, <3>1 DEF Step, StepType, Doings, Common, Handled, Making
  <2> HIDE DEF x, y, z1, z2
  <2>2. CASE have # "none"
    <3>1. q = <<z1>> /\ q \in Seq(Common) /\ \A i \in 1..Len(q) : q[i] = z1
      BY <1>5, <2>1, <2>2
    <3> QED
      BY <1>1, <1>2, <1>4, <2>1, <2>2, <3>1 DEF Tidy, Firm
  <2>3. CASE have = "none"
    <3>1. PICK m, n : m = <<x, y>> /\ n = <<z2>> /\ q = m \o n
      BY <1>5, <2>3
    <3>2. /\ m \in Seq(Common) /\ \A i \in 1..Len(m) : m[i] \in {x, y}
          /\ n \in Seq(Common) /\ \A i \in 1..Len(n) : n[i] = z2
      BY <2>1, <3>1
    <3>3. Tidy(m, have, Present) /\ Firm(m)
      BY <2>1, <3>2 DEF Tidy, Firm
    <3>4. Tidy(n, have, Present) /\ Firm(n) /\ \A i \in 1..Len(n) : n[i].do # "inst"
      BY <2>1, <3>2 DEF Tidy, Firm
    <3> QED
      BY <3>1, <3>3, <3>4, TidyJoined
  <2> QED
    BY <2>2, <2>3
<1>7. UNCHANGED inst
  BY DEF HookEnsure, projects
<1>8. PICK r : r = Instead(c, q)
  OBVIOUS
<1>9. r.job = cmd[c].job /\ r.res = "run" /\ r.have = have /\ r.todo = q \o Tail(cmd[c].todo)
  BY <1>1, <1>4, <1>8 DEF CommandsOK, Fields, Shape, Instead
<1>10. Fine(r, Present, Serving)
  <2>1. Fine(cmd[c], Present, Serving) /\ step(c).do \in Making
    BY <1>1 DEF FineOK, Making
  <2>2. r.have \in {"none", "new"}
    BY <1>4, <1>9, <2>1 DEF Fine
  <2>3. step(c).do \notin {"lookup", "start"}
    BY <1>1
  <2>4. Tidy(q, r.have, Present)
    BY <1>6, <1>9
  <2> QED
    BY <1>1, <1>6, <1>9, <2>1, <2>2, <2>3, <2>4, FineInPlace
<1>11. cmd' = [cmd EXCEPT ![c] = r] /\ Present' = Present /\ Serving' = Serving
  BY <1>5, <1>7, <1>8 DEF Goes, Present, Serving
<1> QED
  BY <1>7, <1>10, <1>11, MovedFine

(* Past a step that makes or starts a sidecar. *)
LEMMA PastFine ==
    ASSUME CommandsOK, FineOK, NEW c \in Commands, cmd[c].todo # <<>>, cmd[c].res = "run",
           NEW r, cmd' = [cmd EXCEPT ![c] = r],
           r.job = cmd[c].job, r.res = "run", r.have \in {"none", "new"}, r.todo = Past(c).todo,
           Present \subseteq Present', Serving \subseteq Serving',
           step(c).do \in Making \/ r.have = cmd[c].have,
           step(c).do # "lookup", step(c).do = "start" => step(c).on \in Serving'
    PROVE  FineOK'
<1>1. r.todo = <<>> \o Tail(cmd[c].todo)
  BY InsteadIs DEF Past
<1>2. PICK q : q = <<>>
  OBVIOUS
<1>3. /\ Tidy(q, r.have, Present') /\ Firm(q) /\ \A i \in 1..Len(q) : q[i].do \notin Making
      /\ r.todo = q \o Tail(cmd[c].todo)
  BY <1>1, <1>2 DEF Tidy, Firm
<1>4. Fine(cmd[c], Present, Serving)
  BY DEF FineOK
<1>5. \A d \in Daemons : step(c).do \in {"lookup", "start"} /\ step(c).on = d
                           => Pending(q, d) \/ d \in Serving'
  OBVIOUS
<1>6. PICK present, serving : present = Present' /\ serving = Serving'
  OBVIOUS
<1>7. Fine(r, present, serving)
  BY <1>3, <1>4, <1>5, <1>6, FineInPlace
<1> QED
  BY <1>6, <1>7, MovedFine

(* The sidecar is there, is made with its nic, or cannot be made. *)
LEMMA CreateFine ==
    ASSUME CommandsOK, FineOK, InstOK, NEW c \in Commands, CreateInstance(c)
    PROVE  FineOK' /\ InstOK'
<1>1. /\ cmd[c].todo # <<>> /\ cmd[c].res = "run" /\ step(c).do = "create" /\ step(c) \in Common
      /\ step(c).with = {} => step(c).on \in Present
  <2>1. Doing(c, "create")
    BY DEF CreateInstance
  <2> QED
    BY <2>1, DoingFine
<1>2. PICK d : d = step(c).on
  OBVIOUS
<1>3. d \in Daemons
  BY <1>1, <1>2 DEF Common, Handled, Making
<1>4. PICK p : p = Past(c)
  OBVIOUS
<1>5. \A x : /\ [p EXCEPT !.have = x].job = cmd[c].job /\ [p EXCEPT !.have = x].res = "run"
             /\ [p EXCEPT !.have = x].have = x /\ [p EXCEPT !.have = x].todo = Past(c).todo
  BY <1>1, <1>4 DEF CommandsOK, Fields, Shape, Past, Instead
<1>6. step(c).do \in Making /\ step(c).do # "lookup" /\ step(c).do # "start"
  BY <1>1 DEF Making
<1>7. CASE inst[d].image # "none"
  <2>1. PICK r : r = [p EXCEPT !.have = inst[d].image]
    OBVIOUS
  <2>2. cmd' = [cmd EXCEPT ![c] = r] /\ inst' = inst
    BY <1>2, <1>4, <1>7, <2>1 DEF CreateInstance, Goes, projects
  <2>3. inst[d].image \in {"none", "new"}
    BY <1>3, Images
  <2>4. Present' = Present /\ Serving' = Serving
    BY <2>2 DEF Present, Serving
  <2>5. r.job = cmd[c].job /\ r.res = "run" /\ r.have \in {"none", "new"} /\ r.todo = Past(c).todo
    BY <1>5, <2>1, <2>3
  <2>6. FineOK'
    BY <1>1, <1>6, <2>2, <2>4, <2>5, PastFine
  <2> QED
    BY <2>2, <2>6 DEF InstOK
<1>8. CASE inst[d].image = "none" /\ ~FailsHere(c)
  <2>1. d \notin Present
    BY <1>8 DEF Present
  <2>2. step(c).with # {}
    BY <1>1, <1>2, <2>1
  <2>3. PICK r : r = [p EXCEPT !.have = "new"]
    OBVIOUS
  <2>4. /\ cmd' = [cmd EXCEPT ![c] = r]
        /\ inst' = [inst EXCEPT ![d] = [image |-> "new", nic |-> TRUE, running |-> FALSE]]
    BY <1>2, <1>4, <1>8, <2>2, <2>3 DEF CreateInstance, Goes
  <2>5. \A e \in Daemons : inst'[e] = IF e = d THEN [image |-> "new", nic |-> TRUE, running |-> FALSE]
                                      ELSE inst[e]
    BY <2>4 DEF InstOK
  <2>6. InstOK'
    <3>1. inst' = [e \in Daemons |-> inst'[e]]
      BY <2>4 DEF InstOK
    <3>2. ASSUME NEW e \in Daemons
          PROVE  inst'[e] = NoInst \/ \E b : inst'[e] = [image |-> "new", nic |-> TRUE, running |-> b]
      BY <2>5 DEF InstOK
    <3> QED
      BY <3>1, <3>2 DEF InstOK
  <2>7. Present \subseteq Present'
    BY <2>5 DEF Present
  <2>8. Serving \subseteq Serving'
    <3>1. d \notin Serving
      BY <1>8 DEF Serving
    <3> QED
      BY <2>5, <3>1 DEF Serving
  <2>9. r.job = cmd[c].job /\ r.res = "run" /\ r.have \in {"none", "new"} /\ r.todo = Past(c).todo
    BY <1>5, <2>3
  <2>10. FineOK'
    BY <1>1, <1>6, <2>4, <2>7, <2>8, <2>9, PastFine
  <2> QED
    BY <2>6, <2>10
<1>9. CASE FailsHere(c)
  <2>1. Ordinary(c) /\ inst' = inst
    BY <1>1, <1>9, FailsOrdinary DEF FailsHere, projects
  <2> QED
    BY <2>1, OrdinaryKeeps DEF InstOK
<1> QED
  BY <1>7, <1>8, <1>9

(* What a start makes of a sidecar. *)
LEMMA StartedIs ==
    ASSUME NEW v, NEW b, v = [image |-> "new", nic |-> TRUE, running |-> b]
    PROVE  [v EXCEPT !.running = TRUE] = [image |-> "new", nic |-> TRUE, running |-> TRUE]
<1>1. PICK n : n = [v EXCEPT !.running = TRUE]
  OBVIOUS
<1>2. DOMAIN v = {"image", "nic", "running"} /\ v.image = "new" /\ v.nic = TRUE
  OBVIOUS
<1>3. DOMAIN n = {"image", "nic", "running"} /\ n = [f \in DOMAIN n |-> n[f]]
  BY <1>1, <1>2
<1>4. n.image = "new" /\ n.nic = TRUE /\ n.running = TRUE
  BY <1>1, <1>2
<1>5. n = [image |-> "new", nic |-> TRUE, running |-> TRUE]
  BY <1>3, <1>4
<1> QED
  BY <1>1, <1>5

(* A sidecar that is there is started, and serves. *)
LEMMA ChangeFine ==
    ASSUME CommandsOK, FineOK, InstOK, NEW c \in Commands, ChangeInstance(c)
    PROVE  FineOK' /\ InstOK'
<1>1. Doing(c, "start")
  BY NoUpgrade DEF ChangeInstance
<1>2. cmd[c].todo # <<>> /\ cmd[c].res = "run" /\ step(c).do = "start" /\ step(c) \in Common
  BY <1>1, DoingFine
<1>3. PICK d : d = step(c).on
  OBVIOUS
<1>4. d \in Daemons
  BY <1>2, <1>3 DEF Common, Handled, Making
<1>5. CASE inst[d].image # "none" /\ ~FailsHere(c)
  <2>1. PICK b : inst[d] = [image |-> "new", nic |-> TRUE, running |-> b]
    BY <1>4, <1>5, Images
  <2>2. /\ cmd' = [cmd EXCEPT ![c] = Past(c)]
        /\ inst' = [inst EXCEPT ![d] = [inst[d] EXCEPT !.running = TRUE]]
    <3>1. PICK do \in {"stop", "delete", "start"} :
            /\ Doing(c, do)
            /\ inst' = [inst EXCEPT ![d] = CASE do = "stop"   -> [@ EXCEPT !.running = FALSE]
                                             [] do = "delete" -> NoInst
                                             [] do = "start"  -> [@ EXCEPT !.running = TRUE]]
            /\ Goes(c, Past(c))
      BY <1>3, <1>5 DEF ChangeInstance
    <3>2. do = "start"
      BY <1>2, <3>1 DEF Doing
    <3> QED
      BY <3>1, <3>2 DEF Goes
  <2>3. [inst[d] EXCEPT !.running = TRUE] = [image |-> "new", nic |-> TRUE, running |-> TRUE]
    <3>1. PICK v : v = inst[d]
      OBVIOUS
    <3>2. v = [image |-> "new", nic |-> TRUE, running |-> b]
      BY <2>1, <3>1
    <3>3. [v EXCEPT !.running = TRUE] = [image |-> "new", nic |-> TRUE, running |-> TRUE]
      BY <3>2, StartedIs
    <3> QED
      BY <3>1, <3>3
  <2>4. /\ inst' = [e \in Daemons |-> inst'[e]]
        /\ \A e \in Daemons : inst'[e] = IF e = d THEN [image |-> "new", nic |-> TRUE, running |-> TRUE]
                                         ELSE inst[e]
    BY <2>2, <2>3 DEF InstOK
  <2>5. InstOK'
    <3>1. ASSUME NEW e \in Daemons
          PROVE  inst'[e] = NoInst \/ \E x : inst'[e] = [image |-> "new", nic |-> TRUE, running |-> x]
      BY <2>4 DEF InstOK
    <3> QED
      BY <2>4, <3>1 DEF InstOK
  <2>6. Present \subseteq Present' /\ Serving \subseteq Serving' /\ d \in Serving'
    BY <1>4, <2>4 DEF Present, Serving
  <2>7. PICK r : r = Past(c)
    OBVIOUS
  <2>8. r.job = cmd[c].job /\ r.res = "run" /\ r.have = cmd[c].have /\ r.todo = Past(c).todo
    BY <1>2, <2>7 DEF CommandsOK, Fields, Shape, Past, Instead
  <2>9. r.have \in {"none", "new"}
    BY <2>8 DEF FineOK, Fine
  <2>10. FineOK'
    BY <1>2, <1>3, <2>2, <2>6, <2>7, <2>8, <2>9, PastFine
  <2> QED
    BY <2>5, <2>10
<1>6. CASE FailsHere(c)
  <2>1. Ordinary(c) /\ inst' = inst
    BY <1>2, <1>6, FailsOrdinary DEF FailsHere, projects
  <2> QED
    BY <2>1, OrdinaryKeeps DEF InstOK
<1>7. inst[d].image # "none" \/ FailsHere(c)
  BY <1>3 DEF ChangeInstance
<1> QED
  BY <1>5, <1>6, <1>7

(* The host stays one that needs no upgrade: the global project is made    *)
(* with networks of its own where there is OVN, and its network with it.   *)
LEMMA HostsKept ==
    ASSUME CommandsOK, FineOK, HostsOK, NEW c \in Commands, Steps(c) \/ Fault(c), ovn' = ovn
    PROVE  HostsOK'
<1>1. CASE UNCHANGED <<gproj, kind>>
  BY <1>1 DEF HostsOK
<1>2. CASE Start(c) \/ Return(c) \/ Finish(c) \/ Check(c) \/ Release(c)
  BY <1>1, <1>2 DEF Start, Return, Finish, Check, Release, networks, projects
<1>3. CASE FailsHere(c)
  BY <1>1, <1>3 DEF FailsHere, networks, projects
<1>4. CASE EnsureProject(c) \/ Acquire(c)
  <2>1. (gproj' = Ensured(c) /\ kind' = kind) \/ FailsHere(c)
    BY <1>4 DEF EnsureProject, Acquire, networks
  <2>2. Ensured(c) = gproj \/ Ensured(c) = ProjectKind
    BY DEF Ensured
  <2>3. ovn => ProjectKind = "ovn"
    BY DEF ProjectKind
  <2>4. CASE gproj' = Ensured(c) /\ kind' = kind
    BY <2>2, <2>3, <2>4 DEF HostsOK
  <2> QED
    BY <1>3, <2>1, <2>4
<1>5. CASE Mark(c) \/ dnsTeardown(c) \/ healthdTeardown(c)
  <2>1. UNCHANGED <<gproj, kind>> \/ FailsHere(c)
    BY <1>5 DEF Mark, dnsTeardown, healthdTeardown, Teardown, networks, projects
  <2> QED
    BY <1>1, <1>3, <2>1
<1>6. CASE \/ Lookup(c) \/ LookupFails(c) \/ HookEnsure(c) \/ CreateInstance(c)
           \/ Replace(c) \/ ChangeInstance(c)
  <2>1. UNCHANGED <<gproj, kind>> \/ FailsHere(c)
    BY <1>6 DEF Lookup, LookupFails, HookEnsure, CreateInstance, Replace, ChangeInstance, networks, projects
  <2> QED
    BY <1>1, <1>3, <2>1
<1>7. CASE See(c) \/ RunInstance(c) \/ HaltInstance(c)
  BY <1>1, <1>7 DEF See, RunInstance, HaltInstance, Watched, networks
<1>8. CASE CreateNetwork(c)
  <2>1. PICK n : n = step(c).on
    OBVIOUS
  <2>2. \/ FailsHere(c)
        \/ /\ n = Resolver => gproj # "none"
           /\ kind' = [kind EXCEPT ![n] = IF (IF n = Resolver THEN gproj = "ovn" ELSE ovn)
                                          THEN "ovn" ELSE "bridge"]
           /\ gproj' = gproj
    BY <1>8, <2>1 DEF CreateNetwork, projects
  <2>3. CASE /\ n = Resolver => gproj # "none"
             /\ kind' = [kind EXCEPT ![n] = IF (IF n = Resolver THEN gproj = "ovn" ELSE ovn)
                                            THEN "ovn" ELSE "bridge"]
             /\ gproj' = gproj
    <3>1. PICK x : /\ kind' = [kind EXCEPT ![n] = x]
                   /\ n = Resolver /\ ovn => x = "ovn"
      BY <2>3 DEF HostsOK
    <3>2. kind' = [m \in Nets |-> IF m = n THEN x ELSE kind[m]]
      BY <3>1 DEF HostsOK
    <3>3. kind' = [m \in Nets |-> kind'[m]] /\ kind'[Resolver] = IF n = Resolver THEN x ELSE kind[Resolver]
      BY <3>2, ObjectsAre
    <3> QED
      BY <2>3, <3>1, <3>3 DEF HostsOK
  <2> QED
    BY <1>3, <2>2, <2>3
<1>9. CASE DeleteNetwork(c)
  <2>1. PICK n : n = step(c).on
    OBVIOUS
  <2>2. FailsHere(c) \/ (kind' = [kind EXCEPT ![n] = "none"] /\ gproj' = gproj)
    BY <1>9, <2>1 DEF DeleteNetwork, projects
  <2>3. CASE kind' = [kind EXCEPT ![n] = "none"] /\ gproj' = gproj
    <3>1. kind' = [m \in Nets |-> IF m = n THEN "none" ELSE kind[m]]
      BY <2>3 DEF HostsOK
    <3>2. /\ kind' = [m \in Nets |-> kind'[m]]
          /\ kind'[Resolver] = IF n = Resolver THEN "none" ELSE kind[Resolver]
      BY <3>1, ObjectsAre
    <3> QED
      BY <2>3, <3>2 DEF HostsOK
  <2> QED
    BY <1>3, <2>2, <2>3
<1>10. CASE EnsureNetwork(c) \/ GetNetwork(c) \/ EnsurePeer(c) \/ EnsureACL(c) \/ DeleteACL(c) \/ RemovePeer(c)
  <2>1. UNCHANGED <<gproj, kind>> \/ FailsHere(c)
    BY <1>10 DEF EnsureNetwork, GetNetwork, EnsurePeer, EnsureACL, DeleteACL, RemovePeer, networks, projects
  <2> QED
    BY <1>1, <1>3, <2>1
<1>11. CASE Gone(c) \/ Read(c) \/ Write(c) \/ Verify(c)
  <2>1. UNCHANGED <<gproj, kind>> \/ FailsHere(c)
    <3>1. CASE Again(c)
      BY <3>1 DEF Again, networks, projects
    <3> QED
      BY <1>11, <3>1 DEF Gone, Read, Write, Verify, networks, projects
  <2> QED
    BY <1>1, <1>3, <2>1
<1>12. CASE Fault(c)
  BY <1>3, <1>12 DEF Fault
<1> QED
  BY <1>2, <1>3, <1>4, <1>5, <1>6, <1>7, <1>8, <1>9, <1>10, <1>11, <1>12, NoUpgrade DEF Steps

(* The invariant holds on every host that needs no upgrade. *)
LEMMA InitiallyServed == CurrentHosts /\ Init => SInv
<1> SUFFICES ASSUME CurrentHosts, Init PROVE SInv
  OBVIOUS
<1>1. PICK k \in Cases : Host(k.host) /\ cmd = [c \in Commands |-> Idle(k.jobs[c])]
  BY DEF Init
<1>2. k.host.ovn => k.host.gproj \in {"none", "ovn"}
  BY DEF CurrentHosts
<1>3. HostsOK
  <2>1. ovn = k.host.ovn /\ gproj = k.host.gproj
    BY <1>1 DEF Host
  <2>2. kind = [n \in Nets |-> IF n = Bridge THEN "bridge"
                               ELSE IF n = Resolver THEN IF k.host.gproj = "none" THEN "none"
                                                         ELSE IF k.host.gproj = "plain" THEN "bridge" ELSE "ovn"
                               ELSE IF n \in k.host.up THEN ProjectKind ELSE "none"]
    BY <1>1 DEF Host
  <2>3. /\ kind = [n \in Nets |-> kind[n]]
        /\ kind[Resolver] = IF k.host.gproj = "none" THEN "none"
                            ELSE IF k.host.gproj = "plain" THEN "bridge" ELSE "ovn"
    BY <2>2, ObjectsAre, NetsAssumption
  <2> QED
    BY <1>2, <2>1, <2>3 DEF HostsOK
<1>4. InstOK
  <2>1. inst = [d \in Daemons |-> IF k.host.image = "none" THEN NoInst
                                  ELSE [image |-> k.host.image, nic |-> TRUE, running |-> TRUE]]
    BY <1>1 DEF Host
  <2>2. k.host.image \in {"none", "new"}
    BY DEF CurrentHosts
  <2>3. inst = [d \in Daemons |-> inst[d]]
    BY <2>1
  <2>4. CASE k.host.image = "none"
    BY <2>1, <2>3, <2>4 DEF InstOK
  <2>5. CASE k.host.image = "new"
    <3>1. \A d \in Daemons : inst[d] = [image |-> "new", nic |-> TRUE, running |-> TRUE]
      BY <2>1, <2>5
    <3> QED
      BY <2>3, <3>1 DEF InstOK
  <2> QED
    BY <2>2, <2>4, <2>5
<1>5. FineOK
  <2>1. ASSUME NEW c \in Commands
        PROVE  cmd[c].todo = <<>> /\ cmd[c].have = "none" /\ cmd[c].res = "idle"
    BY <1>1 DEF Idle
  <2>2. \A have, present : Tidy(<<>>, have, present)
    BY DEF Tidy
  <2>3. Firm(<<>>)
    BY DEF Firm
  <2> QED
    BY <2>1, <2>2, <2>3 DEF FineOK, Fine
<1> QED
  BY <1>3, <1>4, <1>5, Initially DEF SInv

(* Every step keeps it. *)
LEMMA StepServes == SInv /\ [Next]_vars => SInv'
<1> SUFFICES ASSUME SInv, [Next]_vars PROVE SInv'
  OBVIOUS
<1>0. CommandsOK /\ FineOK /\ HostsOK /\ InstOK /\ IInv'
  BY StepKeeps DEF SInv, IInv
<1>1. CASE UNCHANGED vars
  <2>1. cmd' = cmd /\ inst' = inst /\ kind' = kind /\ gproj' = gproj /\ ovn' = ovn
    BY <1>1 DEF vars
  <2>2. Present' = Present /\ Serving' = Serving
    BY <2>1 DEF Present, Serving
  <2>3. FineOK'
    BY <1>0, <2>1, <2>2 DEF FineOK
  <2>4. HostsOK' /\ InstOK'
    BY <1>0, <2>1 DEF HostsOK, InstOK
  <2> QED
    BY <1>0, <2>3, <2>4 DEF SInv
<1>2. ASSUME NEW c \in Commands, Steps(c) \/ Fault(c), ovn' = ovn
      PROVE  SInv'
  <2>1. HostsOK'
    BY <1>0, <1>2, HostsKept
  <2>2. ASSUME Ordinary(c) PROVE FineOK' /\ InstOK'
    <3>1. inst' = inst
      BY <2>2 DEF Ordinary
    <3> QED
      BY <1>0, <2>2, <3>1, OrdinaryKeeps DEF InstOK
  <2>3. ASSUME inst' = inst PROVE InstOK'
    BY <1>0, <2>3 DEF InstOK
  <2>4. ASSUME Start(c) PROVE FineOK' /\ InstOK'
    BY <1>0, <2>3, <2>4, StartFine DEF Start, projects
  <2>5. ASSUME Return(c) \/ Finish(c) PROVE FineOK' /\ InstOK'
    BY <1>0, <2>3, <2>5, ReturnFine DEF Return, Finish, projects
  <2>6. ASSUME Check(c) PROVE FineOK' /\ InstOK'
    BY <1>0, <2>2, <2>6, CheckOrdinary
  <2>7. ASSUME EnsureProject(c) \/ Acquire(c) \/ Release(c) PROVE FineOK' /\ InstOK'
    BY <1>0, <2>2, <2>7, GlobalOrdinary
  <2>8. ASSUME Mark(c) \/ dnsTeardown(c) \/ healthdTeardown(c) PROVE FineOK' /\ InstOK'
    BY <1>0, <2>2, <2>8, MarkOrdinary
  <2>9. ASSUME Lookup(c) PROVE FineOK' /\ InstOK'
    BY <1>0, <2>3, <2>9, LookupFine
  <2>10. ASSUME LookupFails(c) PROVE FineOK' /\ InstOK'
    <3>1. Doing(c, "lookup") /\ FailsHere(c)
      BY <2>10 DEF LookupFails
    <3>2. Ordinary(c)
      BY <3>1, FailsOrdinary DEF Doing
    <3> QED
      BY <2>2, <3>2
  <2>11. ASSUME HookEnsure(c) PROVE FineOK' /\ InstOK'
    BY <1>0, <2>3, <2>11, HookFine
  <2>12. ASSUME CreateInstance(c) PROVE FineOK' /\ InstOK'
    BY <1>0, <2>12, CreateFine
  <2>13. ASSUME Replace(c) PROVE FineOK' /\ InstOK'
    BY <1>0, <2>2, <2>13, ReplaceOrdinary
  <2>14. ASSUME ChangeInstance(c) PROVE FineOK' /\ InstOK'
    BY <1>0, <2>14, ChangeFine
  <2>15. ASSUME See(c) \/ RunInstance(c) \/ HaltInstance(c) PROVE FineOK' /\ InstOK'
    BY <1>0, <2>2, <2>15, ReplicasOrdinary
  <2>16. ASSUME \/ EnsureNetwork(c) \/ CreateNetwork(c) \/ GetNetwork(c) \/ EnsurePeer(c) \/ EnsureACL(c)
                \/ DeleteACL(c) \/ RemovePeer(c) \/ DeleteNetwork(c)
         PROVE  FineOK' /\ InstOK'
    BY <1>0, <2>2, <2>16, NetworkOrdinary
  <2>17. ASSUME Gone(c) \/ Read(c) \/ Write(c) \/ Verify(c) PROVE FineOK' /\ InstOK'
    BY <1>0, <2>2, <2>17, UpdateOrdinary
  <2>18. ASSUME Fault(c) PROVE FineOK' /\ InstOK'
    <3>1. cmd[c].res = "run" /\ cmd[c].todo # <<>> /\ FailsHere(c)
      BY <2>18 DEF Fault
    <3> QED
      BY <2>2, <3>1, FailsOrdinary
  <2>19. ~Recheck(c) /\ ~DropProject(c) /\ ~DropNetwork(c)
    BY <1>0, NoUpgrade
  <2>20. FineOK' /\ InstOK'
    BY <1>2, <2>4, <2>5, <2>6, <2>7, <2>8, <2>9, <2>10, <2>11, <2>12, <2>13, <2>14, <2>15, <2>16,
       <2>17, <2>18, <2>19 DEF Steps
  <2> QED
    BY <1>0, <2>1, <2>20 DEF SInv
<1>3. CASE Done
  BY <1>1, <1>3 DEF Done
<1> QED
  BY <1>1, <1>2, <1>3 DEF Next, Runs

(* When every command has come to an end and none failed, each daemon one  *)
(* of them brought up is there, on the image asked for, on the network and *)
(* running: on hosts that need no upgrade, whatever the commands and their *)
(* interleaving, and whichever of them finds the sidecar, makes it, or     *)
(* loses the race for it between dnsEnsure's look and Instance.ensure.     *)
THEOREM SidecarsServe ==
    ASSUME CurrentHosts
    PROVE  Spec => []Served
<1>1. SInv => Served
  <2> SUFFICES ASSUME SInv, \A c \in Commands : cmd[c].res = "ok", NEW d \in Daemons,
                      NEW c \in Commands, job(c).what = "up" \/ job(c).daemon = d
               PROVE  inst[d] = [image |-> "new", nic |-> TRUE, running |-> TRUE]
    BY DEF Served
  <2>1. d \in Serving
    BY DEF SInv, FineOK, Fine, Wants, job
  <2> QED
    BY <2>1 DEF Serving
<1>2. Init => SInv
  BY InitiallyServed
<1> QED
  BY <1>2, StepServes, <1>1, PTL DEF Spec
=============================================================================
