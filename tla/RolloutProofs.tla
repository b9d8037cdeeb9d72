--------------------------- MODULE RolloutProofs ---------------------------
(***************************************************************************)
(* For every set of services, compose file, cluster and --scale: a rolling *)
(* update that pauses on failure keeps the replicas of a service up but    *)
(* for one batch; an up that succeeds leaves what it planned running and   *)
(* current; and nobody waits for a replica that is not coming.             *)
(***************************************************************************)
EXTENDS Rollout, FiniteSetTheorems, WellFoundedInduction, TLAPS

(* The replicas a command wants of a service, and their names. *)
Want(s, c) == Placing(s, c).desired
WantedOf(s, c) == {instanceName(s, i, Want(s, c)) : i \in 1..Want(s, c)}
Wanted(c) == UNION {WantedOf(s, c) : s \in ServiceSet}

Busy == cmd.phase # "idle"
Updating == cmd.phase \in {"stop", "delete", "again", "start"}
Now == Head(cmd.batches).names
current(n) == there(n) /\ inst[n].rev = rev[service(n)]
Batch == [names : SUBSET Names, action : {"pause", "continue"}, start : BOOLEAN]

FileOK == \E k \in Cases : file = k.file /\ net = k.net
Asks(c) == c.over \in [ServiceSet -> Counts] /\ (net.clustered => c.up \subseteq Members)

TypeOK ==
    /\ FileOK
    /\ rev \in [ServiceSet -> Nat] /\ inst \in [Names -> Instance \union {None}]
    /\ online \subseteq Members \union {Anywhere}
    /\ net.clustered => online \subseteq Members
    /\ ups \in Nat
    /\ DOMAIN cmd = DOMAIN NoCommand /\ Asks(cmd)
    /\ cmd.phase \in {"idle", "ensure", "stop", "delete", "again", "start", "final"}
    /\ cmd.todo \subseteq Names /\ cmd.have \subseteq Names /\ cmd.made \subseteq Names
    /\ cmd.began \subseteq Names
    /\ \A t \in cmd.late : t.name \in Names
    /\ cmd.batches \in Seq(Batch)
    /\ cmd.bad \in BOOLEAN /\ cmd.stacked \in BOOLEAN /\ cmd.swallowed \in BOOLEAN

(* What a plan is: names, the ones wanted and some left over, and what     *)
(* each waits for.                                                         *)
Sound(plan, c) ==
    /\ \A s \in ServiceSet : Placing(s, c).ok
    /\ \A r \in plan :
         /\ r.name \in Names
         /\ r.marked <=> r.name \notin Wanted(c)
         /\ r.waits = instanceDependencyWaits(service(r.name), c.over, c.up)
         /\ file[service(r.name)].container => r.name[1] = "container"
    /\ Wanted(c) \subseteq {r.name : r \in plan}

PlanInv == Busy \/ cmd.plan # {} \/ cmd.res = "ok" => Sound(cmd.plan, cmd)

(* A batch is of one service, and no larger than its parallelism; or of    *)
(* the services without update_config.                                     *)
GoodBatch(b, W) ==
    /\ b.names \subseteq W
    /\ IF b.start
       THEN \E s \in ServiceSet :
              /\ file[s].update /\ b.action = file[s].action
              /\ \A n \in b.names : service(n) = s
              /\ Cardinality(b.names) <= Limit(s)
       ELSE \A n \in b.names : ~file[service(n)].update

(* One with a container_name has no instance of the other kind of name. *)
NoStray == \A s \in ServiceSet : file[s].container => \A i \in 0..MaxIndex : ~there(<<"service", s, i>>)

Flow ==
    /\ Busy => cmd.res = "none"
    /\ ~Busy => cmd.todo = {} /\ cmd.late = {}
    /\ cmd.phase = "ensure" => ~cmd.swallowed /\ cmd.todo \subseteq Planned
    /\ Updating => /\ cmd.batches # <<>>
                   /\ \A k \in DOMAIN cmd.batches : GoodBatch(cmd.batches[k], Wanted(cmd))
                   /\ cmd.todo \subseteq Now
    /\ NoStray

(* Of the replicas a pausing update found running, the ones down are in    *)
(* the batch at hand, and on their way.                                    *)
DownInv ==
    Busy => \A n \in cmd.began \intersect Wanted(cmd) :
        file[service(n)].update /\ file[service(n)].action = "pause" /\ ~running(n) =>
            /\ Updating /\ n \in Now
            /\ cmd.phase = "again" => n \in cmd.todo \union cmd.have
            /\ cmd.phase = "start" => n \in cmd.todo

(* The replica after the last one wanted. *)
After(s, c) == <<"service", s, Want(s, c) + 1>>
NoneAfter == \A s \in ServiceSet : Want(s, cmd) < MaxIndex => ~there(After(s, cmd))

Ensuring ==
    /\ Wanted(cmd) \subseteq cmd.todo \union cmd.have
    /\ cmd.have \intersect cmd.todo = {}
    /\ cmd.have \ cmd.made \subseteq Wanted(cmd)
    /\ cmd.made \subseteq cmd.have /\ \A n \in cmd.made : current(n)
    /\ \A n \in cmd.todo \ Wanted(cmd) : there(n)
    /\ \A s \in ServiceSet : Want(s, cmd) < MaxIndex /\ there(After(s, cmd)) => After(s, cmd) \in cmd.todo

(* One of the batch at hand. *)
Midway(n) ==
    CASE cmd.phase = "stop" -> n \in cmd.have
      [] cmd.phase = "delete" -> cmd.bad \/ n \in cmd.todo \/ ~there(n)
      [] cmd.phase = "again" -> IF n \in cmd.todo THEN ~there(n) ELSE n \in cmd.have /\ current(n)
      [] cmd.phase = "start" -> n \in cmd.have /\ current(n)

(* Any other: it is held, and current or in a batch to come. *)
Held(n) ==
    /\ n \in cmd.have
    /\ current(n) \/ \E k \in 2..Len(cmd.batches) : n \in cmd.batches[k].names

SettleInv ==
    Busy /\ ~cmd.swallowed =>
        /\ cmd.late = {}
        /\ \A n \in cmd.have : there(n)
        /\ cmd.phase = "ensure" => Ensuring
        /\ cmd.phase # "ensure" => NoneAfter
        /\ Updating => \A n \in Wanted(cmd) : IF n \in Now THEN Midway(n) ELSE Held(n)
        /\ cmd.phase = "final" =>
             \A n \in Wanted(cmd) : n \in cmd.have /\ current(n) /\ (n \in cmd.todo \/ running(n))

RestInv ==
    cmd.res = "ok" /\ ~cmd.swallowed =>
        NoneAfter /\ \A n \in Wanted(cmd) : current(n) /\ running(n)

Inv == TypeOK /\ PlanInv /\ Flow /\ DownInv /\ SettleInv /\ RestInv

-----------------------------------------------------------------------------
(* Numbers.  The library's induction takes an operator: here it goes by a  *)
(* least counterexample.                                                   *)

(* Some numbers have a least. *)
LEMMA LeastNat ==
    ASSUME NEW B \in SUBSET Nat, B # {}
    PROVE  \E b \in B : \A m \in B : b <= m
<1>1. IsWellFoundedOn(OpToRel(<, Nat), Nat)
  BY NatLessThanWellFounded
<1>2. PICK b \in B : \A m \in B : ~(<<m, b>> \in OpToRel(<, Nat))
  BY <1>1, WFMin
<1>3. \A m \in B : ~(m < b)
  BY <1>2 DEF OpToRel
<1>4. QED
  BY <1>3

(* A set of numbers that has 0, and with each number the next one up to n, *)
(* has n.                                                                  *)
LEMMA UpTo ==
    ASSUME NEW n \in Nat, NEW T, 0 \in T, \A m \in 1..n : m - 1 \in T => m \in T
    PROVE  n \in T
<1> DEFINE B == {m \in Nat : m \in 0..n /\ m \notin T}
<1>1. SUFFICES ASSUME B # {} PROVE FALSE
  OBVIOUS
<1>2. PICK b \in B : \A m \in B : b <= m
  <2> HIDE DEF B
  <2>1. B \in SUBSET Nat
    BY DEF B
  <2>2. QED
    BY <1>1, <2>1, LeastNat
<1>3. b - 1 \in T /\ b \in 1..n
  BY <1>2
<1>4. QED
  BY <1>2, <1>3

(* What the file says. *)
LEMMA Sections ==
    ASSUME FileOK, NEW s \in ServiceSet
    PROVE  /\ file[s].replicas \in Counts /\ file[s].parallel \in Nat \union {None}
           /\ file[s].needs \subseteq ServiceSet /\ file[s].container \in BOOLEAN
           /\ file[s].update \in BOOLEAN /\ file[s].action \in {"pause", "continue"}
  BY RolloutAssumption DEF FileOK

(* There are no more candidates than members. *)
LEMMA Candidates ==
    ASSUME NEW up \in SUBSET Members, NEW cs
    PROVE  /\ Len(filterClusterMembers(up, cs)) \in 0..MaxIndex
           /\ filterClusterMembers(up, cs) = <<>> => Len(filterClusterMembers(up, cs)) = 0
           /\ filterClusterMembers(up, cs) # <<>> => Len(filterClusterMembers(up, cs)) > 0
<1> DEFINE S == {m \in up : \A c \in cs : matches(c, m)}
<1>1. IsFiniteSet(S) /\ Cardinality(S) \in Nat /\ Cardinality(S) <= Cardinality(Members)
  BY RolloutAssumption, FS_Subset, FS_CardinalityType
<1>2. Cardinality(Members) \in Nat
  BY RolloutAssumption, FS_CardinalityType
<1>3. Cardinality(S) \in 0..MaxIndex
  BY <1>1, <1>2, RolloutAssumption
<1>4. filterClusterMembers(up, cs) = Listed(S)
  BY DEF filterClusterMembers
<1> HIDE DEF S
<1>5. Len(Listed(S)) = Cardinality(S) /\ (Listed(S) = <<>> <=> Cardinality(S) = 0)
  BY <1>1 DEF Listed
<1>6. QED
  BY <1>1, <1>3, <1>4, <1>5

(* The replicas of a service that is waited for. *)
Counted(d, over, up) ==
    IF over[d] # None THEN over[d]
    ELSE IF file[d].replicas # None THEN file[d].replicas
    ELSE IF file[d].mode = "global" /\ net.clustered THEN Everywhere(d, up) ELSE 1

(* A global service is placed on every member, whatever its replica count  *)
(* says, and waited for by that count when it has one.                     *)
OneCount(s) == file[s].mode = "global" => file[s].replicas = None

(* What a placement comes to, when there is one: as many targets as        *)
(* replicas, no more than are looked at, and as many as are waited for     *)
(* when the file has one count for both.                                   *)
LEMMA Placements ==
    ASSUME FileOK, NEW c, Asks(c), NEW s \in ServiceSet, Placing(s, c).ok
    PROVE  /\ Want(s, c) \in 0..MaxIndex /\ Len(Placing(s, c).targets) = Want(s, c)
           /\ OneCount(s) => Want(s, c) = Counted(s, c.over, c.up)
<1> DEFINE d == file[s]
           over == c.over[s]
           env == Env(s, c.server, c.up)
           everywhere == d.mode = "global" /\ over = None
           candidates == filterClusterMembers(c.up, d.constraints)
           desired == IF everywhere THEN Len(candidates) ELSE Asked(d, over)
           p == Placing(s, c)
<1>1. over \in Counts /\ d.replicas \in Counts
  BY Sections DEF Asks
<1>2. None \notin Nat /\ MaxIndex \in Nat \ {0}
  BY RolloutAssumption
<1>3. Asked(d, over) \in 0..MaxIndex
  BY <1>1, <1>2 DEF Asked, Counts
<1>4. ASSUME NEW n \in Nat, NEW t
      PROVE  Len(Times(n, t)) = n /\ Len(Targets(t, n)) = n
  BY <1>4 DEF Times, Targets
<1>5. ASSUME NEW n \in Nat, NEW t, Len(t) = n, p = Granted(t)
      PROVE  Want(s, c) = n /\ Len(p.targets) = n
  BY <1>5 DEF Granted, Want
<1>6. CASE ~net.clustered
  <2> DEFINE n == IF everywhere THEN 1 ELSE Asked(d, over)
  <2>1. p = Granted(Times(n, Anywhere))
    BY <1>6 DEF Placing, resolveServicePlacement, Env, Refused
  <2>2. n \in 0..MaxIndex
    BY <1>2, <1>3
  <2>3. Want(s, c) = n /\ Len(p.targets) = n
    BY <1>4, <1>5, <2>1, <2>2
  <2>4. OneCount(s) => n = Counted(s, c.over, c.up)
    BY <1>1, <1>6 DEF Counted, Asked, OneCount
  <2>5. QED
    BY <2>2, <2>3, <2>4
<1>7. CASE net.clustered
  <2>1. candidates # <<>> /\ Len(candidates) \in 1..MaxIndex
    <3>1. candidates # <<>>
      BY <1>7 DEF Placing, resolveServicePlacement, Env, Refused
    <3>2. QED
      BY <1>7, <3>1, Candidates DEF Asks
  <2>2. desired \in 0..MaxIndex
    BY <1>3, <2>1
  <2>3. \E t : Len(t) = desired /\ p = Granted(t)
    <3>1. \/ desired = 0 /\ p = Granted(<<>>)
          \/ desired = 1 /\ \E m : p = Granted(<<m>>)
          \/ everywhere /\ p = Granted(candidates)
          \/ \E t : p = Granted(Targets(t, desired))
      BY <1>7 DEF Placing, resolveServicePlacement, Env, Refused
    <3>2. Len(<<>>) = 0 /\ \A m : Len(<<m>>) = 1
      OBVIOUS
    <3>3. \A t : Len(Targets(t, desired)) = desired
      BY <1>4, <2>2
    <3> HIDE DEF p, desired, candidates
    <3>4. CASE everywhere /\ p = Granted(candidates)
      BY <3>4 DEF desired
    <3>5. QED
      BY <3>1, <3>2, <3>3, <3>4
  <2>4. Want(s, c) = desired /\ Len(p.targets) = desired
    BY <1>5, <2>2, <2>3
  <2>5. Everywhere(s, c.up) = Len(candidates)
    BY <2>1 DEF Everywhere
  <2>6. OneCount(s) => desired = Counted(s, c.over, c.up)
    BY <1>1, <1>7, <2>5 DEF Counted, Asked, OneCount
  <2>7. QED
    BY <2>2, <2>4, <2>6
<1>8. QED
  BY <1>6, <1>7

-----------------------------------------------------------------------------
(* Names. *)

(* A name made for a replica is of its service, and of the kind its service *)
(* asks for.                                                                *)
LEMMA NameOf ==
    ASSUME FileOK, NEW s \in ServiceSet, NEW i \in 0..MaxIndex, NEW scale
    PROVE  LET n == instanceName(s, i, scale)
           IN  /\ n \in Names /\ service(n) = s
               /\ file[s].container => n[1] = "container"
               /\ ~file[s].container => n = <<"service", s, i>>
<1>1. file[s].container \in BOOLEAN /\ 0 \in 0..MaxIndex
  BY Sections, RolloutAssumption
<1>2. QED
  BY <1>1 DEF instanceName, Names, service

(* A plan that is not refused wants of each service so many, all of them   *)
(* different, and not the next one.                                        *)
LEMMA WantedNames ==
    ASSUME FileOK, NEW c, Asks(c), \A s \in ServiceSet : Placing(s, c).ok
    PROVE  /\ Wanted(c) \subseteq Names
           /\ \A s \in ServiceSet :
                /\ Want(s, c) \in 0..MaxIndex
                /\ {n \in Wanted(c) : service(n) = s} = WantedOf(s, c)
                /\ Cardinality(WantedOf(s, c)) = Want(s, c)
                /\ IsFiniteSet(WantedOf(s, c))
                /\ After(s, c) \notin Wanted(c)
<1>1. \A s \in ServiceSet : Want(s, c) \in 0..MaxIndex
  BY Placements
<1>2. \A s \in ServiceSet : \A n \in WantedOf(s, c) : n \in Names /\ service(n) = s
  BY <1>1, NameOf, RolloutAssumption DEF WantedOf
<1>3. Wanted(c) \subseteq Names
  BY <1>2 DEF Wanted
<1>4. ASSUME NEW s \in ServiceSet
      PROVE  {n \in Wanted(c) : service(n) = s} = WantedOf(s, c)
  BY <1>2 DEF Wanted
<1>5. ASSUME NEW s \in ServiceSet
      PROVE  Cardinality(WantedOf(s, c)) = Want(s, c) /\ IsFiniteSet(WantedOf(s, c))
  <2> DEFINE n == Want(s, c)
             f == [i \in 1..n |-> instanceName(s, i, n)]
  <2>1. n \in Nat /\ n \in 0..MaxIndex
    BY <1>1, RolloutAssumption
  <2>2. \A i, j \in 1..n : instanceName(s, i, n) = instanceName(s, j, n) => i = j
    <3> HIDE DEF n
    <3>1. file[s].container \in BOOLEAN
      BY Sections
    <3>2. QED
      BY <2>1, <3>1 DEF instanceName
  <2>3. WantedOf(s, c) = {instanceName(s, i, n) : i \in 1..n}
    BY DEF WantedOf
  <2> HIDE DEF n
  <2>4. f \in Bijection(1..n, WantedOf(s, c))
    <3>1. f \in [1..n -> WantedOf(s, c)]
      BY <2>3
    <3>2. \A x \in WantedOf(s, c) : \E i \in 1..n : f[i] = x
      BY <2>3
    <3>3. \A i, j \in 1..n : f[i] = f[j] => i = j
      BY <2>2
    <3> HIDE DEF f
    <3>4. QED
      BY <3>1, <3>2, <3>3 DEF Bijection, Injection, Surjection, IsInjective
  <2>5. ExistsBijection(1..n, WantedOf(s, c))
    BY <2>4 DEF ExistsBijection
  <2>6. Cardinality(WantedOf(s, c)) = n
    BY <2>1, <2>5, FS_CountingElements
  <2>7. IsFiniteSet(WantedOf(s, c))
    BY <2>1, <2>5, FS_NatBijection
  <2>8. QED
    BY <2>6, <2>7 DEF n
<1>6. ASSUME NEW s \in ServiceSet
      PROVE  After(s, c) \notin Wanted(c)
  <2>1. SUFFICES ASSUME After(s, c) \in Wanted(c) PROVE FALSE
    OBVIOUS
  <2>2. service(After(s, c)) = s
    BY DEF After, service
  <2>3. After(s, c) \in WantedOf(s, c)
    BY <1>4, <2>1, <2>2
  <2>4. PICK i \in 1..Want(s, c) : After(s, c) = instanceName(s, i, Want(s, c))
    BY <2>3 DEF WantedOf
  <2>5. file[s].container \in BOOLEAN /\ Want(s, c) \in Nat
    BY <1>1, Sections, RolloutAssumption
  <2>6. QED
    BY <2>4, <2>5 DEF After, instanceName
<1>7. QED
  BY <1>1, <1>3, <1>4, <1>5, <1>6

(* What is discovered: the count wanted, and the ones behind it as far as  *)
(* there is one after the other.                                           *)
LEMMA Discovery ==
    ASSUME NEW s, NEW desired \in 0..MaxIndex
    PROVE  LET k == Discovered(s, desired)
           IN  /\ k \in desired..MaxIndex
               /\ \A i \in (desired + 1)..k : there(<<"service", s, i>>)
               /\ k = MaxIndex \/ ~there(<<"service", s, k + 1>>)
<1> DEFINE B == {k \in Nat : k \in desired..MaxIndex /\ (k = MaxIndex \/ ~there(<<"service", s, k + 1>>))}
<1>1. MaxIndex \in Nat /\ MaxIndex \in B
  BY RolloutAssumption
<1>2. PICK k \in B : \A m \in B : k <= m
  <2>1. B \in SUBSET Nat /\ B # {}
    BY <1>1
  <2> HIDE DEF B
  <2>2. QED
    BY <2>1, LeastNat
<1>3. \A m \in B : ~(m < k)
  BY <1>2
<1>4. ASSUME NEW i \in (desired + 1)..k PROVE there(<<"service", s, i>>)
  <2>1. i - 1 \in Nat /\ i - 1 \in desired..MaxIndex /\ i - 1 # MaxIndex /\ i - 1 < k /\ (i - 1) + 1 = i
    BY <1>1, <1>2
  <2>2. i - 1 \notin B
    BY <1>3, <2>1
  <2>3. QED
    BY <2>1, <2>2
<1>5. /\ k \in desired..MaxIndex
      /\ \A i \in (desired + 1)..k : there(<<"service", s, i>>)
      /\ k = MaxIndex \/ ~there(<<"service", s, k + 1>>)
  BY <1>2, <1>4
<1> HIDE DEF B
<1>6. QED
  BY <1>5 DEF Discovered

(* A count wanted, one discovered, and what is between them. *)
LEMMA Between ==
    ASSUME NEW m \in Nat, NEW w \in Nat, NEW k \in w..m
    PROVE  /\ k \in Nat /\ (k # w => w + 1 \in (w + 1)..k /\ w + 1 \in 1..k)
           /\ \A i \in (w + 1)..k : i \in 0..m
           /\ \A i \in 1..k : i \in Nat /\ i \in 0..m /\ (i <= w <=> i \in 1..w) /\ (i <= w \/ i \in (w + 1)..k)
           /\ \A i \in 1..w : i \in 1..k
  OBVIOUS

(* The resources of a command that is not refused are a sound plan; the    *)
(* ones left over are there, and the next one, if it is there, is planned. *)
LEMMA Planning ==
    ASSUME FileOK, NoStray, NEW c, Asks(c), ~Refuses(c)
    PROVE  /\ Sound(Resources(c), c)
           /\ \A r \in Resources(c) : r.name \in Wanted(c) \/ there(r.name)
           /\ \A s \in ServiceSet : Want(s, c) < MaxIndex /\ there(After(s, c)) =>
                 After(s, c) \in {r.name : r \in Resources(c)}
<1>1. \A s \in ServiceSet : Placing(s, c).ok
  BY DEF Refuses
<1> DEFINE scale(s) == Discovered(s, Want(s, c))
           made(s, i) == serviceToInstance(s, i, scale(s), Placing(s, c).targets, c)
<1>2. \A s \in ServiceSet : /\ Want(s, c) \in 0..MaxIndex /\ Want(s, c) \in Nat
                            /\ Len(Placing(s, c).targets) = Want(s, c)
  BY <1>1, Placements, RolloutAssumption
<1>3. ASSUME NEW s \in ServiceSet
      PROVE  /\ scale(s) \in Want(s, c)..MaxIndex
             /\ \A i \in (Want(s, c) + 1)..scale(s) : there(<<"service", s, i>>)
             /\ scale(s) = MaxIndex \/ ~there(<<"service", s, scale(s) + 1>>)
  BY <1>2, Discovery
<1>0. ASSUME NEW s \in ServiceSet
      PROVE  LET w == Want(s, c)
                 k == scale(s)
             IN  /\ k \in Nat /\ (k # w => w + 1 \in (w + 1)..k /\ w + 1 \in 1..k)
                 /\ \A i \in (w + 1)..k : i \in 0..MaxIndex
                 /\ \A i \in 1..k : /\ i \in Nat /\ i \in 0..MaxIndex
                                    /\ (i <= w <=> i \in 1..w) /\ (i <= w \/ i \in (w + 1)..k)
                 /\ \A i \in 1..w : i \in 1..k
  <2>1. MaxIndex \in Nat /\ Want(s, c) \in Nat /\ scale(s) \in Want(s, c)..MaxIndex
    BY <1>2, <1>3, RolloutAssumption
  <2>2. QED
    BY <2>1, Between, Zenon
<1>4. \A s \in ServiceSet : file[s].container => scale(s) = Want(s, c)
  <2> SUFFICES ASSUME NEW s \in ServiceSet, file[s].container PROVE scale(s) = Want(s, c)
    OBVIOUS
  <2>1. \A i \in 0..MaxIndex : ~there(<<"service", s, i>>)
    BY DEF NoStray
  <2>2. \A i \in (Want(s, c) + 1)..scale(s) : there(<<"service", s, i>>) /\ i \in 0..MaxIndex
    BY <1>0, <1>3
  <2>3. (Want(s, c) + 1) \notin (Want(s, c) + 1)..scale(s)
    BY <2>1, <2>2
  <2>4. QED
    BY <1>0, <2>3
<1>5. Resources(c) = UNION {{made(s, i) : i \in 1..scale(s)} : s \in ServiceSet}
  BY DEF Resources, ResourcesOf, Want
<1>6. ASSUME NEW s \in ServiceSet, NEW i \in 1..scale(s)
      PROVE  LET r == made(s, i)
             IN  /\ r.name \in Names /\ service(r.name) = s
                 /\ r.name = instanceName(s, i, scale(s))
                 /\ r.name \in Wanted(c) <=> i <= Want(s, c)
                 /\ r.marked <=> r.name \notin Wanted(c)
                 /\ r.waits = instanceDependencyWaits(s, c.over, c.up)
                 /\ file[s].container => r.name[1] = "container"
                 /\ r.name \in Wanted(c) \/ there(r.name)
  <2> DEFINE r == made(s, i)
  <2>1. i \in 0..MaxIndex /\ scale(s) \in Nat /\ i \in Nat /\ Want(s, c) \in Nat
    BY <1>0, <1>2
  <2>2. /\ r.name = instanceName(s, i, scale(s)) /\ r.waits = instanceDependencyWaits(s, c.over, c.up)
        /\ r.marked <=> i > Want(s, c)
    BY <1>2 DEF serviceToInstance
  <2>3. /\ r.name \in Names /\ service(r.name) = s
        /\ file[s].container => r.name[1] = "container"
    BY <2>1, <2>2, NameOf
  <2>4. r.name \in Wanted(c) <=> r.name \in WantedOf(s, c)
    BY <1>1, <2>3, WantedNames
  <2>5. file[s].container \in BOOLEAN
    BY Sections
  <2>6. CASE file[s].container
    <3>1. scale(s) = Want(s, c)
      BY <1>4, <2>6
    <3>2. i <= Want(s, c) /\ r.name \in WantedOf(s, c)
      BY <2>1, <2>2, <3>1 DEF WantedOf
    <3>3. QED
      BY <2>1, <2>2, <2>3, <2>4, <3>2
  <2>7. CASE ~file[s].container
    <3>1. \A j, k : instanceName(s, j, k) = <<"service", s, j>>
      BY <2>7 DEF instanceName
    <3>2. r.name = <<"service", s, i>> /\ WantedOf(s, c) = {<<"service", s, j>> : j \in 1..Want(s, c)}
      BY <2>2, <3>1 DEF WantedOf
    <3>3. r.name \in WantedOf(s, c) <=> i <= Want(s, c)
      BY <1>0, <3>2
    <3>4. i <= Want(s, c) \/ there(r.name)
      <4>1. i <= Want(s, c) \/ i \in (Want(s, c) + 1)..scale(s)
        BY <1>0
      <4>2. i \in (Want(s, c) + 1)..scale(s) => there(<<"service", s, i>>)
        BY <1>3
      <4>3. QED
        BY <3>2, <4>1, <4>2
    <3>5. QED
      BY <2>1, <2>2, <2>3, <2>4, <3>3, <3>4
  <2>8. QED
    BY <2>5, <2>6, <2>7
<1>7. \A r \in Resources(c) : \E s \in ServiceSet : \E i \in 1..scale(s) : r = made(s, i)
  BY <1>5
<1>8. \A s \in ServiceSet : \A i \in 1..scale(s) : made(s, i) \in Resources(c)
  BY <1>5
<1>9. \A r \in Resources(c) :
         /\ r.name \in Names
         /\ r.marked <=> r.name \notin Wanted(c)
         /\ r.waits = instanceDependencyWaits(service(r.name), c.over, c.up)
         /\ file[service(r.name)].container => r.name[1] = "container"
         /\ r.name \in Wanted(c) \/ there(r.name)
  BY <1>6, <1>7
<1>10. Wanted(c) \subseteq {r.name : r \in Resources(c)}
  <2> SUFFICES ASSUME NEW s \in ServiceSet, NEW i \in 1..Want(s, c)
               PROVE  instanceName(s, i, Want(s, c)) \in {r.name : r \in Resources(c)}
    BY DEF Wanted, WantedOf
  <2>1. i \in 1..scale(s)
    BY <1>0
  <2>2. instanceName(s, i, Want(s, c)) = instanceName(s, i, scale(s))
    <3>1. file[s].container \in BOOLEAN
      BY Sections
    <3>2. QED
      BY <1>4, <3>1 DEF instanceName
  <2>3. QED
    BY <1>6, <1>8, <2>1, <2>2
<1>11. ASSUME NEW s \in ServiceSet, Want(s, c) < MaxIndex, there(After(s, c))
       PROVE  After(s, c) \in {r.name : r \in Resources(c)}
  <2>1. Want(s, c) \in Nat /\ MaxIndex \in Nat /\ Want(s, c) + 1 \in 0..MaxIndex
    BY <1>2, <1>11, RolloutAssumption
  <2>2. ~file[s].container
    BY <1>11, <2>1 DEF NoStray, After
  <2>3. scale(s) # Want(s, c)
    BY <1>3, <1>11, <2>1 DEF After
  <2>4. Want(s, c) + 1 \in 1..scale(s)
    BY <1>0, <2>3
  <2>5. instanceName(s, Want(s, c) + 1, scale(s)) = After(s, c)
    BY <2>2 DEF instanceName, After
  <2>6. QED
    BY <1>6, <1>8, <2>4, <2>5
<1>12. QED
  BY <1>1, <1>9, <1>10, <1>11 DEF Sound

(* What is kept is what is wanted. *)
LEMMA KeptWanted ==
    ASSUME Sound(cmd.plan, cmd)
    PROVE  Kept = Wanted(cmd)
<1>1. \A r \in cmd.plan : r.marked <=> r.name \notin Wanted(cmd)
  BY DEF Sound
<1>2. Wanted(cmd) \subseteq {r.name : r \in cmd.plan}
  BY DEF Sound
<1>3. QED
  BY <1>1, <1>2 DEF Kept

(* The names waited for are the ones of the replicas wanted. *)
LEMMA WaitsHold ==
    ASSUME FileOK, Asks(cmd), PlanInv, \A s \in ServiceSet : OneCount(s)
    PROVE  WaitsNamed
<1> SUFFICES ASSUME NEW r \in cmd.plan, NEW d \in file[service(r.name)].needs, ~file[d].container
             PROVE  {w \in r.waits : service(w) = d} = {n \in Kept : service(n) = d}
  BY DEF WaitsNamed
<1>1. Sound(cmd.plan, cmd)
  BY DEF PlanInv
<1> DEFINE s == service(r.name)
           names(x) == IF file[x].container THEN {<<"container", x, 0>>}
                       ELSE {<<"service", x, i>> : i \in 1..Counted(x, cmd.over, cmd.up)}
<1>2. s \in ServiceSet /\ r.waits = instanceDependencyWaits(s, cmd.over, cmd.up)
  BY <1>1 DEF Sound, Names, service
<1>3. d \in ServiceSet
  BY <1>2, Sections
<1>4. r.waits = UNION {names(x) : x \in file[s].needs}
  BY <1>2 DEF instanceDependencyWaits, Counted
<1>5. \A x : \A w \in names(x) : service(w) = x
  BY DEF service
<1>6. {w \in r.waits : service(w) = d} = names(d)
  <2> HIDE DEF names
  <2>1. QED
    BY <1>4, <1>5
<1>7. Want(d, cmd) = Counted(d, cmd.over, cmd.up)
  BY <1>1, <1>3, Placements DEF Sound
<1>8. WantedOf(d, cmd) = names(d)
  <2>1. \A i, k : instanceName(d, i, k) = <<"service", d, i>>
    BY DEF instanceName
  <2>2. QED
    BY <1>7, <2>1 DEF WantedOf
<1>9. {n \in Wanted(cmd) : service(n) = d} = WantedOf(d, cmd)
  BY <1>1, <1>3, WantedNames DEF Sound
<1>10. QED
  BY <1>1, <1>6, <1>8, <1>9, KeptWanted

-----------------------------------------------------------------------------
(* Batches. *)

(* One sequence behind another. *)
Follows(c, a, b) ==
    /\ \A k \in DOMAIN c : (k \in DOMAIN a /\ c[k] = a[k]) \/ \E j \in DOMAIN b : c[k] = b[j]
    /\ \A k \in DOMAIN a : k \in DOMAIN c /\ c[k] = a[k]
    /\ \A j \in DOMAIN b : \E k \in DOMAIN c : c[k] = b[j]

(* What is in two sequences in a row is what is in either. *)
LEMMA Joined ==
    ASSUME NEW S, NEW a \in Seq(S), NEW b \in Seq(S)
    PROVE  a \o b \in Seq(S) /\ Follows(a \o b, a, b)
<1> DEFINE c == a \o b
<1>1. /\ Len(a) \in Nat /\ Len(b) \in Nat /\ c \in Seq(S) /\ Len(c) = Len(a) + Len(b)
      /\ DOMAIN a = 1..Len(a) /\ DOMAIN b = 1..Len(b) /\ DOMAIN c = 1..Len(c)
      /\ \A k \in 1..(Len(a) + Len(b)) : c[k] = IF k <= Len(a) THEN a[k] ELSE b[k - Len(a)]
  OBVIOUS
<1> HIDE DEF c
<1>2. ASSUME NEW k \in DOMAIN c
      PROVE  \/ k \in DOMAIN a /\ c[k] = a[k]
             \/ \E j \in DOMAIN b : c[k] = b[j]
  <2>1. CASE k <= Len(a)
    BY <1>1, <2>1
  <2>2. CASE k > Len(a)
    <3>1. k - Len(a) \in DOMAIN b /\ c[k] = b[k - Len(a)]
      BY <1>1, <2>2
    <3>2. QED
      BY <3>1
  <2>3. QED
    BY <1>1, <2>1, <2>2
<1>3. ASSUME NEW k \in DOMAIN a PROVE k \in DOMAIN c /\ c[k] = a[k]
  BY <1>1
<1>4. ASSUME NEW j \in DOMAIN b PROVE \E k \in DOMAIN c : c[k] = b[j]
  <2>1. j + Len(a) \in DOMAIN c /\ c[j + Len(a)] = b[j]
    BY <1>1
  <2>2. QED
    BY <2>1
<1>5. QED
  BY <1>1, <1>2, <1>3, <1>4 DEF c, Follows

(* A sequence of sequences, one after the other: every element is from one *)
(* of them, and every element of one of them is there.                     *)
Strings(q, seqs, n) ==
    /\ \A k \in DOMAIN q : \E m \in 1..n : \E j \in DOMAIN seqs[m] : q[k] = seqs[m][j]
    /\ \A m \in 1..n : \A j \in DOMAIN seqs[m] : \E k \in DOMAIN q : q[k] = seqs[m][j]

(* That is what flattening does. *)
LEMMA Flattened ==
    ASSUME NEW S, NEW n \in Nat, NEW seqs \in [1..n -> Seq(S)]
    PROVE  FlattenSeq(seqs) \in Seq(S) /\ Strings(FlattenSeq(seqs), seqs, n)
<1>1. Len(seqs) = n
  OBVIOUS
<1>2. CASE n = 0
  <2>1. FlattenSeq(seqs) = seqs /\ seqs = <<>>
    BY <1>1, <1>2 DEF FlattenSeq
  <2>2. QED
    BY <1>2, <2>1 DEF Strings
<1>3. CASE n # 0
  <2> DEFINE Is(f, m) == f = [i \in 1..m |-> IF i = 1 THEN seqs[i] ELSE f[i - 1] \o seqs[i]]
             flatten == CHOOSE f : Is(f, n)
             T == {m \in 0..n : \E f : Is(f, m) /\ \A i \in 1..m : f[i] \in Seq(S)}
             Good(f, m) == /\ f[m] \in Seq(S)
                           /\ \A k \in DOMAIN f[m] : \E l \in 1..m : \E j \in DOMAIN seqs[l] : f[m][k] = seqs[l][j]
                           /\ \A l \in 1..m : \A j \in DOMAIN seqs[l] : \E k \in DOMAIN f[m] : f[m][k] = seqs[l][j]
             U == {m \in 0..n : m = 0 \/ Good(flatten, m)}
  <2>1. FlattenSeq(seqs) = flatten[n]
    BY <1>1, <1>3 DEF FlattenSeq
  <2>2. 0 \in T
    <3>1. Is(<<>>, 0) /\ \A i \in 1..0 : <<>>[i] \in Seq(S)
      OBVIOUS
    <3> HIDE DEF Is
    <3>2. QED
      BY <3>1
  <2>3. ASSUME NEW m \in 1..n, m - 1 \in T PROVE m \in T
    <3>1. PICK f : Is(f, m - 1) /\ \A i \in 1..(m - 1) : f[i] \in Seq(S)
      BY <2>3
    <3> DEFINE g == [i \in 1..m |-> IF i = m THEN IF m = 1 THEN seqs[m] ELSE f[m - 1] \o seqs[m] ELSE f[i]]
    <3>2. \A i \in 1..m : g[i] = IF i = 1 THEN seqs[i] ELSE g[i - 1] \o seqs[i]
      <4>1. \A i \in 1..(m - 1) : f[i] = IF i = 1 THEN seqs[i] ELSE f[i - 1] \o seqs[i]
        BY <3>1
      <4>2. QED
        BY <4>1
    <3>3. Is(g, m)
      BY <3>2
    <3>4. ASSUME NEW i \in 1..m PROVE g[i] \in Seq(S)
      <4>1. CASE i # m
        BY <3>1, <4>1
      <4>2. CASE i = m /\ m = 1
        BY <4>2
      <4>3. CASE i = m /\ m # 1
        <5>1. m - 1 \in 1..(m - 1)
          BY <4>3
        <5>2. PICK a \in Seq(S), b \in Seq(S) : a = f[m - 1] /\ b = seqs[m]
          BY <3>1, <5>1
        <5>3. g[i] = a \o b
          BY <4>3, <5>2
        <5>4. QED
          BY <5>3, Joined
      <4>4. QED
        BY <4>1, <4>2, <4>3
    <3> HIDE DEF g, Is
    <3>5. QED
      BY <3>3, <3>4
  <2>4. n \in T
    <3> HIDE DEF T
    <3>1. QED
      BY <2>2, <2>3, UpTo
  <2>5. Is(flatten, n)
    <3> HIDE DEF Is
    <3>1. \E f : Is(f, n)
      BY <2>4
    <3>2. QED
      BY <3>1
  <2>6. \A i \in 1..n : flatten[i] = IF i = 1 THEN seqs[i] ELSE flatten[i - 1] \o seqs[i]
    BY <2>5
  <2> HIDE DEF flatten
  <2>7. 0 \in U
    OBVIOUS
  <2>8. ASSUME NEW m \in 1..n, m - 1 \in U PROVE m \in U
    <3>1. CASE m = 1
      <4>1. flatten[1] = seqs[1]
        BY <2>6, <3>1
      <4>2. Good(flatten, 1)
        BY <3>1, <4>1
      <4>3. QED
        BY <3>1, <4>2
    <3>2. CASE m # 1
      <4>1. m - 1 \in 1..n /\ Good(flatten, m - 1) /\ m \in Nat
        BY <2>8, <3>2
      <4>2. PICK a \in Seq(S), b \in Seq(S) : a = flatten[m - 1] /\ b = seqs[m]
        BY <4>1
      <4>3. flatten[m] = a \o b
        BY <2>6, <3>2, <4>2
      <4>4. flatten[m] \in Seq(S) /\ Follows(flatten[m], a, b)
        BY <4>3, Joined
      <4>5. \A l \in 1..m : l \in 1..(m - 1) \/ l = m
        BY <4>1
      <4>6. \A l \in 1..(m - 1) : l \in 1..m
        BY <4>1
      <4>7. flatten[m] \in Seq(S)
        BY <4>4
      <4>8. ASSUME NEW k \in DOMAIN flatten[m]
            PROVE  \E l \in 1..m : \E j \in DOMAIN seqs[l] : flatten[m][k] = seqs[l][j]
        <5>1. CASE k \in DOMAIN a /\ flatten[m][k] = a[k]
          <6>1. \E l \in 1..(m - 1) : \E j \in DOMAIN seqs[l] : a[k] = seqs[l][j]
            BY <4>1, <4>2, <5>1
          <6>2. QED
            BY <4>6, <5>1, <6>1
        <5>2. CASE \E j \in DOMAIN b : flatten[m][k] = b[j]
          BY <4>2, <5>2
        <5>3. QED
          BY <4>4, <5>1, <5>2 DEF Follows
      <4>9. ASSUME NEW l \in 1..m, NEW j \in DOMAIN seqs[l]
            PROVE  \E k \in DOMAIN flatten[m] : flatten[m][k] = seqs[l][j]
        <5>1. CASE l = m
          BY <4>2, <4>4, <5>1 DEF Follows
        <5>2. CASE l \in 1..(m - 1)
          <6>1. PICK k \in DOMAIN a : a[k] = seqs[l][j]
            BY <4>1, <4>2, <5>2
          <6>2. QED
            BY <4>4, <6>1 DEF Follows
        <5>3. QED
          BY <4>5, <5>1, <5>2
      <4>10. QED
        BY <4>7, <4>8, <4>9
    <3>3. QED
      BY <3>1, <3>2
  <2>9. n \in U
    <3> HIDE DEF U
    <3>1. QED
      BY <2>7, <2>8, UpTo
  <2>10. Good(flatten, n)
    BY <1>3, <2>9
  <2>11. QED
    BY <2>1, <2>10 DEF Strings
<1>4. QED
  BY <1>2, <1>3

(* Division. *)
LEMMA Divides ==
    ASSUME NEW x \in Nat, NEW z \in Nat \ {0}
    PROVE  x \div z \in Nat /\ z * (x \div z) <= x /\ x < z * (x \div z) + z
<1>1. PICK q \in Int : q = x \div z
  OBVIOUS
<1>2. z * q <= x /\ x < z * q + z
  BY <1>1
<1>3. q \in Nat
  <2>1. SUFFICES ASSUME q <= -1 PROVE FALSE
    OBVIOUS
  <2>2. PICK d \in Nat : q = -1 - d
    <3>1. -1 - q \in Nat /\ q = -1 - (-1 - q)
      BY <2>1
    <3>2. QED
      BY <3>1
  <2>3. z * q = -z - z * d /\ z * d \in Nat
    BY <2>2
  <2>4. QED
    BY <1>2, <2>3
<1>4. QED
  BY <1>1, <1>2, <1>3

(* Rounded up, a number's share is beyond the share of a smaller one. *)
LEMMA Shares ==
    ASSUME NEW x \in Nat, NEW y \in Nat, NEW z \in Nat \ {0}, x < y
    PROVE  (x \div z) + 1 \in 1..((y + z - 1) \div z)
<1>1. PICK q \in Nat : q = x \div z /\ z * q <= x
  BY Divides
<1>2. y + z - 1 \in Nat
  OBVIOUS
<1>3. PICK r \in Nat : r = (y + z - 1) \div z /\ y + z - 1 < z * r + z
  BY <1>2, Divides
<1>4. z * q \in Nat /\ z * r \in Nat
  OBVIOUS
<1>5. z * q < z * r
  BY <1>1, <1>3, <1>4
<1>6. q < r
  <2>1. SUFFICES ASSUME r <= q PROVE FALSE
    OBVIOUS
  <2>2. PICK d \in Nat : q = r + d
    <3>1. q - r \in Nat /\ q = r + (q - r)
      BY <2>1
    <3>2. QED
      BY <3>1
  <2>3. z * q = z * r + z * d /\ z * d \in Nat
    BY <2>2
  <2>4. QED
    BY <1>4, <1>5, <2>3
<1>7. QED
  BY <1>1, <1>3, <1>6

(* Numbered apart, the members of a set have a rank each. *)
LEMMA Ranks ==
    ASSUME NEW T, IsFiniteSet(T), \A n \in T : n[3] \in Int, \A n, m \in T : n[3] = m[3] => n = m
    PROVE  /\ Cardinality(T) \in Nat
           /\ \A n \in T : Rank(n, T) \in 1..Cardinality(T)
           /\ \A n, m \in T : Rank(n, T) = Rank(m, T) => n = m
<1> DEFINE A(n) == {m \in T : m[3] <= n[3]}
<1>1. Cardinality(T) \in Nat
  BY FS_CardinalityType
<1>2. ASSUME NEW n \in T
      PROVE  /\ IsFiniteSet(A(n)) /\ Cardinality(A(n)) \in 1..Cardinality(T)
             /\ Rank(n, T) = Cardinality(A(n))
  <2>1. A(n) \in SUBSET T /\ n \in A(n)
    OBVIOUS
  <2>2. Rank(n, T) = Cardinality(A(n))
    BY DEF Rank
  <2> HIDE DEF A
  <2>3. IsFiniteSet(A(n)) /\ Cardinality(A(n)) <= Cardinality(T)
    BY <2>1, FS_Subset
  <2>4. Cardinality(A(n)) \in Nat /\ Cardinality(A(n)) # 0
    BY <2>1, <2>3, FS_CardinalityType, FS_EmptySet
  <2>5. QED
    BY <1>1, <2>2, <2>3, <2>4
<1>3. ASSUME NEW n \in T, NEW m \in T, n[3] < m[3]
      PROVE  Rank(n, T) # Rank(m, T)
  <2>1. A(n) \in SUBSET A(m) /\ m \in A(m) /\ m \notin A(n)
    BY <1>3
  <2> HIDE DEF A
  <2>2. Cardinality(A(n)) # Cardinality(A(m))
    BY <1>2, <2>1, FS_Subset
  <2>3. QED
    BY <1>2, <2>2
<1>4. ASSUME NEW n \in T, NEW m \in T, Rank(n, T) = Rank(m, T) PROVE n = m
  <2>1. n[3] \in Int /\ m[3] \in Int
    OBVIOUS
  <2>2. ~(n[3] < m[3]) /\ ~(m[3] < n[3])
    BY <1>3, <1>4
  <2>3. QED
    BY <2>1, <2>2
<1>5. QED
  BY <1>1, <1>2, <1>4

(* Cut into shares by rank, a set has no share above the size, and every   *)
(* member is in one.                                                       *)
LEMMA Cut ==
    ASSUME NEW T, IsFiniteSet(T), \A n \in T : n[3] \in Int, \A n, m \in T : n[3] = m[3] => n = m,
           NEW size \in Nat \ {0}
    PROVE  LET count == (Cardinality(T) + size - 1) \div size
               share(b) == {n \in T : (Rank(n, T) - 1) \div size = b - 1}
           IN  /\ count \in Nat
               /\ \A b \in 1..count : Cardinality(share(b)) <= size
               /\ \A n \in T : \E b \in 1..count : n \in share(b)
<1> DEFINE count == (Cardinality(T) + size - 1) \div size
           share(b) == {n \in T : (Rank(n, T) - 1) \div size = b - 1}
<1>1. /\ Cardinality(T) \in Nat
      /\ \A n \in T : Rank(n, T) \in 1..Cardinality(T)
      /\ \A n, m \in T : Rank(n, T) = Rank(m, T) => n = m
  BY Ranks
<1>2. count \in Nat
  <2>1. Cardinality(T) + size - 1 \in Nat
    BY <1>1
  <2>2. QED
    BY <2>1, Divides
<1>3. ASSUME NEW b \in 1..count PROVE Cardinality(share(b)) <= size
  <2> DEFINE S == share(b)
             f == [n \in S |-> Rank(n, T) - 1 - size * (b - 1)]
  <2>1. ASSUME NEW n \in S
        PROVE  f[n] \in 0..(size - 1) /\ Rank(n, T) - 1 = size * (b - 1) + f[n]
    <3>1. PICK x \in Nat : x = Rank(n, T) - 1 /\ x \div size = b - 1
      BY <1>1
    <3>2. size * (b - 1) <= x /\ x < size * (b - 1) + size
      BY <3>1, Divides
    <3>3. b - 1 \in Nat /\ size * (b - 1) \in Nat
      OBVIOUS
    <3>4. QED
      BY <3>1, <3>2, <3>3
  <2>2. \A n, m \in S : f[n] = f[m] => n = m
    <3>1. \A n \in S : n \in T /\ Rank(n, T) \in Int
      BY <1>1
    <3> HIDE DEF f, S
    <3>2. ASSUME NEW n \in S, NEW m \in S, f[n] = f[m] PROVE n = m
      <4>1. Rank(n, T) - 1 = Rank(m, T) - 1
        BY <2>1, <3>2
      <4>2. Rank(n, T) = Rank(m, T)
        BY <3>1, <4>1
      <4>3. QED
        BY <1>1, <3>1, <4>2
    <3>3. QED
      BY <3>2
  <2>3. f \in [S -> 0..(size - 1)]
    BY <2>1
  <2> HIDE DEF f, S
  <2>4. f \in Injection(S, 0..(size - 1))
    BY <2>2, <2>3 DEF Injection, IsInjective
  <2>5. IsFiniteSet(0..(size - 1)) /\ Cardinality(0..(size - 1)) = size
    BY FS_Interval
  <2>6. QED
    BY <2>4, <2>5, FS_Injection DEF S
<1>4. ASSUME NEW n \in T PROVE \E b \in 1..count : n \in share(b)
  <2>1. Rank(n, T) - 1 \in Nat /\ Rank(n, T) - 1 < Cardinality(T)
    BY <1>1
  <2>2. PICK q \in Nat : q = (Rank(n, T) - 1) \div size
    BY <2>1, Divides
  <2>3. q + 1 \in 1..count
    BY <1>1, <2>1, <2>2, Shares
  <2>4. n \in share(q + 1)
    BY <2>2
  <2>5. QED
    BY <2>3, <2>4
<1>5. QED
  BY <1>2, <1>3, <1>4

(* The replicas wanted of a service are numbered apart. *)
LEMMA Numbered ==
    ASSUME FileOK, NEW c, Asks(c), \A s \in ServiceSet : Placing(s, c).ok, NEW s \in ServiceSet
    PROVE  /\ \A n \in WantedOf(s, c) : n[3] \in Int
           /\ \A n, m \in WantedOf(s, c) : n[3] = m[3] => n = m
<1>1. Want(s, c) \in Nat
  BY Placements, RolloutAssumption
<1>2. file[s].container \in BOOLEAN
  BY Sections
<1>3. \A n \in WantedOf(s, c) : \E i \in 1..Want(s, c) : n = instanceName(s, i, Want(s, c))
  BY DEF WantedOf
<1>4. ASSUME NEW i \in 1..Want(s, c)
      PROVE  /\ instanceName(s, i, Want(s, c))[3] \in Int
             /\ instanceName(s, i, Want(s, c))[3] \in {i, 0}
  BY <1>1 DEF instanceName
<1>5. ASSUME NEW i \in 1..Want(s, c), NEW j \in 1..Want(s, c),
             instanceName(s, i, Want(s, c))[3] = instanceName(s, j, Want(s, c))[3]
      PROVE  instanceName(s, i, Want(s, c)) = instanceName(s, j, Want(s, c))
  BY <1>1, <1>2, <1>5 DEF instanceName
<1>6. QED
  BY <1>3, <1>4, <1>5

(* What a service's batches are. *)
LEMMA OfService ==
    ASSUME FileOK, NEW c, Asks(c), \A s \in ServiceSet : Placing(s, c).ok,
           NEW stale \in SUBSET Wanted(c), NEW s \in ServiceSet
    PROVE  LET q == ServiceBatches(s, stale)
           IN  /\ q \in Seq(Batch)
               /\ \A k \in DOMAIN q : GoodBatch(q[k], Wanted(c))
               /\ \A n \in stale : service(n) = s /\ file[s].update =>
                     \E k \in DOMAIN q : n \in q[k].names
<1> DEFINE own == {n \in stale : service(n) = s /\ file[s].update}
           size == BatchSize(s, own)
           count == (Cardinality(own) + size - 1) \div size
           share(b) == {n \in own : (Rank(n, own) - 1) \div size = b - 1}
           q == ServiceBatches(s, stale)
<1>1. CASE own = {}
  <2>1. q = <<>>
    BY <1>1 DEF ServiceBatches
  <2>2. \A n \in stale : ~(service(n) = s /\ file[s].update)
    BY <1>1
  <2>3. <<>> \in Seq(Batch) /\ DOMAIN <<>> = {}
    OBVIOUS
  <2> HIDE DEF own
  <2>4. QED
    BY <2>1, <2>2, <2>3
<1>2. CASE own # {}
  <2>1. /\ file[s].update /\ file[s].action \in {"pause", "continue"}
        /\ file[s].parallel \in Nat \union {None}
    BY <1>2, Sections
  <2>2. /\ Wanted(c) \subseteq Names /\ own \subseteq WantedOf(s, c) /\ own \subseteq Wanted(c)
        /\ IsFiniteSet(WantedOf(s, c)) /\ Cardinality(WantedOf(s, c)) = Want(s, c) /\ Want(s, c) \in 0..MaxIndex
    BY WantedNames
  <2>3. /\ IsFiniteSet(own) /\ Cardinality(own) \in Nat /\ Cardinality(own) <= MaxIndex
        /\ Cardinality(own) # 0
    <3> HIDE DEF own
    <3>1. IsFiniteSet(own) /\ Cardinality(own) <= Want(s, c)
      BY <2>2, FS_Subset
    <3>2. Cardinality(own) \in Nat /\ Cardinality(own) # 0
      BY <1>2, <3>1, FS_CardinalityType, FS_EmptySet
    <3>3. QED
      BY <2>2, <3>1, <3>2, RolloutAssumption
  <2>4. /\ \A n \in own : n[3] \in Int
        /\ \A n, m \in own : n[3] = m[3] => n = m
    BY <2>2, Numbered
  <2>5. size \in Nat \ {0} /\ size <= Limit(s)
    <3> HIDE DEF own
    <3>1. CASE file[s].parallel = None
      BY <3>1 DEF BatchSize, Limit
    <3>2. CASE file[s].parallel # None
      BY <2>1, <2>3, <3>2, RolloutAssumption DEF BatchSize, Limit
    <3>3. QED
      BY <3>1, <3>2
  <2>6. /\ count \in Nat
        /\ \A b \in 1..count : Cardinality(share(b)) <= size
        /\ \A n \in own : \E b \in 1..count : n \in share(b)
    <3> HIDE DEF own, size
    <3>1. QED
      BY <2>3, <2>4, <2>5, Cut
  <2>7. batchStaleInstances(s, own) = [b \in 1..count |-> share(b)]
    BY DEF batchStaleInstances
  <2>8. q = [b \in 1..count |-> [names |-> share(b), action |-> file[s].action, start |-> TRUE]]
    <3>1. q = [b \in DOMAIN batchStaleInstances(s, own) |->
                 [names |-> batchStaleInstances(s, own)[b], action |-> file[s].action, start |-> TRUE]]
      BY <1>2 DEF ServiceBatches
    <3> HIDE DEF q, own, size, count, share
    <3>2. QED
      BY <2>7, <3>1
  <2>9. \A b \in 1..count : share(b) \subseteq own
    OBVIOUS
  <2>10. \A n \in own : n \in Names /\ service(n) = s /\ n \in Wanted(c)
    BY <2>2
  <2>11. Limit(s) \in Int /\ \A b \in 1..count : Cardinality(share(b)) <= Limit(s)
    <3>1. Limit(s) \in Int
      BY <2>1, RolloutAssumption DEF Limit
    <3>2. \A b \in 1..count : Cardinality(share(b)) \in Nat
      <4> HIDE DEF own, share
      <4>1. \A b \in 1..count : IsFiniteSet(share(b))
        BY <2>3, <2>9, FS_Subset
      <4>2. QED
        BY <4>1, FS_CardinalityType
    <3> HIDE DEF own, share, size, count
    <3>3. QED
      BY <2>5, <2>6, <3>1, <3>2
  <2> HIDE DEF share, count, q, size
  <2>12. q \in Seq(Batch)
    <3>1. \A b \in 1..count : [names |-> share(b), action |-> file[s].action, start |-> TRUE] \in Batch
      BY <2>1, <2>9, <2>10 DEF Batch
    <3>2. QED
      BY <2>6, <2>8, <3>1
  <2>13. \A k \in DOMAIN q : GoodBatch(q[k], Wanted(c))
    <3> SUFFICES ASSUME NEW k \in 1..count PROVE GoodBatch(q[k], Wanted(c))
      BY <2>8
    <3>1. q[k].names = share(k) /\ q[k].action = file[s].action /\ q[k].start
      BY <2>8
    <3>2. share(k) \subseteq Wanted(c) /\ \A n \in share(k) : service(n) = s
      BY <2>9, <2>10
    <3>3. QED
      BY <2>1, <2>11, <3>1, <3>2 DEF GoodBatch
  <2>14. ASSUME NEW n \in stale, service(n) = s, file[s].update
         PROVE  \E k \in DOMAIN q : n \in q[k].names
    <3>1. n \in own
      BY <2>14
    <3>2. PICK b \in 1..count : n \in share(b)
      BY <2>6, <3>1
    <3>3. b \in DOMAIN q /\ q[b].names = share(b)
      BY <2>8
    <3>4. QED
      BY <3>2, <3>3
  <2>15. QED
    BY <2>12, <2>13, <2>14 DEF q
<1>3. QED
  BY <1>1, <1>2

(* The batches of an update are good ones, and every stale instance is in  *)
(* one.                                                                    *)
LEMMA Batches ==
    ASSUME FileOK, NEW c, Asks(c), \A s \in ServiceSet : Placing(s, c).ok,
           NEW stale \in SUBSET Wanted(c)
    PROVE  LET q == buildStaleBatches(stale)
           IN  /\ q \in Seq(Batch)
               /\ \A k \in DOMAIN q : GoodBatch(q[k], Wanted(c))
               /\ \A n \in stale : \E k \in DOMAIN q : n \in q[k].names
<1> DEFINE rest == {n \in stale : ~file[service(n)].update}
           first == IF rest = {} THEN <<>> ELSE <<[names |-> rest, action |-> "pause", start |-> FALSE]>>
           seqs == [k \in DOMAIN Services |-> ServiceBatches(Services[k], stale)]
           flat == FlattenSeq(seqs)
           q == buildStaleBatches(stale)
<1>1. PICK n \in Nat : DOMAIN Services = 1..n /\ \A k \in 1..n : Services[k] \in ServiceSet
  BY RolloutAssumption
<1>2. ASSUME NEW m \in 1..n
      PROVE  /\ seqs[m] \in Seq(Batch)
             /\ \A k \in DOMAIN seqs[m] : GoodBatch(seqs[m][k], Wanted(c))
             /\ \A x \in stale : service(x) = Services[m] /\ file[service(x)].update =>
                   \E k \in DOMAIN seqs[m] : x \in seqs[m][k].names
  <2>1. seqs[m] = ServiceBatches(Services[m], stale) /\ Services[m] \in ServiceSet
    BY <1>1
  <2> HIDE DEF seqs
  <2>2. QED
    BY <2>1, OfService
<1>3. seqs \in [1..n -> Seq(Batch)]
  BY <1>1, <1>2
<1> HIDE DEF seqs
<1>4. flat \in Seq(Batch) /\ Strings(flat, seqs, n)
  BY <1>3, Flattened
<1>5. Wanted(c) \subseteq Names
  BY WantedNames
<1>6. /\ first \in Seq(Batch)
      /\ \A k \in DOMAIN first : GoodBatch(first[k], Wanted(c))
      /\ \A x \in rest : \E k \in DOMAIN first : x \in first[k].names
  <2>1. CASE rest = {}
    BY <2>1
  <2>2. CASE rest # {}
    <3> DEFINE b == [names |-> rest, action |-> "pause", start |-> FALSE]
    <3>1. b \in Batch /\ b.names = rest /\ ~b.start
      BY <1>5 DEF Batch
    <3>2. GoodBatch(b, Wanted(c))
      <4>1. rest \subseteq Wanted(c) /\ \A x \in rest : ~file[service(x)].update
        OBVIOUS
      <4> HIDE DEF b, rest
      <4>2. QED
        BY <3>1, <4>1 DEF GoodBatch
    <3> HIDE DEF b
    <3>3. first = <<b>>
      BY <2>2 DEF b
    <3> HIDE DEF first, rest
    <3>4. first \in Seq(Batch) /\ DOMAIN first = {1} /\ first[1] = b
      BY <3>1, <3>3
    <3>5. QED
      BY <3>1, <3>2, <3>4
  <2>3. QED
    BY <2>1, <2>2
<1>7. q = first \o flat
  BY DEF buildStaleBatches, seqs
<1>8. \A x \in stale : x \in rest \/ \E m \in 1..n : service(x) = Services[m] /\ file[service(x)].update
  <2>1. \A x \in stale : service(x) \in ServiceSet
    BY <1>5 DEF Names, service
  <2>2. \A s \in ServiceSet : \E m \in 1..n : s = Services[m]
    BY <1>1 DEF ServiceSet, ToSet
  <2>3. QED
    BY <2>1, <2>2
<1> HIDE DEF first, flat, rest, q
<1>9. q \in Seq(Batch) /\ Follows(q, first, flat)
  BY <1>4, <1>6, <1>7, Joined
<1>10. ASSUME NEW k \in DOMAIN q PROVE GoodBatch(q[k], Wanted(c))
  <2>1. CASE k \in DOMAIN first /\ q[k] = first[k]
    BY <1>6, <2>1
  <2>2. CASE \E j \in DOMAIN flat : q[k] = flat[j]
    BY <1>2, <1>4, <2>2 DEF Strings
  <2>3. QED
    BY <1>9, <2>1, <2>2 DEF Follows
<1>11. ASSUME NEW x \in stale PROVE \E k \in DOMAIN q : x \in q[k].names
  <2>1. CASE x \in rest
    BY <1>6, <1>9, <2>1 DEF Follows
  <2>2. ASSUME NEW m \in 1..n, service(x) = Services[m], file[service(x)].update
        PROVE  \E k \in DOMAIN q : x \in q[k].names
    <3>1. PICK j \in DOMAIN seqs[m] : x \in seqs[m][j].names
      BY <1>2, <2>2
    <3>2. PICK i \in DOMAIN flat : flat[i] = seqs[m][j]
      BY <1>4 DEF Strings
    <3>3. PICK k \in DOMAIN q : q[k] = flat[i]
      BY <1>9 DEF Follows
    <3>4. QED
      BY <3>1, <3>2, <3>3
  <2>3. QED
    BY <1>8, <2>1, <2>2
<1>12. QED
  BY <1>9, <1>10, <1>11 DEF q

-----------------------------------------------------------------------------
(* Steps. *)

(* What a command wants follows from the file, the cluster and what it was *)
(* asked, and from nothing that changes while it runs.                     *)
LEMMA Steady ==
    ASSUME file' = file, net' = net,
           NEW c, cmd'.over = c.over, cmd'.server = c.server, cmd'.up = c.up
    PROVE  /\ Wanted(cmd)' = Wanted(c)
           /\ \A s \in ServiceSet : Want(s, cmd)' = Want(s, c) /\ After(s, cmd)' = After(s, c)
           /\ Sound(cmd.plan, cmd)' <=> Sound(cmd'.plan, c)
           /\ \A b, W : GoodBatch(b, W)' <=> GoodBatch(b, W)
           /\ FileOK' <=> FileOK
           /\ Asks(cmd)' <=> Asks(c)
<1>1. \A s \in ServiceSet : Placing(s, cmd)' = Placing(s, c)
  BY DEF Placing, Env, isServiceStorageRemote, IsStoragePoolRemote
<1>2. \A s \in ServiceSet : Want(s, cmd)' = Want(s, c)
  BY <1>1 DEF Want
<1>3. \A s, i, k : instanceName(s, i, k)' = instanceName(s, i, k)
  BY DEF instanceName
<1>4. \A s \in ServiceSet : WantedOf(s, cmd)' = WantedOf(s, c)
  BY <1>2, <1>3 DEF WantedOf
<1>5. Wanted(cmd)' = Wanted(c)
  BY <1>4 DEF Wanted
<1>6. \A s : instanceDependencyWaits(s, cmd.over, cmd.up)' = instanceDependencyWaits(s, c.over, c.up)
  BY DEF instanceDependencyWaits, Everywhere
<1>7. Sound(cmd.plan, cmd)' <=> Sound(cmd'.plan, c)
  BY <1>1, <1>5, <1>6 DEF Sound
<1>8. \A b, W : GoodBatch(b, W)' <=> GoodBatch(b, W)
  BY DEF GoodBatch, Limit
<1>9. FileOK' <=> FileOK
  BY DEF FileOK
<1>10. Asks(cmd)' <=> Asks(c)
  BY DEF Asks
<1>11. QED
  BY <1>2, <1>5, <1>7, <1>8, <1>9, <1>10 DEF After

(* A step inside a phase. *)
Within ==
    /\ Busy
    /\ file' = file /\ net' = net /\ rev' = rev /\ online' = online /\ ups' = ups
    /\ DOMAIN cmd' = DOMAIN cmd /\ cmd'.phase = cmd.phase /\ cmd'.res = cmd.res
    /\ cmd'.over = cmd.over /\ cmd'.server = cmd.server /\ cmd'.up = cmd.up
    /\ cmd'.plan = cmd.plan /\ cmd'.began = cmd.began /\ cmd'.batches = cmd.batches
    /\ cmd'.stacked = cmd.stacked /\ cmd'.swallowed = cmd.swallowed
    /\ cmd'.todo \subseteq cmd.todo /\ cmd'.late \subseteq cmd.late

(* What such a step leaves as it is. *)
LEMMA Stays ==
    ASSUME Within
    PROVE  /\ Wanted(cmd)' = Wanted(cmd)
           /\ \A s \in ServiceSet : Want(s, cmd)' = Want(s, cmd) /\ After(s, cmd)' = After(s, cmd)
           /\ Sound(cmd.plan, cmd)' <=> Sound(cmd.plan, cmd)
           /\ \A b, W : GoodBatch(b, W)' <=> GoodBatch(b, W)
           /\ FileOK' <=> FileOK
           /\ Asks(cmd)' <=> Asks(cmd)
           /\ Busy' /\ (Updating' <=> Updating) /\ Now' = Now /\ Planned' = Planned
<1>1. PICK c : c = cmd
  OBVIOUS
<1>2. /\ file' = file /\ net' = net /\ cmd'.over = c.over /\ cmd'.server = c.server /\ cmd'.up = c.up
      /\ cmd'.plan = c.plan
  BY <1>1 DEF Within
<1>3. /\ Wanted(cmd)' = Wanted(c)
      /\ \A s \in ServiceSet : Want(s, cmd)' = Want(s, c) /\ After(s, cmd)' = After(s, c)
      /\ Sound(cmd.plan, cmd)' <=> Sound(cmd'.plan, c)
      /\ \A b, W : GoodBatch(b, W)' <=> GoodBatch(b, W)
      /\ FileOK' <=> FileOK
      /\ Asks(cmd)' <=> Asks(c)
  BY <1>2, Steady
<1>4. Busy' /\ (Updating' <=> Updating) /\ Now' = Now /\ Planned' = Planned
  BY DEF Within, Busy, Updating, Now, Planned
<1>5. QED
  BY <1>1, <1>2, <1>3, <1>4

(* The part of the invariant a step inside a phase leaves alone. *)
LEMMA Frames ==
    ASSUME Inv, Within, inst' \in [Names -> Instance \union {None}],
           cmd'.have \subseteq Names, cmd'.made \subseteq Names, cmd'.bad \in BOOLEAN, NoStray'
    PROVE  TypeOK' /\ PlanInv' /\ Flow' /\ RestInv'
<1>1. TypeOK'
  BY Stays DEF Inv, TypeOK, Within
<1>2. PlanInv'
  BY Stays DEF Inv, PlanInv, Within
<1>3. Flow'
  <2>1. Busy' /\ cmd'.res = "none"
    BY Stays DEF Inv, Flow, Within
  <2>2. cmd'.phase = "ensure" => ~cmd'.swallowed /\ cmd'.todo \subseteq Planned'
    BY Stays DEF Inv, Flow, Within
  <2>3. ASSUME Updating'
        PROVE  /\ cmd'.batches # <<>>
               /\ \A k \in DOMAIN cmd'.batches : GoodBatch(cmd.batches[k], Wanted(cmd))'
               /\ cmd'.todo \subseteq Now'
    <3>1. /\ cmd.batches # <<>>
          /\ \A k \in DOMAIN cmd.batches : GoodBatch(cmd.batches[k], Wanted(cmd))
          /\ cmd.todo \subseteq Now
      BY <2>3, Stays DEF Inv, Flow
    <3>2. cmd'.batches = cmd.batches /\ cmd'.todo \subseteq cmd.todo
      BY DEF Within
    <3>3. QED
      BY <3>1, <3>2, Stays
  <2>4. QED
    BY <2>1, <2>2, <2>3 DEF Flow
<1>4. RestInv'
  BY <1>3, Stays DEF RestInv, Flow
<1>5. QED
  BY <1>1, <1>2, <1>3, <1>4

(* A step inside a phase takes no replica down but one of its batch, and   *)
(* ends with one only as the phase means to.                               *)
LEMMA Downs ==
    ASSUME Inv, Within,
           \A m \in Wanted(cmd) : running(m) /\ ~running(m)' =>
               cmd.phase \in {"stop", "delete"} /\ m \in cmd.todo,
           cmd.phase = "again" => cmd.todo \union cmd.have \subseteq cmd'.todo \union cmd'.have,
           cmd.phase = "start" => \A m \in cmd.todo \ cmd'.todo : running(m)'
    PROVE  DownInv'
<1> SUFFICES ASSUME NEW n \in (cmd.began \intersect Wanted(cmd))', ~running(n)',
                    file'[service(n)].update, file'[service(n)].action = "pause"
             PROVE  /\ Updating' /\ n \in Now'
                    /\ cmd'.phase = "again" => n \in cmd'.todo \union cmd'.have
                    /\ cmd'.phase = "start" => n \in cmd'.todo
  BY DEF DownInv, service
<1>1. /\ n \in cmd.began /\ n \in Wanted(cmd) /\ cmd'.phase = cmd.phase /\ Busy
      /\ file[service(n)].update /\ file[service(n)].action = "pause"
  BY Stays DEF Within
<1>2. CASE running(n)
  <2>1. cmd.phase \in {"stop", "delete"} /\ n \in cmd.todo
    BY <1>1, <1>2
  <2>2. Updating /\ n \in Now
    BY <2>1 DEF Inv, Flow, Updating
  <2>3. QED
    BY <1>1, <2>1, <2>2, Stays
<1>3. CASE ~running(n)
  <2>1. /\ Updating /\ n \in Now
        /\ cmd.phase = "again" => n \in cmd.todo \union cmd.have
        /\ cmd.phase = "start" => n \in cmd.todo
    BY <1>1, <1>3 DEF Inv, DownInv
  <2>2. QED
    BY <1>1, <2>1, Stays
<1>4. QED
  BY <1>2, <1>3

(* The fields of a command. *)
LEMMA Fields ==
    ASSUME TypeOK
    PROVE  DOMAIN cmd = {"phase", "res", "over", "server", "up", "plan", "todo", "late", "have", "made",
                         "began", "batches", "bad", "stacked", "swallowed"}
  BY DEF TypeOK, NoCommand

(* A planned name's entry in the plan, and what it says. *)
LEMMA InPlan ==
    ASSUME Inv, Busy, NEW n \in Planned
    PROVE  /\ planned(n).marked <=> n \notin Wanted(cmd)
           /\ file[service(n)].container => n[1] = "container"
           /\ n \in Names
<1>1. planned(n) \in cmd.plan /\ planned(n).name = n
  BY DEF Planned, planned
<1>2. Sound(cmd.plan, cmd)
  BY DEF Inv, PlanInv
<1>3. QED
  BY <1>1, <1>2 DEF Sound

(* A task of a batch is of a replica that is wanted, and planned. *)
LEMMA InBatch ==
    ASSUME Inv, Updating
    PROVE  /\ Now \subseteq Wanted(cmd) /\ cmd.todo \subseteq Now /\ Wanted(cmd) \subseteq Planned
           /\ cmd.batches # <<>> /\ cmd.batches \in Seq(Batch)
           /\ Head(cmd.batches) = cmd.batches[1] /\ GoodBatch(Head(cmd.batches), Wanted(cmd))
<1>1. /\ cmd.batches # <<>> /\ cmd.batches \in Seq(Batch)
      /\ \A k \in DOMAIN cmd.batches : GoodBatch(cmd.batches[k], Wanted(cmd))
      /\ cmd.todo \subseteq Now
  BY DEF Inv, Flow, TypeOK
<1>2. 1 \in DOMAIN cmd.batches /\ Head(cmd.batches) = cmd.batches[1]
  BY <1>1
<1>3. Sound(cmd.plan, cmd)
  BY DEF Inv, PlanInv, Busy, Updating
<1>4. QED
  BY <1>1, <1>2, <1>3 DEF GoodBatch, Sound, Now, Planned

(* One instance is changed. *)
LEMMA Changed ==
    ASSUME TypeOK, NEW n \in Names, NEW v \in Instance \union {None}, inst' = [inst EXCEPT ![n] = v]
    PROVE  /\ inst' \in [Names -> Instance \union {None}]
           /\ inst'[n] = v /\ \A m \in Names \ {n} : inst'[m] = inst[m]
  BY DEF TypeOK

(* An instance of a name that is planned does not stray. *)
LEMMA Strays ==
    ASSUME Inv, Within, NEW n \in Names, \A m \in Names \ {n} : inst'[m] = inst[m],
           n \in Planned \/ there(n) \/ ~there(n)'
    PROVE  NoStray'
<1> SUFFICES ASSUME NEW s \in ServiceSet, file[s].container, NEW i \in 0..MaxIndex, there(<<"service", s, i>>)'
             PROVE  FALSE
  BY DEF NoStray, Within
<1> DEFINE x == <<"service", s, i>>
<1>1. x \in Names /\ ~there(x) /\ service(x) = s /\ x[1] # "container"
  BY DEF Names, Inv, Flow, NoStray, service
<1>2. x = n
  BY <1>1 DEF there
<1>3. n \notin Planned
  <2>1. Busy
    BY DEF Within
  <2>2. QED
    BY <1>1, <1>2, <2>1, InPlan
<1>4. QED
  BY <1>1, <1>2, <1>3

(* EnsureThere keeps the invariant. *)
LEMMA EnsureThereKeeps ==
    ASSUME Inv, NEW n \in cmd.todo, EnsureThere(n)
    PROVE  Inv'
<1> USE DEF Inv
<1>1. n \in Names /\ cmd.phase \in {"ensure", "again"} /\ there(n) /\ Busy
  BY DEF EnsureThere, Doing, TypeOK, Busy
<1>2. n \in Planned
  <2>1. CASE cmd.phase = "ensure"
    BY <2>1 DEF Flow
  <2>2. CASE cmd.phase = "again"
    BY <2>2, InBatch DEF Updating
  <2>3. QED
    BY <1>1, <2>1, <2>2
<1>3. /\ planned(n).marked <=> n \notin Wanted(cmd)
      /\ planned(n).marked => cmd.phase = "ensure"
  <2>1. planned(n).marked <=> n \notin Wanted(cmd)
    BY <1>1, <1>2, InPlan
  <2>2. cmd.phase = "again" => n \in Wanted(cmd)
    BY InBatch DEF Updating
  <2>3. QED
    BY <1>1, <2>1, <2>2
<1>4. CASE planned(n).marked
  <2>1. /\ Within /\ cmd'.todo = cmd.todo \ {n} /\ cmd'.have = cmd.have /\ cmd'.made = cmd.made
        /\ cmd'.bad = cmd.bad /\ cmd'.late = cmd.late
        /\ inst' = [inst EXCEPT ![n] = None]
    BY <1>1, <1>4, Fields DEF EnsureThere, Did, Within, same
  <2>2. /\ inst' \in [Names -> Instance \union {None}]
        /\ inst'[n] = None /\ \A m \in Names \ {n} : inst'[m] = inst[m]
    BY <1>1, <2>1, Changed
  <2>3. TypeOK' /\ PlanInv' /\ Flow' /\ RestInv'
    <3>1. NoStray'
      BY <1>1, <2>1, <2>2, Strays
    <3>2. QED
      BY <2>1, <2>2, <3>1, Frames DEF TypeOK
  <2>4. Wanted(cmd) \subseteq Names \ {n}
    <3>1. Sound(cmd.plan, cmd) /\ FileOK /\ Asks(cmd)
      BY <1>1 DEF PlanInv, TypeOK
    <3>2. QED
      BY <1>3, <1>4, <3>1, WantedNames DEF Sound
  <2>5. DownInv'
    <3>1. \A m \in Wanted(cmd) : running(m) => running(m)'
      BY <2>2, <2>4 DEF running, there
    <3>2. cmd.phase = "ensure"
      BY <1>3, <1>4
    <3>3. QED
      BY <2>1, <3>1, <3>2, Downs
  <2>6. SettleInv'
    <3>1. SUFFICES ASSUME ~cmd.swallowed PROVE SettleInv'
      BY <2>1 DEF SettleInv, Within
    <3>2. cmd.phase = "ensure" /\ cmd.late = {} /\ (\A m \in cmd.have : there(m)) /\ Ensuring
      BY <1>1, <1>3, <1>4, <3>1 DEF SettleInv
    <3>3. n \notin cmd.have /\ n \notin cmd.made /\ n \notin Wanted(cmd)
      BY <1>3, <1>4, <3>2 DEF Ensuring
    <3>4. \A m \in Names \ {n} : (there(m)' <=> there(m)) /\ (current(m)' <=> current(m))
      BY <2>1, <2>2 DEF there, current, Within, service
    <3>5. cmd.have \subseteq Names \ {n} /\ cmd.made \subseteq Names \ {n} /\ cmd.todo \subseteq Names
      BY <3>3 DEF TypeOK
    <3>6. ~there(n)'
      BY <2>2 DEF there
    <3>7. Ensuring'
      <4>1. ASSUME NEW s \in ServiceSet, Want(s, cmd) < MaxIndex, there(After(s, cmd))'
            PROVE  After(s, cmd) \in cmd'.todo
        <5>1. PICK x : x = After(s, cmd)
          OBVIOUS
        <5>2. Want(s, cmd) + 1 \in 0..MaxIndex
          <6>1. Sound(cmd.plan, cmd) /\ FileOK /\ Asks(cmd)
            BY <1>1 DEF PlanInv, TypeOK
          <6>2. Want(s, cmd) \in 0..MaxIndex
            BY <6>1, WantedNames DEF Sound
          <6>3. QED
            BY <4>1, <6>2, RolloutAssumption
        <5>3. x \in Names
          BY <5>1, <5>2 DEF After, Names
        <5>4. there(x)'
          BY <4>1, <5>1, <2>1, Stays
        <5>5. x # n /\ there(x)
          BY <3>4, <3>6, <5>3, <5>4
        <5>6. x \in cmd.todo
          BY <3>2, <4>1, <5>1, <5>5 DEF Ensuring
        <5>7. QED
          BY <2>1, <5>1, <5>5, <5>6
      <4>2. QED
        BY <2>1, <3>2, <3>3, <3>4, <3>5, <4>1, Stays DEF Ensuring
    <3>8. \A m \in cmd'.have : there(m)'
      BY <2>1, <3>2, <3>4, <3>5
    <3>9. QED
      BY <2>1, <3>2, <3>7, <3>8 DEF SettleInv, Updating, Within
  <2>7. QED
    BY <2>3, <2>5, <2>6
<1>5. CASE ~planned(n).marked
  <2>1. /\ Within /\ cmd'.todo = cmd.todo \ {n} /\ cmd'.have = cmd.have \union {n} /\ cmd'.made = cmd.made
        /\ cmd'.bad = cmd.bad /\ cmd'.late = cmd.late /\ inst' = inst
    BY <1>1, <1>5, Fields DEF EnsureThere, Did, Within, same
  <2>2. TypeOK' /\ PlanInv' /\ Flow' /\ RestInv'
    <3>1. NoStray'
      BY <1>1, <2>1, Strays
    <3>2. QED
      BY <1>1, <2>1, <3>1, Frames DEF TypeOK
  <2>3. \A m : (running(m)' <=> running(m)) /\ (there(m)' <=> there(m)) /\ (current(m)' <=> current(m))
    BY <2>1 DEF running, there, current, service, Within
  <2>4. DownInv'
    BY <1>1, <2>1, <2>3, Downs
  <2>5. SettleInv'
    <3>1. SUFFICES ASSUME ~cmd.swallowed PROVE SettleInv'
      BY <2>1 DEF SettleInv, Within
    <3>2. n \in Wanted(cmd)
      BY <1>3, <1>5
    <3>3. cmd.phase = "ensure"
      <4>1. SUFFICES ASSUME cmd.phase = "again" PROVE FALSE
        BY <1>1
      <4>2. n \in Now /\ Updating
        BY <4>1, InBatch DEF Updating
      <4>3. Midway(n)
        BY <1>1, <3>1, <3>2, <4>2 DEF SettleInv
      <4>4. ~there(n)
        BY <4>1, <4>3 DEF Midway
      <4>5. QED
        BY <1>1, <4>4
    <3>4. cmd.late = {} /\ (\A m \in cmd.have : there(m)) /\ Ensuring
      BY <1>1, <3>1, <3>3 DEF SettleInv
    <3>5. \A s \in ServiceSet : After(s, cmd) # n
      <4>1. Sound(cmd.plan, cmd) /\ FileOK /\ Asks(cmd)
        BY <1>1 DEF PlanInv, TypeOK
      <4>2. QED
        BY <3>2, <4>1, WantedNames DEF Sound
    <3>6. Ensuring'
      <4>1. ASSUME NEW s \in ServiceSet, Want(s, cmd) < MaxIndex, there(After(s, cmd))'
            PROVE  After(s, cmd) \in cmd'.todo
        <5>1. PICK x : x = After(s, cmd)
          OBVIOUS
        <5>2. there(x)
          BY <2>1, <2>3, <4>1, <5>1, Stays
        <5>3. QED
          BY <2>1, <3>4, <3>5, <4>1, <5>1, <5>2 DEF Ensuring
      <4>2. QED
        BY <2>1, <2>3, <3>2, <3>4, <4>1, Stays DEF Ensuring
    <3>7. \A m \in cmd'.have : there(m)'
      BY <1>1, <2>1, <2>3, <3>4
    <3>8. QED
      BY <2>1, <3>3, <3>4, <3>6, <3>7 DEF SettleInv, Updating, Within
  <2>6. QED
    BY <2>2, <2>4, <2>5
<1>6. QED
  BY <1>4, <1>5

(* A running command's plan is sound, and what that means for its names. *)
LEMMA Running ==
    ASSUME Inv, Busy
    PROVE  /\ Sound(cmd.plan, cmd) /\ FileOK /\ Asks(cmd) /\ Wanted(cmd) \subseteq Names
           /\ \A s \in ServiceSet : /\ Placing(s, cmd).ok /\ After(s, cmd) \notin Wanted(cmd)
                                    /\ (Want(s, cmd) < MaxIndex => After(s, cmd) \in Names)
<1>1. Sound(cmd.plan, cmd) /\ FileOK /\ Asks(cmd)
  BY DEF Inv, PlanInv, TypeOK
<1>2. \A s \in ServiceSet : Placing(s, cmd).ok
  BY <1>1 DEF Sound
<1>3. /\ Wanted(cmd) \subseteq Names
      /\ \A s \in ServiceSet : Want(s, cmd) \in 0..MaxIndex /\ After(s, cmd) \notin Wanted(cmd)
  BY <1>1, <1>2, WantedNames
<1>4. ASSUME NEW s \in ServiceSet, Want(s, cmd) < MaxIndex PROVE After(s, cmd) \in Names
  <2>1. Want(s, cmd) + 1 \in 0..MaxIndex
    BY <1>3, <1>4, RolloutAssumption
  <2>2. QED
    BY <2>1 DEF After, Names
<1>5. QED
  BY <1>1, <1>2, <1>3, <1>4

(* A step inside a phase after the first, when no batch was skipped: what  *)
(* has to stand for the instances of the batch and for the others.         *)
LEMMA Settling ==
    ASSUME Inv, Within, cmd.phase # "ensure", \A m \in cmd'.have : there(m)',
           \A m \in Names \ Wanted(cmd) : there(m)' => there(m),
           ~cmd.swallowed => \A m \in Wanted(cmd) :
               /\ Updating /\ m \in Now /\ Midway(m) => Midway(m)'
               /\ Updating /\ m \notin Now /\ m \in cmd.have => m \in cmd'.have
               /\ Updating /\ m \notin Now /\ current(m) => current(m)'
               /\ cmd.phase = "final" /\ m \in cmd.have /\ current(m) /\ (m \in cmd.todo \/ running(m))
                    => m \in cmd'.have /\ current(m)' /\ (m \in cmd'.todo \/ running(m)')
    PROVE  SettleInv'
<1>1. SUFFICES ASSUME ~cmd.swallowed PROVE SettleInv'
  BY DEF SettleInv, Within
<1>2. /\ cmd.late = {} /\ NoneAfter
      /\ Updating => \A n \in Wanted(cmd) : IF n \in Now THEN Midway(n) ELSE Held(n)
      /\ cmd.phase = "final" =>
           \A n \in Wanted(cmd) : n \in cmd.have /\ current(n) /\ (n \in cmd.todo \/ running(n))
  BY <1>1 DEF Inv, SettleInv, Within
<1>3. NoneAfter'
  <2> SUFFICES ASSUME NEW s \in ServiceSet, Want(s, cmd)' < MaxIndex
               PROVE  ~there(After(s, cmd))'
    BY DEF NoneAfter
  <2>1. PICK x : x = After(s, cmd) /\ x = After(s, cmd)'
    BY Stays
  <2>2. x \in Names \ Wanted(cmd)
    BY <2>1, Stays, Running DEF Within
  <2>3. ~there(x)
    BY <1>2, <2>1, Stays DEF NoneAfter
  <2>4. ~there(x)'
    BY <2>2, <2>3
  <2>5. QED
    BY <2>1, <2>4
<1>4. ASSUME Updating, NEW n \in Wanted(cmd), n \notin Now PROVE Held(n)'
  <2>1. Held(n)
    BY <1>2, <1>4
  <2>2. cmd'.batches = cmd.batches
    BY DEF Within
  <2>3. QED
    BY <1>1, <1>4, <2>1, <2>2 DEF Held
<1>5. Updating' => \A n \in Wanted(cmd)' : IF n \in Now' THEN Midway(n)' ELSE Held(n)'
  BY <1>1, <1>2, <1>4, Stays
<1>6. cmd'.phase = "final" =>
         \A n \in Wanted(cmd)' : n \in cmd'.have /\ current(n)' /\ (n \in cmd'.todo \/ running(n)')
  BY <1>1, <1>2, Stays DEF Within
<1>7. cmd'.late = {} /\ cmd'.phase = cmd.phase
  BY <1>2 DEF Within
<1>8. QED
  BY <1>3, <1>5, <1>6, <1>7 DEF SettleInv

(* What a create makes is an instance. *)
LEMMA Making ==
    ASSUME TypeOK, NEW n \in Names, NEW m \in Sites(n)
    PROVE  Made(n, m) \in Instance /\ Made(n, m) # None
<1>1. m \in Members \union {Anywhere}
  <2>1. m \in online \union {Anywhere}
    BY DEF Sites
  <2>2. QED
    BY <2>1 DEF TypeOK
<1>2. rev[service(n)] \in Nat /\ ups \in Nat
  <2>1. service(n) \in ServiceSet
    BY DEF Names, service
  <2>2. QED
    BY <2>1 DEF TypeOK
<1>3. Made(n, m) \in Instance
  <2>1. PICK r \in Nat : r = rev[service(n)]
    BY <1>2
  <2>2. Made(n, m) = [on |-> m, rev |-> r, running |-> FALSE, by |-> ups]
    BY <2>1 DEF Made
  <2>3. QED
    BY <1>1, <1>2, <2>2 DEF Instance
<1>4. QED
  BY <1>3, RolloutAssumption

(* Create keeps the invariant. *)
LEMMA CreateKeeps ==
    ASSUME Inv, NEW n \in cmd.todo, Create(n)
    PROVE  Inv'
<1> USE DEF Inv
<1>1. n \in Names /\ cmd.phase \in {"ensure", "again"} /\ ~there(n) /\ Busy /\ service(n) \in ServiceSet
  BY DEF Create, Doing, TypeOK, Busy, Names, service
<1>2. PICK m \in Sites(n) :
        /\ inst' = [inst EXCEPT ![n] = Made(n, m)]
        /\ Did(n, [cmd EXCEPT !.have = @ \union {n}, !.made = @ \union {n}])
  BY DEF Create
<1>3. /\ Within /\ cmd'.todo = cmd.todo \ {n} /\ cmd'.have = cmd.have \union {n}
      /\ cmd'.made = cmd.made \union {n} /\ cmd'.bad = cmd.bad /\ cmd'.late = cmd.late
  BY <1>1, <1>2, Fields DEF Create, Did, Within, same
<1>4. Made(n, m) \in Instance /\ Made(n, m) # None
  BY <1>1, <1>2, Making
<1>5. /\ inst' \in [Names -> Instance \union {None}]
      /\ inst'[n] = Made(n, m) /\ \A x \in Names \ {n} : inst'[x] = inst[x]
  BY <1>1, <1>2, <1>4, Changed
<1>6. /\ there(n)' /\ current(n)'
      /\ \A x \in Names \ {n} : (there(x)' <=> there(x)) /\ (current(x)' <=> current(x)) /\ (running(x)' <=> running(x))
  <2>1. Made(n, m).rev = rev[service(n)]
    BY DEF Made
  <2>2. there(n)' /\ current(n)'
    BY <1>3, <1>4, <1>5, <2>1 DEF there, current, Within, service
  <2>3. QED
    BY <1>3, <1>5, <2>2 DEF there, current, running, Within, service
<1>7. n \in Planned
  <2>1. CASE cmd.phase = "ensure"
    BY <2>1 DEF Flow
  <2>2. CASE cmd.phase = "again"
    BY <2>2, InBatch DEF Updating
  <2>3. QED
    BY <1>1, <2>1, <2>2
<1>8. TypeOK' /\ PlanInv' /\ Flow' /\ RestInv'
  <2>1. NoStray'
    BY <1>1, <1>3, <1>5, <1>7, Strays
  <2>2. QED
    BY <1>1, <1>3, <1>5, <2>1, Frames DEF TypeOK
<1>9. DownInv'
  <2>1. \A x \in Wanted(cmd) : running(x) => running(x)'
    BY <1>1, <1>6, Running DEF running
  <2>2. QED
    BY <1>1, <1>3, <2>1, Downs
<1>10. SettleInv'
  <2>1. SUFFICES ASSUME ~cmd.swallowed PROVE SettleInv'
    BY <1>3 DEF SettleInv, Within
  <2>2. cmd.have \subseteq Names /\ cmd.made \subseteq Names /\ cmd.todo \subseteq Names
        /\ cmd.late = {} /\ \A x \in cmd.have : there(x)
    BY <1>1, <2>1 DEF SettleInv, TypeOK
  <2>3. \A x \in cmd'.have : there(x)'
    BY <1>3, <1>6, <2>2
  <2>4. n \in Wanted(cmd)
    <3>1. CASE cmd.phase = "ensure"
      BY <1>1, <2>1, <3>1 DEF SettleInv, Ensuring
    <3>2. CASE cmd.phase = "again"
      BY <3>2, InBatch DEF Updating
    <3>3. QED
      BY <1>1, <3>1, <3>2
  <2>5. CASE cmd.phase = "ensure"
    <3>1. Ensuring
      BY <1>1, <2>1, <2>5 DEF SettleInv
    <3>2. ASSUME NEW s \in ServiceSet, Want(s, cmd) < MaxIndex, there(After(s, cmd))'
          PROVE  After(s, cmd) \in cmd'.todo
      <4>1. PICK x : x = After(s, cmd) /\ x = After(s, cmd)'
        BY <1>3, Stays
      <4>2. x \in Names \ {n} /\ there(x)
        BY <1>1, <1>6, <2>4, <3>2, <4>1, Running
      <4>3. QED
        BY <1>3, <3>1, <3>2, <4>1, <4>2 DEF Ensuring
    <3>3. Ensuring'
      BY <1>3, <1>6, <2>2, <2>4, <3>1, <3>2, Stays DEF Ensuring
    <3>4. QED
      BY <1>3, <2>2, <2>3, <2>5, <3>3 DEF SettleInv, Updating, Within
  <2>6. CASE cmd.phase = "again"
    <3>1. Updating /\ n \in Now /\ cmd'.phase = "again"
      BY <1>3, <2>6, InBatch DEF Updating, Within
    <3>2. \A x \in Names \ Wanted(cmd) : there(x)' => there(x)
      BY <1>6, <2>4
    <3>3. \A x \in Wanted(cmd) : Midway(x) => Midway(x)'
      BY <1>1, <1>3, <1>6, <2>6, <3>1, Running DEF Midway
    <3>4. \A x \in Wanted(cmd) : x \notin Now => x \in Names \ {n}
      BY <1>1, <3>1, Running
    <3>5. QED
      BY <1>3, <1>6, <2>3, <2>6, <3>2, <3>3, <3>4, Settling
  <2>7. QED
    BY <1>1, <2>5, <2>6
<1>11. QED
  BY <1>8, <1>9, <1>10

(* Stop keeps the invariant. *)
LEMMA StopKeeps ==
    ASSUME Inv, NEW n \in cmd.todo, Stop(n)
    PROVE  Inv'
<1> USE DEF Inv
<1>1. n \in Names /\ cmd.phase = "stop" /\ there(n) /\ Busy /\ Updating
  BY DEF Stop, Doing, TypeOK, Busy, Updating
<1> DEFINE v == [inst[n] EXCEPT !.running = FALSE]
<1>2. inst[n] \in Instance
  BY <1>1 DEF TypeOK, there
<1>3. v \in Instance /\ v # None /\ v.rev = inst[n].rev
  BY <1>2, RolloutAssumption DEF Instance
<1>4. inst' = [inst EXCEPT ![n] = v]
  BY <1>1 DEF Stop
<1> HIDE DEF v
<1>5. /\ Within /\ cmd'.todo = cmd.todo \ {n} /\ cmd'.have = cmd.have /\ cmd'.made = cmd.made
      /\ cmd'.bad = cmd.bad /\ cmd'.late = cmd.late
  BY <1>1, Fields DEF Stop, Did, Within, same
<1>6. /\ inst' \in [Names -> Instance \union {None}]
      /\ inst'[n] = v /\ \A x \in Names \ {n} : inst'[x] = inst[x]
  BY <1>1, <1>3, <1>4, Changed
<1>7. \A x \in Names : (there(x)' <=> there(x)) /\ (current(x)' <=> current(x))
  BY <1>1, <1>3, <1>5, <1>6 DEF there, current, Within, service
<1>8. \A x \in Names \ {n} : running(x)' <=> running(x)
  BY <1>6 DEF there, running
<1>9. TypeOK' /\ PlanInv' /\ Flow' /\ RestInv'
  <2>1. NoStray'
    BY <1>1, <1>5, <1>6, Strays
  <2>2. QED
    BY <1>5, <1>6, <2>1, Frames DEF TypeOK
<1>10. DownInv'
  <2>1. \A x \in Wanted(cmd) : running(x) /\ ~running(x)' => x = n
    BY <1>1, <1>8, Running
  <2>2. QED
    BY <1>1, <1>5, <2>1, Downs
<1>11. SettleInv'
  <2>1. SUFFICES ASSUME ~cmd.swallowed PROVE SettleInv'
    BY <1>5 DEF SettleInv, Within
  <2>2. \A x \in cmd'.have : there(x)'
    BY <1>1, <1>5, <1>7, <2>1 DEF SettleInv, TypeOK
  <2>3. \A x : Midway(x) => Midway(x)'
    BY <1>1, <1>5 DEF Midway, Within
  <2>4. QED
    BY <1>1, <1>5, <1>7, <2>2, <2>3, Running, Settling
<1>12. QED
  BY <1>9, <1>10, <1>11

(* Delete keeps the invariant. *)
LEMMA DeleteKeeps ==
    ASSUME Inv, NEW n \in cmd.todo, Delete(n)
    PROVE  Inv'
<1> USE DEF Inv
<1>1. n \in Names /\ cmd.phase = "delete" /\ there(n) /\ Busy /\ Updating /\ n \in Now /\ n \in Wanted(cmd)
  <2>1. n \in Names /\ cmd.phase = "delete" /\ there(n) /\ Busy /\ Updating
    BY DEF Delete, Doing, TypeOK, Busy, Updating
  <2>2. QED
    BY <2>1, InBatch
<1>2. /\ Within /\ cmd'.todo = cmd.todo \ {n} /\ cmd'.have = cmd.have \ {n} /\ cmd'.made = cmd.made
      /\ cmd'.bad = cmd.bad /\ cmd'.late = cmd.late
      /\ inst' = [inst EXCEPT ![n] = None]
  BY <1>1, Fields DEF Delete, Did, Within, same
<1>3. /\ inst' \in [Names -> Instance \union {None}]
      /\ inst'[n] = None /\ \A x \in Names \ {n} : inst'[x] = inst[x]
  BY <1>1, <1>2, Changed
<1>4. ~there(n)' /\ \A x \in Names \ {n} : /\ there(x)' <=> there(x)
                                           /\ current(x)' <=> current(x)
                                           /\ running(x)' <=> running(x)
  BY <1>2, <1>3 DEF there, current, running, Within, service
<1>5. TypeOK' /\ PlanInv' /\ Flow' /\ RestInv'
  <2>1. NoStray'
    BY <1>1, <1>2, <1>3, Strays
  <2>2. QED
    BY <1>2, <1>3, <2>1, Frames DEF TypeOK
<1>6. DownInv'
  <2>1. \A x \in Wanted(cmd) : running(x) /\ ~running(x)' => x = n
    BY <1>1, <1>4, Running
  <2>2. QED
    BY <1>1, <1>2, <2>1, Downs
<1>7. SettleInv'
  <2>1. SUFFICES ASSUME ~cmd.swallowed PROVE SettleInv'
    BY <1>2 DEF SettleInv, Within
  <2>2. \A x \in cmd'.have : there(x)'
    BY <1>1, <1>2, <1>4, <2>1 DEF SettleInv, TypeOK
  <2>3. \A x \in Names : Midway(x) => Midway(x)'
    BY <1>1, <1>2, <1>4 DEF Midway, Within
  <2>4. \A x \in Wanted(cmd) : x \in Names /\ (x \notin Now => x # n)
    BY <1>1, Running
  <2>5. QED
    BY <1>1, <1>2, <1>4, <2>2, <2>3, <2>4, Settling
<1>8. QED
  BY <1>5, <1>6, <1>7

(* Start keeps the invariant. *)
LEMMA StartKeeps ==
    ASSUME Inv, NEW n \in cmd.todo, Start(n)
    PROVE  Inv'
<1> USE DEF Inv
<1>1. n \in Names /\ cmd.phase \in {"start", "final"} /\ there(n) /\ Busy
  BY DEF Start, Doing, TypeOK, Busy
<1> DEFINE v == [inst[n] EXCEPT !.running = TRUE]
<1>2. inst[n] \in Instance
  BY <1>1 DEF TypeOK, there
<1>3. v \in Instance /\ v # None /\ v.rev = inst[n].rev /\ v.running
  BY <1>2, RolloutAssumption DEF Instance
<1>4. inst' = [inst EXCEPT ![n] = v]
  BY <1>1 DEF Start
<1> HIDE DEF v
<1>5. /\ Within /\ cmd'.todo = cmd.todo \ {n} /\ cmd'.have = cmd.have /\ cmd'.made = cmd.made
      /\ cmd'.bad = cmd.bad /\ cmd'.late = cmd.late
  BY <1>1, Fields DEF Start, Did, Within, same
<1>6. /\ inst' \in [Names -> Instance \union {None}]
      /\ inst'[n] = v /\ \A x \in Names \ {n} : inst'[x] = inst[x]
  BY <1>1, <1>3, <1>4, Changed
<1>7. \A x \in Names : (there(x)' <=> there(x)) /\ (current(x)' <=> current(x)) /\ (running(x) => running(x)')
  BY <1>1, <1>3, <1>5, <1>6 DEF there, current, running, Within, service
<1>8. running(n)'
  BY <1>3, <1>6 DEF there, running
<1>9. TypeOK' /\ PlanInv' /\ Flow' /\ RestInv'
  <2>1. NoStray'
    BY <1>1, <1>5, <1>6, Strays
  <2>2. QED
    BY <1>5, <1>6, <2>1, Frames DEF TypeOK
<1>10. DownInv'
  <2>1. \A x \in Wanted(cmd) : running(x) => running(x)'
    BY <1>1, <1>7, Running
  <2>2. \A x \in cmd.todo \ cmd'.todo : running(x)'
    BY <1>5, <1>8
  <2>3. QED
    BY <1>1, <1>5, <2>1, <2>2, Downs
<1>11. SettleInv'
  <2>1. SUFFICES ASSUME ~cmd.swallowed PROVE SettleInv'
    BY <1>5 DEF SettleInv, Within
  <2>2. \A x \in cmd'.have : there(x)'
    BY <1>1, <1>5, <1>7, <2>1 DEF SettleInv, TypeOK
  <2>3. \A x \in Names : Updating /\ Midway(x) => Midway(x)'
    BY <1>1, <1>5, <1>7 DEF Midway, Within, Updating
  <2>4. QED
    BY <1>1, <1>5, <1>7, <1>8, <2>2, <2>3, Running, Settling
<1>12. QED
  BY <1>9, <1>10, <1>11

(* A step to another phase of a command. *)
Onward ==
    /\ Busy
    /\ file' = file /\ net' = net /\ rev' = rev /\ online' = online /\ ups' = ups /\ inst' = inst
    /\ DOMAIN cmd' = DOMAIN cmd /\ cmd'.res = cmd.res
    /\ cmd'.phase \in {"stop", "delete", "again", "start", "final"}
    /\ cmd'.over = cmd.over /\ cmd'.server = cmd.server /\ cmd'.up = cmd.up
    /\ cmd'.began = cmd.began /\ cmd'.have = cmd.have /\ cmd'.made = cmd.made
    /\ cmd'.bad \in BOOLEAN /\ cmd'.stacked \in BOOLEAN /\ cmd'.swallowed \in BOOLEAN

(* What it leaves as it is. *)
LEMMA Remains ==
    ASSUME Onward
    PROVE  /\ Wanted(cmd)' = Wanted(cmd) /\ (NoneAfter' <=> NoneAfter)
           /\ Sound(cmd.plan, cmd)' <=> Sound(cmd'.plan, cmd)
           /\ \A b, W : GoodBatch(b, W)' <=> GoodBatch(b, W)
           /\ FileOK' <=> FileOK
           /\ Asks(cmd)' <=> Asks(cmd)
           /\ Busy' /\ (NoStray' <=> NoStray)
           /\ \A n : (there(n)' <=> there(n)) /\ (running(n)' <=> running(n)) /\ (current(n)' <=> current(n))
<1>1. PICK c : c = cmd
  OBVIOUS
<1>2. /\ file' = file /\ net' = net /\ cmd'.over = c.over /\ cmd'.server = c.server /\ cmd'.up = c.up
  BY <1>1 DEF Onward
<1>3. /\ Wanted(cmd)' = Wanted(c)
      /\ \A s \in ServiceSet : Want(s, cmd)' = Want(s, c) /\ After(s, cmd)' = After(s, c)
      /\ Sound(cmd.plan, cmd)' <=> Sound(cmd'.plan, c)
      /\ \A b, W : GoodBatch(b, W)' <=> GoodBatch(b, W)
      /\ FileOK' <=> FileOK
      /\ Asks(cmd)' <=> Asks(c)
  BY <1>2, Steady
<1>4. \A n : (there(n)' <=> there(n)) /\ (running(n)' <=> running(n)) /\ (current(n)' <=> current(n))
  BY DEF Onward, there, running, current, service
<1>5. Busy'
  BY DEF Busy, Onward
<1>6. NoStray' <=> NoStray
  BY <1>2, <1>4 DEF NoStray
<1>7. NoneAfter' <=> NoneAfter
  <2>1. \A s \in ServiceSet : there(After(s, cmd))' <=> there(After(s, cmd))
    BY <1>1, <1>3 DEF Onward, there
  <2>2. QED
    BY <1>1, <1>3, <2>1 DEF NoneAfter
<1>8. QED
  BY <1>1, <1>3, <1>4, <1>5, <1>6, <1>7

(* The part of the invariant it keeps, given what it plans next. *)
LEMMA Onwards ==
    ASSUME Inv, Onward, Sound(cmd'.plan, cmd), cmd'.todo \subseteq Names,
           \A t \in cmd'.late : t.name \in Names, cmd'.batches \in Seq(Batch),
           cmd'.phase # "final" =>
               /\ cmd'.batches # <<>> /\ cmd'.todo \subseteq Head(cmd'.batches).names
               /\ \A k \in DOMAIN cmd'.batches : GoodBatch(cmd'.batches[k], Wanted(cmd))
    PROVE  TypeOK' /\ PlanInv' /\ Flow' /\ RestInv'
<1>1. TypeOK'
  <2>1. cmd'.phase \in {"idle", "ensure", "stop", "delete", "again", "start", "final"}
    BY DEF Onward
  <2>2. QED
    BY <2>1, Remains DEF Inv, TypeOK, Onward
<1>2. PlanInv'
  BY Remains DEF PlanInv
<1>3. cmd'.res = "none"
  BY DEF Inv, Flow, Onward
<1>4. Flow'
  <2>1. NoStray' /\ Busy' /\ cmd'.phase # "ensure"
    BY Remains DEF Inv, Flow, Onward
  <2>2. ASSUME Updating'
        PROVE  /\ cmd'.batches # <<>>
               /\ \A k \in DOMAIN cmd'.batches : GoodBatch(cmd.batches[k], Wanted(cmd))'
               /\ cmd'.todo \subseteq Now'
    <3>1. cmd'.phase # "final"
      BY <2>2 DEF Updating
    <3>2. QED
      BY <3>1, Remains DEF Now
  <2>3. QED
    BY <1>3, <2>1, <2>2 DEF Flow
<1>5. RestInv'
  BY <1>3 DEF RestInv
<1>6. QED
  BY <1>1, <1>2, <1>4, <1>5

(* A command comes to its end. *)
Lapsed ==
    /\ Busy
    /\ file' = file /\ net' = net /\ rev' = rev /\ online' = online /\ ups' = ups
    /\ DOMAIN cmd' = DOMAIN cmd /\ cmd'.phase = "idle"
    /\ cmd'.over = cmd.over /\ cmd'.server = cmd.server /\ cmd'.up = cmd.up /\ cmd'.plan = cmd.plan
    /\ cmd'.todo = {} /\ cmd'.late = {} /\ cmd'.have = {} /\ cmd'.made = {} /\ cmd'.began = {}
    /\ cmd'.batches = <<>> /\ cmd'.bad = FALSE /\ cmd'.stacked = TRUE /\ cmd'.swallowed \in BOOLEAN

(* The end of a command keeps the invariant. *)
LEMMA Lapses ==
    ASSUME Inv, Lapsed, inst' \in [Names -> Instance \union {None}], NoStray', RestInv'
    PROVE  Inv'
<1>1. PICK c : c = cmd
  OBVIOUS
<1>2. /\ file' = file /\ net' = net /\ cmd'.over = c.over /\ cmd'.server = c.server /\ cmd'.up = c.up
  BY <1>1 DEF Lapsed
<1>3. /\ Sound(cmd.plan, cmd)' <=> Sound(cmd'.plan, c)
      /\ FileOK' <=> FileOK
      /\ Asks(cmd)' <=> Asks(c)
  BY <1>2, Steady
<1>4. Sound(cmd.plan, cmd)'
  BY <1>1, <1>3 DEF Lapsed, Inv, PlanInv
<1>5. TypeOK'
  <2>1. <<>> \in Seq(Batch)
    OBVIOUS
  <2>2. QED
    BY <1>1, <1>3, <2>1 DEF Lapsed, Inv, TypeOK
<1>6. ~Busy' /\ ~Updating' /\ cmd'.phase # "ensure"
  BY DEF Lapsed, Busy, Updating
<1>7. Flow'
  BY <1>6 DEF Flow, Lapsed
<1>8. QED
  BY <1>4, <1>5, <1>6, <1>7 DEF Inv, PlanInv, DownInv, SettleInv

(* A batch is done with, and the next one begins, or the final starts. *)
Turned(sw, L) ==
    /\ Onward
    /\ cmd'.plan = cmd.plan /\ cmd'.batches = Tail(cmd.batches)
    /\ cmd'.swallowed = (cmd.swallowed \/ sw) /\ cmd'.late = cmd.late \union L
    /\ \/ Tail(cmd.batches) # <<>> /\ cmd'.phase = "stop" /\ cmd'.todo = Head(Tail(cmd.batches)).names
       \/ Tail(cmd.batches) = <<>> /\ cmd'.phase = "final" /\ cmd'.todo = cmd.have

(* What follows a batch, seen as one of the two. *)
LEMMA Turning ==
    ASSUME Inv, Busy, NEW sw \in BOOLEAN, NEW L,
           file' = file, net' = net, rev' = rev, online' = online, ups' = ups, inst' = inst,
           LET c == NextBatch(cmd, sw)
           IN  cmd' = IF c.phase = "idle" THEN c ELSE [c EXCEPT !.late = @ \union L]
    PROVE  Turned(sw, L) \/ (Lapsed /\ cmd'.res = "failed")
<1> DEFINE rest == Tail(cmd.batches)
           d == [cmd EXCEPT !.batches = rest, !.bad = FALSE, !.swallowed = @ \/ sw]
<1>1. cmd.bad \in BOOLEAN /\ cmd.stacked \in BOOLEAN /\ cmd.swallowed \in BOOLEAN
  BY DEF Inv, TypeOK
<1>2. CASE rest # <<>>
  <2>1. NextBatch(cmd, sw) = [d EXCEPT !.phase = "stop", !.todo = Head(rest).names]
    BY <1>2 DEF NextBatch
  <2>2. cmd' = [[d EXCEPT !.phase = "stop", !.todo = Head(rest).names] EXCEPT !.late = @ \union L]
    BY <2>1, Fields DEF Inv
  <2>3. Turned(sw, L)
    BY <1>1, <1>2, <2>2, Fields DEF Turned, Onward, Inv
  <2>4. QED
    BY <2>3
<1>3. CASE rest = <<>> /\ ~cmd.stacked
  <2>1. NextBatch(cmd, sw) = Resting("failed", d)
    BY <1>3 DEF NextBatch
  <2>2. cmd' = Resting("failed", d)
    BY <2>1, Fields DEF Inv, Resting
  <2>3. Lapsed /\ cmd'.res = "failed"
    BY <1>1, <2>2, Fields DEF Lapsed, Resting, Inv
  <2>4. QED
    BY <2>3
<1>4. CASE rest = <<>> /\ cmd.stacked
  <2>1. NextBatch(cmd, sw) = [d EXCEPT !.phase = "final", !.todo = cmd.have]
    BY <1>4, Fields DEF NextBatch, Inv
  <2>2. cmd' = [[d EXCEPT !.phase = "final", !.todo = cmd.have] EXCEPT !.late = @ \union L]
    BY <2>1, Fields DEF Inv
  <2>3. Turned(sw, L)
    BY <1>1, <1>4, <2>2, Fields DEF Turned, Onward, Inv
  <2>4. QED
    BY <2>3
<1>5. QED
  BY <1>1, <1>2, <1>3, <1>4

(* The batches to come, from the second on. *)
LEMMA Rest ==
    ASSUME Inv, Updating
    PROVE  LET rest == Tail(cmd.batches)
           IN  /\ rest \in Seq(Batch)
               /\ \A k \in DOMAIN rest : GoodBatch(rest[k], Wanted(cmd))
               /\ rest # <<>> => rest[1] = Head(rest) /\ 1 \in DOMAIN rest /\ Head(rest) \in Batch
               /\ \A k \in 2..Len(cmd.batches) :
                    /\ rest # <<>> /\ k - 1 \in DOMAIN rest /\ rest[k - 1] = cmd.batches[k]
                    /\ k # 2 => k - 1 \in 2..Len(rest)
<1>1. PICK q : q = cmd.batches
  OBVIOUS
<1>2. q \in Seq(Batch) /\ q # <<>> /\ \A k \in DOMAIN q : GoodBatch(q[k], Wanted(cmd))
  BY <1>1 DEF Inv, Flow, TypeOK
<1>3. PICK rest : rest = Tail(q)
  OBVIOUS
<1>4. /\ rest \in Seq(Batch) /\ Len(rest) = Len(q) - 1
      /\ \A k \in 1..Len(rest) : rest[k] = q[k + 1] /\ k + 1 \in DOMAIN q
  BY <1>2, <1>3
<1>5. \A k \in DOMAIN rest : GoodBatch(rest[k], Wanted(cmd))
  BY <1>2, <1>4
<1>6. rest # <<>> => rest[1] = Head(rest) /\ 1 \in DOMAIN rest /\ Head(rest) \in Batch
  BY <1>4
<1>7. ASSUME NEW k \in 2..Len(q)
      PROVE  /\ rest # <<>> /\ k - 1 \in DOMAIN rest /\ rest[k - 1] = q[k]
             /\ k # 2 => k - 1 \in 2..Len(rest)
  BY <1>2, <1>4
<1>8. QED
  BY <1>1, <1>3, <1>4, <1>5, <1>6, <1>7

(* The next batch keeps the invariant: when none was skipped, the ones of  *)
(* this batch are current; and none that pauses is down.                   *)
LEMMA Turns ==
    ASSUME Inv, Updating, NEW sw \in BOOLEAN, NEW L, Turned(sw, L),
           \A t \in L : t.name \in Names, ~sw => L = {},
           ~sw /\ ~cmd.swallowed => \A n \in Now : n \in cmd.have /\ current(n),
           \A n \in cmd.began \intersect Wanted(cmd) :
               file[service(n)].update /\ file[service(n)].action = "pause" => running(n)
    PROVE  Inv'
<1> DEFINE rest == Tail(cmd.batches)
<1>1. Onward /\ Busy /\ cmd'.plan = cmd.plan /\ cmd'.batches = rest
  BY DEF Turned, Onward
<1>2. TypeOK' /\ PlanInv' /\ Flow' /\ RestInv'
  <2>1. Sound(cmd'.plan, cmd)
    BY <1>1, Running
  <2>2. cmd'.todo \subseteq Names
    BY Rest DEF Inv, TypeOK, Turned, Batch
  <2>3. \A t \in cmd'.late : t.name \in Names
    BY DEF Turned, Inv, TypeOK
  <2>4. cmd'.phase # "final" =>
           /\ cmd'.batches # <<>> /\ cmd'.todo \subseteq Head(cmd'.batches).names
           /\ \A k \in DOMAIN cmd'.batches : GoodBatch(cmd'.batches[k], Wanted(cmd))
    BY Rest DEF Turned
  <2>5. QED
    BY <1>1, <2>1, <2>2, <2>3, <2>4, Rest, Onwards
<1>3. DownInv'
  <2>1. \A n \in cmd'.began \intersect Wanted(cmd)' :
           file'[service(n)].update /\ file'[service(n)].action = "pause" => running(n)'
    BY <1>1, Remains DEF Onward
  <2>2. QED
    BY <2>1 DEF DownInv, service
<1>4. SettleInv'
  <2>1. SUFFICES ASSUME ~cmd.swallowed, ~sw PROVE SettleInv'
    BY DEF SettleInv, Turned
  <2>2. /\ cmd.late = {} /\ (\A n \in cmd.have : there(n)) /\ NoneAfter
        /\ \A n \in Wanted(cmd) : IF n \in Now THEN Midway(n) ELSE Held(n)
    BY <1>1, <2>1 DEF Inv, SettleInv, Updating
  <2>3. /\ cmd'.late = {} /\ (\A n \in cmd'.have : there(n)') /\ NoneAfter'
        /\ cmd'.phase # "ensure" /\ cmd'.have = cmd.have
    BY <1>1, <2>1, <2>2, Remains DEF Turned, Onward
  <2>4. \A n \in Wanted(cmd) : n \in cmd.have /\ (current(n) \/ \E k \in 2..Len(cmd.batches) : n \in cmd.batches[k].names)
    BY <2>1, <2>2 DEF Held
  <2>5. CASE rest # <<>> /\ cmd'.phase = "stop" /\ cmd'.todo = Head(rest).names
    <3>1. Now' = rest[1].names
      BY <1>1, <2>5, Rest DEF Now
    <3>2. ASSUME NEW n \in Wanted(cmd) PROVE IF n \in Now' THEN Midway(n)' ELSE Held(n)'
      <4>1. CASE n \in Now'
        BY <2>3, <2>4, <2>5, <4>1 DEF Midway
      <4>2. CASE n \notin Now'
        <5>1. CASE current(n)
          BY <1>1, <2>3, <2>4, <4>2, <5>1, Remains DEF Held
        <5>2. ASSUME NEW k \in 2..Len(cmd.batches), n \in cmd.batches[k].names PROVE Held(n)'
          <6>1. k - 1 \in DOMAIN rest /\ rest[k - 1] = cmd.batches[k] /\ (k # 2 => k - 1 \in 2..Len(rest))
            BY Rest
          <6>2. k # 2
            <7>1. SUFFICES ASSUME k = 2 PROVE FALSE
              OBVIOUS
            <7>2. k - 1 = 1
              BY <7>1
            <7>3. rest[1] = cmd.batches[k]
              BY <6>1, <7>2
            <7>4. QED
              BY <3>1, <4>2, <5>2, <7>3
          <6>3. n \in cmd'.batches[k - 1].names /\ k - 1 \in 2..Len(cmd'.batches)
            BY <1>1, <5>2, <6>1, <6>2
          <6>4. QED
            BY <2>3, <2>4, <6>3 DEF Held
        <5>3. QED
          BY <2>4, <4>2, <5>1, <5>2
      <4>3. QED
        BY <4>1, <4>2
    <3>3. QED
      BY <1>1, <2>3, <2>5, <3>2, Remains DEF SettleInv
  <2>6. CASE rest = <<>> /\ cmd'.phase = "final" /\ cmd'.todo = cmd.have
    <3>1. \A n \in Wanted(cmd) : current(n)
      BY <2>4, <2>6, Rest
    <3>2. QED
      BY <1>1, <2>3, <2>4, <2>6, <3>1, Remains DEF SettleInv, Updating
  <2>7. QED
    BY <2>5, <2>6 DEF Turned
<1>5. QED
  BY <1>2, <1>3, <1>4 DEF Inv

(* In a batch that does not pause, none that pauses is down. *)
LEMMA Unpaused ==
    ASSUME Inv, Updating, Head(cmd.batches).action # "pause" \/ ~Head(cmd.batches).start \/
                          (cmd.phase = "start" /\ cmd.todo = {}),
           NEW n \in cmd.began \intersect Wanted(cmd),
           file[service(n)].update, file[service(n)].action = "pause"
    PROVE  running(n)
<1>1. SUFFICES ASSUME ~running(n) PROVE FALSE
  OBVIOUS
<1>2. n \in Now /\ (cmd.phase = "start" => n \in cmd.todo)
  BY <1>1 DEF Inv, DownInv, Updating, Busy
<1>3. GoodBatch(Head(cmd.batches), Wanted(cmd))
  BY InBatch
<1>4. QED
  BY <1>2, <1>3 DEF GoodBatch, Now

(* What a failure leads to, once its batch gives up. *)
LEMMA GivingUp ==
    ASSUME Inv, Busy, NEW L, \A t \in L : t.name \in Names,
           file' = file, net' = net, rev' = rev, online' = online, ups' = ups,
           inst' \in [Names -> Instance \union {None}], NoStray',
           cmd.phase # "ensure" => inst' = inst,
           LET c == GivesUp(cmd)
           IN  cmd' = IF c.phase = "idle" THEN c ELSE [c EXCEPT !.late = @ \union L]
    PROVE  Inv'
<1>1. CASE cmd.phase \in {"ensure", "final"} \/ Head(cmd.batches).action = "pause"
  <2>1. GivesUp(cmd) = Resting("failed", cmd)
    BY <1>1 DEF GivesUp
  <2>2. cmd' = Resting("failed", cmd)
    BY <2>1, Fields DEF Resting, Inv
  <2>3. Lapsed /\ cmd'.res = "failed"
    BY <2>2, Fields DEF Lapsed, Resting, Inv, TypeOK
  <2>4. RestInv'
    BY <2>3 DEF RestInv
  <2>5. QED
    BY <2>3, <2>4, Lapses
<1>2. CASE cmd.phase \notin {"ensure", "final"} /\ Head(cmd.batches).action # "pause"
  <2>1. GivesUp(cmd) = NextBatch(cmd, TRUE) /\ inst' = inst
    BY <1>2 DEF GivesUp
  <2>2. Updating
    BY <1>2 DEF Updating, Inv, TypeOK, Busy
  <2>3. Turned(TRUE, L) \/ (Lapsed /\ cmd'.res = "failed")
    BY <2>1, Turning
  <2>4. CASE Turned(TRUE, L)
    BY <1>2, <2>2, <2>4, Turns, Unpaused
  <2>5. CASE Lapsed /\ cmd'.res = "failed"
    BY <2>5, Lapses DEF RestInv
  <2>6. QED
    BY <2>3, <2>4, <2>5
<1>3. QED
  BY <1>1, <1>2

(* A task that fails keeps the invariant. *)
LEMMA TaskFailsKeeps ==
    ASSUME Inv, NEW n \in cmd.todo, TaskFails(n)
    PROVE  Inv'
<1> USE DEF Inv
<1>1. n \in Names /\ Busy
  BY DEF TaskFails, TypeOK, Busy
<1>2. file' = file /\ net' = net /\ rev' = rev /\ online' = online /\ ups' = ups
  BY DEF TaskFails, same
<1>3. PICK halted \in BOOLEAN :
        /\ halted => cmd.phase = "ensure" /\ there(n)
        /\ inst' = IF halted THEN [inst EXCEPT ![n].running = FALSE] ELSE inst
  BY DEF TaskFails
<1>4. inst' \in [Names -> Instance \union {None}] /\ NoStray'
  <2>1. CASE halted
    <3> DEFINE v == [inst[n] EXCEPT !.running = FALSE]
    <3>1. inst[n] \in Instance /\ there(n)
      BY <1>1, <1>3, <2>1 DEF TypeOK, there
    <3>2. v \in Instance /\ v # None
      BY <3>1, RolloutAssumption DEF Instance
    <3>3. inst' = [inst EXCEPT ![n] = v]
      BY <1>3, <2>1
    <3> HIDE DEF v
    <3>4. /\ inst' \in [Names -> Instance \union {None}]
          /\ inst'[n] = v /\ \A x \in Names \ {n} : inst'[x] = inst[x]
      BY <1>1, <3>2, <3>3, Changed
    <3>5. \A x \in Names : there(x)' => there(x)
      BY <3>1, <3>4 DEF there
    <3>6. \A s \in ServiceSet : \A i \in 0..MaxIndex : <<"service", s, i>> \in Names
      BY DEF Names
    <3>7. NoStray'
      BY <1>2, <3>5, <3>6 DEF NoStray, Flow
    <3>8. QED
      BY <3>4, <3>7
  <2>2. CASE ~halted
    BY <1>2, <1>3, <2>2 DEF TypeOK, Flow, NoStray, there
  <2>3. QED
    BY <2>1, <2>2
<1>5. CASE cmd.phase \in {"stop", "delete"}
  <2>1. /\ Within /\ cmd'.todo = cmd.todo \ {n} /\ cmd'.made = cmd.made /\ cmd'.bad = TRUE
        /\ cmd'.have = IF cmd.phase = "delete" THEN cmd.have \ {n} ELSE cmd.have
        /\ cmd'.late = cmd.late /\ inst' = inst
    <3>1. PICK h : h = IF cmd.phase = "delete" THEN cmd.have \ {n} ELSE cmd.have
      OBVIOUS
    <3>2. cmd' = [[cmd EXCEPT !.bad = TRUE, !.have = h] EXCEPT !.todo = cmd.todo \ {n}]
      BY <1>5, <3>1, Fields DEF TaskFails, Did
    <3>3. inst' = inst
      BY <1>3, <1>5
    <3>4. QED
      BY <1>1, <1>2, <3>1, <3>2, <3>3, Fields DEF Within
  <2>2. TypeOK' /\ PlanInv' /\ Flow' /\ RestInv'
    BY <1>4, <2>1, Frames DEF TypeOK
  <2>3. \A m : (there(m)' <=> there(m)) /\ (running(m)' <=> running(m)) /\ (current(m)' <=> current(m))
    BY <1>2, <2>1 DEF there, running, current, service
  <2>4. DownInv'
    BY <1>5, <2>1, <2>3, Downs
  <2>5. SettleInv'
    <3>1. SUFFICES ASSUME ~cmd.swallowed PROVE SettleInv'
      BY <2>1 DEF SettleInv, Within
    <3>2. \A m \in cmd'.have : there(m)'
      BY <1>1, <2>1, <2>3, <3>1 DEF SettleInv
    <3>3. \A m : Midway(m) => Midway(m)'
      BY <1>5, <2>1 DEF Midway, Within
    <3>4. n \in Now /\ cmd.phase # "ensure" /\ cmd.phase # "final"
      BY <1>5, InBatch DEF Updating
    <3>5. QED
      BY <2>1, <2>3, <3>2, <3>3, <3>4, Settling
  <2>6. QED
    BY <2>2, <2>4, <2>5
<1>6. CASE cmd.phase \notin {"stop", "delete"}
  <2>1. PICK left \in SUBSET (cmd.todo \ {n}) :
          LET c == GivesUp(cmd)
          IN  cmd' = IF c.phase = "idle" THEN c ELSE [c EXCEPT !.late = @ \union Tasks(cmd.phase, left)]
    BY <1>6 DEF TaskFails
  <2>2. \A t \in Tasks(cmd.phase, left) : t.name \in Names
    BY DEF Tasks, TypeOK
  <2>3. cmd.phase # "ensure" => inst' = inst
    BY <1>3
  <2>4. PICK L : L = Tasks(cmd.phase, left)
    OBVIOUS
  <2>5. QED
    BY <1>1, <1>2, <1>4, <2>1, <2>2, <2>3, <2>4, GivingUp
<1>7. QED
  BY <1>5, <1>6

(* A task left running comes to its end, done or failed: only after a      *)
(* batch was skipped, and it takes nothing down.                           *)
LEMMA LateKeeps ==
    ASSUME Inv, NEW t \in cmd.late, Late(t) \/ LateFails(t)
    PROVE  Inv'
<1> USE DEF Inv
<1>1. Busy /\ cmd.swallowed /\ cmd.phase # "ensure" /\ t.name \in Names
  <2>1. Busy /\ t.name \in Names
    BY DEF Flow, TypeOK
  <2>2. QED
    BY <2>1 DEF SettleInv, Flow
<1>2. PICK n : n = t.name
  OBVIOUS
<1>3. /\ Within /\ cmd'.todo = cmd.todo /\ cmd'.made = cmd.made /\ cmd'.bad = cmd.bad
      /\ cmd.have \subseteq cmd'.have /\ cmd'.have \subseteq cmd.have \union {n}
  BY <1>1, <1>2, Fields DEF Late, LateFails, Within, same
<1>4. \/ inst' = inst
      \/ n \in Planned /\ ~there(n) /\ \E m \in Sites(n) : inst' = [inst EXCEPT ![n] = Made(n, m)]
      \/ n \in Planned /\ there(n) /\ inst' = [inst EXCEPT ![n].running = TRUE]
  BY <1>2 DEF Late, LateFails
<1>5. CASE inst' = inst
  <2>1. inst' \in [Names -> Instance \union {None}] /\ NoStray'
    BY <1>3, <1>5 DEF TypeOK, NoStray, Flow, Within, there
  <2>2. TypeOK' /\ PlanInv' /\ Flow' /\ RestInv'
    BY <1>1, <1>2, <1>3, <2>1, Frames DEF TypeOK
  <2>3. DownInv'
    BY <1>3, <1>5, Downs DEF running, there
  <2>4. QED
    BY <1>1, <1>3, <2>2, <2>3 DEF SettleInv, Within
<1>6. CASE n \in Planned /\ \E v \in Instance : v # None /\ inst' = [inst EXCEPT ![n] = v] /\ (running(n) => v.running)
  <2>1. PICK v \in Instance : v # None /\ inst' = [inst EXCEPT ![n] = v] /\ (running(n) => v.running)
    BY <1>6
  <2>2. /\ inst' \in [Names -> Instance \union {None}]
        /\ inst'[n] = v /\ \A x \in Names \ {n} : inst'[x] = inst[x]
    BY <1>1, <1>2, <2>1, Changed
  <2>3. NoStray'
    BY <1>1, <1>2, <1>3, <1>6, <2>2, Strays
  <2>4. TypeOK' /\ PlanInv' /\ Flow' /\ RestInv'
    BY <1>1, <1>2, <1>3, <2>2, <2>3, Frames DEF TypeOK
  <2>5. \A x \in Names : running(x) => running(x)'
    BY <2>1, <2>2 DEF running, there
  <2>6. DownInv'
    <3>1. \A x \in Wanted(cmd) : running(x) => running(x)'
      BY <1>1, <2>5, Running
    <3>2. QED
      BY <1>3, <3>1, Downs
  <2>7. QED
    BY <1>1, <1>3, <2>4, <2>6 DEF SettleInv, Within
<1>7. CASE n \in Planned /\ ~there(n) /\ \E m \in Sites(n) : inst' = [inst EXCEPT ![n] = Made(n, m)]
  <2>1. PICK m \in Sites(n) : inst' = [inst EXCEPT ![n] = Made(n, m)]
    BY <1>7
  <2>2. Made(n, m) \in Instance /\ Made(n, m) # None /\ ~running(n)
    BY <1>1, <1>2, <1>7, Making DEF running
  <2>3. QED
    BY <1>6, <1>7, <2>1, <2>2
<1>8. CASE n \in Planned /\ there(n) /\ inst' = [inst EXCEPT ![n].running = TRUE]
  <2> DEFINE v == [inst[n] EXCEPT !.running = TRUE]
  <2>1. inst[n] \in Instance
    BY <1>1, <1>2, <1>8 DEF TypeOK, there
  <2>2. v \in Instance /\ v # None /\ v.running
    BY <2>1, RolloutAssumption DEF Instance
  <2>3. inst' = [inst EXCEPT ![n] = v]
    BY <1>8
  <2> HIDE DEF v
  <2>4. QED
    BY <1>6, <1>8, <2>2, <2>3
<1>9. QED
  BY <1>4, <1>5, <1>7, <1>8

(* The end of the ensure keeps the invariant: what is not current is in a  *)
(* batch.                                                                  *)
LEMMA EnsurePhaseEndsKeeps ==
    ASSUME Inv, EnsurePhaseEnds
    PROVE  Inv'
<1> USE DEF Inv
<1>1. cmd.phase = "ensure" /\ cmd.todo = {} /\ Busy /\ ~cmd.swallowed
  BY DEF EnsurePhaseEnds, Busy, Flow
<1>2. cmd.late = {} /\ (\A n \in cmd.have : there(n)) /\ Ensuring
  BY <1>1 DEF SettleInv
<1>3. PICK q : q = buildStaleBatches(staleInstances)
  OBVIOUS
<1>4. staleInstances \subseteq Wanted(cmd) /\ Wanted(cmd) \subseteq Names
  BY <1>1, <1>2, Running DEF Ensuring, staleInstances
<1>5. /\ q \in Seq(Batch) /\ (\A k \in DOMAIN q : GoodBatch(q[k], Wanted(cmd)))
      /\ \A n \in staleInstances : \E k \in DOMAIN q : n \in q[k].names
  <2>1. PICK c : c = cmd
    OBVIOUS
  <2>2. PICK stale : stale = staleInstances
    OBVIOUS
  <2>3. FileOK /\ Asks(c) /\ (\A s \in ServiceSet : Placing(s, c).ok) /\ stale \subseteq Wanted(c)
    BY <1>1, <1>4, <2>1, <2>2, Running
  <2>4. QED
    BY <1>3, <2>1, <2>2, <2>3, Batches
<1>6. /\ Onward /\ cmd'.plan = cmd.plan /\ cmd'.late = cmd.late /\ cmd'.swallowed = cmd.swallowed
      /\ \/ q = <<>> /\ cmd'.phase = "final" /\ cmd'.todo = cmd.have /\ cmd'.batches = cmd.batches
         \/ q # <<>> /\ cmd'.phase = "stop" /\ cmd'.todo = Head(q).names /\ cmd'.batches = q
  <2>1. cmd' = IF q = <<>> THEN [cmd EXCEPT !.phase = "final", !.todo = cmd.have]
               ELSE [cmd EXCEPT !.phase = "stop", !.batches = q, !.stacked = FALSE, !.todo = Head(q).names]
    BY <1>3 DEF EnsurePhaseEnds
  <2>2. /\ file' = file /\ net' = net /\ rev' = rev /\ online' = online /\ ups' = ups /\ inst' = inst
        /\ cmd.bad \in BOOLEAN /\ cmd.stacked \in BOOLEAN /\ cmd.swallowed \in BOOLEAN
    BY DEF EnsurePhaseEnds, same, TypeOK
  <2>3. CASE q = <<>>
    <3>1. cmd' = [cmd EXCEPT !.phase = "final", !.todo = cmd.have]
      BY <2>1, <2>3
    <3>2. Onward
      BY <1>1, <2>2, <3>1, Fields DEF Onward
    <3>3. QED
      BY <2>3, <3>1, <3>2, Fields
  <2>4. CASE q # <<>>
    <3>1. PICK todo : todo = Head(q).names
      OBVIOUS
    <3>2. cmd' = [cmd EXCEPT !.phase = "stop", !.batches = q, !.stacked = FALSE, !.todo = todo]
      BY <2>1, <2>4, <3>1
    <3>3. Onward
      BY <1>1, <2>2, <3>2, Fields DEF Onward
    <3>4. QED
      BY <2>4, <3>1, <3>2, <3>3, Fields
  <2>5. QED
    BY <2>3, <2>4
<1>7. q # <<>> => 1 \in DOMAIN q /\ Head(q) = q[1] /\ Head(q) \in Batch
  BY <1>5
<1>8. TypeOK' /\ PlanInv' /\ Flow' /\ RestInv'
  <2>1. Sound(cmd'.plan, cmd)
    BY <1>1, <1>6, Running
  <2>2. cmd'.todo \subseteq Names
    BY <1>6, <1>7 DEF TypeOK, Batch
  <2>3. cmd'.phase # "final" =>
           /\ cmd'.batches # <<>> /\ cmd'.todo \subseteq Head(cmd'.batches).names
           /\ \A k \in DOMAIN cmd'.batches : GoodBatch(cmd'.batches[k], Wanted(cmd))
    BY <1>5, <1>6
  <2>4. cmd'.batches \in Seq(Batch) /\ \A t \in cmd'.late : t.name \in Names
    BY <1>5, <1>6 DEF TypeOK
  <2>5. QED
    BY <1>6, <2>1, <2>2, <2>3, <2>4, Onwards
<1>9. \A n \in Wanted(cmd) : n \in cmd.have /\ (current(n) \/ n \in staleInstances)
  BY <1>1, <1>2 DEF Ensuring, staleInstances, current
<1>10. DownInv'
  <2>1. \A n \in cmd.began \intersect Wanted(cmd) :
           file[service(n)].update /\ file[service(n)].action = "pause" => running(n)
    BY <1>1 DEF DownInv, Updating
  <2>2. \A n \in cmd'.began \intersect Wanted(cmd)' :
           file'[service(n)].update /\ file'[service(n)].action = "pause" => running(n)'
    BY <1>6, <2>1, Remains DEF Onward
  <2>3. QED
    BY <2>2 DEF DownInv, service
<1>11. SettleInv'
  <2>1. NoneAfter'
    <3>1. NoneAfter
      BY <1>1, <1>2 DEF Ensuring, NoneAfter
    <3>2. QED
      BY <1>6, <3>1, Remains
  <2>2. /\ cmd'.late = {} /\ (\A n \in cmd'.have : there(n)')
        /\ cmd'.phase # "ensure" /\ cmd'.have = cmd.have
    BY <1>2, <1>6, Remains DEF Onward
  <2>3. CASE q = <<>> /\ cmd'.phase = "final" /\ cmd'.todo = cmd.have
    <3>1. \A n \in Wanted(cmd) : current(n)
      BY <1>5, <1>9, <2>3
    <3>2. QED
      BY <1>6, <1>9, <2>1, <2>2, <2>3, <3>1, Remains DEF SettleInv, Updating
  <2>4. CASE q # <<>> /\ cmd'.phase = "stop" /\ cmd'.batches = q
    <3>1. Now' = q[1].names
      BY <1>7, <2>4 DEF Now
    <3>2. ASSUME NEW n \in Wanted(cmd) PROVE IF n \in Now' THEN Midway(n)' ELSE Held(n)'
      <4>1. CASE n \in Now'
        BY <1>9, <2>2, <2>4, <4>1 DEF Midway
      <4>2. CASE n \notin Now'
        <5>1. CASE current(n)
          <6>1. n \in cmd'.have /\ current(n)'
            BY <1>6, <1>9, <2>2, <5>1, Remains
          <6>2. QED
            BY <4>2, <6>1 DEF Held
        <5>2. CASE ~current(n)
          <6>1. PICK k \in DOMAIN q : n \in q[k].names
            BY <1>5, <1>9, <5>2
          <6>2. k \in 2..Len(q)
            BY <1>5, <3>1, <4>2, <6>1
          <6>3. QED
            <7>1. n \in cmd'.have /\ k \in 2..Len(cmd'.batches) /\ n \in cmd'.batches[k].names
              BY <1>9, <2>2, <2>4, <6>1, <6>2
            <7>2. QED
              BY <4>2, <7>1 DEF Held
        <5>3. QED
          BY <5>1, <5>2
      <4>3. QED
        BY <4>1, <4>2
    <3>3. QED
      BY <1>6, <2>1, <2>2, <2>4, <3>2, Remains DEF SettleInv
  <2>5. QED
    BY <1>6, <2>3, <2>4
<1>12. QED
  BY <1>8, <1>10, <1>11

(* The end of a stop or of a delete keeps the invariant. *)
LEMMA TeardownPhaseEndsKeeps ==
    ASSUME Inv, TeardownPhaseEnds
    PROVE  Inv'
<1> USE DEF Inv
<1>1. cmd.phase \in {"stop", "delete"} /\ cmd.todo = {} /\ Busy /\ Updating
  BY DEF TeardownPhaseEnds, Busy, Updating
<1>2. /\ file' = file /\ net' = net /\ rev' = rev /\ online' = online /\ ups' = ups /\ inst' = inst
      /\ cmd.bad \in BOOLEAN /\ cmd.stacked \in BOOLEAN /\ cmd.swallowed \in BOOLEAN
  BY DEF TeardownPhaseEnds, same, TypeOK
<1>3. CASE cmd.bad
  <2>1. cmd' = GivesUp(cmd)
    BY <1>1, <1>3 DEF TeardownPhaseEnds
  <2>2. inst' \in [Names -> Instance \union {None}] /\ NoStray'
    BY <1>2 DEF TypeOK, NoStray, Flow, there
  <2>3. PICK c : c = GivesUp(cmd)
    OBVIOUS
  <2>4. [c EXCEPT !.late = @ \union {}] = c
    <3>1. \A d : [d EXCEPT !.late = @ \union {}] = [d EXCEPT !.late = d.late]
      OBVIOUS
    <3>2. DOMAIN c = DOMAIN cmd /\ c = [x \in DOMAIN c |-> c[x]]
      BY <2>3, Fields DEF GivesUp, NextBatch, Resting
    <3>3. QED
      BY <3>1, <3>2
  <2>5. LET d == GivesUp(cmd)
        IN  cmd' = IF d.phase = "idle" THEN d ELSE [d EXCEPT !.late = @ \union {}]
    BY <2>1, <2>3, <2>4
  <2>6. QED
    BY <1>1, <1>2, <2>2, <2>5, GivingUp
<1>4. CASE ~cmd.bad /\ cmd.phase = "stop"
  <2>1. cmd' = [cmd EXCEPT !.phase = "delete", !.todo = Head(cmd.batches).names]
    BY <1>1, <1>4 DEF TeardownPhaseEnds
  <2>2. /\ Onward /\ cmd'.plan = cmd.plan /\ cmd'.late = cmd.late /\ cmd'.swallowed = cmd.swallowed
        /\ cmd'.phase = "delete" /\ cmd'.todo = Now /\ cmd'.batches = cmd.batches
    BY <1>1, <1>2, <2>1, Fields DEF Onward, Now
  <2>3. TypeOK' /\ PlanInv' /\ Flow' /\ RestInv'
    <3>1. Sound(cmd'.plan, cmd) /\ cmd'.todo \subseteq Names
      BY <1>1, <2>2, Running, InBatch
    <3>2. /\ cmd'.batches # <<>> /\ cmd'.todo \subseteq Head(cmd'.batches).names
          /\ \A k \in DOMAIN cmd'.batches : GoodBatch(cmd'.batches[k], Wanted(cmd))
      BY <1>1, <2>2 DEF Flow, Now
    <3>3. cmd'.batches \in Seq(Batch) /\ \A t \in cmd'.late : t.name \in Names
      BY <2>2 DEF TypeOK
    <3>4. QED
      BY <2>2, <3>1, <3>2, <3>3, Onwards
  <2>4. Now' = Now /\ Updating' /\ cmd'.phase # "ensure" /\ cmd'.phase # "final"
    BY <2>2 DEF Now, Updating
  <2>5. DownInv'
    <3>1. \A n \in cmd.began \intersect Wanted(cmd) :
             file[service(n)].update /\ file[service(n)].action = "pause" /\ ~running(n) => n \in Now
      BY <1>1 DEF DownInv
    <3>2. \A n \in cmd'.began \intersect Wanted(cmd)' :
             file'[service(n)].update /\ file'[service(n)].action = "pause" /\ ~running(n)' => n \in Now'
      BY <2>2, <2>4, <3>1, Remains DEF Onward
    <3>3. QED
      BY <2>2, <2>4, <3>2 DEF DownInv, service
  <2>6. SettleInv'
    <3>1. SUFFICES ASSUME ~cmd.swallowed PROVE SettleInv'
      BY <2>2 DEF SettleInv
    <3>2. /\ cmd.late = {} /\ (\A n \in cmd.have : there(n)) /\ NoneAfter
          /\ \A n \in Wanted(cmd) : n \notin Now => Held(n)
      BY <1>1, <3>1 DEF SettleInv
    <3>3. ASSUME NEW n \in Wanted(cmd), n \notin Now PROVE Held(n)'
      <4>1. Held(n) /\ (current(n)' <=> current(n)) /\ cmd'.have = cmd.have /\ cmd'.batches = cmd.batches
        BY <2>2, <3>2, <3>3, Remains DEF Onward
      <4>2. QED
        BY <4>1 DEF Held
    <3>4. \A n \in Now : Midway(n)'
      BY <2>2 DEF Midway
    <3>5. (\A n \in cmd'.have : there(n)') /\ NoneAfter' /\ cmd'.late = {}
      BY <2>2, <3>2, Remains DEF Onward
    <3>6. \A n \in Wanted(cmd)' : IF n \in Now' THEN Midway(n)' ELSE Held(n)'
      BY <2>2, <2>4, <3>3, <3>4, Remains
    <3>7. QED
      BY <2>4, <3>5, <3>6 DEF SettleInv
  <2>7. QED
    BY <2>3, <2>5, <2>6
<1>5. CASE ~cmd.bad /\ cmd.phase = "delete"
  <2>1. PICK plan : plan = Resources(cmd)
    OBVIOUS
  <2>2. PICK todo : todo = Head(cmd.batches).names \intersect {r.name : r \in plan}
    OBVIOUS
  <2>3. cmd' = [cmd EXCEPT !.phase = "again", !.plan = plan, !.stacked = TRUE, !.todo = todo]
    BY <1>1, <1>5, <2>1, <2>2 DEF TeardownPhaseEnds
  <2>4. Sound(plan, cmd)
    <3>1. PICK c : c = cmd
      OBVIOUS
    <3>2. FileOK /\ NoStray /\ Asks(c) /\ ~Refuses(c)
      BY <1>1, <3>1, Running DEF Flow, Refuses
    <3>3. Sound(Resources(c), c)
      BY <3>2, Planning
    <3>4. QED
      BY <2>1, <3>1, <3>3
  <2>5. todo = Now /\ Now \subseteq Names
    BY <1>1, <2>2, <2>4, InBatch, Running DEF Sound, Now
  <2>6. /\ Onward /\ cmd'.plan = plan /\ cmd'.late = cmd.late /\ cmd'.swallowed = cmd.swallowed
        /\ cmd'.phase = "again" /\ cmd'.todo = Now /\ cmd'.batches = cmd.batches
    BY <1>1, <1>2, <2>3, <2>5, Fields DEF Onward
  <2>7. TypeOK' /\ PlanInv' /\ Flow' /\ RestInv'
    <3>1. Sound(cmd'.plan, cmd) /\ cmd'.todo \subseteq Names
      BY <2>4, <2>5, <2>6
    <3>2. /\ cmd'.batches # <<>> /\ cmd'.todo \subseteq Head(cmd'.batches).names
          /\ \A k \in DOMAIN cmd'.batches : GoodBatch(cmd'.batches[k], Wanted(cmd))
      BY <1>1, <2>6 DEF Flow, Now
    <3>3. cmd'.batches \in Seq(Batch) /\ \A t \in cmd'.late : t.name \in Names
      BY <2>6 DEF TypeOK
    <3>4. QED
      BY <2>6, <3>1, <3>2, <3>3, Onwards
  <2>8. Now' = Now /\ Updating' /\ cmd'.phase # "ensure" /\ cmd'.phase # "final"
    BY <2>6 DEF Now, Updating
  <2>9. DownInv'
    <3>1. \A n \in cmd.began \intersect Wanted(cmd) :
             file[service(n)].update /\ file[service(n)].action = "pause" /\ ~running(n) => n \in Now
      BY <1>1 DEF DownInv
    <3>2. \A n \in cmd'.began \intersect Wanted(cmd)' :
             file'[service(n)].update /\ file'[service(n)].action = "pause" /\ ~running(n)' => n \in Now'
      BY <2>6, <2>8, <3>1, Remains DEF Onward
    <3>3. QED
      BY <2>6, <2>8, <3>2 DEF DownInv, service
  <2>10. SettleInv'
    <3>1. SUFFICES ASSUME ~cmd.swallowed PROVE SettleInv'
      BY <2>6 DEF SettleInv
    <3>2. /\ cmd.late = {} /\ (\A n \in cmd.have : there(n)) /\ NoneAfter
          /\ \A n \in Wanted(cmd) : IF n \in Now THEN Midway(n) ELSE Held(n)
      BY <1>1, <3>1 DEF SettleInv
    <3>3. ASSUME NEW n \in Wanted(cmd), n \notin Now PROVE Held(n)'
      <4>1. Held(n) /\ (current(n)' <=> current(n)) /\ cmd'.have = cmd.have /\ cmd'.batches = cmd.batches
        BY <2>6, <3>2, <3>3, Remains DEF Onward
      <4>2. QED
        BY <4>1 DEF Held
    <3>4. ASSUME NEW n \in Wanted(cmd), n \in Now PROVE Midway(n)'
      <4>1. ~there(n)
        BY <1>1, <1>5, <3>2, <3>4 DEF Midway
      <4>2. ~there(n)'
        BY <2>6, <4>1, Remains
      <4>3. QED
        BY <2>6, <3>4, <4>2 DEF Midway
    <3>5. (\A n \in cmd'.have : there(n)') /\ NoneAfter' /\ cmd'.late = {}
      BY <2>6, <3>2, Remains DEF Onward
    <3>6. \A n \in Wanted(cmd)' : IF n \in Now' THEN Midway(n)' ELSE Held(n)'
      BY <2>6, <2>8, <3>3, <3>4, Remains
    <3>7. QED
      BY <2>8, <3>5, <3>6 DEF SettleInv
  <2>11. QED
    BY <2>7, <2>9, <2>10
<1>6. QED
  BY <1>1, <1>2, <1>3, <1>4, <1>5

(* The end of a create or of a start keeps the invariant. *)
LEMMA BatchPhaseEndsKeeps ==
    ASSUME Inv, BatchPhaseEnds
    PROVE  Inv'
<1> USE DEF Inv
<1>1. cmd.phase \in {"again", "start"} /\ cmd.todo = {} /\ Busy /\ Updating
  BY DEF BatchPhaseEnds, Busy, Updating
<1>2. /\ file' = file /\ net' = net /\ rev' = rev /\ online' = online /\ ups' = ups /\ inst' = inst
      /\ cmd.bad \in BOOLEAN /\ cmd.stacked \in BOOLEAN /\ cmd.swallowed \in BOOLEAN
  BY DEF BatchPhaseEnds, same, TypeOK
<1>3. ~cmd.swallowed => /\ cmd.late = {} /\ (\A n \in cmd.have : there(n)) /\ NoneAfter
                        /\ \A n \in Wanted(cmd) : IF n \in Now THEN Midway(n) ELSE Held(n)
  BY <1>1 DEF SettleInv
<1>4. ~cmd.swallowed => \A n \in Now : n \in cmd.have /\ current(n)
  <2>1. Now \subseteq Wanted(cmd)
    BY <1>1, InBatch
  <2>2. QED
    BY <1>1, <1>3, <2>1 DEF Midway
<1>5. CASE cmd.phase = "again" /\ Head(cmd.batches).start
  <2>1. PICK todo : todo = Head(cmd.batches).names \intersect cmd.have
    OBVIOUS
  <2>2. cmd' = [cmd EXCEPT !.phase = "start", !.todo = todo]
    BY <1>5, <2>1 DEF BatchPhaseEnds
  <2>3. todo = Now \intersect cmd.have
    BY <2>1 DEF Now
  <2>4. /\ Onward /\ cmd'.plan = cmd.plan /\ cmd'.late = cmd.late /\ cmd'.swallowed = cmd.swallowed
        /\ cmd'.phase = "start" /\ cmd'.todo = Now \intersect cmd.have /\ cmd'.batches = cmd.batches
    BY <1>1, <1>2, <2>2, <2>3, Fields DEF Onward
  <2>5. TypeOK' /\ PlanInv' /\ Flow' /\ RestInv'
    <3>1. Sound(cmd'.plan, cmd) /\ cmd'.todo \subseteq Names
      BY <1>1, <2>4, Running DEF TypeOK
    <3>2. /\ cmd'.batches # <<>> /\ cmd'.todo \subseteq Head(cmd'.batches).names
          /\ \A k \in DOMAIN cmd'.batches : GoodBatch(cmd'.batches[k], Wanted(cmd))
      BY <1>1, <2>4 DEF Flow, Now
    <3>3. cmd'.batches \in Seq(Batch) /\ \A t \in cmd'.late : t.name \in Names
      BY <2>4 DEF TypeOK
    <3>4. QED
      BY <2>4, <3>1, <3>2, <3>3, Onwards
  <2>6. Now' = Now /\ Updating' /\ cmd'.phase # "ensure" /\ cmd'.phase # "final"
    BY <2>4 DEF Now, Updating
  <2>7. DownInv'
    <3>1. \A n \in cmd.began \intersect Wanted(cmd) :
             file[service(n)].update /\ file[service(n)].action = "pause" /\ ~running(n) =>
                 n \in Now /\ n \in cmd.have
      BY <1>1, <1>5 DEF DownInv
    <3>2. \A n \in cmd'.began \intersect Wanted(cmd)' :
             file'[service(n)].update /\ file'[service(n)].action = "pause" /\ ~running(n)' =>
                 n \in Now' /\ n \in cmd'.todo
      BY <2>4, <2>6, <3>1, Remains DEF Onward
    <3>3. QED
      BY <2>4, <2>6, <3>2 DEF DownInv, service
  <2>8. SettleInv'
    <3>1. SUFFICES ASSUME ~cmd.swallowed PROVE SettleInv'
      BY <2>4 DEF SettleInv
    <3>2. ASSUME NEW n \in Wanted(cmd), n \notin Now PROVE Held(n)'
      <4>1. Held(n) /\ (current(n)' <=> current(n)) /\ cmd'.have = cmd.have /\ cmd'.batches = cmd.batches
        BY <1>3, <2>4, <3>1, <3>2, Remains DEF Onward
      <4>2. QED
        BY <4>1 DEF Held
    <3>3. ASSUME NEW n \in Now PROVE Midway(n)'
      <4>1. n \in cmd'.have /\ current(n)'
        BY <1>4, <2>4, <3>1, Remains DEF Onward
      <4>2. QED
        BY <2>4, <4>1 DEF Midway
    <3>4. (\A n \in cmd'.have : there(n)') /\ NoneAfter' /\ cmd'.late = {}
      BY <1>3, <2>4, <3>1, Remains DEF Onward
    <3>5. \A n \in Wanted(cmd)' : IF n \in Now' THEN Midway(n)' ELSE Held(n)'
      BY <2>4, <2>6, <3>2, <3>3, Remains
    <3>6. QED
      BY <2>6, <3>4, <3>5 DEF SettleInv
  <2>9. QED
    BY <2>5, <2>7, <2>8
<1>6. CASE ~(cmd.phase = "again" /\ Head(cmd.batches).start)
  <2>1. cmd' = NextBatch(cmd, FALSE)
    BY <1>6 DEF BatchPhaseEnds
  <2>2. PICK c : c = NextBatch(cmd, FALSE)
    OBVIOUS
  <2>3. [c EXCEPT !.late = @ \union {}] = c
    <3>1. \A d : [d EXCEPT !.late = @ \union {}] = [d EXCEPT !.late = d.late]
      OBVIOUS
    <3>2. DOMAIN c = DOMAIN cmd /\ c = [x \in DOMAIN c |-> c[x]]
      BY <2>2, Fields DEF NextBatch, Resting
    <3>3. QED
      BY <3>1, <3>2
  <2>4. LET d == NextBatch(cmd, FALSE)
        IN  cmd' = IF d.phase = "idle" THEN d ELSE [d EXCEPT !.late = @ \union {}]
    BY <2>1, <2>2, <2>3
  <2>5. Turned(FALSE, {}) \/ (Lapsed /\ cmd'.res = "failed")
    BY <1>1, <1>2, <2>4, Turning
  <2>6. CASE Turned(FALSE, {})
    <3>1. ~Head(cmd.batches).start \/ (cmd.phase = "start" /\ cmd.todo = {})
      BY <1>1, <1>6
    <3>2. QED
      BY <1>1, <1>4, <2>6, <3>1, Turns, Unpaused
  <2>7. CASE Lapsed /\ cmd'.res = "failed"
    <3>1. inst' \in [Names -> Instance \union {None}] /\ NoStray'
      BY <1>2 DEF TypeOK, NoStray, Flow, there
    <3>2. QED
      BY <2>7, <3>1, Lapses DEF RestInv
  <2>8. QED
    BY <2>5, <2>6, <2>7
<1>7. QED
  BY <1>5, <1>6

(* The end of the final start keeps the invariant: what is wanted runs. *)
LEMMA FinalPhaseEndsKeeps ==
    ASSUME Inv, FinalPhaseEnds
    PROVE  Inv'
<1> USE DEF Inv
<1>1. cmd.phase = "final" /\ cmd.todo = {} /\ Busy /\ cmd' = Resting("ok", cmd)
  BY DEF FinalPhaseEnds, Busy
<1>2. file' = file /\ net' = net /\ rev' = rev /\ online' = online /\ ups' = ups /\ inst' = inst
  BY DEF FinalPhaseEnds, same
<1>3. Lapsed /\ cmd'.swallowed = cmd.swallowed
  BY <1>1, <1>2, Fields DEF Lapsed, Resting, TypeOK
<1>4. inst' \in [Names -> Instance \union {None}] /\ NoStray'
  BY <1>2 DEF TypeOK, NoStray, Flow, there
<1>5. RestInv'
  <2>1. SUFFICES ASSUME ~cmd.swallowed PROVE RestInv'
    BY <1>3 DEF RestInv
  <2>2. NoneAfter /\ \A n \in Wanted(cmd) : current(n) /\ running(n)
    BY <1>1, <2>1 DEF SettleInv
  <2>3. PICK c : c = cmd
    OBVIOUS
  <2>4. /\ Wanted(cmd)' = Wanted(cmd)
        /\ \A s \in ServiceSet : Want(s, cmd)' = Want(s, cmd) /\ After(s, cmd)' = After(s, cmd)
    <3>1. cmd'.over = c.over /\ cmd'.server = c.server /\ cmd'.up = c.up
      BY <1>3, <2>3 DEF Lapsed
    <3>2. /\ Wanted(cmd)' = Wanted(c)
          /\ \A s \in ServiceSet : Want(s, cmd)' = Want(s, c) /\ After(s, cmd)' = After(s, c)
      BY <1>2, <3>1, Steady
    <3>3. QED
      BY <2>3, <3>2
  <2>5. \A n : (there(n)' <=> there(n)) /\ (current(n)' <=> current(n)) /\ (running(n)' <=> running(n))
    BY <1>2 DEF there, current, running, service
  <2>6. NoneAfter'
    <3>1. \A s \in ServiceSet : there(After(s, cmd))' <=> there(After(s, cmd))
      BY <1>2, <2>4 DEF there
    <3>2. QED
      BY <2>2, <2>4, <3>1 DEF NoneAfter
  <2>7. QED
    BY <2>2, <2>4, <2>5, <2>6 DEF RestInv
<1>6. QED
  BY <1>3, <1>4, <1>5, Lapses

(* A command that is killed keeps the invariant. *)
LEMMA KilledKeeps ==
    ASSUME Inv, Killed
    PROVE  Inv'
<1> USE DEF Inv
<1>1. Busy /\ cmd' = Resting("failed", cmd)
  BY DEF Killed, Busy
<1>2. file' = file /\ net' = net /\ rev' = rev /\ online' = online /\ ups' = ups /\ inst' = inst
  BY DEF Killed, same
<1>3. Lapsed /\ cmd'.res = "failed"
  BY <1>1, <1>2, Fields DEF Lapsed, Resting, TypeOK
<1>4. inst' \in [Names -> Instance \union {None}] /\ NoStray'
  BY <1>2 DEF TypeOK, NoStray, Flow, there
<1>5. QED
  BY <1>3, <1>4, Lapses DEF RestInv

(* A command that begins keeps the invariant: what it plans is what it     *)
(* wants and what is left over, and everything that ran still does.        *)
LEMMA BeginKeeps ==
    ASSUME Inv, NEW over \in Scales, NEW server \in online, Begin(over, server)
    PROVE  Inv'
<1> USE DEF Inv
<1>1. PICK c : c = [NoCommand EXCEPT !.over = over, !.server = server, !.up = online,
                                     !.began = {n \in Names : running(n)}]
  OBVIOUS
<1>2. PICK plan : plan = Resources(c)
  OBVIOUS
<1>3. /\ file' = file /\ rev' = rev /\ net' = net /\ online' = online /\ inst' = inst
      /\ ups' = ups + 1 /\ ups' \in Nat
      /\ cmd' = IF Refuses(c) THEN Resting("failed", c)
                ELSE [c EXCEPT !.phase = "ensure", !.plan = plan, !.todo = {r.name : r \in plan}]
  BY <1>1, <1>2 DEF Begin, TypeOK
<1>4. /\ c.over = over /\ c.up = online /\ c.began = {n \in Names : running(n)}
      /\ c.res = "none" /\ c.have = {} /\ c.made = {} /\ c.late = {} /\ c.plan = {}
      /\ c.batches = <<>> /\ c.bad = FALSE /\ c.stacked = TRUE /\ c.swallowed = FALSE
      /\ DOMAIN c = DOMAIN NoCommand
      /\ DOMAIN c = {"phase", "res", "over", "server", "up", "plan", "todo", "late", "have", "made",
                     "began", "batches", "bad", "stacked", "swallowed"}
  BY <1>1 DEF NoCommand
<1>5. FileOK /\ Asks(c) /\ NoStray
  BY <1>4, RolloutAssumption DEF Asks, TypeOK, Flow
<1>6. cmd'.over = c.over /\ cmd'.server = c.server /\ cmd'.up = c.up /\ cmd'.began \subseteq Names
  <2>1. CASE Refuses(c)
    BY <1>3, <1>4, <2>1 DEF Resting
  <2>2. CASE ~Refuses(c)
    BY <1>3, <1>4, <2>2
  <2>3. QED
    BY <2>1, <2>2
<1>7. /\ Wanted(cmd)' = Wanted(c)
      /\ \A s \in ServiceSet : Want(s, cmd)' = Want(s, c) /\ After(s, cmd)' = After(s, c)
      /\ Sound(cmd.plan, cmd)' <=> Sound(cmd'.plan, c)
      /\ FileOK' /\ Asks(cmd)'
  BY <1>3, <1>5, <1>6, Steady
<1>8. \A n : (there(n)' <=> there(n)) /\ (running(n)' <=> running(n))
  BY <1>3 DEF there, running
<1>9. NoStray'
  BY <1>3, <1>5, <1>8 DEF NoStray
<1>10. <<>> \in Seq(Batch)
  OBVIOUS
<1>11. CASE Refuses(c)
  <2>1. /\ cmd'.phase = "idle" /\ cmd'.res = "failed" /\ cmd'.plan = {} /\ cmd'.todo = {} /\ cmd'.late = {}
        /\ cmd'.have = {} /\ cmd'.made = {} /\ cmd'.began = {} /\ cmd'.batches = <<>> /\ cmd'.bad = FALSE
        /\ cmd'.stacked = TRUE /\ cmd'.swallowed = FALSE /\ DOMAIN cmd' = DOMAIN NoCommand
    BY <1>3, <1>4, <1>11 DEF Resting
  <2>2. ~Busy' /\ ~Updating'
    BY <2>1 DEF Busy, Updating
  <2>3. TypeOK'
    BY <1>3, <1>7, <1>10, <2>1 DEF TypeOK
  <2>4. Flow'
    BY <1>9, <2>1, <2>2 DEF Flow
  <2>5. QED
    BY <2>1, <2>2, <2>3, <2>4 DEF PlanInv, DownInv, SettleInv, RestInv
<1>12. CASE ~Refuses(c)
  <2>1. PICK todo : todo = {r.name : r \in plan}
    OBVIOUS
  <2>2. /\ cmd'.phase = "ensure" /\ cmd'.res = "none" /\ cmd'.plan = plan /\ cmd'.todo = todo /\ cmd'.late = {}
        /\ cmd'.have = {} /\ cmd'.made = {} /\ cmd'.began = {n \in Names : running(n)}
        /\ cmd'.batches = <<>> /\ cmd'.bad = FALSE
        /\ cmd'.stacked = TRUE /\ cmd'.swallowed = FALSE /\ DOMAIN cmd' = DOMAIN NoCommand
    BY <1>3, <1>4, <1>12, <2>1
  <2>3. /\ Sound(plan, c)
        /\ \A r \in plan : r.name \in Wanted(c) \/ there(r.name)
        /\ \A s \in ServiceSet : Want(s, c) < MaxIndex /\ there(After(s, c)) => After(s, c) \in todo
    BY <1>2, <1>5, <1>12, <2>1, Planning
  <2>4. todo \subseteq Names /\ Wanted(c) \subseteq todo
    BY <2>1, <2>3 DEF Sound
  <2>5. TypeOK'
    BY <1>3, <1>6, <1>7, <1>10, <2>2, <2>4 DEF TypeOK
  <2>6. PlanInv'
    BY <1>7, <2>2, <2>3 DEF PlanInv
  <2>7. ~Updating' /\ Planned' = todo
    BY <2>1, <2>2 DEF Updating, Planned
  <2>8. Flow'
    BY <1>9, <2>2, <2>7 DEF Flow, Busy
  <2>9. DownInv'
    BY <1>8, <2>2 DEF DownInv
  <2>10. Ensuring'
    <3>1. \A n \in todo \ Wanted(c) : there(n)'
      BY <1>8, <2>1, <2>3
    <3>2. \A s \in ServiceSet : Want(s, cmd)' < MaxIndex /\ there(After(s, cmd))' => After(s, cmd)' \in todo
      <4>1. \A s \in ServiceSet : there(After(s, cmd))' <=> there(After(s, c))
        BY <1>3, <1>7 DEF there
      <4>2. QED
        BY <1>7, <2>3, <4>1
    <3>3. QED
      BY <1>7, <2>2, <2>4, <3>1, <3>2 DEF Ensuring
  <2>11. SettleInv'
    BY <2>2, <2>7, <2>10 DEF SettleInv
  <2>12. RestInv'
    BY <2>2 DEF RestInv
  <2>13. QED
    BY <2>5, <2>6, <2>8, <2>9, <2>11, <2>12
<1>13. QED
  BY <1>11, <1>12

(* Between commands what was promised may be taken back: an edit, or a     *)
(* member that goes or comes, keeps the rest of the invariant.             *)
LEMMA IdleKeeps ==
    ASSUME Inv, ~Busy, file' = file, net' = net, inst' = inst, ups' = ups,
           rev' \in [ServiceSet -> Nat], online' \subseteq Members \union {Anywhere},
           net.clustered => online' \subseteq Members, cmd' = [cmd EXCEPT !.res = "none"]
    PROVE  Inv'
<1> USE DEF Inv
<1>1. /\ cmd'.phase = "idle" /\ cmd'.res = "none" /\ cmd'.over = cmd.over /\ cmd'.server = cmd.server
      /\ cmd'.up = cmd.up /\ cmd'.plan = cmd.plan /\ cmd'.todo = cmd.todo /\ cmd'.late = cmd.late
      /\ cmd'.have = cmd.have /\ cmd'.made = cmd.made /\ cmd'.began = cmd.began /\ cmd'.batches = cmd.batches
      /\ cmd'.bad = cmd.bad /\ cmd'.stacked = cmd.stacked /\ cmd'.swallowed = cmd.swallowed
      /\ DOMAIN cmd' = DOMAIN cmd
  BY Fields DEF Busy
<1>2. PICK c : c = cmd
  OBVIOUS
<1>3. (Sound(cmd.plan, cmd)' <=> Sound(cmd'.plan, c)) /\ (FileOK' <=> FileOK) /\ (Asks(cmd)' <=> Asks(c))
  <2>1. cmd'.over = c.over /\ cmd'.server = c.server /\ cmd'.up = c.up
    BY <1>1, <1>2
  <2>2. QED
    BY <2>1, Steady
<1>4. ~Busy' /\ ~Updating'
  BY <1>1 DEF Busy, Updating
<1>5. TypeOK'
  BY <1>1, <1>2, <1>3 DEF TypeOK
<1>6. PlanInv'
  BY <1>1, <1>2, <1>3, <1>4 DEF PlanInv
<1>7. Flow'
  BY <1>1, <1>4 DEF Flow, NoStray, there
<1>8. QED
  BY <1>1, <1>4, <1>5, <1>6, <1>7 DEF DownInv, SettleInv, RestInv

(* Members come and go under a command, which goes by its own list of      *)
(* them; and nothing but online changes of what the invariant reads.       *)
LEMMA QuietKeeps ==
    ASSUME Inv, file' = file, net' = net, inst' = inst, rev' = rev, ups' = ups, cmd' = cmd,
           online' \subseteq Members \union {Anywhere}, net.clustered => online' \subseteq Members
    PROVE  Inv'
<1> USE DEF Inv
<1>1. PICK c : c = cmd
  OBVIOUS
<1>2. /\ Wanted(cmd)' = Wanted(cmd)
      /\ \A s \in ServiceSet : Want(s, cmd)' = Want(s, cmd) /\ After(s, cmd)' = After(s, cmd)
      /\ Sound(cmd.plan, cmd)' <=> Sound(cmd.plan, cmd)
      /\ \A b, W : GoodBatch(b, W)' <=> GoodBatch(b, W)
      /\ FileOK' <=> FileOK
      /\ Asks(cmd)' <=> Asks(cmd)
  <2>1. cmd'.over = c.over /\ cmd'.server = c.server /\ cmd'.up = c.up /\ cmd'.plan = c.plan
    BY <1>1
  <2>2. /\ Wanted(cmd)' = Wanted(c)
        /\ \A s \in ServiceSet : Want(s, cmd)' = Want(s, c) /\ After(s, cmd)' = After(s, c)
        /\ Sound(cmd.plan, cmd)' <=> Sound(cmd'.plan, c)
        /\ \A b, W : GoodBatch(b, W)' <=> GoodBatch(b, W)
        /\ FileOK' <=> FileOK
        /\ Asks(cmd)' <=> Asks(c)
    BY <2>1, Steady
  <2>3. QED
    BY <1>1, <2>1, <2>2
<1>3. \A n : (there(n)' <=> there(n)) /\ (running(n)' <=> running(n)) /\ (current(n)' <=> current(n))
  BY DEF there, running, current, service
<1>4. (Busy' <=> Busy) /\ (Updating' <=> Updating) /\ Now' = Now /\ Planned' = Planned
  BY DEF Busy, Updating, Now, Planned
<1>5. (NoStray' <=> NoStray) /\ (NoneAfter' <=> NoneAfter)
  <2>1. \A s \in ServiceSet : there(After(s, cmd))' <=> there(After(s, cmd))
    BY <1>2 DEF there
  <2>2. QED
    BY <1>2, <1>3, <2>1 DEF NoStray, NoneAfter
<1>6. TypeOK'
  BY <1>2 DEF TypeOK
<1>7. PlanInv'
  BY <1>2, <1>4 DEF PlanInv
<1>8. Flow'
  BY <1>2, <1>4, <1>5 DEF Flow
<1>9. DownInv'
  BY <1>2, <1>3, <1>4 DEF DownInv, service
<1>10. Ensuring' <=> Ensuring
  <2>1. \A s \in ServiceSet : there(After(s, cmd))' <=> there(After(s, cmd))
    BY <1>2 DEF there
  <2>2. QED
    BY <1>2, <1>3, <2>1 DEF Ensuring
<1>11. \A n : (Midway(n)' <=> Midway(n)) /\ (Held(n)' <=> Held(n))
  BY <1>3 DEF Midway, Held
<1>12. SettleInv'
  BY <1>2, <1>3, <1>4, <1>5, <1>10, <1>11 DEF SettleInv
<1>13. RestInv'
  BY <1>2, <1>3, <1>5 DEF RestInv
<1>14. QED
  BY <1>6, <1>7, <1>8, <1>9, <1>12, <1>13

(* The first state satisfies the invariant. *)
LEMMA Starting ==
    ASSUME Init
    PROVE  Inv
<1>1. PICK k \in Cases :
        /\ file = k.file /\ net = k.net
        /\ inst = [n \in Names |->
                     IF k.deployed /\ n[1] = "service" /\ n[3] \in 1..Asked(file[service(n)], None)
                     THEN [on |-> Anywhere, rev |-> 0, running |-> TRUE, by |-> 0] ELSE None]
  BY DEF Init
<1>2. /\ rev = [s \in ServiceSet |-> 0] /\ online = IF net.clustered THEN Members ELSE {Anywhere}
      /\ cmd = NoCommand /\ ups = 0
  BY DEF Init
<1>3. /\ cmd.phase = "idle" /\ cmd.res = "none" /\ cmd.over = [s \in ServiceSet |-> None] /\ cmd.up = {}
      /\ cmd.plan = {} /\ cmd.todo = {} /\ cmd.late = {} /\ cmd.have = {} /\ cmd.made = {} /\ cmd.began = {}
      /\ cmd.batches = <<>> /\ cmd.bad = FALSE /\ cmd.stacked = TRUE /\ cmd.swallowed = FALSE
  BY <1>2 DEF NoCommand
<1>4. FileOK
  BY <1>1 DEF FileOK
<1>5. Asks(cmd)
  <2>1. None \in Counts
    BY DEF Counts
  <2>2. QED
    BY <1>3, <2>1 DEF Asks
<1>6. [on |-> Anywhere, rev |-> 0, running |-> TRUE, by |-> 0] \in Instance
  BY DEF Instance
<1>7. inst \in [Names -> Instance \union {None}]
  BY <1>1, <1>6
<1>8. TypeOK
  <2>1. <<>> \in Seq(Batch)
    OBVIOUS
  <2>2. QED
    BY <1>2, <1>3, <1>4, <1>5, <1>7, <2>1 DEF TypeOK
<1>9. NoStray
  <2> SUFFICES ASSUME NEW s \in ServiceSet, file[s].container, NEW i \in 0..MaxIndex
               PROVE  ~there(<<"service", s, i>>)
    BY DEF NoStray
  <2>1. ~k.deployed
    BY <1>1, RolloutAssumption
  <2>2. <<"service", s, i>> \in Names
    BY DEF Names
  <2>3. QED
    BY <1>1, <2>1, <2>2 DEF there
<1>10. ~Busy /\ ~Updating
  BY <1>3 DEF Busy, Updating
<1>11. Flow
  BY <1>3, <1>9, <1>10 DEF Flow
<1>12. QED
  BY <1>3, <1>8, <1>10, <1>11 DEF Inv, PlanInv, DownInv, SettleInv, RestInv

(* Every step keeps the invariant. *)
LEMMA Keeping ==
    ASSUME Inv, [Next]_vars
    PROVE  Inv'
<1>1. ASSUME NEW over \in Scales, NEW server \in online, Begin(over, server) PROVE Inv'
  BY <1>1, BeginKeeps
<1>2. ASSUME NEW n \in cmd.todo, EnsureThere(n) PROVE Inv'
  BY <1>2, EnsureThereKeeps
<1>3. ASSUME NEW n \in cmd.todo, Create(n) PROVE Inv'
  BY <1>3, CreateKeeps
<1>4. ASSUME NEW n \in cmd.todo, Stop(n) PROVE Inv'
  BY <1>4, StopKeeps
<1>5. ASSUME NEW n \in cmd.todo, Delete(n) PROVE Inv'
  BY <1>5, DeleteKeeps
<1>6. ASSUME NEW n \in cmd.todo, Start(n) PROVE Inv'
  BY <1>6, StartKeeps
<1>7. ASSUME NEW n \in cmd.todo, TaskFails(n) PROVE Inv'
  BY <1>7, TaskFailsKeeps
<1>8. ASSUME NEW t \in cmd.late, Late(t) \/ LateFails(t) PROVE Inv'
  BY <1>8, LateKeeps
<1>9. CASE EnsurePhaseEnds
  BY <1>9, EnsurePhaseEndsKeeps
<1>10. CASE TeardownPhaseEnds
  BY <1>10, TeardownPhaseEndsKeeps
<1>11. CASE BatchPhaseEnds
  BY <1>11, BatchPhaseEndsKeeps
<1>12. CASE FinalPhaseEnds
  BY <1>12, FinalPhaseEndsKeeps
<1>13. CASE Killed
  BY <1>13, KilledKeeps
<1>14. ASSUME NEW s \in ServiceSet, Edit(s) PROVE Inv'
  <2>1. rev' \in [ServiceSet -> Nat]
    BY <1>14 DEF Edit, Inv, TypeOK
  <2>2. QED
    BY <1>14, <2>1, IdleKeeps DEF Edit, Busy, Inv, TypeOK
<1>15. ASSUME NEW m \in Members, Member(m) PROVE Inv'
  <2>1. online' \subseteq Members \union {Anywhere} /\ (net.clustered => online' \subseteq Members)
    BY <1>15 DEF Member, Inv, TypeOK
  <2>2. CASE Busy
    BY <1>15, <2>1, <2>2, QuietKeeps DEF Member, Busy
  <2>3. CASE ~Busy
    BY <1>15, <2>1, <2>3, IdleKeeps DEF Member, Busy, Inv, TypeOK
  <2>4. QED
    BY <2>2, <2>3
<1>16. CASE UNCHANGED vars
  BY <1>16, QuietKeeps DEF vars, Inv, TypeOK
<1>17. QED
  BY <1>1, <1>2, <1>3, <1>4, <1>5, <1>6, <1>7, <1>8, <1>9, <1>10, <1>11, <1>12, <1>13, <1>14, <1>15, <1>16
     DEF Next

(* The invariant holds throughout. *)
THEOREM RolloutInvariant == Spec => []Inv
<1>1. Init => Inv
  BY Starting
<1>2. Inv /\ [Next]_vars => Inv'
  BY Keeping
<1>3. QED
  BY <1>1, <1>2, PTL DEF Spec

-----------------------------------------------------------------------------
(* What the invariant says to a user. *)

(* A rolling update that pauses on failure has no more replicas of a       *)
(* service down than its parallelism, whatever fails, in any cluster: the  *)
(* ones down are in the batch at hand.                                     *)
LEMMA InvAvailable ==
    ASSUME Inv
    PROVE  Available
<1> SUFFICES ASSUME NEW s \in ServiceSet, cmd.phase # "idle", file[s].update, file[s].action = "pause"
             PROVE  Cardinality({n \in cmd.began \intersect Kept : service(n) = s /\ ~running(n)}) <= Limit(s)
  BY DEF Available
<1> DEFINE down == {n \in cmd.began \intersect Kept : service(n) = s /\ ~running(n)}
<1>1. Busy /\ Kept = Wanted(cmd)
  BY Running, KeptWanted DEF Busy
<1>2. FileOK /\ Limit(s) \in Nat
  <2>1. FileOK
    BY DEF Inv, TypeOK
  <2>2. QED
    BY <2>1, Sections, RolloutAssumption DEF Limit
<1>3. \A n \in down : Updating /\ n \in Now
  BY <1>1 DEF Inv, DownInv
<1>4. CASE down = {}
  BY <1>2, <1>4, FS_EmptySet
<1>5. CASE down # {}
  <2>1. PICK n : n \in down
    BY <1>5
  <2>2. Updating /\ n \in Now /\ service(n) = s
    BY <1>3, <2>1
  <2>3. GoodBatch(Head(cmd.batches), Wanted(cmd)) /\ Now \subseteq Wanted(cmd)
    BY <2>2, InBatch
  <2>4. (\A m \in Now : service(m) = s) /\ Cardinality(Now) <= Limit(s)
    BY <2>2, <2>3 DEF GoodBatch, Now
  <2>5. IsFiniteSet(Now)
    <3>1. \A r \in ServiceSet : Placing(r, cmd).ok
      BY <1>1, Running
    <3>2. IsFiniteSet(WantedOf(s, cmd)) /\ {m \in Wanted(cmd) : service(m) = s} = WantedOf(s, cmd)
      BY <1>1, <3>1, Running, WantedNames
    <3>3. Now \subseteq WantedOf(s, cmd)
      BY <2>3, <2>4, <3>2
    <3>4. QED
      BY <3>2, <3>3, FS_Subset
  <2>6. down \subseteq Now
    BY <1>3
  <2>7. Cardinality(down) <= Cardinality(Now) /\ IsFiniteSet(down)
    BY <2>5, <2>6, FS_Subset
  <2>8. Cardinality(down) \in Nat /\ Cardinality(Now) \in Nat
    BY <2>5, <2>7, FS_CardinalityType
  <2>9. QED
    BY <1>2, <2>4, <2>7, <2>8
<1>6. QED
  BY <1>4, <1>5

(* After an up that succeeded and skipped no batch, what it planned runs   *)
(* from the file as it is, and the replica after the last is not there.    *)
LEMMA InvSettled ==
    ASSUME Inv
    PROVE  Settled
<1> SUFFICES ASSUME cmd.res = "ok", ~cmd.swallowed
             PROVE  /\ \A n \in Kept : running(n) /\ inst[n].rev = rev[service(n)]
                    /\ \A s \in ServiceSet : LET d == Cardinality({n \in Kept : service(n) = s})
                                             IN  d < MaxIndex => ~there(<<"service", s, d + 1>>)
  BY DEF Settled
<1>1. Sound(cmd.plan, cmd) /\ FileOK /\ Asks(cmd) /\ \A s \in ServiceSet : Placing(s, cmd).ok
  BY DEF Inv, PlanInv, TypeOK, Sound
<1>2. Kept = Wanted(cmd)
  BY <1>1, KeptWanted
<1>3. NoneAfter /\ \A n \in Wanted(cmd) : current(n) /\ running(n)
  BY DEF Inv, RestInv
<1>4. \A n \in Kept : running(n) /\ inst[n].rev = rev[service(n)]
  BY <1>2, <1>3 DEF current
<1>5. ASSUME NEW s \in ServiceSet
      PROVE  LET d == Cardinality({n \in Kept : service(n) = s})
             IN  d < MaxIndex => ~there(<<"service", s, d + 1>>)
  <2>1. Cardinality({n \in Kept : service(n) = s}) = Want(s, cmd)
    BY <1>1, <1>2, WantedNames
  <2>2. Want(s, cmd) < MaxIndex => ~there(<<"service", s, Want(s, cmd) + 1>>)
    BY <1>3 DEF NoneAfter, After
  <2>3. QED
    BY <2>1, <2>2
<1>6. QED
  BY <1>4, <1>5

(* A rolling update that pauses on failure never has more replicas of a    *)
(* service down than update_config's parallelism: for every cluster, file, *)
(* --scale, and whatever fails, is edited or goes offline in whatever      *)
(* order (updateBatches, runStaleBatch).                                   *)
THEOREM UpdatesKeepServing == Spec => []Available
<1>1. Inv => Available
  BY InvAvailable
<1>2. QED
  BY <1>1, RolloutInvariant, PTL

(* An up that succeeds, with no batch skipped, leaves what it planned      *)
(* running, all of it from the file as it is, and the next replica gone.   *)
THEOREM UpsSettle == Spec => []Settled
<1>1. Inv => Settled
  BY InvSettled
<1>2. QED
  BY <1>1, RolloutInvariant, PTL

(* The replicas of a service an instance waits for are the ones its own    *)
(* command brings up: instanceDependencyWaits counts as the placement does *)
(* where no global service has a replica count.                            *)
THEOREM WaitsAreNamed ==
    ASSUME \A k \in Cases : \A s \in ServiceSet : k.file[s].mode = "global" => k.file[s].replicas = None
    PROVE  Spec => []WaitsNamed
<1>1. Inv => WaitsNamed
  <2> SUFFICES ASSUME Inv PROVE WaitsNamed
    OBVIOUS
  <2>1. \A s \in ServiceSet : OneCount(s)
    BY DEF Inv, TypeOK, FileOK, OneCount
  <2>2. QED
    BY <2>1, WaitsHold DEF Inv, TypeOK
<1>2. QED
  BY <1>1, RolloutInvariant, PTL
=============================================================================
