----------------------------- MODULE Placement -----------------------------
(***************************************************************************)
(* Where the replicas of a service go: the deploy section of a compose     *)
(* file against the members of a cluster.  Members are numbers, in the     *)
(* order of their names and of the listing.                                *)
(***************************************************************************)
EXTENDS Naturals, Sequences, SequencesExt, FiniteSets

CONSTANTS Members,     \* the numbers of the cluster's members
          Attr,        \* Members -> what constraints see: role and group sets, domain
          Anywhere,    \* no target: Incus chooses
          None

Keys == {"hostname", "role", "group", "domain"}

(* What a member is: a constraint holds when its value is among these. *)
values(m, key) == CASE key = "hostname" -> {m}
                    [] key = "domain"   -> {Attr[m].domain}
                    [] key = "role"     -> Attr[m].roles
                    [] key = "group"    -> ToSet(Attr[m].groups)

matches(c, m) == (c.value \in values(m, c.key)) <=> (c.op = "==")

(* Members in the order of the listing. *)
Listed(S) == [i \in 1..Cardinality(S) |-> CHOOSE m \in S : Cardinality({k \in S : k <= m}) = i]

(* Mutant: the constraints are not looked at. *)
filterClusterMembersAny(online, constraints) == Listed(online)

(* The members online that satisfy every constraint. *)
filterClusterMembers(online, constraints) ==
    Listed({m \in online : \A c \in constraints : matches(c, m)})

memberSpreadValue(m, key) ==
    CASE key = "domain" -> Attr[m].domain
      [] key = "group"  -> IF Attr[m].groups = <<>> THEN None ELSE Head(Attr[m].groups)
      [] OTHER          -> m

(* The buckets of the first preference, each ordered by the rest, dealt    *)
(* out one member at a time.                                               *)
Deal(members, preferences) ==
    LET deal[sorted \in Seq(Members), p \in 1..(Len(preferences) + 1)] ==
          IF p > Len(preferences) \/ Len(sorted) <= 1 THEN sorted
          ELSE LET value(m) == memberSpreadValue(m, preferences[p])
                   order == FoldLeft(LAMBDA seen, m : IF Contains(seen, value(m)) THEN seen
                                                      ELSE Append(seen, value(m)), <<>>, sorted)
                   bucket(v) == deal[SelectSeq(sorted, LAMBDA m : value(m) = v), p + 1]
                   round(k) == FlattenSeq([b \in DOMAIN order |->
                                  LET t == bucket(order[b]) IN IF k <= Len(t) THEN <<t[k]>> ELSE <<>>])
               IN  FlattenSeq([k \in DOMAIN sorted |-> round(k)])
    IN  deal[members, 1]

orderClusterMembers(candidates, preferences, server) ==
    Deal(SelectSeq(candidates, LAMBDA m : m = server) \o SelectSeq(candidates, LAMBDA m : m # server),
         preferences)

(* The replica count: --scale, then deploy.replicas, then one. *)
Asked(d, over) == IF over # None THEN over ELSE IF d.replicas # None THEN d.replicas ELSE 1

Refused == [ok |-> FALSE, desired |-> 0, targets |-> <<>>]
Granted(targets) == [ok |-> TRUE, desired |-> Len(targets), targets |-> targets]
Times(n, t) == [i \in 1..n |-> t]

Targets(ordered, n) == [i \in 1..n |-> ordered[((i - 1) % Len(ordered)) + 1]]

(* resolveServicePlacementEnv: env says whether there is a cluster, who is *)
(* connected to, who is online, and whether networks and pools are shared. *)
resolveServicePlacement(env, d, over) ==
    LET everywhere == d.mode = "global" /\ over = None
        candidates == filterClusterMembers(env.online, d.constraints)
        desired == IF everywhere THEN Len(candidates) ELSE Asked(d, over)
        placed == d.mode = "global" \/ d.constraints # {} \/ d.preferences # <<>> \/ d.max > 0
    IN  IF d.mode \notin {"replicated", "global"} THEN Refused
        ELSE IF ~env.clustered THEN Granted(Times(IF everywhere THEN 1 ELSE Asked(d, over), Anywhere))
        ELSE IF (\E c \in d.constraints : c.key \notin Keys) \/ candidates = <<>> THEN Refused
        ELSE IF desired = 0 THEN Granted(<<>>)
        ELSE IF d.max > 0 /\ desired > Len(candidates) * d.max THEN Refused
        ELSE IF (desired > 1 \/ d.mode = "global") /\ ~env.remote /\ ~d.allowLocal THEN Refused
        ELSE IF desired = 1 /\ ~placed
             THEN Granted(<<IF env.bridge \/ ~env.remote THEN env.server ELSE Anywhere>>)
        ELSE IF everywhere THEN Granted(candidates)
        ELSE Granted(Targets(orderClusterMembers(candidates, d.preferences, env.server), desired))

=============================================================================
