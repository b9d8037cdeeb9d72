----------------------------- MODULE MCRollout -----------------------------
(***************************************************************************)
(* A web service that needs a db, on one server and on a cluster of three. *)
(***************************************************************************)
EXTENDS Rollout

MCServices == <<"db", "web">>
MCAttr == 1 :> [roles |-> {"a"}, groups |-> <<>>, domain |-> "x"]
       @@ 2 :> [roles |-> {"a", "b"}, groups |-> <<"g">>, domain |-> "x"]
       @@ 3 :> [roles |-> {"a"}, groups |-> <<"g", "h">>, domain |-> "y"]

Plain == [mode |-> "replicated", replicas |-> None, constraints |-> {}, preferences |-> <<>>, max |-> 0,
          allowLocal |-> FALSE, pools |-> {}, container |-> FALSE, needs |-> {},
          update |-> FALSE, parallel |-> None, action |-> "pause"]
Web == [Plain EXCEPT !.needs = {"db"}, !.replicas = 2]
Rolling(k, a) == [Web EXCEPT !.update = TRUE, !.parallel = k, !.action = a, !.replicas = 3]
F(db, web) == ("db" :> db) @@ ("web" :> web)

Alone == [clustered |-> FALSE, bridge |-> TRUE, remote |-> FALSE, shared |-> {}]
Cluster == [clustered |-> TRUE, bridge |-> FALSE, remote |-> TRUE, shared |-> {"ceph"}]
K(f, n) == [file |-> f, net |-> n, deployed |-> FALSE]
Deployed(f, n) == [file |-> f, net |-> n, deployed |-> TRUE]
Is(key, op, value) == [key |-> key, op |-> op, value |-> value]

MCCases ==
    {Deployed(F(Plain, Rolling(k, a)), Alone) : k \in {None, 0, 2}, a \in {"pause", "continue"}}
    \union {K(F(Plain, [Web EXCEPT !.container = TRUE]), Alone)}
    \union {K(F(Plain, w), Cluster) : w \in {
              [Web EXCEPT !.constraints = {Is("role", "!=", "b")}],
              [Web EXCEPT !.constraints = {Is("group", "==", "g")}, !.max = 1],
              [Web EXCEPT !.preferences = <<"domain", "hostname">>, !.max = 1],
              [Web EXCEPT !.mode = "global", !.replicas = None, !.pools = {"ceph"}]}}
    \union {K(F([Plain EXCEPT !.mode = "global", !.constraints = {Is("hostname", "!=", 3)}], Web), Cluster)}
    \union {K(F(Plain, w), [Cluster EXCEPT !.remote = FALSE]) : w \in {Web, [Web EXCEPT !.allowLocal = TRUE]}}

S(db, web) == ("db" :> db) @@ ("web" :> web)
MCScales == {S(None, None), S(None, 1), S(2, 3)}
=============================================================================
