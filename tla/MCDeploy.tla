------------------------------ MODULE MCDeploy ------------------------------
(* Deploy for TLC: a web server behind an application behind a database    *)
(* with a volume, on one network.                                          *)
EXTENDS Deploy

MCServices == {"db", "app", "web"}
MCNetworks == {"net"}
MCVolumes == {"vol"}
MCResources == MCServices \union MCNetworks \union MCVolumes
MCPriority == [r \in MCResources |-> IF r = "net" THEN 1 ELSE IF r = "vol" THEN 2 ELSE 3]
MCResourcesOf == [s \in MCServices |-> IF s = "db" THEN <<"net", "vol", s>> ELSE <<"net", s>>]

(* A chain, whose end waits for both of the others. *)
Chain == [s \in MCServices |->
            IF s = "web" THEN {"app", "db"} ELSE IF s = "app" THEN {"db"} ELSE {}]

(* What fails: calls, waits and reads, in any command. *)
CallsFail == [p \in Plans |-> {"operation", "timeout", "fetch"}]

NothingFails == [p \in Plans |-> {}]
ReadsFail == [p \in Plans |-> {"fetch"}]
=============================================================================
