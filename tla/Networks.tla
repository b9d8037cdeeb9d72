------------------------------ MODULE Networks ------------------------------
(***************************************************************************)
(* The networks the commands share, as Incus keeps them: which exist, the  *)
(* configuration an ETag covers, the ACLs and the peers.  Every change of  *)
(* a configuration is a read, a computation and a write that the server    *)
(* refuses when the configuration is no longer the one that was read.      *)
(* The operators here compute; Sidecars has the steps.                     *)
(***************************************************************************)
EXTENDS Naturals, Sequences, FiniteSets, TLC

CONSTANTS Projects,    \* compose projects, each with one network of its name
          Resolver,    \* the shared network icompose0
          Bridge,      \* a bridge outside the projects that they attach to
          Targets      \* Projects -> the networks its own ACL names

Nets == Projects \union {Resolver, Bridge}

ASSUME NetsAssumption ==
    /\ Resolver \notin Projects /\ Bridge \notin Projects /\ Resolver # Bridge
    /\ Targets \in [Projects -> SUBSET Projects]
    /\ \A p \in Projects : p \notin Targets[p]

(* An OVN network's own ACL, and the one a project has on the resolver's. *)
defaultACLName(n) == <<"default", n>>
dnsACLName(p) == <<"dns", p>>
ACLs == {defaultACLName(n) : n \in Nets} \union {dnsACLName(p) : p \in Projects}

(* The part of a network an ETag covers: security.acls, the two default    *)
(* actions (set together and dropped together), the DHCP ranges, and the   *)
(* address records of raw.dnsmasq, a set of instances for each service.    *)
Fresh == [acls |-> {}, posture |-> FALSE, ranges |-> FALSE,
          records |-> [p \in Projects |-> {}]]

(* What ensureACLs writes: its names joined to the ones there, and the     *)
(* default actions where there are none.                                   *)
Attached(cfg, names) == [cfg EXCEPT !.acls = @ \union names, !.posture = TRUE]

(* What detachACLs writes: the last one out takes the default actions.     *)
Detached(cfg, names) ==
    LET rest == cfg.acls \ names
    IN  IF rest = cfg.acls THEN cfg
        ELSE [cfg EXCEPT !.acls = rest, !.posture = @ /\ rest # {}]

(* What updateDNSAliases writes: the records of the service replaced by    *)
(* the addresses this run has seen, every other record kept.               *)
Aliased(cfg, service, ips) == [cfg EXCEPT !.records[service] = ips]

(* A network with a peer to one that is deleted keeps it, in error. *)
PeersWithout(peer, n) ==
    [m \in Nets |-> [o \in Nets |->
        IF m = n THEN "none"
        ELSE IF o = n /\ peer[m][o] # "none" THEN "errored" ELSE peer[m][o]]]

(* deletePeers: every peer of the network, and the one that answers it. *)
PeersDeleted(peer, n) ==
    [m \in Nets |-> [o \in Nets |->
        IF m = n \/ (o = n /\ peer[n][m] # "none") THEN "none" ELSE peer[m][o]]]

(* ensurePeerOn: on a network that is gone there is nothing to do; a peer  *)
(* in error is replaced.                                                   *)
PeerEnsured(peer, exists, host, target) ==
    IF exists[host] THEN [peer EXCEPT ![host][target] = "ok"] ELSE peer

=============================================================================
