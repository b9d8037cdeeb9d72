----------------------------- MODULE DnsAnswer -----------------------------
(***************************************************************************)
(* What ic-dns answers from one published snapshot: a query, for whoever   *)
(* is asking (ecs_view), and a zone transfer, for whoever the operator     *)
(* named (xfr).  A query only reads: a name is looked up in the zones      *)
(* first, the querier is placed by its address, and a name it cannot reach *)
(* reads exactly like one that does not exist.                             *)
(***************************************************************************)
EXTENDS DnsState

(* The longest of the keys that is a prefix of the name. *)
LongestPrefix(keys, name) ==
    LET above == {k \in 1..Len(name) : SubSeq(name, 1, k) \in keys}
    IN  IF above = {} THEN None ELSE SubSeq(name, 1, Max(above))

ZoneOf(snap, name) == LongestPrefix(DOMAIN snap.zones, name)

(* An instance's own address beats the block of the network it sits on.    *)
(* Two claimants of one make it nobody's.                                  *)
ViewFor(snap, client) ==
    LET at == LongestPrefix(DOMAIN snap.addrs, client)
        view == IF at = None THEN None ELSE snap.addrs[at]
    IN  IF view = Ambiguous THEN None ELSE view

Denied(zone) == [code |-> "nxdomain", zone |-> zone, rrs |-> {}]
NoData(zone) == [code |-> "nodata", zone |-> zone, rrs |-> {}]
NotHandled == [code |-> "next", zone |-> None, rrs |-> {}]

(* The types a chased alias answers with hold its CNAME as well. *)
OfType(rrs, qtype) ==
    IF \E r \in rrs : r.type = qtype
    THEN {r \in rrs : r.type \in {qtype, "CNAME"}} ELSE {}

Claimants(rrs) == {r \in rrs : r.type = "CNAME"}

AnswerVisible(snap, zone, name, qtype, view) ==
    LET rrs == snap.names[name][view]
    IN  IF Cardinality(Claimants(rrs)) > 1 THEN Denied(zone)
        ELSE IF OfType(rrs, qtype) = {} THEN NoData(zone)
        ELSE [code |-> "success", zone |-> zone, rrs |-> OfType(rrs, qtype)]

(* Mutant: a querier nobody claims is answered with what any view sees. *)
AnswerOpen(snap, name, qtype, client) ==
    LET zone == ZoneOf(snap, name)
        held == name \in DOMAIN snap.names
        placed == ViewFor(snap, client)
        view == IF held /\ placed \notin DOMAIN snap.names[name]
                THEN CHOOSE v \in DOMAIN snap.names[name] : TRUE ELSE placed
    IN  IF zone = None \/ ~held THEN NotHandled
        ELSE AnswerVisible(snap, zone, name, qtype, view)

(* Answer.  client is the address a resolver forwarded, else the source's. *)
Answer(snap, name, qtype, client) ==
    LET zone == ZoneOf(snap, name)
        held == name \in DOMAIN snap.names
        view == ViewFor(snap, client)
    IN  IF zone = None \/ (~held /\ snap.zones[zone].shadowing) THEN NotHandled
        ELSE IF name = zone THEN NoData(zone)
        ELSE IF ~held \/ view = None THEN Denied(zone)
        ELSE IF view \notin DOMAIN snap.names[name] THEN Denied(zone)
        ELSE AnswerVisible(snap, zone, name, qtype, view)

-----------------------------------------------------------------------------
(* zoneRecords: every name in the zone and in no zone below it, all views  *)
(* together; of a name that is an alias, the CNAME alone.                  *)
ZoneRecords(snap, zone) ==
    LET inside == {n \in DOMAIN snap.names : n # zone /\ ZoneOf(snap, n) = zone}
        gathered(n) == UNION {snap.names[n][v] : v \in DOMAIN snap.names[n]}
        sent(n) == IF Claimants(gathered(n)) # {} THEN Claimants(gathered(n)) ELSE gathered(n)
    IN  [ns |-> snap.zones[zone].ns, rrs |-> UNION {sent(n) : n \in inside}]

(* transfer: for an apex that opted in and hosts something, to a peer the  *)
(* operator named; just the SOA for one that is current already.           *)
MayTransfer(snap, zone) ==
    zone \in DOMAIN snap.zones /\ snap.zones[zone].transfer /\ ~snap.zones[zone].shadowing

Transfer(snap, zone, allowed, serial) ==
    IF ~allowed \/ ~MayTransfer(snap, zone) THEN [code |-> "refused"]
    ELSE IF serial = snap.zones[zone].serial THEN [code |-> "current", serial |-> serial]
    ELSE [code |-> "zone", serial |-> snap.zones[zone].serial,
          records |-> ZoneRecords(snap, zone)]

=============================================================================
