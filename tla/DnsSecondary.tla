--------------------------- MODULE DnsSecondary ---------------------------
(***************************************************************************)
(* The secondaries of the zones ic-dns serves.  One keeps what it was sent *)
(* last under the zone's serial, also while the zone is not served, and    *)
(* asks with that serial when it polls again.                              *)
(***************************************************************************)
EXTENDS Dns

VARIABLE sent   \* what a secondary may hold, of each zone, since the chain is warm

(* Every zone that may be transferred, as it may be sent now. *)
Sendable ==
    {[zone |-> z, answer |-> Transfer(snap, z, TRUE, 0)] :
        z \in {y \in DOMAIN snap.zones : MayTransfer(snap, y)}}

(* A serial that stands still while the chain is cold is the rule of step, *)
(* so what was sent before the chain is warm again is not held against it. *)
SecondarySpec ==
    /\ Init /\ sent = {}
    /\ [][Next /\ sent' = IF chain' = "warm" THEN sent \union Sendable' ELSE {}]_<<vars, sent>>

(* "so a serial never goes backwards" (dns.go:283): in one life of the     *)
(* plugin, with the chain warm throughout, a zone is never sent under one  *)
(* serial with two contents, so a secondary that is told its serial is     *)
(* current holds the records of the zone.  step drops the serial of a zone *)
(* nothing is in any more, and the zone that comes back is born at 1.      *)
SerialNamesRecords ==
    \A old, new \in sent :
        (old.zone = new.zone /\ old.answer.serial = new.answer.serial)
            => old.answer.records = new.answer.records
=============================================================================
