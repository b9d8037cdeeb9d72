------------------------------- MODULE MCDns -------------------------------
EXTENDS Dns

CONSTANTS i1, i2, n1, n2

MCInstances == {i1, i2}
MCNets == {n1, n2}
MCSubnet == n1 :> "b1" @@ n2 :> "b2"

P == <<"incus", "p">>
Q == <<"incus", "q">>
Base == [zone |-> P, service |-> {"svc"}, alias |-> {}, ns |-> {}, transfer |-> TRUE]
On1(h) == n1 :> {<<"b1", h>>}
On2(h) == n2 :> {<<"b2", h>>}

(* One instance on one network or on both, the other on either, in the same*)
(* zone or in its own, claiming the same alias or none.                    *)
One == Base @@ [nets |-> On1("x")]
Both == [Base EXCEPT !.alias = {<<"org", "www">>}] @@ [nets |-> On1("x") @@ On2("x")]
Other == Base @@ [nets |-> On2("y")]
Own == [Base EXCEPT !.zone = Q, !.alias = {<<"org", "www">>}, !.transfer = FALSE]
           @@ [nets |-> On1("y")]

Updated(i, d) == [kind |-> "updated", i |-> i, d |-> d]
Deleted(i) == [kind |-> "deleted", i |-> i]

MCEvents ==
    {Updated(i1, One), Updated(i1, Both), Updated(i2, Other), Updated(i2, Own),
     Deleted(i1), Deleted(i2), [kind |-> "failed", i |-> i1],
     [kind |-> "renamed", i |-> i2, old |-> i1, d |-> Other]}

MCClients == {<<"b1", "x">>, <<"b2", "y">>, <<"b1", "z">>, <<"b9", "z">>}
MCQNames == {Append(P, "svc"), Append(P, i1), Append(P, i2), Append(Q, i2), <<"org", "www">>}
=============================================================================
