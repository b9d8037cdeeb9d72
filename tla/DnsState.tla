------------------------------ MODULE DnsState ------------------------------
(***************************************************************************)
(* What ic-dns's fold owns, and how it is patched: an instance is taken    *)
(* out of the trees exactly as it was put in, and put back as it is now.   *)
(* Nothing is ever rebuilt, so the trees are right only if every patch     *)
(* undoes what an earlier one did, in whatever company it was done.        *)
(*                                                                         *)
(* A name is the sequence of its labels, root first, as the trees key it.  *)
(* A view is the set of networks it spans.  Record sets are sets: the code *)
(* sorts them.  TTLs and the wire format are left out.                     *)
(***************************************************************************)
EXTENDS Integers, FiniteSetsExt, SequencesExt, TLC

CONSTANTS
    Instances,
    Nets,
    Subnet,      \* the block of addresses each network serves
    Ambiguous,   \* placed where two things claim one address or one block
    None

(* An address is <<block, host>>. *)
Views == SUBSET Nets

-----------------------------------------------------------------------------
(* One instance as an event describes it: its zone, the service whose name *)
(* it shares, absolute aliases, its addresses by network, and what its     *)
(* project says about the zone.                                            *)

ReverseZone(addr) == <<"arpa", addr[1]>>
ReverseName(addr) == Append(ReverseZone(addr), addr[2])
Covered(net, addr) == Subnet[net] = addr[1]

On(inst) == DOMAIN inst.nets

(* patchInstance: what is held of it.  ptrs has the network each reverse   *)
(* name is reachable on.                                                   *)
PatchInstance(i, d) ==
    LET own == Append(d.zone, i)
        placed == UNION {{<<net, addr>> : addr \in d.nets[net]} : net \in DOMAIN d.nets}
        covered == {p \in placed : Covered(p[1], p[2])}
    IN  [zone |-> d.zone, own |-> own,
         names |-> {own} \union {Append(d.zone, svc) : svc \in d.service},
         alias |-> d.alias, nets |-> d.nets, ns |-> d.ns, transfer |-> d.transfer,
         ptrs |-> {[name |-> ReverseName(p[2]), zone |-> ReverseZone(p[2]), net |-> p[1]] :
                      p \in covered}]

(* A zone: its serial, whether a name in it moved, and what keeps it.      *)
NewZone == [serial |-> 0, dirty |-> FALSE, names |-> 0, hosts |-> 0, transfers |-> 0,
            ns |-> <<>>]

(* newState: the serials of an earlier run, and nothing in the trees. *)
NewState(serials) ==
    [held |-> [i \in Instances |-> None],
     over |-> [net \in Nets |-> [v \in Views |-> 0]],
     serials |-> [z \in DOMAIN serials |-> [NewZone EXCEPT !.serial = serials[z]]],
     names |-> <<>>, zones |-> <<>>, addrs |-> <<>>]

Without(f, k) == [x \in DOMAIN f \ {k} |-> f[x]]
With(f, k, v) == (k :> v) @@ f
At(f, k, default) == IF k \in DOMAIN f THEN f[k] ELSE default

(* One change for each member of a set, in any order. *)
FoldOver(op(_, _), s, set) == FoldSet(LAMBDA x, t : op(t, x), s, set)

-----------------------------------------------------------------------------
(* Views: one per set of networks some instance sits on, and one for each  *)
(* network by itself.                                                      *)

Claims(inst) == {On(inst)} \union {{net} : net \in On(inst)}

(* How often a view is counted against a network for one instance. *)
Weight(inst, net, v) ==
    IF net \notin On(inst) \/ net \notin v \/ v \notin Claims(inst) THEN 0
    ELSE IF v = On(inst) /\ v = {net} THEN 2 ELSE 1

Claim(s, inst) ==
    [s EXCEPT !.over = [net \in Nets |-> [v \in Views |-> @[net][v] + Weight(inst, net, v)]]]

Release(s, inst) ==
    [s EXCEPT !.over = [net \in Nets |-> [v \in Views |->
        IF @[net][v] = 0 THEN 0 ELSE @[net][v] - Weight(inst, net, v)]]]

ViewsOf(s, net) == {v \in Views : s.over[net][v] > 0}

(* The views that appear, and those that disappear, between two states. *)
Fresh(s, t, inst) ==
    {v \in Claims(inst) : \E net \in v : s.over[net][v] = 0 /\ t.over[net][v] > 0}
Gone(s, t, inst) ==
    {v \in Claims(inst) : v # On(inst) \/ Cardinality(v) > 1} \intersect Fresh(t, s, inst)
Freed(t, inst) == {net \in On(inst) : ViewsOf(t, net) = {}}

-----------------------------------------------------------------------------
(* What an instance contributes: per name, per view, a set of records.     *)

A(name, addr) == [type |-> "A", of |-> name, val |-> addr]

(* Every address the view can see of it. *)
Records(s, inst, name) ==
    [v \in UNION {ViewsOf(s, net) : net \in On(inst)} |->
        {A(name, addr) : addr \in UNION {inst.nets[net] : net \in v \intersect On(inst)}}]

(* The CNAME, chased into the records of the instance's own name. *)
AliasAnswer(s, inst, name) ==
    LET own == Records(s, inst, inst.own)
    IN  [v \in DOMAIN own |-> own[v] \union {[type |-> "CNAME", of |-> name, val |-> inst.own]}]

ReverseAnswer(s, inst, ptr) ==
    [v \in ViewsOf(s, ptr.net) |-> {[type |-> "PTR", of |-> ptr.name, val |-> inst.own]}]

Contributions(s, inst) ==
    LET forward == [n \in inst.names |-> Records(s, inst, n)]
        alias == [n \in inst.alias |-> AliasAnswer(s, inst, n)]
        names == {p.name : p \in inst.ptrs}
        reverse == [n \in names |-> ReverseAnswer(s, inst, CHOOSE p \in inst.ptrs : p.name = n)]
    IN  reverse @@ alias @@ forward

(* A name that is left without a view is gone; a view stays with the       *)
(* records that are left, and goes when none are.                          *)
Put(s, name, answer) ==
    [s EXCEPT !.names = IF DOMAIN answer = {} THEN Without(@, name) ELSE With(@, name, answer)]

AddName(s, name, add) ==
    LET have == At(s.names, name, <<>>)
    IN  Put(s, name, [v \in DOMAIN have \union DOMAIN add |->
                         At(have, v, {}) \union At(add, v, {})])

DropName(s, name, drop) ==
    IF name \notin DOMAIN s.names THEN s
    ELSE LET have == s.names[name]
             left == [v \in DOMAIN have |-> have[v] \ At(drop, v, {})]
             keep == {v \in DOMAIN have : v \in DOMAIN drop => left[v] # {}}
         IN  Put(s, name, [v \in keep |-> left[v]])

DropView(s, name, v) ==
    IF name \notin DOMAIN s.names THEN s ELSE Put(s, name, Without(s.names[name], v))

HeldOn(s, nets) == {i \in Instances : s.held[i] # None /\ On(s.held[i]) \intersect nets # {}}

(* Mutant: a view that is new is written for the newcomer alone. *)
BackfillNone(s, fresh) == s

(* Everything already on the wires of a new view is written under it too. *)
Backfill(s, fresh) ==
    FoldOver(LAMBDA t, v :
        FoldOver(LAMBDA u, i :
            LET give == Contributions(u, u.held[i])
            IN  FoldOver(LAMBDA w, n : IF v \in DOMAIN give[n]
                                       THEN AddName(w, n, v :> give[n][v]) ELSE w,
                         u, DOMAIN give),
            t, HeldOn(t, v)),
        s, fresh)

(* A view nobody is in any more is taken off every name. *)
Forget(s, gone) ==
    FoldOver(LAMBDA t, v :
        FoldOver(LAMBDA u, i :
            FoldOver(LAMBDA w, n : DropView(w, n, v), u, DOMAIN Contributions(u, u.held[i])),
            t, HeldOn(t, v)),
        s, gone)

-----------------------------------------------------------------------------
(* Zones. *)

(* Shadowing: no host in it, only aliases that landed here. *)
Rendered(z) ==
    [serial |-> z.serial, shadowing |-> z.hosts = 0, transfer |-> z.transfers > 0,
     ns |-> DOMAIN z.ns]

Render(s, name) == [s EXCEPT !.zones = With(@, name, Rendered(s.serials[name]))]

(* How often a name counts: as a host, as one of a project that opted in.  *)
Count(b) == IF b THEN 1 ELSE 0

Enter(s, name, ns, host, transfer) ==
    LET z == At(s.serials, name, NewZone)
        now == [z EXCEPT !.names = @ + 1, !.hosts = @ + Count(host),
                         !.transfers = @ + Count(transfer),
                         !.ns = [n \in DOMAIN @ \union ns |-> At(@, n, 0) + Count(n \in ns)]]
    IN  Render([s EXCEPT !.serials = With(@, name, now)], name)

(* The zone stays until publish, even with nothing in it: an update leaves *)
(* it and enters it again, under the same serial.                          *)
Leave(s, name, ns, host, transfer) ==
    IF name \notin DOMAIN s.serials THEN s
    ELSE LET z == s.serials[name]
             ends == {n \in DOMAIN z.ns : z.ns[n] - Count(n \in ns) <= 0}
             now == [z EXCEPT !.names = @ - 1, !.hosts = @ - Count(host),
                              !.transfers = @ - Count(transfer), !.dirty = TRUE,
                              !.ns = [n \in DOMAIN @ \ ends |-> @[n] - Count(n \in ns)]]
             t == [s EXCEPT !.serials = With(@, name, now)]
         IN  IF now.names > 0 THEN Render(t, name) ELSE t

(* The longest zone that is served, else the name's parent. *)
AliasZone(s, name) ==
    LET above == {k \in 1..(Len(name) - 1) : SubSeq(name, 1, k) \in DOMAIN s.serials}
    IN  SubSeq(name, 1, IF above = {} THEN Len(name) - 1 ELSE Max(above))

Mark(s, zones) ==
    [s EXCEPT !.serials = [z \in DOMAIN @ |-> [@[z] EXCEPT !.dirty = @ \/ z \in zones]]]

(* Mutant: the reverse zones of an instance are not marked. *)
MovedForward(s, inst) == Mark(s, {inst.zone} \union {AliasZone(s, n) : n \in inst.alias})

Moved(s, inst) ==
    Mark(s, {inst.zone} \union {AliasZone(s, n) : n \in inst.alias}
            \union {p.zone : p \in inst.ptrs})

EnterAll(s, inst) ==
    LET host(u, zone) == Enter(u, zone, inst.ns, TRUE, inst.transfer)
        t == FoldOver(LAMBDA u, n : host(u, inst.zone), s, inst.names)
        r == FoldOver(LAMBDA u, p : host(u, p.zone), t, inst.ptrs)
    IN  FoldOver(LAMBDA u, n : Enter(u, AliasZone(u, n), {}, FALSE, FALSE), r, inst.alias)

LeaveAll(s, inst) ==
    LET host(u, zone) == Leave(u, zone, inst.ns, TRUE, inst.transfer)
        t == FoldOver(LAMBDA u, n : host(u, inst.zone), s, inst.names)
        r == FoldOver(LAMBDA u, p : host(u, p.zone), t, inst.ptrs)
    IN  FoldOver(LAMBDA u, n : Leave(u, AliasZone(u, n), {}, FALSE, FALSE), r, inst.alias)

-----------------------------------------------------------------------------
(* Placing a querier: by the address an instance holds, else by the block  *)
(* of a network.  Two that claim one make it ambiguous.                    *)

Index(s, key, v) ==
    [s EXCEPT !.addrs = With(@, key, IF At(@, key, v) = v THEN v ELSE Ambiguous)]

Unindex(s, key) == [s EXCEPT !.addrs = Without(@, key)]

Addresses(inst) == UNION {inst.nets[net] : net \in On(inst)}

AddAddrs(s, inst) ==
    LET t == FoldOver(LAMBDA u, a : Index(u, a, On(inst)), s, Addresses(inst))
    IN  FoldOver(LAMBDA u, net : Index(u, <<Subnet[net]>>, {net}), t, On(inst))

DropAddrs(s, inst) == FoldOver(LAMBDA u, a : Unindex(u, a), s, Addresses(inst))

DropPrefixes(s, freed) == FoldOver(LAMBDA u, net : Unindex(u, <<Subnet[net]>>), s, freed)

-----------------------------------------------------------------------------
(* apply: out as it was put in, while its claim still stands; then in.     *)

TakeOut(s, inst) ==
    LET give == Contributions(s, inst)
        a == FoldOver(LAMBDA u, n : DropName(u, n, give[n]), s, DOMAIN give)
        b == DropAddrs(LeaveAll(Moved(a, inst), inst), inst)
        c == Release(b, inst)
    IN  DropPrefixes(Forget(c, Gone(b, c, inst)), Freed(c, inst))

PutIn(s, i, inst) ==
    LET a == [Claim(s, inst) EXCEPT !.held[i] = inst]
        give == Contributions(a, inst)
        b == FoldOver(LAMBDA u, n : AddName(u, n, give[n]), a, DOMAIN give)
        c == Moved(EnterAll(b, inst), inst)
    IN  Backfill(AddAddrs(c, inst), Fresh(s, a, inst))

Apply(s, i, next) ==
    LET out == IF s.held[i] = None THEN s ELSE TakeOut(s, s.held[i])
    IN  IF next = None THEN [out EXCEPT !.held[i] = None] ELSE PutIn(out, i, next)

(* write: everything that has arrived, in the order of a Go map; what is   *)
(* as it was is left alone.                                                *)
Arrived(s, pending) == {i \in DOMAIN pending : pending[i] # s.held[i]}

Written(s, pending, order) == FoldLeft(LAMBDA t, i : Apply(t, i, pending[i]), s, order)

(* step: a zone nothing came back to goes, one that moved is published     *)
(* under a new serial, while warm; its first publication is a birth.       *)
NextSerial(serial, chain) ==
    IF serial = 0 THEN 1 ELSE IF chain = "warm" THEN serial + 1 ELSE serial

Step(s, chain) ==
    LET live == {z \in DOMAIN s.serials : s.serials[z].names > 0}
        stepped(z) ==
            [z EXCEPT !.dirty = FALSE, !.serial = IF z.dirty THEN NextSerial(@, chain) ELSE @]
        now == [z \in live |-> stepped(s.serials[z])]
    IN  [s EXCEPT !.serials = now,
                  !.zones = [z \in DOMAIN @ \ (DOMAIN s.serials \ live) |->
                      IF z \in live /\ s.serials[z].dirty THEN Rendered(now[z]) ELSE @[z]]]

Snapshot(s) == [names |-> s.names, zones |-> s.zones, addrs |-> s.addrs]
EmptySnapshot == [names |-> <<>>, zones |-> <<>>, addrs |-> <<>>]

(* What crosses to the cold store: the serial of every zone, nothing else. *)
EncodeCold(s) == [z \in DOMAIN s.serials |-> s.serials[z].serial]

=============================================================================
