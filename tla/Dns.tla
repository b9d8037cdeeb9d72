-------------------------------- MODULE Dns --------------------------------
(***************************************************************************)
(* The ic-dns plugin: one goroutine folds what the enricher hands over,    *)
(* writes what arrived once per window, publishes a snapshot every query   *)
(* is answered from, and hands the zones' serials to the goroutine that    *)
(* keeps the cold store.  A stop drains the inbox; an abort or a crash     *)
(* loses it.  A secondary polls one zone by its serial.                    *)
(***************************************************************************)
EXTENDS DnsAnswer

CONSTANTS
    Events,       \* what the enricher may hand over
    Clients,      \* addresses a query comes from
    QNames,       \* names that are asked for
    InboxSize, MaxTold, MaxRestarts

ASSUME BoundsAssumption ==
    /\ InboxSize \in Nat \ {0} /\ MaxTold \in Nat /\ MaxRestarts \in Nat

VARIABLES
    st,           \* what the fold owns
    pending,      \* what has arrived of it and is not written yet
    chain,        \* what the last event carried of the source
    inbox,        \* events not folded yet
    window,       \* the publish window is armed
    snap,         \* the snapshot every query reads
    view,         \* [healthy, published, ready]: the engine, and what was announced
    slot,         \* the encoding waiting for the writer, if there is one
    writing,      \* the encoding being written, if there is one
    disk,         \* [serials, lost]: the file, and whether the last write failed
    mode,         \* run, draining, stopping, stopped, crashed
    source,       \* the chain state events are stamped with
    told,         \* events so far
    lives         \* restarts so far

fold == <<st, pending, chain>>
vars == <<fold, inbox, window, snap, view, slot, writing, disk, mode, source, told, lives>>

NoView == [healthy |-> FALSE, published |-> FALSE, ready |-> FALSE]

Init ==
    /\ st = NewState(<<>>) /\ pending = <<>> /\ chain = "cold"
    /\ inbox = <<>> /\ window = FALSE
    /\ snap = EmptySnapshot /\ view = NoView
    /\ slot = <<>> /\ writing = <<>> /\ disk = [serials |-> <<>>, lost |-> FALSE]
    /\ mode = "run" /\ source = "cold" /\ told = 0
    /\ lives = 0

-----------------------------------------------------------------------------
(* An event is what the enricher read of an instance, a delete, a rename   *)
(* read under the new name, or a read that failed; the chain has its own.  *)

(* Handle runs on the plugin before: a full inbox is a drop. *)
Handle(ev) ==
    /\ mode = "run" /\ told < MaxTold /\ told' = told + 1
    /\ inbox' = IF Len(inbox) < InboxSize THEN Append(inbox, ev) ELSE inbox
    /\ UNCHANGED <<fold, window, snap, view, slot, writing, disk, mode, lives>>

Tell == \E ev \in Events :
    Handle([kind |-> ev.kind, ev |-> ev, chain |-> source]) /\ UNCHANGED source

Disconnected ==
    source' = "cold" /\ Handle([kind |-> "disconnected", chain |-> "cold"])

SweepEnd ==
    source' = "warm" /\ Handle([kind |-> "sweep-end", chain |-> "warm"])

-----------------------------------------------------------------------------
(* What one event leaves pending: the last word on each name. *)
Pended(e) ==
    IF e.kind = "failed" THEN pending
    ELSE LET old == IF e.kind = "renamed" THEN e.old :> None ELSE <<>>
             new == e.i :> (IF e.kind = "deleted" THEN None ELSE PatchInstance(e.i, e.d))
         IN  new @@ old @@ pending

(* Mutant: the waiting encoding is kept and the newer one discarded. *)
StoreKeep(old, s) == IF old = <<>> THEN <<EncodeCold(s)>> ELSE old

(* store: never blocks, a newer encoding says everything a waiting one did.*)
Store(old, s) == <<EncodeCold(s)>>

(* publish: serials step, the trees are frozen, both readers are handed    *)
(* the snapshot, and the serials go to the writer.                         *)
Publish(s) ==
    LET t == Step(s, chain')
    IN  /\ st' = t /\ snap' = Snapshot(t)
        /\ slot' = Store(slot, t)

(* The orders a Go map may be ranged over. *)
Orders(set) == {o \in [1..Cardinality(set) -> set] : IsInjective(o)}

(* write: nothing that moved is nothing to publish. *)
WriteAndPublish ==
    \E order \in Orders(Arrived(st, pending)) : Publish(Written(st, pending, order))

WriteOut ==
    /\ pending' = <<>> /\ UNCHANGED chain
    /\ \/ Arrived(st, pending) = {} /\ UNCHANGED <<st, snap, slot, view>>
       \/ /\ Arrived(st, pending) # {} /\ WriteAndPublish
          /\ view' = [view EXCEPT !.published = TRUE]

(* rounded: written and published whatever moved, and healthy from here.   *)
Rounded ==
    /\ pending' = <<>> /\ WriteAndPublish
    /\ view' = [healthy |-> TRUE, published |-> TRUE, ready |-> TRUE]

(* Mutant: the window is armed for the first burst and never again. *)
ArmOnce(left) == window \/ (left # <<>> /\ snap = EmptySnapshot)

Arm(left) == window \/ left # <<>>

Fold ==
    /\ mode \in {"run", "draining"} /\ inbox # <<>>
    /\ inbox' = Tail(inbox)
    /\ LET ev == Head(inbox)
       IN  /\ chain' = ev.chain
           /\ \/ /\ ev.kind = "disconnected"
                 /\ view' = [view EXCEPT !.healthy = FALSE, !.ready = FALSE]
                 /\ UNCHANGED <<st, pending, snap, slot>>
              \/ ev.kind = "sweep-end" /\ Rounded
              \/ /\ ev.kind \notin {"disconnected", "sweep-end"}
                 /\ pending' = Pended(ev.ev) /\ UNCHANGED <<st, snap, slot, view>>
    /\ window' = (IF mode = "run" THEN Arm(pending') ELSE window)
    /\ UNCHANGED <<writing, disk, mode, source, told, lives>>

(* The window fires: trailing edge only, never reset by a later patch. *)
WindowFires ==
    /\ mode = "run" /\ window /\ window' = FALSE
    /\ WriteOut
    /\ UNCHANGED <<inbox, writing, disk, mode, source, told, lives>>

-----------------------------------------------------------------------------
(* The writer: takes the slot, replaces the file whole or leaves it.       *)

Take ==
    /\ writing = <<>> /\ slot # <<>>
    /\ writing' = slot /\ slot' = <<>>
    /\ UNCHANGED <<fold, inbox, window, snap, view, disk, mode, source, told, lives>>

WriteFile ==
    /\ writing # <<>> /\ writing' = <<>>
    /\ \/ disk' = [serials |-> Head(writing), lost |-> FALSE]
       \/ disk' = [disk EXCEPT !.lost = TRUE]
    /\ UNCHANGED <<fold, inbox, window, snap, view, slot, mode, source, told, lives>>

-----------------------------------------------------------------------------
(* Drain: the source asks, everything on the inbox is folded and written   *)
(* before the answer.  An abort publishes nothing more.  Either way the    *)
(* store is closed and its writer finishes.                                *)

DrainAsked ==
    /\ mode = "run" /\ mode' = "draining"
    /\ UNCHANGED <<fold, inbox, window, snap, view, slot, writing, disk, source, told, lives>>

Drained ==
    /\ mode = "draining" /\ inbox = <<>> /\ mode' = "stopping"
    /\ WriteOut
    /\ UNCHANGED <<inbox, window, writing, disk, source, told, lives>>

Abort ==
    /\ mode \in {"run", "draining"} /\ mode' = "stopping"
    /\ UNCHANGED <<fold, inbox, window, snap, view, slot, writing, disk, source, told, lives>>

Stopped ==
    /\ mode = "stopping" /\ slot = <<>> /\ writing = <<>> /\ mode' = "stopped"
    /\ UNCHANGED <<fold, inbox, window, snap, view, slot, writing, disk, source, told, lives>>

Crash ==
    /\ mode \in {"run", "draining", "stopping"} /\ mode' = "crashed"
    /\ lives < MaxRestarts
    /\ st' = NewState(<<>>) /\ pending' = <<>> /\ chain' = "cold"
    /\ inbox' = <<>> /\ window' = FALSE /\ snap' = EmptySnapshot
    /\ view' = NoView /\ slot' = <<>> /\ writing' = <<>> /\ source' = "cold"
    /\ UNCHANGED <<disk, told, lives>>

(* The records are replayed by the enricher, the serials come off the disk.*)
Restart ==
    /\ mode \in {"stopped", "crashed"} /\ lives < MaxRestarts
    /\ mode' = "run" /\ st' = NewState(disk.serials) /\ pending' = <<>> /\ chain' = "cold"
    /\ inbox' = <<>> /\ window' = FALSE /\ snap' = EmptySnapshot /\ view' = NoView
    /\ slot' = <<>> /\ writing' = <<>> /\ source' = "cold"
    /\ lives' = lives + 1
    /\ UNCHANGED <<disk, told>>

Down == mode = "stopped" /\ UNCHANGED vars

Next ==
    \/ Tell \/ Disconnected \/ SweepEnd
    \/ Fold \/ WindowFires \/ Take \/ WriteFile
    \/ DrainAsked \/ Drained \/ Abort \/ Stopped \/ Crash \/ Restart \/ Down

Spec == Init /\ [][Next]_vars

-----------------------------------------------------------------------------
(* The types of the variables; a count of claims or names never goes below zero. *)
TypeOK ==
    /\ mode \in {"run", "draining", "stopping", "stopped", "crashed"}
    /\ source \in {"cold", "warm"} /\ chain \in {"cold", "warm"}
    /\ Len(inbox) <= InboxSize /\ window \in BOOLEAN
    /\ view \in [healthy : BOOLEAN, published : BOOLEAN, ready : BOOLEAN]
    /\ \A net \in Nets, v \in Views : st.over[net][v] \in Nat
    /\ \A z \in DOMAIN st.serials : st.serials[z].names \in Nat /\ st.serials[z].hosts \in Nat

-----------------------------------------------------------------------------
(* What a fleet should be answered with, said without any history.         *)

Up(s) == {i \in Instances : s.held[i] # None}

FleetViews(s) == UNION {Claims(s.held[i]) : i \in Up(s)}

Gives(inst, name, v) ==
    LET seen == UNION {inst.nets[net] : net \in v \intersect On(inst)}
        reached == v \intersect On(inst) # {}
    IN  {A(name, addr) : addr \in IF name \in inst.names THEN seen ELSE {}}
        \union (IF name \in inst.alias /\ reached
                THEN {[type |-> "CNAME", of |-> name, val |-> inst.own]}
                     \union {A(inst.own, addr) : addr \in seen} ELSE {})
        \union {[type |-> "PTR", of |-> name, val |-> inst.own] :
                   p \in {q \in inst.ptrs : q.name = name /\ q.net \in v}}

FleetAnswer(s, name, v) == UNION {Gives(s.held[i], name, v) : i \in Up(s)}

FleetZones(s) ==
    UNION {{s.held[i].zone} \union {p.zone : p \in s.held[i].ptrs} : i \in Up(s)}

FleetNames(s) ==
    UNION {s.held[i].names \union s.held[i].alias \union {p.name : p \in s.held[i].ptrs} :
              i \in Up(s)}

Answered(name, v) == IF name \in DOMAIN snap.names THEN At(snap.names[name], v, {}) ELSE {}

(* What is answered from is what a build from nothing would answer from,   *)
(* whatever order instances came, moved between networks and went in:      *)
(* every name's records in every view, the zones, and where a querier is   *)
(* placed.  The code never rebuilds: apply takes back "exactly what it put *)
(* in" and puts in what is there now.                                      *)
Rebuilt ==
    mode = "run" =>
        /\ \A name \in FleetNames(st) \union DOMAIN snap.names, v \in Views :
              Answered(name, v)
                  = IF v \in FleetViews(st) THEN FleetAnswer(st, name, v) ELSE {}
        /\ FleetZones(st) = {z \in DOMAIN snap.zones : ~snap.zones[z].shadowing}
        /\ \A z \in FleetZones(st) : snap.zones[z].transfer =
              \E i \in Up(st) : /\ st.held[i].transfer
                                /\ z \in {st.held[i].zone} \union {p.zone : p \in st.held[i].ptrs}
        /\ DOMAIN snap.addrs = UNION {Addresses(st.held[i]) \union
                                        {<<Subnet[net]>> : net \in On(st.held[i])} : i \in Up(st)}

(* A querier is told no address it cannot reach: whoever asks, for         *)
(* whatever name, an address in the answer sits on a network the asker     *)
(* sits on too, or whose block it is in.  Answer fails closed.             *)
OnlyReachable ==
    mode = "run" =>
        \A client \in Clients, name \in QNames :
            LET asks == {i \in Up(st) : client \in Addresses(st.held[i])}
                wires == IF asks = {} THEN {net \in Nets : Covered(net, client)}
                         ELSE UNION {On(st.held[i]) : i \in asks}
            IN  \A r \in Answer(snap, name, "A", client).rrs :
                    r.type = "A" => \E net \in wires, i \in Up(st) :
                        net \in On(st.held[i]) /\ r.val \in st.held[i].nets[net]

(* From one publication to the next, as long as a zone stays published: a  *)
(* secondary that polls by serial learns of every change made while the    *)
(* chain is warm.  The serial never falls, and told that the one it has is *)
(* current, it holds the records the zone holds.  A zone that empties is   *)
(* no longer published, and DnsSecondary follows it when it comes back.    *)
SerialMoves ==
    [][chain' = "warm" =>
        \A z \in {y \in DOMAIN snap.zones : MayTransfer(snap', y)} :
            /\ snap'.zones[z].serial >= snap.zones[z].serial
            /\ Transfer(snap', z, TRUE, snap.zones[z].serial).code = "current"
                 => ZoneRecords(snap, z) = ZoneRecords(snap', z)]_vars

(* After an orderly stop the file holds what was published last, unless    *)
(* the disk refused it: however the two goroutines interleaved, the one    *)
(* slot never keeps an older encoding over a newer one, and closing waits. *)
StoredLast ==
    (mode = "stopped" /\ view.published /\ ~disk.lost) => disk.serials = EncodeCold(st)

(* Nothing that arrived waits for the next event to be published: as long  *)
(* as anything is pending the window is armed, whichever event, round or   *)
(* write came between.                                                     *)
WindowArmed == mode = "run" /\ pending # <<>> => window

=============================================================================
