------------------------------ MODULE DnsProofs ------------------------------
(***************************************************************************)
(* What ic-dns promises of its two goroutines, for every fleet, every      *)
(* order of events and every stop: what arrived is never left without a    *)
(* window to publish it, and the file ends with what was published last.   *)
(* The trees are left opaque: what is proved is where their encoding goes, *)
(* not what is in it.                                                      *)
(***************************************************************************)
EXTENDS Dns, TLAPS

(* Where the serials published last are: waiting for the writer, in its    *)
(* hands, or on the disk unless the disk refused them.                     *)
Newest == EncodeCold(st)

Handed ==
    /\ slot # <<>> => slot = <<Newest>>
    /\ slot = <<>> /\ writing # <<>> => writing = <<Newest>>
    /\ slot = <<>> /\ writing = <<>> /\ view.published /\ ~disk.lost => disk.serials = Newest

Shapes ==
    /\ disk = [serials |-> disk.serials, lost |-> disk.lost]
    /\ view = [healthy |-> view.healthy, published |-> view.published, ready |-> view.ready]

DnsInv == Shapes /\ Handed /\ WindowArmed

-----------------------------------------------------------------------------
(* Before anything is published nothing waits to be stored.                *)
LEMMA InitDnsInv == Init => DnsInv
<1> SUFFICES ASSUME Init PROVE DnsInv
  OBVIOUS
<1>1. Shapes /\ Handed
  BY DEF Init, NoView, Shapes, Handed
<1>2. WindowArmed
  BY DEF Init, WindowArmed
<1>3. QED
  BY <1>1, <1>2 DEF DnsInv

(* What is published is what waits for the writer next.                    *)
LEMMA PublishHands ==
    ASSUME WriteAndPublish
    PROVE  slot' = <<Newest'>>
<1>1. PICK order \in Orders(Arrived(st, pending)) : Publish(Written(st, pending, order))
  BY DEF WriteAndPublish
<1>2. QED
  BY <1>1 DEF Publish, Store, Newest

(* A write publishes what moved and leaves the rest where it is.           *)
LEMMA WriteOutKeeps ==
    ASSUME DnsInv, WriteOut, UNCHANGED <<writing, disk>>
    PROVE  Shapes' /\ Handed' /\ pending' = <<>>
<1>1. pending' = <<>>
  BY DEF WriteOut
<1>2. CASE UNCHANGED <<st, snap, slot, view>>
  BY <1>1, <1>2 DEF DnsInv, Shapes, Handed, Newest
<1>3. CASE WriteAndPublish /\ view' = [view EXCEPT !.published = TRUE]
  <2>1. slot' = <<Newest'>>
    BY <1>3, PublishHands
  <2>2. Shapes'
    BY <1>3 DEF DnsInv, Shapes
  <2>3. QED
    BY <1>1, <2>1, <2>2 DEF Handed
<1>4. QED
  BY <1>2, <1>3 DEF WriteOut

(* Whatever is folded arms the window while anything is left pending.      *)
LEMMA FoldDnsInv ==
    ASSUME DnsInv, Fold
    PROVE  DnsInv'
<1> DEFINE ev == Head(inbox)
<1>1. UNCHANGED <<writing, disk, mode>>
  BY DEF Fold
<1>2. mode = "run" /\ pending' # <<>> => window'
  BY DEF Fold, Arm
<1>3. CASE /\ view' = [view EXCEPT !.healthy = FALSE, !.ready = FALSE]
           /\ UNCHANGED <<st, pending, snap, slot>>
  <2>1. view'.published = view.published /\ Shapes'
    BY <1>1, <1>3 DEF DnsInv, Shapes
  <2>2. Handed'
    BY <1>1, <1>3, <2>1 DEF DnsInv, Handed, Newest
  <2>3. QED
    BY <1>1, <1>2, <2>1, <2>2 DEF DnsInv, WindowArmed
<1>4. CASE Rounded
  <2>1. slot' = <<Newest'>>
    BY <1>4, PublishHands DEF Rounded
  <2>2. Shapes'
    BY <1>1, <1>4 DEF DnsInv, Shapes, Rounded
  <2>3. Handed'
    BY <2>1 DEF Handed
  <2>4. QED
    BY <1>1, <1>2, <2>2, <2>3 DEF DnsInv, WindowArmed
<1>5. CASE UNCHANGED <<st, snap, slot, view>>
  <2>1. Shapes' /\ Handed'
    BY <1>1, <1>5 DEF DnsInv, Shapes, Handed, Newest
  <2>2. QED
    BY <1>1, <1>2, <2>1 DEF DnsInv, WindowArmed
<1>6. QED
  BY <1>3, <1>4, <1>5 DEF Fold

(* The writer takes what waits, and what it has written is on the disk.    *)
LEMMA WriterDnsInv ==
    ASSUME DnsInv, Take \/ WriteFile
    PROVE  DnsInv'
<1>1. UNCHANGED <<st, pending, view, window, mode>> /\ WindowArmed'
  BY DEF Take, WriteFile, fold, DnsInv, WindowArmed
<1>2. CASE Take
  BY <1>1, <1>2 DEF Take, DnsInv, Shapes, Handed, Newest
<1>3. CASE WriteFile
  <2>1. UNCHANGED slot /\ writing # <<>> /\ writing' = <<>>
    BY <1>3 DEF WriteFile
  <2>2. CASE disk' = [serials |-> Head(writing), lost |-> FALSE]
    <3>1. slot = <<>> => disk'.serials = Newest
      BY <2>1, <2>2 DEF DnsInv, Handed
    <3>2. QED
      BY <1>1, <2>1, <2>2, <3>1 DEF DnsInv, Shapes, Handed, Newest
  <2>3. CASE disk' = [disk EXCEPT !.lost = TRUE]
    <3>1. disk'.lost /\ Shapes'
      BY <1>1, <2>3 DEF DnsInv, Shapes
    <3>2. QED
      BY <1>1, <2>1, <3>1 DEF DnsInv, Handed, Newest
  <2>4. QED
    BY <1>3, <2>2, <2>3 DEF WriteFile
<1>4. QED
  BY <1>2, <1>3

(* Every step keeps what is stored and what is armed.                      *)
LEMMA NextDnsInv ==
    ASSUME DnsInv, [Next]_vars
    PROVE  DnsInv'
<1>1. CASE \/ Tell \/ Disconnected \/ SweepEnd \/ Stopped \/ Abort \/ DrainAsked \/ Down
           \/ UNCHANGED vars
  <2>1. /\ UNCHANGED <<st, pending, window, view, slot, writing, disk>>
        /\ mode' = "run" => mode = "run"
    BY <1>1 DEF Tell, Disconnected, SweepEnd, Handle, Stopped, Abort, DrainAsked, Down, vars, fold
  <2>2. QED
    BY <2>1 DEF DnsInv, Shapes, Handed, Newest, WindowArmed
<1>2. CASE Fold
  BY <1>2, FoldDnsInv
<1>3. CASE WindowFires \/ Drained
  <2>1. WriteOut /\ UNCHANGED <<writing, disk>>
    BY <1>3 DEF WindowFires, Drained
  <2>2. Shapes' /\ Handed' /\ pending' = <<>>
    BY <2>1, WriteOutKeeps
  <2>3. QED
    BY <2>2 DEF DnsInv, WindowArmed
<1>4. CASE Take \/ WriteFile
  BY <1>4, WriterDnsInv
<1>5. CASE Crash \/ Restart
  <2>1. /\ slot' = <<>> /\ writing' = <<>> /\ pending' = <<>> /\ view' = NoView
        /\ UNCHANGED disk
    BY <1>5 DEF Crash, Restart
  <2>2. QED
    BY <2>1 DEF DnsInv, Shapes, Handed, WindowArmed, NoView
<1>6. QED
  BY <1>1, <1>2, <1>3, <1>4, <1>5 DEF Next

-----------------------------------------------------------------------------
(* After an orderly stop the file holds what was published last, unless    *)
(* the disk refused it: whatever the trees hold, and however the fold and  *)
(* the writer of the cold store took turns.                                *)
THEOREM StopStoresLast == Spec => []StoredLast
<1>1. DnsInv /\ [Next]_vars => DnsInv'
  BY NextDnsInv
<1> DEFINE Quiet == mode = "stopped" => slot = <<>> /\ writing = <<>>
<1>2. Init => Quiet
  BY DEF Init
<1>3. Quiet /\ [Next]_vars => Quiet'
  BY DEF Next, vars, fold, Tell, Disconnected, SweepEnd, Handle, Fold, WindowFires, Take, WriteFile,
         DrainAsked, Drained, Abort, Stopped, Crash, Restart, Down
<1>4. DnsInv /\ Quiet => StoredLast
  BY DEF DnsInv, Handed, Newest, StoredLast
<1>5. QED
  BY InitDnsInv, <1>1, <1>2, <1>3, <1>4, PTL DEF Spec

(* While the plugin runs, the publish window is armed as long as anything  *)
(* that arrived is not written yet: no event, round or write in between    *)
(* leaves it to wait for the next one.                                     *)
THEOREM NothingWaits == Spec => []WindowArmed
<1>1. DnsInv /\ [Next]_vars => DnsInv'
  BY NextDnsInv
<1>2. DnsInv => WindowArmed
  BY DEF DnsInv
<1>3. QED
  BY InitDnsInv, <1>1, <1>2, PTL DEF Spec
=============================================================================
