---------------------------- MODULE DeltaProofs ----------------------------
(***************************************************************************)
(* For any files, subscribers, ring bound and doors: the numbers on a ring *)
(* grow whoever produces them, and a live cursor lies inside the instance  *)
(* it names.  The inductive invariant says who holds the flock and that a  *)
(* number handed to a door on the live ring is past the tip and never past *)
(* the reservation, so that no other producer can reach it; and that the   *)
(* cycle gate is held for a subscriber that waits for it.                  *)
(***************************************************************************)
EXTENDS DeltaPlane, TLAPS

Door == [pc : {Idle, "observed", "settled", "based", "minted", "recorded"},
         kind : DoorKind, epoch : Nat, before : Tree, frame : Frame]
Cycle == [pc : {Idle, "waiting", "held", "observed"}, full : BOOLEAN,
          owner : Sub \cup {Push}]

\* A subscription whose view and history are anything.
Subscription(s) ==
    [pc : {"out", "claimed", "live"}, instance : Nat, at : Nat, resume : BOOLEAN,
     view : {s.view}, lost : {s.lost}, skipped : {s.skipped}]

Typed ==
    /\ disk \in Tree /\ memo \in Tree /\ base \in Tree \cup {Unprimed}
    /\ ring \in Seq(Frame) /\ reserved \in Nat /\ epoch \in Nat
    /\ door \in Door /\ cycle \in Cycle
    /\ sub = [s \in Sub |-> sub[s]]
    /\ \A s \in Sub : sub[s] \in Subscription(sub[s])

Flocked ==
    /\ door.pc # Idle => flock = "door"
    /\ cycle.pc = "held" => flock = "cycle"

Growing(r) == \A i, j \in 1 .. Len(r) : i < j => r[i].seq < r[j].seq

Minted == door.pc = "minted" /\ OnLiveRing
Numbered ==
    /\ Growing(ring) /\ Tip(ring) <= reserved
    /\ door.epoch <= epoch
    /\ Minted => Tip(ring) < door.frame.seq /\ door.frame.seq <= reserved

Owned == cycle.pc # Idle /\ cycle.owner \in Sub => sub[cycle.owner].pc = "claimed"

Cursor(s) == sub[s].pc = "live" \/ (sub[s].pc = "claimed" /\ sub[s].resume)
Anchored == \A s \in Sub : Cursor(s) => sub[s].instance = epoch /\ sub[s].at <= Tip(ring)

IInv == Typed /\ Flocked /\ Numbered /\ Owned /\ Anchored

USE DeltaAssumption

-----------------------------------------------------------------------------
(* The ring *)

LEMMA SeqIsNat ==
    ASSUME NEW r \in Seq(Frame), NEW i \in 1 .. Len(r)
    PROVE  r[i].seq \in Nat
<1>1. r[i] \in Frame
  OBVIOUS
<1> QED BY <1>1 DEF Frame

LEMMA TipIsNat == ASSUME NEW r \in Seq(Frame) PROVE Tip(r) \in Nat
<1>1. r # <<>> => Len(r) \in 1 .. Len(r)
  OBVIOUS
<1>2. \A i \in 1 .. Len(r) : r[i].seq \in Nat
  BY SeqIsNat
<1> QED BY <1>1, <1>2 DEF Tip

(* A ring stays one when a frame past its tip goes on it, evicting or not. *)
LEMMA AdvanceGrows ==
    ASSUME NEW r \in Seq(Frame), Growing(r), NEW f \in Frame, Tip(r) < f.seq
    PROVE  /\ Advance(r, f) \in Seq(Frame)
           /\ Growing(Advance(r, f))
           /\ Tip(Advance(r, f)) = f.seq
<1> DEFINE kept == IF Len(r) = RingBound THEN Tail(r) ELSE r
<1>1. kept \in Seq(Frame) /\ (r = <<>> => kept = <<>>)
  OBVIOUS
<1>2. Growing(kept)
  BY DEF Growing
<1>3. \A i \in 1 .. Len(r) : r[i].seq <= Tip(r)
  <2> SUFFICES ASSUME NEW i \in 1 .. Len(r) PROVE r[i].seq <= Tip(r)
    OBVIOUS
  <2>1. Len(r) \in 1 .. Len(r) /\ Tip(r) = r[Len(r)].seq
    BY DEF Tip
  <2>2. r[i].seq \in Nat /\ r[Len(r)].seq \in Nat
    BY <2>1, SeqIsNat
  <2>3. i = Len(r) \/ r[i].seq < r[Len(r)].seq
    BY <2>1 DEF Growing
  <2> QED BY <2>1, <2>2, <2>3
<1>4. \A i \in 1 .. Len(kept) : kept[i].seq < f.seq
  <2> SUFFICES ASSUME NEW i \in 1 .. Len(kept) PROVE kept[i].seq < f.seq
    OBVIOUS
  <2>1. \E j \in 1 .. Len(r) : kept[i] = r[j]
    OBVIOUS
  <2>2. PICK j \in 1 .. Len(r) : kept[i] = r[j]
    BY <2>1
  <2>3. r[j].seq \in Nat /\ f.seq \in Nat /\ Tip(r) \in Nat
    BY SeqIsNat, TipIsNat DEF Frame
  <2> QED BY <1>3, <2>2, <2>3
<1> HIDE DEF kept
<1>5. Advance(r, f) = Append(kept, f)
  BY DEF Advance, kept
<1>6. Growing(Append(kept, f))
  BY <1>1, <1>2, <1>4 DEF Growing
<1>7. Tip(Append(kept, f)) = f.seq
  BY <1>1 DEF Tip
<1> QED BY <1>1, <1>5, <1>6, <1>7

LEMMA AllocatePast ==
    ASSUME IInv
    PROVE  AllocateSeq \in Nat /\ Tip(ring) < AllocateSeq /\ reserved < AllocateSeq
BY TipIsNat DEF IInv, Typed, AllocateSeq

-----------------------------------------------------------------------------
(* What any producer does to the ring and to those who read it.            *)

SameCursors ==
    /\ sub' = [s \in Sub |-> sub'[s]]
    /\ \A s \in Sub : /\ sub'[s] \in Subscription(sub'[s])
                      /\ sub'[s].pc = sub[s].pc /\ sub'[s].resume = sub[s].resume
                      /\ sub'[s].instance = sub[s].instance /\ sub'[s].at = sub[s].at

Grows ==
    /\ ring' \in Seq(Frame) /\ reserved' \in Nat
    /\ Growing(ring') /\ Tip(ring) <= Tip(ring') /\ Tip(ring') <= reserved'

LEMMA EvictKeeps ==
    ASSUME IInv, NEW f \in Frame, sub' = Evict(f)
    PROVE  SameCursors
<1>1. \A s \in Sub : sub'[s] = sub[s] \/ sub'[s] = [sub[s] EXCEPT !.lost = TRUE]
  BY DEF Evict
<1>2. sub' = [s \in Sub |-> sub'[s]]
  BY DEF Evict
<1>3. ASSUME NEW s \in Sub
      PROVE  /\ sub'[s] \in Subscription(sub'[s])
             /\ sub'[s].pc = sub[s].pc /\ sub'[s].resume = sub[s].resume
             /\ sub'[s].instance = sub[s].instance /\ sub'[s].at = sub[s].at
  BY <1>1, ZenonT(30) DEF IInv, Typed, Subscription
<1> QED BY <1>2, <1>3 DEF SameCursors

LEMMA StandKeeps ==
    ASSUME IInv, UNCHANGED <<ring, reserved, sub>>
    PROVE  Grows /\ SameCursors
<1>1. Grows
  BY TipIsNat DEF IInv, Typed, Numbered, Grows
<1>2. SameCursors
  BY DEF IInv, Typed, SameCursors, Subscription
<1> QED BY <1>1, <1>2

LEMMA TellKeeps ==
    ASSUME IInv, NEW f \in Frame, Tip(ring) < f.seq, f.seq <= reserved',
           ring' = Advance(ring, f), reserved' \in Nat, sub' = Evict(f)
    PROVE  Grows /\ SameCursors /\ Tip(ring') = f.seq
<1>1. /\ Advance(ring, f) \in Seq(Frame)
      /\ Growing(Advance(ring, f))
      /\ Tip(Advance(ring, f)) = f.seq
  BY AdvanceGrows DEF IInv, Typed, Numbered
<1>2. Tip(ring) \in Nat /\ f.seq \in Nat
  <2>1. Tip(ring) \in Nat
    BY TipIsNat DEF IInv, Typed
  <2> QED BY <2>1 DEF Frame
<1> QED BY <1>1, <1>2, EvictKeeps DEF Grows

LEMMA HoldKeeps ==
    ASSUME IInv, Hold
    PROVE  Grows /\ SameCursors /\ base' = base
<1>1. UNCHANGED <<ring, reserved, sub, base>>
  BY DEF Hold, watchVars
<1> QED BY <1>1, StandKeeps

LEMMA ReconcileKeeps ==
    ASSUME IInv, base \in Tree, Reconcile
    PROVE  Grows /\ SameCursors /\ base' \in Tree
<1>1. CASE Hold
  BY <1>1, HoldKeeps
<1>2. CASE SyncSilently
  <2>1. UNCHANGED <<ring, reserved, sub>> /\ base' = memo
    BY <1>2 DEF SyncSilently
  <2> QED BY <2>1, StandKeeps DEF IInv, Typed
<1>3. CASE TellExternal
  <2> DEFINE f == [seq |-> AllocateSeq, before |-> base, after |-> memo, files |-> Movers]
  <2>1. f \in Frame /\ Tip(ring) < f.seq
    BY AllocatePast DEF IInv, Typed, Frame, Movers
  <2>2. /\ ring' = Advance(ring, f) /\ sub' = Evict(f) /\ reserved' = AllocateSeq
        /\ base' = memo
    BY <1>3 DEF TellExternal
  <2>3. f.seq <= reserved' /\ reserved' \in Nat
    BY <2>2, AllocatePast
  <2> HIDE DEF f
  <2> QED BY <2>1, <2>2, <2>3, TellKeeps DEF IInv, Typed
<1> QED BY <1>1, <1>2, <1>3 DEF Reconcile, ReconcileDelta

LEMMA AnchoredKept ==
    ASSUME IInv, Grows, SameCursors, epoch' = epoch
    PROVE  Anchored'
<1>1. Tip(ring) \in Nat /\ Tip(ring') \in Nat /\ Tip(ring) <= Tip(ring')
  BY TipIsNat DEF IInv, Typed, Grows
<1> SUFFICES ASSUME NEW s \in Sub, Cursor(s)'
             PROVE  sub'[s].instance = epoch' /\ sub'[s].at <= Tip(ring')
  BY DEF Anchored
<1>2. Cursor(s) /\ sub'[s].instance = sub[s].instance /\ sub'[s].at = sub[s].at
  BY DEF Cursor, SameCursors
<1>3. sub[s].at \in Nat
  BY DEF IInv, Typed, Subscription
<1> QED BY <1>1, <1>2, <1>3 DEF IInv, Anchored

LEMMA OwnedKept ==
    ASSUME IInv, SameCursors, cycle'.pc # Idle => cycle.pc # Idle,
           cycle'.pc # Idle => cycle'.owner = cycle.owner
    PROVE  Owned'
BY DEF IInv, Owned, SameCursors

(* A step of the door or of the cycle, on a ring that grows or stands: only *)
(* the number a door holds is left to look at.                              *)
LEMMA RingStep ==
    ASSUME IInv, Grows, SameCursors, epoch' = epoch,
           disk' \in Tree, memo' \in Tree, base' \in Tree \cup {Unprimed},
           door' \in Door, cycle' \in Cycle, Flocked', Owned',
           door'.epoch <= epoch,
           Minted' => Tip(ring') < door'.frame.seq /\ door'.frame.seq <= reserved'
    PROVE  IInv'
<1>1. Typed'
  BY DEF IInv, Typed, Grows, SameCursors, Subscription
<1>2. Numbered'
  BY DEF Numbered, Grows
<1>3. Anchored'
  BY AnchoredKept
<1> QED BY <1>1, <1>2, <1>3 DEF IInv

-----------------------------------------------------------------------------
(* The doors *)

LEMMA EnterKeeps ==
    ASSUME IInv, NEW kind \in Kinds, DoorEnter(kind)
    PROVE  IInv'
<1>1. /\ UNCHANGED <<ring, reserved, sub, epoch, cycle, base, disk>>
      /\ door' = [pc |-> IF kind = "birth" THEN "based" ELSE "observed", kind |-> kind,
                  epoch |-> epoch, before |-> disk, frame |-> NoFrame]
      /\ memo' = (IF kind = "birth" THEN memo ELSE disk) /\ flock = "free" /\ flock' = "door"
  BY DEF DoorEnter, watchVars
<1>2. Grows /\ SameCursors
  BY <1>1, StandKeeps
<1>3. NoFrame \in Frame /\ kind \in DoorKind
  BY DEF NoFrame, Frame, Empty, Tree
<1>4. door' \in Door /\ memo' \in Tree
  BY <1>1, <1>3 DEF IInv, Typed, Door
<1>5. Flocked'
  BY <1>1 DEF IInv, Flocked
<1>6. Owned'
  BY <1>1, <1>2, OwnedKept
<1>7. ~Minted' /\ door'.epoch <= epoch
  BY <1>1 DEF Minted, IInv, Typed
<1> QED BY <1>1, <1>2, <1>4, <1>5, <1>6, <1>7, RingStep DEF IInv, Typed

(* A door gives up its number, or had none: it moves on, or leaves. *)
LEMMA DoorMoves ==
    ASSUME IInv, Grows, SameCursors, UNCHANGED <<epoch, cycle, disk, memo>>,
           base' \in Tree \cup {Unprimed}, door' \in Door, door'.epoch <= epoch,
           door.pc # Idle,
           door'.pc = Idle \/ flock' = flock,
           door'.pc # "minted"
    PROVE  IInv'
<1>1. flock = "door" /\ cycle.pc # "held"
  BY DEF IInv, Flocked
<1>2. Flocked'
  BY <1>1 DEF Flocked
<1>3. Owned'
  BY OwnedKept
<1> QED BY <1>2, <1>3, RingStep DEF IInv, Typed, Minted

LEMMA NoDoorTyped == NoDoor \in Door /\ NoDoor.epoch = 0 /\ NoDoor.pc = Idle
<1>1. Empty \in Tree
  BY DEF Empty, Tree
<1>2. NoFrame \in Frame
  BY <1>1 DEF NoFrame, Frame
<1> QED BY <1>1, <1>2 DEF NoDoor, Door, DoorKind, Idle

LEMMA LeaveKeeps ==
    ASSUME IInv, Grows, SameCursors, UNCHANGED <<epoch, cycle, disk, memo>>,
           base' \in Tree \cup {Unprimed}, door.pc # Idle, Leave
    PROVE  IInv'
<1>1. door' \in Door /\ door'.epoch <= epoch /\ door'.pc = Idle
  BY NoDoorTyped DEF Leave, IInv, Typed
<1> QED BY <1>1, DoorMoves DEF Idle

LEMMA SettleKeeps ==
    ASSUME IInv, DoorSettle
    PROVE  IInv'
<1>1. /\ door.pc = "observed" /\ UNCHANGED <<disk, memo, epoch, flock, cycle>>
      /\ door' = [door EXCEPT !.pc = IF door.kind = "splice" THEN "settled" ELSE "based"]
  BY DEF DoorSettle
<1>2. Grows /\ SameCursors /\ base' \in Tree \cup {Unprimed}
  <2>1. CASE OnLiveRing /\ base # Unprimed
    BY <2>1, ReconcileKeeps DEF DoorSettle, Settle, IInv, Typed
  <2>2. CASE ~(OnLiveRing /\ base # Unprimed)
    <3>1. UNCHANGED <<ring, reserved, sub, base>>
      BY <2>2 DEF DoorSettle, Settle, watchVars
    <3> QED BY <3>1, StandKeeps DEF IInv, Typed
  <2> QED BY <2>1, <2>2
<1>3. door' \in Door /\ door'.epoch <= epoch /\ door'.pc # "minted"
  BY <1>1 DEF IInv, Typed, Door, Numbered
<1> QED BY <1>1, <1>2, <1>3, DoorMoves DEF Idle

LEMMA RootKeeps ==
    ASSUME IInv, DoorRootBefore
    PROVE  IInv'
<1>1. /\ door.pc = "settled" /\ UNCHANGED <<disk, memo, base, ring, reserved, epoch, flock, cycle, sub>>
      /\ door' = [door EXCEPT !.pc = "based", !.before = memo]
  BY DEF DoorRootBefore, watchVars
<1>2. Grows /\ SameCursors
  BY <1>1, StandKeeps
<1>3. door' \in Door /\ door'.epoch <= epoch /\ door'.pc # "minted"
  BY <1>1 DEF IInv, Typed, Door, Numbered
<1> QED BY <1>1, <1>2, <1>3, DoorMoves DEF Idle, IInv, Typed

LEMMA RefuseKeeps ==
    ASSUME IInv, DoorRefuse \/ DoorFail
    PROVE  IInv'
<1>1. /\ door.pc # Idle /\ UNCHANGED <<disk, memo, base, ring, reserved, epoch, cycle, sub>>
      /\ Leave
  BY DEF DoorRefuse, DoorFail, watchVars, Idle
<1>2. Grows /\ SameCursors
  BY <1>1, StandKeeps
<1> QED BY <1>1, <1>2, LeaveKeeps DEF IInv, Typed

(* The frame is numbered past the tip and past every reservation. *)
LEMMA CommitKeeps ==
    ASSUME IInv, NEW f \in File, NEW v \in Val, DoorCommit(f, v)
    PROVE  IInv'
<1> DEFINE after == [(IF door.kind = "birth" THEN door.before ELSE memo) EXCEPT ![f] = v]
           seq == IF OnLiveRing THEN AllocateSeq ELSE 1
<1>1. /\ door.pc = "based" /\ UNCHANGED <<base, ring, epoch, flock, cycle, sub>>
      /\ disk' = [disk EXCEPT ![f] = v]
      /\ memo' = IF door.kind = "birth" THEN memo ELSE [memo EXCEPT ![f] = v]
      /\ door' = [door EXCEPT !.pc = "minted", !.frame =
                     [seq |-> seq, before |-> door.before, after |-> after, files |-> {f}]]
      /\ reserved' = IF OnLiveRing THEN seq ELSE reserved
  BY DEF DoorCommit
<1>2. seq \in Nat
  BY AllocatePast
<1>3. disk' \in Tree /\ memo' \in Tree /\ after \in Tree
  BY <1>1 DEF IInv, Typed, Tree, Door
<1>4. [seq |-> seq, before |-> door.before, after |-> after, files |-> {f}] \in Frame
  BY <1>2, <1>3 DEF Frame, IInv, Typed, Door
<1>5. door' \in Door /\ door'.epoch = door.epoch /\ door'.frame.seq = seq
  BY <1>1, <1>4 DEF IInv, Typed, Door
<1>6. Grows
  BY <1>1, <1>2, AllocatePast, TipIsNat DEF IInv, Typed, Numbered, Grows
<1>7. SameCursors
  BY <1>1 DEF IInv, Typed, SameCursors, Subscription
<1>8. Flocked' /\ Owned'
  BY <1>1, <1>7, OwnedKept DEF IInv, Flocked, Idle
<1>9. Minted' => Tip(ring') < door'.frame.seq /\ door'.frame.seq <= reserved'
  BY <1>1, <1>2, <1>5, AllocatePast DEF Minted, OnLiveRing
<1> HIDE DEF after, seq
<1> QED BY <1>1, <1>3, <1>5, <1>6, <1>7, <1>8, <1>9, RingStep DEF IInv, Typed, Numbered

LEMMA RecordKeeps ==
    ASSUME IInv, DoorRecord
    PROVE  IInv'
<1>1. door.pc = "minted" /\ UNCHANGED <<disk, memo, base, reserved, epoch, cycle>>
  BY DEF DoorRecord
<1>2. Grows /\ SameCursors
  <2>1. CASE OnLiveRing
    <3>1. ring' = Advance(ring, door.frame) /\ sub' = Evict(door.frame)
      BY <2>1 DEF DoorRecord
    <3>2. /\ door.frame \in Frame /\ reserved' \in Nat
          /\ Tip(ring) < door.frame.seq /\ door.frame.seq <= reserved'
      BY <1>1, <2>1 DEF IInv, Typed, Door, Numbered, Minted
    <3> QED BY <3>1, <3>2, TellKeeps
  <2>2. CASE ~OnLiveRing
    <3>1. UNCHANGED <<ring, reserved, sub>>
      BY <1>1, <2>2 DEF DoorRecord
    <3> QED BY <3>1, StandKeeps
  <2> QED BY <2>1, <2>2
<1>3. CASE door.kind = "birth"
  BY <1>1, <1>2, <1>3, LeaveKeeps DEF DoorRecord, IInv, Typed, Idle
<1>4. CASE door.kind # "birth"
  <2>1. door' = [door EXCEPT !.pc = "recorded"] /\ flock' = flock
    BY <1>4 DEF DoorRecord
  <2>2. door' \in Door /\ door'.epoch <= epoch /\ door'.pc # "minted"
    BY <2>1 DEF IInv, Typed, Door, Numbered
  <2> QED BY <1>1, <1>2, <2>1, <2>2, DoorMoves DEF IInv, Typed, Idle
<1> QED BY <1>3, <1>4

LEMMA FollowKeeps ==
    ASSUME IInv, DoorFollow
    PROVE  IInv'
<1>1. door.pc = "recorded" /\ UNCHANGED <<disk, memo, epoch, cycle>> /\ Leave
  BY DEF DoorFollow
<1>2. Grows /\ SameCursors /\ base' \in Tree \cup {Unprimed}
  <2>1. CASE OnLiveRing /\ base = door.frame.before /\ memo = door.frame.after
    <3>1. base \in Tree
      BY <2>1 DEF IInv, Typed, Door, Frame
    <3> QED BY <2>1, <3>1, ReconcileKeeps DEF DoorFollow, Follow
  <2>2. CASE ~(OnLiveRing /\ base = door.frame.before /\ memo = door.frame.after)
    <3>1. UNCHANGED <<ring, reserved, sub, base>>
      BY <2>2 DEF DoorFollow, Follow, watchVars
    <3> QED BY <3>1, StandKeeps DEF IInv, Typed
  <2> QED BY <2>1, <2>2
<1> QED BY <1>1, <1>2, LeaveKeeps DEF Idle

-----------------------------------------------------------------------------
(* Detection *)

(* A cycle starts for a push loop, or for a claimed subscriber. *)
LEMMA StartKeeps ==
    ASSUME IInv, NEW owner \in Sub \cup {Push}, NEW floor \in BOOLEAN,
           CycleStart(owner, floor), owner \in Sub => sub[owner].pc = "claimed"
    PROVE  IInv'
<1>1. /\ cycle.pc = Idle /\ memo' = disk
      /\ UNCHANGED <<disk, base, ring, reserved, epoch, flock, door, sub>>
  BY DEF CycleStart, watchVars
<1>2. cycle' \in Cycle /\ cycle'.pc # "held" /\ (cycle'.pc # Idle => cycle'.owner = owner)
  BY DEF CycleStart, Cycle, NoCycle, Full, Idle
<1>3. Grows /\ SameCursors
  BY <1>1, StandKeeps
<1>4. Flocked' /\ Owned'
  BY <1>1, <1>2 DEF IInv, Flocked, Owned
<1>5. Minted' => Tip(ring') < door'.frame.seq /\ door'.frame.seq <= reserved'
  BY <1>1 DEF IInv, Numbered, Minted, OnLiveRing
<1> QED BY <1>1, <1>2, <1>3, <1>4, <1>5, RingStep DEF IInv, Typed, Numbered

(* A cycle under way goes on; a door that writes has kept it off the flock. *)
LEMMA CycleMoves ==
    ASSUME IInv, Grows, SameCursors, UNCHANGED <<epoch, door, disk>>, memo' \in Tree,
           base' \in Tree \cup {Unprimed}, cycle' \in Cycle,
           cycle.pc # Idle, cycle'.pc # Idle => cycle'.owner = cycle.owner,
           Flocked',
           UNCHANGED <<ring, reserved>> \/ door.pc = Idle
    PROVE  IInv'
<1>1. Owned'
  BY OwnedKept
<1>2. Minted' => Tip(ring') < door'.frame.seq /\ door'.frame.seq <= reserved'
  BY DEF IInv, Numbered, Minted, OnLiveRing, Idle
<1> QED BY <1>1, <1>2, RingStep DEF IInv, Typed, Numbered

LEMMA DoneIsCycle ==
    ASSUME IInv
    PROVE  /\ CycleDone \in Cycle /\ CycleDone.pc # "held"
           /\ CycleDone.pc # Idle => CycleDone.owner = cycle.owner
BY DEF IInv, Typed, Cycle, CycleDone, NoCycle, Idle

LEMMA WaitKeeps ==
    ASSUME IInv, CycleLock \/ CycleBusy
    PROVE  IInv'
<1>1. /\ cycle.pc = "waiting" /\ UNCHANGED <<disk, base, ring, reserved, epoch, door, sub>>
      /\ memo' \in {memo, disk}
  BY DEF CycleLock, CycleBusy, watchVars
<1>2. Grows /\ SameCursors
  BY <1>1, StandKeeps
<1>3. CASE /\ flock = "free" /\ flock' = "cycle"
           /\ cycle' = [cycle EXCEPT !.pc = "held"]
  <2>1. cycle' \in Cycle /\ cycle'.owner = cycle.owner
    BY <1>3 DEF IInv, Typed, Cycle
  <2>2. Flocked'
    BY <1>1, <1>3 DEF IInv, Flocked
  <2> QED BY <1>1, <1>2, <2>1, <2>2, CycleMoves DEF IInv, Typed, Idle
<1>4. CASE flock' = flock /\ cycle' = CycleDone
  <2>1. Flocked'
    BY <1>1, <1>4, DoneIsCycle DEF IInv, Flocked
  <2> QED BY <1>1, <1>2, <1>4, <2>1, DoneIsCycle, CycleMoves DEF IInv, Typed, Idle
<1> QED BY <1>3, <1>4 DEF CycleLock, CycleBusy

LEMMA DetectKeeps ==
    ASSUME IInv, CycleReconcile
    PROVE  IInv'
<1>1. /\ cycle.pc = "held" /\ cycle' = CycleDone /\ flock' = "free"
      /\ UNCHANGED <<disk, memo, epoch, door>>
  BY DEF CycleReconcile
<1>2. door.pc = Idle
  BY <1>1 DEF IInv, Flocked
<1>3. Grows /\ SameCursors /\ base' \in Tree \cup {Unprimed}
  <2>1. CASE base = Unprimed
    <3>1. UNCHANGED <<ring, reserved, sub>> /\ base' \in {memo, disk}
      BY <2>1 DEF CycleReconcile, Prime
    <3> QED BY <3>1, StandKeeps DEF IInv, Typed
  <2>2. CASE base # Unprimed
    BY <2>2, ReconcileKeeps DEF CycleReconcile, IInv, Typed
  <2> QED BY <2>1, <2>2
<1>4. Flocked'
  BY <1>1, <1>2, DoneIsCycle DEF Flocked
<1> QED BY <1>1, <1>2, <1>3, <1>4, DoneIsCycle, CycleMoves DEF IInv, Typed, Idle

-----------------------------------------------------------------------------
(* Subscriptions *)

(* One subscription changes, and stays within its instance. *)
LEMMA SubMoves ==
    ASSUME IInv, NEW s \in Sub,
           sub' = [r \in Sub |-> sub'[r]], \A r \in Sub \ {s} : sub'[r] = sub[r],
           UNCHANGED <<disk, memo, base, ring, reserved, epoch, flock, door>>,
           sub'[s] \in Subscription(sub'[s]),
           Cursor(s)' => sub'[s].instance = epoch /\ sub'[s].at <= Tip(ring),
           cycle' \in Cycle, cycle'.pc = "held" => cycle.pc = "held", Owned'
    PROVE  IInv'
<1>1. Typed'
  BY DEF IInv, Typed, Subscription
<1>2. Flocked' /\ Numbered'
  BY DEF IInv, Flocked, Numbered, Minted, OnLiveRing
<1>3. Anchored'
  <2> SUFFICES ASSUME NEW r \in Sub, Cursor(r)'
               PROVE  sub'[r].instance = epoch /\ sub'[r].at <= Tip(ring)
    BY DEF Anchored
  <2>1. CASE r = s
    BY <2>1
  <2>2. CASE r # s
    <3>1. sub'[r] = sub[r]
      BY <2>2 DEF IInv, Typed
    <3> QED BY <3>1 DEF IInv, Anchored, Cursor
  <2> QED BY <2>1, <2>2
<1> QED BY <1>1, <1>2, <1>3 DEF IInv

LEMMA ClaimKeeps ==
    ASSUME IInv, NEW s \in Sub, SubClaim(s) \/ SubResume(s)
    PROVE  IInv'
<1>1. /\ UNCHANGED <<disk, memo, base, ring, reserved, epoch, flock, door, cycle>>
      /\ sub[s].pc = "out"
  BY DEF SubClaim, SubResume, watchVars
<1>2. Tip(ring) \in Nat
  BY TipIsNat DEF IInv, Typed
<1>3. /\ sub' = [r \in Sub |-> sub'[r]]
      /\ \A r \in Sub \ {s} : sub'[r] = sub[r]
      /\ sub'[s] \in Subscription(sub'[s])
  <2>1. sub' = [r \in Sub |-> sub'[r]] /\ \A r \in Sub \ {s} : sub'[r] = sub[r]
    BY DEF SubClaim, SubResume, IInv, Typed
  <2>2. sub[s] \in Subscription(sub[s])
    BY DEF IInv, Typed
  <2>3. CASE SubClaim(s)
    BY <1>2, <2>2, <2>3 DEF SubClaim, IInv, Typed, Subscription
  <2>4. CASE SubResume(s)
    BY <1>2, <2>2, <2>4 DEF SubResume, IInv, Typed, Subscription
  <2> QED BY <2>1, <2>3, <2>4
<1>4. Cursor(s)' => sub'[s].instance = epoch /\ sub'[s].at <= Tip(ring)
  <2>1. CASE SubClaim(s)
    BY <2>1 DEF SubClaim, IInv, Typed, Subscription, Cursor
  <2>2. CASE SubResume(s)
    <3>1. sub'[s].instance = sub[s].instance /\ sub'[s].at = sub[s].at /\ sub[s].at \in Nat
      BY <2>2 DEF SubResume, IInv, Typed, Subscription
    <3> QED BY <1>2, <2>2, <3>1 DEF SubResume, CanAnchor
  <2> QED BY <2>1, <2>2
<1>5. Owned'
  BY <1>1, <1>3 DEF IInv, Typed, Owned
<1> QED BY <1>1, <1>3, <1>4, <1>5, SubMoves DEF IInv, Typed

(* The ack and the refusal end the cycle that was run for them. *)
LEMMA AckKeeps ==
    ASSUME IInv, NEW s \in Sub, SubAck(s) \/ SubBusy(s)
    PROVE  IInv'
<1>1. /\ UNCHANGED <<disk, memo, base, ring, reserved, epoch, flock, door>>
      /\ cycle.pc = "observed" /\ cycle.owner = s /\ cycle' = NoCycle
  BY DEF SubAck, SubBusy, watchVars
<1>2. sub[s].pc = "claimed"
  BY <1>1 DEF IInv, Owned, Idle
<1>3. Tip(ring) \in Nat
  BY TipIsNat DEF IInv, Typed
<1>4. /\ sub' = [r \in Sub |-> sub'[r]]
      /\ \A r \in Sub \ {s} : sub'[r] = sub[r]
      /\ sub'[s] \in Subscription(sub'[s])
  <2>1. sub' = [r \in Sub |-> sub'[r]] /\ \A r \in Sub \ {s} : sub'[r] = sub[r]
    BY DEF SubAck, SubBusy, IInv, Typed
  <2>2. sub[s] \in Subscription(sub[s])
    BY DEF IInv, Typed
  <2>3. CASE SubAck(s)
    BY <1>3, <2>2, <2>3, ZenonT(30) DEF SubAck, IInv, Typed, Subscription
  <2>4. CASE SubBusy(s)
    BY <1>3, <2>2, <2>4 DEF SubBusy, IInv, Typed, Subscription
  <2> QED BY <2>1, <2>3, <2>4
<1>5. Cursor(s)' => sub'[s].instance = epoch /\ sub'[s].at <= Tip(ring)
  <2>1. CASE SubBusy(s)
    BY <2>1 DEF SubBusy, IInv, Typed, Subscription, Cursor
  <2>2. CASE SubAck(s) /\ sub[s].resume
    <3>1. sub'[s].instance = sub[s].instance /\ sub'[s].at = sub[s].at
      BY <2>2, ZenonT(30) DEF SubAck, IInv, Typed, Subscription
    <3> QED BY <1>2, <2>2, <3>1 DEF IInv, Anchored, Cursor
  <2>3. CASE SubAck(s) /\ ~sub[s].resume
    <3>1. sub[s] \in Subscription(sub[s])
      BY DEF IInv, Typed
    <3>2. sub'[s].instance = epoch /\ sub'[s].at = Tip(ring)
      BY <2>3, <3>1 DEF SubAck, IInv, Typed, Subscription
    <3> QED BY <1>3, <3>2
  <2> QED BY <2>1, <2>2, <2>3
<1>6. cycle' \in Cycle /\ cycle'.pc = Idle
  BY <1>1 DEF NoCycle, Cycle
<1>7. Owned'
  BY <1>6 DEF Owned
<1> QED BY <1>1, <1>4, <1>5, <1>6, <1>7, SubMoves DEF Idle

LEMMA LiveKeeps ==
    ASSUME IInv, NEW s \in Sub, Deliver(s) \/ SubDrop(s)
    PROVE  IInv'
<1>1. /\ UNCHANGED <<disk, memo, base, ring, reserved, epoch, flock, door, cycle>>
      /\ sub[s].pc = "live"
  BY DEF Deliver, SubDrop, watchVars
<1>2. Tip(ring) \in Nat
  BY TipIsNat DEF IInv, Typed
<1>3. /\ sub' = [r \in Sub |-> sub'[r]]
      /\ \A r \in Sub \ {s} : sub'[r] = sub[r]
      /\ sub'[s] \in Subscription(sub'[s])
  <2>1. sub' = [r \in Sub |-> sub'[r]] /\ \A r \in Sub \ {s} : sub'[r] = sub[r]
    BY DEF Deliver, SubDrop, IInv, Typed
  <2>2. sub[s] \in Subscription(sub[s])
    BY DEF IInv, Typed
  <2>3. CASE Deliver(s)
    BY <1>2, <2>2, <2>3 DEF Deliver, IInv, Typed, Subscription
  <2>4. CASE SubDrop(s)
    BY <1>2, <2>2, <2>4 DEF SubDrop, IInv, Typed, Subscription
  <2> QED BY <2>1, <2>3, <2>4
<1>4. Cursor(s)' => sub'[s].instance = epoch /\ sub'[s].at <= Tip(ring)
  <2>1. sub[s] \in Subscription(sub[s]) /\ sub[s].instance = epoch
    BY <1>1 DEF IInv, Typed, Anchored, Cursor
  <2>2. CASE Deliver(s)
    <3>1. sub'[s].instance = epoch /\ sub'[s].at = Tip(ring)
      BY <2>1, <2>2 DEF Deliver, IInv, Typed, Subscription
    <3> QED BY <1>2, <3>1
  <2>3. CASE SubDrop(s)
    <3>1. sub'[s].pc = "out"
      BY <2>1, <2>3 DEF SubDrop, IInv, Typed, Subscription
    <3> QED BY <3>1 DEF Cursor
  <2> QED BY <2>2, <2>3
<1>5. Owned'
  BY <1>1, <1>3 DEF IInv, Typed, Owned
<1> QED BY <1>1, <1>3, <1>4, <1>5, SubMoves DEF IInv, Typed

-----------------------------------------------------------------------------
(* The rest of the system *)

(* A door that was on the ring that is reaped is on none that comes. *)
LEMMA ReapKeeps ==
    ASSUME IInv, Reap
    PROVE  IInv'
<1>1. /\ ring' = <<>> /\ reserved' = 0 /\ base' = Unprimed /\ epoch' = epoch + 1
      /\ UNCHANGED <<disk, memo, flock, door, cycle, sub>>
      /\ \A s \in Sub : sub[s].pc = "out"
  BY DEF Reap
<1>2. Typed' /\ Flocked' /\ Owned'
  BY <1>1 DEF IInv, Typed, Flocked, Owned
<1>3. Anchored'
  BY <1>1 DEF Anchored, Cursor
<1>4. ~Minted' /\ door'.epoch <= epoch'
  BY <1>1 DEF IInv, Typed, Door, Numbered, Minted, OnLiveRing
<1>5. Growing(ring') /\ Tip(ring') <= reserved'
  BY <1>1 DEF Growing, Tip
<1> QED BY <1>2, <1>3, <1>4, <1>5 DEF IInv, Numbered

LEMMA FilesKeep ==
    ASSUME IInv,
           \/ \E f \in File, v \in Val : Edit(f, v)
           \/ \E f \in File : ReaderPatch(f)
    PROVE  IInv'
<1>1. /\ UNCHANGED <<base, ring, reserved, epoch, flock, door, cycle, sub>>
      /\ disk' \in Tree /\ memo' \in Tree
  BY DEF Edit, ReaderPatch, watchVars, IInv, Typed, Tree
<1>2. Typed' /\ Flocked' /\ Numbered' /\ Owned' /\ Anchored'
  BY <1>1 DEF IInv, Typed, Flocked, Numbered, Minted, OnLiveRing, Owned, Anchored, Cursor
<1> QED BY <1>2 DEF IInv

LEMMA InitHolds == Init => IInv
<1> SUFFICES ASSUME Init PROVE IInv
  OBVIOUS
<1>1. Typed
  <2>1. cycle \in Cycle
    BY DEF Init, NoCycle, Cycle
  <2>2. \A s \in Sub : sub[s] \in Subscription(sub[s])
    BY DEF Init, Subscription
  <2>3. sub = [s \in Sub |-> sub[s]] /\ ring \in Seq(Frame)
    BY DEF Init
  <2> QED BY <2>1, <2>2, <2>3, NoDoorTyped DEF Init, Typed
<1>2. Flocked /\ Owned /\ Anchored
  BY NoDoorTyped DEF Init, Flocked, Owned, Anchored, Cursor, NoCycle, Idle
<1>3. Numbered
  BY NoDoorTyped DEF Init, Numbered, Minted, Growing, Tip, Idle
<1> QED BY <1>1, <1>2, <1>3 DEF IInv

LEMMA StepKeeps == IInv /\ [Next]_vars => IInv'
<1> SUFFICES ASSUME IInv, [Next]_vars PROVE IInv'
  OBVIOUS
<1>1. ASSUME NEW kind \in Kinds, DoorEnter(kind) PROVE IInv'
  BY <1>1, EnterKeeps
<1>2. CASE DoorStep
  BY <1>2, SettleKeeps, RootKeeps, RefuseKeeps, CommitKeeps, RecordKeeps, FollowKeeps
     DEF DoorStep
<1>3. ASSUME NEW floor \in BOOLEAN, Detect(floor) PROVE IInv'
  BY <1>3, StartKeeps DEF Detect
<1>4. CASE CycleStep
  BY <1>4, WaitKeeps, DetectKeeps DEF CycleStep
<1>5. ASSUME NEW s \in Sub, SubStep(s) PROVE IInv'
  BY <1>5, ClaimKeeps, AckKeeps, LiveKeeps, StartKeeps DEF SubStep, SubPrime
<1>6. CASE UNCHANGED vars
  <2>1. UNCHANGED <<disk, memo, base, ring, reserved, epoch, flock, door, cycle, sub>>
    BY <1>6 DEF vars
  <2>2. Typed' /\ Flocked' /\ Numbered' /\ Owned' /\ Anchored'
    BY <2>1 DEF IInv, Typed, Flocked, Numbered, Minted, OnLiveRing, Owned, Anchored, Cursor
  <2> QED BY <2>2 DEF IInv
<1> QED BY <1>1, <1>2, <1>3, <1>4, <1>5, <1>6, FilesKeep, ReapKeeps DEF Next

LEMMA AlwaysIInv == Spec => []IInv
BY InitHolds, StepKeeps, PTL DEF Spec

-----------------------------------------------------------------------------
(* Whatever doors, cycles, failures and reaps come in between, numbers on a *)
(* ring only grow, and the one a door holds is past them all.               *)
THEOREM SeqsGrowHolds == Spec => []SeqsGrow
<1>1. IInv => SeqsGrow
  BY DEF IInv, Numbered, Growing, Minted, SeqsGrow
<1> QED BY <1>1, AlwaysIInv, PTL

(* A live subscription is numbered on the ring that is there, inside its    *)
(* tip: a cursor of a reaped ring is never honoured by the next.            *)
THEOREM AnchorsStand == Spec => []AnchorsHold
<1>1. IInv => AnchorsHold
  BY DEF IInv, Anchored, Cursor, AnchorsHold
<1> QED BY <1>1, AlwaysIInv, PTL
=============================================================================
