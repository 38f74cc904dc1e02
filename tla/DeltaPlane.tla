----------------------------- MODULE DeltaPlane -----------------------------
(***************************************************************************)
(* One workspace's delta plane: the ring of told changes, the watch        *)
(* baseline behind it, the write doors and the detector that both number   *)
(* frames on the ring, and the subscribers that read it                    *)
(* (crates/registry/src/ring.rs, crates/wire-serve/src/{ring,watch}.rs).   *)
(*                                                                         *)
(* A root is a collision-free digest of the tree, so a root IS the tree.   *)
(* The write flock admits one holder, so one door record stands for every  *)
(* door; the cycle gate is single-flight, so one cycle record stands for   *)
(* every detection.  An observation through the shared memo is one step.   *)
(***************************************************************************)
EXTENDS Naturals, FiniteSets, Sequences

CONSTANTS
    File,        \* the workspace's members
    Val,         \* file contents, Absent among them
    Absent,      \* no file at this path
    Sub,         \* subscribing clients
    RingBound,   \* frames the ring retains (RING_BOUND)
    Unprimed,    \* the watch has no baseline
    Push,        \* the cycle's owner when a push loop runs it
    Starts,      \* the trees the workspace may begin with
    Kinds,       \* the write doors in play, a subset of DoorKind
    MaxWrites,   \* write-door calls, and writes by programs outside the daemon
    MaxFaults,   \* I/O refusals, and doors that fail after their bytes land
    MaxReaps     \* ring epochs the reaper ends

Tree == [File -> Val]
DoorKind == {"splice", "create", "remove", "run", "birth"}

ASSUME DeltaAssumption ==
    /\ Absent \in Val
    /\ Unprimed \notin Tree
    /\ Push \notin Sub
    /\ RingBound \in Nat \ {0}
    /\ Starts \subseteq Tree
    /\ Kinds \subseteq DoorKind

VARIABLES
    disk,      \* the files as they stand
    memo,      \* the registry's shared fold of them
    base,      \* WatchState: the baseline, a Tree or Unprimed
    ring,      \* RootRing.entries
    reserved,  \* RootRing.reserved
    epoch,     \* the ring's instance
    flock,     \* who holds .meridian/write.lock: "free", "door", "cycle"
    door,      \* the write door in flight
    cycle,     \* the detection in flight under the cycle gate
    sub,       \* each client and its subscription
    untold,    \* history: files whose last change no frame told
    carried,   \* history: the tip when the baseline last moved
    spent      \* how much of each bound is used

ringVars == <<ring, reserved>>
watchVars == <<base, ring, reserved, untold, carried>>
vars == <<disk, memo, base, ring, reserved, epoch, flock, door, cycle, sub,
          untold, carried, spent>>

Frame == [seq : Nat, before : Tree, after : Tree, files : SUBSET File]

Empty == [f \in File |-> Absent]
NoFrame == [seq |-> 0, before |-> Empty, after |-> Empty, files |-> {}]
NoDoor == [pc |-> "idle", kind |-> "run", epoch |-> 0, before |-> Empty,
           frame |-> NoFrame]
Spend(b) == spent' = [spent EXCEPT ![b] = @ + 1]
MayFail == spent.faults < MaxFaults
Idle == "idle"

-----------------------------------------------------------------------------
(* The ring. *)

Tip(r) == IF r = <<>> THEN 0 ELSE r[Len(r)].seq

(* Faulty variant: hands out the last number again. *)
AllocateLast == IF Tip(ring) > reserved THEN Tip(ring) ELSE reserved
\* The next number either producer may use.
AllocateSeq == (IF Tip(ring) > reserved THEN Tip(ring) ELSE reserved) + 1

\* The frames an unbroken chain from `from` to a tip at `to` runs through.
ChainFrom(i) == \A j \in i .. Len(ring) - 1 : ring[j].after = ring[j + 1].before
(* Faulty variant: a tip at the target, reached from anywhere. *)
ChainTipOnly(from, to) == {i \in 1 .. Len(ring) : ring[Len(ring)].after = to}
Chain(from, to) ==
    {i \in 1 .. Len(ring) :
        ring[Len(ring)].after = to /\ ring[i].before = from /\ ChainFrom(i)}
Chains(from, to) == Chain(from, to) # {}

Advance(r, f) == Append(IF Len(r) = RingBound THEN Tail(r) ELSE r, f)

\* A subscriber whose next frame falls out of the ring.
Evict(f) ==
    LET gone == IF Len(ring) = RingBound THEN ring[1].seq ELSE 0
    IN  [s \in Sub |-> IF sub[s].pc # "out" /\ sub[s].at < gone
                       THEN [sub[s] EXCEPT !.lost = TRUE] ELSE sub[s]]

(* Faulty variant: compares numbers of any instance. *)
CanAnchorAnyInstance(s) ==
    \/ sub[s].at = Tip(ring)
    \/ sub[s].at < Tip(ring) /\ sub[s].at + 1 >= ring[1].seq
CanAnchor(s) ==
    /\ sub[s].instance = epoch
    /\ \/ sub[s].at = Tip(ring)
       \/ sub[s].at < Tip(ring) /\ sub[s].at + 1 >= ring[1].seq

-----------------------------------------------------------------------------
(* The reconcile step over the memo's pair, under the flock. *)

Movers == {f \in File : base[f] # memo[f]}

\* A mover is re-read and checked against its leaf; a removed one is not read.
Verified == \A f \in Movers : memo[f] \in {Absent, disk[f]}

\* Files told by a frame the baseline does not carry, and put back since.
PutBack == {f \in File : base[f] = memo[f]
                         /\ \E i \in 1 .. Len(ring) : ring[i].seq > carried
                                                    /\ f \in ring[i].files}

\* The frames from the i-th on tell f, and leave it at v.
LeavesAt(i, f, v) ==
    LET named == {j \in i .. Len(ring) : f \in ring[j].files}
    IN  named # {} /\ \A j \in named : (\A k \in named : k <= j) => ring[j].after[f] = v

\* Some frame passes f from one state to another without naming it.
Spanned(f) == \E i \in 1 .. Len(ring) :
                 f \notin ring[i].files /\ ring[i].before[f] # ring[i].after[f]

SyncSilently ==
    /\ Chains(base, memo)
    /\ base' = memo
    /\ untold' = untold \cup
         {f \in PutBack \cup {f \in Movers : Spanned(f)} :
             \A i \in Chain(base, memo) : ~LeavesAt(i, f, memo[f])}
    /\ carried' = Tip(ring)
    /\ UNCHANGED <<ring, reserved, sub>>

TellExternal ==
    /\ ~Chains(base, memo)
    /\ LET frame == [seq |-> AllocateSeq, before |-> base, after |-> memo,
                     files |-> Movers]
       IN  /\ ring' = Advance(ring, frame)
           /\ sub' = Evict(frame)
    /\ reserved' = AllocateSeq
    /\ carried' = AllocateSeq
    /\ base' = memo
    /\ untold' = (untold \ Movers) \cup PutBack

\* Emits nothing, and the baseline stays for the next cycle.
Hold == UNCHANGED <<watchVars, sub>>

ReconcileDelta ==
    IF base = memo \/ ~Verified THEN Hold ELSE SyncSilently \/ TellExternal

Reconcile ==
    \/ ReconcileDelta /\ UNCHANGED spent
    \/ MayFail /\ base # memo /\ Hold /\ Spend("faults")

-----------------------------------------------------------------------------
(* Programs outside the daemon, and the daemon's readers. *)

Edit(f, v) ==
    /\ spent.writes < MaxWrites
    /\ disk[f] # v
    /\ disk' = [disk EXCEPT ![f] = v]
    /\ Spend("writes")
    /\ UNCHANGED <<memo, watchVars, epoch, flock, door, cycle, sub>>

\* A reader's currency pass patches one dirty file into the shared memo.
ReaderPatch(f) ==
    /\ memo[f] # disk[f]
    /\ memo' = [memo EXCEPT ![f] = disk[f]]
    /\ UNCHANGED <<disk, watchVars, epoch, flock, door, cycle, sub, spent>>

-----------------------------------------------------------------------------
(* The write doors, each under the flock from entry to return. *)

\* The ring a door records on is the one it fetched: after a reap, an orphan.
OnLiveRing == door.epoch = epoch

Leave == flock' = "free" /\ door' = NoDoor

\* A run-plane birth observes through a cache of its own and is never settled.
DoorEnter(kind) ==
    /\ door.pc = Idle /\ flock = "free"
    /\ spent.writes < MaxWrites
    /\ flock' = "door"
    /\ door' = [pc |-> IF kind = "birth" THEN "based" ELSE "observed",
                kind |-> kind, epoch |-> epoch, before |-> disk,
                frame |-> NoFrame]
    /\ memo' = IF kind = "birth" THEN memo ELSE disk
    /\ Spend("writes")
    /\ UNCHANGED <<disk, watchVars, epoch, cycle, sub>>

\* WorkspaceRing::settle: an external change is told before any byte lands.
Settle ==
    IF OnLiveRing /\ base # Unprimed THEN Reconcile
    ELSE UNCHANGED <<watchVars, sub, spent>>

DoorSettle ==
    /\ door.pc = "observed"
    /\ Settle
    /\ door' = [door EXCEPT !.pc = IF door.kind = "splice" THEN "settled" ELSE "based"]
    /\ UNCHANGED <<disk, memo, epoch, flock, cycle>>

\* A splice takes its root_before from the shared memo, late.
DoorRootBefore ==
    /\ door.pc = "settled"
    /\ door' = [door EXCEPT !.pc = "based", !.before = memo]
    /\ UNCHANGED <<disk, memo, watchVars, epoch, flock, cycle, sub, spent>>

\* Validation, a guard or the CAS refuses before a byte lands.
DoorRefuse ==
    /\ door.pc = "based"
    /\ Leave
    /\ UNCHANGED <<disk, memo, watchVars, epoch, cycle, sub, spent>>

MayLand(f, v) ==
    CASE door.kind \in {"create", "birth"} -> disk[f] = Absent /\ v # Absent
      [] door.kind = "remove"              -> disk[f] # Absent /\ v = Absent
      [] OTHER                             -> disk[f] # Absent /\ v \notin {Absent, disk[f]}

\* The bytes land, the door overlays its own write, and the frame gets its
\* number.  A birth's overlay reaches only the cache it observed through.
DoorCommit(f, v) ==
    /\ door.pc = "based"
    /\ MayLand(f, v)
    /\ disk' = [disk EXCEPT ![f] = v]
    /\ memo' = IF door.kind = "birth" THEN memo ELSE [memo EXCEPT ![f] = v]
    /\ LET after == [(IF door.kind = "birth" THEN door.before ELSE memo)
                        EXCEPT ![f] = v]
           seq   == IF OnLiveRing THEN AllocateSeq ELSE 1
       IN  /\ door' = [door EXCEPT !.pc = "minted",
                 !.frame = [seq |-> seq, before |-> door.before,
                            after |-> after, files |-> {f}]]
           /\ reserved' = IF OnLiveRing THEN seq ELSE reserved
    /\ UNCHANGED <<base, ring, untold, carried, epoch, flock, cycle, sub, spent>>

\* The door unwinds with its bytes landed and no frame recorded.
DoorFail ==
    /\ door.pc = "minted"
    /\ MayFail
    /\ Leave
    /\ Spend("faults")
    /\ UNCHANGED <<disk, memo, watchVars, epoch, cycle, sub>>

\* SeqSink::committed, first half: the frame goes on the ring.  The bare ring
\* a birth is handed stops here.
DoorRecord ==
    /\ door.pc = "minted"
    /\ IF OnLiveRing
       THEN /\ ring' = Advance(ring, door.frame)
            /\ sub' = Evict(door.frame)
            /\ untold' = untold \ door.frame.files
       ELSE UNCHANGED <<ring, sub, untold>>
    /\ IF door.kind = "birth" THEN Leave
       ELSE door' = [door EXCEPT !.pc = "recorded"] /\ UNCHANGED flock
    /\ UNCHANGED <<disk, memo, base, reserved, carried, epoch, cycle, spent>>

\* WorkspaceRing::follow, under a second hold of the state lock.
Follow ==
    IF OnLiveRing /\ base = door.frame.before /\ memo = door.frame.after
    THEN Reconcile
    ELSE UNCHANGED <<watchVars, sub, spent>>

DoorFollow ==
    /\ door.pc = "recorded"
    /\ Follow
    /\ Leave
    /\ UNCHANGED <<disk, memo, epoch, cycle>>

-----------------------------------------------------------------------------
(* Detection.  Ordinary cycles run from a push loop; a floor cycle is the   *)
(* backstop; a prime runs one for the subscriber it is about to ack.        *)

NoCycle == [pc |-> Idle, full |-> FALSE, owner |-> Push]

(* Faulty variant: the backstop is an ordinary cycle. *)
FullPriming(floor) == base = Unprimed
Full(floor) == floor \/ base = Unprimed

\* The unlocked pre-observation: quiet cycles stay off the flock.
CycleStart(owner, floor) ==
    /\ cycle.pc = Idle
    /\ memo' = disk
    /\ cycle' = IF base = disk
                THEN IF owner = Push THEN NoCycle
                     ELSE [pc |-> "observed", full |-> FALSE, owner |-> owner]
                ELSE [pc |-> "waiting", full |-> Full(floor),
                      owner |-> owner]
    /\ UNCHANGED <<disk, watchVars, epoch, flock, door, sub, spent>>

Detect(floor) == /\ \E s \in Sub : sub[s].pc = "live"
                 /\ CycleStart(Push, floor)

(* Faulty variant: a push loop's cycle keeps the gate. *)
CycleDoneKeeping == [cycle EXCEPT !.pc = "observed"]
\* The cycle's end: a prime goes on to read its pair, a push loop lets go.
CycleDone == IF cycle.owner = Push THEN NoCycle
             ELSE [cycle EXCEPT !.pc = "observed"]

\* A full cycle observes afresh under the flock; an ordinary one only vouched,
\* and skips on a miss.
CycleLock ==
    /\ cycle.pc = "waiting" /\ flock = "free"
    /\ \/ /\ memo' = disk
          /\ flock' = "cycle"
          /\ cycle' = [cycle EXCEPT !.pc = "held"]
       \/ /\ ~cycle.full
          /\ cycle' = CycleDone
          /\ UNCHANGED <<memo, flock>>
    /\ UNCHANGED <<disk, watchVars, epoch, door, sub, spent>>

\* Another writer holds the flock: skip it, or, priming, wait out the budget.
CycleBusy ==
    /\ cycle.pc = "waiting" /\ flock # "free"
    /\ cycle' = CycleDone
    /\ UNCHANGED <<disk, memo, watchVars, epoch, flock, door, sub, spent>>

\* A prime's snapshot member that races its leaf falls back to the whole tree.
Prime ==
    /\ base = Unprimed
    /\ base' \in {memo, disk}
    /\ carried' = Tip(ring)
    /\ UNCHANGED <<ring, reserved, untold, sub, spent>>

CycleReconcile ==
    /\ cycle.pc = "held"
    /\ IF base = Unprimed THEN Prime ELSE Reconcile
    /\ flock' = "free"
    /\ cycle' = CycleDone
    /\ UNCHANGED <<disk, memo, epoch, door>>

-----------------------------------------------------------------------------
(* Subscriptions.                                                           *)

\* What a client knows after applying the frames it is handed.
Told(s) == {i \in 1 .. Len(ring) : ring[i].seq > sub[s].at}
View(s) ==
    [f \in File |->
        LET named == {i \in Told(s) : f \in ring[i].files}
        IN  IF named = {} THEN sub[s].view[f]
            ELSE ring[CHOOSE i \in named : \A j \in named : j <= i].after[f]]

\* A live subscribe: no cursor, the claim exempts the ring from the reaper.
SubClaim(s) ==
    /\ sub[s].pc = "out"
    /\ sub' = [sub EXCEPT ![s].pc = "claimed", ![s].resume = FALSE,
                          ![s].at = Tip(ring), ![s].lost = FALSE,
                          ![s].skipped = FALSE]
    /\ UNCHANGED <<disk, memo, watchVars, epoch, flock, door, cycle, spent>>

\* A resumption: the instance is judged before the number.
SubResume(s) ==
    /\ sub[s].pc = "out" /\ sub[s].instance # 0
    /\ CanAnchor(s)
    /\ sub' = [sub EXCEPT ![s].pc = "claimed", ![s].resume = TRUE]
    /\ UNCHANGED <<disk, memo, watchVars, epoch, flock, door, cycle, spent>>

SubPrime(s) == sub[s].pc = "claimed" /\ CycleStart(s, FALSE)

\* The pair is read under one state lock while the prime still holds its gate.
SubAck(s) ==
    /\ cycle.pc = "observed" /\ cycle.owner = s
    /\ base # Unprimed
    /\ sub' = [sub EXCEPT ![s] =
         IF @.resume THEN [@ EXCEPT !.pc = "live", !.resume = FALSE]
         ELSE [@ EXCEPT !.pc = "live", !.instance = epoch, !.at = Tip(ring),
                        !.view = base, !.lost = FALSE,
                        !.skipped = ring # <<>>
                            /\ base # ring[Len(ring)].after
                            /\ Chains(base, ring[Len(ring)].after)]]
    /\ cycle' = NoCycle
    /\ UNCHANGED <<disk, memo, watchVars, epoch, flock, door, spent>>

\* workspace_busy: the writer outlasted the budget and there is no baseline.
SubBusy(s) ==
    /\ cycle.pc = "observed" /\ cycle.owner = s
    /\ base = Unprimed
    /\ sub' = [sub EXCEPT ![s].pc = "out"]
    /\ cycle' = NoCycle
    /\ UNCHANGED <<disk, memo, watchVars, epoch, flock, door, spent>>

Deliver(s) ==
    /\ sub[s].pc = "live" /\ Told(s) # {}
    /\ sub' = [sub EXCEPT ![s].view = View(s), ![s].at = Tip(ring)]
    /\ UNCHANGED <<disk, memo, watchVars, epoch, flock, door, cycle, spent>>

\* The client hangs up, or the push loop drops it; it keeps its cursor.
SubDrop(s) ==
    /\ sub[s].pc = "live"
    /\ sub' = [sub EXCEPT ![s].pc = "out"]
    /\ UNCHANGED <<disk, memo, watchVars, epoch, flock, door, cycle, spent>>

\* The reaper ends an idle workspace's ring, decided under the claims' lock.
Reap ==
    /\ spent.reaps < MaxReaps
    /\ \A s \in Sub : sub[s].pc = "out"
    /\ ring' = <<>> /\ reserved' = 0 /\ base' = Unprimed
    /\ untold' = {} /\ carried' = 0
    /\ epoch' = epoch + 1
    /\ Spend("reaps")
    /\ UNCHANGED <<disk, memo, flock, door, cycle, sub>>

-----------------------------------------------------------------------------
Init ==
    /\ disk \in Starts /\ memo = disk
    /\ base = Unprimed /\ ring = <<>> /\ reserved = 0 /\ epoch = 1
    /\ flock = "free" /\ cycle = NoCycle
    /\ door = NoDoor
    /\ sub = [s \in Sub |-> [pc |-> "out", instance |-> 0, at |-> 0, view |-> disk,
                             resume |-> FALSE, lost |-> FALSE, skipped |-> FALSE]]
    /\ untold = {} /\ carried = 0
    /\ spent = [writes |-> 0, faults |-> 0, reaps |-> 0]

DoorStep == \/ DoorSettle \/ DoorRootBefore \/ DoorRefuse
            \/ \E f \in File, v \in Val : DoorCommit(f, v)
            \/ DoorFail \/ DoorRecord \/ DoorFollow
CycleStep == CycleLock \/ CycleBusy \/ CycleReconcile
SubStep(s) == SubClaim(s) \/ SubResume(s) \/ SubPrime(s) \/ SubAck(s) \/ SubBusy(s)
              \/ Deliver(s) \/ SubDrop(s)

Next ==
    \/ \E f \in File, v \in Val : Edit(f, v)
    \/ \E f \in File : ReaderPatch(f)
    \/ \E kind \in Kinds : DoorEnter(kind)
    \/ DoorStep
    \/ \E floor \in BOOLEAN : Detect(floor)
    \/ CycleStep
    \/ \E s \in Sub : SubStep(s)
    \/ Reap

Spec == Init /\ [][Next]_vars

\* Each thread keeps going; the backstop comes round again and again, and gets
\* the gate and the flock it needs however often an ordinary cycle skips.
Fairness ==
    /\ WF_vars(DoorStep) /\ WF_vars(CycleStep)
    /\ SF_vars(Detect(TRUE)) /\ SF_vars(cycle.full /\ CycleLock)
    /\ \A s \in Sub : /\ WF_vars(Deliver(s)) /\ WF_vars(SubAck(s) \/ SubBusy(s))
                      /\ SF_vars(SubPrime(s))

FairSpec == Spec /\ Fairness

-----------------------------------------------------------------------------
(* Properties. *)

TypeOK ==
    /\ disk \in Tree /\ memo \in Tree /\ base \in Tree \cup {Unprimed}
    /\ ring \in Seq(Frame) /\ Len(ring) <= RingBound
    /\ reserved \in Nat /\ epoch \in Nat
    /\ flock \in {"free", "door", "cycle"}
    /\ door \in [pc : {Idle, "observed", "settled", "based", "minted", "recorded"},
                 kind : DoorKind, epoch : Nat, before : Tree, frame : Frame]
    /\ cycle \in [pc : {Idle, "waiting", "held", "observed"}, full : BOOLEAN,
                  owner : Sub \cup {Push}]
    /\ sub \in [Sub -> [pc : {"out", "claimed", "live"}, instance : Nat, at : Nat,
                        view : Tree, resume : BOOLEAN, lost : BOOLEAN,
                        skipped : BOOLEAN]]
    /\ untold \in SUBSET File /\ carried \in Nat
    /\ spent \in [{"writes", "faults", "reaps"} -> Nat]

\* Numbers on the ring only grow, and the number a door holds while it writes is
\* past every one on it: no second producer takes or passes it (allocate_seq,
\* which the doors and the detector share).
SeqsGrow ==
    /\ \A i, j \in 1 .. Len(ring) : i < j => ring[i].seq < ring[j].seq
    /\ Tip(ring) <= reserved
    /\ door.pc = "minted" /\ OnLiveRing => door.frame.seq > Tip(ring)

\* A client at rest: everything is observed, and it has been handed every frame.
AtRest(s) ==
    /\ flock = "free" /\ memo = disk /\ base = disk
    /\ sub[s].pc = "live" /\ Told(s) = {}

\* A client that has been handed every frame knows every file as it is on disk,
\* but for a file a door's frame spans without naming; unless it anchored past a
\* frame its ack did not carry, frames it was owed fell out of the ring, or an
\* edit put back what a frame told (reconcile_delta: what it tells, and what it
\* syncs silently because a door's frame told it).
NothingUntold ==
    \A s \in Sub : AtRest(s) /\ ~sub[s].skipped /\ ~sub[s].lost =>
        \A f \in File \ (untold \cup PutBack) : sub[s].view[f] = disk[f]

\* A live subscription is numbered on the ring that is there, inside its tip:
\* no cursor of a reaped instance survives a resumption (can_anchor, reap).
AnchorsHold ==
    \A s \in Sub : sub[s].pc = "live" =>
        sub[s].instance = epoch /\ sub[s].at <= Tip(ring)

\* Once programs outside stop, every subscription comes to rest and stays there
\* (the floor cadence of the push loop's detect).
CatchesUp == \A s \in Sub : <>[](sub[s].pc = "live") => <>[]AtRest(s)

\* A subscribe call is answered, whatever the writers do (prime waits out a busy
\* flock for its budget only).
SubAnswered == \A s \in Sub : sub[s].pc = "claimed" ~> sub[s].pc # "claimed"
=============================================================================
