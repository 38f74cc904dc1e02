------------------------------ MODULE Publish ------------------------------
(***************************************************************************)
(* Publication of multi-file transactions and recovery from what a crash   *)
(* leaves (crates/wire-serve/src/publish.rs, crates/fs/src/intent.rs).     *)
(*                                                                         *)
(* Each transaction is published by a thread of one process: reserve,      *)
(* reverify, store the recovery images, create the intent, rename, let the *)
(* state owner assign the frame, finalize, reclaim.  The process may die   *)
(* between any two file operations; a later one scans the intents and      *)
(* recovers each before it opens admissions.                               *)
(*                                                                         *)
(* Abstractions.  The bytes of a file are the sequence of edits that made  *)
(* them; <<>> is the empty file and, as in the code, also the missing one. *)
(* Equal bytes have equal digests.  A transaction visits its destinations  *)
(* in any order (the code follows a list).  A crash is of the process:     *)
(* completed file operations persist (docs/laws.md claims no power-loss    *)
(* safety).  Any file operation may fail, at most MaxFaults times in all;  *)
(* a directory sync fails after what it was to make durable is done.  A    *)
(* group commit is its members one after the other.                        *)
(***************************************************************************)
EXTENDS Integers, Regions, FiniteSets

CONSTANTS
    Txn, NoTxn,
    Path,           \* destinations, as sequences of names
    EditOf,         \* [Txn -> Edit]: what a transaction does to a file
    Premises,       \* regions a plan may have relied on reading
    Policies,       \* subset of {"Restore", "Forward"}
    MaxFaults, MaxCrashes

ASSUME PublishAssumption ==
    /\ NoTxn \notin Txn /\ MaxFaults \in Nat /\ MaxCrashes \in Nat
    /\ Policies \subseteq {"Restore", "Forward"}

(* A folder premise names a folder: an empty prefix would cover nothing    *)
(* (see UnderOrEq).                                                        *)
ASSUME PremisesAssumption ==
    \A r \in Premises : /\ r.extent \in {"root", "folder", "file", "absence"}
                        /\ r.extent = "folder" => r.at # <<>>

VARIABLES
    disk,           \* [Path -> Seq(Edit)]
    staged,         \* [Txn -> SUBSET Path]: synced temps beside the destinations
    images,         \* [Txn -> SUBSET Path]: stored old and new images
    intent,         \* [Txn -> "none", "torn", "decided" or "applied"]
    ambiguous,      \* transactions with a quarantine marker
    plan,           \* [Txn -> destinations, old bytes, premises, policy]
    pc,             \* control point of a publishing thread
    held,           \* transactions in the reservation table
    birth, frames,  \* the state owner: bytes at its birth, frames assigned
    mode,           \* "open", "down" or "recover"
    found, cur, at, done,   \* recovery: scanned intents, the current one
    faults, crashes

files == <<disk, staged, images, intent, ambiguous>>
recovery == <<found, cur, at, done>>
memory == <<plan, held, birth, frames, mode>>
vars == <<files, memory, pc, recovery, faults, crashes>>

-----------------------------------------------------------------------------
NoPlan == [dests |-> {}, old |-> [p \in Path |-> <<>>], reads |-> {}, policy |-> "Restore"]
Dests(t) == plan[t].dests
Old(t, p) == plan[t].old[p]
New(t, p) == Append(Old(t, p), EditOf[t])
Writes(t) == {File(p) : p \in Dests(t)}

Goto(t, point) == pc' = [pc EXCEPT ![t] = point]

(* A file operation fails. *)
Fault == faults < MaxFaults /\ faults' = faults + 1

(* The caller plans from the bytes it reads now and stages its temps.      *)
Stage(t) ==
    /\ mode = "open" /\ pc[t] = "idle"
    /\ \E W \in (SUBSET Path) \ {{}}, R \in SUBSET Premises, policy \in Policies :
         /\ plan' = [plan EXCEPT ![t] = [dests |-> W, old |-> disk, reads |-> R,
                                         policy |-> policy]]
         /\ staged' = [staged EXCEPT ![t] = W]
    /\ Goto(t, "reserve")
    /\ UNCHANGED <<disk, images, intent, ambiguous, held, birth, frames, mode, recovery,
                   faults, crashes>>

(* The complete set is acquired at once; an overlapping caller waits. *)
Reserve(t) ==
    /\ pc[t] = "reserve"
    /\ \A u \in held : ~Conflict(plan[t].reads, Writes(t), plan[u].reads, Writes(u))
    /\ held' = held \cup {t}
    /\ Goto(t, "reverify")
    /\ UNCHANGED <<files, plan, birth, frames, mode, recovery, faults, crashes>>

(* The guard of the reservation drops when publish returns. *)
Return(t, answer) == held' = held \ {t} /\ Goto(t, answer)

UnchangedSince(t) == \A p \in Dests(t) : disk[p] = Old(t, p)

(* Faulty variant: leaves the reservation to a refused caller. *)
ReverifyKeeping(t) ==
    /\ pc[t] = "reverify"
    /\ Goto(t, IF UnchangedSince(t) THEN "images" ELSE "conflict")
    /\ UNCHANGED <<held, files, plan, birth, frames, mode, recovery, faults, crashes>>
Reverify(t) ==
    /\ pc[t] = "reverify"
    /\ IF UnchangedSince(t) THEN Goto(t, "images") /\ UNCHANGED held ELSE Return(t, "conflict")
    /\ UNCHANGED <<files, plan, birth, frames, mode, recovery, faults, crashes>>

-----------------------------------------------------------------------------
(* decide: images first, then the intent; an error before this returns is  *)
(* answered as a refusal.                                                  *)

StoreImages(t) ==
    /\ pc[t] = "images"
    /\ \E p \in Dests(t) \ images[t] : images' = [images EXCEPT ![t] = @ \cup {p}]
    /\ Goto(t, IF Dests(t) = images'[t] THEN "create" ELSE "images")
    /\ UNCHANGED <<disk, staged, intent, ambiguous, memory, recovery, faults, crashes>>

(* O_EXCL: the file appears empty, and is whole only when written. *)
CreateIntent(t) ==
    /\ pc[t] = "create"
    /\ intent' = [intent EXCEPT ![t] = "torn"]
    /\ Goto(t, "write")
    /\ UNCHANGED <<disk, staged, images, ambiguous, memory, recovery, faults, crashes>>

WriteIntent(t) ==
    /\ pc[t] = "write"
    /\ intent' = [intent EXCEPT ![t] = "decided"]
    /\ Goto(t, "sync")
    /\ UNCHANGED <<disk, staged, images, ambiguous, memory, recovery, faults, crashes>>

SyncIntent(t) ==
    /\ pc[t] = "sync"
    /\ Goto(t, "rename")
    /\ UNCHANGED <<files, memory, recovery, faults, crashes>>

(* Faulty variant: an error leaves the reservation behind. *)
RefuseIoKeeping(t) ==
    /\ pc[t] \in {"reverify", "images", "create", "write", "sync"}
    /\ Fault
    /\ Goto(t, "io")
    /\ UNCHANGED <<held, files, plan, birth, frames, mode, recovery, crashes>>
RefuseIo(t) ==
    /\ pc[t] \in {"reverify", "images", "create", "write", "sync"}
    /\ Fault
    /\ Return(t, "io")
    /\ UNCHANGED <<files, plan, birth, frames, mode, recovery, crashes>>

-----------------------------------------------------------------------------
(* rename_all, StateOwner::apply, finalize, reclaim *)

Rename(t) ==
    /\ pc[t] = "rename"
    /\ \E p \in staged[t] :
         /\ disk' = [disk EXCEPT ![p] = New(t, p)]
         /\ staged' = [staged EXCEPT ![t] = @ \ {p}]
    /\ Goto(t, IF staged'[t] = {} THEN "apply" ELSE "rename")
    /\ UNCHANGED <<images, intent, ambiguous, memory, recovery, faults, crashes>>

Apply(t) ==
    /\ pc[t] = "apply"
    /\ frames' = Append(frames, t)
    /\ Goto(t, "finalize")
    /\ UNCHANGED <<files, plan, held, birth, mode, recovery, faults, crashes>>

(* Faulty variant: reclaims a decided intent and answers. *)
FinalizeSkipped(t) ==
    /\ pc[t] = "finalize"
    /\ Return(t, "acked")
    /\ UNCHANGED <<files, plan, birth, frames, mode, recovery, faults, crashes>>
Finalize(t) ==
    /\ pc[t] = "finalize"
    /\ intent' = [intent EXCEPT ![t] = "applied"]
    /\ Goto(t, "reclaim")
    /\ UNCHANGED <<disk, staged, images, ambiguous, memory, recovery, faults, crashes>>

(* After the decision an error is commit_unknown, and recovery's business: *)
(* the last rename, or the finalized intent, may be there all the same.    *)
CommitUnknown(t) ==
    /\ pc[t] \in {"rename", "apply", "finalize", "reclaim"}
    /\ Fault
    /\ Return(t, "unknown")
    /\ UNCHANGED <<files, plan, birth, frames, mode, recovery, crashes>>

(* reclaim: the intent first, then its images; errors are ignored here. *)
ReclaimIntent(t) ==
    /\ pc[t] = "reclaim"
    /\ intent' = [intent EXCEPT ![t] = "none"]
    /\ Goto(t, "clear")
    /\ UNCHANGED <<disk, staged, images, ambiguous, memory, recovery, faults, crashes>>

ReclaimImages(t) ==
    /\ pc[t] = "clear"
    /\ images' = [images EXCEPT ![t] = {}]
    /\ Return(t, "acked")
    /\ UNCHANGED <<disk, staged, intent, ambiguous, plan, birth, frames, mode, recovery,
                   faults, crashes>>

ReclaimFails(t) ==
    /\ pc[t] \in {"reclaim", "clear"}
    /\ Fault
    /\ Return(t, "acked")
    /\ UNCHANGED <<files, plan, birth, frames, mode, recovery, crashes>>

-----------------------------------------------------------------------------
(* Process death and recovery *)

Ended == {"acked", "conflict", "io", "unknown", "dead"}

(* Planned threads die with the process; only the files remain. *)
Crash ==
    /\ mode # "down" /\ crashes < MaxCrashes
    /\ crashes' = crashes + 1
    /\ mode' = "down"
    /\ pc' = [t \in Txn |-> IF pc[t] \in Ended \cup {"idle"} THEN pc[t] ELSE "dead"]
    /\ held' = {} /\ frames' = <<>>
    /\ found' = {} /\ cur' = NoTxn /\ at' = "next" /\ done' = {}
    /\ UNCHANGED <<files, plan, birth, faults>>

(* recover: one scan, then each intent in turn; one that is torn or cannot *)
(* be read is reported Unknown and stays.                                  *)
Recorded == {t \in Txn : intent[t] \in {"decided", "applied"}}
Scan ==
    /\ mode = "down"
    /\ mode' = "recover"
    /\ \/ found' = Recorded /\ UNCHANGED faults
       \/ \E t \in Recorded : found' = Recorded \ {t} /\ Fault
    /\ UNCHANGED <<files, plan, held, birth, frames, pc, cur, at, done, crashes>>

Class(t, p) ==
    IF disk[p] = Old(t, p) THEN "Old" ELSE IF disk[p] = New(t, p) THEN "New" ELSE "Neither"
Classes(t) == {Class(t, p) : p \in Dests(t)}

(* Faulty variant: takes a mixture for a transaction that never started. *)
OutcomeLenient(t) ==
    IF intent[t] = "applied" THEN "reclaim"
    ELSE IF "Neither" \in Classes(t) THEN "quarantine"
    ELSE IF "Old" \in Classes(t) THEN "reclaim"
    ELSE plan[t].policy

(* Faulty variant: restores around a destination that matches neither. *)
OutcomeForced(t) ==
    IF intent[t] = "applied" THEN "reclaim"
    ELSE IF Classes(t) = {"Old"} THEN "reclaim"
    ELSE plan[t].policy

(* What recover_one does with a decided or applied intent. *)
Outcome(t) ==
    IF intent[t] = "applied" THEN "reclaim"
    ELSE IF "Neither" \in Classes(t) THEN "quarantine"
    ELSE IF Classes(t) = {"Old"} THEN "reclaim"
    ELSE plan[t].policy

Recovering(step) == mode = "recover" /\ at = step

(* Faulty variant: takes up the same intent again. *)
NextIntentAgain == at' = "next" /\ cur' = NoTxn /\ done' = {} /\ UNCHANGED found
NextIntent == at' = "next" /\ cur' = NoTxn /\ done' = {} /\ found' = found \ {cur}

RecoverOne ==
    /\ Recovering("next")
    /\ \E t \in found : cur' = t /\ at' = Outcome(t)
    /\ UNCHANGED <<files, memory, pc, found, done, faults, crashes>>

Quarantine ==
    /\ Recovering("quarantine")
    /\ ambiguous' = ambiguous \cup {cur}
    /\ NextIntent
    /\ UNCHANGED <<disk, staged, images, intent, memory, pc, faults, crashes>>

(* restore_member and forward_member write a whole stored image; a file    *)
(* that was empty or missing is unlinked without one.                      *)
PutBack(policy, last) ==
    /\ Recovering(policy)
    /\ \E p \in Dests(cur) \ done :
         /\ p \in images[cur] \/ (policy = "Restore" /\ Old(cur, p) = <<>>)
         /\ disk' = [disk EXCEPT ![p] = IF policy = "Restore" THEN Old(cur, p) ELSE New(cur, p)]
         /\ done' = done \cup {p}
    /\ at' = IF done' = Dests(cur) THEN last ELSE at
    /\ UNCHANGED <<staged, images, intent, ambiguous, memory, pc, found, cur, faults, crashes>>

RestoreMember == PutBack("Restore", "reclaim")
ForwardMember == PutBack("Forward", "finalize")

FinalizeRecovered ==
    /\ Recovering("finalize")
    /\ intent' = [intent EXCEPT ![cur] = "applied"]
    /\ at' = "reclaim"
    /\ UNCHANGED <<disk, staged, images, ambiguous, memory, pc, found, cur, done, faults, crashes>>

(* Faulty variant: clears the images of an intent that is still there. *)
ReclaimRecoveredBackwards ==
    /\ Recovering("reclaim")
    /\ images' = [images EXCEPT ![cur] = {}]
    /\ at' = "clear"
    /\ UNCHANGED <<disk, staged, intent, ambiguous, memory, pc, found, cur, done, faults, crashes>>
ReclaimRecovered ==
    /\ Recovering("reclaim")
    /\ intent' = [intent EXCEPT ![cur] = "none"]
    /\ at' = "clear"
    /\ UNCHANGED <<disk, staged, images, ambiguous, memory, pc, found, cur, done, faults, crashes>>

ClearRecovered ==
    /\ Recovering("clear")
    /\ images' = [images EXCEPT ![cur] = {}]
    /\ NextIntent
    /\ UNCHANGED <<disk, staged, intent, ambiguous, memory, pc, faults, crashes>>

(* An error ends the recovery, except in reclaim, where it is ignored. *)
RecoveryFails ==
    /\ mode = "recover"
    /\ Fault
    /\ \/ /\ at # "clear" /\ (at = "reclaim" => done # {})
          /\ mode' = "down"
          /\ found' = {} /\ cur' = NoTxn /\ at' = "next" /\ done' = {}
       \/ /\ at \in {"reclaim", "clear"}
          /\ NextIntent /\ UNCHANGED mode
    /\ UNCHANGED <<files, plan, held, birth, frames, pc, crashes>>

(* Admissions open on a state owner born at the current bytes. *)
Open ==
    /\ Recovering("next") /\ found = {}
    /\ mode' = "open"
    /\ birth' = disk
    /\ UNCHANGED <<files, plan, held, frames, pc, recovery, faults, crashes>>

-----------------------------------------------------------------------------
Init ==
    /\ disk = [p \in Path |-> <<>>]
    /\ staged = [t \in Txn |-> {}] /\ images = [t \in Txn |-> {}]
    /\ intent = [t \in Txn |-> "none"] /\ ambiguous = {}
    /\ plan = [t \in Txn |-> NoPlan]
    /\ pc = [t \in Txn |-> "idle"] /\ held = {}
    /\ birth = disk /\ frames = <<>>
    /\ mode = "open"
    /\ found = {} /\ cur = NoTxn /\ at = "next" /\ done = {}
    /\ faults = 0 /\ crashes = 0

Publishing(t) ==
    \/ Reserve(t) \/ Reverify(t) \/ StoreImages(t) \/ CreateIntent(t) \/ WriteIntent(t)
    \/ SyncIntent(t) \/ RefuseIo(t) \/ Rename(t) \/ Apply(t) \/ Finalize(t)
    \/ CommitUnknown(t) \/ ReclaimIntent(t) \/ ReclaimImages(t) \/ ReclaimFails(t)

Recover ==
    \/ Scan \/ RecoverOne \/ Quarantine \/ RestoreMember \/ ForwardMember
    \/ FinalizeRecovered \/ ReclaimRecovered \/ ClearRecovered \/ RecoveryFails \/ Open

Next == Crash \/ Recover \/ \E t \in Txn : Stage(t) \/ Publishing(t)

Spec == Init /\ [][Next]_vars

(* Publishing threads run on, and a process that died is started again and *)
(* recovers.                                                               *)
Fairness == WF_vars(Recover) /\ \A t \in Txn : WF_vars(Publishing(t))
FairSpec == Spec /\ Fairness

-----------------------------------------------------------------------------
TypeOK ==
    /\ disk \in [Path -> Seq({EditOf[t] : t \in Txn})]
    /\ staged \in [Txn -> SUBSET Path] /\ images \in [Txn -> SUBSET Path]
    /\ intent \in [Txn -> {"none", "torn", "decided", "applied"}]
    /\ ambiguous \subseteq Txn
    /\ \A t \in Txn : Dests(t) \subseteq Path /\ plan[t].policy \in {"Restore", "Forward"}
    /\ pc \in [Txn -> Ended \cup {"idle", "reserve", "reverify", "images", "create", "write",
                                  "sync", "rename", "apply", "finalize", "reclaim", "clear"}]
    /\ held = {t \in Txn : pc[t] \notin Ended \cup {"idle", "reserve"}}
    /\ frames \in Seq(Txn)
    /\ mode \in {"open", "down", "recover"}
    /\ found \subseteq Txn /\ cur \in Txn \cup {NoTxn} /\ done \subseteq Path
    /\ at \in {"next", "quarantine", "Restore", "Forward", "finalize", "reclaim", "clear"}

(* Whatever moment the process dies at, and however often recovery itself  *)
(* is cut short, an intent recovery may have to act on has its images, so  *)
(* no restart meets a decided transaction it cannot finish or restore      *)
(* (intent.rs store_images before create_decided, reclaim).                *)
ImagesBacked ==
    \A t \in Txn : intent[t] = "decided" => Dests(t) \subseteq images[t]

(* Admissions are open and t is over without an intent left on disk. *)
Settled(t) == mode = "open" /\ pc[t] \in Ended /\ intent[t] = "none"

(* A transaction that is over is on all of its destinations or on none:    *)
(* publication and recovery leave no silent mixture (publish.rs recover).  *)
AllOrNothing ==
    \A t \in Txn : Settled(t) =>
        {p \in Dests(t) : Contains(disk[p], EditOf[t])} \in {{}, Dests(t)}

(* An acknowledged transaction stays: no destination it wrote is back at   *)
(* the bytes it replaced, after any crash and any recovery (publish.rs     *)
(* finalize before the receipt).                                           *)
AckedKept ==
    \A t \in Txn : pc[t] = "acked" => \A p \in Dests(t) : disk[p] # Old(t, p)

(* The chain of frames the state owner assigned, applied to the bytes it   *)
(* was born on, is what lies on disk wherever no publication is under way  *)
(* or was left unfinished (publish.rs apply inside the reservation).       *)
Applied(p) == SelectSeq(frames, LAMBDA t : p \in Dests(t))
FramesMatchDisk ==
    mode = "open" =>
        \A p \in Path :
            (\A t \in Txn : intent[t] = "decided" => p \notin Dests(t)) =>
                disk[p] = birth[p] \o [i \in DOMAIN Applied(p) |-> EditOf[Applied(p)[i]]]

(* What a transaction relied on reading is not written by another one      *)
(* while it holds its reservation (publish.rs spatial_intersect).          *)
Footprint(r) ==
    CASE r.extent = "root" -> Path
      [] r.extent = "folder" -> {p \in Path : IsPrefix(r.at, p)}
      [] r.extent = "file" -> {r.at}
      [] OTHER -> {Edge(r)}
Undisturbed ==
    \A t \in held \cap held' : \A r \in plan[t].reads :
        \A p \in (Footprint(r) \cap Path) \ Dests(t) : disk'[p] = disk[p]
PremisesStand == [][Undisturbed]_vars

(* Without I/O errors, publication implements an atomic store, whatever    *)
(* crashes and recoveries interrupt it.  A decided transaction counts from *)
(* its finalization under Restore, from its first rename under Forward.    *)
Effective(t) == plan[t].policy = "Forward" /\ \E p \in Dests(t) : disk[p] = New(t, p)
Stored(p) ==
    LET open == {t \in Txn : intent[t] = "decided" /\ p \in Dests(t)}
    IN  IF open = {} THEN disk[p]
        ELSE LET t == CHOOSE u \in open : TRUE
             IN  IF Effective(t) THEN New(t, p) ELSE Old(t, p)
Atomic == INSTANCE AtomicStore WITH
    store <- [p \in Path |-> Stored(p)], acked <- {t \in Txn : pc[t] = "acked"}
ImplementsAtomicStore == Atomic!Spec

(* Overlapping callers wait inside the authority, and none waits forever.  *)
WaitEnds == \A t \in Txn : pc[t] = "reserve" ~> pc[t] # "reserve"

(* Every restart reaches open admissions again. *)
RecoveryEnds == mode = "down" ~> mode = "open"
=============================================================================
