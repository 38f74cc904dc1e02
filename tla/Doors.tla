------------------------------- MODULE Doors -------------------------------
(***************************************************************************)
(* The write doors of a workspace (crates/wire-serve/src/write.rs and      *)
(* relocate.rs, crates/run/src/executor.rs) over the atomic file commits   *)
(* of crates/fs/src/lib.rs: splice, splice_set, lock_write, create,        *)
(* remove, relocate and the apply of a run.  Each call is a thread or a    *)
(* process of its own, an action is one read, one lock operation or one    *)
(* rename, and a call may die between any two; editors take no lock.       *)
(*                                                                         *)
(* Abstractions.  A page is None or a set of marks: the calls whose edits  *)
(* it carries, the pages it links to, and an editor's.  Every edit has a   *)
(* section of its own, so nobody's edit makes another one's target stale.  *)
(* Staging is left out: temps are aside, and failing there lands nothing.  *)
(* So are dry runs, the policies a door asks, and a run's birth lane, each *)
(* birth of which is a create call made before the run reads its page.     *)
(***************************************************************************)
EXTENDS Integers, Sequences, FiniteSets, SequencesExt

CONSTANTS
    Call,           \* calls at a door
    Page, Receipt,  \* page paths, and the receipt file
    None, Editor,
    Requests,       \* what a call may ask
    Start,          \* the pages at first
    FaultKinds,     \* subset of {"rename", "sync"}: where a landing may fail
    MaxFaults, MaxCrashes, MaxEdits

ASSUME DoorsAssumption ==
    /\ Receipt \notin Page /\ Editor \notin Page /\ None \notin Call
    /\ Start \in [Page -> {None} \cup SUBSET (Page \cup {Editor})]
    /\ IsFiniteSet(Page)
    /\ \A r \in Requests : r.pages[1] \in Page
    \* relocate refuses a NEW that is OLD before it looks at anything
    /\ \A r \in Requests : r.door = "relocate" => r.to \in Page \ {r.pages[1]}

ASSUME RequestsAssumption ==
    /\ Call \cap (Page \cup {Editor}) = {}
    /\ \A S \in SUBSET (Call \cup Page \cup {Editor}) : S # None
    \* the members of a set are distinct, and it mints no pin
    /\ \A r \in Requests :
           /\ r.pages \in Seq(Page) \ {<<>>} /\ IsInjective(r.pages)
           /\ r.links \subseteq Page /\ r.to \in Page \cup {None}
           /\ r.door \in {"create", "lock_write"} => Len(r.pages) = 1
           /\ r.door = "set" => r.to = None

VARIABLES
    disk,           \* [File -> None or marks]
    writeLock,      \* .meridian/write.lock
    runLock,        \* .meridian/run.lock
    pc, req,        \* where a call is, and what it asks
    image,          \* the pre-images a commit is composed on
    todo, done,     \* files to land in order, and how many have landed
    answer,         \* what the call was told
    removed,        \* [Page -> the marks that went with it]
    faults,         \* the failures: what call met, of what kind, at what file
    crashes, edits

vars == <<disk, writeLock, runLock, pc, req, image, todo, done, answer, removed,
          faults, crashes, edits>>
callVars == <<req, image, todo, done>>
bounds == <<faults, crashes, edits>>

File == Page \cup {Receipt}
Nothing == [f \in File |-> None]
Marks(x) == IF x = None THEN {} ELSE x
NoAsk == [door |-> "none", pages |-> <<>>, births |-> {}, links |-> {},
          receipt |-> FALSE, to |-> None, armed |-> FALSE]

-----------------------------------------------------------------------------
Goto(c, p) == pc' = [pc EXCEPT ![c] = p]

(* A call answers: its locks go, and what it held in memory. *)
Finish(c, a) ==
    /\ Goto(c, "done")
    /\ answer' = [answer EXCEPT ![c] = a]
    /\ image' = [image EXCEPT ![c] = Nothing]
    /\ todo' = [todo EXCEPT ![c] = <<>>]
    /\ done' = [done EXCEPT ![c] = 0]
    /\ writeLock' = IF writeLock = c THEN None ELSE writeLock
    /\ runLock' = IF runLock = c THEN None ELSE runLock
    /\ UNCHANGED req

Refuse(c, a) == Finish(c, a) /\ UNCHANGED <<disk, removed, bounds>>

(* The step leaves files and locks alone. *)
Quiet == UNCHANGED <<disk, writeLock, runLock, answer, removed, bounds>>

(* Faulty variant: the receipt is landed before the members. *)
OrderReceiptFirst(r) == IF r.receipt THEN <<Receipt>> \o r.pages ELSE r.pages
(* The members a commit lands, then the receipt. *)
Order(r) == IF r.receipt THEN Append(r.pages, Receipt) ELSE r.pages

-----------------------------------------------------------------------------
(* Asking *)

(* A caller of remove or lock_write read the page first: if_file_rev is of *)
(* that read.                                                              *)
(* relocate looks at OLD and NEW before it takes any lock.                 *)
Ask(c, r) ==
    /\ pc[c] = "idle"
    /\ req' = [req EXCEPT ![c] = r]
    /\ image' = IF r.door \in {"remove", "lock_write"}
                THEN [image EXCEPT ![c][r.pages[1]] = disk[r.pages[1]]] ELSE image
    /\ Goto(c, CASE r.door = "relocate" -> "probe" [] r.door = "run" -> "run" [] OTHER -> "lock")
    /\ UNCHANGED <<todo, done>> /\ Quiet

Old(c) == req[c].pages[1]    \* the page of a call that has one
New(c) == req[c].to

ProbeMove(c) ==
    /\ pc[c] = "probe" /\ disk[Old(c)] # None /\ disk[New(c)] = None
    /\ Goto(c, "lock")
    /\ UNCHANGED callVars /\ Quiet

RefuseMove(c) ==
    /\ pc[c] = "probe" /\ (disk[Old(c)] = None \/ disk[New(c)] # None)
    /\ Refuse(c, "refused")

(* WorkspaceLock::acquire: refused at once when another run holds it. *)
TakeRunLock(c) ==
    /\ pc[c] = "run" /\ runLock = None
    /\ runLock' = c
    /\ Goto(c, "load")
    /\ UNCHANGED <<disk, writeLock, callVars, answer, removed, bounds>>

(* The run reads its page and then renders its receipt under run.lock      *)
(* alone; write.lock is taken for the commit, when a frame sink is armed.  *)
LoadRun(c) ==
    /\ pc[c] = "load" /\ disk[Old(c)] # None
    /\ image' = [image EXCEPT ![c][Old(c)] = disk[Old(c)]]
    /\ todo' = [todo EXCEPT ![c] = Order(req[c])]
    /\ Goto(c, "render")
    /\ UNCHANGED <<req, done>> /\ Quiet

RenderRun(c) ==
    /\ pc[c] = "render"
    /\ image' = [image EXCEPT ![c][Receipt] = disk[Receipt]]
    /\ Goto(c, IF req[c].armed THEN "bracket" ELSE "verify")
    /\ UNCHANGED <<req, todo, done>> /\ Quiet

LoadMissing(c) == pc[c] = "load" /\ disk[Old(c)] = None /\ Refuse(c, "refused")

(* Faulty variant: a create does not take the lock. *)
LockFreeBirth(c) == writeLock = None \/ req[c].door = "create"
(* Faulty variant: a run does not wait for the lock. *)
LockFreeRun(c) == writeLock = None \/ req[c].door = "run"
LockFree(c) == writeLock = None

(* WriteLock::acquire: a door never waits for it, a run does for a while. *)
TakeWriteLock(c) ==
    /\ pc[c] \in {"lock", "bracket"} /\ LockFree(c)
    /\ writeLock' = c
    /\ Goto(c, IF pc[c] = "bracket" THEN "verify"
               ELSE IF req[c].door \in {"create", "remove", "lock_write"} THEN "check"
               ELSE IF req[c].door = "relocate" THEN "plan" ELSE "read")
    /\ UNCHANGED <<disk, runLock, callVars, answer, removed, bounds>>

Busy(c) ==
    /\ \/ pc[c] \in {"lock", "bracket"} /\ ~LockFree(c)
       \/ pc[c] = "run" /\ runLock # None
    /\ Refuse(c, "busy")

-----------------------------------------------------------------------------
(* Reading and judging, under the write lock *)

Members(c) == {req[c].pages[i] : i \in DOMAIN req[c].pages}
Missing(c) == \E p \in Members(c) \ req[c].births : disk[p] = None

(* splice and splice_set read the pages and ask their policies; a pin also *)
(* reads the target it will put an anchor on.                              *)
Judge(c) ==
    LET t == req[c].to
    IN  /\ pc[c] = "read" /\ ~Missing(c) /\ (t # None => disk[t] # None)
        /\ image' = IF t = None THEN image ELSE [image EXCEPT ![c][t] = disk[t]]
        /\ Goto(c, IF t = None THEN "compose" ELSE "promote")
        /\ UNCHANGED <<req, todo, done>> /\ Quiet

JudgeMissing(c) ==
    /\ pc[c] = "read"
    /\ Missing(c) \/ (req[c].to # None /\ disk[req[c].to] = None)
    /\ Refuse(c, "refused")

(* commit_batch and commit_set read the pages again: what they now hold is *)
(* what the edits are spliced into.                                        *)
Compose(c) ==
    /\ pc[c] = "compose" /\ ~Missing(c)
    /\ image' = [image EXCEPT ![c] = [f \in File |->
                    IF f \in Members(c) \ req[c].births \/ f = Receipt THEN disk[f] ELSE None]]
    /\ todo' = [todo EXCEPT ![c] = Order(req[c])]
    /\ Goto(c, "verify")
    /\ UNCHANGED <<req, done>> /\ Quiet

ComposeMissing(c) == pc[c] = "compose" /\ Missing(c) /\ Refuse(c, "io")

(* Faulty variant: only the receipt is verified. *)
UnmovedReceipt(c) == disk[Receipt] = image[c][Receipt]
(* verify_pre_images: all of them, before the first rename. *)
Unmoved(c) == \A i \in DOMAIN todo[c] : disk[todo[c][i]] = image[c][todo[c][i]]

VerifyOk(c) ==
    /\ pc[c] = "verify" /\ Unmoved(c)
    /\ Goto(c, "land")
    /\ UNCHANGED callVars /\ Quiet

VerifyConflict(c) == pc[c] = "verify" /\ ~Unmoved(c) /\ Refuse(c, "conflict")

(* create_file looks whether the path is free, stages and renames. *)
CheckCreate(c) ==
    /\ pc[c] = "check" /\ req[c].door = "create" /\ disk[Old(c)] = None
    /\ todo' = [todo EXCEPT ![c] = req[c].pages]
    /\ Goto(c, "land")
    /\ UNCHANGED <<req, image, done>> /\ Quiet

CheckOccupied(c) ==
    /\ pc[c] = "check" /\ req[c].door = "create" /\ disk[Old(c)] # None
    /\ Refuse(c, "conflict")

(* remove and lock_write: the page is as their caller read it.  lock_write *)
(* lands over what the page holds by then: replace_file compares nothing.  *)
AsRead(c) == disk[Old(c)] # None /\ disk[Old(c)] = image[c][Old(c)]

CheckLockWrite(c) ==
    /\ pc[c] = "check" /\ req[c].door = "lock_write" /\ AsRead(c)
    /\ todo' = [todo EXCEPT ![c] = req[c].pages]
    /\ Goto(c, "land")
    /\ UNCHANGED <<req, image, done>> /\ Quiet

(* remove: and nothing else refers to it. *)
Referrers(p, d) == {q \in Page \ {p} : d[q] # None /\ p \in d[q]}

CheckRemove(c) ==
    /\ pc[c] = "check" /\ req[c].door = "remove"
    /\ AsRead(c) /\ Referrers(Old(c), disk) = {}
    /\ Goto(c, "unlink")
    /\ UNCHANGED callVars /\ Quiet

CheckRefused(c) ==
    /\ pc[c] = "check"
    /\ \/ req[c].door \in {"remove", "lock_write"} /\ ~AsRead(c)
       \/ req[c].door = "remove" /\ Referrers(Old(c), disk) # {}
    /\ Refuse(c, "refused")

(* relocate reads the corpus and plans a rewrite of every referring page. *)
PlanMove(c) ==
    LET pages == {q \in Page : disk[q] # None /\ Old(c) \in disk[q]}
    IN  /\ pc[c] = "plan"
        /\ image' = [image EXCEPT ![c] = disk]
        /\ todo' = [todo EXCEPT ![c] = SetToSeq(pages)]
        /\ Goto(c, IF pages = {} THEN "move" ELSE "land")
        /\ UNCHANGED <<req, done>> /\ Quiet

-----------------------------------------------------------------------------
(* Landing: temps are renamed onto their files one by one.  A landing      *)
(* fails at the rename, or at the sync of the directory after it.          *)

Candidate(c, f) ==
    IF req[c].door = "relocate" THEN (image[c][f] \ {Old(c)}) \cup {New(c)}
    ELSE IF f = Receipt THEN Marks(image[c][f]) \cup {c}
    ELSE Marks(image[c][f]) \cup {c} \cup req[c].links

NextFile(c) == todo[c][done[c] + 1]

(* A landing of x on f fails, and what it leaves. *)
Fails(c, kind, f) ==
    /\ kind \in FaultKinds /\ Cardinality(faults) < MaxFaults
    /\ faults' = faults \cup {<<c, kind, f>>}
Struck(kind, f, x) == disk' = IF kind = "sync" THEN [disk EXCEPT ![f] = x] ELSE disk

(* replace_file for the promoted anchor: no pre-image is compared. *)
Promote(c) ==
    /\ pc[c] = "promote"
    /\ disk' = [disk EXCEPT ![req[c].to] = image[c][req[c].to] \cup {c}]
    /\ Goto(c, "compose")
    /\ UNCHANGED <<callVars, writeLock, runLock, answer, removed, bounds>>

PromoteFails(c, kind) ==
    /\ pc[c] = "promote" /\ Fails(c, kind, req[c].to)
    /\ Struck(kind, req[c].to, image[c][req[c].to] \cup {c})
    /\ Finish(c, "io")
    /\ UNCHANGED <<removed, crashes, edits>>

LandNext(c) ==
    /\ pc[c] = "land" /\ done[c] + 1 < Len(todo[c])
    /\ disk' = [disk EXCEPT ![NextFile(c)] = Candidate(c, NextFile(c))]
    /\ done' = [done EXCEPT ![c] = @ + 1]
    /\ UNCHANGED <<pc, req, image, todo, writeLock, runLock, answer, removed, bounds>>

LandLast(c) ==
    /\ pc[c] = "land" /\ done[c] + 1 = Len(todo[c])
    /\ disk' = [disk EXCEPT ![NextFile(c)] = Candidate(c, NextFile(c))]
    /\ IF req[c].door = "relocate"
       THEN Goto(c, "move") /\ UNCHANGED <<callVars, writeLock, runLock, answer>>
       ELSE Finish(c, "ok")
    /\ UNCHANGED <<removed, bounds>>

(* Faulty variant: a member that landed alone is not put back. *)
RollsBackTwo(c) == req[c].door = "set" /\ done[c] > 1
(* Only a set rolls back, and only what landed before the failing member. *)
RollsBack(c) == req[c].door = "set" /\ done[c] > 0

LandFails(c, kind) ==
    /\ pc[c] = "land" /\ Fails(c, kind, NextFile(c))
    /\ Struck(kind, NextFile(c), Candidate(c, NextFile(c)))
    /\ IF RollsBack(c)
       THEN Goto(c, "restore") /\ UNCHANGED <<callVars, writeLock, runLock, answer>>
       ELSE Finish(c, "io")
    /\ UNCHANGED <<removed, crashes, edits>>

(* restore_renamed puts the pre-images back, last landed first; a restore  *)
(* that fails is named in the error, and the others are still tried.  The  *)
(* pre-image of a birth is absence: removing it fails when it is gone.     *)
AfterRestore(c, a) ==
    IF done[c] > 1
    THEN /\ done' = [done EXCEPT ![c] = @ - 1]
         /\ answer' = [answer EXCEPT ![c] = a]
         /\ UNCHANGED <<pc, req, image, todo, writeLock, runLock>>
    ELSE Finish(c, IF a = "incomplete" THEN a ELSE "io")

LastFile(c) == todo[c][done[c]]
Gone(c) == disk[LastFile(c)] = None /\ image[c][LastFile(c)] = None

Restore(c) ==
    /\ pc[c] = "restore" /\ ~Gone(c)
    /\ disk' = [disk EXCEPT ![LastFile(c)] = image[c][LastFile(c)]]
    /\ AfterRestore(c, answer[c])
    /\ UNCHANGED <<removed, bounds>>

RestoreGone(c) ==
    /\ pc[c] = "restore" /\ Gone(c)
    /\ AfterRestore(c, "incomplete")
    /\ UNCHANGED <<disk, removed, bounds>>

RestoreFails(c, kind) ==
    /\ pc[c] = "restore" /\ ~Gone(c) /\ Fails(c, kind, LastFile(c))
    /\ Struck(kind, LastFile(c), image[c][LastFile(c)])
    /\ AfterRestore(c, "incomplete")
    /\ UNCHANGED <<removed, crashes, edits>>

Unlink(c) ==
    /\ pc[c] = "unlink" /\ disk[Old(c)] # None
    /\ disk' = [disk EXCEPT ![Old(c)] = None]
    /\ removed' = [removed EXCEPT ![Old(c)] = @ \cup image[c][Old(c)]]
    /\ Finish(c, "ok")
    /\ UNCHANGED bounds

UnlinkGone(c) == pc[c] = "unlink" /\ disk[Old(c)] = None /\ Refuse(c, "io")

UnlinkFails(c, kind) ==
    /\ pc[c] = "unlink" /\ disk[Old(c)] # None /\ Fails(c, kind, Old(c))
    /\ Struck(kind, Old(c), None)
    /\ removed' = IF kind = "sync" THEN [removed EXCEPT ![Old(c)] = @ \cup image[c][Old(c)]]
                  ELSE removed
    /\ Finish(c, "io")
    /\ UNCHANGED <<crashes, edits>>

(* The rename of OLD is the last act; it takes what is at OLD now, and     *)
(* replaces what is at NEW now.                                            *)
Moved(c) == [disk EXCEPT ![New(c)] = disk[Old(c)], ![Old(c)] = None]
\* What was taken away earlier is told apart by path: it changes places.
Renamed(c) == [removed EXCEPT ![New(c)] = removed[Old(c)], ![Old(c)] = removed[New(c)]]

Move(c) ==
    /\ pc[c] = "move" /\ disk[Old(c)] # None
    /\ disk' = Moved(c) /\ removed' = Renamed(c)
    /\ Finish(c, "ok")
    /\ UNCHANGED bounds

MoveGone(c) == pc[c] = "move" /\ disk[Old(c)] = None /\ Refuse(c, "io")

MoveFails(c, kind) ==
    /\ pc[c] = "move" /\ disk[Old(c)] # None /\ Fails(c, kind, Old(c))
    /\ IF kind = "sync" THEN disk' = Moved(c) /\ removed' = Renamed(c)
       ELSE UNCHANGED <<disk, removed>>
    /\ Finish(c, "io")
    /\ UNCHANGED <<crashes, edits>>

-----------------------------------------------------------------------------
(* The process of a call dies: the kernel drops its locks. *)
Crash(c) ==
    /\ pc[c] \notin {"idle", "done"} /\ crashes < MaxCrashes
    /\ crashes' = crashes + 1
    /\ Finish(c, "died")
    /\ UNCHANGED <<disk, removed, faults, edits>>

(* An editor writes or deletes a page, whatever locks are held. *)
Edit(p) ==
    /\ disk[p] # None /\ edits < MaxEdits
    /\ edits' = edits + 1
    /\ \/ disk' = [disk EXCEPT ![p] = @ \cup {Editor}] /\ UNCHANGED removed
       \/ disk' = [disk EXCEPT ![p] = None] /\ removed' = [removed EXCEPT ![p] = @ \cup disk[p]]
    /\ UNCHANGED <<writeLock, runLock, pc, callVars, answer, faults, crashes>>

Init ==
    /\ disk = [f \in File |-> IF f = Receipt THEN None ELSE Start[f]]
    /\ writeLock = None /\ runLock = None
    /\ pc = [c \in Call |-> "idle"]
    /\ req = [c \in Call |-> NoAsk]
    /\ image = [c \in Call |-> Nothing]
    /\ todo = [c \in Call |-> <<>>] /\ done = [c \in Call |-> 0]
    /\ answer = [c \in Call |-> "none"]
    /\ removed = [p \in Page |-> {}]
    /\ faults = {} /\ crashes = 0 /\ edits = 0

Step(c) ==
    \/ \E r \in Requests : Ask(c, r)
    \/ ProbeMove(c) \/ RefuseMove(c)
    \/ TakeRunLock(c) \/ LoadRun(c) \/ LoadMissing(c) \/ RenderRun(c)
    \/ TakeWriteLock(c) \/ Busy(c)
    \/ Judge(c) \/ JudgeMissing(c) \/ Compose(c) \/ ComposeMissing(c)
    \/ VerifyOk(c) \/ VerifyConflict(c)
    \/ CheckCreate(c) \/ CheckOccupied(c) \/ CheckRemove(c)
    \/ CheckLockWrite(c) \/ CheckRefused(c)
    \/ PlanMove(c) \/ Promote(c) \/ LandNext(c) \/ LandLast(c) \/ Restore(c)
    \/ RestoreGone(c) \/ Unlink(c) \/ UnlinkGone(c) \/ Move(c) \/ MoveGone(c)
    \/ \E kind \in FaultKinds : \/ PromoteFails(c, kind) \/ LandFails(c, kind)
                                \/ RestoreFails(c, kind) \/ UnlinkFails(c, kind)
                                \/ MoveFails(c, kind)
    \/ Crash(c)

Next == (\E c \in Call : Step(c)) \/ \E p \in Page : Edit(p)

Spec == Init /\ [][Next]_vars

-----------------------------------------------------------------------------
(* Properties *)

Mark == Call \cup Page \cup {Editor}
Busied == {"probe", "run", "load", "render", "lock", "bracket", "read", "promote", "compose", "verify",
           "check", "unlink", "plan", "land", "restore", "move"}

(* Every variable has its type, and a lock names a call at work (write.rs  *)
(* acquire_write_lock, executor.rs WorkspaceLock: a guard dropped with it). *)
TypeOK ==
    /\ disk \in [File -> {None} \cup SUBSET Mark]
    /\ {writeLock, runLock} \subseteq {None} \cup {c \in Call : pc[c] \in Busied}
    /\ pc \in [Call -> {"idle", "done"} \cup Busied]
    /\ removed \in [Page -> SUBSET Mark]
    /\ faults \subseteq Call \X FaultKinds \X File
    /\ \A c \in Call : todo[c] \in Seq(File) /\ done[c] \in 0 .. Len(todo[c])

Bearing(c) == {p \in Page : c \in Marks(disk[p]) \cup removed[p]}
Landed(c) == Cardinality(Bearing(c)) >= Len(req[c].pages)

Writes == {"splice", "set", "create", "lock_write", "run"}

(* An edit a door or a run acknowledged is in its pages for as long as     *)
(* nobody takes the page away: no later splice, set, rollback, run or move *)
(* writes an older image over it (fs apply_batch's pre-image verify, the   *)
(* write lock of the doors and of an armed run's apply).                   *)
AckedStays == \A c \in Call : answer[c] = "ok" /\ req[c].door \in Writes => Landed(c)

(* A receipt row in the receipt file says that the whole set landed, also  *)
(* after a crash or a rollback (fs StagedSet::commit renames it last).  Of *)
(* a splice_set the row may also be one that was renamed into place before *)
(* its directory failed to sync: the members are then put back under it.   *)
ReceiptMeansLanded ==
    \A c \in Call : c \in Marks(disk[Receipt]) =>
        Landed(c) \/ (req[c].door = "set" /\ <<c, "sync", Receipt>> \in faults)

(* A splice_set is all or nothing when its process lives: acknowledged, it *)
(* is in every page; refused or rolled back, in none, but for one member   *)
(* at most, the one whose directory failed to sync after its rename: the   *)
(* rollback begins before it (fs apply_set).  A rollback of which a step   *)
(* failed says so.                                                         *)
Lapsed(c) == \E p \in Page : <<c, "sync", p>> \in faults
SetAllOrNone ==
    \A c \in Call : req[c].door = "set" =>
        /\ answer[c] = "ok" => Landed(c)
        /\ answer[c] \in {"io", "conflict", "refused", "busy"} =>
               \A p \in Page : c \in Marks(disk[p]) =>
                   Lapsed(c) /\ \A q \in Page \ {p} : c \notin Marks(disk[q])

(* remove never strands a link: nothing refers to the page that it unlinks *)
(* when it does (write.rs remove_with_cache looks under the write lock).   *)
NoStranding ==
    [][\A c \in Call : pc[c] = "unlink" /\ answer'[c] = "ok" =>
           Referrers(Old(c), disk) = {}]_vars

(* An acknowledged relocate is a whole move: the page is at NEW and not at *)
(* OLD, no page refers to OLD, and each that did when the move was planned *)
(* refers to NEW (relocate.rs: rewrites first, the rename is the last act; *)
(* a page that stood at NEW by then is replaced, not rewritten).           *)
MoveWhole ==
    [][\A c \in Call : req[c].door = "relocate" /\ answer[c] = "none" /\ answer'[c] = "ok" =>
           /\ disk'[New(c)] # None /\ disk'[Old(c)] = None
           /\ \A q \in Page \ {Old(c)} : disk'[q] # None =>
                  /\ Old(c) \notin disk'[q]
                  /\ q # New(c) /\ Old(c) \in Marks(image[c][q]) => New(c) \in disk'[q]]_vars

(* relocate.rs: "the destination of a move must not exist" and under the   *)
(* flock "no cooperating writer interleaves".                              *)
MoveOntoNothing ==
    [][\A c \in Call : pc[c] = "move" /\ answer'[c] = "ok" => disk[New(c)] = None]_vars
=============================================================================
