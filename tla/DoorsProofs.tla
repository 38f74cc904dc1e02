---------------------------- MODULE DoorsProofs ----------------------------
(***************************************************************************)
(* For any calls, pages and requests whose runs are armed: a page at which *)
(* a remove is about to strike is referred to by nothing, whatever other   *)
(* calls and editors did since the remove looked; a move that is           *)
(* acknowledged is whole; what is acknowledged stays landed; a receipt row *)
(* means that everything landed; and a set is all or nothing.              *)
(*                                                                         *)
(* The invariant of a move follows the list of pages it still owes a       *)
(* rewrite.  While the move holds the write lock nobody adds a link to     *)
(* OLD, so that a page refers to OLD only while it is owed, and one that   *)
(* did at the plan is owed, deleted, or refers to NEW.                     *)
(* That of landings says that the pre-image which a call writes over a     *)
(* file has every call's mark the file has, from its look to its rename.   *)
(***************************************************************************)
EXTENDS Doors, TLAPS, FiniteSetTheorems

(* Every run has a frame sink, so that it commits under write.lock. *)
ArmedRuns == \A r \in Requests : r.door = "run" => r.armed

Locked == {"read", "promote", "compose", "verify", "check", "unlink", "plan", "land",
           "restore", "move"}

Shape ==
    /\ pc \in [Call -> {"idle", "done"} \cup Busied]
    /\ req = [c \in Call |-> req[c]]
    /\ disk = [f \in File |-> disk[f]]

RunsArmed == \A c \in Call : pc[c] \in {"run", "load", "render"} => req[c].armed

LockHeld == \A c \in Call : pc[c] \in Locked => writeLock = c

Unreferred == \A c \in Call : pc[c] = "unlink" => Referrers(Old(c), disk) = {}

Paged == \A c \in Call : pc[c] # "idle" => Old(c) \in Page

IInv == Shape /\ RunsArmed /\ LockHeld /\ Paged /\ Unreferred

-----------------------------------------------------------------------------
LEMMA InitHolds == Init => IInv
BY DEF Init, IInv, Shape, RunsArmed, LockHeld, Paged, Unreferred, Locked

(* Who changes files holds the write lock, so nobody else is at "unlink". *)
LEMMA OthersKept ==
    ASSUME IInv, NEW c \in Call, NEW d \in Call \ {c}, pc[d] = "unlink",
           req'[d] = req[d],
           disk' = disk \/ pc[c] \in Locked
    PROVE  Referrers(Old(d), disk)' = {}
<1>1. writeLock = d
  BY DEF IInv, LockHeld, Locked
<1>2. disk' = disk
  BY <1>1 DEF IInv, LockHeld
<1> QED BY <1>2 DEF IInv, Unreferred, Referrers, Old

(* A call goes on to q: with the write lock only if it has it, along a run *)
(* only if it is armed, and to "unlink" only past an empty referrer list.  *)
LEMMA Advances ==
    ASSUME IInv, NEW c \in Call, NEW q \in {"done"} \cup Busied, pc[c] # "idle",
           pc' = [pc EXCEPT ![c] = q], UNCHANGED <<req, writeLock>>,
           \/ disk' = disk
           \/ pc[c] \in Locked /\ disk' = [f \in File |-> disk'[f]],
           q \in Locked => pc[c] \in Locked,
           q \in {"run", "load", "render"} => req[c].armed,
           q = "unlink" => Referrers(Old(c), disk)' = {}
    PROVE  IInv'
<1>1. Shape'
  BY DEF IInv, Shape
<1>2. RunsArmed'
  BY DEF IInv, Shape, RunsArmed
<1>3. LockHeld'
  BY DEF IInv, Shape, LockHeld
<1>4. Paged'
  BY DEF IInv, Shape, Paged, Old
<1>5. Unreferred'
  <2> SUFFICES ASSUME NEW d \in Call, pc'[d] = "unlink"
               PROVE  Referrers(Old(d), disk)' = {}
    BY DEF Unreferred
  <2>1. CASE d = c
    BY <2>1 DEF IInv, Shape
  <2>2. CASE d # c
    BY <2>2, OthersKept DEF IInv, Shape
  <2> QED BY <2>1, <2>2
<1> QED BY <1>1, <1>2, <1>3, <1>4, <1>5 DEF IInv

(* A call answers, whether or not it changed a file by its last act. *)
LEMMA Finishes ==
    ASSUME IInv, NEW c \in Call, NEW a, Finish(c, a), pc[c] # "idle",
           \/ disk' = disk
           \/ pc[c] \in Locked /\ disk' = [f \in File |-> disk'[f]]
    PROVE  IInv'
<1> USE DoorsAssumption
<1>1. /\ pc' = [pc EXCEPT ![c] = "done"] /\ req' = req
      /\ writeLock' = IF writeLock = c THEN None ELSE writeLock
  BY DEF Finish, Goto
<1>2. Shape'
  BY <1>1 DEF IInv, Shape
<1>3. RunsArmed'
  BY <1>1 DEF IInv, Shape, RunsArmed
<1>4. LockHeld'
  BY <1>1 DEF IInv, Shape, LockHeld, Locked
<1>5. Paged'
  BY <1>1 DEF IInv, Shape, Paged, Old
<1>6. Unreferred'
  <2> SUFFICES ASSUME NEW d \in Call, pc'[d] = "unlink"
               PROVE  Referrers(Old(d), disk)' = {}
    BY DEF Unreferred
  <2>1. d # c /\ pc[d] = "unlink"
    BY <1>1 DEF IInv, Shape
  <2> QED BY <1>1, <2>1, OthersKept
<1> QED BY <1>2, <1>3, <1>4, <1>5, <1>6 DEF IInv

-----------------------------------------------------------------------------
(* Asking, and the locks *)

LEMMA AskKeeps ==
    ASSUME ArmedRuns, IInv, NEW c \in Call, NEW r \in Requests, Ask(c, r)
    PROVE  IInv'
<1> DEFINE q == CASE r.door = "relocate" -> "probe" [] r.door = "run" -> "run"
                  [] OTHER -> "lock"
<1>1. /\ pc' = [pc EXCEPT ![c] = q] /\ req' = [req EXCEPT ![c] = r]
      /\ disk' = disk /\ writeLock' = writeLock
  BY DEF Ask, Goto, Quiet
<1>2. q \in {"probe", "run", "lock"} /\ (q = "run" => r.armed)
  BY DEF ArmedRuns
<1> HIDE DEF q
<1>3. Shape'
  BY <1>1, <1>2 DEF IInv, Shape, Busied
<1>4. RunsArmed'
  BY <1>1, <1>2 DEF IInv, Shape, RunsArmed
<1>5. LockHeld'
  BY <1>1, <1>2 DEF IInv, Shape, LockHeld, Locked
<1>6. Paged'
  BY <1>1, DoorsAssumption DEF IInv, Shape, Paged, Old
<1>7. Unreferred'
  BY <1>1, <1>2 DEF IInv, Shape, Unreferred, Referrers, Old
<1> QED BY <1>3, <1>4, <1>5, <1>6, <1>7 DEF IInv

LEMMA LockKeeps ==
    ASSUME IInv, NEW c \in Call, TakeWriteLock(c)
    PROVE  IInv'
<1> USE DoorsAssumption
<1> PICK q \in {"verify", "check", "plan", "read"} : pc' = [pc EXCEPT ![c] = q]
  BY DEF TakeWriteLock, Goto
<1>1. /\ writeLock = None /\ writeLock' = c /\ req' = req /\ disk' = disk
  BY DEF TakeWriteLock, LockFree, callVars
<1>2. \A d \in Call : pc[d] \notin Locked
  BY <1>1 DEF IInv, LockHeld
<1>3. Shape'
  BY <1>1 DEF IInv, Shape, Busied
<1>4. RunsArmed'
  BY <1>1 DEF IInv, Shape, RunsArmed
<1>5. LockHeld'
  BY <1>1, <1>2 DEF IInv, Shape, LockHeld
<1>6. Paged'
  BY <1>1 DEF IInv, Shape, Paged, Old, TakeWriteLock
<1>7. Unreferred'
  BY <1>1, <1>2 DEF IInv, Shape, Unreferred, Locked
<1> QED BY <1>3, <1>4, <1>5, <1>6, <1>7 DEF IInv

LEMMA RunKeeps ==
    ASSUME IInv, NEW c \in Call, TakeRunLock(c) \/ LoadRun(c) \/ RenderRun(c)
    PROVE  IInv'
<1>1. req[c].armed /\ pc[c] # "idle"
  BY DEF TakeRunLock, LoadRun, RenderRun, IInv, RunsArmed
<1>2. UNCHANGED <<req, writeLock, disk>>
  BY DEF TakeRunLock, LoadRun, RenderRun, Quiet, callVars
<1>3. \E q \in {"load", "render", "bracket"} : pc' = [pc EXCEPT ![c] = q]
  BY <1>1 DEF TakeRunLock, LoadRun, RenderRun, Goto
<1> QED BY <1>1, <1>2, <1>3, Advances DEF Busied, Locked

-----------------------------------------------------------------------------
(* Reading, checking and landing under the write lock *)

LEMMA ReadKeeps ==
    ASSUME IInv, NEW c \in Call,
           ProbeMove(c) \/ Judge(c) \/ Compose(c) \/ VerifyOk(c) \/ CheckCreate(c)
               \/ CheckLockWrite(c) \/ PlanMove(c)
    PROVE  IInv'
<1>1. UNCHANGED <<req, writeLock, disk>>
  BY DEF ProbeMove, Judge, Compose, VerifyOk, CheckCreate, CheckLockWrite, PlanMove, Quiet,
         callVars
<1>2. CASE ProbeMove(c)
  BY <1>1, <1>2, Advances DEF ProbeMove, Goto, Busied, Locked
<1>3. CASE ~ProbeMove(c)
  <2>1. pc[c] \in Locked
    BY <1>3 DEF Judge, Compose, VerifyOk, CheckCreate, CheckLockWrite, PlanMove, Locked
  <2>2. \E q \in {"compose", "promote", "verify", "land", "move"} : pc' = [pc EXCEPT ![c] = q]
    BY <1>3 DEF Judge, Compose, VerifyOk, CheckCreate, CheckLockWrite, PlanMove, Goto
  <2> QED BY <1>1, <2>1, <2>2, Advances DEF Busied, Locked
<1> QED BY <1>2, <1>3

LEMMA CheckKeeps ==
    ASSUME IInv, NEW c \in Call, CheckRemove(c)
    PROVE  IInv'
<1>1. UNCHANGED <<req, writeLock, disk>> /\ pc' = [pc EXCEPT ![c] = "unlink"]
  BY DEF CheckRemove, Quiet, callVars, Goto
<1>2. Referrers(Old(c), disk)' = {} /\ pc[c] = "check"
  BY <1>1 DEF CheckRemove, Referrers, Old
<1> QED BY <1>1, <1>2, Advances DEF Busied, Locked

(* What a call that holds the lock writes is again a function on File. *)
LEMMA LandKeeps ==
    ASSUME IInv, NEW c \in Call,
           Promote(c) \/ LandNext(c) \/ LandLast(c) \/ Restore(c) \/ RestoreGone(c)
               \/ Unlink(c) \/ Move(c)
               \/ \E kind \in FaultKinds : PromoteFails(c, kind) \/ LandFails(c, kind)
                      \/ RestoreFails(c, kind) \/ UnlinkFails(c, kind) \/ MoveFails(c, kind)
    PROVE  IInv'
<1>1. pc[c] \in Locked
  BY DEF Promote, LandNext, LandLast, Restore, RestoreGone, Unlink, Move, PromoteFails,
         LandFails, RestoreFails, UnlinkFails, MoveFails, Locked
<1>2. disk' = [f \in File |-> disk'[f]]
  BY DEF IInv, Shape, Promote, LandNext, LandLast, Restore, RestoreGone, Unlink, Move,
         PromoteFails, LandFails, RestoreFails, UnlinkFails, MoveFails, Struck, Moved
<1>3. \/ \E a : Finish(c, a)
      \/ /\ UNCHANGED <<req, writeLock>>
         /\ \E q \in {"compose", "move", "restore", "land"} : pc' = [pc EXCEPT ![c] = q]
  <2>1. pc[c] \in {"land", "restore"} => pc = [pc EXCEPT ![c] = pc[c]]
    BY DEF IInv, Shape
  <2>2. CASE Promote(c) \/ Unlink(c) \/ Move(c)
    BY <2>2 DEF Promote, Unlink, Move, callVars, Goto
  <2>3. CASE LandNext(c)
    BY <2>1, <2>3 DEF LandNext
  <2>4. CASE LandLast(c)
    BY <2>4 DEF LandLast, callVars, Goto
  <2>5. CASE Restore(c) \/ RestoreGone(c)
    BY <2>1, <2>5 DEF Restore, RestoreGone, AfterRestore
  <2>6. ASSUME NEW kind \in FaultKinds,
               PromoteFails(c, kind) \/ UnlinkFails(c, kind) \/ MoveFails(c, kind)
        PROVE  \E a : Finish(c, a)
    BY <2>6 DEF PromoteFails, UnlinkFails, MoveFails
  <2>7. ASSUME NEW kind \in FaultKinds, LandFails(c, kind) PROVE <1>3!:
    BY <2>7 DEF LandFails, callVars, Goto
  <2>8. ASSUME NEW kind \in FaultKinds, RestoreFails(c, kind) PROVE <1>3!:
    BY <2>1, <2>8 DEF RestoreFails, AfterRestore
  <2> QED BY <2>2, <2>3, <2>4, <2>5, <2>6, <2>7, <2>8
<1> QED BY <1>1, <1>2, <1>3, Finishes, Advances DEF Busied, Locked

LEMMA RefuseKeeps ==
    ASSUME IInv, NEW c \in Call,
           RefuseMove(c) \/ LoadMissing(c) \/ Busy(c) \/ JudgeMissing(c) \/ ComposeMissing(c)
               \/ VerifyConflict(c) \/ CheckOccupied(c) \/ CheckRefused(c) \/ UnlinkGone(c)
               \/ MoveGone(c) \/ Crash(c)
    PROVE  IInv'
<1>1. disk' = disk /\ pc[c] # "idle" /\ \E a : Finish(c, a)
  BY DEF RefuseMove, LoadMissing, Busy, JudgeMissing, ComposeMissing, VerifyConflict,
         CheckOccupied, CheckRefused, UnlinkGone, MoveGone, Crash, Refuse
<1> QED BY <1>1, Finishes

(* An editor adds no link, and what it deletes refers to nothing. *)
LEMMA EditKeeps ==
    ASSUME IInv, NEW p \in Page, Edit(p)
    PROVE  IInv'
<1>1. UNCHANGED <<pc, req, writeLock>> /\ disk[p] # None
  BY DEF Edit, callVars
<1>2. \/ disk' = [disk EXCEPT ![p] = @ \cup {Editor}]
      \/ disk' = [disk EXCEPT ![p] = None]
  BY DEF Edit
<1>3. Shape' /\ RunsArmed' /\ LockHeld' /\ Paged'
  BY <1>1, <1>2 DEF IInv, Shape, RunsArmed, LockHeld, Paged, Old
<1>4. ASSUME NEW d \in Call, pc[d] = "unlink"
      PROVE  Referrers(Old(d), disk)' = {}
  <2>1. Old(d) # Editor /\ Old(d)' = Old(d)
    BY <1>1, <1>4, DoorsAssumption DEF IInv, Paged, Old
  <2>2. \A q \in Page : disk'[q] \in {disk[q], None} \/ disk'[q] = disk[q] \cup {Editor}
    BY <1>2 DEF IInv, Shape, File
  <2>3. \A q \in Page : disk'[q] # None => disk[q] # None
    BY <1>1, <1>2 DEF IInv, Shape, File
  <2>4. Referrers(Old(d), disk) = {}
    BY <1>4 DEF IInv, Unreferred
  <2> QED BY <2>1, <2>2, <2>3, <2>4 DEF Referrers
<1> QED BY <1>1, <1>3, <1>4 DEF IInv, Unreferred

-----------------------------------------------------------------------------
LEMMA StepKeeps == ArmedRuns /\ IInv /\ [Next]_vars => IInv'
<1> SUFFICES ASSUME ArmedRuns, IInv, [Next]_vars PROVE IInv'
  OBVIOUS
<1>1. ASSUME NEW c \in Call, Step(c) PROVE IInv'
  BY <1>1, AskKeeps, LockKeeps, RunKeeps, ReadKeeps, CheckKeeps, LandKeeps, RefuseKeeps DEF Step
<1>2. ASSUME NEW p \in Page, Edit(p) PROVE IInv'
  BY <1>2, EditKeeps
<1>3. CASE UNCHANGED vars
  BY <1>3 DEF vars, IInv, Shape, RunsArmed, LockHeld, Paged, Unreferred, Referrers, Old
<1> QED BY <1>1, <1>2, <1>3 DEF Next

(* When every run is armed, remove strands no link: at the instant it      *)
(* unlinks, no page refers to the page that goes (write.rs                 *)
(* remove_with_cache holds the write lock from its look to its unlink).    *)
THEOREM NoStrandingHolds == ArmedRuns => (Spec => NoStranding)
<1>1. IInv => (\A c \in Call : pc[c] = "unlink" /\ answer'[c] = "ok"
                  => Referrers(Old(c), disk) = {})
  BY DEF IInv, Unreferred
<1>2. CASE ArmedRuns
  <2>1. IInv /\ [Next]_vars => IInv'
    BY <1>2, StepKeeps
  <2> QED BY <1>1, <2>1, InitHolds, PTL DEF Spec, NoStranding
<1> QED BY <1>2

-----------------------------------------------------------------------------
(* A move *)

Fields ==
    /\ image = [c \in Call |-> image[c]] /\ answer = [c \in Call |-> answer[c]]
    /\ todo = [c \in Call |-> todo[c]] /\ done = [c \in Call |-> done[c]]

MoveSteps == {"probe", "lock", "plan", "land", "move", "done"}
Placed(c) == pc[c] # "idle" /\ req[c].door = "relocate" =>
                 pc[c] \in MoveSteps /\ New(c) \in Page \ {Old(c)}

Fresh(c) == pc[c] \in {"idle", "probe", "lock", "plan"} => done[c] = 0

(* The pages a move has planned to rewrite and not rewritten yet. *)
Owed(c) == IF pc[c] = "land" THEN {todo[c][i] : i \in done[c] + 1 .. Len(todo[c])} ELSE {}

Rewriting(c) ==
    req[c].door = "relocate" /\ pc[c] \in {"land", "move"} =>
        /\ pc[c] = "land" => todo[c] \in Seq(Page) /\ done[c] \in Nat
        /\ \A q \in Page : disk[q] # None /\ Old(c) \in disk[q] => q \in Owed(c)
        /\ \A q \in Page : Old(c) \in Marks(image[c][q]) =>
               q \in Owed(c) \/ disk[q] = None \/ New(c) \in disk[q]

MInv == Fields /\ \A c \in Call : Placed(c) /\ Fresh(c) /\ Rewriting(c)

USE DoorsAssumption

-----------------------------------------------------------------------------
(* A finite set, listed: every member is on the list. *)
LEMMA Listing ==
    ASSUME NEW S, IsFiniteSet(S)
    PROVE  /\ SetToSeq(S) \in Seq(S)
           /\ S = {SetToSeq(S)[i] : i \in 1 .. Len(SetToSeq(S))}
<1> DEFINE n == Cardinality(S)
           L == SetToSeq(S)
<1>1. n \in Nat /\ ExistsBijection(1 .. n, S)
  BY FS_CardinalityType
<1>2. PICK g : g \in Bijection(1 .. n, S)
  BY <1>1 DEF ExistsBijection
<1>3. g \in [1 .. n -> S] /\ IsInjective(g)
  BY <1>2 DEF Bijection, Injection
<1>4. L \in [1 .. n -> S] /\ IsInjective(L)
  BY <1>3 DEF SetToSeq
<1>5. IsFiniteSet(1 .. n) /\ Cardinality(1 .. n) = n
  BY <1>1, FS_Interval
<1>6. L \in Surjection(1 .. n, S)
  BY <1>4, <1>5, FS_Injection DEF Injection
<1>7. \A x \in S : \E i \in 1 .. n : L[i] = x
  BY <1>6 DEF Surjection
<1> HIDE DEF n, L
<1>8. L \in Seq(S) /\ Len(L) = n
  BY <1>1, <1>4
<1>9. S = {L[i] : i \in 1 .. Len(L)}
  BY <1>4, <1>7, <1>8
<1> QED BY <1>8, <1>9 DEF L

-----------------------------------------------------------------------------
(* A step of c is c's: it writes no other call's fields, and files only     *)
(* under the write lock.                                                    *)
Own(c) ==
    /\ Fields'
    /\ \A d \in Call \ {c} :
           /\ pc'[d] = pc[d] /\ req'[d] = req[d] /\ image'[d] = image[d]
           /\ todo'[d] = todo[d] /\ done'[d] = done[d] /\ answer'[d] = answer[d]
    /\ pc[c] \in Locked \/ disk' = disk

LEMMA FinishOwn ==
    ASSUME IInv, Fields, NEW c \in Call, NEW a, Finish(c, a), pc[c] \in Locked \/ disk' = disk
    PROVE  Own(c)
BY DEF IInv, Shape, Fields, Finish, Goto, Own

LEMMA RefuseOwn ==
    ASSUME IInv, Fields, NEW c \in Call,
           RefuseMove(c) \/ LoadMissing(c) \/ Busy(c) \/ JudgeMissing(c) \/ ComposeMissing(c)
               \/ VerifyConflict(c) \/ CheckOccupied(c) \/ CheckRefused(c) \/ UnlinkGone(c)
               \/ MoveGone(c) \/ Crash(c)
    PROVE  Own(c) /\ disk' = disk /\ pc[c] # "idle" /\ \E a : a # "ok" /\ Finish(c, a)
<1>1. disk' = disk /\ pc[c] # "idle" /\ \E a : a # "ok" /\ Finish(c, a)
  BY DEF RefuseMove, LoadMissing, Busy, JudgeMissing, ComposeMissing, VerifyConflict,
         CheckOccupied, CheckRefused, UnlinkGone, MoveGone, Crash, Refuse
<1> QED BY <1>1, FinishOwn

LEMMA QuietOwn ==
    ASSUME IInv, Fields, NEW c \in Call,
           \/ \E r \in Requests : Ask(c, r)
           \/ ProbeMove(c) \/ TakeRunLock(c) \/ LoadRun(c) \/ RenderRun(c) \/ TakeWriteLock(c)
           \/ Judge(c) \/ Compose(c) \/ VerifyOk(c) \/ CheckCreate(c) \/ CheckLockWrite(c)
           \/ CheckRemove(c) \/ PlanMove(c)
    PROVE  Own(c) /\ disk' = disk /\ answer' = answer
<1>1. CASE \E r \in Requests : Ask(c, r)
  BY <1>1 DEF Ask, Quiet, Goto, IInv, Shape, Fields, Own
<1>2. CASE ProbeMove(c) \/ TakeRunLock(c) \/ TakeWriteLock(c) \/ VerifyOk(c) \/ CheckRemove(c)
  BY <1>2 DEF ProbeMove, TakeRunLock, TakeWriteLock, VerifyOk, CheckRemove, Quiet, Goto, callVars,
              IInv, Shape, Fields, Own
<1>3. CASE LoadRun(c) \/ RenderRun(c) \/ Judge(c) \/ Compose(c)
  BY <1>3 DEF LoadRun, RenderRun, Judge, Compose, Quiet, Goto, IInv, Shape, Fields, Own
<1>4. CASE CheckCreate(c) \/ CheckLockWrite(c) \/ PlanMove(c)
  BY <1>4 DEF CheckCreate, CheckLockWrite, PlanMove, Quiet, Goto, IInv, Shape, Fields, Own
<1> QED BY <1>1, <1>2, <1>3, <1>4

LEMMA LandOwn ==
    ASSUME IInv, Fields, NEW c \in Call,
           Promote(c) \/ LandNext(c) \/ LandLast(c) \/ Restore(c) \/ RestoreGone(c)
               \/ Unlink(c) \/ Move(c)
               \/ \E kind \in FaultKinds : PromoteFails(c, kind) \/ LandFails(c, kind)
                      \/ RestoreFails(c, kind) \/ UnlinkFails(c, kind) \/ MoveFails(c, kind)
    PROVE  Own(c) /\ pc[c] \in Locked
<1>1. pc[c] \in Locked
  BY DEF Promote, LandNext, LandLast, Restore, RestoreGone, Unlink, Move, PromoteFails,
         LandFails, RestoreFails, UnlinkFails, MoveFails, Locked
<1>2. ASSUME Promote(c) \/ LandNext(c) PROVE Own(c)
  BY <1>1, <1>2 DEF Promote, LandNext, Goto, callVars, IInv, Shape, Fields, Own
<1>3. ASSUME NEW a, Finish(c, a) PROVE Own(c)
  BY <1>1, <1>3, FinishOwn
<1>4. ASSUME \A a : ~Finish(c, a), LandLast(c) PROVE Own(c)
  BY <1>1, <1>4 DEF LandLast, Goto, callVars, IInv, Shape, Fields, Own
<1>5. ASSUME \A a : ~Finish(c, a), NEW kind \in FaultKinds, LandFails(c, kind) PROVE Own(c)
  BY <1>1, <1>5 DEF LandFails, Goto, callVars, IInv, Shape, Fields, Own
<1>6. ASSUME \A a : ~Finish(c, a), NEW a, AfterRestore(c, a) PROVE Own(c)
  BY <1>1, <1>6 DEF AfterRestore, IInv, Shape, Fields, Own
<1>7. ASSUME Unlink(c) \/ Move(c) PROVE Own(c)
  BY <1>3, <1>7 DEF Unlink, Move
<1>8. ASSUME Restore(c) \/ RestoreGone(c) PROVE Own(c)
  BY <1>3, <1>6, <1>8 DEF Restore, RestoreGone
<1>9. ASSUME NEW kind \in FaultKinds,
             PromoteFails(c, kind) \/ RestoreFails(c, kind) \/ UnlinkFails(c, kind) \/ MoveFails(c, kind)
      PROVE  Own(c)
  BY <1>3, <1>6, <1>9 DEF PromoteFails, RestoreFails, UnlinkFails, MoveFails
<1>10. LandLast(c) => Own(c)
  BY <1>3, <1>4
<1>11. \A kind \in FaultKinds : LandFails(c, kind) => Own(c)
  BY <1>3, <1>5
<1>12. (\E kind \in FaultKinds : PromoteFails(c, kind) \/ LandFails(c, kind)
          \/ RestoreFails(c, kind) \/ UnlinkFails(c, kind) \/ MoveFails(c, kind)) => Own(c)
  BY <1>9, <1>11
<1> QED BY <1>1, <1>2, <1>7, <1>8, <1>10, <1>12

(* What the others are owed stays. *)
LEMMA OthersMove ==
    ASSUME IInv, MInv, NEW c \in Call, Own(c), NEW d \in Call \ {c}
    PROVE  (Placed(d) /\ Fresh(d) /\ Rewriting(d))'
<1>1. /\ pc'[d] = pc[d] /\ req'[d] = req[d] /\ image'[d] = image[d]
      /\ todo'[d] = todo[d] /\ done'[d] = done[d]
  BY DEF Own
<1>2. Placed(d)' /\ Fresh(d)'
  BY <1>1 DEF MInv, Placed, Fresh, Old, New
<1>3. ASSUME pc[d] \in {"land", "move"} PROVE disk' = disk
  BY <1>3 DEF Own, IInv, LockHeld, Locked
<1>4. Rewriting(d)'
  BY <1>1, <1>3 DEF MInv, Rewriting, Owed, Old, New
<1> QED BY <1>2, <1>4

-----------------------------------------------------------------------------
(* The step's own call *)

(* Where a call that is not a move can go, and a move that answered. *)
LEMMA Elsewhere ==
    ASSUME MInv, NEW c \in Call, Own(c),
           \/ pc'[c] = "done"
           \/ req'[c].door # "relocate" /\ pc'[c] \notin {"idle", "probe", "lock", "plan"},
           req'[c].door = "relocate" => New(c)' \in Page \ {Old(c)'}
    PROVE  (Placed(c) /\ Fresh(c) /\ Rewriting(c))'
BY DEF Placed, Fresh, Rewriting, MoveSteps

LEMMA AskMove ==
    ASSUME IInv, MInv, NEW c \in Call, NEW r \in Requests, Ask(c, r)
    PROVE  (Placed(c) /\ Fresh(c) /\ Rewriting(c))'
<1>1. /\ req'[c] = r /\ done'[c] = 0
      /\ pc'[c] = CASE r.door = "relocate" -> "probe" [] r.door = "run" -> "run"
                    [] OTHER -> "lock"
  BY DEF Ask, Goto, IInv, Shape, MInv, Fresh
<1>2. pc'[c] \in {"probe", "run", "lock"} /\ (r.door = "relocate" => pc'[c] = "probe")
  BY <1>1
<1>3. Placed(c)'
  BY <1>1, <1>2 DEF Placed, MoveSteps, Old, New
<1> QED BY <1>1, <1>2, <1>3 DEF Fresh, Rewriting

LEMMA PlanKeeps ==
    ASSUME IInv, MInv, NEW c \in Call, PlanMove(c)
    PROVE  (Placed(c) /\ Fresh(c) /\ Rewriting(c))'
<1> DEFINE pages == {q \in Page : disk[q] # None /\ Old(c) \in disk[q]}
           L == SetToSeq(pages)
<1>1. IsFiniteSet(pages)
  BY FS_Subset
<1>2. L \in Seq(pages) /\ pages = {L[i] : i \in 1 .. Len(L)}
  BY <1>1, Listing
<1>3. /\ pc[c] = "plan" /\ disk' = disk /\ req' = req /\ image'[c] = disk /\ todo'[c] = L
      /\ done'[c] = done[c] /\ pc'[c] = IF pages = {} THEN "move" ELSE "land"
  BY DEF PlanMove, Goto, Quiet, IInv, Shape, MInv, Fields
<1>4. done'[c] = 0
  BY <1>3 DEF MInv, Fresh
<1>5. pages \subseteq Page
  OBVIOUS
<1> HIDE DEF L
<1>6. Owed(c)' = pages
  BY <1>2, <1>3, <1>4, SMTT(30) DEF Owed
<1>7. Rewriting(c)'
  <2>1. todo'[c] \in Seq(Page) /\ done'[c] \in Nat
    BY <1>2, <1>3, <1>4, <1>5
  <2>2. Old(c)' = Old(c) /\ New(c)' = New(c)
    BY <1>3 DEF Old, New
  <2> QED BY <1>3, <1>6, <2>1, <2>2 DEF Rewriting, Marks
<1>8. Placed(c)' /\ Fresh(c)'
  BY <1>3 DEF MInv, Placed, Fresh, MoveSteps, Old, New
<1> QED BY <1>7, <1>8

(* A page rewritten is owed no more, and refers to NEW and not to OLD. *)
LEMMA RewriteKeeps ==
    ASSUME IInv, MInv, NEW c \in Call, LandNext(c) \/ LandLast(c), req[c].door = "relocate"
    PROVE  (Placed(c) /\ Fresh(c) /\ Rewriting(c))'
<1> DEFINE q0 == NextFile(c)
           x == (image[c][q0] \ {Old(c)}) \cup {New(c)}
<1>1. /\ pc[c] = "land" /\ req' = req /\ image' = image /\ todo' = todo
      /\ disk' = [disk EXCEPT ![q0] = x]
      /\ \/ done[c] + 1 < Len(todo[c]) /\ pc' = pc /\ done'[c] = done[c] + 1
         \/ done[c] + 1 = Len(todo[c]) /\ pc'[c] = "move" /\ done'[c] = done[c]
  BY DEF LandNext, LandLast, Candidate, Goto, callVars, IInv, Shape, MInv, Fields
<1>2. /\ todo[c] \in Seq(Page) /\ done[c] \in Nat
      /\ \A q \in Page : disk[q] # None /\ Old(c) \in disk[q] => q \in Owed(c)
      /\ \A q \in Page : Old(c) \in Marks(image[c][q]) =>
             q \in Owed(c) \/ disk[q] = None \/ New(c) \in disk[q]
  BY <1>1 DEF MInv, Rewriting
<1>3. New(c) \in Page \ {Old(c)} /\ New(c)' = New(c) /\ Old(c)' = Old(c)
  BY <1>1 DEF MInv, Placed, New, Old
<1>4. q0 \in Page
  BY <1>1, <1>2 DEF NextFile
<1>5. \A q \in Owed(c) : q = q0 \/ q \in Owed(c)'
  <2>0. Owed(c) = {todo[c][i] : i \in done[c] + 1 .. Len(todo[c])}
    BY <1>1 DEF Owed
  <2> SUFFICES ASSUME NEW i \in done[c] + 1 .. Len(todo[c])
               PROVE  todo[c][i] = q0 \/ todo[c][i] \in Owed(c)'
    BY <2>0
  <2>1. CASE i = done[c] + 1
    BY <2>1 DEF NextFile
  <2>2. CASE i # done[c] + 1
    BY <1>1, <1>2, <2>2 DEF Owed
  <2> QED BY <2>1, <2>2
<1>6. Old(c) \notin x /\ New(c) \in x
  BY <1>3
<1>7. disk'[q0] = x /\ \A q \in Page : q # q0 => disk'[q] = disk[q]
  BY <1>1, <1>4 DEF IInv, Shape, File
<1> HIDE DEF q0, x
<1>8. \A q \in Page : disk'[q] # None /\ Old(c) \in disk'[q] => q \in Owed(c)'
  BY <1>2, <1>5, <1>6, <1>7
<1>9. \A q \in Page : Old(c) \in Marks(image[c][q]) =>
         q \in Owed(c)' \/ disk'[q] = None \/ New(c) \in disk'[q]
  BY <1>2, <1>5, <1>6, <1>7
<1>10. Rewriting(c)'
  <2>1. pc'[c] = "land" => todo'[c] \in Seq(Page) /\ done'[c] \in Nat
    BY <1>1, <1>2
  <2> QED BY <1>1, <1>3, <1>8, <1>9, <2>1 DEF Rewriting
<1>11. Placed(c)' /\ Fresh(c)'
  BY <1>1, <1>3 DEF MInv, Placed, Fresh, MoveSteps
<1> QED BY <1>10, <1>11

LEMMA LockMoves ==
    ASSUME IInv, MInv, NEW c \in Call, ProbeMove(c) \/ TakeWriteLock(c)
    PROVE  (Placed(c) /\ Fresh(c) /\ Rewriting(c))'
<1>1. req' = req /\ done' = done /\ pc[c] \in {"probe", "lock", "bracket"}
  BY DEF ProbeMove, TakeWriteLock, callVars
<1>2. /\ pc'[c] \in {"lock", "verify", "check", "plan", "read"}
      /\ pc'[c] \in {"lock", "plan"} => pc[c] # "bracket"
      /\ req[c].door = "relocate" /\ pc[c] # "bracket" => pc'[c] \in {"lock", "plan"}
  BY DEF ProbeMove, TakeWriteLock, Goto, IInv, Shape
<1> QED BY <1>1, <1>2 DEF MInv, Placed, Fresh, Rewriting, MoveSteps, Old, New

LEMMA AnsweredMoves ==
    ASSUME IInv, MInv, NEW c \in Call, NEW a, Finish(c, a), pc[c] # "idle", Own(c)
    PROVE  (Placed(c) /\ Fresh(c) /\ Rewriting(c))'
<1>1. req' = req /\ pc'[c] = "done"
  BY DEF Finish, Goto, IInv, Shape
<1>2. req'[c].door = "relocate" => New(c)' \in Page \ {Old(c)'}
  BY <1>1 DEF MInv, Placed, New, Old
<1> QED BY <1>1, <1>2, Elsewhere

(* What is no step of a move. *)
LEMMA OtherDoors ==
    ASSUME IInv, MInv, NEW c \in Call, Own(c), req' = req, req[c].door # "relocate",
           pc'[c] \notin {"idle", "probe", "lock", "plan"}
    PROVE  (Placed(c) /\ Fresh(c) /\ Rewriting(c))'
BY Elsewhere

LEMMA ReadMoves ==
    ASSUME IInv, MInv, NEW c \in Call, Own(c),
           TakeRunLock(c) \/ LoadRun(c) \/ RenderRun(c) \/ Judge(c) \/ Compose(c) \/ VerifyOk(c)
               \/ CheckCreate(c) \/ CheckLockWrite(c) \/ CheckRemove(c) \/ Promote(c)
    PROVE  (Placed(c) /\ Fresh(c) /\ Rewriting(c))'
<1>1. req' = req /\ pc[c] \in {"run", "load", "render", "read", "compose", "verify", "check", "promote"}
  BY DEF TakeRunLock, LoadRun, RenderRun, Judge, Compose, VerifyOk, CheckCreate, CheckLockWrite,
         CheckRemove, Promote, callVars
<1>2. pc'[c] \in {"load", "render", "bracket", "verify", "compose", "promote", "land", "unlink"}
  BY DEF TakeRunLock, LoadRun, RenderRun, Judge, Compose, VerifyOk, CheckCreate, CheckLockWrite,
         CheckRemove, Promote, Goto, IInv, Shape
<1>3. req[c].door # "relocate"
  BY <1>1 DEF MInv, Placed, MoveSteps
<1> QED BY <1>1, <1>2, <1>3, OtherDoors

LEMMA LandMoves ==
    ASSUME IInv, MInv, NEW c \in Call, Own(c), \A a : ~Finish(c, a),
           LandNext(c) \/ LandLast(c) \/ Restore(c) \/ RestoreGone(c)
               \/ \E kind \in FaultKinds : LandFails(c, kind) \/ RestoreFails(c, kind)
    PROVE  (Placed(c) /\ Fresh(c) /\ Rewriting(c))'
<1>1. CASE (LandNext(c) \/ LandLast(c)) /\ req[c].door = "relocate"
  BY <1>1, RewriteKeeps
<1>2. CASE (LandNext(c) \/ LandLast(c)) /\ req[c].door # "relocate"
  <2>1. req' = req /\ pc'[c] = "land"
    BY <1>2 DEF LandNext, LandLast
  <2> QED BY <1>2, <2>1, OtherDoors
<1>3. ASSUME NEW kind \in FaultKinds, LandFails(c, kind)
      PROVE  (Placed(c) /\ Fresh(c) /\ Rewriting(c))'
  <2>1. req' = req /\ pc'[c] = "restore" /\ req[c].door = "set"
    BY <1>3 DEF LandFails, RollsBack, callVars, Goto, IInv, Shape
  <2> QED BY <2>1, OtherDoors
<1>4. ASSUME NEW a, AfterRestore(c, a), pc[c] = "restore"
      PROVE  (Placed(c) /\ Fresh(c) /\ Rewriting(c))'
  <2>1. req' = req /\ pc'[c] = "restore"
    BY <1>4 DEF AfterRestore
  <2>2. req[c].door # "relocate"
    BY <1>4 DEF MInv, Placed, MoveSteps
  <2> QED BY <2>1, <2>2, OtherDoors
<1>5. ASSUME Restore(c) \/ RestoreGone(c)
      PROVE  (Placed(c) /\ Fresh(c) /\ Rewriting(c))'
  BY <1>4, <1>5 DEF Restore, RestoreGone
<1>6. ASSUME NEW kind \in FaultKinds, RestoreFails(c, kind)
      PROVE  (Placed(c) /\ Fresh(c) /\ Rewriting(c))'
  BY <1>4, <1>6 DEF RestoreFails
<1> QED BY <1>1, <1>2, <1>3, <1>5, <1>6

LEMMA CallKeeps ==
    ASSUME IInv, MInv, NEW c \in Call, Step(c)
    PROVE  MInv'
<1>1. Own(c)
  BY QuietOwn, RefuseOwn, LandOwn DEF Step, MInv
<1>2. pc[c] # "idle" \/ \E r \in Requests : Ask(c, r)
  BY RefuseOwn, LandOwn DEF Step, MInv, Locked, ProbeMove, TakeRunLock, LoadRun, RenderRun,
         TakeWriteLock, Judge, Compose, VerifyOk, CheckCreate, CheckLockWrite, CheckRemove, PlanMove
<1>3. ASSUME NEW a, Finish(c, a), pc[c] # "idle"
      PROVE  (Placed(c) /\ Fresh(c) /\ Rewriting(c))'
  BY <1>1, <1>3, AnsweredMoves
<1>4. ASSUME \E kind \in FaultKinds : PromoteFails(c, kind) \/ UnlinkFails(c, kind) \/ MoveFails(c, kind)
      PROVE  \E a : Finish(c, a) /\ pc[c] # "idle"
  BY <1>4 DEF PromoteFails, UnlinkFails, MoveFails
<1>5. ASSUME Unlink(c) \/ Move(c)
      PROVE  \E a : Finish(c, a) /\ pc[c] # "idle"
  BY <1>5 DEF Unlink, Move
<1>6. (Placed(c) /\ Fresh(c) /\ Rewriting(c))'
  <2>1. CASE \E r \in Requests : Ask(c, r)
    BY <2>1, AskMove
  <2>2. CASE \E a : Finish(c, a) /\ pc[c] # "idle"
    BY <1>3, <2>2
  <2>3. CASE pc[c] # "idle" /\ \A a : ~Finish(c, a)
    <3>1. \A r \in Requests : ~Ask(c, r)
      BY <2>3 DEF Ask
    <3>2. ~(RefuseMove(c) \/ LoadMissing(c) \/ Busy(c) \/ JudgeMissing(c) \/ ComposeMissing(c)
              \/ VerifyConflict(c) \/ CheckOccupied(c) \/ CheckRefused(c) \/ UnlinkGone(c)
              \/ MoveGone(c) \/ Crash(c))
      BY <2>3, RefuseOwn DEF MInv
    <3>3. \/ ProbeMove(c) \/ TakeWriteLock(c) \/ PlanMove(c)
          \/ TakeRunLock(c) \/ LoadRun(c) \/ RenderRun(c) \/ Judge(c) \/ Compose(c) \/ VerifyOk(c)
          \/ CheckCreate(c) \/ CheckLockWrite(c) \/ CheckRemove(c) \/ Promote(c)
          \/ LandNext(c) \/ LandLast(c) \/ Restore(c) \/ RestoreGone(c)
          \/ \E kind \in FaultKinds : LandFails(c, kind) \/ RestoreFails(c, kind)
      BY <1>4, <1>5, <2>3, <3>1, <3>2 DEF Step
    <3> QED BY <1>1, <2>3, <3>3, LockMoves, ReadMoves, LandMoves, PlanKeeps
  <2> QED BY <1>2, <2>1, <2>2, <2>3
<1> QED BY <1>1, <1>6, OthersMove DEF MInv, Own

(* An editor adds no link: what refers to OLD did before. *)
LEMMA EditMoves ==
    ASSUME IInv, MInv, NEW p \in Page, Edit(p)
    PROVE  MInv'
<1>1. /\ UNCHANGED <<pc, req, image, todo, done, answer>> /\ disk[p] # None
      /\ \A q \in Page : disk'[q] \in {disk[q], None} \/ (q = p /\ disk'[q] = disk[q] \cup {Editor})
  BY DEF Edit, callVars, IInv, Shape, File
<1>2. Fields'
  BY <1>1 DEF MInv, Fields
<1>3. ASSUME NEW c \in Call PROVE (Placed(c) /\ Fresh(c) /\ Rewriting(c))'
  <2>1. Placed(c)' /\ Fresh(c)'
    BY <1>1 DEF MInv, Placed, Fresh, Old, New
  <2>2. Rewriting(c)'
    <3> SUFFICES ASSUME req[c].door = "relocate", pc[c] \in {"land", "move"}
                 PROVE  Rewriting(c)'
      BY <1>1 DEF Rewriting
    <3>1. Old(c) # Editor
      BY DEF IInv, Paged
    <3>2. /\ pc[c] = "land" => todo[c] \in Seq(Page) /\ done[c] \in Nat
          /\ \A q \in Page : disk[q] # None /\ Old(c) \in disk[q] => q \in Owed(c)
          /\ \A q \in Page : Old(c) \in Marks(image[c][q]) =>
                 q \in Owed(c) \/ disk[q] = None \/ New(c) \in disk[q]
      BY DEF MInv, Rewriting
    <3>3. Owed(c)' = Owed(c) /\ Old(c)' = Old(c) /\ New(c)' = New(c)
      BY <1>1 DEF Owed, Old, New
    <3>4. \A q \in Page : disk'[q] # None /\ Old(c) \in disk'[q] => q \in Owed(c)
      BY <1>1, <3>1, <3>2
    <3>5. \A q \in Page : Old(c) \in Marks(image[c][q]) =>
             q \in Owed(c) \/ disk'[q] = None \/ New(c) \in disk'[q]
      BY <1>1, <3>2
    <3> QED BY <1>1, <3>2, <3>3, <3>4, <3>5 DEF Rewriting
  <2> QED BY <2>1, <2>2
<1> QED BY <1>2, <1>3 DEF MInv

LEMMA InitMoves == Init => MInv
BY DEF Init, MInv, Fields, Placed, Fresh, Rewriting, NoAsk

LEMMA MoveKeeps == IInv /\ MInv /\ [Next]_vars => MInv'
<1> SUFFICES ASSUME IInv, MInv, [Next]_vars PROVE MInv'
  OBVIOUS
<1>1. CASE UNCHANGED vars
  BY <1>1 DEF vars, MInv, Fields, Placed, Fresh, Rewriting, Owed, Old, New
<1> QED BY <1>1, CallKeeps, EditMoves DEF Next

-----------------------------------------------------------------------------
(* Only the rename of OLD acknowledges a move. *)
LEMMA AckedByMove ==
    ASSUME IInv, MInv, [Next]_vars, NEW c \in Call,
           req[c].door = "relocate", answer[c] = "none", answer'[c] = "ok"
    PROVE  Move(c)
<1>1. PICK d \in Call : Step(d)
  BY DEF Next, vars, Edit
<1>2. d = c
  BY <1>1, QuietOwn, RefuseOwn, LandOwn DEF Step, Own, MInv
<1>3. \A a : Finish(c, a) => a = "ok"
  BY DEF Finish, MInv, Fields
<1>4. pc[c] \in MoveSteps \cup {"idle"}
  BY DEF MInv, Placed
<1>5. ~(Promote(c) \/ Restore(c) \/ RestoreGone(c) \/ Unlink(c)
         \/ \E kind \in FaultKinds : PromoteFails(c, kind) \/ RestoreFails(c, kind)
                                     \/ UnlinkFails(c, kind))
  BY <1>4 DEF Promote, Restore, RestoreGone, Unlink, PromoteFails, RestoreFails, UnlinkFails,
              MoveSteps
<1>6. ~LandNext(c) /\ ~LandLast(c)
  BY DEF LandNext, LandLast
<1>7. \A kind \in FaultKinds : ~MoveFails(c, kind) /\ ~LandFails(c, kind)
  BY <1>3 DEF MoveFails, LandFails
<1>8. answer'[c] # answer[c]
  OBVIOUS
<1>9. ~(\/ \E r \in Requests : Ask(c, r)
        \/ ProbeMove(c) \/ TakeRunLock(c) \/ LoadRun(c) \/ RenderRun(c) \/ TakeWriteLock(c)
        \/ Judge(c) \/ Compose(c) \/ VerifyOk(c) \/ CheckCreate(c) \/ CheckLockWrite(c)
        \/ CheckRemove(c) \/ PlanMove(c))
  BY <1>8, QuietOwn DEF MInv
<1>10. ~(RefuseMove(c) \/ LoadMissing(c) \/ Busy(c) \/ JudgeMissing(c) \/ ComposeMissing(c)
          \/ VerifyConflict(c) \/ CheckOccupied(c) \/ CheckRefused(c) \/ UnlinkGone(c)
          \/ MoveGone(c) \/ Crash(c))
  BY <1>3, RefuseOwn DEF MInv
<1> QED BY <1>1, <1>2, <1>5, <1>6, <1>7, <1>9, <1>10 DEF Step

LEMMA MoveIsWhole ==
    ASSUME IInv, MInv, NEW c \in Call, req[c].door = "relocate", Move(c)
    PROVE  /\ disk'[New(c)] # None /\ disk'[Old(c)] = None
           /\ \A q \in Page \ {Old(c)} : disk'[q] # None =>
                  /\ Old(c) \notin disk'[q]
                  /\ q # New(c) /\ Old(c) \in Marks(image[c][q]) => New(c) \in disk'[q]
<1>1. pc[c] = "move" /\ disk[Old(c)] # None /\ disk' = Moved(c)
  BY DEF Move
<1>2. Old(c) \in Page /\ New(c) \in Page \ {Old(c)}
  BY <1>1 DEF IInv, Paged, MInv, Placed
<1>3. /\ disk'[New(c)] = disk[Old(c)] /\ disk'[Old(c)] = None
      /\ \A q \in Page \ {Old(c), New(c)} : disk'[q] = disk[q]
  BY <1>1, <1>2 DEF Moved, IInv, Shape, File
<1>4. Owed(c) = {}
  BY <1>1 DEF Owed
<1>5. /\ \A q \in Page : disk[q] # None => Old(c) \notin disk[q]
      /\ \A q \in Page : Old(c) \in Marks(image[c][q]) => disk[q] = None \/ New(c) \in disk[q]
  BY <1>1, <1>4 DEF MInv, Rewriting
<1> QED BY <1>1, <1>2, <1>3, <1>5

(* When every run is armed, an acknowledged relocate leaves no page that    *)
(* refers to OLD and none that it meant to redirect and did not, whatever   *)
(* other calls and editors did while it rewrote them (relocate.rs renames   *)
(* OLD last, under the write lock).                                         *)
THEOREM MoveWholeHolds == ArmedRuns => (Spec => MoveWhole)
<1>1. IInv /\ MInv /\ [Next]_vars => (\A c \in Call :
          req[c].door = "relocate" /\ answer[c] = "none" /\ answer'[c] = "ok" =>
              /\ disk'[New(c)] # None /\ disk'[Old(c)] = None
              /\ \A q \in Page \ {Old(c)} : disk'[q] # None =>
                     /\ Old(c) \notin disk'[q]
                     /\ q # New(c) /\ Old(c) \in Marks(image[c][q]) => New(c) \in disk'[q])
  BY AckedByMove, MoveIsWhole
<1>2. CASE ArmedRuns
  <2>1. IInv /\ [Next]_vars => IInv'
    BY <1>2, StepKeeps
  <2> QED BY <1>1, <2>1, InitHolds, InitMoves, MoveKeeps, PTL DEF Spec, MoveWhole
<1> QED BY <1>2

-----------------------------------------------------------------------------
(* What is landed *)

Content == {None} \cup SUBSET Mark

Typed ==
    /\ disk \in [File -> Content] /\ image \in [Call -> [File -> Content]]
    /\ removed \in [Page -> SUBSET Mark]

(* What a call's phase says of its request, its list and its answer. *)
Doored(c) ==
    /\ pc[c] # "idle" => req[c] \in Requests
    /\ pc[c] = "idle" \/ (pc[c] \in {"probe", "lock", "check"} /\ req[c].door = "create") =>
           image[c] = Nothing
    /\ pc[c] = "unlink" => req[c].door = "remove"
    /\ pc[c] \in {"move", "plan"} => req[c].door = "relocate"
    /\ pc[c] = "restore" => req[c].door = "set"
    /\ pc[c] = "promote" => req[c].to \in Page /\ req[c].door # "set"
    /\ pc[c] \in {"verify", "render", "bracket"}
           \/ (pc[c] \in {"land", "restore"} /\ req[c].door # "relocate") =>
           todo[c] \in {req[c].pages, Append(req[c].pages, Receipt)}
    /\ pc[c] \notin {"land", "restore", "move"} => done[c] = 0
    /\ pc[c] = "land" => done[c] \in 0 .. Len(todo[c]) - 1
    /\ pc[c] = "restore" => done[c] \in 1 .. Len(todo[c])
    /\ pc[c] \notin {"restore", "done"} => answer[c] = "none"
    /\ pc[c] = "restore" => answer[c] \in {"none", "incomplete"}

(* The files a call that holds the write lock is about to overwrite, and   *)
(* has looked at under that lock.                                          *)
Vouched(c, f) ==
    \/ pc[c] \in {"land", "restore"} /\ \E i \in 1 .. Len(todo[c]) : todo[c][i] = f
    \/ pc[c] = "promote" /\ f = req[c].to
    \/ pc[c] = "unlink" /\ f = Old(c)

(* Its pre-image of such a file has every call's mark that the file has. *)
Kept(c) ==
    \A f \in File : Vouched(c, f) =>
        /\ Marks(disk[f]) \cap Call \subseteq Marks(image[c][f]) \cup {c}
        /\ req[c].door = "relocate" \/ pc[c] \in {"promote", "unlink"} => image[c][f] # None

Landing(c) ==
    pc[c] = "land" /\ req[c].door # "relocate" =>
        \A i \in 1 .. done[c] : todo[c][i] \in Page => todo[c][i] \in Bearing(c)

Acked(c) ==
    answer[c] = "ok" => pc[c] = "done" /\ (req[c].door \in Writes => Landed(c))

LInv == Typed /\ \A c \in Call : Doored(c) /\ Kept(c) /\ Landing(c) /\ Acked(c)

(* A move that ends replaces no page. *)
NoClobber ==
    \A c \in Call : pc[c] = "move" /\ pc'[c] = "done" /\ disk' # disk => disk[New(c)] = None

-----------------------------------------------------------------------------
(* The list of a commit: the members, then perhaps the receipt. *)
LEMMA ListedMembers ==
    ASSUME NEW r \in Requests, NEW L \in {r.pages, Append(r.pages, Receipt)}
    PROVE  /\ L \in Seq(File) /\ Len(r.pages) \in Nat /\ Len(r.pages) > 0
           /\ \A i \in 1 .. Len(r.pages) : L[i] = r.pages[i] /\ L[i] \in Page
           /\ Len(L) \in {Len(r.pages), Len(r.pages) + 1}
           /\ Len(L) = Len(r.pages) + 1 => L[Len(L)] = Receipt
           /\ \A i \in 1 .. Len(L) : L[i] \in Page \/ (i = Len(L) /\ Len(L) = Len(r.pages) + 1)
<1>1. r.pages \in Seq(Page) /\ Len(r.pages) \in Nat /\ Len(r.pages) > 0
  BY RequestsAssumption
<1>2. CASE L = r.pages
  BY <1>1, <1>2 DEF File
<1>3. CASE L = Append(r.pages, Receipt)
  BY <1>1, <1>3 DEF File
<1> QED BY <1>2, <1>3

LEMMA TodoFiles ==
    ASSUME IInv, MInv, LInv, NEW c \in Call, pc[c] \in {"land", "restore"}
    PROVE  /\ todo[c] \in Seq(File) /\ Len(todo[c]) \in Nat
           /\ \A i \in 1 .. Len(todo[c]) : todo[c][i] \in File /\ Vouched(c, todo[c][i])
<1>1. todo[c] \in Seq(File)
  <2>1. CASE req[c].door = "relocate"
    <3>1. pc[c] = "land"
      BY <2>1 DEF MInv, Placed, MoveSteps
    <3>2. todo[c] \in Seq(Page)
      BY <2>1, <3>1 DEF MInv, Rewriting
    <3> QED BY <3>2 DEF File
  <2>2. CASE req[c].door # "relocate"
    BY <2>2, ListedMembers DEF LInv, Doored
  <2> QED BY <2>1, <2>2
<1> QED BY <1>1 DEF Vouched

-----------------------------------------------------------------------------
(* What a step writes *)

(* A file that was looked at gets a content with every call's mark of the   *)
(* pre-image, and none but the writer's besides.                           *)
Puts(c, f, x) ==
    /\ Vouched(c, f) /\ x \in Content
    /\ disk' = [disk EXCEPT ![f] = x] /\ removed' = removed
    /\ Marks(image[c][f]) \cap Call \subseteq Marks(x)
    /\ Marks(x) \cap Call \subseteq Marks(image[c][f]) \cup {c}

Takes(c) ==
    /\ Vouched(c, Old(c)) /\ Old(c) \in Page /\ pc[c] = "unlink"
    /\ disk' = [disk EXCEPT ![Old(c)] = None]
    /\ removed' = [removed EXCEPT ![Old(c)] = @ \cup image[c][Old(c)]]

Renames(c) ==
    /\ pc[c] = "move" /\ pc'[c] = "done"
    /\ disk' = Moved(c) /\ removed' = Renamed(c)

(* What a commit lands keeps the marks of its pre-image. *)
LEMMA CandidateKeeps ==
    ASSUME IInv, MInv, LInv, NEW c \in Call, NEW f \in File, pc[c] = "land", Vouched(c, f)
    PROVE  /\ Candidate(c, f) \in SUBSET Mark
           /\ Marks(image[c][f]) \cap Call \subseteq Candidate(c, f)
           /\ Candidate(c, f) \cap Call \subseteq Marks(image[c][f]) \cup {c}
           /\ req[c].door # "relocate" => c \in Candidate(c, f)
           /\ Candidate(c, f) # None
<1>1. req[c] \in Requests /\ image[c][f] \in Content
  BY DEF LInv, Doored, Typed
<1>2. Marks(image[c][f]) \in SUBSET Mark
  BY <1>1 DEF Content, Marks
<1>3. CASE req[c].door = "relocate"
  <2>1. image[c][f] # None
    BY <1>3 DEF LInv, Kept
  <2>2. Old(c) \in Page /\ New(c) \in Page
    BY <1>3 DEF IInv, Paged, MInv, Placed
  <2>3. Candidate(c, f) = (Marks(image[c][f]) \ {Old(c)}) \cup {New(c)}
    BY <1>3, <2>1 DEF Candidate, Marks
  <2>4. Old(c) \notin Call /\ New(c) \notin Call /\ New(c) \in Mark
    BY <2>2, RequestsAssumption DEF Mark
  <2>5. Candidate(c, f) \in SUBSET Mark
    BY <1>2, <2>3, <2>4
  <2> QED BY <1>3, <2>3, <2>4, <2>5, RequestsAssumption DEF Mark
<1>4. CASE req[c].door # "relocate"
  <2>1. PICK S \in {{}, req[c].links} : Candidate(c, f) = Marks(image[c][f]) \cup {c} \cup S
    BY <1>4 DEF Candidate
  <2>2. S \subseteq Page
    BY <1>1, RequestsAssumption
  <2>3. S \cap Call = {} /\ S \subseteq Mark /\ c \in Mark
    BY <2>2, RequestsAssumption DEF Mark
  <2>4. Candidate(c, f) \in SUBSET Mark
    BY <1>2, <2>1, <2>3
  <2> QED BY <2>1, <2>3, <2>4, RequestsAssumption DEF Mark
<1> QED BY <1>3, <1>4

LEMMA PromotePuts ==
    ASSUME IInv, MInv, LInv, NEW c \in Call, pc[c] = "promote"
    PROVE  LET f == req[c].to
               x == image[c][f] \cup {c}
           IN  (disk' = [disk EXCEPT ![f] = x] /\ removed' = removed) => f \in File /\ Puts(c, f, x)
<1> DEFINE f == req[c].to
           x == image[c][f] \cup {c}
<1>1. f \in Page /\ f \in File /\ Vouched(c, f)
  BY DEF LInv, Doored, Vouched, File
<1>2. image[c][f] # None /\ image[c][f] \in Content
  BY <1>1 DEF LInv, Kept, Typed
<1>3. image[c][f] \in SUBSET Mark /\ c \in Mark
  BY <1>2 DEF Content, Mark
<1>4. x \in SUBSET Mark /\ x # None
  BY <1>3, RequestsAssumption DEF Mark
<1>5. Marks(x) = x /\ Marks(image[c][f]) = image[c][f] /\ x \in Content
  BY <1>2, <1>4 DEF Marks, Content
<1> QED BY <1>1, <1>5 DEF Puts

LEMMA LandPuts ==
    ASSUME IInv, MInv, LInv, NEW c \in Call, pc[c] = "land",
           disk' = [disk EXCEPT ![NextFile(c)] = Candidate(c, NextFile(c))], removed' = removed
    PROVE  NextFile(c) \in File /\ Puts(c, NextFile(c), Candidate(c, NextFile(c)))
<1>1. done[c] \in 0 .. Len(todo[c]) - 1
  BY DEF LInv, Doored
<1>2. NextFile(c) \in File /\ Vouched(c, NextFile(c))
  <2>1. done[c] + 1 \in 1 .. Len(todo[c])
    BY <1>1, TodoFiles
  <2> QED BY <2>1, TodoFiles DEF NextFile
<1>3. Marks(Candidate(c, NextFile(c))) = Candidate(c, NextFile(c))
  BY <1>2, CandidateKeeps DEF Marks
<1> QED BY <1>2, <1>3, CandidateKeeps DEF Puts, Content

LEMMA RestorePuts ==
    ASSUME IInv, MInv, LInv, NEW c \in Call, pc[c] = "restore",
           disk' = [disk EXCEPT ![LastFile(c)] = image[c][LastFile(c)]], removed' = removed
    PROVE  LastFile(c) \in File /\ Puts(c, LastFile(c), image[c][LastFile(c)])
<1>1. done[c] \in 1 .. Len(todo[c])
  BY DEF LInv, Doored
<1>2. LastFile(c) \in File /\ Vouched(c, LastFile(c))
  BY <1>1, TodoFiles DEF LastFile
<1> QED BY <1>2 DEF Puts, LInv, Typed

\* What the step of a call does to the files.
Effect(c) ==
    \/ UNCHANGED <<disk, removed>>
    \/ \E f \in File : \E x : Puts(c, f, x)
    \/ Takes(c)
    \/ Renames(c)

LEMMA StepEffect ==
    ASSUME IInv, MInv, LInv, NEW c \in Call, Step(c)
    PROVE  Effect(c)
<1> USE DEF Effect
<1>1. CASE \/ \E r \in Requests : Ask(c, r)
           \/ ProbeMove(c) \/ TakeRunLock(c) \/ LoadRun(c) \/ RenderRun(c) \/ TakeWriteLock(c)
           \/ Judge(c) \/ Compose(c) \/ VerifyOk(c) \/ CheckCreate(c) \/ CheckLockWrite(c)
           \/ CheckRemove(c) \/ PlanMove(c)
  BY <1>1 DEF Ask, ProbeMove, TakeRunLock, LoadRun, RenderRun, TakeWriteLock, Judge, Compose,
         VerifyOk, CheckCreate, CheckLockWrite, CheckRemove, PlanMove, Quiet
<1>2. CASE RefuseMove(c) \/ LoadMissing(c) \/ Busy(c) \/ JudgeMissing(c) \/ ComposeMissing(c)
           \/ VerifyConflict(c) \/ CheckOccupied(c) \/ CheckRefused(c) \/ UnlinkGone(c)
           \/ MoveGone(c) \/ Crash(c)
  BY <1>2 DEF RefuseMove, LoadMissing, Busy, JudgeMissing, ComposeMissing, VerifyConflict,
         CheckOccupied, CheckRefused, UnlinkGone, MoveGone, Crash, Refuse
<1>3. CASE Promote(c)
  BY <1>3, PromotePuts DEF Promote
<1>4. CASE LandNext(c) \/ LandLast(c)
  BY <1>4, LandPuts DEF LandNext, LandLast
<1>5. CASE Restore(c)
  BY <1>5, RestorePuts DEF Restore
<1>6. CASE RestoreGone(c)
  BY <1>6 DEF RestoreGone
<1>7. CASE Unlink(c)
  <2>1. pc[c] = "unlink" /\ Old(c) \in Page
    BY <1>7 DEF Unlink, IInv, Paged
  <2> QED BY <1>7, <2>1 DEF Unlink, Takes, Vouched
<1>8. CASE Move(c)
  BY <1>8 DEF Move, Renames, Finish, Goto, IInv, Shape
<1>9. ASSUME NEW kind \in FaultKinds, PromoteFails(c, kind) PROVE Effect(c)
  <2>1. CASE disk' = disk
    BY <1>9, <2>1 DEF PromoteFails
  <2>2. CASE disk' = [disk EXCEPT ![req[c].to] = image[c][req[c].to] \cup {c}]
    BY <1>9, <2>2, PromotePuts DEF PromoteFails
  <2> QED BY <1>9, <2>1, <2>2 DEF PromoteFails, Struck
<1>10. ASSUME NEW kind \in FaultKinds, LandFails(c, kind) PROVE Effect(c)
  <2>1. CASE disk' = disk
    BY <1>10, <2>1 DEF LandFails
  <2>2. CASE disk' = [disk EXCEPT ![NextFile(c)] = Candidate(c, NextFile(c))]
    BY <1>10, <2>2, LandPuts DEF LandFails
  <2> QED BY <1>10, <2>1, <2>2 DEF LandFails, Struck
<1>11. ASSUME NEW kind \in FaultKinds, RestoreFails(c, kind) PROVE Effect(c)
  <2>1. CASE disk' = disk
    BY <1>11, <2>1 DEF RestoreFails
  <2>2. CASE disk' = [disk EXCEPT ![LastFile(c)] = image[c][LastFile(c)]]
    BY <1>11, <2>2, RestorePuts DEF RestoreFails
  <2> QED BY <1>11, <2>1, <2>2 DEF RestoreFails, Struck
<1>12. ASSUME NEW kind \in FaultKinds, UnlinkFails(c, kind) PROVE Effect(c)
  <2>1. pc[c] = "unlink" /\ Old(c) \in Page
    BY <1>12 DEF UnlinkFails, IInv, Paged
  <2> QED BY <1>12, <2>1 DEF UnlinkFails, Struck, Takes, Vouched
<1>13. ASSUME NEW kind \in FaultKinds, MoveFails(c, kind) PROVE Effect(c)
  BY <1>13 DEF MoveFails, Renames, Finish, Goto, IInv, Shape
<1> QED BY <1>1, <1>2, <1>3, <1>4, <1>5, <1>6, <1>7, <1>8, <1>9, <1>10, <1>11, <1>12, <1>13
        DEF Step

-----------------------------------------------------------------------------
(* A mark that is landed stays, or is counted among what was taken away *)

LEMMA BearingFinite ==
    ASSUME NEW S, S \subseteq Page
    PROVE  IsFiniteSet(S) /\ Cardinality(S) \in Nat
<1>1. IsFiniteSet(S)
  BY FS_Subset
<1> QED BY <1>1, FS_CardinalityType

LEMMA MoreBearing ==
    ASSUME NEW S, NEW T, S \subseteq T, T \subseteq Page
    PROVE  Cardinality(S) <= Cardinality(T)
BY BearingFinite, FS_Subset

LEMMA BearingGrows ==
    ASSUME IInv, MInv, LInv, NEW c \in Call, NEW d \in Call \ {c}, Effect(c), ~Renames(c)
    PROVE  Bearing(d) \subseteq Bearing(d)'
<1> SUFFICES ASSUME NEW p \in Page, d \in Marks(disk[p]) \cup removed[p]
             PROVE  d \in Marks(disk'[p]) \cup removed'[p]
  BY DEF Bearing
<1>0. disk[p] \in Content /\ p \in File
  BY DEF LInv, Typed, File
<1>1. CASE UNCHANGED <<disk, removed>>
  BY <1>1
<1>2. ASSUME NEW f \in File, NEW x, Puts(c, f, x)
      PROVE  d \in Marks(disk'[p]) \cup removed'[p]
  <2>1. Marks(disk[f]) \cap Call \subseteq Marks(image[c][f]) \cup {c}
    BY <1>2 DEF LInv, Kept, Puts
  <2>2. CASE p = f
    <3>1. disk'[p] = x /\ removed' = removed
      BY <1>0, <1>2, <2>2 DEF Puts, LInv, Typed
    <3> QED BY <1>2, <2>1, <2>2, <3>1 DEF Puts
  <2>3. CASE p # f
    BY <1>2, <2>3 DEF Puts, LInv, Typed
  <2> QED BY <2>2, <2>3
<1>3. CASE Takes(c)
  <2>1. CASE p = Old(c)
    <3>1. Marks(disk[p]) \cap Call \subseteq Marks(image[c][p]) \cup {c} /\ image[c][p] # None
      BY <1>0, <1>3, <2>1 DEF LInv, Kept, Takes
    <3>2. Marks(image[c][p]) = image[c][p]
      BY <3>1 DEF Marks
    <3>3. removed'[p] = removed[p] \cup image[c][p]
      BY <1>3, <2>1 DEF Takes, LInv, Typed
    <3> QED BY <3>1, <3>2, <3>3
  <2>2. CASE p # Old(c)
    BY <1>0, <1>3, <2>2 DEF Takes, LInv, Typed
  <2> QED BY <2>1, <2>2
<1> QED BY <1>1, <1>2, <1>3 DEF Effect

(* A move carries a page's marks to its new name: with nothing at NEW, as  *)
(* many pages bear a call's mark as before.                                *)
LEMMA BearingMoves ==
    ASSUME IInv, MInv, LInv, NEW c \in Call, NEW d \in Call, Renames(c), disk[New(c)] = None
    PROVE  Cardinality(Bearing(d)) <= Cardinality(Bearing(d)')
<1>1. Old(c) \in Page /\ New(c) \in Page \ {Old(c)} /\ Old(c) \in File /\ New(c) \in File
  BY DEF Renames, IInv, Paged, MInv, Placed, LInv, Doored, File
<1>2. /\ disk'[New(c)] = disk[Old(c)] /\ disk'[Old(c)] = None
      /\ \A p \in Page \ {Old(c), New(c)} : disk'[p] = disk[p]
  BY <1>1 DEF Renames, Moved, LInv, Typed, File
<1>3. /\ removed'[New(c)] = removed[Old(c)] /\ removed'[Old(c)] = removed[New(c)]
      /\ \A p \in Page \ {Old(c), New(c)} : removed'[p] = removed[p]
  BY <1>1 DEF Renames, Renamed, LInv, Typed
<1> DEFINE S == Bearing(d)
           T == Bearing(d)'
           swap(p) == IF p = Old(c) THEN New(c) ELSE IF p = New(c) THEN Old(c) ELSE p
           g == [p \in S |-> swap(p)]
<1>4. S \subseteq Page /\ T \subseteq Page
  BY DEF Bearing
<1>5. ASSUME NEW p \in S PROVE swap(p) \in T
  <2>1. p \in Page /\ d \in Marks(disk[p]) \cup removed[p]
    BY <1>5 DEF Bearing
  <2>2. CASE p = Old(c)
    BY <1>1, <1>2, <1>3, <2>1, <2>2 DEF Bearing
  <2>3. CASE p = New(c)
    BY <1>1, <1>2, <1>3, <2>1, <2>3 DEF Bearing, Marks
  <2>4. CASE p \notin {Old(c), New(c)}
    BY <1>2, <1>3, <2>1, <2>4 DEF Bearing
  <2> QED BY <2>2, <2>3, <2>4
<1>6. g \in Injection(S, T)
  <2> HIDE DEF S, T
  <2>1. g \in [S -> T]
    BY <1>5
  <2>2. \A p, q \in S : g[p] = g[q] => p = q
    BY <1>1
  <2> QED BY <2>1, <2>2 DEF Injection, IsInjective
<1> HIDE DEF S, T, g
<1>7. Cardinality(S) <= Cardinality(T)
  BY <1>4, <1>6, BearingFinite, FS_Injection
<1> QED BY <1>7 DEF S, T

LEMMA LandedStays ==
    ASSUME IInv, MInv, LInv, NoClobber, NEW c \in Call, NEW d \in Call \ {c}, Effect(c),
           req'[d] = req[d], req[d] \in Requests, Landed(d)
    PROVE  Landed(d)'
<1>1. Cardinality(Bearing(d)) <= Cardinality(Bearing(d)')
  <2>1. CASE ~Renames(c)
    <3>1. Bearing(d)' \subseteq Page
      BY DEF Bearing
    <3> QED BY <2>1, <3>1, BearingGrows, MoreBearing
  <2>2. CASE Renames(c)
    <3>1. disk[New(c)] = None
      <4>1. CASE disk' # disk
        BY <2>2, <4>1 DEF Renames, NoClobber
      <4>2. CASE disk' = disk
        <5>1. Old(c) \in Page /\ New(c) \in Page \ {Old(c)}
          BY <2>2 DEF Renames, IInv, Paged, MInv, Placed, LInv, Doored
        <5>2. disk'[New(c)] = disk[Old(c)] /\ disk'[Old(c)] = None
          BY <2>2, <5>1 DEF Renames, Moved, LInv, Typed, File
        <5> QED BY <4>2, <5>2
      <4> QED BY <4>1, <4>2
    <3> QED BY <2>2, <3>1, BearingMoves
  <2> QED BY <2>1, <2>2
<1>2. Bearing(d) \subseteq Page /\ Bearing(d)' \subseteq Page
  BY DEF Bearing
<1>3. Cardinality(Bearing(d)) \in Nat /\ Cardinality(Bearing(d)') \in Nat
  BY <1>2, BearingFinite
<1>4. Len(req[d].pages) \in Nat
  BY RequestsAssumption
<1> QED BY <1>1, <1>3, <1>4 DEF Landed

(* An editor's delete is counted as taken away. *)
LEMMA EditBears ==
    ASSUME LInv, NEW p \in Page, Edit(p), NEW d \in Call
    PROVE  Bearing(d) \subseteq Bearing(d)'
<1> SUFFICES ASSUME NEW q \in Page, d \in Marks(disk[q]) \cup removed[q]
             PROVE  d \in Marks(disk'[q]) \cup removed'[q]
  BY DEF Bearing
<1>1. disk[p] # None /\ disk[p] \in SUBSET Mark /\ p \in File /\ q \in File
  BY DEF Edit, LInv, Typed, Content, File
<1>2. CASE disk' = [disk EXCEPT ![p] = @ \cup {Editor}] /\ removed' = removed
  <2>1. disk[p] \cup {Editor} # None
    BY <1>1, RequestsAssumption DEF Mark
  <2> QED BY <1>1, <1>2, <2>1 DEF LInv, Typed, Marks
<1>3. CASE disk' = [disk EXCEPT ![p] = None] /\ removed' = [removed EXCEPT ![p] = @ \cup disk[p]]
  BY <1>1, <1>3 DEF LInv, Typed, Marks
<1> QED BY <1>2, <1>3 DEF Edit

-----------------------------------------------------------------------------
(* A step and the other calls *)

LEMMA Confined ==
    ASSUME IInv, MInv, NEW c \in Call, Step(c)
    PROVE  Own(c) /\ (pc[c] \in Locked \/ UNCHANGED <<disk, removed>>)
<1>1. Own(c)
  BY QuietOwn, RefuseOwn, LandOwn DEF Step, MInv
<1>2. CASE \/ \E r \in Requests : Ask(c, r)
           \/ ProbeMove(c) \/ TakeRunLock(c) \/ LoadRun(c) \/ RenderRun(c) \/ TakeWriteLock(c)
           \/ Judge(c) \/ Compose(c) \/ VerifyOk(c) \/ CheckCreate(c) \/ CheckLockWrite(c)
           \/ CheckRemove(c) \/ PlanMove(c)
  BY <1>1, <1>2 DEF Ask, ProbeMove, TakeRunLock, LoadRun, RenderRun, TakeWriteLock, Judge, Compose,
         VerifyOk, CheckCreate, CheckLockWrite, CheckRemove, PlanMove, Quiet
<1>3. CASE RefuseMove(c) \/ LoadMissing(c) \/ Busy(c) \/ JudgeMissing(c) \/ ComposeMissing(c)
           \/ VerifyConflict(c) \/ CheckOccupied(c) \/ CheckRefused(c) \/ UnlinkGone(c)
           \/ MoveGone(c) \/ Crash(c)
  BY <1>1, <1>3 DEF RefuseMove, LoadMissing, Busy, JudgeMissing, ComposeMissing, VerifyConflict,
         CheckOccupied, CheckRefused, UnlinkGone, MoveGone, Crash, Refuse
<1> QED BY <1>1, <1>2, <1>3, LandOwn DEF Step, MInv

(* What another call has vouched for stays as it looked at it: that call   *)
(* holds the write lock.                                                   *)
LEMMA OthersVouch ==
    ASSUME IInv, MInv, LInv, NEW c \in Call, Step(c), NEW d \in Call \ {c}
    PROVE  (Doored(d) /\ Kept(d) /\ Landing(d))'
<1>1. /\ pc'[d] = pc[d] /\ req'[d] = req[d] /\ image'[d] = image[d]
      /\ todo'[d] = todo[d] /\ done'[d] = done[d] /\ answer'[d] = answer[d]
  BY Confined DEF Own
<1>2. Doored(d)'
  BY <1>1 DEF LInv, Doored
<1>3. pc[d] \in Locked => UNCHANGED <<disk, removed>>
  BY Confined DEF IInv, LockHeld
<1>4. Kept(d)'
  BY <1>1, <1>3 DEF LInv, Kept, Vouched, Old, Locked
<1>5. Landing(d)'
  BY <1>1, <1>3 DEF LInv, Landing, Bearing, Locked
<1> QED BY <1>2, <1>4, <1>5

LEMMA OthersAcked ==
    ASSUME IInv, MInv, LInv, NoClobber, NEW c \in Call, Step(c), NEW d \in Call \ {c}
    PROVE  Acked(d)'
<1>1. pc'[d] = pc[d] /\ req'[d] = req[d] /\ answer'[d] = answer[d]
  BY Confined DEF Own
<1>2. SUFFICES ASSUME answer[d] = "ok", req[d].door \in Writes, Landed(d)
               PROVE  Landed(d)'
  BY <1>1 DEF LInv, Acked
<1>3. pc[d] = "done" /\ req[d] \in Requests
  BY <1>2 DEF LInv, Acked, Doored
<1> QED BY <1>1, <1>2, <1>3, StepEffect, LandedStays

-----------------------------------------------------------------------------
(* Types *)

LEMMA FilesTyped ==
    ASSUME IInv, MInv, LInv, NEW c \in Call, Effect(c)
    PROVE  disk' \in [File -> Content] /\ removed' \in [Page -> SUBSET Mark]
<1>1. CASE UNCHANGED <<disk, removed>>
  BY <1>1 DEF LInv, Typed
<1>2. ASSUME NEW f \in File, NEW x, Puts(c, f, x)
      PROVE  disk' \in [File -> Content] /\ removed' \in [Page -> SUBSET Mark]
  BY <1>2 DEF LInv, Typed, Puts
<1>3. CASE Takes(c)
  <2>1. Old(c) \in Page /\ Old(c) \in File /\ image[c][Old(c)] # None
    BY <1>3 DEF Takes, LInv, Kept, File
  <2>2. image[c][Old(c)] \in SUBSET Mark
    BY <2>1 DEF LInv, Typed, Content
  <2>3. None \in Content
    BY DEF Content
  <2> QED BY <1>3, <2>1, <2>2, <2>3 DEF Takes, LInv, Typed
<1>4. CASE Renames(c)
  <2>1. Old(c) \in Page /\ New(c) \in Page /\ Old(c) \in File /\ None \in Content
    BY <1>4 DEF Renames, IInv, Paged, MInv, Placed, LInv, Doored, File, Content
  <2>2. /\ disk' = [disk EXCEPT ![New(c)] = disk[Old(c)], ![Old(c)] = None]
        /\ removed' = [removed EXCEPT ![New(c)] = removed[Old(c)], ![Old(c)] = removed[New(c)]]
    BY <1>4 DEF Renames, Moved, Renamed
  <2> QED BY <2>1, <2>2 DEF LInv, Typed
<1> QED BY <1>1, <1>2, <1>3, <1>4 DEF Effect

(* A pre-image is what a file held, or nothing. *)
LEMMA ImageTyped ==
    ASSUME IInv, MInv, LInv, NEW c \in Call, Step(c)
    PROVE  image' \in [Call -> [File -> Content]]
<1>1. image = [d \in Call |-> image[d]] /\ image' = [d \in Call |-> image'[d]]
  BY Confined DEF MInv, Fields, Own
<1>2. \A d \in Call \ {c} : image'[d] \in [File -> Content]
  BY Confined DEF Own, LInv, Typed
<1>3. Nothing \in [File -> Content] /\ None \in Content
  BY DEF Nothing, Content
<1>4. image'[c] \in [File -> Content]
  <2>1. CASE image' = image
    BY <2>1 DEF LInv, Typed
  <2>2. CASE image'[c] = Nothing
    BY <1>3, <2>2
  <2>3. ASSUME NEW f, image' = [image EXCEPT ![c][f] = disk[f]]
        PROVE  image'[c] \in [File -> Content]
    <3>1. image'[c] = [image[c] EXCEPT ![f] = disk[f]]
      BY <2>3 DEF LInv, Typed
    <3>2. image[c] \in [File -> Content] /\ \A g \in File : disk[g] \in Content
      BY DEF LInv, Typed
    <3> QED BY <3>1, <3>2
  <2>4. CASE Compose(c)
    BY <1>3, <2>4 DEF Compose, LInv, Typed
  <2>5. CASE PlanMove(c)
    BY <2>5 DEF PlanMove, LInv, Typed
  <2>6. ASSUME NEW r \in Requests, Ask(c, r) PROVE image'[c] \in [File -> Content]
    BY <2>1, <2>3, <2>6 DEF Ask
  <2>7. CASE LoadRun(c) \/ RenderRun(c) \/ Judge(c)
    BY <2>1, <2>3, <2>7 DEF LoadRun, RenderRun, Judge
  <2>8. ASSUME NEW a, Finish(c, a) PROVE image'[c] = Nothing
    BY <2>8 DEF Finish, LInv, Typed
  <2>9. CASE \/ ProbeMove(c) \/ TakeRunLock(c) \/ TakeWriteLock(c) \/ VerifyOk(c)
             \/ CheckCreate(c) \/ CheckLockWrite(c) \/ CheckRemove(c) \/ Promote(c) \/ LandNext(c)
    BY <2>1, <2>9 DEF ProbeMove, TakeRunLock, TakeWriteLock, VerifyOk, CheckCreate,
           CheckLockWrite, CheckRemove, Promote, LandNext, callVars
  <2>10. CASE LandLast(c)
    BY <2>1, <2>2, <2>8, <2>10 DEF LandLast, callVars
  <2>11. ASSUME NEW a, AfterRestore(c, a) PROVE image'[c] \in [File -> Content]
    BY <2>1, <2>2, <2>8, <2>11 DEF AfterRestore
  <2>12. CASE Restore(c) \/ RestoreGone(c)
    BY <2>11, <2>12 DEF Restore, RestoreGone
  <2>13. CASE Unlink(c) \/ Move(c)
    BY <2>2, <2>8, <2>13 DEF Unlink, Move
  <2>14. ASSUME NEW kind \in FaultKinds,
                PromoteFails(c, kind) \/ LandFails(c, kind) \/ RestoreFails(c, kind)
                    \/ UnlinkFails(c, kind) \/ MoveFails(c, kind)
         PROVE  image'[c] \in [File -> Content]
    BY <2>1, <2>2, <2>8, <2>11, <2>14
       DEF PromoteFails, LandFails, RestoreFails, UnlinkFails, MoveFails, callVars
  <2>15. CASE RefuseMove(c) \/ LoadMissing(c) \/ Busy(c) \/ JudgeMissing(c) \/ ComposeMissing(c)
              \/ VerifyConflict(c) \/ CheckOccupied(c) \/ CheckRefused(c) \/ UnlinkGone(c)
              \/ MoveGone(c) \/ Crash(c)
    BY <2>2, <2>8, <2>15, RefuseOwn DEF MInv
  <2> QED BY <2>4, <2>5, <2>6, <2>7, <2>9, <2>10, <2>12, <2>13, <2>14, <2>15 DEF Step
<1> QED BY <1>1, <1>2, <1>4

-----------------------------------------------------------------------------
(* The step's own call *)

Good(c) == Doored(c) /\ Kept(c) /\ Landing(c) /\ Acked(c)

LEMMA Answers ==
    ASSUME IInv, MInv, LInv, NEW c \in Call, NEW a, Finish(c, a), pc[c] # "idle",
           a = "ok" /\ req[c].door \in Writes => Landed(c)'
    PROVE  Good(c)'
<1>1. /\ pc'[c] = "done" /\ req' = req /\ done'[c] = 0 /\ answer'[c] = a
  BY DEF Finish, Goto, IInv, Shape, MInv, Fields
<1>2. Doored(c)'
  BY <1>1 DEF LInv, Doored
<1>3. Kept(c)' /\ Landing(c)'
  BY <1>1 DEF Kept, Vouched, Landing
<1> QED BY <1>1, <1>2, <1>3 DEF Acked, Good

LEMMA Asks ==
    ASSUME IInv, MInv, LInv, NEW c \in Call, NEW r \in Requests, Ask(c, r)
    PROVE  Good(c)'
<1>1. /\ pc[c] = "idle" /\ req'[c] = r /\ done' = done /\ answer' = answer
      /\ pc'[c] \in {"probe", "run", "lock"}
      /\ r.door = "create" => image' = image
  BY DEF Ask, Goto, Quiet, IInv, Shape
<1>2. Doored(c)'
  BY <1>1 DEF LInv, Doored
<1>3. Kept(c)' /\ Landing(c)'
  BY <1>1 DEF Kept, Vouched, Landing
<1>4. Acked(c)'
  BY <1>1 DEF LInv, Doored, Acked
<1> QED BY <1>2, <1>3, <1>4 DEF Good

\* A call that is neither asking nor done, and does not answer.
LEMMA Unanswered ==
    ASSUME LInv, NEW c \in Call, pc[c] # "done", answer' = answer
    PROVE  Acked(c)'
BY DEF LInv, Doored, Acked

LEMMA Readies ==
    ASSUME IInv, MInv, LInv, NEW c \in Call,
           ProbeMove(c) \/ TakeRunLock(c) \/ LoadRun(c) \/ RenderRun(c) \/ TakeWriteLock(c)
               \/ Compose(c)
    PROVE  Good(c)'
<1>1. /\ pc[c] \in {"probe", "run", "load", "render", "lock", "bracket", "compose"}
      /\ req' = req /\ done' = done /\ answer' = answer
  BY DEF ProbeMove, TakeRunLock, LoadRun, RenderRun, TakeWriteLock, Compose, Quiet, callVars
<1>2. pc'[c] \in {"lock", "load", "render", "bracket", "verify", "check", "plan", "read"}
  BY DEF ProbeMove, TakeRunLock, LoadRun, RenderRun, TakeWriteLock, Compose, Goto, IInv, Shape
<1>3. pc'[c] \in {"render", "bracket", "verify"} =>
          todo'[c] \in {req[c].pages, Append(req[c].pages, Receipt)}
  <2>1. CASE LoadRun(c) \/ Compose(c)
    BY <2>1 DEF LoadRun, Compose, Order, MInv, Fields
  <2>2. CASE RenderRun(c)
    BY <2>2 DEF RenderRun, LInv, Doored
  <2>3. CASE TakeWriteLock(c)
    <3>1. todo' = todo /\ (pc'[c] = "verify" => pc[c] = "bracket")
          /\ pc'[c] \notin {"render", "bracket"}
      BY <2>3 DEF TakeWriteLock, Goto, callVars, IInv, Shape
    <3> QED BY <3>1 DEF LInv, Doored
  <2>4. CASE ProbeMove(c) \/ TakeRunLock(c)
    BY <2>4 DEF ProbeMove, TakeRunLock, Goto, IInv, Shape
  <2> QED BY <2>1, <2>2, <2>3, <2>4
<1>4. pc'[c] = "plan" => req[c].door = "relocate"
  BY DEF ProbeMove, TakeRunLock, LoadRun, RenderRun, TakeWriteLock, Compose, Goto, IInv, Shape
<1>5. pc'[c] \in {"lock", "check"} => image' = image /\ pc[c] \in {"probe", "lock"}
  BY DEF ProbeMove, TakeRunLock, LoadRun, RenderRun, TakeWriteLock, Compose, Goto, callVars,
         IInv, Shape
<1>6. Doored(c)'
  BY <1>1, <1>2, <1>3, <1>4, <1>5 DEF LInv, Doored
<1>7. Kept(c)' /\ Landing(c)'
  BY <1>2 DEF Kept, Vouched, Landing
<1> QED BY <1>1, <1>6, <1>7, Unanswered DEF Good

\* What a call has just looked at under the write lock it may overwrite.
Looked(c) ==
    UNCHANGED <<disk, removed>> /\ \A f \in File : Vouched(c, f)' => image'[c][f] = disk[f]

LEMMA Vouches ==
    ASSUME IInv, MInv, LInv, NEW c \in Call,
           VerifyOk(c) \/ CheckCreate(c) \/ CheckLockWrite(c) \/ CheckRemove(c)
    PROVE  Good(c)' /\ Looked(c)
<1>1. /\ pc[c] \in {"verify", "check"} /\ disk' = disk /\ removed' = removed
      /\ req' = req /\ done' = done /\ answer' = answer /\ image' = image
  BY DEF VerifyOk, CheckCreate, CheckLockWrite, CheckRemove, Quiet, callVars
<1>2. req[c] \in Requests /\ done[c] = 0 /\ Old(c)' = Old(c)
  BY <1>1 DEF LInv, Doored, Old
<1>3. pc'[c] \in {"land", "unlink"}
  BY DEF VerifyOk, CheckCreate, CheckLockWrite, CheckRemove, Goto, IInv, Shape
<1>4. pc'[c] = "unlink" => CheckRemove(c)
  BY <1>3 DEF VerifyOk, CheckCreate, CheckLockWrite, CheckRemove, Goto, IInv, Shape
<1>5. pc'[c] = "land" => /\ req[c].door # "relocate"
                         /\ todo'[c] \in {req[c].pages, Append(req[c].pages, Receipt)}
  <2>1. CASE VerifyOk(c)
    BY <2>1 DEF VerifyOk, callVars, LInv, Doored, MInv, Placed, MoveSteps
  <2>2. CASE CheckCreate(c) \/ CheckLockWrite(c)
    BY <2>2 DEF CheckCreate, CheckLockWrite, MInv, Fields
  <2>3. CASE CheckRemove(c)
    BY <2>3 DEF CheckRemove, Goto, IInv, Shape
  <2> QED BY <2>1, <2>2, <2>3
<1>6. pc'[c] = "land" => Len(todo'[c]) \in Nat /\ Len(todo'[c]) > 0
  <2> SUFFICES ASSUME pc'[c] = "land" PROVE Len(todo'[c]) \in Nat /\ Len(todo'[c]) > 0
    OBVIOUS
  <2>1. todo'[c] \in {req[c].pages, Append(req[c].pages, Receipt)}
    BY <1>5
  <2> QED BY <1>2, <2>1, ListedMembers
<1>7. Doored(c)'
  <2>1. CASE pc'[c] = "land"
    BY <1>1, <1>2, <1>5, <1>6, <2>1 DEF LInv, Doored
  <2>2. CASE pc'[c] = "unlink"
    BY <1>1, <1>2, <1>4, <2>2 DEF LInv, Doored, CheckRemove
  <2> QED BY <1>3, <2>1, <2>2
<1>8. ASSUME NEW f \in File, Vouched(c, f)'
      PROVE  disk[f] = image[c][f] /\ (pc'[c] = "unlink" => image[c][f] # None)
  <2>1. CASE CheckRemove(c)
    <3>1. pc'[c] = "unlink"
      BY <2>1 DEF CheckRemove, Goto, IInv, Shape
    <3> QED BY <1>2, <1>8, <2>1, <3>1 DEF CheckRemove, AsRead, Vouched
  <2>2. CASE VerifyOk(c)
    <3>1. pc'[c] = "land" /\ todo' = todo
      BY <2>2 DEF VerifyOk, Goto, callVars, IInv, Shape
    <3>2. \E i \in 1 .. Len(todo[c]) : todo[c][i] = f
      BY <1>8, <3>1 DEF Vouched
    <3>3. todo[c] \in Seq(File)
      <4>1. todo[c] \in {req[c].pages, Append(req[c].pages, Receipt)}
        BY <1>5, <3>1
      <4> QED BY <1>2, <4>1, ListedMembers
    <3>4. DOMAIN todo[c] = 1 .. Len(todo[c])
      BY <3>3
    <3> QED BY <2>2, <3>1, <3>2, <3>4 DEF VerifyOk, Unmoved
  <2>3. CASE CheckCreate(c) \/ CheckLockWrite(c)
    <3>1. /\ pc'[c] = "land" /\ todo'[c] = req[c].pages
          /\ disk[Old(c)] = image[c][Old(c)]
      <4>1. CASE CheckCreate(c)
        <5>1. image[c] = Nothing /\ Old(c) \in File
          BY <1>1, <4>1 DEF LInv, Doored, CheckCreate, IInv, Paged, File
        <5> QED BY <4>1, <5>1 DEF CheckCreate, Goto, IInv, Shape, MInv, Fields, Nothing
      <4>2. CASE CheckLockWrite(c)
        BY <4>2 DEF CheckLockWrite, AsRead, Goto, IInv, Shape, MInv, Fields
      <4> QED BY <2>3, <4>1, <4>2
    <3>2. Len(req[c].pages) = 1
      BY <1>2, <2>3, RequestsAssumption DEF CheckCreate, CheckLockWrite
    <3>3. f = Old(c)
      BY <1>8, <3>1, <3>2 DEF Vouched, Old
    <3> QED BY <3>1, <3>3
  <2> QED BY <2>1, <2>2, <2>3
<1>9. Kept(c)'
  BY <1>1, <1>3, <1>5, <1>8 DEF Kept
<1>10. Landing(c)'
  BY <1>1, <1>2 DEF Landing
<1>11. Looked(c)
  BY <1>1, <1>8 DEF Looked
<1> QED BY <1>1, <1>7, <1>9, <1>10, <1>11, Unanswered DEF Good

LEMMA Judges ==
    ASSUME IInv, MInv, LInv, NEW c \in Call, Judge(c)
    PROVE  Good(c)' /\ Looked(c)
<1> DEFINE t == req[c].to
<1>1. /\ pc[c] = "read" /\ disk' = disk /\ removed' = removed /\ req' = req /\ done' = done /\ answer' = answer
      /\ t # None => disk[t] # None /\ image' = [image EXCEPT ![c][t] = disk[t]]
      /\ pc'[c] = IF t = None THEN "compose" ELSE "promote"
  BY DEF Judge, Quiet, Goto, IInv, Shape
<1>2. req[c] \in Requests
  BY <1>1 DEF LInv, Doored
<1>3. t \in Page \cup {None}
  BY <1>2, RequestsAssumption
<1>4. Doored(c)'
  <2>1. req[c].door = "set" => t = None
    BY <1>2, RequestsAssumption
  <2> QED BY <1>1, <1>3, <2>1 DEF LInv, Doored
<1>5. Kept(c)'
  <2> SUFFICES ASSUME t # None, NEW f \in File, f = t
               PROVE  Marks(disk[f]) \cap Call \subseteq Marks(image'[c][f]) \cup {c}
                      /\ image'[c][f] # None
    BY <1>1 DEF Kept, Vouched
  <2>1. image'[c][t] = disk[t]
    BY <1>1 DEF LInv, Typed
  <2> QED BY <1>1, <2>1
<1>6. Landing(c)'
  BY <1>1 DEF Landing
<1>7. Looked(c)
  <2>1. t # None => image'[c][t] = disk[t]
    BY <1>1, <1>3 DEF LInv, Typed, File
  <2> QED BY <1>1, <2>1 DEF Looked, Vouched
<1> QED BY <1>1, <1>4, <1>5, <1>6, <1>7, Unanswered DEF Good

LEMMA Plans ==
    ASSUME IInv, MInv, LInv, NEW c \in Call, PlanMove(c)
    PROVE  Good(c)' /\ Looked(c)
<1> DEFINE pages == {q \in Page : disk[q] # None /\ Old(c) \in disk[q]}
           L == SetToSeq(pages)
<1>1. IsFiniteSet(pages)
  BY FS_Subset
<1>2. L \in Seq(pages) /\ pages = {L[i] : i \in 1 .. Len(L)}
  BY <1>1, Listing
<1>3. /\ pc[c] = "plan" /\ disk' = disk /\ removed' = removed /\ req' = req /\ image'[c] = disk /\ todo'[c] = L
      /\ done' = done /\ answer' = answer /\ pc'[c] = IF pages = {} THEN "move" ELSE "land"
  BY DEF PlanMove, Goto, Quiet, IInv, Shape, MInv, Fields
<1>4. done'[c] = 0 /\ req[c].door = "relocate" /\ req[c] \in Requests
  BY <1>3 DEF LInv, Doored
<1>5. \A f \in pages : disk[f] # None
  OBVIOUS
<1> HIDE DEF L, pages
<1>6. pages # {} => Len(L) > 0 /\ Len(L) \in Nat
  BY <1>2
<1>7. Doored(c)'
  BY <1>3, <1>4, <1>6 DEF LInv, Doored
<1>8. Kept(c)'
  <2> SUFFICES ASSUME NEW f \in File, Vouched(c, f)'
               PROVE  Marks(disk'[f]) \cap Call \subseteq Marks(image'[c][f]) \cup {c}
                      /\ image'[c][f] # None
    BY DEF Kept
  <2>1. f \in pages
    BY <1>2, <1>3 DEF Vouched
  <2> QED BY <1>3, <1>5, <2>1
<1>9. Landing(c)'
  BY <1>3, <1>4 DEF Landing
<1>10. Looked(c)
  BY <1>3 DEF Looked
<1> QED BY <1>3, <1>7, <1>8, <1>9, <1>10, Unanswered DEF Good

(* Nothing but the call's own writing happens to what it vouched for. *)
LEMMA KeptStays ==
    ASSUME LInv, NEW c \in Call, pc[c] \in {"land", "restore"}, pc'[c] \in {"land", "restore"},
           req'[c] = req[c], image'[c] = image[c], todo'[c] = todo[c],
           disk' = disk \/ \E f \in File : \E x : Puts(c, f, x)
    PROVE  Kept(c)'
<1> SUFFICES ASSUME NEW f \in File, Vouched(c, f)
             PROVE  Marks(disk'[f]) \cap Call \subseteq Marks(image[c][f]) \cup {c}
  BY DEF LInv, Kept, Vouched
<1>1. Marks(disk[f]) \cap Call \subseteq Marks(image[c][f]) \cup {c}
  BY DEF LInv, Kept
<1>2. ASSUME NEW g \in File, NEW x, Puts(c, g, x)
      PROVE  Marks(disk'[f]) \cap Call \subseteq Marks(image[c][f]) \cup {c}
  <2>1. CASE f = g
    BY <1>2, <2>1 DEF Puts, LInv, Typed
  <2>2. CASE f # g
    BY <1>1, <1>2, <2>2 DEF Puts, LInv, Typed
  <2> QED BY <2>1, <2>2
<1> QED BY <1>1, <1>2

LEMMA Promotes ==
    ASSUME IInv, MInv, LInv, NEW c \in Call, Promote(c)
    PROVE  Good(c)'
<1>1. /\ pc[c] = "promote" /\ pc'[c] = "compose"
      /\ req' = req /\ done' = done /\ answer' = answer
  BY DEF Promote, Goto, callVars, IInv, Shape
<1>2. Doored(c)'
  BY <1>1 DEF LInv, Doored
<1>3. Kept(c)' /\ Landing(c)'
  BY <1>1 DEF Kept, Vouched, Landing
<1> QED BY <1>1, <1>2, <1>3, Unanswered DEF Good

(* A file has landed: its page bears the call's mark, and so do those      *)
(* before it.                                                              *)
LEMMA LandingGrows ==
    ASSUME IInv, MInv, LInv, NEW c \in Call, pc[c] = "land", req[c].door # "relocate",
           disk' = [disk EXCEPT ![NextFile(c)] = Candidate(c, NextFile(c))], removed' = removed
    PROVE  \A i \in 1 .. done[c] + 1 : todo[c][i] \in Page => todo[c][i] \in Bearing(c)'
<1>1. done[c] \in 0 .. Len(todo[c]) - 1
  BY DEF LInv, Doored
<1>2. NextFile(c) \in File /\ c \in Candidate(c, NextFile(c)) /\ Candidate(c, NextFile(c)) # None
  <2>1. NextFile(c) \in File /\ Vouched(c, NextFile(c))
    BY LandPuts DEF Puts
  <2> QED BY <2>1, CandidateKeeps
<1>3. disk'[NextFile(c)] = Candidate(c, NextFile(c))
      /\ \A f \in File : f # NextFile(c) => disk'[f] = disk[f]
  BY <1>2 DEF LInv, Typed
<1> SUFFICES ASSUME NEW i \in 1 .. done[c] + 1, todo[c][i] \in Page
             PROVE  c \in Marks(disk'[todo[c][i]]) \cup removed'[todo[c][i]]
  BY DEF Bearing
<1>4. CASE todo[c][i] = NextFile(c)
  BY <1>2, <1>3, <1>4 DEF Marks
<1>5. CASE todo[c][i] # NextFile(c)
  <2>1. i \in 1 .. done[c]
    BY <1>1, <1>5 DEF NextFile
  <2>2. c \in Marks(disk[todo[c][i]]) \cup removed[todo[c][i]]
    BY <2>1 DEF LInv, Landing, Bearing
  <2> QED BY <1>3, <1>5, <2>2 DEF File
<1> QED BY <1>4, <1>5

LEMMA LandsNext ==
    ASSUME IInv, MInv, LInv, NEW c \in Call, LandNext(c)
    PROVE  Good(c)'
<1>1. /\ pc[c] = "land" /\ pc' = pc /\ req' = req /\ image' = image /\ todo' = todo
      /\ answer' = answer /\ removed' = removed /\ done'[c] = done[c] + 1
      /\ disk' = [disk EXCEPT ![NextFile(c)] = Candidate(c, NextFile(c))]
      /\ done[c] + 1 < Len(todo[c])
  BY DEF LandNext, MInv, Fields
<1>2. done[c] \in 0 .. Len(todo[c]) - 1 /\ Len(todo[c]) \in Nat
  BY <1>1, TodoFiles DEF LInv, Doored
<1>3. Doored(c)'
  BY <1>1, <1>2 DEF LInv, Doored
<1>4. Kept(c)'
  BY <1>1, LandPuts, KeptStays
<1>5. Landing(c)'
  BY <1>1, <1>2, LandingGrows DEF Landing
<1> QED BY <1>1, <1>3, <1>4, <1>5, Unanswered DEF Good

(* The last file has landed, synced or not: so has the whole edit. *)
LastLands(c) ==
    /\ pc[c] = "land" /\ done[c] + 1 = Len(todo[c]) /\ removed' = removed /\ req' = req
    /\ disk' = [disk EXCEPT ![NextFile(c)] = Candidate(c, NextFile(c))]

LEMMA LandedWhole ==
    ASSUME IInv, MInv, LInv, NEW c \in Call, LastLands(c), req[c].door # "relocate"
    PROVE  Landed(c)'
<1>1. /\ pc[c] = "land" /\ done[c] + 1 = Len(todo[c]) /\ removed' = removed /\ req' = req
      /\ disk' = [disk EXCEPT ![NextFile(c)] = Candidate(c, NextFile(c))]
  BY DEF LastLands
<1> DEFINE r == req[c]
           n == Len(r.pages)
           B == Bearing(c)'
<1>2. r \in Requests /\ todo[c] \in {r.pages, Append(r.pages, Receipt)}
  BY <1>1 DEF LInv, Doored
<1>3. /\ n \in Nat /\ Len(todo[c]) \in {n, n + 1}
      /\ \A i \in 1 .. n : todo[c][i] = r.pages[i] /\ todo[c][i] \in Page
  BY <1>2, ListedMembers
<1>4. \A i \in 1 .. n : r.pages[i] \in B
  <2> TAKE i \in 1 .. n
  <2>1. i \in 1 .. done[c] + 1
    BY <1>1, <1>3
  <2> QED BY <1>1, <1>3, <2>1, LandingGrows
<1>5. r.pages \in [1 .. n -> Page] /\ IsInjective(r.pages)
  BY <1>2, RequestsAssumption
<1>6. r.pages \in Injection(1 .. n, B)
  BY <1>4, <1>5 DEF Injection
<1>7. B \subseteq Page
  BY DEF Bearing
<1> HIDE DEF B
<1>8. n <= Cardinality(B)
  <2>0. \A k \in Nat : IsFiniteSet(1 .. k) /\ Cardinality(1 .. k) = k
    BY FS_Interval
  <2>1. IsFiniteSet(1 .. n) /\ Cardinality(1 .. n) = n
    BY <1>3, <2>0
  <2> QED BY <1>6, <1>7, <2>1, BearingFinite, FS_Injection
<1> QED BY <1>1, <1>8 DEF Landed, B

LEMMA LandsLast ==
    ASSUME IInv, MInv, LInv, NEW c \in Call, LandLast(c)
    PROVE  Good(c)'
<1>1. CASE req[c].door = "relocate"
  <2>1. /\ pc'[c] = "move" /\ req' = req /\ answer' = answer /\ pc[c] = "land"
    BY <1>1 DEF LandLast, Goto, callVars, IInv, Shape
  <2>2. Doored(c)'
    BY <1>1, <2>1 DEF LInv, Doored
  <2>3. Kept(c)' /\ Landing(c)'
    BY <2>1 DEF Kept, Vouched, Landing
  <2> QED BY <2>1, <2>2, <2>3, Unanswered DEF Good
<1>2. CASE req[c].door # "relocate"
  <2>1. Finish(c, "ok") /\ pc[c] # "idle" /\ LastLands(c)
    BY <1>2 DEF LandLast, LastLands, Finish
  <2> QED BY <1>2, <2>1, LandedWhole, Answers
<1> QED BY <1>1, <1>2

LEMMA LandsFail ==
    ASSUME IInv, MInv, LInv, NEW c \in Call, NEW kind \in FaultKinds, LandFails(c, kind)
    PROVE  Good(c)'
<1>1. CASE RollsBack(c)
  <2>1. /\ pc[c] = "land" /\ pc'[c] = "restore" /\ req' = req /\ image' = image /\ todo' = todo
        /\ done' = done /\ answer' = answer /\ removed' = removed
        /\ req[c].door = "set" /\ done[c] > 0
    BY <1>1 DEF LandFails, RollsBack, Goto, callVars, IInv, Shape
  <2>2. done[c] \in 0 .. Len(todo[c]) - 1 /\ Len(todo[c]) \in Nat
    BY <2>1, TodoFiles DEF LInv, Doored
  <2>3. Doored(c)'
    BY <2>1, <2>2 DEF LInv, Doored
  <2>4. disk' = disk \/ disk' = [disk EXCEPT ![NextFile(c)] = Candidate(c, NextFile(c))]
    BY DEF LandFails, Struck
  <2>5. Kept(c)'
    BY <2>1, <2>4, LandPuts, KeptStays
  <2>6. Landing(c)'
    BY <2>1 DEF Landing
  <2> QED BY <2>1, <2>3, <2>5, <2>6, Unanswered DEF Good
<1>2. CASE ~RollsBack(c)
  <2>1. Finish(c, "io") /\ pc[c] # "idle"
    BY <1>2 DEF LandFails
  <2> QED BY <2>1, Answers
<1> QED BY <1>1, <1>2

LEMMA RestoresOn ==
    ASSUME IInv, MInv, LInv, NEW c \in Call, NEW a \in {answer[c], "incomplete"},
           AfterRestore(c, a), pc[c] = "restore", removed' = removed,
           disk' = disk \/ disk' = [disk EXCEPT ![LastFile(c)] = image[c][LastFile(c)]]
    PROVE  Good(c)'
<1>1. CASE done[c] > 1
  <2>1. /\ pc' = pc /\ req' = req /\ image' = image /\ todo' = todo
        /\ done'[c] = done[c] - 1 /\ answer'[c] = a
    BY <1>1 DEF AfterRestore, MInv, Fields
  <2>2. done[c] \in 1 .. Len(todo[c]) /\ Len(todo[c]) \in Nat
    BY TodoFiles DEF LInv, Doored
  <2>3. a \in {"none", "incomplete"}
    BY DEF LInv, Doored
  <2>4. Doored(c)'
    BY <1>1, <2>1, <2>2, <2>3 DEF LInv, Doored
  <2>5. Kept(c)'
    BY <2>1, RestorePuts, KeptStays
  <2>6. Landing(c)' /\ Acked(c)'
    BY <2>1, <2>3 DEF Landing, Acked
  <2> QED BY <2>4, <2>5, <2>6 DEF Good
<1>2. CASE ~(done[c] > 1)
  <2>1. PICK b \in {"incomplete", "io"} : Finish(c, b)
    BY <1>2 DEF AfterRestore
  <2> QED BY <2>1, Answers
<1> QED BY <1>1, <1>2

LEMMA Restores ==
    ASSUME IInv, MInv, LInv, NEW c \in Call,
           Restore(c) \/ RestoreGone(c) \/ \E kind \in FaultKinds : RestoreFails(c, kind)
    PROVE  Good(c)'
<1>1. CASE Restore(c)
  BY <1>1, RestoresOn DEF Restore
<1>2. CASE RestoreGone(c)
  BY <1>2, RestoresOn DEF RestoreGone
<1>3. ASSUME NEW kind \in FaultKinds, RestoreFails(c, kind) PROVE Good(c)'
  BY <1>3, RestoresOn DEF RestoreFails, Struck
<1> QED BY <1>1, <1>2, <1>3

-----------------------------------------------------------------------------
LEMMA OwnGood ==
    ASSUME IInv, MInv, LInv, NEW c \in Call, Step(c)
    PROVE  Good(c)'
<1>1. CASE \E r \in Requests : Ask(c, r)
  BY <1>1, Asks
<1>2. CASE RefuseMove(c) \/ LoadMissing(c) \/ Busy(c) \/ JudgeMissing(c) \/ ComposeMissing(c)
           \/ VerifyConflict(c) \/ CheckOccupied(c) \/ CheckRefused(c) \/ UnlinkGone(c)
           \/ MoveGone(c) \/ Crash(c)
  <2>1. PICK a : a # "ok" /\ Finish(c, a) /\ pc[c] # "idle"
    BY <1>2, RefuseOwn DEF MInv
  <2> QED BY <2>1, Answers
<1>3. CASE Unlink(c) \/ Move(c)
  <2>1. Finish(c, "ok") /\ pc[c] \in {"unlink", "move"}
    BY <1>3 DEF Unlink, Move
  <2>2. req[c].door \notin Writes
    BY <2>1 DEF LInv, Doored, Writes
  <2> QED BY <2>1, <2>2, Answers
<1>4. ASSUME NEW kind \in FaultKinds,
             PromoteFails(c, kind) \/ UnlinkFails(c, kind) \/ MoveFails(c, kind)
      PROVE  Good(c)'
  <2>1. Finish(c, "io") /\ pc[c] # "idle"
    BY <1>4 DEF PromoteFails, UnlinkFails, MoveFails
  <2> QED BY <2>1, Answers
<1>5. ASSUME NEW kind \in FaultKinds, LandFails(c, kind) PROVE Good(c)'
  BY <1>5, LandsFail
<1>6. ASSUME NEW kind \in FaultKinds, RestoreFails(c, kind) PROVE Good(c)'
  BY <1>6, Restores
<1> QED BY <1>1, <1>2, <1>3, <1>4, <1>5, <1>6, Readies, Vouches, Judges, Plans, Promotes,
           LandsNext, LandsLast, Restores DEF Step

LEMMA EditLands ==
    ASSUME IInv, MInv, LInv, NEW p \in Page, Edit(p)
    PROVE  LInv'
<1>1. UNCHANGED <<pc, req, image, todo, done, answer>> /\ p \in File /\ disk[p] # None
  BY DEF Edit, callVars, File
<1>2. disk[p] \in SUBSET Mark
  BY <1>1 DEF LInv, Typed, Content
<1>3. Typed'
  <2>1. disk[p] \cup {Editor} \in Content /\ None \in Content /\ removed[p] \cup disk[p] \in SUBSET Mark
    BY <1>2 DEF LInv, Typed, Content, Mark
  <2>2. disk \in [File -> Content] /\ removed \in [Page -> SUBSET Mark]
        /\ image \in [Call -> [File -> Content]]
    BY DEF LInv, Typed
  <2>3. disk' \in [File -> Content]
    <3>1. \/ disk' = [disk EXCEPT ![p] = disk[p] \cup {Editor}]
          \/ disk' = [disk EXCEPT ![p] = None]
      BY DEF Edit
    <3> QED BY <2>1, <2>2, <3>1
  <2>4. removed' \in [Page -> SUBSET Mark]
    <3>1. \/ removed' = removed
          \/ removed' = [removed EXCEPT ![p] = removed[p] \cup disk[p]]
      BY DEF Edit
    <3> QED BY <2>1, <2>2, <3>1
  <2> QED BY <1>1, <2>2, <2>3, <2>4 DEF Typed
<1>4. \A f \in File : Marks(disk'[f]) \cap Call \subseteq Marks(disk[f])
  <2>1. Editor \notin Call
    BY RequestsAssumption
  <2> QED BY <1>1, <1>2, <2>1 DEF Edit, LInv, Typed, Marks
<1>5. ASSUME NEW c \in Call PROVE Doored(c)' /\ Kept(c)'
  BY <1>1, <1>4 DEF LInv, Doored, Kept, Vouched, Old
<1>6. ASSUME NEW c \in Call PROVE Landing(c)' /\ Acked(c)'
  <2>1. Bearing(c) \subseteq Bearing(c)'
    BY EditBears
  <2>2. Landing(c)'
    BY <1>1, <2>1 DEF LInv, Landing
  <2>3. Acked(c)'
    <3> SUFFICES ASSUME answer[c] = "ok", req[c].door \in Writes, Landed(c)
                 PROVE  Landed(c)'
      BY <1>1 DEF LInv, Acked
    <3>1. req[c] \in Requests
      BY DEF LInv, Acked, Doored
    <3>2. Len(req[c].pages) \in Nat
      BY <3>1, RequestsAssumption
    <3>3. Bearing(c) \subseteq Page /\ Bearing(c)' \subseteq Page
      BY DEF Bearing
    <3>4. /\ Cardinality(Bearing(c)) <= Cardinality(Bearing(c)')
          /\ Cardinality(Bearing(c)) \in Nat /\ Cardinality(Bearing(c)') \in Nat
      BY <2>1, <3>3, MoreBearing, BearingFinite
    <3> QED BY <1>1, <3>2, <3>4 DEF Landed
  <2> QED BY <2>2, <2>3
<1> QED BY <1>3, <1>5, <1>6 DEF LInv

LEMMA InitLands == Init => LInv
<1> SUFFICES ASSUME Init PROVE LInv
  OBVIOUS
<1>1. Typed
  <2>1. \A p \in Page : Start[p] \in Content /\ None \in Content
    BY DEF Content, Mark
  <2>2. Nothing \in [File -> Content]
    BY DEF Nothing, Content
  <2>3. disk \in [File -> Content]
    <3>1. \A f \in File : (IF f = Receipt THEN None ELSE Start[f]) \in Content
      BY <2>1 DEF File, Content
    <3> QED BY <3>1 DEF Init
  <2>4. image \in [Call -> [File -> Content]] /\ removed \in [Page -> SUBSET Mark]
    BY <2>2 DEF Init
  <2> QED BY <2>3, <2>4 DEF Typed
<1>2. ASSUME NEW c \in Call PROVE Doored(c) /\ Kept(c) /\ Landing(c) /\ Acked(c)
  BY DEF Init, Doored, Kept, Vouched, Landing, Acked
<1> QED BY <1>1, <1>2 DEF LInv

LEMMA LandStepKeeps == IInv /\ MInv /\ LInv /\ NoClobber /\ [Next]_vars => LInv'
<1> SUFFICES ASSUME IInv, MInv, LInv, NoClobber, [Next]_vars PROVE LInv'
  OBVIOUS
<1>1. ASSUME NEW c \in Call, Step(c) PROVE LInv'
  <2>1. Typed'
    BY <1>1, StepEffect, FilesTyped, ImageTyped DEF Typed
  <2>2. Good(c)'
    BY <1>1, OwnGood
  <2>3. ASSUME NEW d \in Call PROVE (Doored(d) /\ Kept(d) /\ Landing(d) /\ Acked(d))'
    <3>1. CASE d = c
      BY <2>2, <3>1 DEF Good
    <3>2. CASE d # c
      BY <1>1, <3>2, OthersVouch, OthersAcked
    <3> QED BY <3>1, <3>2
  <2> QED BY <2>1, <2>3 DEF LInv
<1>2. CASE UNCHANGED vars
  <2>1. UNCHANGED <<disk, pc, req, image, todo, done, answer, removed>>
    BY <1>2 DEF vars
  <2>2. Typed'
    BY <2>1 DEF LInv, Typed
  <2>3. ASSUME NEW c \in Call PROVE (Doored(c) /\ Kept(c) /\ Landing(c) /\ Acked(c))'
    <3>1. Bearing(c)' = Bearing(c) /\ Old(c)' = Old(c)
      BY <2>1 DEF Bearing, Old
    <3>2. (Doored(c) /\ Kept(c))'
      BY <2>1, <3>1 DEF LInv, Doored, Kept, Vouched
    <3>3. (Landing(c) /\ Acked(c))'
      BY <2>1, <3>1 DEF LInv, Landing, Acked, Landed
    <3> QED BY <3>2, <3>3
  <2> QED BY <2>2, <2>3 DEF LInv
<1> QED BY <1>1, <1>2, EditLands DEF Next

(* When every run is armed and no move replaces a page, what a door or a    *)
(* run acknowledged is in its pages until somebody takes the page away: no *)
(* commit, restore, anchor or move writes an older image over it.  The     *)
(* hypothesis is needed: the run `clobbered` shows a move replacing a page *)
(* (relocate.rs commit, write.rs under WriteLock, fs apply_batch).         *)
THEOREM AckedStaysHolds == ArmedRuns => (Spec /\ [][NoClobber]_vars => []AckedStays)
<1>1. LInv => AckedStays
  BY DEF LInv, Acked, AckedStays
<1>2. CASE ArmedRuns
  <2>1. IInv /\ [Next]_vars => IInv'
    BY <1>2, StepKeeps
  <2>2. IInv /\ MInv /\ LInv /\ [Next]_vars /\ [NoClobber]_vars => LInv'
    <3>1. vars' = vars => NoClobber
      BY DEF vars, NoClobber
    <3> QED BY <3>1, LandStepKeeps
  <2> QED BY <1>1, <2>1, <2>2, InitHolds, InitMoves, InitLands, MoveKeeps, PTL DEF Spec
<1> QED BY <1>2

(* With no move among the requests the hypothesis holds by itself.         *)
THEOREM AckedStaysUnmoved ==
    ArmedRuns /\ (\A r \in Requests : r.door # "relocate") => (Spec => []AckedStays)
<1>1. CASE ArmedRuns /\ \A r \in Requests : r.door # "relocate"
  <2>1. IInv /\ [Next]_vars => IInv'
    BY <1>1, StepKeeps
  <2>2. LInv => NoClobber
    BY <1>1 DEF LInv, Doored, NoClobber
  <2>3. IInv /\ MInv /\ LInv /\ [Next]_vars => LInv'
    BY <2>2, LandStepKeeps
  <2>4. LInv => AckedStays
    BY DEF LInv, Acked, AckedStays
  <2> QED BY <2>1, <2>3, <2>4, InitHolds, InitMoves, InitLands, MoveKeeps, PTL DEF Spec
<1> QED BY <1>1

-----------------------------------------------------------------------------
(* Receipts and rollbacks *)

(* A call whose marks may be in some of its pages only. *)
Excused(c) ==
    answer[c] \in {"ok", "incomplete", "died"} \/ (pc[c] # "idle" /\ req[c].door # "set")

(* A receipt row, and a row in an image of the receipt file that is about  *)
(* to be written.                                                          *)
Rowed(c) ==
    \/ c \in Marks(disk[Receipt])
    \/ \E d \in Call : Vouched(d, Receipt) /\ c \in Marks(image[d][Receipt])
Spilt(c) == req[c].door = "set" /\ <<c, "sync", Receipt>> \in faults
Rows(c) == Rowed(c) => Spilt(c) \/ (pc[c] = "done" /\ Landed(c))

(* A set's marks are in what it has landed and not put back, and in a      *)
(* spot h: where the member that failed after its rename has got to.  No   *)
(* image that is about to be written has them elsewhere.                   *)
Marked(c, h) ==
    \A p \in Page : c \in Marks(disk[p]) =>
        p = h \/ (pc[c] \in {"land", "restore"} /\ \E i \in 1 .. done[c] : todo[c][i] = p)
Sourced(c, h) ==
    \A d \in Call : \A p \in Page : Vouched(d, p) /\ c \in Marks(image[d][p]) => p = h

\* With the receipt for a spot no page is one.
Extent(c) ==
    Excused(c) \/ \E h \in File : (h \in Page => Lapsed(c)) /\ Marked(c, h) /\ Sourced(c, h)

(* A call of which a step failed rolls back or is over. *)
Unfailed(c) == pc[c] \notin {"restore", "done"} => \A x \in faults : x[1] # c

RInv == \A c \in Call : Rows(c) /\ Extent(c) /\ Unfailed(c)

-----------------------------------------------------------------------------
LEMMA Working ==
    ASSUME IInv, MInv, NEW c \in Call, Step(c)
    PROVE  pc[c] # "done"
<1>1. CASE \/ \E r \in Requests : Ask(c, r)
           \/ ProbeMove(c) \/ TakeRunLock(c) \/ LoadRun(c) \/ RenderRun(c) \/ TakeWriteLock(c)
           \/ Judge(c) \/ Compose(c) \/ VerifyOk(c) \/ CheckCreate(c) \/ CheckLockWrite(c)
           \/ CheckRemove(c) \/ PlanMove(c)
  BY <1>1 DEF Ask, ProbeMove, TakeRunLock, LoadRun, RenderRun, TakeWriteLock, Judge, Compose,
         VerifyOk, CheckCreate, CheckLockWrite, CheckRemove, PlanMove
<1>2. CASE RefuseMove(c) \/ LoadMissing(c) \/ Busy(c) \/ JudgeMissing(c) \/ ComposeMissing(c)
           \/ VerifyConflict(c) \/ CheckOccupied(c) \/ CheckRefused(c) \/ UnlinkGone(c)
           \/ MoveGone(c) \/ Crash(c)
  BY <1>2 DEF RefuseMove, LoadMissing, Busy, JudgeMissing, ComposeMissing, VerifyConflict,
         CheckOccupied, CheckRefused, UnlinkGone, MoveGone, Crash
<1> QED BY <1>1, <1>2, LandOwn DEF Step, MInv, Locked

(* What a call asked stays what it asked. *)
LEMMA SameAsk ==
    ASSUME IInv, MInv, NEW c \in Call, Step(c), pc[c] # "idle"
    PROVE  req'[c] = req[c] /\ pc'[c] # "idle"
<1>1. \A r \in Requests : ~Ask(c, r)
  BY DEF Ask
<1>2. ASSUME NEW a, Finish(c, a) PROVE req' = req /\ pc'[c] # "idle"
  BY <1>2 DEF Finish, Goto, IInv, Shape
<1>3. CASE \/ ProbeMove(c) \/ TakeRunLock(c) \/ LoadRun(c) \/ RenderRun(c) \/ TakeWriteLock(c)
           \/ Judge(c) \/ Compose(c) \/ VerifyOk(c) \/ CheckCreate(c) \/ CheckLockWrite(c)
           \/ CheckRemove(c) \/ PlanMove(c) \/ Promote(c) \/ LandNext(c)
  BY <1>3 DEF ProbeMove, TakeRunLock, LoadRun, RenderRun, TakeWriteLock, Judge, Compose,
         VerifyOk, CheckCreate, CheckLockWrite, CheckRemove, PlanMove, Promote, LandNext, Goto,
         callVars, IInv, Shape
<1>4. CASE RefuseMove(c) \/ LoadMissing(c) \/ Busy(c) \/ JudgeMissing(c) \/ ComposeMissing(c)
           \/ VerifyConflict(c) \/ CheckOccupied(c) \/ CheckRefused(c) \/ UnlinkGone(c)
           \/ MoveGone(c) \/ Crash(c)
  BY <1>2, <1>4, RefuseOwn DEF MInv
<1>5. ASSUME NEW a, AfterRestore(c, a) PROVE req' = req /\ pc'[c] # "idle"
  BY <1>2, <1>5 DEF AfterRestore
<1>6. CASE LandLast(c) \/ Restore(c) \/ RestoreGone(c) \/ Unlink(c) \/ Move(c)
  BY <1>2, <1>5, <1>6 DEF LandLast, Restore, RestoreGone, Unlink, Move, Goto, callVars, IInv, Shape
<1>7. ASSUME NEW kind \in FaultKinds,
             PromoteFails(c, kind) \/ LandFails(c, kind) \/ RestoreFails(c, kind)
                 \/ UnlinkFails(c, kind) \/ MoveFails(c, kind)
      PROVE  req' = req /\ pc'[c] # "idle"
  BY <1>2, <1>5, <1>7 DEF PromoteFails, LandFails, RestoreFails, UnlinkFails, MoveFails, Goto,
     callVars, IInv, Shape
<1> QED BY <1>1, <1>3, <1>4, <1>6, <1>7 DEF Step

\* What is left of a rollback: its own steps, or the death of its process.
LEMMA Restoring ==
    ASSUME IInv, MInv, NEW c \in Call, Step(c), pc[c] = "restore"
    PROVE  \/ Restore(c) \/ RestoreGone(c) \/ Crash(c)
           \/ \E kind \in FaultKinds : RestoreFails(c, kind)
<1>1. ~(\/ \E r \in Requests : Ask(c, r)
        \/ ProbeMove(c) \/ TakeRunLock(c) \/ LoadRun(c) \/ RenderRun(c) \/ TakeWriteLock(c)
        \/ Judge(c) \/ Compose(c) \/ VerifyOk(c) \/ CheckCreate(c) \/ CheckLockWrite(c)
        \/ CheckRemove(c) \/ PlanMove(c) \/ Promote(c) \/ LandNext(c) \/ LandLast(c)
        \/ Unlink(c) \/ Move(c))
  BY DEF Ask, ProbeMove, TakeRunLock, LoadRun, RenderRun, TakeWriteLock, Judge, Compose,
         VerifyOk, CheckCreate, CheckLockWrite, CheckRemove, PlanMove, Promote, LandNext, LandLast,
         Unlink, Move
<1>2. ~(RefuseMove(c) \/ LoadMissing(c) \/ Busy(c) \/ JudgeMissing(c) \/ ComposeMissing(c)
           \/ VerifyConflict(c) \/ CheckOccupied(c) \/ CheckRefused(c) \/ UnlinkGone(c)
           \/ MoveGone(c))
  BY DEF RefuseMove, LoadMissing, Busy, JudgeMissing, ComposeMissing, VerifyConflict,
         CheckOccupied, CheckRefused, UnlinkGone, MoveGone
<1>3. \A kind \in FaultKinds : ~PromoteFails(c, kind) /\ ~LandFails(c, kind)
                                   /\ ~UnlinkFails(c, kind) /\ ~MoveFails(c, kind)
  BY DEF PromoteFails, LandFails, UnlinkFails, MoveFails
<1> QED BY <1>1, <1>2, <1>3 DEF Step

(* Failures are remembered, and a failed call rolls back or is over. *)
LEMMA Recorded ==
    ASSUME IInv, MInv, NEW c \in Call, Step(c)
    PROVE  /\ faults \subseteq faults'
           /\ faults' = faults \/ pc'[c] \in {"restore", "done"}
           /\ \A x \in faults' \ faults : x[1] = c
<1>1. CASE \/ \E r \in Requests : Ask(c, r)
           \/ ProbeMove(c) \/ TakeRunLock(c) \/ LoadRun(c) \/ RenderRun(c) \/ TakeWriteLock(c)
           \/ Judge(c) \/ Compose(c) \/ VerifyOk(c) \/ CheckCreate(c) \/ CheckLockWrite(c)
           \/ CheckRemove(c) \/ PlanMove(c)
  BY <1>1 DEF Ask, ProbeMove, TakeRunLock, LoadRun, RenderRun, TakeWriteLock, Judge, Compose,
         VerifyOk, CheckCreate, CheckLockWrite, CheckRemove, PlanMove, Quiet, bounds
<1>2. CASE RefuseMove(c) \/ LoadMissing(c) \/ Busy(c) \/ JudgeMissing(c) \/ ComposeMissing(c)
           \/ VerifyConflict(c) \/ CheckOccupied(c) \/ CheckRefused(c) \/ UnlinkGone(c)
           \/ MoveGone(c) \/ Crash(c)
  BY <1>2 DEF RefuseMove, LoadMissing, Busy, JudgeMissing, ComposeMissing, VerifyConflict,
         CheckOccupied, CheckRefused, UnlinkGone, MoveGone, Crash, Refuse, bounds
<1>3. CASE \/ Promote(c) \/ LandNext(c) \/ LandLast(c) \/ Restore(c) \/ RestoreGone(c)
           \/ Unlink(c) \/ Move(c)
  BY <1>3 DEF Promote, LandNext, LandLast, Restore, RestoreGone, Unlink, Move, bounds
<1>4. ASSUME NEW kind \in FaultKinds,
             PromoteFails(c, kind) \/ LandFails(c, kind) \/ RestoreFails(c, kind)
                 \/ UnlinkFails(c, kind) \/ MoveFails(c, kind)
      PROVE  /\ pc'[c] \in {"restore", "done"}
             /\ \E f : faults' = faults \cup {<<c, kind, f>>}
  <2>1. ASSUME NEW a, Finish(c, a) PROVE pc'[c] = "done"
    BY <2>1 DEF Finish, Goto, IInv, Shape
  <2>2. ASSUME pc[c] = "restore", NEW a, AfterRestore(c, a) PROVE pc'[c] \in {"restore", "done"}
    BY <2>1, <2>2 DEF AfterRestore
  <2>3. pc'[c] \in {"restore", "done"}
    BY <1>4, <2>1, <2>2 DEF PromoteFails, LandFails, RestoreFails, UnlinkFails, MoveFails, Goto,
       IInv, Shape
  <2>4. \E f : faults' = faults \cup {<<c, kind, f>>}
    BY <1>4 DEF PromoteFails, LandFails, RestoreFails, UnlinkFails, MoveFails, Fails
  <2> QED BY <2>3, <2>4
<1> QED BY <1>1, <1>2, <1>3, <1>4 DEF Step

LEMMA UnfailedKept ==
    ASSUME IInv, MInv, RInv, NEW c \in Call, Step(c), NEW d \in Call
    PROVE  Unfailed(d)'
<1>1. CASE d # c
  BY <1>1, Recorded, Confined DEF Own, RInv, Unfailed
<1>2. CASE d = c /\ pc[c] = "restore"
  <2>1. ASSUME NEW a, Finish(c, a) PROVE pc'[c] = "done"
    BY <2>1 DEF Finish, Goto, IInv, Shape
  <2>2. ASSUME NEW a, AfterRestore(c, a) PROVE pc'[c] \in {"restore", "done"}
    BY <1>2, <2>1, <2>2 DEF AfterRestore
  <2>3. pc'[c] \in {"restore", "done"}
    BY <1>2, <2>1, <2>2, Restoring DEF Restore, RestoreGone, RestoreFails, Crash
  <2> QED BY <1>2, <2>3 DEF Unfailed
<1>3. CASE d = c /\ pc[c] # "restore"
  BY <1>3, Recorded, Working DEF RInv, Unfailed
<1> QED BY <1>1, <1>2, <1>3

LEMMA ExcusedStays ==
    ASSUME IInv, MInv, LInv, NEW c \in Call, Step(c), NEW d \in Call, Excused(d)
    PROVE  Excused(d)'
<1>1. CASE d # c
  BY <1>1, Confined DEF Own, Excused
<1>2. CASE d = c /\ pc[c] # "idle" /\ req[c].door # "set"
  BY <1>2, SameAsk DEF Excused
<1>3. CASE d = c /\ answer[c] \in {"ok", "incomplete", "died"}
  <2>1. pc[c] = "restore" /\ answer[c] = "incomplete"
    BY <1>3, Working DEF LInv, Doored
  <2>2. ASSUME NEW a, Finish(c, a) PROVE answer'[c] = a
    BY <2>2 DEF Finish, MInv, Fields
  <2>3. ASSUME AfterRestore(c, "incomplete") PROVE answer'[c] = "incomplete"
    BY <2>2, <2>3 DEF AfterRestore, MInv, Fields
  <2>4. answer'[c] \in {"incomplete", "died"}
    BY <2>1, <2>2, <2>3, Restoring DEF Restore, RestoreGone, RestoreFails, Crash
  <2> QED BY <1>3, <2>4 DEF Excused
<1> QED BY <1>1, <1>2, <1>3 DEF Excused

LEMMA LandSteps ==
    ASSUME IInv, MInv, NEW c \in Call, Step(c), pc[c] = "land"
    PROVE  LandNext(c) \/ LandLast(c) \/ Crash(c) \/ \E kind \in FaultKinds : LandFails(c, kind)
<1>1. ~(\/ \E r \in Requests : Ask(c, r)
        \/ ProbeMove(c) \/ TakeRunLock(c) \/ LoadRun(c) \/ RenderRun(c) \/ TakeWriteLock(c)
        \/ Judge(c) \/ Compose(c) \/ VerifyOk(c) \/ CheckCreate(c) \/ CheckLockWrite(c)
        \/ CheckRemove(c) \/ PlanMove(c) \/ Promote(c) \/ Restore(c) \/ RestoreGone(c)
        \/ Unlink(c) \/ Move(c))
  BY DEF Ask, ProbeMove, TakeRunLock, LoadRun, RenderRun, TakeWriteLock, Judge, Compose,
         VerifyOk, CheckCreate, CheckLockWrite, CheckRemove, PlanMove, Promote, Restore,
         RestoreGone, Unlink, Move
<1>2. ~(RefuseMove(c) \/ LoadMissing(c) \/ Busy(c) \/ JudgeMissing(c) \/ ComposeMissing(c)
           \/ VerifyConflict(c) \/ CheckOccupied(c) \/ CheckRefused(c) \/ UnlinkGone(c)
           \/ MoveGone(c))
  BY DEF RefuseMove, LoadMissing, Busy, JudgeMissing, ComposeMissing, VerifyConflict,
         CheckOccupied, CheckRefused, UnlinkGone, MoveGone
<1>3. \A kind \in FaultKinds : ~PromoteFails(c, kind) /\ ~RestoreFails(c, kind)
                                   /\ ~UnlinkFails(c, kind) /\ ~MoveFails(c, kind)
  BY DEF PromoteFails, RestoreFails, UnlinkFails, MoveFails
<1> QED BY <1>1, <1>2, <1>3 DEF Step

(* Who has nothing in hand to strike leaves the files alone. *)
LEMMA Still ==
    ASSUME NEW c \in Call, Step(c), pc[c] \notin {"promote", "land", "restore", "unlink", "move"}
    PROVE  UNCHANGED <<disk, removed>>
<1>1. CASE \/ \E r \in Requests : Ask(c, r)
           \/ ProbeMove(c) \/ TakeRunLock(c) \/ LoadRun(c) \/ RenderRun(c) \/ TakeWriteLock(c)
           \/ Judge(c) \/ Compose(c) \/ VerifyOk(c) \/ CheckCreate(c) \/ CheckLockWrite(c)
           \/ CheckRemove(c) \/ PlanMove(c)
  BY <1>1 DEF Ask, ProbeMove, TakeRunLock, LoadRun, RenderRun, TakeWriteLock, Judge, Compose,
         VerifyOk, CheckCreate, CheckLockWrite, CheckRemove, PlanMove, Quiet
<1>2. CASE RefuseMove(c) \/ LoadMissing(c) \/ Busy(c) \/ JudgeMissing(c) \/ ComposeMissing(c)
           \/ VerifyConflict(c) \/ CheckOccupied(c) \/ CheckRefused(c) \/ UnlinkGone(c)
           \/ MoveGone(c) \/ Crash(c)
  BY <1>2 DEF RefuseMove, LoadMissing, Busy, JudgeMissing, ComposeMissing, VerifyConflict,
         CheckOccupied, CheckRefused, UnlinkGone, MoveGone, Crash, Refuse
<1>3. ~(\/ Promote(c) \/ LandNext(c) \/ LandLast(c) \/ Restore(c) \/ RestoreGone(c)
        \/ Unlink(c) \/ Move(c))
  BY DEF Promote, LandNext, LandLast, Restore, RestoreGone, Unlink, Move
<1>4. \A kind \in FaultKinds : ~PromoteFails(c, kind) /\ ~LandFails(c, kind)
          /\ ~RestoreFails(c, kind) /\ ~UnlinkFails(c, kind) /\ ~MoveFails(c, kind)
  BY DEF PromoteFails, LandFails, RestoreFails, UnlinkFails, MoveFails
<1> QED BY <1>1, <1>2, <1>3, <1>4 DEF Step

(* What a call vouches for it vouched for before, or has just looked at. *)
LEMMA VouchSource ==
    ASSUME IInv, MInv, LInv, NEW c \in Call, Step(c), NEW f \in File, Vouched(c, f)'
    PROVE  \/ Vouched(c, f) /\ image'[c] = image[c] /\ pc[c] \in Locked
           \/ Looked(c) /\ pc[c] \in {"verify", "check", "read", "plan"}
<1> DEFINE Goal == \/ Vouched(c, f) /\ image'[c] = image[c] /\ pc[c] \in Locked
                   \/ Looked(c) /\ pc[c] \in {"verify", "check", "read", "plan"}
<1>1. pc'[c] \in {"land", "restore", "promote", "unlink"}
  BY DEF Vouched
<1>2. ASSUME NEW a, Finish(c, a) PROVE FALSE
  BY <1>1, <1>2 DEF Finish, Goto, IInv, Shape
<1>3. CASE VerifyOk(c) \/ CheckCreate(c) \/ CheckLockWrite(c) \/ CheckRemove(c)
  BY <1>3, Vouches DEF VerifyOk, CheckCreate, CheckLockWrite, CheckRemove
<1>4. CASE Judge(c)
  BY <1>4, Judges DEF Judge
<1>5. CASE PlanMove(c)
  BY <1>5, Plans DEF PlanMove
<1>6. ~(ProbeMove(c) \/ TakeRunLock(c) \/ LoadRun(c) \/ RenderRun(c) \/ TakeWriteLock(c)
        \/ Compose(c) \/ Promote(c))
  BY <1>1 DEF ProbeMove, TakeRunLock, LoadRun, RenderRun, TakeWriteLock, Compose, Promote, Goto,
     IInv, Shape
<1>7. \A r \in Requests : ~Ask(c, r)
  BY <1>1 DEF Ask, Goto, IInv, Shape
<1>8. ~(RefuseMove(c) \/ LoadMissing(c) \/ Busy(c) \/ JudgeMissing(c) \/ ComposeMissing(c)
           \/ VerifyConflict(c) \/ CheckOccupied(c) \/ CheckRefused(c) \/ UnlinkGone(c)
           \/ MoveGone(c) \/ Crash(c))
  BY <1>2, RefuseOwn DEF MInv
<1>9. CASE LandNext(c)
  BY <1>9 DEF LandNext, Vouched, Locked
<1>10. ~LandLast(c)
  BY <1>1, <1>2 DEF LandLast, Goto, IInv, Shape
<1>11. ASSUME NEW kind \in FaultKinds, LandFails(c, kind) PROVE Goal
  <2>1. /\ pc[c] = "land" /\ pc'[c] = "restore" /\ image' = image /\ todo' = todo
    BY <1>2, <1>11 DEF LandFails, Goto, callVars, IInv, Shape
  <2> QED BY <2>1 DEF Vouched, Locked
<1>12. ASSUME NEW a, AfterRestore(c, a), pc[c] = "restore" PROVE Goal
  <2>1. pc' = pc /\ image' = image /\ todo' = todo
    BY <1>2, <1>12 DEF AfterRestore
  <2> QED BY <1>12, <2>1 DEF Vouched, Locked
<1>13. CASE Restore(c) \/ RestoreGone(c)
  BY <1>12, <1>13 DEF Restore, RestoreGone
<1>14. ASSUME NEW kind \in FaultKinds, RestoreFails(c, kind) PROVE Goal
  BY <1>12, <1>14 DEF RestoreFails
<1>15. \A kind \in FaultKinds : ~PromoteFails(c, kind) /\ ~UnlinkFails(c, kind) /\ ~MoveFails(c, kind)
  BY <1>2 DEF PromoteFails, UnlinkFails, MoveFails
<1>16. ~Unlink(c) /\ ~Move(c)
  BY <1>2 DEF Unlink, Move
<1> QED BY <1>3, <1>4, <1>5, <1>6, <1>7, <1>8, <1>9, <1>10, <1>11, <1>13, <1>14, <1>15, <1>16
        DEF Step

-----------------------------------------------------------------------------
(* Half a set goes nowhere *)

\* Two calls cannot both be past the write lock.
LEMMA OneLocked ==
    ASSUME IInv, NEW c \in Call, NEW d \in Call, pc[c] \in Locked, pc[d] \in Locked
    PROVE  c = d
BY DEF IInv, LockHeld

LEMMA SourcedKept ==
    ASSUME IInv, MInv, LInv, NEW c \in Call, Step(c), NEW d \in Call, NEW h \in File,
           Marked(d, h), Sourced(d, h)
    PROVE  Sourced(d, h)'
<1> SUFFICES ASSUME NEW e \in Call, NEW p \in Page, Vouched(e, p)', d \in Marks(image'[e][p])
             PROVE  p = h
  BY DEF Sourced
<1>1. CASE e # c
  <2>1. /\ pc'[e] = pc[e] /\ req'[e] = req[e] /\ image'[e] = image[e] /\ todo'[e] = todo[e]
    BY <1>1, Confined DEF Own
  <2>2. Vouched(e, p)
    BY <2>1 DEF Vouched, Old
  <2> QED BY <2>1, <2>2 DEF Sourced
<1>2. CASE e = c
  <2>1. p \in File
    BY DEF File
  <2>2. CASE Vouched(c, p) /\ image'[c] = image[c]
    BY <1>2, <2>2 DEF Sourced
  <2>3. CASE Looked(c) /\ pc[c] \in {"verify", "check", "read", "plan"}
    <3>1. d \in Marks(disk[p])
      BY <1>2, <2>1, <2>3 DEF Looked
    <3>2. pc[d] \notin {"land", "restore"}
      BY <2>3, OneLocked DEF Locked
    <3> QED BY <3>1, <3>2 DEF Marked
  <2> QED BY <1>2, <2>1, <2>2, <2>3, VouchSource
<1> QED BY <1>1, <1>2

\* A rename that takes a spot away makes a spot of where it goes.
LEMMA SpotMoves ==
    ASSUME IInv, MInv, LInv, NEW c \in Call, Step(c), NEW d \in Call \ {c}, NEW h \in File,
           Marked(d, h), Sourced(d, h)
    PROVE  \E g \in File : (g \in Page => h \in Page) /\ Marked(d, g)' /\ Sourced(d, g)'
<1>1. /\ pc'[d] = pc[d] /\ todo'[d] = todo[d] /\ done'[d] = done[d]
  BY Confined DEF Own
<1>2. Effect(c) /\ \A p \in Page : p \in File
  BY StepEffect DEF File
<1>3. CASE \A p \in Page : d \in Marks(disk'[p]) => d \in Marks(disk[p]) \/ p = h
  <2>1. Marked(d, h)'
    BY <1>1, <1>3 DEF Marked
  <2> QED BY <2>1, SourcedKept
<1>4. CASE UNCHANGED <<disk, removed>>
  BY <1>3, <1>4
<1>5. ASSUME NEW f \in File, NEW x, Puts(c, f, x)
      PROVE  \A p \in Page : d \in Marks(disk'[p]) => d \in Marks(disk[p]) \/ p = h
  <2> TAKE p \in Page
  <2> HAVE d \in Marks(disk'[p])
  <2>1. CASE p = f
    <3>1. d \in Marks(image[c][p]) /\ Vouched(c, p)
      BY <1>5, <2>1 DEF Puts, LInv, Typed
    <3> QED BY <3>1 DEF Sourced
  <2>2. CASE p # f
    BY <1>2, <1>5, <2>2 DEF Puts, LInv, Typed
  <2> QED BY <2>1, <2>2
<1>6. CASE Takes(c)
  <2>1. \A p \in Page : d \in Marks(disk'[p]) => d \in Marks(disk[p])
    BY <1>2, <1>6 DEF Takes, LInv, Typed, Marks
  <2> QED BY <1>3, <2>1
<1>7. CASE Renames(c)
  <2>1. Old(c) \in Page /\ New(c) \in Page \ {Old(c)} /\ pc[c] = "move"
    BY <1>7 DEF Renames, IInv, Paged, MInv, Placed, LInv, Doored
  <2>2. /\ disk'[New(c)] = disk[Old(c)] /\ disk'[Old(c)] = None
        /\ \A q \in Page \ {Old(c), New(c)} : disk'[q] = disk[q]
    BY <1>7, <2>1 DEF Renames, Moved, LInv, Typed, File
  <2>3. \A p \in Page : d \in Marks(disk[p]) => p = h
    BY <2>1, OneLocked DEF Marked, Locked
  <2>4. CASE h # Old(c)
    <3>1. \A p \in Page : d \in Marks(disk'[p]) => d \in Marks(disk[p])
      BY <2>1, <2>2, <2>3, <2>4 DEF Marks
    <3> QED BY <1>3, <3>1
  <2>5. CASE h = Old(c)
    <3>0. PICK g \in Page : g = New(c)
      BY <2>1
    <3>1. Marked(d, g)'
      BY <2>1, <2>2, <2>3, <2>5, <3>0 DEF Marked, Marks
    <3>2. Sourced(d, g)'
      <4>1. pc'[c] = "done"
        BY <1>7 DEF Renames
      <4>2. \A e \in Call : \A p \in Page : ~Vouched(e, p)'
        <5> SUFFICES ASSUME NEW e \in Call, NEW p \in Page, Vouched(e, p)' PROVE FALSE
          OBVIOUS
        <5>1. e # c
          BY <4>1 DEF Vouched
        <5>2. pc'[e] = pc[e] /\ pc[e] \in Locked
          BY <5>1, Confined DEF Own, Vouched, Locked
        <5> QED BY <2>1, <5>1, <5>2, OneLocked DEF Locked
      <4> QED BY <4>2 DEF Sourced
    <3> QED BY <1>2, <2>1, <2>5, <3>1, <3>2
  <2> QED BY <2>4, <2>5
<1> QED BY <1>2, <1>3, <1>4, <1>5, <1>6, <1>7 DEF Effect

LEMMA OthersExtent ==
    ASSUME IInv, MInv, LInv, RInv, NEW c \in Call, Step(c), NEW d \in Call \ {c}
    PROVE  Extent(d)'
<1>1. CASE Excused(d)
  BY <1>1, ExcusedStays DEF Extent
<1>2. CASE ~Excused(d)
  <2>1. PICK h \in File : (h \in Page => Lapsed(d)) /\ Marked(d, h) /\ Sourced(d, h)
    BY <1>2 DEF RInv, Extent
  <2>2. Lapsed(d) => Lapsed(d)'
    BY Recorded DEF Lapsed
  <2> QED BY <2>1, <2>2, SpotMoves DEF Extent
<1> QED BY <1>1, <1>2

LEMMA OwnExtent ==
    ASSUME IInv, MInv, LInv, RInv, NEW c \in Call, Step(c)
    PROVE  Extent(c)'
<1> SUFFICES ASSUME ~Excused(c)' PROVE Extent(c)'
  BY DEF Extent
<1>1. ~Excused(c)
  BY ExcusedStays
<1>2. PICK h \in File : (h \in Page => Lapsed(c)) /\ Marked(c, h) /\ Sourced(c, h)
  BY <1>1 DEF RInv, Extent
<1>3. /\ Lapsed(c) => Lapsed(c)'
      /\ Sourced(c, h)'
  BY <1>2, Recorded, SourcedKept DEF Lapsed
<1>4. ASSUME NEW a \in {"ok", "incomplete", "died"}, Finish(c, a) PROVE FALSE
  BY <1>4 DEF Finish, MInv, Fields, Excused
<1>5. CASE pc[c] \notin {"land", "restore"}
  <2>1. pc[c] \notin {"promote", "unlink", "move"}
    <3>1. pc[c] \in {"promote", "unlink", "move"} => req[c].door # "set" /\ pc[c] # "idle"
      BY DEF LInv, Doored
    <3> QED BY <1>1, <3>1 DEF Excused
  <2>2. disk' = disk
    BY <1>5, <2>1, Still
  <2>3. Marked(c, h)'
    BY <1>2, <1>5, <2>2 DEF Marked
  <2> QED BY <1>2, <1>3, <2>3 DEF Extent
<1>6. CASE pc[c] = "land"
  <2>1. req[c].door = "set" /\ req[c].door # "relocate"
    BY <1>1, <1>6 DEF Excused
  <2>2. ~LandLast(c) /\ ~Crash(c)
    BY <1>4, <2>1 DEF LandLast, Crash
  <2>3. /\ done[c] \in 0 .. Len(todo[c]) - 1 /\ Len(todo[c]) \in Nat
        /\ \A i \in 1 .. Len(todo[c]) : todo[c][i] \in File
        /\ \A p \in Page : p \in File
    BY <1>6, TodoFiles DEF LInv, Doored, File
  <2>4. NextFile(c) \in File
    BY <2>3 DEF NextFile
  <2>5. h \notin Page
    BY <1>2, <1>6 DEF RInv, Unfailed, Lapsed
  <2>6. \A p \in Page : c \in Marks(disk[p]) => \E i \in 1 .. done[c] : todo[c][i] = p
    BY <1>2, <2>5 DEF Marked
  <2>7. CASE LandNext(c)
    <3>1. /\ pc' = pc /\ todo' = todo /\ done'[c] = done[c] + 1
          /\ disk' = [disk EXCEPT ![NextFile(c)] = Candidate(c, NextFile(c))]
      BY <2>7 DEF LandNext, MInv, Fields
    <3>2. ASSUME NEW p \in Page, c \in Marks(disk'[p])
          PROVE  \E i \in 1 .. done'[c] : todo'[c][i] = p
      <4>1. CASE p = NextFile(c)
        BY <2>3, <3>1, <4>1 DEF NextFile
      <4>2. CASE p # NextFile(c)
        <5>1. c \in Marks(disk[p])
          BY <2>3, <3>1, <3>2, <4>2 DEF LInv, Typed
        <5> QED BY <2>3, <2>6, <3>1, <5>1
      <4> QED BY <4>1, <4>2
    <3>3. Marked(c, h)'
      BY <1>6, <3>1, <3>2 DEF Marked
    <3> QED BY <1>2, <1>3, <3>3 DEF Extent
  <2>8. ASSUME NEW kind \in FaultKinds, LandFails(c, kind) PROVE Extent(c)'
    <3>0. PICK g \in File : g = IF kind = "sync" THEN NextFile(c) ELSE h
      BY <2>4
    <3>1. g \in File /\ (g \in Page => Lapsed(c)')
      <4>1. faults' = faults \cup {<<c, kind, NextFile(c)>>}
        BY <2>8 DEF LandFails, Fails
      <4> QED BY <2>4, <2>5, <3>0, <4>1 DEF Lapsed
    <3>2. Sourced(c, g)'
      BY <1>3, <2>5 DEF Sourced
    <3>3. ASSUME NEW p \in Page, c \in Marks(disk'[p]), p # g
          PROVE  pc'[c] = "restore" /\ \E i \in 1 .. done'[c] : todo'[c][i] = p
      <4>1. c \in Marks(disk[p])
        BY <2>3, <2>8, <3>0, <3>3 DEF LandFails, Struck, LInv, Typed
      <4>2. PICK i \in 1 .. done[c] : todo[c][i] = p
        BY <2>6, <4>1
      <4>3. RollsBack(c)
        BY <2>1, <2>3, <4>2 DEF RollsBack
      <4>4. pc'[c] = "restore" /\ todo' = todo /\ done' = done
        BY <2>8, <4>3 DEF LandFails, Goto, callVars, IInv, Shape
      <4> QED BY <4>2, <4>4
    <3>4. Marked(c, g)'
      BY <3>3 DEF Marked
    <3> QED BY <3>1, <3>2, <3>4 DEF Extent
  <2> QED BY <1>6, <2>2, <2>7, <2>8, LandSteps
<1>7. CASE pc[c] = "restore"
  <2>1. done[c] \in 1 .. Len(todo[c]) /\ Len(todo[c]) \in Nat /\ \A p \in Page : p \in File
    BY <1>7, TodoFiles DEF LInv, Doored, File
  <2>2. ~AfterRestore(c, "incomplete")
    <3>1. ASSUME AfterRestore(c, "incomplete") PROVE answer'[c] = "incomplete"
      BY <1>4, <3>1 DEF AfterRestore, MInv, Fields
    <3> QED BY <3>1 DEF Excused
  <2>3. Restore(c)
    BY <1>4, <1>7, <2>2, Restoring DEF RestoreGone, RestoreFails, Crash
  <2>4. /\ disk' = [disk EXCEPT ![LastFile(c)] = image[c][LastFile(c)]]
        /\ AfterRestore(c, answer[c])
    BY <2>3 DEF Restore
  <2>5. Vouched(c, LastFile(c)) /\ LastFile(c) \in File
    BY <1>7, <2>1, TodoFiles DEF LastFile
  <2>6. ASSUME NEW p \in Page, c \in Marks(disk'[p]), p # h
        PROVE  pc'[c] = "restore" /\ \E i \in 1 .. done'[c] : todo'[c][i] = p
    <3>1. p # LastFile(c)
      <4>1. CASE p = LastFile(c)
        <5>1. c \in Marks(image[c][p])
          BY <2>4, <2>5, <2>6, <4>1 DEF LInv, Typed
        <5> QED BY <1>2, <2>5, <2>6, <4>1, <5>1 DEF Sourced
      <4> QED BY <4>1
    <3>2. c \in Marks(disk[p])
      BY <2>1, <2>4, <2>6, <3>1 DEF LInv, Typed
    <3>3. PICK i \in 1 .. done[c] : todo[c][i] = p
      BY <1>2, <2>6, <3>2 DEF Marked
    <3>4. i \in 1 .. done[c] - 1 /\ done[c] > 1
      BY <2>1, <3>1, <3>3 DEF LastFile
    <3>5. pc' = pc /\ todo' = todo /\ done'[c] = done[c] - 1
      BY <2>4, <3>4 DEF AfterRestore, MInv, Fields
    <3> QED BY <1>7, <3>3, <3>4, <3>5
  <2>7. Marked(c, h)'
    BY <2>6 DEF Marked
  <2> QED BY <1>2, <1>3, <2>7 DEF Extent
<1> QED BY <1>5, <1>6, <1>7

-----------------------------------------------------------------------------
(* A row of the receipt file *)

\* A row that was spilt remains so.
LEMMA SpiltStays ==
    ASSUME IInv, MInv, RInv, NEW c \in Call, Step(c), NEW d \in Call, Spilt(d)
    PROVE  Spilt(d)'
<1>1. CASE d # c
  BY <1>1, Confined, Recorded DEF Own, Spilt
<1>2. CASE d = c
  <2>1. pc[c] \in {"restore", "done"}
    BY <1>2 DEF RInv, Unfailed, Spilt
  <2> QED BY <1>2, <2>1, SameAsk, Recorded DEF Spilt
<1> QED BY <1>1, <1>2

\* But for one that is spilt, only the last landing of a call writes its row.
LEMMA OwnRow ==
    ASSUME IInv, MInv, LInv, RInv, NEW c \in Call, Step(c), c \in Marks(disk'[Receipt]), ~Spilt(c)'
    PROVE  LastLands(c) /\ req[c].door # "relocate" /\ pc'[c] = "done"
<1>0. pc[c] # "done" /\ ~Spilt(c) /\ Receipt \in File
  BY Working, SpiltStays DEF File
<1>1. c \notin Marks(disk[Receipt]) /\ \A d \in Call : Vouched(d, Receipt) => c \notin Marks(image[d][Receipt])
  BY <1>0 DEF RInv, Rows, Rowed
<1>2. \A f, x : f # Receipt => disk' # [disk EXCEPT ![f] = x]
  BY <1>0, <1>1 DEF LInv, Typed
<1>3. disk' # disk
  BY <1>1
<1>4. pc[c] \in {"promote", "land", "restore", "unlink", "move"}
  BY <1>3, Still
<1>5. Old(c) \in Page
  BY <1>4 DEF IInv, Paged
<1>7. pc[c] # "promote"
  <2>1. CASE pc[c] = "promote"
    <3>1. req[c].to \in Page
      BY <2>1 DEF LInv, Doored
    <3>2. ~Promote(c)
      BY <1>2, <3>1 DEF Promote
    <3>3. Effect(c)
      BY StepEffect
    <3>4. PICK f \in File : \E x : Puts(c, f, x)
      BY <1>3, <2>1, <3>3 DEF Effect, Takes, Renames
    <3>5. f = req[c].to
      BY <2>1, <3>4 DEF Puts, Vouched
    <3> QED BY <1>2, <3>1, <3>4, <3>5 DEF Puts
  <2> QED BY <2>1
<1>8. pc[c] # "unlink" /\ pc[c] # "move"
  <2>1. CASE pc[c] \in {"unlink", "move"}
    <3>1. Effect(c)
      BY StepEffect
    <3>2. CASE Takes(c)
      BY <1>2, <1>5, <3>2 DEF Takes
    <3>3. CASE Renames(c)
      <4>1. New(c) \in Page
        BY <3>3 DEF Renames, MInv, Placed, LInv, Doored
      <4>2. disk'[Receipt] = disk[Receipt]
        BY <1>0, <1>5, <3>3, <4>1 DEF Renames, Moved, LInv, Typed
      <4> QED BY <1>1, <4>2
    <3>4. ASSUME NEW f \in File, NEW x, Puts(c, f, x) PROVE FALSE
      <4>1. f = Old(c)
        BY <2>1, <3>4 DEF Puts, Vouched
      <4> QED BY <1>2, <1>5, <3>4, <4>1 DEF Puts
    <3> QED BY <1>3, <3>1, <3>2, <3>3, <3>4 DEF Effect
  <2> QED BY <2>1
<1>9. pc[c] # "restore"
  <2>1. CASE pc[c] = "restore"
    <3>1. disk' = [disk EXCEPT ![LastFile(c)] = image[c][LastFile(c)]]
      BY <1>3, <2>1, Restoring DEF Restore, RestoreGone, RestoreFails, Struck, Crash
    <3>2. LastFile(c) = Receipt
      BY <1>2, <3>1
    <3>3. Vouched(c, LastFile(c))
      BY <2>1, TodoFiles DEF LInv, Doored, LastFile
    <3>4. disk'[Receipt] = image[c][Receipt]
      BY <1>0, <3>1, <3>2 DEF LInv, Typed
    <3> QED BY <1>1, <3>2, <3>3, <3>4
  <2> QED BY <2>1
<1>10. pc[c] = "land"
  BY <1>4, <1>7, <1>8, <1>9
<1>11. disk' = [disk EXCEPT ![NextFile(c)] = Candidate(c, NextFile(c))]
  BY <1>3, <1>10, LandSteps DEF LandNext, LandLast, LandFails, Struck, Crash
<1>12. NextFile(c) = Receipt
  BY <1>2, <1>11
<1>13. req[c].door # "relocate"
  <2>1. CASE req[c].door = "relocate"
    <3>1. todo[c] \in Seq(Page) /\ done[c] \in 0 .. Len(todo[c]) - 1
      BY <1>10, <2>1 DEF MInv, Rewriting, LInv, Doored
    <3>2. NextFile(c) \in Page
      BY <3>1 DEF NextFile
    <3> QED BY <1>12, <3>2
  <2> QED BY <2>1
<1>14. done[c] + 1 = Len(todo[c])
  <2>1. req[c] \in Requests /\ todo[c] \in {req[c].pages, Append(req[c].pages, Receipt)}
    BY <1>10, <1>13 DEF LInv, Doored
  <2>2. \A i \in 1 .. Len(todo[c]) : todo[c][i] \in Page \/ i = Len(todo[c])
    BY <2>1, ListedMembers, SMTT(30)
  <2>3. done[c] \in 0 .. Len(todo[c]) - 1 /\ Len(todo[c]) \in Nat
    BY <1>10, TodoFiles DEF LInv, Doored
  <2>4. Receipt \notin Page
    BY DoorsAssumption
  <2> QED BY <1>12, <2>2, <2>3, <2>4 DEF NextFile
<1>15. ASSUME NEW a, Finish(c, a) PROVE pc'[c] = "done" /\ req' = req
  BY <1>15 DEF Finish, Goto, IInv, Shape
<1>16. ASSUME NEW kind \in FaultKinds, LandFails(c, kind)
       PROVE  pc'[c] = "done" /\ removed' = removed /\ req' = req
  <2>1. kind = "sync"
    BY <1>3, <1>16 DEF LandFails, Struck
  <2>2. <<c, "sync", Receipt>> \in faults'
    BY <1>12, <1>16, <2>1 DEF LandFails, Fails
  <2>3. req[c].door # "set"
    BY <1>0, <1>10, <2>2, SameAsk DEF Spilt
  <2> QED BY <1>15, <1>16, <2>3 DEF LandFails, RollsBack
<1>17. ASSUME LandLast(c) PROVE pc'[c] = "done" /\ removed' = removed /\ req' = req
  BY <1>13, <1>15, <1>17 DEF LandLast
<1>18. ~LandNext(c) /\ ~Crash(c)
  BY <1>3, <1>14 DEF LandNext, Crash
<1> QED BY <1>10, <1>11, <1>13, <1>14, <1>16, <1>17, <1>18, LandSteps DEF LastLands

\* A row that is there after a step, of another call, was there before it.
LEMMA RowBefore ==
    ASSUME IInv, MInv, LInv, NEW c \in Call, Step(c), NEW d \in Call, Rowed(d)',
           d # c \/ d \notin Marks(disk'[Receipt])
    PROVE  Rowed(d)
<1>0. Receipt \in File /\ Effect(c)
  BY StepEffect DEF File
<1>1. CASE d # c /\ d \in Marks(disk'[Receipt])
  <2>1. CASE UNCHANGED <<disk, removed>>
    BY <1>1, <2>1 DEF Rowed
  <2>2. ASSUME NEW f \in File, NEW x, Puts(c, f, x) PROVE Rowed(d)
    <3>1. CASE f = Receipt
      BY <1>0, <1>1, <2>2, <3>1 DEF Puts, LInv, Typed, Rowed
    <3>2. CASE f # Receipt
      BY <1>0, <1>1, <2>2, <3>2 DEF Puts, LInv, Typed, Rowed
    <3> QED BY <3>1, <3>2
  <2>3. CASE Takes(c)
    BY <1>0, <1>1, <2>3 DEF Takes, LInv, Typed, Rowed
  <2>4. CASE Renames(c)
    <3>1. Old(c) \in Page /\ New(c) \in Page
      BY <2>4 DEF Renames, IInv, Paged, MInv, Placed, LInv, Doored
    <3> QED BY <1>0, <1>1, <2>4, <3>1 DEF Renames, Moved, LInv, Typed, Rowed
  <2> QED BY <1>0, <2>1, <2>2, <2>3, <2>4 DEF Effect
<1>2. ASSUME NEW e \in Call, Vouched(e, Receipt)', d \in Marks(image'[e][Receipt])
      PROVE  Rowed(d)
  <2>1. CASE e # c
    <3>1. /\ pc'[e] = pc[e] /\ req'[e] = req[e] /\ image'[e] = image[e] /\ todo'[e] = todo[e]
      BY <2>1, Confined DEF Own
    <3>2. Vouched(e, Receipt)
      BY <1>2, <3>1 DEF Vouched, Old
    <3> QED BY <1>2, <3>1, <3>2 DEF Rowed
  <2>2. CASE e = c
    BY <1>0, <1>2, <2>2, VouchSource DEF Looked, Rowed
  <2> QED BY <2>1, <2>2
<1> QED BY <1>1, <1>2 DEF Rowed

LEMMA RowsKept ==
    ASSUME IInv, MInv, LInv, RInv, NoClobber, NEW c \in Call, Step(c), NEW d \in Call
    PROVE  Rows(d)'
<1> SUFFICES ASSUME Rowed(d)', ~Spilt(d)' PROVE pc'[d] = "done" /\ Landed(d)'
  BY DEF Rows
<1>0. ~Spilt(d)
  BY SpiltStays
<1>1. CASE d # c
  <2>1. pc[d] = "done" /\ Landed(d)
    BY <1>0, <1>1, RowBefore DEF RInv, Rows
  <2>2. pc'[d] = pc[d] /\ req'[d] = req[d] /\ req[d] \in Requests
    BY <1>1, <2>1, Confined DEF Own, LInv, Doored
  <2> QED BY <1>1, <2>1, <2>2, StepEffect, LandedStays
<1>2. CASE d = c /\ c \in Marks(disk'[Receipt])
  BY <1>2, OwnRow, LandedWhole
<1>3. CASE d = c /\ c \notin Marks(disk'[Receipt])
  BY <1>0, <1>3, RowBefore, Working DEF RInv, Rows
<1> QED BY <1>1, <1>2, <1>3

(* An editor writes no call's mark, and no receipt. *)
LEMMA EditRows ==
    ASSUME IInv, MInv, LInv, RInv, NEW p \in Page, Edit(p)
    PROVE  RInv'
<1>1. UNCHANGED <<pc, req, image, todo, done, answer, faults>> /\ p \in File /\ disk[p] # None
  BY DEF Edit, callVars, File
<1>2. disk[p] \in SUBSET Mark /\ Editor \notin Call
  BY <1>1, RequestsAssumption DEF LInv, Typed, Content
<1>3. \A f \in File : Marks(disk'[f]) \cap Call \subseteq Marks(disk[f])
  BY <1>1, <1>2 DEF Edit, LInv, Typed, Marks
<1> SUFFICES ASSUME NEW c \in Call PROVE (Rows(c) /\ Extent(c) /\ Unfailed(c))'
  BY DEF RInv
<1>4. \A d \in Call, f \in File : Vouched(d, f)' = Vouched(d, f)
  BY <1>1 DEF Vouched, Old
<1>5. Excused(c)' = Excused(c)
  BY <1>1 DEF Excused
<1>6. \A q \in Page : q \in File
  BY DEF File
<1>7. Extent(c)'
  <2>1. ASSUME NEW h \in File, Marked(c, h) PROVE Marked(c, h)'
    BY <1>1, <1>3, <1>6, <2>1 DEF Marked
  <2>2. ASSUME NEW h \in File, Sourced(c, h) PROVE Sourced(c, h)'
    BY <1>1, <1>4, <1>6, <2>2 DEF Sourced
  <2>3. Lapsed(c)' = Lapsed(c)
    BY <1>1 DEF Lapsed
  <2> QED BY <1>5, <2>1, <2>2, <2>3 DEF RInv, Extent
<1>8. Unfailed(c)'
  BY <1>1 DEF RInv, Unfailed
<1>9. Rows(c)'
  <2> SUFFICES ASSUME Rowed(c)', ~Spilt(c) PROVE pc'[c] = "done" /\ Landed(c)'
    BY <1>1 DEF Rows, Spilt
  <2>1. Receipt \in File
    BY DEF File
  <2>2. Rowed(c)
    BY <1>1, <1>3, <1>4, <2>1 DEF Rowed
  <2>3. pc[c] = "done" /\ Landed(c) /\ req[c] \in Requests
    BY <2>2 DEF RInv, Rows, LInv, Doored
  <2>4. Bearing(c) \subseteq Bearing(c)' /\ Bearing(c) \subseteq Page /\ Bearing(c)' \subseteq Page
    BY EditBears DEF Bearing
  <2>5. /\ Cardinality(Bearing(c)) <= Cardinality(Bearing(c)')
        /\ Cardinality(Bearing(c)) \in Nat /\ Cardinality(Bearing(c)') \in Nat
    BY <2>4, MoreBearing, BearingFinite
  <2>6. Len(req[c].pages) \in Nat
    BY <2>3, RequestsAssumption
  <2> QED BY <1>1, <2>3, <2>5, <2>6 DEF Landed
<1> QED BY <1>7, <1>8, <1>9

LEMMA InitRows == Init => RInv
<1> SUFFICES ASSUME Init, NEW c \in Call PROVE Rows(c) /\ Extent(c) /\ Unfailed(c)
  BY DEF RInv
<1>1. \A p \in Page : Marks(disk[p]) \subseteq Page \cup {Editor}
  <2> TAKE p \in Page
  <2>1. disk[p] = Start[p] /\ Start[p] \in {None} \cup SUBSET (Page \cup {Editor})
    BY DEF Init, File
  <2> QED BY <2>1 DEF Marks
<1>2. c \notin Page \cup {Editor}
  BY RequestsAssumption
<1>3. Marks(disk[Receipt]) = {}
  BY DEF Init, File, Marks
<1>4. \A d \in Call : \A f \in File : ~Vouched(d, f)
  BY DEF Init, Vouched
<1>5. \A q \in Page : q \in File /\ Receipt \in File
  BY DEF File
<1>6. Rows(c) /\ Marked(c, Receipt) /\ Sourced(c, Receipt)
  <2>1. Receipt \in File
    BY DEF File
  <2> QED BY <1>1, <1>2, <1>3, <1>4, <1>5, <2>1 DEF Rows, Rowed, Marked, Sourced
<1>7. Receipt \in File \ Page /\ Unfailed(c)
  BY DoorsAssumption DEF Init, File, Unfailed
<1> QED BY <1>6, <1>7 DEF Extent

LEMMA RowStepKeeps == IInv /\ MInv /\ LInv /\ RInv /\ NoClobber /\ [Next]_vars => RInv'
<1> SUFFICES ASSUME IInv, MInv, LInv, RInv, NoClobber, [Next]_vars PROVE RInv'
  OBVIOUS
<1>1. ASSUME NEW c \in Call, Step(c) PROVE RInv'
  BY <1>1, RowsKept, OwnExtent, OthersExtent, UnfailedKept DEF RInv
<1>2. CASE UNCHANGED vars
  <2>1. UNCHANGED <<disk, pc, req, image, todo, done, answer, removed, faults>>
    BY <1>2 DEF vars, bounds
  <2>2. ASSUME NEW c \in Call PROVE (Rows(c) /\ Extent(c) /\ Unfailed(c))'
    <3>1. \A d \in Call : \A f : Vouched(d, f)' = Vouched(d, f)
      BY <2>1 DEF Vouched, Old
    <3>2. Excused(c)' = Excused(c) /\ Bearing(c)' = Bearing(c)
      BY <2>1 DEF Excused, Bearing
    <3>3. Rowed(c)' = Rowed(c) /\ Landed(c)' = Landed(c)
      BY <2>1, <3>1, <3>2 DEF Rowed, Landed
    <3>4. Lapsed(c)' = Lapsed(c) /\ Spilt(c)' = Spilt(c) /\ Unfailed(c)' = Unfailed(c)
      BY <2>1 DEF Lapsed, Spilt, Unfailed
    <3>5. \A h : Marked(c, h)' = Marked(c, h) /\ Sourced(c, h)' = Sourced(c, h)
      BY <2>1, <3>1 DEF Marked, Sourced
    <3> QED BY <2>1, <3>2, <3>3, <3>4, <3>5 DEF RInv, Rows, Extent
  <2> QED BY <2>2 DEF RInv
<1> QED BY <1>1, <1>2, EditRows DEF Next

LEMMA RowsAlways ==
    ArmedRuns => (Spec /\ [][NoClobber]_vars => [](IInv /\ MInv /\ LInv /\ RInv))
<1>1. CASE ArmedRuns
  <2>1. IInv /\ [Next]_vars => IInv'
    BY <1>1, StepKeeps
  <2>2. IInv /\ MInv /\ LInv /\ RInv /\ [Next]_vars /\ [NoClobber]_vars => LInv' /\ RInv'
    <3>1. vars' = vars => NoClobber
      BY DEF vars, NoClobber
    <3> QED BY <1>1, <3>1, LandStepKeeps, RowStepKeeps
  <2> QED BY <2>1, <2>2, InitHolds, InitMoves, InitLands, InitRows, MoveKeeps, PTL DEF Spec
<1> QED BY <1>1

(* When every run is armed and no move replaces a page, a row of the        *)
(* receipt file is of a call all of whose members landed, also while        *)
(* another call is about to write the file again, after a crash or a        *)
(* rollback (fs StagedSet::commit renames the receipt last and composes it *)
(* on the file it verified); but for a splice_set whose own row was renamed *)
(* into place before its directory failed to sync.                          *)
THEOREM ReceiptMeansLandedHolds ==
    ArmedRuns => (Spec /\ [][NoClobber]_vars => []ReceiptMeansLanded)
<1>1. RInv => ReceiptMeansLanded
  BY DEF RInv, Rows, Rowed, Spilt, ReceiptMeansLanded
<1> QED BY <1>1, RowsAlways, PTL

(* Under the same hypotheses, wherever a landing fails, a splice_set whose  *)
(* process lives is all or nothing: one that was refused or rolled back    *)
(* has left no mark in any page, and nobody has carried one into another   *)
(* page meanwhile; but for one page, where a member that failed after its  *)
(* rename has got to (fs restore_renamed, under the write lock until the   *)
(* last restore, begins before the member that failed).                    *)
THEOREM SetAllOrNoneHolds ==
    ArmedRuns => (Spec /\ [][NoClobber]_vars => []SetAllOrNone)
<1>1. ASSUME LInv, RInv, NEW c \in Call, req[c].door = "set"
      PROVE  /\ answer[c] = "ok" => Landed(c)
             /\ answer[c] \in {"io", "conflict", "refused", "busy"} =>
                    \A p \in Page : c \in Marks(disk[p]) =>
                        Lapsed(c) /\ \A q \in Page \ {p} : c \notin Marks(disk[q])
  <2>1. answer[c] = "ok" => Landed(c)
    BY <1>1 DEF LInv, Acked, Writes
  <2>2. ASSUME answer[c] \in {"io", "conflict", "refused", "busy"},
               NEW p \in Page, c \in Marks(disk[p])
        PROVE  Lapsed(c) /\ \A q \in Page \ {p} : c \notin Marks(disk[q])
    <3>1. ~Excused(c) /\ pc[c] = "done"
      BY <1>1, <2>2 DEF LInv, Doored, Excused
    <3>2. PICK h \in File : (h \in Page => Lapsed(c)) /\ Marked(c, h)
      BY <1>1, <3>1 DEF RInv, Extent
    <3> QED BY <2>2, <3>1, <3>2 DEF Marked
  <2> QED BY <2>1, <2>2
<1>2. LInv /\ RInv => SetAllOrNone
  BY <1>1 DEF SetAllOrNone
<1> QED BY <1>2, RowsAlways, PTL
=============================================================================
