------------------------------ MODULE Currency ------------------------------
(***************************************************************************)
(* What the daemon's answers know of the disk: the kernel watch and the    *)
(* event feed behind it, the cookie barrier that proves the feed complete  *)
(* up to a question, and the resident memo a vouched answer is folded      *)
(* from without touching the disk (crates/registry/src/feed.rs, the        *)
(* currency doors of registry.rs, crates/fs/src/lib.rs DomainCache).       *)
(*                                                                         *)
(* The content of a file is the number of its last edit, so a later        *)
(* content is a greater number; a deletion is an edit like another.  A     *)
(* stat sweep is taken to re-read every file whose content moved: the      *)
(* stamp arithmetic that decides so is not modelled.                       *)
(***************************************************************************)
EXTENDS Naturals, FiniteSets, Sequences

CONSTANTS
    Member,     \* the files of the hash domain
    Config,     \* the member that says which files are members
    Reader,     \* callers of currency_refresh: a miss falls to the floor pass
    Door,       \* write doors: door_observation, then a write of their own
    Detector,   \* detect cycles: door_observation_vouched, never the floor
    Borrower,   \* domain_cache borrows: take and apply, ask nothing
    StreamCap,  \* events the kernel queues before it drops
    DirtyCap,   \* DIRTY_CAP
    MaxEdits,   \* edits by programs outside the daemon
    MaxAsks,    \* questions asked
    MaxFaults   \* reads, writes and watches that fail

Asker == Reader \cup Door \cup Detector \cup Borrower

ASSUME CurrencyAssumption ==
    /\ Config \in Member /\ IsFiniteSet(Member)
    /\ StreamCap \in Nat \ {0} /\ DirtyCap \in Nat
    /\ "law" \notin Member /\ "free" \notin Asker
    /\ \A K, L \in {Reader, Door, Detector, Borrower} : K = L \/ K \cap L = {}

VARIABLES
    disk,    \* the content of each file
    stream,  \* the kernel's ordered event queue
    feed,    \* FeedState, and the cell of losses it shares with the memo
    memo,    \* DomainCache: the fold, its domain, the losses it has absorbed
    lock,    \* who holds the memo's mutex
    ask,     \* each asker's question in flight
    stray,   \* history: members whose last edit no event is left to tell,
             \* and Law when no event is left to tell the memo's membership
    spent    \* how much of each bound is used

vars == <<disk, stream, feed, memo, lock, ask, stray, spent>>

Content == 0 .. (MaxEdits + MaxAsks)
Free == "free"
Serial == 0 .. MaxAsks
Law == "law"

(* One kernel event: an edit of a member, a sentinel's write, or the       *)
(* overflow marker that stands for every event dropped at a full queue.    *)
Edited(f) == <<"edit", f>>
Sentinel(n) == <<"cookie", n>>
Overflow == <<"overflow">>
Event == {Edited(f) : f \in Member} \cup {Sentinel(n) : n \in Serial}
         \cup {Overflow}

Raise(e) ==
    IF Len(stream) < StreamCap THEN Append(stream, e)
    ELSE IF stream[Len(stream)] = Overflow THEN stream
    ELSE Append(stream, Overflow)

(* RescanCause::rung: "sweep" keeps the memo and leaves the work to the    *)
(* next full pass, "rebase" derives it again.                              *)
Rung == {"none", "sweep", "rebase"}
Higher(r, s) == IF "rebase" \in {r, s} THEN "rebase" ELSE "sweep"

FeedState == [dirty : SUBSET Member, doubt : Rung, losses : Nat,
              minted : Serial, seen : Serial, holdoff : BOOLEAN]

Memo == [base : BOOLEAN, fold : [Member -> Content], law : Content,
         acked : Nat]

Pc == {"idle", "mint", "wait", "ready", "config", "apply", "rebase", "vouch",
       "sweep", "write", "overlay"}

(* since: the disk when the question was put.  at, law and read: the       *)
(* losses, the config and the members read so far of a full pass.          *)
Question == [pc : Pc, since : [Member -> Content], serial : Serial,
             seen : BOOLEAN, taken : SUBSET Member, collapse : BOOLEAN,
             at : Nat, law : Content, read : [Member -> Content],
             left : SUBSET Member, wrote : Member, put : Content]

Blank == [f \in Member |-> 0]
Cold(acked) == [base |-> FALSE, fold |-> Blank, law |-> 0, acked |-> acked]
Idle == [pc |-> "idle", since |-> Blank, serial |-> 0, seen |-> FALSE,
         taken |-> {}, collapse |-> FALSE, at |-> 0, law |-> 0,
         read |-> Blank, left |-> {}, wrote |-> Config, put |-> 0]

(* The workspace's first full pass has landed. *)
Init ==
    /\ disk = Blank
    /\ stream = <<>>
    /\ feed = [dirty |-> {}, doubt |-> "none", losses |-> 0, minted |-> 0,
               seen |-> 0, holdoff |-> FALSE]
    /\ memo = [Cold(0) EXCEPT !.base = TRUE]
    /\ lock = Free
    /\ ask = [a \in Asker |-> Idle]
    /\ stray = {}
    /\ spent = [edits |-> 0, asks |-> 0, faults |-> 0]

Spend(b) == spent' = [spent EXCEPT ![b] = @ + 1]
Fault == spent.faults < MaxFaults /\ Spend("faults")

(***************************************************************************)
(* The disk and the kernel's queue.                                        *)
(***************************************************************************)

(* History: the config judged an echo and edited before it is read again   *)
(* is folded as any leaf, under the membership it replaces.                *)
Write(f) ==
    /\ disk' = [disk EXCEPT ![f] = @ + 1]
    /\ stream' = Raise(Edited(f))
    /\ stray' = IF f = Config /\ \E a \in Asker : ask[a].pc = "apply"
                                               /\ Config \in ask[a].taken
                THEN stray \cup {Law} ELSE stray

(* A program outside the daemon edits, makes or removes a member. *)
Edit(f) ==
    /\ spent.edits < MaxEdits
    /\ Spend("edits")
    /\ Write(f)
    /\ UNCHANGED <<feed, memo, lock, ask>>

(***************************************************************************)
(* The feed.  Its handler runs under one mutex per event.                  *)
(***************************************************************************)

(* FeedState::collapse: doubt drops the enumeration and notes a loss.      *)
(* Faulty variant: the loss is left to whoever takes the doubt. *)
CollapseUnnoted(s, rung) ==
    [s EXCEPT !.doubt = Higher(@, rung), !.dirty = {}]
Collapse(s, rung) ==
    [s EXCEPT !.doubt = Higher(@, rung), !.dirty = {}, !.losses = @ + 1]

(* FeedState::insert. *)
Insert(s, f) ==
    IF s.doubt # "none" THEN s
    ELSE LET more == [s EXCEPT !.dirty = @ \cup {f}] IN
         IF Cardinality(more.dirty) > DirtyCap THEN Collapse(more, "sweep")
         ELSE more

Handled(e) ==
    CASE e[1] = "edit"     -> Insert(feed, e[2])
      [] e[1] = "cookie"   -> [feed EXCEPT !.seen =
                                 IF e[2] > @ THEN e[2] ELSE @]
      [] e[1] = "overflow" -> Collapse(feed, "sweep")

(* History: doubt stands, and a full pass has absorbed its loss or will:   *)
(* an edit such a pass is too early for is dropped and owed by nobody.     *)
Swallowed(e) ==
    IF /\ e[1] = "edit" /\ feed.doubt # "none"
       /\ \/ feed.losses <= memo.acked
          \/ \E a \in Asker : ask[a].pc \in {"rebase", "sweep"}
                               /\ ask[a].at >= feed.losses
    THEN {e[2]} ELSE {}

Deliver ==
    /\ stream # <<>>
    /\ feed' = Handled(Head(stream))
    /\ stream' = Tail(stream)
    /\ stray' = stray \cup Swallowed(Head(stream))
    /\ UNCHANGED <<disk, memo, lock, ask, spent>>

(* The watch errs where an event should have been. *)
WatchErrs ==
    /\ stream # <<>>
    /\ Fault
    /\ feed' = Collapse(feed, "sweep")
    /\ stream' = Tail(stream)
    /\ UNCHANGED <<disk, memo, lock, ask, stray>>

(* Registry::rescan: a caller that suspects the memo names its cause. *)
Rescan(rung) ==
    /\ Fault
    /\ feed' = Collapse(feed, rung)
    /\ UNCHANGED <<disk, stream, memo, lock, ask, stray>>

(* note_dirty: a hint from the backstop walk or any other second source. *)
Hint(f) ==
    /\ f \notin feed.dirty
    /\ Fault
    /\ feed' = Insert(feed, f)
    /\ UNCHANGED <<disk, stream, memo, lock, ask, stray>>

HoldoffElapses ==
    /\ feed.holdoff
    /\ feed' = [feed EXCEPT !.holdoff = FALSE]
    /\ UNCHANGED <<disk, stream, memo, lock, ask, stray, spent>>

(***************************************************************************)
(* The barrier.  A question writes a sentinel and waits for the stream to  *)
(* hand it back.                                                           *)
(***************************************************************************)

Goto(a, pc) == ask' = [ask EXCEPT ![a].pc = pc]

(* The barrier's answer: a reader or a door goes on to its apply whatever  *)
(* it was, a detector only when the sentinel was seen.                     *)
Answered(a, seen) ==
    ask' = [ask EXCEPT ![a] =
              IF seen \/ a \notin Detector
              THEN [Idle EXCEPT !.pc = "ready", !.seen = seen,
                                !.since = IF seen THEN ask[a].since ELSE Blank]
              ELSE Idle]

(* The write flock is held through a door's question and write, and        *)
(* through a detector's question.                                          *)
FlockFree(a) ==
    a \in Door \cup Detector =>
        \A b \in Door \cup Detector : ask[b].pc = "idle"

(* A question begins.  Under doubt, or inside the holdoff that follows a   *)
(* timeout, the barrier is Unproven at once.                               *)
Ask(a) ==
    /\ ask[a].pc = "idle" /\ a \notin Borrower /\ FlockFree(a)
    /\ spent.asks < MaxAsks
    /\ Spend("asks")
    /\ IF feed.doubt # "none" \/ feed.holdoff
       THEN /\ ask' = [ask EXCEPT ![a] =
                         IF a \in Detector THEN Idle
                         ELSE [Idle EXCEPT !.pc = "ready", !.since = disk]]
            /\ UNCHANGED feed
       ELSE /\ feed' = [feed EXCEPT !.minted = @ + 1]
            /\ ask' = [ask EXCEPT ![a] =
                         [Idle EXCEPT !.pc = "mint", !.since = disk,
                                      !.serial = feed.minted + 1]]
    /\ UNCHANGED <<disk, stream, memo, lock, stray>>

(* A borrow asks nothing: it goes straight to take-and-apply. *)
Borrow(a) ==
    /\ ask[a].pc = "idle" /\ a \in Borrower
    /\ spent.asks < MaxAsks
    /\ Spend("asks")
    /\ ask' = [ask EXCEPT ![a] = [Idle EXCEPT !.pc = "ready"]]
    /\ UNCHANGED <<disk, stream, feed, memo, lock, stray>>

WriteSentinel(a) ==
    /\ ask[a].pc = "mint"
    /\ \/ stream' = Raise(Sentinel(ask[a].serial)) /\ Goto(a, "wait")
          /\ UNCHANGED spent
       \/ Fault /\ Answered(a, FALSE) /\ UNCHANGED stream
    /\ UNCHANGED <<disk, feed, memo, lock, stray>>

(* await_sighting: the stream is proved live; a standing holdoff ends. *)
Sighted(a) ==
    /\ ask[a].pc = "wait" /\ feed.doubt = "none"
    /\ feed.seen >= ask[a].serial
    /\ feed' = [feed EXCEPT !.holdoff = FALSE]
    /\ Answered(a, TRUE)
    /\ UNCHANGED <<disk, stream, memo, lock, stray, spent>>

Doubted(a) ==
    /\ ask[a].pc = "wait" /\ feed.doubt # "none"
    /\ Answered(a, FALSE)
    /\ UNCHANGED <<disk, stream, feed, memo, lock, stray, spent>>

(* The wait runs out: a probe answers Unproven, any other barrier is       *)
(* itself a reason for doubt and opens the holdoff.                        *)
TimesOut(a) ==
    /\ ask[a].pc = "wait" /\ feed.doubt = "none"
    /\ feed.seen < ask[a].serial
    /\ feed' = IF a \in Detector THEN feed
               ELSE [Collapse(feed, "sweep") EXCEPT !.holdoff = TRUE]
    /\ Answered(a, FALSE)
    /\ UNCHANGED <<disk, stream, memo, lock, stray, spent>>

(***************************************************************************)
(* Take and apply, under the memo's mutex.                                 *)
(***************************************************************************)

(* A reader gives the mutex up between its apply and its vouch, a door and *)
(* a detector hold it through both; a borrow is done.                      *)
Applied(a, q) ==
    /\ ask' = [ask EXCEPT ![a] =
                 IF a \in Borrower THEN Idle ELSE [q EXCEPT !.pc = "vouch"]]
    /\ lock' = IF a \in Door \cup Detector THEN a ELSE Free

(* A full pass begins: the config is loaded, the losses so far counted.    *)
Pass(pc) ==
    [Idle EXCEPT !.pc = pc, !.at = feed.losses, !.law = disk[Config],
                 !.left = Member]

(* FeedState::take leaves the set clean. *)
Taken == [feed EXCEPT !.dirty = {}, !.doubt = "none"]

Take(a) ==
    /\ ask[a].pc = "ready" /\ lock = Free
    /\ feed' = Taken
    /\ CASE feed.doubt = "sweep" ->
              Applied(a, [Idle EXCEPT !.collapse = TRUE])
         [] feed.doubt = "rebase" ->
              lock' = a /\ ask' = [ask EXCEPT ![a] = Pass("rebase")]
         [] feed.doubt = "none" /\ feed.dirty = {} -> Applied(a, ask[a])
         [] OTHER ->
              /\ lock' = a
              /\ ask' = [ask EXCEPT ![a] =
                    [@ EXCEPT !.taken = feed.dirty,
                              !.pc = IF Config \in feed.dirty THEN "config"
                                     ELSE "apply"]]
    /\ UNCHANGED <<disk, stream, memo, stray, spent>>

(* lock_within: a door refuses, a detector skips, when the memo stays held.*)
LockTimesOut(a) ==
    /\ ask[a].pc = "ready" /\ lock # Free
    /\ a \in Door \cup Detector
    /\ ask' = [ask EXCEPT ![a] = Idle]
    /\ UNCHANGED <<disk, stream, feed, memo, lock, stray, spent>>

(* Faulty variant: a foreign config's take is dropped without a loss. *)
ForeignUnnoted(s) == s
(* A foreign config edit drops the take, and notes the loss of it. *)
Foreign(s) == [s EXCEPT !.losses = @ + 1]

(* The take holds the domain config: its own write's echo may be folded as *)
(* any leaf, a foreign edit may not.                                       *)
JudgeConfig(a) ==
    /\ ask[a].pc = "config"
    /\ IF memo.base /\ memo.fold[Config] = disk[Config]
       THEN Goto(a, "apply") /\ UNCHANGED <<feed, lock>>
       ELSE /\ feed' = Foreign(feed)
            /\ Applied(a, [Idle EXCEPT !.collapse = TRUE])
    /\ UNCHANGED <<disk, stream, memo, stray, spent>>

(* One taken member is read again and folded; a cold memo has no fold to   *)
(* put it in, and a member that cannot be read resets the memo.            *)
ApplyOne(a, f) ==
    /\ ask[a].pc = "apply" /\ f \in ask[a].taken
    /\ \/ /\ memo.base
          /\ memo' = [memo EXCEPT !.fold[f] = disk[f]]
          /\ stray' = stray \ {f}
          /\ LET left == ask[a].taken \ {f} IN
             IF left = {} THEN Applied(a, [ask[a] EXCEPT !.taken = {}])
             ELSE ask' = [ask EXCEPT ![a].taken = left] /\ UNCHANGED lock
          /\ UNCHANGED spent
       \/ /\ ~memo.base
          /\ Applied(a, [ask[a] EXCEPT !.taken = {}])
          /\ UNCHANGED <<memo, stray, spent>>
       \/ /\ Fault
          /\ memo' = Cold(0)
          /\ stray' = {}
          /\ Applied(a, [Idle EXCEPT !.collapse = TRUE])
    /\ UNCHANGED <<disk, stream, feed>>

(* One member of a full pass is read, whenever its turn comes. *)
ReadOne(a, f) ==
    /\ ask[a].pc \in {"rebase", "sweep"} /\ f \in ask[a].left
    /\ ask' = [ask EXCEPT ![a].read[f] = disk[f], ![a].left = @ \ {f}]
    /\ UNCHANGED <<disk, stream, feed, memo, lock, stray, spent>>

(* A completed pass absorbs the losses counted before it began. *)
Observed(q) ==
    [base |-> TRUE, fold |-> q.read, law |-> q.law, acked |-> q.at]

(* History: what strays once the pass is the memo.  A config edited between *)
(* its load and its leaf's read leaves a new leaf under an old membership. *)
Unread(q) ==
    {f \in stray \ {Law} : q.read[f] < disk[f]}
    \cup (IF q.read[Config] # q.law THEN {Law} ELSE {})

(* The fresh memo of a re-baseline is committed by swap, or not at all. *)
Rebaselined(a) ==
    /\ ask[a].pc = "rebase"
    /\ \/ ask[a].left = {} /\ memo' = Observed(ask[a]) /\ stray' = Unread(ask[a])
          /\ UNCHANGED spent
       \/ Fault /\ UNCHANGED <<memo, stray>>
    /\ Applied(a, [Idle EXCEPT !.collapse = TRUE])
    /\ UNCHANGED <<disk, stream, feed>>

(***************************************************************************)
(* The answer: vouched from the fold, or the floor's full pass.            *)
(***************************************************************************)

(* vouch: the sentinel seen, no collapse taken, the memo trusted.          *)
Vouches(a) ==
    /\ ask[a].seen /\ ~ask[a].collapse
    /\ memo.base /\ feed.losses <= memo.acked

(* The root is the caller's: a door goes on to its write.                  *)
Served(a) ==
    /\ lock' = Free
    /\ ask' = [ask EXCEPT ![a] =
                 IF a \in Door THEN [Idle EXCEPT !.pc = "write"] ELSE Idle]

Vouch(a) ==
    /\ ask[a].pc = "vouch" /\ lock \in {Free, a}
    /\ CASE Vouches(a) -> Served(a)
         [] ~Vouches(a) /\ a \in Detector -> Served(a)
         [] OTHER -> lock' = a
                     /\ ask' = [ask EXCEPT ![a] = Pass("sweep")]
    /\ UNCHANGED <<disk, stream, feed, memo, stray, spent>>

(* DomainCache::root completes, or fails and leaves the memo as it was. *)
FloorEnds(a) ==
    /\ ask[a].pc = "sweep"
    /\ \/ /\ ask[a].left = {}
          /\ memo' = Observed(ask[a]) /\ stray' = Unread(ask[a])
          /\ Served(a)
          /\ UNCHANGED spent
       \/ /\ Fault
          /\ ask' = [ask EXCEPT ![a] = Idle] /\ lock' = Free
          /\ UNCHANGED <<memo, stray>>
    /\ UNCHANGED <<disk, stream, feed>>

(* The door lands its own bytes, or refuses the write. *)
DoorWrites(a, f) ==
    /\ ask[a].pc = "write"
    /\ \/ /\ Write(f)
          /\ ask' = [ask EXCEPT ![a].pc = "overlay", ![a].wrote = f,
                                ![a].put = disk[f] + 1]
       \/ ask' = [ask EXCEPT ![a] = Idle] /\ UNCHANGED <<disk, stream, stray>>
    /\ UNCHANGED <<feed, memo, lock, spent>>

(* Faulty variant: the config's own write imposes no membership. *)
OverlaidLeafOnly(f, put) == [memo EXCEPT !.fold[f] = put]
(* overlay_leaf, and overlay_membership for the config: the bytes written  *)
(* replace the leaf, even one a reader has folded from a later edit.       *)
Overlaid(f, put) ==
    [memo EXCEPT !.fold[f] = put, !.law = IF f = Config THEN put ELSE @]

Overlay(a) ==
    /\ ask[a].pc = "overlay" /\ lock = Free
    /\ LET f == ask[a].wrote IN
       IF memo.base
       THEN /\ memo' = Overlaid(f, ask[a].put)
            /\ stray' = LET rest == IF f = Config THEN stray \ {Law} ELSE stray
                       IN CASE disk[f] = ask[a].put -> rest \ {f}
                            [] memo.fold[f] > ask[a].put -> rest \cup {f}
                            [] OTHER -> rest
       ELSE UNCHANGED <<memo, stray>>
    /\ ask' = [ask EXCEPT ![a] = Idle]
    /\ UNCHANGED <<disk, stream, feed, lock, spent>>

Next ==
    \/ \E f \in Member : Edit(f) \/ Hint(f)
    \/ Deliver \/ WatchErrs \/ HoldoffElapses
    \/ \E rung \in {"sweep", "rebase"} : Rescan(rung)
    \/ \E a \in Asker :
         \/ Ask(a) \/ Borrow(a) \/ WriteSentinel(a)
         \/ Sighted(a) \/ Doubted(a) \/ TimesOut(a)
         \/ Take(a) \/ LockTimesOut(a) \/ JudgeConfig(a) \/ Rebaselined(a)
         \/ Vouch(a) \/ FloorEnds(a) \/ Overlay(a)
         \/ \E f \in Member : ApplyOne(a, f) \/ ReadOne(a, f) \/ DoorWrites(a, f)

Spec == Init /\ [][Next]_vars

(***************************************************************************)
(* Properties.                                                             *)
(***************************************************************************)

(* Every variable keeps its shape; the queue and the dirty set keep their  *)
(* bounds; one asker holds the memo's mutex, and only while it works.      *)
TypeOK ==
    /\ disk \in [Member -> Content]
    /\ stream \in Seq(Event) /\ Len(stream) <= StreamCap + 1
    /\ feed \in FeedState /\ Cardinality(feed.dirty) <= DirtyCap
    /\ feed.doubt # "none" => feed.dirty = {}
    /\ memo \in Memo /\ memo.acked <= feed.losses
    /\ ask \in [Asker -> Question]
    /\ stray \subseteq Member \cup {Law}
    /\ lock \in Asker \cup {Free}
    /\ \A a \in Asker :
         ask[a].pc \in {"config", "apply", "rebase", "sweep"} => lock = a

(* A vouched answer is folded from memory alone, yet it carries every edit *)
(* made before its question was put: nothing the sentinel vouches for was  *)
(* left in the kernel's queue, in the dirty set, in another borrower's     *)
(* take, or in a loss nobody has re-read.  Exempt until it is read again   *)
(* is a stray leaf: one a door's overlay_leaf set back after the event of  *)
(* a later edit was spent, or one edited under an absorbed doubt.          *)
VouchedCurrent ==
    \A a \in Asker :
        ask[a].pc = "vouch" /\ lock \in {Free, a} /\ Vouches(a) =>
            \A f \in Member \ stray : memo.fold[f] >= ask[a].since[f]

(* A leaf behind the disk is always owed by somebody: the kernel's queue,  *)
(* the dirty set, a take in hand, an open doubt, or an unabsorbed loss.    *)
(* So a quiet feed over a trusted memo means the fold is the disk          *)
(* (vouched_quiet).  Stray leaves are exempt, as above.                    *)
StaleIsOwed ==
    memo.base /\ feed.losses <= memo.acked /\ feed.doubt = "none" =>
        \A f \in Member \ stray : memo.fold[f] < disk[f] =>
            \/ f \in feed.dirty
            \/ \E a \in Asker : f \in ask[a].taken
            \/ \E i \in 1 .. Len(stream) : stream[i] \in {Edited(f), Overflow}

(* What RescanCause::DomainConfig is for (feed.rs, apply): a vouched        *)
(* answer is folded under the membership its own config leaf names, never  *)
(* "the new config's leaf under the superseded membership".  Exempt is a   *)
(* membership the echo test lets stray: a config edited during a full      *)
(* pass, or between the test and the apply, whose own event then finds     *)
(* its leaf already folded and is taken for the echo of a governed write.  *)
VouchedLawful ==
    \A a \in Asker :
        ask[a].pc = "vouch" /\ lock \in {Free, a} /\ Vouches(a) =>
            Law \in stray \/ memo.law = memo.fold[Config]

(* What the barrier is written to give (registry.rs, door_observation):    *)
(* the apply after Seen "folds in everything this door must guard          *)
(* against", whatever was in doubt before.  A full pass and a borrow break *)
(* it: the pass absorbs the loss of a doubt opened after its take, an edit *)
(* under that doubt is dropped, and the borrow takes the doubt away.       *)
VouchedEveryEdit ==
    \A a \in Asker :
        ask[a].pc = "vouch" /\ lock \in {Free, a} /\ Vouches(a) =>
            \A f \in Member : memo.fold[f] >= ask[a].since[f]
=============================================================================
