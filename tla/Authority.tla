------------------------------ MODULE Authority ------------------------------
(***************************************************************************)
(* The workspace's write authority (crates/wire-serve/src/authority.rs):   *)
(* an exclusive lease on a directory inode, the takeover that runs         *)
(* recovery before admissions open, the heartbeat of the ready holder, and *)
(* the watchdog that turns a silent holder into a dead one.                *)
(*                                                                         *)
(* Every lock is a flock: the kernel releases it when its process dies.    *)
(* The files beside the lease (owner, marker, progress) outlive everybody. *)
(* The work of recovery is the caller's (module Publish has it); here it   *)
(* is one step, at its place in the order.                                 *)
(***************************************************************************)
EXTENDS Naturals, FiniteSets

CONSTANTS
    Proc,        \* daemon processes of one workspace
    Watched,     \* those whose parent spawned a watchdog for them
    None,        \* no process, no record, no file
    Door,        \* a direct writer of the interim law, on write.lock
    Misses,      \* HeartbeatPolicy.misses_to_wedged
    MaxEpochs,   \* leases taken
    MaxBeats,    \* beats of one lifetime
    MaxHangs,    \* processes that stop short of dying
    MaxFaults    \* refused file operations, and kills that do not kill

ASSUME AuthorityAssumption ==
    /\ None \notin Proc /\ Door \notin Proc /\ Door # None
    /\ Misses \in Nat \ {0}
    /\ {MaxEpochs, MaxBeats, MaxFaults} \subseteq Nat

ASSUME WatchedAssumption == Watched \subseteq Proc
ASSUME NoneIsNoCount == None \notin 0 .. MaxBeats

VARIABLES
    proc,      \* the processes
    dog,       \* the watchdog of each
    lease,     \* who holds the flock on .meridian/authority
    exlock,    \* who holds .meridian/write.lock
    epochs,    \* how many epochs were minted
    owner,     \* owner.json
    marker,    \* wedged.json: the process it declares
    progress,  \* the progress file
    work,      \* epochs with publications begun and not settled
    heard,     \* history: a beat since the last sample, samples in a row with one
    episode,   \* history: a ready holder was declared, no one is ready since
    faults

files == <<owner, marker, progress>>
vars == <<proc, dog, lease, exlock, epochs, owner, marker, progress, work,
          heard, episode, faults>>

Phase == {"new", "recording", "leased", "recovering", "recovered",
          "clearing", "ready", "zombie", "reaped"}
Watch == {"off", "watch", "declare", "term", "done", "failed", "stuck"}
Down == {"zombie", "reaped"}

Beats == 0 .. MaxBeats

Process == [pc : Phase, epoch : 0 .. MaxEpochs, beats : Beats, hung : BOOLEAN]
Watchdog == [pc : Watch, last : Beats \cup {None}, misses : 0 .. Misses]
Owner == [pid : Proc, epoch : 1 .. MaxEpochs]
Hearing == [now : BOOLEAN, run : 0 .. 2]

TypeOK ==
    /\ proc \in [Proc -> Process]
    /\ dog \in [Proc -> Watchdog]
    /\ /\ lease \in Proc \cup {None}
       /\ exlock \in Proc \cup {None, Door}
       /\ epochs \in 0 .. MaxEpochs
    /\ /\ owner \in Owner \cup {None}
       /\ marker \in Proc \cup {None}
       /\ progress \in Beats \cup {None}
    /\ /\ work \subseteq 1 .. MaxEpochs
       /\ episode \in BOOLEAN
       /\ faults \in 0 .. MaxFaults
    /\ heard \in [Proc -> Hearing]

Unheard == [now |-> FALSE, run |-> 0]
history == <<heard, episode>>

At(p, phase) == proc[p].pc = phase
Runs(p, phase) == At(p, phase) /\ ~proc[p].hung
Go(p, phase) == proc' = [proc EXCEPT ![p].pc = phase]
Fault == faults < MaxFaults /\ faults' = faults + 1

Init ==
    /\ proc = [p \in Proc |-> [pc |-> "new", epoch |-> 0, beats |-> 0,
                               hung |-> FALSE]]
    /\ dog = [p \in Proc |-> [pc |-> "off", last |-> None, misses |-> 0]]
    /\ lease = None /\ exlock = None /\ epochs = 0
    /\ owner = None /\ marker = None /\ progress = None
    /\ heard = [p \in Proc |-> Unheard]
    /\ work = {} /\ episode = FALSE /\ faults = 0

-----------------------------------------------------------------------------
(* The holder. *)

(* Faulty variant: the answer of flock is not looked at. *)
LeaseFreeUnchecked == TRUE
\* LOCK_EX | LOCK_NB: held by another, the answer is a refusal.
LeaseFree == lease = None

\* The lease and a fresh epoch; the owner record is written after it.
Acquire(p) ==
    /\ Runs(p, "new") /\ LeaseFree /\ epochs < MaxEpochs
    /\ epochs' = epochs + 1
    /\ lease' = p
    /\ proc' = [proc EXCEPT ![p].pc = "recording", ![p].epoch = epochs + 1]
    /\ UNCHANGED <<dog, exlock, files, work, history, faults>>

\* What a refused candidate is told.
Refusal == IF marker # None THEN "Wedged" ELSE "Held"

\* An error on the way to ready drops the lease, and whatever else is held.
GiveUp(p) ==
    /\ Go(p, "new")
    /\ lease' = None
    /\ UNCHANGED <<dog, exlock, epochs, files, work, history>>

(* Faulty variant: a hint that cannot be written is done without. *)
RecordBestEffort(p) ==
    /\ Runs(p, "recording")
    /\ Go(p, "leased")
    /\ \/ owner' = [pid |-> p, epoch |-> proc[p].epoch] /\ UNCHANGED faults
       \/ Fault /\ UNCHANGED owner
    /\ UNCHANGED <<dog, lease, exlock, epochs, marker, progress, work, history>>
\* The record lands by tmp and rename, or the lease is dropped.
Record(p) ==
    /\ Runs(p, "recording")
    /\ \/ /\ Go(p, "leased")
          /\ owner' = [pid |-> p, epoch |-> proc[p].epoch]
          /\ UNCHANGED <<dog, lease, exlock, epochs, marker, progress, work,
                         history, faults>>
       \/ Fault /\ GiveUp(p)

\* Recovery EX, retried until the deadline.
BeginTakeover(p) ==
    /\ Runs(p, "leased") /\ exlock = None
    /\ exlock' = p
    /\ Go(p, "recovering")
    /\ UNCHANGED <<dog, lease, epochs, files, work, history, faults>>

\* The deadline passes while another holds it, or the lock file fails.
TakeoverFails(p) ==
    /\ Runs(p, "leased")
    /\ \/ exlock # None /\ UNCHANGED faults
       \/ Fault
    /\ GiveUp(p)

\* The caller's recovery: what earlier epochs left is finished or undone; on
\* an error the caller drops the takeover, and both locks with it.
Recover(p) ==
    /\ Runs(p, "recovering")
    /\ \/ work' = {} /\ Go(p, "recovered") /\ UNCHANGED <<lease, exlock, faults>>
       \/ Fault /\ Go(p, "new") /\ lease' = None /\ exlock' = None /\ UNCHANGED work
    /\ UNCHANGED <<dog, epochs, files, history>>

(* Faulty variant: the marker goes together with recovery's lock. *)
ReleaseRecoveryUnmarking(p) ==
    /\ Runs(p, "recovered")
    /\ exlock' = None
    /\ marker' = None
    /\ Go(p, "clearing")
    /\ UNCHANGED <<dog, lease, epochs, owner, progress, work, history, faults>>
\* Takeover::ready begins: recovery EX is released before admissions open.
ReleaseRecovery(p) ==
    /\ Runs(p, "recovered")
    /\ exlock' = None
    /\ Go(p, "clearing")
    /\ UNCHANGED <<dog, lease, epochs, files, work, history, faults>>

\* Then the wedged marker is removed, and admissions open.
Open(p) ==
    /\ Runs(p, "clearing")
    /\ \/ /\ marker' = None
          /\ episode' = FALSE
          /\ heard' = [heard EXCEPT ![p] = Unheard]
          /\ proc' = [proc EXCEPT ![p].pc = "ready", ![p].beats = 0]
          /\ UNCHANGED <<dog, lease, exlock, epochs, owner, progress, work, faults>>
       \/ marker # None /\ Fault /\ GiveUp(p)

\* A permitted publication starts, and settles.
Publish(p) ==
    /\ Runs(p, "ready")
    /\ \/ work' = work \cup {proc[p].epoch}
       \/ work' = work \ {proc[p].epoch}
    /\ UNCHANGED <<proc, dog, lease, exlock, epochs, files, history, faults>>

\* The count moves on even when the file does not.
Beat(p) ==
    /\ Runs(p, "ready") /\ proc[p].beats < MaxBeats
    /\ proc' = [proc EXCEPT ![p].beats = @ + 1]
    /\ \/ /\ progress' = proc[p].beats + 1
          /\ heard' = [heard EXCEPT ![p].now = (dog[p].pc = "watch")]
          /\ UNCHANGED faults
       \/ Fault /\ UNCHANGED <<progress, heard>>
    /\ UNCHANGED <<dog, lease, exlock, epochs, owner, marker, work, episode>>

\* A holder with nothing in flight drops its authority.
Resign(p) ==
    /\ Runs(p, "ready") /\ proc[p].epoch \notin work
    /\ GiveUp(p) /\ UNCHANGED faults

-----------------------------------------------------------------------------
(* What befalls a process. *)

\* The kernel drops the locks of a dead process; its files stay.
Release(p) ==
    /\ lease' = IF lease = p THEN None ELSE lease
    /\ exlock' = IF exlock = p THEN None ELSE exlock

Die(p) ==
    /\ proc[p].pc \notin Down
    /\ Go(p, "zombie") /\ Release(p)
    /\ UNCHANGED <<dog, epochs, files, work, history, faults>>

\* Its parent collects it; until then a signal 0 still finds it.  Only a
\* watchdog tells the two apart.
Reap(p) ==
    /\ At(p, "zombie") /\ dog[p].pc = "watch" /\ Go(p, "reaped")
    /\ UNCHANGED <<dog, lease, exlock, epochs, files, work, history, faults>>

\* A process without the lease that hangs is one that does not try.
Hang(p) ==
    /\ lease = p /\ ~proc[p].hung
    /\ Cardinality({q \in Proc : proc[q].hung}) < MaxHangs
    /\ proc' = [proc EXCEPT ![p].hung = TRUE]
    /\ UNCHANGED <<dog, lease, exlock, epochs, files, work, history, faults>>

\* A direct writer of the interim law takes write.lock and lets it go.
DirectWrite ==
    /\ \/ exlock = None /\ exlock' = Door
       \/ exlock = Door /\ exlock' = None
    /\ UNCHANGED <<proc, dog, lease, epochs, files, work, history, faults>>

-----------------------------------------------------------------------------
(* The watchdog, a process of its own. *)

Alive(p) == ~At(p, "reaped")
Dog(p, phase) == dog[p].pc = phase
Goes(p, phase) == dog' = [dog EXCEPT ![p].pc = phase]

\* A watchdog is given the process that is the workspace's daemon.  One
\* that nobody watches is declared by nobody.
Supervise(p) ==
    /\ p \in Watched /\ Dog(p, "off") /\ lease = p
    /\ Goes(p, "watch")
    /\ UNCHANGED <<proc, lease, exlock, epochs, files, work, history, faults>>

(* Faulty variant: progress does not reset the count. *)
NoteKeeping(d, content) ==
    IF content # d.last /\ content # None /\ d.misses + 1 < Misses
    THEN [d EXCEPT !.last = content]
    ELSE [d EXCEPT !.misses = @ + 1,
                   !.pc = IF d.misses + 1 >= Misses THEN "declare" ELSE @]
\* Watchdog::note: an absent file and an unchanged one are misses alike.
Note(d, content) ==
    IF content # d.last /\ content # None
    THEN [d EXCEPT !.last = content, !.misses = 0]
    ELSE [d EXCEPT !.misses = @ + 1,
                   !.pc = IF d.misses + 1 >= Misses THEN "declare" ELSE @]

\* One turn of the watch: the process is probed, then the file is read.
Sample(p) ==
    /\ Dog(p, "watch")
    /\ \/ /\ ~Alive(p)
          /\ Goes(p, "done")
          /\ UNCHANGED heard
       \/ /\ Alive(p)
          /\ dog' = [dog EXCEPT ![p] = Note(dog[p], progress)]
          /\ heard' = [heard EXCEPT ![p] =
                        [now |-> FALSE,
                         run |-> IF ~@.now THEN 0 ELSE IF @.run < 2 THEN @.run + 1 ELSE 2]]
    /\ UNCHANGED <<proc, lease, exlock, epochs, files, work, episode, faults>>

\* The declaration lands beside the lock; when it cannot, supervision ends
\* in an error and nobody is signalled.
Declare(p) ==
    /\ Dog(p, "declare")
    /\ \/ /\ marker' = p /\ Goes(p, "term")
          /\ episode' = (episode \/ At(p, "ready"))
          /\ UNCHANGED faults
       \/ Fault /\ Goes(p, "failed") /\ UNCHANGED <<marker, episode>>
    /\ UNCHANGED <<proc, lease, exlock, epochs, owner, progress, work, heard>>

(* Faulty variant: enforcement ends with the grace of SIGTERM. *)
EnforceTermOnly(p) ==
    /\ Dog(p, "term")
    /\ Goes(p, "done")
    /\ UNCHANGED <<proc, lease, exlock, epochs, files, work, history, faults>>
\* SIGTERM, obeyed at once, later (Die) or never; when the grace is over,
\* the dead are collected and the living killed.
Enforce(p) ==
    /\ Dog(p, "term")
    /\ \/ Goes(p, "done") /\ Go(p, "reaped") /\ Release(p) /\ UNCHANGED faults
       \/ /\ proc[p].pc \notin Down /\ Fault
          /\ Goes(p, "stuck") /\ UNCHANGED <<proc, lease, exlock>>
    /\ UNCHANGED <<epochs, files, work, history>>

-----------------------------------------------------------------------------
HolderStep(p) ==
    \/ Record(p) \/ BeginTakeover(p) \/ TakeoverFails(p) \/ Recover(p)
    \/ ReleaseRecovery(p) \/ Open(p)
DogStep(p) ==
    \/ Sample(p) \/ Declare(p) \/ Enforce(p)

Next ==
    \/ \E p \in Proc :
        \/ Acquire(p) \/ HolderStep(p) \/ Publish(p) \/ Beat(p) \/ Resign(p)
        \/ Die(p) \/ Reap(p) \/ Hang(p) \/ Supervise(p) \/ DogStep(p)
    \/ DirectWrite

Spec == Init /\ [][Next]_vars

\* A process that runs gets on with its takeover; a watchdog always runs.
FairSpec ==
    Spec /\ \A p \in Proc : WF_vars(HolderStep(p)) /\ WF_vars(DogStep(p))

-----------------------------------------------------------------------------
(* Admissions open only over a recovered workspace: while a process may    *)
(* publish, no other epoch's publication is left half done (the order of   *)
(* begin_takeover and ready).                                              *)
RecoveredBeforeOpen ==
    \A p \in Proc : At(p, "ready") => work \subseteq {proc[p].epoch}

(* No direct writer and no second recovery works while a takeover recovers *)
(* (the demoted write.lock of begin_takeover).                             *)
RecoversAlone ==
    \A p \in Proc : proc[p].pc \in {"recovering", "recovered"} => exlock = p

(* The hint a refusal carries names the process that holds the lease and   *)
(* its epoch, once acquire has answered (owner.json).                      *)
HintNamesHolder ==
    \A p \in Proc :
        lease = p /\ ~At(p, "recording") => owner = [pid |-> p, epoch |-> proc[p].epoch]

(* From the declaration of a ready holder to the next ready, whoever asks  *)
(* for the lease is told "wedged" (ready removes the marker last).         *)
EpisodeTold == episode => Refusal = "Wedged"

(* A ready holder whose beats land before each of two successive samples   *)
(* is not declared wedged at the second (Watchdog::note).  Two, for the    *)
(* first beat may rewrite the count a lifetime before it left behind.      *)
BeatingNotDeclared ==
    \A p \in Proc : At(p, "ready") /\ Dog(p, "declare") => heard[p].run < 2

(* A watched holder that does not serve, because it hangs or is still      *)
(* taking over, comes to serve or loses the lease, unless the marker       *)
(* cannot be written or SIGKILL does not end it (begin_takeover's deadline *)
(* and enforce; no beat lands before ready, so a takeover that hangs       *)
(* spends the budget too).                                                 *)
Serves(p) == Runs(p, "ready")
ServesOrLeaves ==
    \A p \in Proc :
        (lease = p /\ Dog(p, "watch"))
            ~> (Serves(p) \/ lease # p \/ dog[p].pc \in {"failed", "stuck"})
=============================================================================
