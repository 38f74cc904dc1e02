--------------------------- MODULE AuthorityProofs ---------------------------
(***************************************************************************)
(* What the takeover order guarantees, for any number of processes, beats, *)
(* epochs and faults.  The inductive invariant ties each lock to the phase *)
(* of its holder: a process holds the lease exactly from acquire to the    *)
(* drop or its death, and write.lock exactly while it recovers.  With the  *)
(* lease exclusive, nobody can begin a publication between a recovery and  *)
(* the ready that follows it.                                              *)
(***************************************************************************)
EXTENDS Authority, TLAPS

Holds(p) == proc[p].pc \notin {"new"} \cup Down
Recovers(p) == proc[p].pc \in {"recovering", "recovered"}
Recovered(p) == proc[p].pc \in {"recovered", "clearing", "ready"}

\* The lease, and the epoch minted under it.
LeaseHeld ==
    \A p \in Proc : /\ lease = p <=> Holds(p)
                    /\ Holds(p) => proc[p].epoch \in 1 .. MaxEpochs
LockHeld == \A p \in Proc : exlock = p <=> Recovers(p)
WorkDone == \A p \in Proc : Recovered(p) => work \subseteq {proc[p].epoch}
Budget == \A p \in Proc : /\ dog[p].pc = "watch" => dog[p].misses < Misses
                          /\ dog[p].pc = "off" => dog[p].misses = 0

\* Since a ready process heard its last sample: the count on disk is one of
\* its own, and past the watchdog's copy once that is one of its own too.
Attended ==
    \A p \in Proc : At(p, "ready") =>
        /\ heard[p].now => Dog(p, "watch") /\ progress \in 1 .. proc[p].beats
        /\ heard[p].run > 0 => dog[p].last \in 1 .. proc[p].beats
        /\ heard[p].run > 0 /\ heard[p].now => progress > dog[p].last

IInv == TypeOK /\ LeaseHeld /\ LockHeld /\ WorkDone /\ Budget
               /\ HintNamesHolder /\ EpisodeTold /\ Attended /\ BeatingNotDeclared

USE AuthorityAssumption

LEMMA InitHolds == Init => IInv
<1> SUFFICES ASSUME Init PROVE IInv
  OBVIOUS
<1> USE DEF Init
<1>1. TypeOK
  <2>1. proc \in [Proc -> Process]
    BY DEF Process, Phase, Beats
  <2>2. dog \in [Proc -> Watchdog]
    BY DEF Watchdog, Watch
  <2>3. heard \in [Proc -> Hearing]
    BY DEF Hearing, Unheard
  <2>4. 0 \in 0 .. MaxEpochs /\ 0 \in 0 .. MaxFaults /\ work \subseteq 1 .. MaxEpochs
    OBVIOUS
  <2> QED BY <2>1, <2>2, <2>3, <2>4 DEF TypeOK
<1>2. LeaseHeld /\ LockHeld /\ WorkDone
  BY DEF LeaseHeld, LockHeld, WorkDone, Holds, Recovers, Recovered, Down
<1>3. Budget /\ HintNamesHolder /\ EpisodeTold
  BY DEF Budget, HintNamesHolder, EpisodeTold, At
<1>4. Attended /\ BeatingNotDeclared
  BY DEF Attended, BeatingNotDeclared, At
<1> QED BY <1>1, <1>2, <1>3, <1>4 DEF IInv

(* A note below the budget keeps the watchdog's record well formed, and     *)
(* either stays below it or declares.                                      *)
LEMMA NoteCounts ==
  ASSUME NEW d \in Watchdog, NEW content \in Beats \cup {None}, d.misses < Misses
  PROVE  /\ Note(d, content) \in Watchdog
         /\ Note(d, content).pc = d.pc \/ Note(d, content).pc = "declare"
         /\ Note(d, content).pc # "declare" => Note(d, content).misses < Misses
<1> USE DEF Watchdog
<1>1. CASE content # d.last /\ content # None
  <2>1. Note(d, content) = [d EXCEPT !.last = content, !.misses = 0]
    BY <1>1 DEF Note
  <2>2. 0 \in 0 .. Misses /\ 0 < Misses
    OBVIOUS
  <2>3. Note(d, content) \in Watchdog
    BY <2>1, <2>2
  <2>4. Note(d, content).pc = d.pc /\ Note(d, content).misses = 0
    BY <2>1
  <2> QED BY <2>2, <2>3, <2>4
<1>2. CASE ~(content # d.last /\ content # None) /\ d.misses + 1 >= Misses
  <2>1. Note(d, content) = [d EXCEPT !.misses = d.misses + 1, !.pc = "declare"]
    BY <1>2 DEF Note
  <2>2. d.misses + 1 \in 0 .. Misses
    OBVIOUS
  <2> QED BY <2>1, <2>2 DEF Watch
<1>3. CASE ~(content # d.last /\ content # None) /\ ~(d.misses + 1 >= Misses)
  <2>1. Note(d, content) = [d EXCEPT !.misses = d.misses + 1, !.pc = d.pc]
    BY <1>3 DEF Note
  <2>2. d.misses + 1 \in 0 .. Misses /\ d.misses + 1 < Misses
    BY <1>3
  <2> QED BY <2>1, <2>2
<1> QED BY <1>1, <1>2, <1>3

(* Types, with the watchdog's count below its budget. *)
LEMMA TypeStep ==
  ASSUME TypeOK, LeaseHeld, Budget, [Next]_vars
  PROVE  TypeOK'
<1> USE DEF TypeOK, LeaseHeld, Budget, Holds, Phase, Watch, Beats, Down, Unheard,
           Goes, Dog, Alive, At, Runs, Go, Fault, files, history
<1>1. ASSUME NEW p \in Proc, Acquire(p) PROVE TypeOK'
  <2>1. proc' \in [Proc -> Process]
    <3>1. epochs + 1 \in 0 .. MaxEpochs
      BY <1>1 DEF Acquire
    <3> QED BY <1>1, <3>1, ZenonT(30) DEF Acquire, Process
  <2>2. dog' \in [Proc -> Watchdog]
    BY <1>1 DEF Acquire, LeaseFree, Watchdog
  <2>3. lease' \in Proc \cup {None} /\ exlock' \in Proc \cup {None, Door} /\ epochs' \in 0 .. MaxEpochs
    BY <1>1 DEF Acquire, LeaseFree
  <2>4. owner' \in Owner \cup {None} /\ marker' \in Proc \cup {None}
    BY <1>1 DEF Acquire, LeaseFree, Owner, Process
  <2>5. progress' \in Beats \cup {None}
    BY <1>1 DEF Acquire, LeaseFree, Process
  <2>6. work' \subseteq 1 .. MaxEpochs /\ faults' \in 0 .. MaxFaults
    BY <1>1 DEF Acquire, LeaseFree, Process
  <2>7. episode' \in BOOLEAN
    BY <1>1 DEF Acquire, LeaseFree, Process
  <2>8. heard' \in [Proc -> Hearing]
    BY <1>1 DEF Acquire, LeaseFree, Hearing
  <2> QED BY <2>1, <2>2, <2>3, <2>4, <2>5, <2>6, <2>7, <2>8
<1>2. ASSUME NEW p \in Proc, Record(p) PROVE TypeOK'
  <2>1. proc' \in [Proc -> Process]
    BY <1>2, SMTT(30) DEF Record, GiveUp, Process
  <2>2. dog' \in [Proc -> Watchdog]
    BY <1>2 DEF Record, GiveUp, Watchdog
  <2>3. lease' \in Proc \cup {None} /\ exlock' \in Proc \cup {None, Door} /\ epochs' \in 0 .. MaxEpochs
    BY <1>2 DEF Record, GiveUp
  <2>4. owner' \in Owner \cup {None} /\ marker' \in Proc \cup {None}
    BY <1>2 DEF Record, GiveUp, Owner, Process
  <2>5. progress' \in Beats \cup {None}
    BY <1>2 DEF Record, GiveUp, Process
  <2>6. work' \subseteq 1 .. MaxEpochs /\ faults' \in 0 .. MaxFaults
    BY <1>2 DEF Record, GiveUp, Process
  <2>7. episode' \in BOOLEAN
    BY <1>2 DEF Record, GiveUp, Process
  <2>8. heard' \in [Proc -> Hearing]
    BY <1>2 DEF Record, GiveUp, Hearing
  <2> QED BY <2>1, <2>2, <2>3, <2>4, <2>5, <2>6, <2>7, <2>8
<1>3. ASSUME NEW p \in Proc, BeginTakeover(p) PROVE TypeOK'
  BY <1>3 DEF BeginTakeover, Process
<1>4. ASSUME NEW p \in Proc, TakeoverFails(p) PROVE TypeOK'
  BY <1>4 DEF TakeoverFails, GiveUp, Process
<1>5. ASSUME NEW p \in Proc, Recover(p) PROVE TypeOK'
  <2>1. proc' \in [Proc -> Process]
    BY <1>5 DEF Recover, Process
  <2>2. dog' \in [Proc -> Watchdog]
    BY <1>5 DEF Recover, Watchdog
  <2>3. lease' \in Proc \cup {None} /\ exlock' \in Proc \cup {None, Door} /\ epochs' \in 0 .. MaxEpochs
    BY <1>5 DEF Recover
  <2>4. owner' \in Owner \cup {None} /\ marker' \in Proc \cup {None}
    BY <1>5 DEF Recover, Owner, Process
  <2>5. progress' \in Beats \cup {None}
    BY <1>5 DEF Recover, Process
  <2>6. work' \subseteq 1 .. MaxEpochs /\ faults' \in 0 .. MaxFaults
    BY <1>5 DEF Recover, Process
  <2>7. episode' \in BOOLEAN
    BY <1>5 DEF Recover, Process
  <2>8. heard' \in [Proc -> Hearing]
    BY <1>5 DEF Recover, Hearing
  <2> QED BY <2>1, <2>2, <2>3, <2>4, <2>5, <2>6, <2>7, <2>8
<1>6. ASSUME NEW p \in Proc, ReleaseRecovery(p) PROVE TypeOK'
  BY <1>6 DEF ReleaseRecovery, Process
<1>7. ASSUME NEW p \in Proc, Open(p) PROVE TypeOK'
  <2>1. proc' \in [Proc -> Process]
    BY <1>7 DEF Open, GiveUp, Process
  <2>2. dog' \in [Proc -> Watchdog]
    BY <1>7 DEF Open, GiveUp, Watchdog
  <2>3. lease' \in Proc \cup {None} /\ exlock' \in Proc \cup {None, Door} /\ epochs' \in 0 .. MaxEpochs
    BY <1>7 DEF Open, GiveUp
  <2>4. owner' \in Owner \cup {None} /\ marker' \in Proc \cup {None}
    BY <1>7 DEF Open, GiveUp, Owner, Process
  <2>5. progress' \in Beats \cup {None}
    BY <1>7 DEF Open, GiveUp, Process
  <2>6. work' \subseteq 1 .. MaxEpochs /\ faults' \in 0 .. MaxFaults
    BY <1>7 DEF Open, GiveUp, Process
  <2>7. episode' \in BOOLEAN
    BY <1>7 DEF Open, GiveUp, Process
  <2>8. heard' \in [Proc -> Hearing]
    <3>1. CASE heard' = [heard EXCEPT ![p] = Unheard]
      BY <3>1 DEF Hearing
    <3>2. CASE UNCHANGED heard
      BY <3>2
    <3> QED BY <1>7, <3>1, <3>2 DEF Open, GiveUp
  <2> QED BY <2>1, <2>2, <2>3, <2>4, <2>5, <2>6, <2>7, <2>8
<1>8. ASSUME NEW p \in Proc, Publish(p) PROVE TypeOK'
  BY <1>8 DEF Publish, Process
<1>9. ASSUME NEW p \in Proc, Beat(p) PROVE TypeOK'
  <2>1. proc' \in [Proc -> Process]
    BY <1>9 DEF Beat, Process
  <2>2. dog' \in [Proc -> Watchdog]
    BY <1>9 DEF Beat, Watchdog
  <2>3. lease' \in Proc \cup {None} /\ exlock' \in Proc \cup {None, Door} /\ epochs' \in 0 .. MaxEpochs
    BY <1>9 DEF Beat
  <2>4. owner' \in Owner \cup {None} /\ marker' \in Proc \cup {None}
    BY <1>9 DEF Beat, Owner, Process
  <2>5. progress' \in Beats \cup {None}
    BY <1>9 DEF Beat, Process
  <2>6. work' \subseteq 1 .. MaxEpochs /\ faults' \in 0 .. MaxFaults
    BY <1>9 DEF Beat, Process
  <2>7. episode' \in BOOLEAN
    BY <1>9 DEF Beat, Process
  <2>8. heard' \in [Proc -> Hearing]
    BY <1>9, ZenonT(30) DEF Beat, Hearing
  <2> QED BY <2>1, <2>2, <2>3, <2>4, <2>5, <2>6, <2>7, <2>8
<1>10. ASSUME NEW p \in Proc, Resign(p) PROVE TypeOK'
  BY <1>10 DEF Resign, GiveUp, Process
<1>11. ASSUME NEW p \in Proc, Die(p) PROVE TypeOK'
  BY <1>11 DEF Die, Release, Process
<1>12. ASSUME NEW p \in Proc, Reap(p) PROVE TypeOK'
  BY <1>12 DEF Reap, Process
<1>13. ASSUME NEW p \in Proc, Hang(p) PROVE TypeOK'
  <2>1. proc' \in [Proc -> Process]
    BY <1>13, ZenonT(30) DEF Hang, Process
  <2>2. dog' \in [Proc -> Watchdog]
    BY <1>13 DEF Hang, Watchdog
  <2>3. lease' \in Proc \cup {None} /\ exlock' \in Proc \cup {None, Door} /\ epochs' \in 0 .. MaxEpochs
    BY <1>13 DEF Hang
  <2>4. owner' \in Owner \cup {None} /\ marker' \in Proc \cup {None}
    BY <1>13 DEF Hang, Owner, Process
  <2>5. progress' \in Beats \cup {None}
    BY <1>13 DEF Hang, Process
  <2>6. work' \subseteq 1 .. MaxEpochs /\ faults' \in 0 .. MaxFaults
    BY <1>13 DEF Hang, Process
  <2>7. episode' \in BOOLEAN
    BY <1>13 DEF Hang, Process
  <2>8. heard' \in [Proc -> Hearing]
    BY <1>13 DEF Hang, Hearing
  <2> QED BY <2>1, <2>2, <2>3, <2>4, <2>5, <2>6, <2>7, <2>8
<1>14. ASSUME NEW p \in Proc, Supervise(p) PROVE TypeOK'
  <2>1. proc' \in [Proc -> Process]
    BY <1>14 DEF Supervise, Process
  <2>2. dog' \in [Proc -> Watchdog]
    BY <1>14 DEF Supervise, Watchdog
  <2>3. lease' \in Proc \cup {None} /\ exlock' \in Proc \cup {None, Door} /\ epochs' \in 0 .. MaxEpochs
    BY <1>14 DEF Supervise
  <2>4. owner' \in Owner \cup {None} /\ marker' \in Proc \cup {None}
    BY <1>14 DEF Supervise, Owner, Process
  <2>5. progress' \in Beats \cup {None}
    BY <1>14 DEF Supervise, Process
  <2>6. work' \subseteq 1 .. MaxEpochs /\ faults' \in 0 .. MaxFaults
    BY <1>14 DEF Supervise, Process
  <2>7. episode' \in BOOLEAN
    BY <1>14 DEF Supervise, Process
  <2>8. heard' \in [Proc -> Hearing]
    BY <1>14 DEF Supervise, Hearing
  <2> QED BY <2>1, <2>2, <2>3, <2>4, <2>5, <2>6, <2>7, <2>8
<1>15. ASSUME NEW p \in Proc, Sample(p) PROVE TypeOK'
  <2>1. proc' \in [Proc -> Process]
    BY <1>15 DEF Sample, Note, Process
  <2>2. dog' \in [Proc -> Watchdog]
    <3>1. CASE dog' = [dog EXCEPT ![p].pc = "done"]
      BY <3>1 DEF Watchdog
    <3>2. CASE dog' = [dog EXCEPT ![p] = Note(dog[p], progress)]
      BY <1>15, <3>2, NoteCounts DEF Sample
    <3> QED BY <1>15, <3>1, <3>2 DEF Sample
  <2>3. lease' \in Proc \cup {None} /\ exlock' \in Proc \cup {None, Door} /\ epochs' \in 0 .. MaxEpochs
    BY <1>15 DEF Sample, Note
  <2>4. owner' \in Owner \cup {None} /\ marker' \in Proc \cup {None}
    BY <1>15 DEF Sample, Note, Owner, Process
  <2>5. progress' \in Beats \cup {None}
    BY <1>15 DEF Sample, Note, Process
  <2>6. work' \subseteq 1 .. MaxEpochs /\ faults' \in 0 .. MaxFaults
    BY <1>15 DEF Sample, Note, Process
  <2>7. episode' \in BOOLEAN
    BY <1>15 DEF Sample, Note, Process
  <2>8. heard' \in [Proc -> Hearing]
    <3> DEFINE run == IF ~heard[p].now THEN 0
                      ELSE IF heard[p].run < 2 THEN heard[p].run + 1 ELSE 2
    <3>1. heard[p] \in Hearing
      OBVIOUS
    <3>2. run \in 0 .. 2
      BY <3>1 DEF Hearing
    <3>3. CASE heard' = [heard EXCEPT ![p] = [now |-> FALSE, run |-> run]]
      BY <3>2, <3>3 DEF Hearing
    <3> QED BY <1>15, <3>3 DEF Sample
  <2> QED BY <2>1, <2>2, <2>3, <2>4, <2>5, <2>6, <2>7, <2>8
<1>16. ASSUME NEW p \in Proc, Declare(p) PROVE TypeOK'
  <2>1. proc' \in [Proc -> Process]
    BY <1>16 DEF Declare, Process
  <2>2. dog' \in [Proc -> Watchdog]
    <3>1. dog' = [dog EXCEPT ![p].pc = "term"] \/ dog' = [dog EXCEPT ![p].pc = "failed"]
      BY <1>16 DEF Declare
    <3> QED BY <3>1 DEF Watchdog
  <2>3. lease' \in Proc \cup {None} /\ exlock' \in Proc \cup {None, Door} /\ epochs' \in 0 .. MaxEpochs
    BY <1>16 DEF Declare
  <2>4. owner' \in Owner \cup {None} /\ marker' \in Proc \cup {None}
    BY <1>16 DEF Declare, Owner, Process
  <2>5. progress' \in Beats \cup {None}
    BY <1>16 DEF Declare, Process
  <2>6. work' \subseteq 1 .. MaxEpochs /\ faults' \in 0 .. MaxFaults
    BY <1>16 DEF Declare, Process
  <2>7. episode' \in BOOLEAN
    BY <1>16 DEF Declare, Process
  <2>8. heard' \in [Proc -> Hearing]
    BY <1>16 DEF Declare, Hearing
  <2> QED BY <2>1, <2>2, <2>3, <2>4, <2>5, <2>6, <2>7, <2>8
<1>17. ASSUME NEW p \in Proc, Enforce(p) PROVE TypeOK'
  <2>1. proc' \in [Proc -> Process]
    BY <1>17 DEF Enforce, Release, Process
  <2>2. dog' \in [Proc -> Watchdog]
    BY <1>17 DEF Enforce, Release, Watchdog
  <2>3. lease' \in Proc \cup {None} /\ exlock' \in Proc \cup {None, Door} /\ epochs' \in 0 .. MaxEpochs
    BY <1>17 DEF Enforce, Release
  <2>4. owner' \in Owner \cup {None} /\ marker' \in Proc \cup {None}
    BY <1>17 DEF Enforce, Release, Owner, Process
  <2>5. progress' \in Beats \cup {None}
    BY <1>17 DEF Enforce, Release, Process
  <2>6. work' \subseteq 1 .. MaxEpochs /\ faults' \in 0 .. MaxFaults
    BY <1>17 DEF Enforce, Release, Process
  <2>7. episode' \in BOOLEAN
    BY <1>17 DEF Enforce, Release, Process
  <2>8. heard' \in [Proc -> Hearing]
    BY <1>17 DEF Enforce, Release, Hearing
  <2> QED BY <2>1, <2>2, <2>3, <2>4, <2>5, <2>6, <2>7, <2>8
<1>18. CASE DirectWrite
  BY <1>18 DEF DirectWrite
<1>19. CASE UNCHANGED vars
  BY <1>19 DEF vars
<1> QED BY <1>1, <1>2, <1>3, <1>4, <1>5, <1>6, <1>7, <1>8, <1>9, <1>10, <1>11,
     <1>12, <1>13, <1>14, <1>15, <1>16, <1>17, <1>18, <1>19 DEF Next,
     HolderStep, DogStep

(* The lease follows the phase of its holder. *)
LEMMA LeaseStep ==
  ASSUME TypeOK, LeaseHeld, [Next]_vars
  PROVE  LeaseHeld'
<1> USE DEF TypeOK, Process, LeaseHeld, Holds, Down, LeaseFree, At, Runs, Go, Fault, files, history
<1>1. ASSUME NEW p \in Proc, Acquire(p) PROVE LeaseHeld'
  BY <1>1 DEF Acquire, LeaseFree
<1>2. ASSUME NEW p \in Proc, Record(p) PROVE LeaseHeld'
  BY <1>2 DEF Record, GiveUp
<1>3. ASSUME NEW p \in Proc, BeginTakeover(p) PROVE LeaseHeld'
  BY <1>3 DEF BeginTakeover
<1>4. ASSUME NEW p \in Proc, TakeoverFails(p) PROVE LeaseHeld'
  BY <1>4 DEF TakeoverFails, GiveUp
<1>5. ASSUME NEW p \in Proc, Recover(p) PROVE LeaseHeld'
  BY <1>5 DEF Recover
<1>6. ASSUME NEW p \in Proc, ReleaseRecovery(p) PROVE LeaseHeld'
  BY <1>6 DEF ReleaseRecovery
<1>7. ASSUME NEW p \in Proc, Open(p) PROVE LeaseHeld'
  BY <1>7 DEF Open, GiveUp
<1>8. ASSUME NEW p \in Proc, Publish(p) PROVE LeaseHeld'
  BY <1>8 DEF Publish
<1>9. ASSUME NEW p \in Proc, Beat(p) PROVE LeaseHeld'
  BY <1>9 DEF Beat
<1>10. ASSUME NEW p \in Proc, Resign(p) PROVE LeaseHeld'
  BY <1>10 DEF Resign, GiveUp
<1>11. ASSUME NEW p \in Proc, Die(p) PROVE LeaseHeld'
  BY <1>11 DEF Die, Release
<1>12. ASSUME NEW p \in Proc, Reap(p) PROVE LeaseHeld'
  BY <1>12 DEF Reap
<1>13. ASSUME NEW p \in Proc, Hang(p) PROVE LeaseHeld'
  BY <1>13 DEF Hang
<1>14. ASSUME NEW p \in Proc, Supervise(p) PROVE LeaseHeld'
  BY <1>14 DEF Supervise
<1>15. ASSUME NEW p \in Proc, Sample(p) PROVE LeaseHeld'
  BY <1>15 DEF Sample, Note
<1>16. ASSUME NEW p \in Proc, Declare(p) PROVE LeaseHeld'
  BY <1>16 DEF Declare
<1>17. ASSUME NEW p \in Proc, Enforce(p) PROVE LeaseHeld'
  BY <1>17 DEF Enforce, Release
<1>18. CASE DirectWrite
  BY <1>18 DEF DirectWrite
<1>19. CASE UNCHANGED vars
  BY <1>19 DEF vars
<1> QED BY <1>1, <1>2, <1>3, <1>4, <1>5, <1>6, <1>7, <1>8, <1>9, <1>10, <1>11,
     <1>12, <1>13, <1>14, <1>15, <1>16, <1>17, <1>18, <1>19 DEF Next,
     HolderStep, DogStep

(* So does write.lock. *)
LEMMA LockStep ==
  ASSUME TypeOK, LockHeld, [Next]_vars
  PROVE  LockHeld'
<1> USE DEF TypeOK, Process, LockHeld, Recovers, Down, At, Runs, Go, Fault, files, history
<1>1. ASSUME NEW p \in Proc, Acquire(p) PROVE LockHeld'
  BY <1>1 DEF Acquire, LeaseFree
<1>2. ASSUME NEW p \in Proc, Record(p) PROVE LockHeld'
  BY <1>2 DEF Record, GiveUp
<1>3. ASSUME NEW p \in Proc, BeginTakeover(p) PROVE LockHeld'
  BY <1>3 DEF BeginTakeover
<1>4. ASSUME NEW p \in Proc, TakeoverFails(p) PROVE LockHeld'
  BY <1>4 DEF TakeoverFails, GiveUp
<1>5. ASSUME NEW p \in Proc, Recover(p) PROVE LockHeld'
  BY <1>5 DEF Recover
<1>6. ASSUME NEW p \in Proc, ReleaseRecovery(p) PROVE LockHeld'
  BY <1>6 DEF ReleaseRecovery
<1>7. ASSUME NEW p \in Proc, Open(p) PROVE LockHeld'
  BY <1>7 DEF Open, GiveUp
<1>8. ASSUME NEW p \in Proc, Publish(p) PROVE LockHeld'
  BY <1>8 DEF Publish
<1>9. ASSUME NEW p \in Proc, Beat(p) PROVE LockHeld'
  BY <1>9 DEF Beat
<1>10. ASSUME NEW p \in Proc, Resign(p) PROVE LockHeld'
  BY <1>10 DEF Resign, GiveUp
<1>11. ASSUME NEW p \in Proc, Die(p) PROVE LockHeld'
  BY <1>11 DEF Die, Release
<1>12. ASSUME NEW p \in Proc, Reap(p) PROVE LockHeld'
  BY <1>12 DEF Reap
<1>13. ASSUME NEW p \in Proc, Hang(p) PROVE LockHeld'
  BY <1>13 DEF Hang
<1>14. ASSUME NEW p \in Proc, Supervise(p) PROVE LockHeld'
  BY <1>14 DEF Supervise
<1>15. ASSUME NEW p \in Proc, Sample(p) PROVE LockHeld'
  BY <1>15 DEF Sample, Note
<1>16. ASSUME NEW p \in Proc, Declare(p) PROVE LockHeld'
  BY <1>16 DEF Declare
<1>17. ASSUME NEW p \in Proc, Enforce(p) PROVE LockHeld'
  BY <1>17 DEF Enforce, Release
<1>18. CASE DirectWrite
  BY <1>18 DEF DirectWrite
<1>19. CASE UNCHANGED vars
  BY <1>19 DEF vars
<1> QED BY <1>1, <1>2, <1>3, <1>4, <1>5, <1>6, <1>7, <1>8, <1>9, <1>10, <1>11,
     <1>12, <1>13, <1>14, <1>15, <1>16, <1>17, <1>18, <1>19 DEF Next,
     HolderStep, DogStep

(* Between recovery and ready nobody publishes. *)
LEMMA WorkStep ==
  ASSUME TypeOK, LeaseHeld, WorkDone, [Next]_vars
  PROVE  WorkDone'
<1> USE DEF TypeOK, Process, LeaseHeld, WorkDone, Holds, Recovered, Down, At, Runs, Go, Fault, files, history
<1>1. ASSUME NEW p \in Proc, Acquire(p) PROVE WorkDone'
  BY <1>1 DEF Acquire, LeaseFree
<1>2. ASSUME NEW p \in Proc, Record(p) PROVE WorkDone'
  BY <1>2 DEF Record, GiveUp
<1>3. ASSUME NEW p \in Proc, BeginTakeover(p) PROVE WorkDone'
  BY <1>3 DEF BeginTakeover
<1>4. ASSUME NEW p \in Proc, TakeoverFails(p) PROVE WorkDone'
  BY <1>4 DEF TakeoverFails, GiveUp
<1>5. ASSUME NEW p \in Proc, Recover(p) PROVE WorkDone'
  BY <1>5 DEF Recover
<1>6. ASSUME NEW p \in Proc, ReleaseRecovery(p) PROVE WorkDone'
  BY <1>6 DEF ReleaseRecovery
<1>7. ASSUME NEW p \in Proc, Open(p) PROVE WorkDone'
  BY <1>7 DEF Open, GiveUp
<1>8. ASSUME NEW p \in Proc, Publish(p) PROVE WorkDone'
  BY <1>8 DEF Publish
<1>9. ASSUME NEW p \in Proc, Beat(p) PROVE WorkDone'
  BY <1>9 DEF Beat
<1>10. ASSUME NEW p \in Proc, Resign(p) PROVE WorkDone'
  BY <1>10 DEF Resign, GiveUp
<1>11. ASSUME NEW p \in Proc, Die(p) PROVE WorkDone'
  BY <1>11 DEF Die, Release
<1>12. ASSUME NEW p \in Proc, Reap(p) PROVE WorkDone'
  BY <1>12 DEF Reap
<1>13. ASSUME NEW p \in Proc, Hang(p) PROVE WorkDone'
  BY <1>13 DEF Hang
<1>14. ASSUME NEW p \in Proc, Supervise(p) PROVE WorkDone'
  BY <1>14 DEF Supervise
<1>15. ASSUME NEW p \in Proc, Sample(p) PROVE WorkDone'
  BY <1>15 DEF Sample, Note
<1>16. ASSUME NEW p \in Proc, Declare(p) PROVE WorkDone'
  BY <1>16 DEF Declare
<1>17. ASSUME NEW p \in Proc, Enforce(p) PROVE WorkDone'
  BY <1>17 DEF Enforce, Release
<1>18. CASE DirectWrite
  BY <1>18 DEF DirectWrite
<1>19. CASE UNCHANGED vars
  BY <1>19 DEF vars
<1> QED BY <1>1, <1>2, <1>3, <1>4, <1>5, <1>6, <1>7, <1>8, <1>9, <1>10, <1>11,
     <1>12, <1>13, <1>14, <1>15, <1>16, <1>17, <1>18, <1>19 DEF Next,
     HolderStep, DogStep

(* A watch below its budget goes on. *)
LEMMA BudgetStep ==
  ASSUME TypeOK, Budget, [Next]_vars
  PROVE  Budget'
<1> USE DEF TypeOK, Watchdog, Budget, Goes, Dog, At, Runs, Go, Fault, files, history
<1>1. ASSUME NEW p \in Proc, Acquire(p) PROVE Budget'
  BY <1>1 DEF Acquire, LeaseFree
<1>2. ASSUME NEW p \in Proc, Record(p) PROVE Budget'
  BY <1>2 DEF Record, GiveUp
<1>3. ASSUME NEW p \in Proc, BeginTakeover(p) PROVE Budget'
  BY <1>3 DEF BeginTakeover
<1>4. ASSUME NEW p \in Proc, TakeoverFails(p) PROVE Budget'
  BY <1>4 DEF TakeoverFails, GiveUp
<1>5. ASSUME NEW p \in Proc, Recover(p) PROVE Budget'
  BY <1>5 DEF Recover
<1>6. ASSUME NEW p \in Proc, ReleaseRecovery(p) PROVE Budget'
  BY <1>6 DEF ReleaseRecovery
<1>7. ASSUME NEW p \in Proc, Open(p) PROVE Budget'
  BY <1>7 DEF Open, GiveUp
<1>8. ASSUME NEW p \in Proc, Publish(p) PROVE Budget'
  BY <1>8 DEF Publish
<1>9. ASSUME NEW p \in Proc, Beat(p) PROVE Budget'
  BY <1>9 DEF Beat
<1>10. ASSUME NEW p \in Proc, Resign(p) PROVE Budget'
  BY <1>10 DEF Resign, GiveUp
<1>11. ASSUME NEW p \in Proc, Die(p) PROVE Budget'
  BY <1>11 DEF Die, Release
<1>12. ASSUME NEW p \in Proc, Reap(p) PROVE Budget'
  BY <1>12 DEF Reap
<1>13. ASSUME NEW p \in Proc, Hang(p) PROVE Budget'
  BY <1>13 DEF Hang
<1>14. ASSUME NEW p \in Proc, Supervise(p) PROVE Budget'
  BY <1>14 DEF Supervise
<1>15. ASSUME NEW p \in Proc, Sample(p) PROVE Budget'
  <2>1. CASE ~Alive(p)
    BY <1>15, <2>1 DEF Sample
  <2>2. CASE Alive(p) /\ dog' = [dog EXCEPT ![p] = Note(dog[p], progress)]
    BY <1>15, <2>2, NoteCounts DEF Sample
  <2> QED BY <1>15, <2>1, <2>2 DEF Sample
<1>16. ASSUME NEW p \in Proc, Declare(p) PROVE Budget'
  BY <1>16 DEF Declare
<1>17. ASSUME NEW p \in Proc, Enforce(p) PROVE Budget'
  BY <1>17 DEF Enforce, Release
<1>18. CASE DirectWrite
  BY <1>18 DEF DirectWrite
<1>19. CASE UNCHANGED vars
  BY <1>19 DEF vars
<1> QED BY <1>1, <1>2, <1>3, <1>4, <1>5, <1>6, <1>7, <1>8, <1>9, <1>10, <1>11,
     <1>12, <1>13, <1>14, <1>15, <1>16, <1>17, <1>18, <1>19 DEF Next,
     HolderStep, DogStep

(* The record is written under the lease and by nobody else. *)
LEMMA HintStep ==
  ASSUME TypeOK, LeaseHeld, HintNamesHolder, [Next]_vars
  PROVE  HintNamesHolder'
<1> USE DEF TypeOK, Process, LeaseHeld, HintNamesHolder, Holds, Down, At, Runs, Go, Fault, files, history
<1>1. ASSUME NEW p \in Proc, Acquire(p) PROVE HintNamesHolder'
  BY <1>1 DEF Acquire, LeaseFree
<1>2. ASSUME NEW p \in Proc, Record(p) PROVE HintNamesHolder'
  BY <1>2 DEF Record, GiveUp
<1>3. ASSUME NEW p \in Proc, BeginTakeover(p) PROVE HintNamesHolder'
  BY <1>3 DEF BeginTakeover
<1>4. ASSUME NEW p \in Proc, TakeoverFails(p) PROVE HintNamesHolder'
  BY <1>4 DEF TakeoverFails, GiveUp
<1>5. ASSUME NEW p \in Proc, Recover(p) PROVE HintNamesHolder'
  BY <1>5 DEF Recover
<1>6. ASSUME NEW p \in Proc, ReleaseRecovery(p) PROVE HintNamesHolder'
  BY <1>6 DEF ReleaseRecovery
<1>7. ASSUME NEW p \in Proc, Open(p) PROVE HintNamesHolder'
  BY <1>7 DEF Open, GiveUp
<1>8. ASSUME NEW p \in Proc, Publish(p) PROVE HintNamesHolder'
  BY <1>8 DEF Publish
<1>9. ASSUME NEW p \in Proc, Beat(p) PROVE HintNamesHolder'
  BY <1>9 DEF Beat
<1>10. ASSUME NEW p \in Proc, Resign(p) PROVE HintNamesHolder'
  BY <1>10 DEF Resign, GiveUp
<1>11. ASSUME NEW p \in Proc, Die(p) PROVE HintNamesHolder'
  BY <1>11 DEF Die, Release
<1>12. ASSUME NEW p \in Proc, Reap(p) PROVE HintNamesHolder'
  BY <1>12 DEF Reap
<1>13. ASSUME NEW p \in Proc, Hang(p) PROVE HintNamesHolder'
  BY <1>13 DEF Hang
<1>14. ASSUME NEW p \in Proc, Supervise(p) PROVE HintNamesHolder'
  BY <1>14 DEF Supervise
<1>15. ASSUME NEW p \in Proc, Sample(p) PROVE HintNamesHolder'
  BY <1>15 DEF Sample, Note
<1>16. ASSUME NEW p \in Proc, Declare(p) PROVE HintNamesHolder'
  BY <1>16 DEF Declare
<1>17. ASSUME NEW p \in Proc, Enforce(p) PROVE HintNamesHolder'
  BY <1>17 DEF Enforce, Release
<1>18. CASE DirectWrite
  BY <1>18 DEF DirectWrite
<1>19. CASE UNCHANGED vars
  BY <1>19 DEF vars
<1> QED BY <1>1, <1>2, <1>3, <1>4, <1>5, <1>6, <1>7, <1>8, <1>9, <1>10, <1>11,
     <1>12, <1>13, <1>14, <1>15, <1>16, <1>17, <1>18, <1>19 DEF Next,
     HolderStep, DogStep

(* Only ready removes the marker. *)
LEMMA EpisodeStep ==
  ASSUME EpisodeTold, [Next]_vars
  PROVE  EpisodeTold'
<1> USE DEF EpisodeTold, Refusal, Goes, At, Runs, Go, Fault, files, history
<1>1. ASSUME NEW p \in Proc, Acquire(p) PROVE EpisodeTold'
  BY <1>1 DEF Acquire, LeaseFree
<1>2. ASSUME NEW p \in Proc, Record(p) PROVE EpisodeTold'
  BY <1>2 DEF Record, GiveUp
<1>3. ASSUME NEW p \in Proc, BeginTakeover(p) PROVE EpisodeTold'
  BY <1>3 DEF BeginTakeover
<1>4. ASSUME NEW p \in Proc, TakeoverFails(p) PROVE EpisodeTold'
  BY <1>4 DEF TakeoverFails, GiveUp
<1>5. ASSUME NEW p \in Proc, Recover(p) PROVE EpisodeTold'
  BY <1>5 DEF Recover
<1>6. ASSUME NEW p \in Proc, ReleaseRecovery(p) PROVE EpisodeTold'
  BY <1>6 DEF ReleaseRecovery
<1>7. ASSUME NEW p \in Proc, Open(p) PROVE EpisodeTold'
  BY <1>7 DEF Open, GiveUp
<1>8. ASSUME NEW p \in Proc, Publish(p) PROVE EpisodeTold'
  BY <1>8 DEF Publish
<1>9. ASSUME NEW p \in Proc, Beat(p) PROVE EpisodeTold'
  BY <1>9 DEF Beat
<1>10. ASSUME NEW p \in Proc, Resign(p) PROVE EpisodeTold'
  BY <1>10 DEF Resign, GiveUp
<1>11. ASSUME NEW p \in Proc, Die(p) PROVE EpisodeTold'
  BY <1>11 DEF Die, Release
<1>12. ASSUME NEW p \in Proc, Reap(p) PROVE EpisodeTold'
  BY <1>12 DEF Reap
<1>13. ASSUME NEW p \in Proc, Hang(p) PROVE EpisodeTold'
  BY <1>13 DEF Hang
<1>14. ASSUME NEW p \in Proc, Supervise(p) PROVE EpisodeTold'
  BY <1>14 DEF Supervise
<1>15. ASSUME NEW p \in Proc, Sample(p) PROVE EpisodeTold'
  BY <1>15 DEF Sample, Note
<1>16. ASSUME NEW p \in Proc, Declare(p) PROVE EpisodeTold'
  BY <1>16 DEF Declare
<1>17. ASSUME NEW p \in Proc, Enforce(p) PROVE EpisodeTold'
  BY <1>17 DEF Enforce, Release
<1>18. CASE DirectWrite
  BY <1>18 DEF DirectWrite
<1>19. CASE UNCHANGED vars
  BY <1>19 DEF vars
<1> QED BY <1>1, <1>2, <1>3, <1>4, <1>5, <1>6, <1>7, <1>8, <1>9, <1>10, <1>11,
     <1>12, <1>13, <1>14, <1>15, <1>16, <1>17, <1>18, <1>19 DEF Next,
     HolderStep, DogStep

(* Where no beat is written, no sample taken and nobody comes to be ready, *)
(* the watchdogs know what they knew.                                      *)
LEMMA NothingHeard ==
  ASSUME Attended, BeatingNotDeclared, progress' = progress, dog' = dog, heard' = heard,
         \A q \in Proc : At(q, "ready")' => At(q, "ready") /\ proc'[q].beats = proc[q].beats
  PROVE  Attended' /\ BeatingNotDeclared'
BY DEF Attended, BeatingNotDeclared, At, Dog

(* What a watchdog hears of a ready process.  Only the lease holder is ready *)
(* (LeaseHeld), so nobody else rewrites the count meanwhile.               *)
LEMMA AttendedStep ==
  ASSUME TypeOK, LeaseHeld, Attended, BeatingNotDeclared, [Next]_vars
  PROVE  Attended' /\ BeatingNotDeclared'
<1> USE DEF At, Fault, files, history
<1>0. proc \in [Proc -> Process] /\ dog \in [Proc -> Watchdog] /\ heard \in [Proc -> Hearing]
  BY DEF TypeOK
<1>1. ASSUME NEW p \in Proc, Acquire(p) PROVE Attended' /\ BeatingNotDeclared'
  <2>1. progress' = progress /\ dog' = dog /\ heard' = heard
    BY <1>1 DEF Acquire
  <2>2. \A q \in Proc : At(q, "ready")' => At(q, "ready") /\ proc'[q].beats = proc[q].beats
    BY <1>0, <1>1 DEF Acquire, Runs, Process
  <2> QED BY <2>1, <2>2, NothingHeard
<1>2. ASSUME NEW p \in Proc, Record(p) PROVE Attended' /\ BeatingNotDeclared'
  <2>1. progress' = progress /\ dog' = dog /\ heard' = heard
    BY <1>2 DEF Record, GiveUp
  <2>2. \A q \in Proc : At(q, "ready")' => At(q, "ready") /\ proc'[q].beats = proc[q].beats
    BY <1>0, <1>2 DEF Record, GiveUp, Go, Runs, Process
  <2> QED BY <2>1, <2>2, NothingHeard
<1>3. ASSUME NEW p \in Proc, BeginTakeover(p) PROVE Attended' /\ BeatingNotDeclared'
  <2>1. progress' = progress /\ dog' = dog /\ heard' = heard
    BY <1>3 DEF BeginTakeover
  <2>2. \A q \in Proc : At(q, "ready")' => At(q, "ready") /\ proc'[q].beats = proc[q].beats
    BY <1>0, <1>3 DEF BeginTakeover, Go, Runs, Process
  <2> QED BY <2>1, <2>2, NothingHeard
<1>4. ASSUME NEW p \in Proc, TakeoverFails(p) PROVE Attended' /\ BeatingNotDeclared'
  <2>1. progress' = progress /\ dog' = dog /\ heard' = heard
    BY <1>4 DEF TakeoverFails, GiveUp
  <2>2. \A q \in Proc : At(q, "ready")' => At(q, "ready") /\ proc'[q].beats = proc[q].beats
    BY <1>0, <1>4 DEF TakeoverFails, GiveUp, Go, Runs, Process
  <2> QED BY <2>1, <2>2, NothingHeard
<1>5. ASSUME NEW p \in Proc, Recover(p) PROVE Attended' /\ BeatingNotDeclared'
  <2>1. progress' = progress /\ dog' = dog /\ heard' = heard
    BY <1>5 DEF Recover
  <2>2. \A q \in Proc : At(q, "ready")' => At(q, "ready") /\ proc'[q].beats = proc[q].beats
    BY <1>0, <1>5 DEF Recover, Go, Runs, Process
  <2> QED BY <2>1, <2>2, NothingHeard
<1>6. ASSUME NEW p \in Proc, ReleaseRecovery(p) PROVE Attended' /\ BeatingNotDeclared'
  <2>1. progress' = progress /\ dog' = dog /\ heard' = heard
    BY <1>6 DEF ReleaseRecovery
  <2>2. \A q \in Proc : At(q, "ready")' => At(q, "ready") /\ proc'[q].beats = proc[q].beats
    BY <1>0, <1>6 DEF ReleaseRecovery, Go, Runs, Process
  <2> QED BY <2>1, <2>2, NothingHeard
<1>7. ASSUME NEW p \in Proc, Open(p) PROVE Attended' /\ BeatingNotDeclared'
  <2>1. CASE proc' = [proc EXCEPT ![p].pc = "ready", ![p].beats = 0]
    <3>1. /\ progress' \in {progress} /\ dog' = dog /\ heard' = [heard EXCEPT ![p] = Unheard]
      BY <1>0, <1>7, <2>1 DEF Open, GiveUp, Go, Process
    <3>2. ~heard'[p].now /\ heard'[p].run = 0
      BY <1>0, <3>1 DEF Unheard, Hearing
    <3>3. ASSUME NEW q \in Proc \ {p}
          PROVE  proc'[q] = proc[q] /\ heard'[q] = heard[q]
      BY <1>0, <2>1, <3>1
    <3> QED BY <3>1, <3>2, <3>3 DEF Attended, BeatingNotDeclared, Dog
  <2>2. CASE Fault /\ GiveUp(p)
    <3>1. progress' = progress /\ dog' = dog /\ heard' = heard
      BY <2>2 DEF GiveUp
    <3>2. \A q \in Proc : At(q, "ready")' => At(q, "ready") /\ proc'[q].beats = proc[q].beats
      BY <1>0, <2>2 DEF GiveUp, Go, Process
    <3> QED BY <3>1, <3>2, NothingHeard
  <2> QED BY <1>7, <2>1, <2>2 DEF Open
<1>8. ASSUME NEW p \in Proc, Publish(p) PROVE Attended' /\ BeatingNotDeclared'
  <2>1. progress' = progress /\ dog' = dog /\ heard' = heard
    BY <1>8 DEF Publish
  <2>2. \A q \in Proc : At(q, "ready")' => At(q, "ready") /\ proc'[q].beats = proc[q].beats
    BY <1>0, <1>8 DEF Publish, Process
  <2> QED BY <2>1, <2>2, NothingHeard
<1>9. ASSUME NEW p \in Proc, Beat(p) PROVE Attended' /\ BeatingNotDeclared'
  <2>1. \A q \in Proc \ {p} : ~At(q, "ready") /\ proc'[q] = proc[q]
    BY <1>9 DEF Beat, Runs, LeaseHeld, Holds, Down
  <2>2. /\ proc'[p].beats = proc[p].beats + 1 /\ proc[p].beats \in Nat
        /\ At(p, "ready") /\ dog' = dog
    BY <1>0, <1>9 DEF Beat, Runs, Process, Beats
  <2>3. CASE progress' = proc[p].beats + 1 /\ heard' = [heard EXCEPT ![p].now = (dog[p].pc = "watch")]
    <3>1. heard'[p].run = heard[p].run /\ (heard'[p].now => dog[p].pc = "watch")
      BY <1>0, <2>3 DEF Hearing
    <3>2. progress' \in 1 .. proc'[p].beats
      BY <2>2, <2>3
    <3>3. heard'[p].run > 0 => dog'[p].last \in 1 .. proc'[p].beats /\ progress' > dog'[p].last
      BY <2>2, <2>3, <3>1 DEF Attended
    <3> QED BY <2>1, <2>2, <3>1, <3>2, <3>3 DEF Attended, BeatingNotDeclared, Dog
  <2>4. CASE UNCHANGED <<progress, heard>>
    <3>1. heard[p].now => progress' \in 1 .. proc'[p].beats
      BY <2>2, <2>4 DEF Attended
    <3>2. heard[p].run > 0 => dog'[p].last \in 1 .. proc'[p].beats
      BY <2>2, <2>4 DEF Attended
    <3> QED BY <2>1, <2>2, <2>4, <3>1, <3>2 DEF Attended, BeatingNotDeclared, Dog
  <2> QED BY <1>9, <2>3, <2>4 DEF Beat
<1>10. ASSUME NEW p \in Proc, Resign(p) PROVE Attended' /\ BeatingNotDeclared'
  <2>1. progress' = progress /\ dog' = dog /\ heard' = heard
    BY <1>10 DEF Resign, GiveUp
  <2>2. \A q \in Proc : At(q, "ready")' => At(q, "ready") /\ proc'[q].beats = proc[q].beats
    BY <1>0, <1>10 DEF Resign, GiveUp, Go, Process
  <2> QED BY <2>1, <2>2, NothingHeard
<1>11. ASSUME NEW p \in Proc, Die(p) PROVE Attended' /\ BeatingNotDeclared'
  <2>1. progress' = progress /\ dog' = dog /\ heard' = heard
    BY <1>11 DEF Die
  <2>2. \A q \in Proc : At(q, "ready")' => At(q, "ready") /\ proc'[q].beats = proc[q].beats
    BY <1>0, <1>11 DEF Die, Go, Process
  <2> QED BY <2>1, <2>2, NothingHeard
<1>12. ASSUME NEW p \in Proc, Reap(p) PROVE Attended' /\ BeatingNotDeclared'
  <2>1. progress' = progress /\ dog' = dog /\ heard' = heard
    BY <1>12 DEF Reap
  <2>2. \A q \in Proc : At(q, "ready")' => At(q, "ready") /\ proc'[q].beats = proc[q].beats
    BY <1>0, <1>12 DEF Reap, Go, Process
  <2> QED BY <2>1, <2>2, NothingHeard
<1>13. ASSUME NEW p \in Proc, Hang(p) PROVE Attended' /\ BeatingNotDeclared'
  <2>1. progress' = progress /\ dog' = dog /\ heard' = heard
    BY <1>13 DEF Hang
  <2>2. \A q \in Proc : At(q, "ready")' => At(q, "ready") /\ proc'[q].beats = proc[q].beats
    BY <1>0, <1>13 DEF Hang, Process
  <2> QED BY <2>1, <2>2, NothingHeard
<1>14. ASSUME NEW p \in Proc, Supervise(p) PROVE Attended' /\ BeatingNotDeclared'
  <2>1. proc' = proc /\ progress' = progress /\ heard' = heard
    BY <1>14 DEF Supervise
  <2>2. \A q \in Proc : dog'[q].last = dog[q].last
                       /\ (dog'[q].pc = dog[q].pc \/ dog'[q].pc = "watch")
    BY <1>0, <1>14 DEF Supervise, Goes, Watchdog
  <2> QED BY <2>1, <2>2 DEF Attended, BeatingNotDeclared, Dog
<1>15. ASSUME NEW p \in Proc, Sample(p) PROVE Attended' /\ BeatingNotDeclared'
  <2>1. proc' = proc /\ progress' = progress
    BY <1>15 DEF Sample
  <2>2. \A q \in Proc \ {p} : dog'[q] = dog[q] /\ heard'[q] = heard[q]
    BY <1>0, <1>15 DEF Sample, Goes
  <2> DEFINE Fresh ==
               /\ ~heard'[p].now
               /\ heard'[p].run > 0 => dog'[p].last \in 1 .. proc[p].beats
               /\ dog'[p].pc = "declare" => heard'[p].run < 2
  <2> DEFINE Told(q) ==
               /\ heard'[q].now => dog'[q].pc = "watch" /\ progress \in 1 .. proc[q].beats
               /\ heard'[q].run > 0 => dog'[q].last \in 1 .. proc[q].beats
               /\ heard'[q].run > 0 /\ heard'[q].now => progress > dog'[q].last
               /\ dog'[q].pc = "declare" => heard'[q].run < 2
  <2>3. SUFFICES ASSUME At(p, "ready") PROVE Fresh
    <3>1. \A q \in Proc \ {p} : At(q, "ready") => Told(q)
      BY <2>2 DEF Attended, BeatingNotDeclared, Dog
    <3>2. Fresh => Told(p)
      OBVIOUS
    <3>3. SUFFICES \A q \in Proc : At(q, "ready") => Told(q)
      BY <2>1 DEF Attended, BeatingNotDeclared, Dog
    <3> HIDE DEF Told
    <3> QED BY <3>1, <3>2
  <2>4. dog[p].pc = "watch" /\ dog' = [dog EXCEPT ![p] = Note(dog[p], progress)]
    BY <1>15, <2>3 DEF Sample, Alive, Dog
  <2>5. heard' = [heard EXCEPT ![p] =
                   [now |-> FALSE,
                    run |-> IF ~@.now THEN 0 ELSE IF @.run < 2 THEN @.run + 1 ELSE 2]]
    BY <1>15, <2>3 DEF Sample, Alive
  <2>6. ~heard'[p].now /\ dog'[p] = Note(dog[p], progress)
    BY <1>0, <2>4, <2>5
  <2>7. CASE ~heard[p].now
    <3>1. heard'[p].run = 0
      BY <1>0, <2>5, <2>7
    <3> QED BY <2>6, <3>1
  <2>8. CASE heard[p].now
    <3>1. progress \in 1 .. proc[p].beats /\ progress # None
      <4>1. progress \in 1 .. proc[p].beats
        BY <2>3, <2>8 DEF Attended
      <4>2. progress # None
        BY <4>1, <1>0, NoneIsNoCount DEF Process, Beats
      <4> QED BY <4>1, <4>2
    <3>2. dog'[p].last = progress
      <4>1. dog[p] \in Watchdog
        BY <1>0
      <4> QED BY <2>6, <3>1, <4>1 DEF Note, Watchdog
    <3>3. CASE heard[p].run > 0
      <4>1. dog[p].last \in 1 .. proc[p].beats /\ progress > dog[p].last
        BY <2>3, <2>8, <3>3 DEF Attended
      <4>2. progress # dog[p].last
        BY <3>1, <4>1
      <4>3. dog'[p].pc = "watch"
        BY <1>0, <2>4, <2>6, <3>1, <4>2 DEF Note, Watchdog
      <4> QED BY <2>6, <3>1, <3>2, <4>3
    <3>4. CASE ~(heard[p].run > 0)
      <4>1. heard[p].run = 0
        BY <1>0, <3>4 DEF Hearing
      <4>2. heard'[p].run = 1
        BY <1>0, <2>5, <2>8, <4>1
      <4> QED BY <2>6, <3>1, <3>2, <4>2
    <3> QED BY <3>3, <3>4
  <2> QED BY <2>7, <2>8
<1>16. ASSUME NEW p \in Proc, Declare(p) PROVE Attended' /\ BeatingNotDeclared'
  <2>1. proc' = proc /\ progress' = progress /\ heard' = heard /\ dog[p].pc = "declare"
    BY <1>16 DEF Declare, Dog
  <2>2. \A q \in Proc : dog'[q].last = dog[q].last
                       /\ (dog'[q].pc = dog[q].pc \/ (q = p /\ dog'[q].pc # "declare"))
    <3>1. PICK d \in {"term", "failed"} : dog' = [dog EXCEPT ![p].pc = d]
      BY <1>16 DEF Declare, Goes
    <3> QED BY <1>0, <3>1 DEF Watchdog
  <2> QED BY <2>1, <2>2 DEF Attended, BeatingNotDeclared, Dog
<1>17. ASSUME NEW p \in Proc, Enforce(p) PROVE Attended' /\ BeatingNotDeclared'
  <2>1. progress' = progress /\ heard' = heard /\ dog[p].pc = "term"
    BY <1>17 DEF Enforce, Dog
  <2>2. \A q \in Proc : dog'[q].last = dog[q].last
                       /\ (dog'[q].pc = dog[q].pc \/ (q = p /\ dog'[q].pc # "declare"))
    <3>1. PICK d \in {"done", "stuck"} : dog' = [dog EXCEPT ![p].pc = d]
      BY <1>17 DEF Enforce, Goes
    <3> QED BY <1>0, <3>1 DEF Watchdog
  <2>3. \A q \in Proc : At(q, "ready")' => At(q, "ready") /\ proc'[q].beats = proc[q].beats
    BY <1>0, <1>17 DEF Enforce, Go, Process
  <2> QED BY <2>1, <2>2, <2>3 DEF Attended, BeatingNotDeclared, Dog
<1>18. CASE DirectWrite
  BY <1>18, NothingHeard DEF DirectWrite
<1>19. CASE UNCHANGED vars
  BY <1>19, NothingHeard DEF vars
<1> QED BY <1>1, <1>2, <1>3, <1>4, <1>5, <1>6, <1>7, <1>8, <1>9, <1>10, <1>11,
     <1>12, <1>13, <1>14, <1>15, <1>16, <1>17, <1>18, <1>19 DEF Next,
     HolderStep, DogStep

LEMMA InductiveHolds == Spec => []IInv
<1>1. IInv /\ [Next]_vars => IInv'
  BY TypeStep, LeaseStep, LockStep, WorkStep, BudgetStep, HintStep, EpisodeStep,
     AttendedStep
     DEF IInv
<1> QED BY InitHolds, <1>1, PTL DEF Spec

(* The authority's state stays well formed, no count or bound exceeded.    *)
THEOREM TypeCorrect == Spec => []TypeOK
<1>1. IInv => TypeOK
  BY DEF IInv
<1> QED BY InductiveHolds, <1>1, PTL

(* Admissions open only over a recovered workspace (begin_takeover, ready). *)
THEOREM RecoveredFirst == Spec => []RecoveredBeforeOpen
<1>1. IInv => RecoveredBeforeOpen
  BY DEF IInv, WorkDone, Recovered, RecoveredBeforeOpen, At
<1> QED BY InductiveHolds, <1>1, PTL

(* Recovery runs under write.lock, alone (begin_takeover).                 *)
THEOREM RecoveryExclusive == Spec => []RecoversAlone
<1>1. IInv => RecoversAlone
  BY DEF IInv, LockHeld, Recovers, RecoversAlone
<1> QED BY InductiveHolds, <1>1, PTL

(* The owner record names the holder (acquire).                            *)
THEOREM HintTrue == Spec => []HintNamesHolder
<1>1. IInv => HintNamesHolder
  BY DEF IInv
<1> QED BY InductiveHolds, <1>1, PTL

(* From a holder's declaration to its successor's ready, refusals say      *)
(* wedged (ready removes the marker last).                                 *)
THEOREM EpisodeStands == Spec => []EpisodeTold
<1>1. IInv => EpisodeTold
  BY DEF IInv
<1> QED BY InductiveHolds, <1>1, PTL

(* A ready holder that lands a beat before each of two samples in a row is *)
(* not declared at the second, whatever a lifetime before it left in the   *)
(* progress file (Watchdog::note).                                         *)
THEOREM BeatingSpared == Spec => []BeatingNotDeclared
<1>1. IInv => BeatingNotDeclared
  BY DEF IInv
<1> QED BY InductiveHolds, <1>1, PTL
=============================================================================
