------------------------------ MODULE Residency ------------------------------
(***************************************************************************)
(* Admission, single-flight loading and eviction of document bodies        *)
(* (crates/registry/src/residency): each action is one critical section of *)
(* the ledger or of a slot, or one step outside both, by one thread.       *)
(*                                                                         *)
(* A thread leases a version through catalog.rs `admit` (begin, admit,     *)
(* resolve, finish), then holds its pin; releasing anything trims.  A trim *)
(* and an admission that must make room share the retirement steps         *)
(* (select, shed, settle, collect).  The host drops and re-retains         *)
(* versions, moves the limit and the floor and takes staging reservations. *)
(***************************************************************************)
EXTENDS ResidencyLedger

CONSTANTS
    Accesses,       \* subset of {"Read", "Scan"} the leases use
    StageSizes,     \* staging reservations the host may ask for
    Limits, Floors, \* values the host may set; the first ones are chosen in Init
    MayDrop,        \* versions the catalog may drop and retain again
    MaxHeld,        \* leases one thread holds at once
    RawPins,        \* versions whose storage threads pin apart
    MaxTries,       \* length of RETRY_PAUSES
    MaxFaults,      \* loads that may fail
    PromptPolls     \* a polling lease renews its records in time

ASSUME BoundsAssumption ==
    /\ Accesses \subseteq {"Read", "Scan"}
    /\ StageSizes \subseteq Nat /\ Limits \subseteq Nat /\ Floors \subseteq Nat
    /\ MaxTries \in Nat /\ MaxFaults \in Nat

VARIABLE faults
\* .loads: how many loads failed.  .strays (history): the owners that the
\* finishes of failed calls have counted without charging their row.
allVars == <<vars, faults>>

clientVars == <<held, rawHeld>>

-----------------------------------------------------------------------------
(* Control *)

Unlocked == mutex = NoThread
Goto(t, p) == pc' = [pc EXCEPT ![t] = p]
Rest(t) == loc' = [loc EXCEPT ![t] = NoCall] /\ Goto(t, "idle")

(* Faulty variant: a patience that starts again with each attempt. *)
AttemptAfresh(l) == [NoCall EXCEPT !.key = l.key, !.access = l.access, !.tries = l.tries,
                                   !.unpaused = l.unpaused, !.again = l.again]

(* A fresh attempt of a lease: what the loop of catalog.rs, and the one    *)
(* retry of an overrun in pin, carry from one attempt to the next.         *)
Attempt(l) == [NoCall EXCEPT !.key = l.key, !.access = l.access, !.tries = l.tries,
                             !.unpaused = l.unpaused, !.patience = l.patience,
                             !.again = l.again]

(* Where t goes once its trim finds nothing more to shed. *)
Resume(t) ==
    LET next == loc[t].after
    IN  CASE next = "idle"  -> Rest(t)
          [] next = "begin" -> loc' = [loc EXCEPT ![t] = Attempt(@)] /\ Goto(t, "begin")
          [] OTHER -> loc' = [loc EXCEPT ![t].after = "idle"] /\ Goto(t, next)

(* The local state of a thread that starts a trim before going to `next`. *)
Trimming(l, next) == [l EXCEPT !.mode = "trim", !.after = next]

(* Faulty variant: returns the bytes with every reference. *)
ReleasePermitBytes(p) ==
    LET last == permits[p].refs = 1
    IN  /\ permits' = IF last THEN [permits EXCEPT ![p] = Unissued]
                       ELSE [permits EXCEPT ![p].refs = @ - 1]
        /\ reservedBytes' = reservedBytes - permits[p].bytes
        /\ rows' = rows

(* Faulty variant: ends with the first reference. *)
ReleasePermitAtOnce(p) ==
    /\ permits' = [permits EXCEPT ![p] = Unissued]
    /\ reservedBytes' = reservedBytes - permits[p].bytes
    /\ rows' = [k \in Key |-> IF rows[k].wave = p THEN [rows[k] EXCEPT !.wave = NoPermit] ELSE rows[k]]

(* Faulty variant: leaves the join hint on the row. *)
ReleasePermitHinted(p) ==
    LET last == permits[p].refs = 1
    IN  /\ permits' = IF last THEN [permits EXCEPT ![p] = Unissued]
                       ELSE [permits EXCEPT ![p].refs = @ - 1]
        /\ reservedBytes' = reservedBytes - IF last THEN permits[p].bytes ELSE 0
        /\ UNCHANGED rows

(* Reservation::drop: the last reference returns the bytes and takes the   *)
(* join hint with it.  Dropping a permit that is not in the table panics.  *)
ReleasePermit(p) ==
    LET last == permits[p].refs = 1
        k == permits[p].member
    IN  /\ p \in Live
        /\ permits' = IF last THEN [permits EXCEPT ![p] = Unissued]
                       ELSE [permits EXCEPT ![p].refs = @ - 1]
        /\ reservedBytes' = reservedBytes - IF last THEN permits[p].bytes ELSE 0
        /\ rows' = IF last /\ k # NoKey /\ rows[k].wave = p
                   THEN [rows EXCEPT ![k].wave = NoPermit] ELSE rows

-----------------------------------------------------------------------------
(* begin_past: resolve what this attempt is before any admission *)

Beginning(t) == pc[t] = "begin" /\ Unlocked

(* A refusal drops the spare reservation, if any, outside the lock. *)
RefuseBegin(t, answer) ==
    /\ loc' = [loc EXCEPT ![t].answer = answer]
    /\ Goto(t, IF loc[t].spare # NoPermit THEN "spare" ELSE "answer")
    /\ UNCHANGED <<ledgerVars, hostVars, slot, mutex, clientVars, faults>>

WouldExhaust(k, access) ==
    slot[k].revision = MaxRevision /\ (access = "Read" \/ slot[k].phase = "Cold")

(* The spare reservation was admitted for a slot revision that is past. *)
StaleSpare(t) ==
    LET k == loc[t].key
        p == loc[t].spare
    IN  p # NoPermit /\ slot[k].phase = "Cold" /\ rows[k].wave # p
          /\ slot[k].revision # permits[p].revision

(* Faulty variant: joins loads declared before the version learned. *)
NeverUnderDeclared(k) == FALSE

(* A load declared before its version learned from an overrun is live. *)
UnderDeclared(k) ==
    \/ rows[k].calls # 0 /\ rows[k].wave # NoPermit /\ permits[rows[k].wave].peak < Declared(k)
    \/ rows[k].calls = 0 /\ rows[k].body = 0
         /\ \E p \in Live : permits[p].member = k /\ permits[p].peak < Declared(k)

NeedsWave(k) == rows[k].body = 0 /\ rows[k].calls = 0

(* A failed flight whose callers have not all returned. *)
FailedFlight(k) ==
    /\ rows[k].calls # 0 /\ rows[k].wave # NoPermit /\ slot[k].phase = "Cold"
    /\ slot[k].revision # permits[rows[k].wave].revision

BeginRetiring(t) == Beginning(t) /\ rows[loc[t].key].retiring /\ RefuseBegin(t, "Retiring")

BeginExhausted(t) ==
    /\ Beginning(t) /\ ~rows[loc[t].key].retiring
    /\ WouldExhaust(loc[t].key, loc[t].access)
    /\ RefuseBegin(t, "Exhausted")

Startable(t) ==
    /\ Beginning(t) /\ ~rows[loc[t].key].retiring
    /\ ~WouldExhaust(loc[t].key, loc[t].access)

BeginStale(t) ==
    /\ Startable(t) /\ StaleSpare(t)
    /\ Goto(t, "spare")
    /\ UNCHANGED <<ledgerVars, hostVars, slot, mutex, loc, clientVars, faults>>

BeginSettling(t) ==
    LET k == loc[t].key
    IN  /\ Startable(t) /\ ~StaleSpare(t)
        /\ UnderDeclared(k) \/ FailedFlight(k)
        /\ RefuseBegin(t, "Settling")

BeginAdmission(t) ==
    LET k == loc[t].key
    IN  /\ Startable(t) /\ ~UnderDeclared(k)
        /\ NeedsWave(k) /\ loc[t].spare = NoPermit
        /\ loc' = [loc EXCEPT ![t].need = Declared(k), ![t].rev = slot[k].revision]
        /\ Goto(t, "admit")
        /\ UNCHANGED <<ledgerVars, hostVars, slot, mutex, clientVars, faults>>

(* Faulty variant: loads beside a flight. *)
OutcomeUnshared(s) == IF s.phase = "Hot" THEN "ready" ELSE "load"

(* What Resident::prepare makes of a slot's phase. *)
Outcome(s) ==
    CASE s.phase = "Hot" -> "ready" [] s.phase = "Loading" -> "wait" [] OTHER -> "load"

(* Resident::prepare under the slot lock: a hit, a wait on the flight, or  *)
(* the flight of this thread.  l is the thread's record, s the slot.       *)
Prepare(t, l, s) ==
    LET bumps == l.access = "Read" \/ s.phase = "Cold"
        spent == bumps /\ s.revision = MaxRevision
        reuse == IF s.lastRaw # NoRaw /\ Alive(s.lastRaw) THEN s.lastRaw ELSE NoRaw
        moved == IF bumps /\ ~spent THEN [s EXCEPT !.revision = @ + 1] ELSE s
        cold  == s.phase = "Cold" /\ ~spent
    IN  /\ slot' = [slot EXCEPT ![l.key] =
                       IF cold THEN [moved EXCEPT !.phase = "Loading", !.lastRaw = reuse]
                               ELSE moved]
        /\ loc' = [loc EXCEPT ![t] =
                       [l EXCEPT !.prep = IF spent THEN "failed" ELSE Outcome(s),
                                 !.hasBody = s.phase = "Hot" /\ ~spent,
                                 !.raw = IF cold THEN reuse ELSE NoRaw]]
        /\ Goto(t, IF l.spare # NoPermit THEN "spare" ELSE "resolve")

(* Enter a call: bind the reservation, count the call, move the recency.   *)
(* The flight that was observed Loading may end before prepare reads the   *)
(* slot again, so that case keeps the ledger locked over two steps.        *)
Enter(t) ==
    LET k == loc[t].key
        opens == NeedsWave(k)
        res == IF opens THEN loc[t].spare ELSE rows[k].wave
        l == [loc[t] EXCEPT !.res = res, !.spare = IF opens THEN NoPermit ELSE @]
    IN  /\ Startable(t) /\ ~StaleSpare(t) /\ ~UnderDeclared(k)
        /\ opens => loc[t].spare # NoPermit
        /\ ~FailedFlight(k)
        /\ permits' = IF opens \/ res = NoPermit THEN permits
                      ELSE [permits EXCEPT ![res].refs = @ + 1]
        /\ rows' = [rows EXCEPT ![k].calls = @ + 1, ![k].refs = @ + 1, ![k].wave = res]
        /\ lru' = Link(lru, k, loc[t].access)
        /\ IF slot[k].phase = "Loading"
           THEN /\ mutex' = t /\ loc' = [loc EXCEPT ![t] = l]
                /\ Goto(t, "prepare") /\ UNCHANGED slot
           ELSE /\ Prepare(t, l, [slot[k] EXCEPT !.lastRaw = IF opens THEN Reusable(k) ELSE @])
                /\ UNCHANGED mutex
        /\ UNCHANGED <<raws, canon, transient, waiting, owed, rawBytes, bodyBytes,
                       reservedBytes, hostVars, clientVars, faults>>

PrepareJoin(t) ==
    /\ pc[t] = "prepare"
    /\ Prepare(t, loc[t], slot[loc[t].key])
    /\ mutex' = NoThread
    /\ UNCHANGED <<ledgerVars, hostVars, clientVars, faults>>

(* Reservation::drop of a spare: stale, refused or race-lost. *)
DropSpare(t) ==
    /\ pc[t] = "spare" /\ Unlocked
    /\ ReleasePermit(loc[t].spare)
    /\ loc' = [loc EXCEPT ![t] = Trimming([@ EXCEPT !.spare = NoPermit],
                                          IF @.prep # "none" THEN "resolve"
                                          ELSE IF @.answer # "none" THEN "answer" ELSE "begin")]
    /\ Goto(t, "select")
    /\ UNCHANGED <<lru, raws, canon, waiting, owed, rawBytes, bodyBytes,
                   hostVars, slot, mutex, clientVars, faults>>
    /\ ClearTransient

-----------------------------------------------------------------------------
(* admit_turn: one locked turn of an admission.  Every turn first clears a *)
(* serialized slot nobody uses, so it decides by Holder.                   *)

Admitting(t) == pc[t] = "admit" /\ Unlocked

(* The row may have been retired, joined or loaded since begin unlocked.   *)
Contends(t) ==
    LET k == loc[t].key
    IN  /\ Admitting(t)
        /\ k # NoKey => /\ ~rows[k].retiring /\ rows[k].wave = NoPermit
                        /\ rows[k].body = 0 /\ rows[k].calls = 0

(* A member admission answered anything but Paused is then owed no turn:   *)
(* that record is removed in a critical section of its own (Unowe).        *)
Answer(t, answer) ==
    IF loc[t].key = NoKey THEN Rest(t)
    ELSE /\ loc' = [loc EXCEPT ![t].answer = answer]
         /\ Goto(t, IF answer = "Paused" THEN "answer" ELSE "unowe")

Refused(t, answer) ==
    /\ Answer(t, answer)
    /\ transient' = Holder
    /\ UNCHANGED <<rows, lru, raws, canon, permits, rawBytes, bodyBytes, reservedBytes,
                   hostVars, slot, mutex, clientVars, faults>>

AdmitRetiring(t) ==
    /\ Admitting(t) /\ loc[t].key # NoKey /\ rows[loc[t].key].retiring
    /\ Refused(t, "Retiring")
    /\ UNCHANGED <<waiting, owed>>

AdmitJoin(t) ==
    LET k == loc[t].key
        p == rows[k].wave
    IN  /\ Admitting(t) /\ k # NoKey /\ ~rows[k].retiring /\ p # NoPermit
        /\ permits' = [permits EXCEPT ![p].refs = @ + 1]
        /\ loc' = [loc EXCEPT ![t].spare = p]
        /\ Goto(t, "unowe")
        /\ transient' = Holder
        /\ UNCHANGED <<rows, lru, raws, canon, waiting, owed, rawBytes, bodyBytes,
                       reservedBytes, hostVars, slot, mutex, clientVars, faults>>

(* The row became hot, or a call began on it: no new wave (Ok(None)). *)
AdmitHot(t) ==
    LET k == loc[t].key
    IN  /\ Admitting(t) /\ k # NoKey /\ ~rows[k].retiring /\ rows[k].wave = NoPermit
        /\ rows[k].body # 0 \/ rows[k].calls # 0
        /\ Goto(t, "unowe")
        /\ transient' = Holder
        /\ UNCHANGED <<rows, lru, raws, canon, permits, waiting, owed, rawBytes, bodyBytes,
                       reservedBytes, hostVars, slot, mutex, loc, clientVars, faults>>

(* A load that is not oversized makes way for the waiting oversized one. *)
AdmitPaused(t) ==
    LET k == loc[t].key
    IN  /\ Contends(t) /\ k # NoKey
        /\ Pauses(k, loc[t].need, loc[t].unpaused)
        /\ owed' = owed \cup {k}
        /\ Refused(t, "Paused")
        /\ UNCHANGED waiting

(* keeps_out: one member waits at a time, and paused loads go first. *)
AdmitKeptOut(t) ==
    LET k == loc[t].key
    IN  /\ Contends(t) /\ k # NoKey /\ KeptOut(k, loc[t].need)
        /\ Refused(t, IF OtherWaits(k) THEN "Busy" ELSE "Waiting")
        /\ UNCHANGED <<waiting, owed>>

Turn(t) ==
    LET k == loc[t].key
        b == loc[t].need
    IN  /\ Contends(t)
        /\ k # NoKey => ~Pauses(k, b, loc[t].unpaused) /\ ~KeptOut(k, b)

Roomless(t) == ~Fits(loc[t].need) /\ ~MayOverflow(loc[t].key, loc[t].need)

(* An oversized load that cannot have the slot now becomes the waiting one. *)
AdmitRefusedOversized(t) ==
    LET k == loc[t].key
        b == loc[t].need
    IN  /\ Turn(t) /\ Roomless(t) /\ Oversized(k, b)
        /\ waiting' = k
        /\ Refused(t, IF SlotAwaits(k, b) THEN "Retiring" ELSE "Waiting")
        /\ UNCHANGED owed

(* Reclaiming every idle body would not make room. *)
AdmitOccupied(t) ==
    LET k == loc[t].key
        b == loc[t].need
        pause == k # NoKey /\ Holder \notin {NoKey, k} /\ ~loc[t].unpaused
    IN  /\ Turn(t) /\ Roomless(t) /\ ~Oversized(k, b) /\ Hopeless(b)
        /\ owed' = IF pause THEN owed \cup {k} ELSE owed
        /\ Refused(t, IF pause THEN "Paused" ELSE "Busy")
        /\ UNCHANGED waiting

Opens(t) ==
    \/ Fits(loc[t].need)
    \/ MayOverflow(loc[t].key, loc[t].need) /\ Reclaimable = {}

(* open_wave: the permit, the join hint on the row and, for a load that    *)
(* does not fit, the serialized slot.                                      *)
AdmitOpen(t) ==
    LET k == loc[t].key
        b == loc[t].need
        fits == Fits(b)
        free == PermitId \ Live
        p == CHOOSE q \in free : TRUE
    IN  /\ Turn(t) /\ Opens(t) /\ free # {}
        /\ permits' = [permits EXCEPT ![p] =
                          [refs |-> 1, bytes |-> b, peak |-> b, member |-> k,
                           settled |-> k = NoKey, revision |-> loc[t].rev,
                           transient |-> IF fits THEN NoKey ELSE k]]
        /\ reservedBytes' = reservedBytes + b
        /\ rows' = IF k = NoKey THEN rows ELSE [rows EXCEPT ![k].wave = p]
        /\ waiting' = IF k # NoKey /\ waiting = k THEN NoKey ELSE waiting
        /\ transient' = IF fits THEN Holder ELSE k
        /\ IF k = NoKey
           THEN loc' = [loc EXCEPT ![t].res = p] /\ Goto(t, "holding")
           ELSE loc' = [loc EXCEPT ![t].spare = p] /\ Goto(t, "unowe")
        /\ UNCHANGED <<lru, raws, canon, owed, rawBytes, bodyBytes,
                       hostVars, slot, mutex, clientVars, faults>>

(* Otherwise unlock, shed one idle body and take another turn. *)
AdmitReclaim(t) ==
    LET k == loc[t].key
        b == loc[t].need
    IN  /\ Turn(t) /\ ~Opens(t)
        /\ Roomless(t) => ~Oversized(k, b) /\ ~Hopeless(b)
        /\ loc' = [loc EXCEPT ![t].mode = "admit"]
        /\ Goto(t, "select")
        /\ transient' = Holder
        /\ UNCHANGED <<rows, lru, raws, canon, permits, waiting, owed, rawBytes, bodyBytes,
                       reservedBytes, hostVars, slot, mutex, clientVars, faults>>

Unowe(t) ==
    /\ pc[t] = "unowe" /\ Unlocked
    /\ owed' = owed \ {loc[t].key}
    /\ IF loc[t].key = NoKey THEN Rest(t)
       ELSE /\ loc' = [loc EXCEPT ![t].mode = "trim"]
            /\ Goto(t, IF loc[t].answer = "none" THEN "begin" ELSE "answer")
    /\ UNCHANGED <<rows, lru, raws, canon, permits, transient, waiting, rawBytes, bodyBytes,
                   reservedBytes, hostVars, slot, mutex, clientVars, faults>>

-----------------------------------------------------------------------------
(* Retirement: shed_one_with, try_shed, Retirement::settle, collect_unused *)

Ticketed(k) == Idle(k) /\ slot[k].phase = "Hot" /\ Unshared(k)

(* Faulty variant: sheds only for an admission or from the slot. *)
VictimsHeld(mode) ==
    Oldest({k \in Key : Ticketed(k) /\ (mode = "admit" \/ Holder = k)})

(* The body a shed would take: an overrun's first, then the oldest one.    *)
Victims(mode) ==
    LET admitting == mode = "admit"
        ready  == limit # 0 /\ Holder # NoKey /\ Idle(Holder)
        wanted == Over \/ admitting \/ ready \/ \E k \in Key : rows[k].forced
        forced == {k \in Key : rows[k].forced /\ Ticketed(k)}
        listed == {k \in Key : Ticketed(k) /\ (Over \/ admitting \/ (limit # 0 /\ Holder = k))}
    IN  IF ~wanted THEN {} ELSE IF forced # {} THEN forced ELSE Oldest(listed)

SelectVictim(t) ==
    /\ pc[t] = "select" /\ Unlocked
    /\ \E v \in Victims(loc[t].mode) :
        /\ rows' = [rows EXCEPT ![v].retiring = TRUE]
        /\ lru' = Unlink(lru, v)
        /\ loc' = [loc EXCEPT ![t].victim = v, ![t].vrev = slot[v].revision]
    /\ transient' = Holder
    /\ Goto(t, "shed")
    /\ UNCHANGED <<raws, canon, permits, waiting, owed, rawBytes, bodyBytes, reservedBytes,
                   hostVars, slot, mutex, clientVars, faults>>

SelectNone(t) ==
    /\ pc[t] = "select" /\ Unlocked /\ Victims(loc[t].mode) = {}
    /\ transient' = Holder
    /\ IF loc[t].mode = "admit" THEN Answer(t, "Busy") ELSE Resume(t)
    /\ UNCHANGED <<rows, lru, raws, canon, permits, waiting, owed, rawBytes, bodyBytes,
                   reservedBytes, hostVars, slot, mutex, clientVars, faults>>

(* try_shed rechecks the ticket under the slot lock alone. *)
TicketHolds(t) ==
    LET v == loc[t].victim
    IN  slot[v].phase = "Hot" /\ slot[v].revision = loc[t].vrev /\ Unshared(v)

Shed(t) ==
    /\ pc[t] = "shed"
    /\ slot' = IF TicketHolds(t)
               THEN [slot EXCEPT ![loc[t].victim] = [@ EXCEPT !.phase = "Cold", !.raw = NoRaw]]
               ELSE slot
    /\ Goto(t, "settle")
    /\ UNCHANGED <<ledgerVars, hostVars, mutex, loc, clientVars, faults>>

(* The charge goes only now that the shed has returned. *)
Settle(t) ==
    LET v == loc[t].victim
        cold == slot[v].phase = "Cold"
    IN  /\ pc[t] = "settle" /\ Unlocked
        /\ rows' = [rows EXCEPT ![v].retiring = FALSE, ![v].body = IF cold THEN 0 ELSE @,
                                ![v].forced = IF cold THEN FALSE ELSE @]
        /\ slot' = IF cold THEN [slot EXCEPT ![v].lastRaw = NoRaw] ELSE slot
        /\ bodyBytes' = bodyBytes - IF cold THEN rows[v].body ELSE 0
        /\ lru' = IF cold THEN lru ELSE Link(lru, v, "Scan")
        /\ loc' = IF cold THEN loc ELSE [loc EXCEPT ![t].answer = "Busy"]
        /\ ReleaseRaw(IF cold THEN rows[v].raw ELSE NoRaw)
        /\ Goto(t, "collect")
        /\ UNCHANGED <<permits, waiting, owed, reservedBytes, hostVars, mutex, clientVars, faults>>
        /\ IF cold THEN ClearTransient ELSE UNCHANGED transient

(* Where a collection returns to: the trim, or the admission that shed.    *)
Collected(t) ==
    Goto(t, IF loc[t].mode = "trim" THEN "select"
            ELSE IF loc[t].answer = "Busy" THEN "unowe" ELSE "admit")

(* Faulty variant: drops a row that is still referenced. *)
CollectableReferenced(k) == rows[k].present /\ rows[k].calls = 0 /\ ~rows[k].retiring
Collectable(k) ==
    rows[k].present /\ rows[k].refs = 0 /\ rows[k].calls = 0 /\ ~rows[k].retiring

CollectNothing(t) ==
    /\ pc[t] = "collect" /\ Unlocked /\ ~Collectable(loc[t].victim)
    /\ Collected(t)
    /\ UNCHANGED <<ledgerVars, hostVars, slot, mutex, loc, clientVars, faults>>

(* The row leaves; what it charged stays charged through its destruction.  *)
Collect(t) ==
    LET v == loc[t].victim
    IN  /\ pc[t] = "collect" /\ Unlocked /\ Collectable(v)
        /\ rows' = [rows EXCEPT ![v] = Absent]
        /\ lru' = Unlink(lru, v)
        /\ slot' = [slot EXCEPT ![v] = NewSlot]
        /\ loc' = [loc EXCEPT ![t].raw = slot[v].raw, ![t].gone = rows[v].body,
                              ![t].goneRaw = rows[v].raw]
        /\ Goto(t, "drop")
        /\ UNCHANGED <<raws, canon, permits, transient, waiting, owed, rawBytes, bodyBytes,
                       reservedBytes, hostVars, mutex, clientVars, faults>>

DropRow(t) ==
    /\ pc[t] = "drop"
    /\ loc' = [loc EXCEPT ![t].raw = NoRaw]
    /\ Goto(t, "destroyed")
    /\ UNCHANGED <<ledgerVars, hostVars, slot, mutex, clientVars, faults>>

(* Detached::drop *)
ReleaseDetached(t) ==
    /\ pc[t] = "destroyed" /\ Unlocked
    /\ bodyBytes' = bodyBytes - loc[t].gone
    /\ IF loc[t].gone # 0 THEN ReleaseRaw(loc[t].goneRaw) ELSE Prune({loc[t].goneRaw} \ {NoRaw})
    /\ loc' = [loc EXCEPT ![t].gone = 0, ![t].goneRaw = NoRaw]
    /\ Collected(t)
    /\ UNCHANGED <<rows, lru, permits, waiting, owed, reservedBytes,
                   hostVars, slot, mutex, clientVars, faults>>
    /\ ClearTransient

-----------------------------------------------------------------------------
(* resolve: run the flight, or take what it left                           *)

Resolving(t, prep) == pc[t] = "resolve" /\ loc[t].prep = prep

Waiters(k) == {t \in Thread : loc[t].key = k /\ loc[t].prep = "wait"}

(* LoadOwner::finish hands the outcome to the slot and to every waiter.    *)
LoadOk(t) ==
    LET k == loc[t].key
        fresh == {id \in RawId : KeyOf(id) = k /\ ~raws[id].charged /\ ~Alive(id)}
        id == IF loc[t].raw # NoRaw THEN loc[t].raw ELSE CHOOSE i \in fresh : TRUE
    IN  /\ Resolving(t, "load")
        /\ loc[t].raw = NoRaw => fresh # {}
        /\ slot' = [slot EXCEPT ![k] = [@ EXCEPT !.phase = "Hot", !.raw = id, !.lastRaw = id]]
        /\ loc' = [u \in Thread |->
                      IF u = t \/ u \in Waiters(k)
                      THEN [loc[u] EXCEPT !.prep = "ready", !.hasBody = TRUE, !.raw = NoRaw]
                      ELSE loc[u]]
        /\ UNCHANGED <<ledgerVars, hostVars, mutex, pc, clientVars, faults>>

(* A backing fault, or an owner that unwound (Abandoned). *)
LoadFail(t) ==
    LET k == loc[t].key
    IN  /\ Resolving(t, "load") /\ faults.loads < MaxFaults
        /\ faults' = [faults EXCEPT !.loads = @ + 1]
        /\ slot' = [slot EXCEPT ![k].phase = "Cold"]
        /\ loc' = [u \in Thread |->
                      IF u = t \/ u \in Waiters(k)
                      THEN [loc[u] EXCEPT !.prep = "failed", !.raw = NoRaw] ELSE loc[u]]
        /\ UNCHANGED <<ledgerVars, hostVars, mutex, pc, clientVars>>

(* The retained body exceeds the peak its shared reservation declared.     *)
Overran(t) ==
    loc[t].res # NoPermit /\ Observed(loc[t].key) > permits[loc[t].res].peak

Learn(t) ==
    LET k == loc[t].key
    IN  /\ Resolving(t, "ready") /\ Unlocked /\ Overran(t)
        /\ rows' = [rows EXCEPT ![k].learned = Max({@, Observed(k)}),
                                ![k].forced = TRUE]
        /\ Goto(t, "overrun")
        /\ UNCHANGED <<lru, raws, canon, permits, transient, waiting, owed, rawBytes, bodyBytes,
                       reservedBytes, hostVars, slot, mutex, loc, clientVars, faults>>

(* settle_wave: once per permit, its body part becomes measured charges.   *)
SettleWave(p, hot, k) ==
    LET part == IF hot THEN Min({permits[p].bytes, Observed(k)}) ELSE 0
    IN  IF p = NoPermit \/ permits[p].settled THEN UNCHANGED <<permits, reservedBytes>>
        ELSE /\ permits' = [permits EXCEPT ![p].settled = TRUE, ![p].bytes = @ - part]
             /\ reservedBytes' = reservedBytes - part

(* Call::finish of a caller that holds the body: its slot is Hot and       *)
(* cannot move, so the slot reads and the ledger section are one step.     *)
FinishHot(t, pins) ==
    LET k == loc[t].key
        first == rows[k].body = 0
    IN  /\ rows' = [rows EXCEPT ![k].raw = IF first THEN slot[k].raw ELSE @,
                                ![k].body = IF first THEN TreeSize[k] ELSE @,
                                ![k].calls = @ - 1, ![k].pins = @ + pins, ![k].refs = @ + pins,
                                ![k].wave = IF rows[k].calls = 1 THEN NoPermit ELSE @]
        /\ IF first THEN AddRaw(slot[k].raw) ELSE UNCHANGED <<raws, rawBytes, canon>>
        /\ bodyBytes' = bodyBytes + IF first THEN TreeSize[k] ELSE 0
        /\ SettleWave(loc[t].res, TRUE, k)
        /\ UNCHANGED <<lru, transient, waiting, owed, hostVars, slot, mutex, faults>>

FinishPin(t) ==
    LET k == loc[t].key
    IN  /\ Resolving(t, "ready") /\ Unlocked /\ ~Overran(t)
        /\ FinishHot(t, 1)
        /\ held' = [held EXCEPT ![t] = @ \cup {k}]
        /\ loc' = [loc EXCEPT ![t].hasBody = FALSE, ![t].prep = "done", ![t].fin = "idle"]
        /\ Goto(t, "call")
        /\ UNCHANGED rawHeld

(* An overrun's caller records the real body, drops it, trims and retries  *)
(* once under what the version learned.                                    *)
FinishOverrun(t) ==
    /\ pc[t] = "overrun" /\ Unlocked
    /\ FinishHot(t, 0)
    /\ loc' = [loc EXCEPT ![t].prep = "done",
                          ![t].fin = IF loc[t].again THEN "answer" ELSE "begin",
                          ![t].answer = IF loc[t].again THEN "PeakExceeded" ELSE "none",
                          ![t].again = TRUE]
    /\ Goto(t, "body")
    /\ UNCHANGED clientVars

DropBody(t) ==
    /\ pc[t] = "body"
    /\ loc' = [loc EXCEPT ![t] = Trimming([@ EXCEPT !.hasBody = FALSE], "call")]
    /\ Goto(t, "select")
    /\ UNCHANGED <<ledgerVars, hostVars, slot, mutex, clientVars, faults>>

(* Call::finish of a failed caller reads the slot twice before it locks    *)
(* the ledger, and the slot may move in between.                           *)
FailSnapshot(t) ==
    /\ Resolving(t, "failed")
    /\ loc' = [loc EXCEPT ![t].snap = slot[loc[t].key].phase]
    /\ Goto(t, "raw")
    /\ UNCHANGED <<ledgerVars, hostVars, slot, mutex, clientVars, faults>>

FailRaw(t) ==
    LET k == loc[t].key
    IN  /\ pc[t] = "raw"
        /\ loc' = [loc EXCEPT ![t].raw = slot[k].raw]
        /\ slot' = IF loc[t].snap = "Cold" THEN [slot EXCEPT ![k].lastRaw = NoRaw] ELSE slot
        /\ Goto(t, "fail")
        /\ UNCHANGED <<ledgerVars, hostVars, mutex, clientVars, faults>>

FinishFail(t) ==
    LET k == loc[t].key
        id == loc[t].raw
        first == id # NoRaw /\ rows[k].body = 0
        body == IF first /\ loc[t].snap = "Hot" THEN TreeSize[k] ELSE 0
        last == rows[k].calls = 1
        cold == last /\ rows[k].body + body = 0
    IN  /\ pc[t] = "fail" /\ Unlocked
        /\ rows' = [rows EXCEPT ![k].raw = IF first THEN id ELSE @,
                                ![k].body = @ + body, ![k].calls = @ - 1,
                                ![k].wave = IF last THEN NoPermit ELSE @]
        /\ IF first THEN AddRaw(id) ELSE UNCHANGED <<raws, rawBytes, canon>>
        /\ bodyBytes' = bodyBytes + body
        /\ IF loc[t].snap = "Loading" THEN UNCHANGED <<permits, reservedBytes>>
           ELSE SettleWave(loc[t].res, loc[t].snap = "Hot", k)
        /\ lru' = IF cold THEN Unlink(lru, k) ELSE lru
        /\ loc' = [loc EXCEPT ![t].raw = NoRaw, ![t].prep = "done",
                              ![t].fin = IF loc[t].res = NoPermit THEN "idle" ELSE "holding"]
        /\ Goto(t, "call")
        /\ faults' = IF first /\ body = 0 THEN [faults EXCEPT !.strays[id] = @ + 1] ELSE faults
        /\ UNCHANGED <<waiting, owed, hostVars, slot, mutex, clientVars>>
        /\ IF cold THEN ClearTransient ELSE UNCHANGED transient

(* Call::drop.  The error of a failed wave keeps a clone of the            *)
(* reservation, so there the charge stays until the error is dropped.      *)
DropCall(t) ==
    LET keeps == loc[t].fin = "holding" \/ loc[t].res = NoPermit
    IN  /\ pc[t] = "call" /\ Unlocked
        /\ IF keeps THEN UNCHANGED <<permits, reservedBytes, rows>> ELSE ReleasePermit(loc[t].res)
        /\ loc' = [loc EXCEPT ![t] = Trimming(IF keeps THEN @ ELSE [@ EXCEPT !.res = NoPermit],
                                              "member")]
        /\ Goto(t, "select")
        /\ UNCHANGED <<lru, raws, canon, waiting, owed, rawBytes, bodyBytes,
                       hostVars, slot, mutex, clientVars, faults>>
        /\ IF keeps THEN UNCHANGED transient ELSE ClearTransient

(* Member::drop *)
DropMember(t) ==
    LET k == loc[t].key
    IN  /\ pc[t] = "member" /\ Unlocked
        /\ rows' = [rows EXCEPT ![k].refs = @ - 1]
        /\ loc' = [loc EXCEPT ![t] = Trimming([@ EXCEPT !.victim = k], @.fin)]
        /\ Goto(t, "collect")
        /\ UNCHANGED <<lru, raws, canon, permits, transient, waiting, owed, rawBytes, bodyBytes,
                       reservedBytes, hostVars, slot, mutex, clientVars, faults>>

(* The reservation of a returned error, or of staged work, ends. *)
DropHolding(t) ==
    /\ pc[t] = "holding" /\ Unlocked
    /\ ReleasePermit(loc[t].res)
    /\ loc' = [loc EXCEPT ![t] = Trimming([@ EXCEPT !.res = NoPermit], "idle")]
    /\ Goto(t, "select")
    /\ UNCHANGED <<lru, raws, canon, waiting, owed, rawBytes, bodyBytes,
                   hostVars, slot, mutex, clientVars, faults>>
    /\ ClearTransient

-----------------------------------------------------------------------------
(* catalog.rs admit: what a lease does with an answer                      *)

Waits == {"Waiting", "Paused"}

SelfBlocked(t) ==
    loc[t].answer \in Waits \cup {"Busy"} /\ held[t] # {} /\ HeldBlocks(t, loc[t].key)

Answered(t) == pc[t] = "answer" /\ Unlocked

Again(t, l) ==
    /\ loc' = [loc EXCEPT ![t] = Attempt([l EXCEPT !.again = FALSE])]
    /\ Goto(t, "begin")
    /\ UNCHANGED <<ledgerVars, hostVars, slot, mutex, clientVars, faults>>

Poll(t) ==
    /\ Answered(t) /\ ~SelfBlocked(t)
    /\ loc[t].answer \in Waits /\ loc[t].patience # "over"
    /\ Again(t, [loc[t] EXCEPT !.patience = "running"])

(* Out of patience, a paused load asks past the pause. *)
Unpause(t) ==
    /\ Answered(t) /\ ~SelfBlocked(t)
    /\ loc[t].answer = "Paused" /\ loc[t].patience = "over" /\ ~loc[t].unpaused
    /\ Again(t, [loc[t] EXCEPT !.unpaused = TRUE])

RetryPause(t) ==
    /\ Answered(t)
    /\ loc[t].answer \in {"Retiring", "Settling"} /\ loc[t].tries < MaxTries
    /\ Again(t, [loc[t] EXCEPT !.tries = @ + 1])

(* Any other answer leaves the loop as an error of the request. *)
Leave(t) ==
    /\ Answered(t)
    /\ ~SelfBlocked(t) =>
         /\ loc[t].answer \in Waits =>
              loc[t].patience = "over" /\ (loc[t].answer = "Paused" => loc[t].unpaused)
         /\ loc[t].answer \in {"Retiring", "Settling"} => loc[t].tries = MaxTries
    /\ Rest(t)
    /\ UNCHANGED <<ledgerVars, hostVars, slot, mutex, clientVars, faults>>

PatienceEnds(t) ==
    /\ loc[t].patience = "running"
    /\ loc' = [loc EXCEPT ![t].patience = "over"]
    /\ UNCHANGED <<ledgerVars, hostVars, slot, mutex, pc, clientVars, faults>>

(* A lease that polls attempts every millisecond, and its record lasts a   *)
(* hundred: with PromptPolls it renews the record in time.                 *)
Polling(t) ==
    loc[t].prep = "none" /\ (loc[t].answer \in Waits \/ loc[t].patience # "unset")
Renews(k) == PromptPolls /\ \E t \in Thread : loc[t].key = k /\ Polling(t)

WaitingExpires ==
    /\ waiting # NoKey /\ ~Renews(waiting)
    /\ waiting' = NoKey
    /\ UNCHANGED <<rows, lru, raws, canon, permits, transient, owed, rawBytes, bodyBytes,
                   reservedBytes, hostVars, slot, mutex, pc, loc, clientVars, faults>>

OwedExpires(k) ==
    /\ k \in owed /\ ~Renews(k)
    /\ owed' = owed \ {k}
    /\ UNCHANGED <<rows, lru, raws, canon, permits, transient, waiting, rawBytes, bodyBytes,
                   reservedBytes, hostVars, slot, mutex, pc, loc, clientVars, faults>>

-----------------------------------------------------------------------------
(* What an idle thread may start                                           *)

Start(t, l, p) == pc[t] = "idle" /\ loc' = [loc EXCEPT ![t] = l] /\ Goto(t, p)

Lease(t, k, access) ==
    /\ k \in generation /\ k \notin held[t] /\ Cardinality(held[t]) < MaxHeld
    /\ Start(t, [NoCall EXCEPT !.key = k, !.access = access], "begin")
    /\ UNCHANGED <<ledgerVars, hostVars, slot, mutex, clientVars, faults>>

(* Pin::drop releases the body before it tells the ledger. *)
Unpin(t, k) ==
    /\ k \in held[t]
    /\ held' = [held EXCEPT ![t] = @ \ {k}]
    /\ Start(t, [NoCall EXCEPT !.key = k], "unpin")
    /\ UNCHANGED <<ledgerVars, hostVars, slot, mutex, rawHeld, faults>>

UnpinLedger(t) ==
    /\ pc[t] = "unpin" /\ Unlocked
    /\ rows' = [rows EXCEPT ![loc[t].key].pins = @ - 1]
    /\ loc' = [loc EXCEPT ![t] = Trimming(@, "member")]
    /\ Goto(t, "select")
    /\ UNCHANGED <<lru, raws, canon, permits, transient, waiting, owed, rawBytes, bodyBytes,
                   reservedBytes, hostVars, slot, mutex, clientVars, faults>>

(* Pin::raw *)
TakeRaw(t, k) ==
    LET id == slot[k].raw
    IN  /\ k \in RawPins /\ pc[t] = "idle" /\ Unlocked
        /\ k \in held[t] /\ id \notin rawHeld[t]
        /\ raws' = [raws EXCEPT ![id].owners = @ + 1]
        /\ rawHeld' = [rawHeld EXCEPT ![t] = @ \cup {id}]
        /\ UNCHANGED <<rows, lru, canon, permits, transient, waiting, owed, rawBytes, bodyBytes,
                       reservedBytes, hostVars, slot, mutex, pc, loc, held, faults>>

(* RawPin::drop releases the bytes before it tells the ledger. *)
DropRaw(t, id) ==
    /\ id \in rawHeld[t]
    /\ rawHeld' = [rawHeld EXCEPT ![t] = @ \ {id}]
    /\ Start(t, [NoCall EXCEPT !.goneRaw = id], "unraw")
    /\ UNCHANGED <<ledgerVars, hostVars, slot, mutex, held, faults>>

DropRawLedger(t) ==
    /\ pc[t] = "unraw" /\ Unlocked
    /\ ReleaseRaw(loc[t].goneRaw)
    /\ loc' = [loc EXCEPT ![t] = Trimming([@ EXCEPT !.goneRaw = NoRaw], "idle")]
    /\ Goto(t, "select")
    /\ UNCHANGED <<rows, lru, permits, waiting, owed, bodyBytes, reservedBytes,
                   hostVars, slot, mutex, clientVars, faults>>
    /\ ClearTransient

(* Controller::reserve, for staged work of the host *)
Reserve(t, b) ==
    /\ Start(t, [NoCall EXCEPT !.need = b], "admit")
    /\ UNCHANGED <<ledgerVars, hostVars, slot, mutex, clientVars, faults>>

(* A later generation no longer holds the version; a lease borrows its.    *)
DropGeneration(t, k) ==
    /\ k \in generation \cap MayDrop
    /\ \A u \in Thread : loc[u].key # k
    /\ generation' = generation \ {k}
    /\ Start(t, [NoCall EXCEPT !.key = k], "member")
    /\ UNCHANGED <<ledgerVars, limit, floor, slot, mutex, clientVars, faults>>

(* Controller::retain *)
Retain(t, k) ==
    /\ k \notin generation /\ Unlocked
    /\ generation' = generation \cup {k}
    /\ rows' = IF rows[k].present THEN [rows EXCEPT ![k].refs = @ + 1]
                ELSE [rows EXCEPT ![k] = NewRow]
    /\ Start(t, NoCall, "select")
    /\ UNCHANGED <<lru, raws, canon, permits, transient, waiting, owed, rawBytes, bodyBytes,
                   reservedBytes, limit, floor, slot, mutex, clientVars, faults>>

SetLimit(t, l) ==
    /\ l # limit /\ Unlocked
    /\ limit' = l
    /\ Start(t, NoCall, "select")
    /\ UNCHANGED <<rows, lru, raws, canon, permits, waiting, owed, rawBytes, bodyBytes,
                   reservedBytes, floor, generation, slot, mutex, clientVars, faults>>
    /\ ClearTransient

(* charge_floor, Floor::set and Floor::drop, as one measured sum *)
SetFloor(t, f) ==
    /\ f # floor /\ Unlocked
    /\ floor' = f
    /\ Start(t, NoCall, "select")
    /\ UNCHANGED <<ledgerVars, limit, generation, slot, mutex, clientVars, faults>>

(* The census of Controller::report prunes storage nobody owns. *)
Census ==
    /\ Unlocked
    /\ \E id \in RawId : raws[id].charged /\ raws[id].owners = 0 /\ ~Alive(id)
    /\ Prune(RawId)
    /\ UNCHANGED <<rows, lru, permits, waiting, owed, bodyBytes, reservedBytes,
                   hostVars, slot, mutex, pc, loc, clientVars, faults>>
    /\ ClearTransient

-----------------------------------------------------------------------------
Init ==
    /\ rows = [k \in Key |-> NewRow] /\ lru = <<>>
    /\ raws = [id \in RawId |-> Uncharged] /\ canon = [k \in Key |-> NoRaw]
    /\ permits = [p \in PermitId |-> Unissued]
    /\ transient = NoKey /\ waiting = NoKey /\ owed = {}
    /\ rawBytes = 0 /\ bodyBytes = 0 /\ reservedBytes = 0
    /\ limit \in Limits /\ floor \in Floors
    /\ slot = [k \in Key |-> NewSlot]
    /\ mutex = NoThread
    /\ pc = [t \in Thread |-> "idle"] /\ loc = [t \in Thread |-> NoCall]
    /\ held = [t \in Thread |-> {}] /\ rawHeld = [t \in Thread |-> {}]
    /\ generation = Key
    /\ faults = [loads |-> 0, strays |-> [id \in RawId |-> 0]]

BeginStep(t) ==
    \/ BeginRetiring(t) \/ BeginExhausted(t) \/ BeginStale(t) \/ BeginSettling(t)
    \/ BeginAdmission(t) \/ Enter(t) \/ PrepareJoin(t) \/ DropSpare(t)

AdmitStep(t) ==
    \/ AdmitRetiring(t) \/ AdmitJoin(t) \/ AdmitHot(t) \/ AdmitPaused(t) \/ AdmitKeptOut(t)
    \/ AdmitRefusedOversized(t) \/ AdmitOccupied(t) \/ AdmitOpen(t) \/ AdmitReclaim(t)
    \/ Unowe(t)

RetireStep(t) ==
    \/ SelectVictim(t) \/ SelectNone(t) \/ Shed(t) \/ Settle(t)
    \/ CollectNothing(t) \/ Collect(t) \/ DropRow(t) \/ ReleaseDetached(t)

CallStep(t) ==
    \/ LoadOk(t) \/ LoadFail(t) \/ Learn(t) \/ FinishPin(t) \/ FinishOverrun(t) \/ DropBody(t)
    \/ FailSnapshot(t) \/ FailRaw(t) \/ FinishFail(t) \/ DropCall(t) \/ DropMember(t)
    \/ DropHolding(t) \/ UnpinLedger(t) \/ DropRawLedger(t)

LeaseStep(t) == Poll(t) \/ Unpause(t) \/ RetryPause(t) \/ Leave(t)

(* A thread in the middle of something goes on with it. *)
Step(t) == BeginStep(t) \/ AdmitStep(t) \/ RetireStep(t) \/ CallStep(t) \/ LeaseStep(t)

ClientStart(t) ==
    \/ \E k \in Key : \/ Unpin(t, k) \/ TakeRaw(t, k)
                      \/ \E a \in Accesses : Lease(t, k, a)
    \/ \E id \in RawId : DropRaw(t, id)

HostStart(t) ==
    \/ \E b \in StageSizes : Reserve(t, b)
    \/ \E k \in Key : DropGeneration(t, k) \/ Retain(t, k)
    \/ \E l \in Limits : SetLimit(t, l)
    \/ \E f \in Floors : SetFloor(t, f)

Passage == \/ \E t \in Thread : PatienceEnds(t)
           \/ WaitingExpires \/ \E k \in Key : OwedExpires(k)
           \/ Census

Next == Passage \/ \E t \in Thread : Step(t) \/ ClientStart(t) \/ HostStart(t)

Spec == Init /\ [][Next]_allVars

(* A thread that is not waiting for another one runs on, and the mutex is  *)
(* not withheld from it forever; a patience of two seconds does pass.      *)
(* Nobody has to start an operation, drop a pin or let a record expire.    *)
Fairness == \A t \in Thread : SF_allVars(Step(t)) /\ WF_allVars(PatienceEnds(t))
FairSpec == Spec /\ Fairness

-----------------------------------------------------------------------------
(* Types *)

Row == [refs: Nat, calls: Nat, pins: Nat, body: Nat, raw: RawId \cup {NoRaw},
        retiring: BOOLEAN, forced: BOOLEAN, wave: PermitId \cup {NoPermit},
        learned: Nat, present: BOOLEAN]
Permit == [refs: Nat, bytes: Nat, peak: Nat, member: Key \cup {NoKey}, settled: BOOLEAN,
           revision: Nat, transient: Key \cup {NoKey}]
Slot == [phase: {"Cold", "Loading", "Hot"}, revision: 0..MaxRevision,
         raw: RawId \cup {NoRaw}, lastRaw: RawId \cup {NoRaw}]
Point == {"idle", "begin", "spare", "prepare", "admit", "unowe", "select", "shed", "settle",
          "collect", "drop", "destroyed", "resolve", "overrun", "body", "raw", "fail", "call",
          "member", "holding", "answer", "unpin", "unraw"}
Reply == {"none", "Busy", "Retiring", "Settling", "Waiting", "Paused", "Exhausted",
          "PeakExceeded"}
Local == [key: Key \cup {NoKey}, access: {"Read", "Scan"}, unpaused: BOOLEAN,
          spare: PermitId \cup {NoPermit}, res: PermitId \cup {NoPermit}, hasBody: BOOLEAN,
          prep: {"none", "ready", "wait", "load", "failed", "done"}, need: Nat,
          rev: 0..MaxRevision, raw: RawId \cup {NoRaw}, snap: {"Cold", "Loading", "Hot"},
          answer: Reply, tries: 0..MaxTries, patience: {"unset", "running", "over"},
          again: BOOLEAN, mode: {"trim", "admit"}, victim: Key \cup {NoKey},
          vrev: 0..MaxRevision, gone: Nat, goneRaw: RawId \cup {NoRaw}, after: Point, fin: Point]

TypeOK ==
    /\ rows \in [Key -> Row]
    /\ lru \in Seq(Key)
    /\ raws \in [RawId -> [charged: BOOLEAN, owners: Nat]]
    /\ canon \in [Key -> RawId \cup {NoRaw}]
    /\ permits \in [PermitId -> Permit]
    /\ transient \in Key \cup {NoKey} /\ waiting \in Key \cup {NoKey}
    /\ owed \subseteq Key
    /\ rawBytes \in Nat /\ bodyBytes \in Nat /\ reservedBytes \in Nat
    /\ limit \in Limits /\ floor \in Floors
    /\ slot \in [Key -> Slot]
    /\ mutex \in Thread \cup {NoThread}
    /\ pc \in [Thread -> Point]
    /\ loc \in [Thread -> Local]
    /\ held \in [Thread -> SUBSET Key] /\ rawHeld \in [Thread -> SUBSET RawId]
    /\ generation \subseteq Key
    /\ faults \in [loads: 0..MaxFaults, strays: [RawId -> Nat]]

-----------------------------------------------------------------------------
(* Safety *)

InCall(t, k) ==
    loc[t].key = k /\ (pc[t] = "prepare" \/ loc[t].prep \in {"ready", "wait", "load", "failed"})

(* The running sums of the ledger are the charges they stand for: no       *)
(* charge is lost, doubled or left behind by any interleaving of loads,    *)
(* retirements and destructions (ledger.rs body_bytes, raw_bytes,          *)
(* reserved_bytes).                                                        *)
Accounts ==
    LET body(k) == rows[k].body
        gone(t) == loc[t].gone
        raw(id) == RawSize[KeyOf(id)]
        bytes(p) == permits[p].bytes
    IN  /\ bodyBytes = Sum(body, Key) + Sum(gone, Thread)
        /\ rawBytes = Sum(raw, {id \in RawId : raws[id].charged})
        /\ reservedBytes = Sum(bytes, Live)

(* Every owner the raw table counts is a charged row, a raw pin, one of    *)
(* the two on its way out, or one that the finish of a failed call added   *)
(* and no row will release (ledger.rs finish_call); and there are none of  *)
(* those before a load fails, so that retired storage can be freed.        *)
OwnersCounted ==
    /\ \A id \in RawId :
        raws[id].owners =
            Cardinality({k \in Key : rows[k].body # 0 /\ rows[k].raw = id})
          + Cardinality({t \in Thread : id \in rawHeld[t]})
          + Cardinality({t \in Thread : loc[t].goneRaw = id /\ (loc[t].gone # 0 \/ pc[t] = "unraw")})
          + faults.strays[id]
    /\ faults.loads = 0 => \A id \in RawId : faults.strays[id] = 0

(* Calls, pins and reservation references are exactly what threads hold:   *)
(* none is lost on an error path or a lost admission race.                 *)
LeasesCounted ==
    /\ \A k \in Key :
        /\ rows[k].calls = Cardinality({t \in Thread : InCall(t, k)})
        /\ rows[k].pins = Cardinality({t \in Thread : k \in held[t]})
                         + Cardinality({t \in Thread : loc[t].key = k /\ pc[t] = "unpin"})
    /\ \A p \in PermitId :
        permits[p].refs = Cardinality({t \in Thread : loc[t].spare = p})
                        + Cardinality({t \in Thread : loc[t].res = p})

(* A join hint names a live reservation of its own version: begin and      *)
(* admit index the permit table with it unconditionally.                   *)
WaveLive ==
    \A k \in Key : rows[k].wave # NoPermit =>
        rows[k].wave \in Live /\ permits[rows[k].wave].member = k

(* A body some call or pin uses stays loaded and its row stays in the      *)
(* ledger, whatever trims and retirements run beside it.                   *)
BodyStays ==
    \A t \in Thread, k \in Key : UsesBody(t, k) => slot[k].phase = "Hot" /\ rows[k].present

(* A version being loaded has one loader, and a waiter always has one.     *)
SingleFlight ==
    \A k \in Key :
        LET loaders == {t \in Thread : loc[t].key = k /\ loc[t].prep = "load"}
        IN  /\ Cardinality(loaders) = IF slot[k].phase = "Loading" THEN 1 ELSE 0
            /\ Waiters(k) # {} => loaders # {}

(* At most one live reservation was admitted past the limit.               *)
OneOversized == Cardinality({p \in Live : permits[p].transient # NoKey}) <= 1

(* What the ledger charges for one version, and for its storage alone.     *)
Storage(k) ==
    LET raw(id) == IF KeyOf(id) = k /\ raws[id].charged THEN RawSize[k] ELSE 0
    IN  Sum(raw, RawId)
Charge(k) ==
    LET bytes(p) == IF permits[p].member = k THEN permits[p].bytes ELSE 0
    IN  rows[k].body + Storage(k) + Sum(bytes, Live)

(* What an overrun accounts for: its version's charge until it is shed,    *)
(* and after that the storage raw pins keep, which no trim can give back.  *)
Excess(k) ==
    IF rows[k].forced THEN Charge(k) ELSE IF rows[k].body = 0 THEN Storage(k) ELSE 0

(* With a fixed floor and limit, the member of such a reservation holds    *)
(* the serialized slot for as long as the total is above the limit and no  *)
(* overrun accounts for it (ledger.rs clear_transient_if_unused).          *)
SlotKept ==
    \A p \in Live :
        permits[p].transient # NoKey /\ limit # 0 /\ Total - Sum(Excess, Key) > limit
            => transient = permits[p].transient

(* The version an overrun taught its size is not admitted short of it      *)
(* again: the one retry of a pin never meets a second overrun.             *)
NoSecondOverrun == \A t \in Thread : loc[t].answer # "PeakExceeded"

(* With a fixed floor and limit, what exceeds the limit is charged to the  *)
(* serialized member or to an overrun: admission never overcommits.        *)
LimitHeld ==
    Over => Total - Sum(Excess, Key \ {transient}) - Sum(Charge, {transient} \ {NoKey}) <= limit

AtRest == \A t \in Thread : pc[t] = "idle"

(* Completion reclaims: once every thread is between operations, nothing   *)
(* sheddable is left above the limit and no overrun's body is left at all. *)
TrimmedAtRest ==
    AtRest => /\ Over => Reclaimable = {}
              /\ \A k \in Key : rows[k].forced => rows[k].pins # 0

(* held_blocks never condemns a load that could be admitted: a load it     *)
(* says the caller's own leases keep out is not admitted as things stand.  *)
SelfBlockedIsBlocked ==
    [][\A t \in Thread : LET k == loc[t].key IN
         pc[t] = "admit" /\ k # NoKey /\ held[t] # {} /\ HeldBlocks(t, k)
            => loc'[t].spare = NoPermit \/ rows[k].wave # NoPermit]_allVars

(* Every lease is answered: no wait on a flight, on the serialized slot or *)
(* on a turn is forever, though nobody else drops a pin.                   *)
LeaseEnds == \A t \in Thread : pc[t] = "begin" ~> pc[t] = "idle"
=============================================================================
