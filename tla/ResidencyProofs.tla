-------------------------- MODULE ResidencyProofs --------------------------
(***************************************************************************)
(* What holds of Residency for every set of versions, every finite set of  *)
(* threads, and all sizes, limits and floors.  Two arguments.              *)
(*                                                                         *)
(* OneOversized is not inductive: a reservation admitted past the limit is *)
(* opened only when none is live, so one has to know that a reservation    *)
(* that is not live is not marked as such.  AloneInv adds that and the     *)
(* shape of the permit table, and nothing about threads, rows or slots.    *)
(*                                                                         *)
(* Inv is the bookkeeping of leases.  The counters of a row and of a       *)
(* reservation are compared with the threads that stand for them, which    *)
(* needs to know where a thread stands in its operation and what it still  *)
(* owes there (Place, through the place a shared trim returns to, Aim);    *)
(* that a thread in a call or a lease has its version in the generation    *)
(* (Entitled) and a reservation of that version (Belongs); and that a      *)
(* loading slot has one loader (Flown) and a used body a hot slot (Used).  *)
(* One lemma per kind of step follows the counters: a step either leaves   *)
(* who stands for what as it was (Quiet), or moves one thread and changes  *)
(* the counters by what the move is worth (Balanced).                      *)
(***************************************************************************)
EXTENDS Residency, FiniteSetTheorems, TLAPS

(* A permit record, as far as the argument reads it. *)
Shaped(r) == {"refs", "transient"} \subseteq DOMAIN r /\ r.refs \in Nat

(* A free identity is not marked as past the limit. *)
Sound(r) == Shaped(r) /\ (r.refs = 0 => r.transient = NoKey)

Past == {p \in PermitId : permits[p].transient # NoKey}

AloneInv ==
    /\ permits = [p \in PermitId |-> permits[p]]
    /\ \A p \in PermitId : Sound(permits[p])
    /\ \A p, q \in Past : p = q

-----------------------------------------------------------------------------
(* Records *)

(* Counting a reference up, or one of several down, keeps a permit sound.  *)
LEMMA RefsSound ==
    ASSUME NEW r, Sound(r), NEW n \in Nat \ {0}
    PROVE  LET e == [r EXCEPT !.refs = n]
           IN  Sound(e) /\ e.transient = r.transient
  BY DEF Sound, Shaped

(* Settling a wave keeps its permit sound (Ledger::settle_wave). *)
LEMMA SettledSound ==
    ASSUME NEW r, Sound(r), NEW b
    PROVE  LET e == [r EXCEPT !.settled = TRUE, !.bytes = b]
           IN  Sound(e) /\ e.transient = r.transient
  BY DEF Sound, Shaped

LEMMA UnissuedSound == Sound(Unissued) /\ Unissued.transient = NoKey
  BY DEF Sound, Shaped, Unissued

(* A permit just opened, marked or not (controller.rs open_wave). *)
LEMMA OpenedSound ==
    ASSUME NEW b, NEW k, NEW s, NEW v, NEW x
    PROVE  LET e == [refs |-> 1, bytes |-> b, peak |-> b, member |-> k,
                     settled |-> s, revision |-> v, transient |-> x]
           IN  Sound(e) /\ e.transient = x
  BY DEF Sound, Shaped

-----------------------------------------------------------------------------
(* Changes of the table *)

(* Replacing one permit by a sound one that is marked only if the old one  *)
(* was, or when nothing else is marked, keeps the invariant.               *)
LEMMA OnePermitKeeps ==
    ASSUME AloneInv, NEW p, NEW e, permits' = [permits EXCEPT ![p] = e],
           p \in PermitId => Sound(e),
           p \in PermitId => e.transient \in {NoKey, permits[p].transient} \/ Past \subseteq {p}
    PROVE  AloneInv'
  <1>1. permits' = [q \in PermitId |-> IF q = p THEN e ELSE permits[q]]
    BY DEF AloneInv
  <1>2. \A q \in PermitId : Sound(permits'[q])
    BY <1>1 DEF AloneInv
  <1>3. Past' \subseteq Past \/ Past' \subseteq {p}
    BY <1>1 DEF Past
  <1>4. \A q, r \in Past' : q = r
    BY <1>3 DEF AloneInv
  <1> QED BY <1>1, <1>2, <1>4 DEF AloneInv

LEMMA UnchangedKeeps ==
    ASSUME AloneInv, UNCHANGED permits
    PROVE  AloneInv'
  BY DEF AloneInv, Past

(* Reservation::clone *)
LEMMA ClonedKeeps ==
    ASSUME AloneInv, NEW p, permits' = [permits EXCEPT ![p].refs = @ + 1]
    PROVE  AloneInv'
  <1> DEFINE e == [permits[p] EXCEPT !.refs = permits[p].refs + 1]
  <1>1. permits' = [permits EXCEPT ![p] = e]
    OBVIOUS
  <1>2. ASSUME p \in PermitId
        PROVE  Sound(e) /\ e.transient = permits[p].transient
    <2>1. Sound(permits[p]) /\ permits[p].refs + 1 \in Nat \ {0}
      BY <1>2 DEF AloneInv, Sound, Shaped
    <2> QED BY <2>1, RefsSound
  <1> HIDE DEF e
  <1> QED BY <1>1, <1>2, OnePermitKeeps

(* Reservation::drop *)
LEMMA ReleasedKeeps ==
    ASSUME AloneInv, NEW p, ReleasePermit(p)
    PROVE  AloneInv'
  <1>1. p \in PermitId /\ Sound(permits[p]) /\ permits[p].refs \in Nat \ {0}
    BY DEF ReleasePermit, Live, AloneInv, Sound, Shaped
  <1>2. CASE permits[p].refs = 1
    <2>1. permits' = [permits EXCEPT ![p] = Unissued]
      BY <1>2 DEF ReleasePermit
    <2> QED BY <2>1, UnissuedSound, OnePermitKeeps
  <1>3. CASE permits[p].refs # 1
    <2> DEFINE e == [permits[p] EXCEPT !.refs = permits[p].refs - 1]
    <2>1. permits' = [permits EXCEPT ![p] = e]
      BY <1>3 DEF ReleasePermit
    <2>2. permits[p].refs - 1 \in Nat \ {0}
      BY <1>1, <1>3
    <2>3. Sound(e) /\ e.transient = permits[p].transient
      BY <1>1, <2>2, RefsSound
    <2> HIDE DEF e
    <2> QED BY <2>1, <2>3, OnePermitKeeps
  <1> QED BY <1>2, <1>3

(* Ledger::settle_wave *)
LEMMA SettledKeeps ==
    ASSUME AloneInv, NEW p, NEW hot, NEW k, SettleWave(p, hot, k)
    PROVE  AloneInv'
  <1>1. CASE UNCHANGED permits
    BY <1>1, UnchangedKeeps
  <1>2. CASE ~UNCHANGED permits
    <2>1. PICK part : permits' = [permits EXCEPT ![p].settled = TRUE, ![p].bytes = @ - part]
      BY <1>2 DEF SettleWave
    <2> DEFINE e == [permits[p] EXCEPT !.settled = TRUE, !.bytes = permits[p].bytes - part]
    <2>2. permits' = [permits EXCEPT ![p] = e]
      BY <2>1
    <2>3. ASSUME p \in PermitId
          PROVE  Sound(e) /\ e.transient = permits[p].transient
      BY <2>3, SettledSound DEF AloneInv
    <2> HIDE DEF e
    <2> QED BY <2>2, <2>3, OnePermitKeeps
  <1> QED BY <1>1, <1>2

(* open_wave: a reservation past the limit is opened beside no live one.   *)
LEMMA OpenedKeeps ==
    ASSUME AloneInv, NEW t, AdmitOpen(t)
    PROVE  AloneInv'
  <1> DEFINE k == loc[t].key
             b == loc[t].need
             free == PermitId \ Live
             p == CHOOSE q \in free : TRUE
             x == IF Fits(b) THEN NoKey ELSE k
             e == [refs |-> 1, bytes |-> b, peak |-> b, member |-> k,
                   settled |-> k = NoKey, revision |-> loc[t].rev, transient |-> x]
  <1>1. permits' = [permits EXCEPT ![p] = e] /\ p \in free /\ Opens(t)
    BY DEF AdmitOpen
  <1>2. Sound(e) /\ e.transient = x
    BY OpenedSound
  <1>3. x = NoKey \/ Past \subseteq {p}
    <2>1. ASSUME x # NoKey
          PROVE  Live = {}
      BY <1>1, <2>1 DEF Opens, MayOverflow, SlotAwaits
    <2>2. Past \subseteq Live
      BY DEF AloneInv, Sound, Past, Live
    <2> QED BY <2>1, <2>2
  <1> HIDE DEF e, x, p
  <1> QED BY <1>1, <1>2, <1>3, OnePermitKeeps

-----------------------------------------------------------------------------
(* Steps *)

LEMMA InitAlone == Init => AloneInv
  BY UnissuedSound DEF Init, AloneInv, Past

LEMMA BeginStepAlone ==
    ASSUME AloneInv, NEW t, BeginStep(t)
    PROVE  AloneInv'
  <1>1. CASE Enter(t)
    <2> DEFINE p == IF NeedsWave(loc[t].key) THEN loc[t].spare ELSE rows[loc[t].key].wave
    <2>1. UNCHANGED permits \/ permits' = [permits EXCEPT ![p].refs = @ + 1]
      BY <1>1 DEF Enter
    <2> QED BY <2>1, UnchangedKeeps, ClonedKeeps
  <1>2. CASE DropSpare(t)
    BY <1>2, ReleasedKeeps DEF DropSpare
  <1>3. CASE BeginRetiring(t) \/ BeginExhausted(t) \/ BeginSettling(t)
    BY <1>3, UnchangedKeeps DEF BeginRetiring, BeginExhausted, BeginSettling, RefuseBegin,
                               ledgerVars
  <1>4. CASE BeginStale(t) \/ BeginAdmission(t) \/ PrepareJoin(t)
    BY <1>4, UnchangedKeeps DEF BeginStale, BeginAdmission, PrepareJoin, ledgerVars
  <1> QED BY <1>1, <1>2, <1>3, <1>4 DEF BeginStep

LEMMA AdmitStepAlone ==
    ASSUME AloneInv, NEW t, AdmitStep(t)
    PROVE  AloneInv'
  <1>1. CASE AdmitJoin(t)
    BY <1>1, ClonedKeeps DEF AdmitJoin
  <1>2. CASE AdmitOpen(t)
    BY <1>2, OpenedKeeps
  <1>3. CASE \/ AdmitRetiring(t) \/ AdmitPaused(t) \/ AdmitKeptOut(t)
             \/ AdmitRefusedOversized(t) \/ AdmitOccupied(t)
    BY <1>3, UnchangedKeeps DEF AdmitRetiring, AdmitPaused, AdmitKeptOut,
                               AdmitRefusedOversized, AdmitOccupied, Refused
  <1>4. CASE AdmitHot(t) \/ AdmitReclaim(t) \/ Unowe(t)
    BY <1>4, UnchangedKeeps DEF AdmitHot, AdmitReclaim, Unowe
  <1> QED BY <1>1, <1>2, <1>3, <1>4 DEF AdmitStep

LEMMA RetireStepAlone ==
    ASSUME AloneInv, NEW t, RetireStep(t)
    PROVE  AloneInv'
  <1>1. CASE SelectVictim(t) \/ SelectNone(t) \/ Shed(t) \/ Settle(t)
    BY <1>1, UnchangedKeeps DEF SelectVictim, SelectNone, Shed, Settle, ledgerVars
  <1>2. CASE CollectNothing(t) \/ Collect(t) \/ DropRow(t) \/ ReleaseDetached(t)
    BY <1>2, UnchangedKeeps DEF CollectNothing, Collect, DropRow, ReleaseDetached, ledgerVars
  <1> QED BY <1>1, <1>2 DEF RetireStep

LEMMA CallStepAlone ==
    ASSUME AloneInv, NEW t, CallStep(t)
    PROVE  AloneInv'
  <1>1. CASE FinishPin(t)
    BY <1>1, SettledKeeps DEF FinishPin, FinishHot
  <1>2. CASE FinishOverrun(t)
    BY <1>2, SettledKeeps DEF FinishOverrun, FinishHot
  <1>3. CASE FinishFail(t)
    BY <1>3, SettledKeeps, UnchangedKeeps DEF FinishFail
  <1>4. CASE DropCall(t)
    BY <1>4, ReleasedKeeps, UnchangedKeeps DEF DropCall
  <1>5. CASE DropHolding(t)
    BY <1>5, ReleasedKeeps DEF DropHolding
  <1>6. CASE LoadOk(t) \/ LoadFail(t) \/ Learn(t) \/ DropBody(t)
    BY <1>6, UnchangedKeeps DEF LoadOk, LoadFail, Learn, DropBody, ledgerVars
  <1>7. CASE FailSnapshot(t) \/ FailRaw(t) \/ DropMember(t) \/ UnpinLedger(t) \/ DropRawLedger(t)
    BY <1>7, UnchangedKeeps DEF FailSnapshot, FailRaw, DropMember, UnpinLedger, DropRawLedger,
                               ledgerVars
  <1> QED BY <1>1, <1>2, <1>3, <1>4, <1>5, <1>6, <1>7 DEF CallStep

LEMMA LeaseStepAlone ==
    ASSUME AloneInv, NEW t, LeaseStep(t)
    PROVE  AloneInv'
  BY UnchangedKeeps DEF LeaseStep, Poll, Unpause, RetryPause, Leave, Again, ledgerVars

LEMMA ClientStartAlone ==
    ASSUME AloneInv, NEW t, ClientStart(t)
    PROVE  AloneInv'
  BY UnchangedKeeps DEF ClientStart, Unpin, TakeRaw, Lease, DropRaw, ledgerVars

LEMMA HostStartAlone ==
    ASSUME AloneInv, NEW t, HostStart(t)
    PROVE  AloneInv'
  BY UnchangedKeeps DEF HostStart, Reserve, DropGeneration, Retain, SetLimit, SetFloor, ledgerVars

LEMMA PassageAlone ==
    ASSUME AloneInv, Passage
    PROVE  AloneInv'
  BY UnchangedKeeps DEF Passage, PatienceEnds, WaitingExpires, OwedExpires, Census, ledgerVars

LEMMA NextAlone ==
    ASSUME AloneInv, [Next]_allVars
    PROVE  AloneInv'
  <1>1. CASE UNCHANGED allVars
    BY <1>1, UnchangedKeeps DEF allVars, vars, ledgerVars
  <1>2. CASE Next
    BY <1>2, BeginStepAlone, AdmitStepAlone, RetireStepAlone, CallStepAlone, LeaseStepAlone,
       ClientStartAlone, HostStartAlone, PassageAlone DEF Next, Step
  <1> QED BY <1>1, <1>2

-----------------------------------------------------------------------------
(* At most one live reservation was ever admitted past the limit, however  *)
(* many loads, waits, retirements and host calls interleave (controller.rs *)
(* admit_turn and open_wave).                                              *)
THEOREM OneOversizedHolds == Spec => []OneOversized
  <1>1. ASSUME AloneInv
        PROVE  OneOversized
    <2> DEFINE S == {p \in Live : permits[p].transient # NoKey}
    <2>1. \A p, q \in S : p = q
      BY <1>1 DEF AloneInv, Past, Live
    <2>2. CASE S = {}
      BY <2>2, FS_EmptySet DEF OneOversized
    <2>3. CASE S # {}
      <3>1. PICK p : S = {p}
        BY <2>1, <2>3
      <3>2. Cardinality(S) = 1
        BY <3>1, FS_Singleton
      <3> QED BY <3>2 DEF OneOversized
    <2> QED BY <2>2, <2>3
  <1> QED BY InitAlone, NextAlone, <1>1, PTL DEF Spec

-----------------------------------------------------------------------------
(* Where a thread stands.  A trim is shared by every operation that runs   *)
(* one, so what a thread in a trim still owes is told by where it goes     *)
(* afterwards.                                                             *)

Trims == {"select", "shed", "settle", "collect", "drop", "destroyed"}
Calling(l) == l.prep \in {"ready", "wait", "load", "failed"}

Aim(p, l) ==
    IF p \notin Trims THEN p ELSE IF l.mode = "admit" THEN "admit" ELSE l.after

(* What the locals of a thread are at each place of the code. *)
Place(p, l) ==
    /\ l.prep \in {"none", "ready", "wait", "load", "failed", "done"}
    /\ l.mode \in {"trim", "admit"}
    /\ l.after \in {"idle", "begin", "resolve", "answer", "call", "member", "holding"}
    /\ l.fin \in {"idle", "holding", "begin", "answer"}
    /\ l.after # "idle" => p \in Trims /\ l.mode = "trim"
    /\ l.mode = "admit" => p \in Trims \cup {"admit", "unowe", "answer", "holding"}
    /\ p = "idle" => l = NoCall
    (* the version *)
    /\ Aim(p, l) \notin {"idle", "admit", "unowe", "holding", "unraw"} => l.key # NoKey
    /\ p \in Trims \ {"select"} => l.victim # NoKey
    (* the call *)
    /\ p \in {"begin", "prepare", "admit", "unowe", "unpin", "unraw"} => l.prep = "none"
    /\ l.mode = "admit" /\ p \in Trims => l.prep = "none"
    /\ Calling(l) => Aim(p, l) \in {"spare", "resolve", "overrun", "raw", "fail"}
    /\ Aim(p, l) \in {"resolve", "overrun", "raw", "fail"} => Calling(l)
    /\ p = "overrun" => l.prep = "ready"
    /\ p \in {"raw", "fail"} => l.prep = "failed"
    /\ Aim(p, l) \in {"body", "call"} => l.prep = "done"
    /\ p = "spare" => l.prep # "done"
    /\ l.hasBody <=> l.prep = "ready" \/ p = "body"
    (* the reservations *)
    /\ l.spare # NoPermit => p \in {"begin", "spare", "prepare", "unowe"}
    /\ p = "spare" => l.spare # NoPermit
    /\ p = "unowe" /\ l.spare # NoPermit => l.answer = "none" /\ l.key # NoKey
    /\ l.res # NoPermit =>
         \/ Calling(l) \/ Aim(p, l) \in {"prepare", "body", "call", "holding"}
         \/ Aim(p, l) = "member" /\ l.fin = "holding"
    /\ Aim(p, l) = "holding" => l.res # NoPermit
    /\ Aim(p, l) \in {"call", "member"} /\ l.fin = "holding" => l.res # NoPermit
    /\ p = "unpin" => l.fin = "idle"
    /\ p = "body" \/ l.after = "call" => l.fin \in {"begin", "answer"}
    (* the answer *)
    /\ p \in {"begin", "prepare", "admit"} => l.answer = "none"
    /\ p \in {"select", "shed", "settle"} /\ l.mode = "admit" => l.answer = "none"
    /\ p \in Trims /\ l.mode = "admit" => l.answer \in {"none", "Busy"}

(* A thread that will not enter a call of its version again. *)
Ends(p, l) ==
    /\ p \in Trims \cup {"call", "member", "unpin"}
    /\ l.mode = "trim" /\ l.after \in {"idle", "member"}
    /\ l.fin = "idle" /\ l.prep \in {"none", "done"}

(* A lease borrows its version from the generation (catalog.rs admit).     *)
Entitled(t) ==
    \/ loc[t].key = NoKey
    \/ Ends(pc[t], loc[t])
    \/ loc[t].key \in generation /\ loc[t].key \notin held[t]

(* Who stands for a version's calls, its references and its pins, and for  *)
(* the references of a reservation.                                        *)
CallsAt(p, l, k) == l.key = k /\ (p = "prepare" \/ Calling(l))
RefersAt(p, l, k) ==
    l.key = k /\ (p = "prepare" \/ Calling(l) \/ Aim(p, l) \in {"body", "call", "member", "unpin"})
UnpinsAt(p, l, k) == l.key = k /\ p = "unpin"
Refers(t, k) == RefersAt(pc[t], loc[t], k)

Callers(k) == {t \in Thread : InCall(t, k)}
Referrers(k) == {t \in Thread : Refers(t, k)}
Holders(k) == {t \in Thread : k \in held[t]}
Unpinners(k) == {t \in Thread : loc[t].key = k /\ pc[t] = "unpin"}
Sparing(p) == {t \in Thread : loc[t].spare = p}
Reserving(p) == {t \in Thread : loc[t].res = p}

RefsCounted ==
    \A k \in Key : rows[k].refs = Cardinality(Referrers(k)) + Cardinality(Holders(k))
                                  + IF k \in generation THEN 1 ELSE 0
Referenced == \A k \in Key : rows[k].refs # 0 => rows[k].present

(* A reservation is for the version its thread loads. *)
Belongs(t) ==
    /\ loc[t].spare # NoPermit => permits[loc[t].spare].member = loc[t].key
    /\ loc[t].res # NoPermit => permits[loc[t].res].member = loc[t].key

Loads(t, k) == loc[t].key = k /\ loc[t].prep = "load"
Flown ==
    /\ \A t \in Thread, k \in Key :
         loc[t].key = k /\ loc[t].prep \in {"load", "wait"} => slot[k].phase = "Loading"
    /\ \A t, u \in Thread, k \in Key : Loads(t, k) /\ Loads(u, k) => t = u
    /\ \A k \in Key : slot[k].phase = "Loading" => \E t \in Thread : Loads(t, k)
Used == \A t \in Thread, k \in Key : UsesBody(t, k) => slot[k].phase = "Hot"
-----------------------------------------------------------------------------
(* Types.  Counts and sizes are integers here: that they do not fall below *)
(* zero is a consequence of the counts below.                              *)

RowT == [refs: Int, calls: Int, pins: Int, body: Nat, raw: RawId \cup {NoRaw},
         retiring: BOOLEAN, forced: BOOLEAN, wave: PermitId \cup {NoPermit},
         learned: Nat, present: BOOLEAN]
PermitT == [refs: Int, bytes: Int, peak: Nat, member: Key \cup {NoKey}, settled: BOOLEAN,
            revision: Nat, transient: Key \cup {NoKey}]

TypedInv ==
    /\ rows \in [Key -> RowT] /\ permits \in [PermitId -> PermitT]
    /\ canon \in [Key -> RawId \cup {NoRaw}]
    /\ slot \in [Key -> Slot]
    /\ pc \in [Thread -> Point] /\ loc \in [Thread -> Local]
    /\ held \in [Thread -> SUBSET Key]

Placed == \A t \in Thread : Place(pc[t], loc[t])
Inv ==
    /\ TypedInv /\ Placed /\ \A t \in Thread : Entitled(t)
    /\ LeasesCounted /\ RefsCounted /\ Referenced
    /\ \A t \in Thread : Belongs(t)
    /\ WaveLive /\ Flown /\ Used

-----------------------------------------------------------------------------
(* Counting *)

Weight(b) == IF b THEN 1 ELSE 0

(* A set of threads of which only t may come or go.                        *)
LEMMA CountMoves ==
    ASSUME NEW S \in SUBSET Thread, NEW T \in SUBSET Thread, NEW t \in Thread,
           \A u \in Thread \ {t} : u \in S <=> u \in T
    PROVE  /\ Cardinality(S) \in Nat /\ Cardinality(T) \in Nat
           /\ Cardinality(T) = Cardinality(S) + Weight(t \in T) - Weight(t \in S)
  <1>1. IsFiniteSet(S) /\ IsFiniteSet(T)
    BY FS_Subset, ResidencyAssumption
  <1>2. S \ {t} = T \ {t}
    OBVIOUS
  <1>3. Cardinality(S) \in Nat /\ Cardinality(T) \in Nat
    BY <1>1, FS_CardinalityType
  <1>4. Cardinality(S \ {t}) = IF t \in S THEN Cardinality(S) - 1 ELSE Cardinality(S)
    BY <1>1, FS_RemoveElement
  <1>5. Cardinality(T \ {t}) = IF t \in T THEN Cardinality(T) - 1 ELSE Cardinality(T)
    BY <1>1, FS_RemoveElement
  <1>6. Cardinality(T) = IF t \in T THEN Cardinality(S \ {t}) + 1 ELSE Cardinality(S \ {t})
    BY <1>2, <1>3, <1>5
  <1> QED BY <1>3, <1>4, <1>6 DEF Weight

LEMMA CountZero ==
    ASSUME NEW S \in SUBSET Thread
    PROVE  Cardinality(S) \in Nat /\ (Cardinality(S) = 0 <=> S = {})
  <1>1. IsFiniteSet(S)
    BY FS_Subset, ResidencyAssumption
  <1> QED BY <1>1, FS_CardinalityType, FS_EmptySet

(* What one thread's step may change of the tables, for what it changes of *)
(* its own standing.                                                       *)
Steps(t, p, l) == pc' = [pc EXCEPT ![t] = p] /\ loc' = [loc EXCEPT ![t] = l]
Others(t) ==
    \A u \in Thread \ {t} :
        /\ held'[u] = held[u] /\ loc'[u].spare = loc[u].spare /\ loc'[u].res = loc[u].res
        /\ \A k \in Key : /\ InCall(u, k)' <=> InCall(u, k)
                          /\ Refers(u, k)' <=> Refers(u, k)
                          /\ UnpinsAt(pc'[u], loc'[u], k) <=> UnpinsAt(pc[u], loc[u], k)
CallsBalance(t, k) ==
    rows'[k].calls - rows[k].calls = Weight(InCall(t, k)') - Weight(InCall(t, k))
PinsBalance(t, k) ==
    rows'[k].pins - rows[k].pins =
        Weight(k \in held'[t]) - Weight(k \in held[t])
      + Weight(UnpinsAt(pc'[t], loc'[t], k)) - Weight(UnpinsAt(pc[t], loc[t], k))
RefsBalance(t, k) ==
    rows'[k].refs - rows[k].refs =
        Weight(Refers(t, k)') - Weight(Refers(t, k))
      + Weight(k \in held'[t]) - Weight(k \in held[t])
      + Weight(k \in generation') - Weight(k \in generation)
PermitBalances(t, q) ==
    permits'[q].refs - permits[q].refs =
        Weight(loc'[t].spare = q) - Weight(loc[t].spare = q)
      + Weight(loc'[t].res = q) - Weight(loc[t].res = q)

LEMMA Balanced ==
    ASSUME LeasesCounted, RefsCounted, NEW t \in Thread, Others(t),
           rows \in [Key -> RowT], rows' \in [Key -> RowT],
           permits \in [PermitId -> PermitT], permits' \in [PermitId -> PermitT],
           \A k \in Key : CallsBalance(t, k) /\ PinsBalance(t, k) /\ RefsBalance(t, k),
           \A q \in PermitId : PermitBalances(t, q)
    PROVE  LeasesCounted' /\ RefsCounted'
  <1>1. ASSUME NEW k \in Key
        PROVE  rows'[k].calls = Cardinality(Callers(k)')
    <2>1. Cardinality(Callers(k)') =
            Cardinality(Callers(k)) + Weight(t \in Callers(k)') - Weight(t \in Callers(k))
      BY CountMoves DEF Callers, Others
    <2>2. t \in Callers(k)' <=> InCall(t, k)'
      BY DEF Callers
    <2>3. t \in Callers(k) <=> InCall(t, k)
      BY DEF Callers
    <2>4. rows[k].calls = Cardinality(Callers(k))
      BY DEF LeasesCounted, Callers
    <2>5. rows[k].calls \in Int /\ rows'[k].calls \in Int
      BY DEF RowT
    <2>6. CallsBalance(t, k)
      OBVIOUS
    <2> QED BY <2>1, <2>2, <2>3, <2>4, <2>5, <2>6 DEF CallsBalance, Weight
  <1>2. ASSUME NEW k \in Key
        PROVE  rows'[k].pins = Cardinality(Holders(k)') + Cardinality(Unpinners(k)')
    <2>1. Cardinality(Holders(k)') =
            Cardinality(Holders(k)) + Weight(t \in Holders(k)') - Weight(t \in Holders(k))
      BY CountMoves DEF Holders, Others
    <2>2. Cardinality(Unpinners(k)') =
            Cardinality(Unpinners(k)) + Weight(t \in Unpinners(k)') - Weight(t \in Unpinners(k))
      BY CountMoves DEF Unpinners, Others, UnpinsAt
    <2>3. /\ t \in Holders(k)' <=> k \in held'[t]
          /\ t \in Holders(k) <=> k \in held[t]
          /\ t \in Unpinners(k)' <=> UnpinsAt(pc'[t], loc'[t], k)
          /\ t \in Unpinners(k) <=> UnpinsAt(pc[t], loc[t], k)
      BY DEF Holders, Unpinners, UnpinsAt
    <2>4. rows[k].pins = Cardinality(Holders(k)) + Cardinality(Unpinners(k))
      BY DEF LeasesCounted, Holders, Unpinners
    <2>5. rows[k].pins \in Int /\ rows'[k].pins \in Int
      BY DEF RowT
    <2>6. Cardinality(Holders(k)) \in Nat /\ Cardinality(Unpinners(k)) \in Nat
      BY CountZero DEF Holders, Unpinners
    <2>7. rows'[k].pins - rows[k].pins =
              Weight(t \in Holders(k)') - Weight(t \in Holders(k))
            + Weight(t \in Unpinners(k)') - Weight(t \in Unpinners(k))
      <3>1. PinsBalance(t, k)
        OBVIOUS
      <3> QED BY <2>3, <3>1 DEF PinsBalance, Weight
    <2>8. /\ Weight(t \in Holders(k)') \in Int /\ Weight(t \in Holders(k)) \in Int
          /\ Weight(t \in Unpinners(k)') \in Int /\ Weight(t \in Unpinners(k)) \in Int
      BY DEF Weight
    <2> QED BY <2>1, <2>2, <2>4, <2>5, <2>6, <2>7, <2>8
  <1>3. ASSUME NEW k \in Key
        PROVE  rows'[k].refs = Cardinality(Referrers(k)') + Cardinality(Holders(k)')
                               + IF k \in generation' THEN 1 ELSE 0
    <2>1. Cardinality(Holders(k)') =
            Cardinality(Holders(k)) + Weight(t \in Holders(k)') - Weight(t \in Holders(k))
      BY CountMoves DEF Holders, Others
    <2>2. Cardinality(Referrers(k)') =
            Cardinality(Referrers(k)) + Weight(t \in Referrers(k)') - Weight(t \in Referrers(k))
      BY CountMoves DEF Referrers, Others
    <2>3. /\ t \in Holders(k)' <=> k \in held'[t]
          /\ t \in Holders(k) <=> k \in held[t]
          /\ t \in Referrers(k)' <=> Refers(t, k)'
          /\ t \in Referrers(k) <=> Refers(t, k)
      BY DEF Holders, Referrers
    <2>4. rows[k].refs = Cardinality(Referrers(k)) + Cardinality(Holders(k))
                         + IF k \in generation THEN 1 ELSE 0
      BY DEF RefsCounted
    <2>5. rows[k].refs \in Int /\ rows'[k].refs \in Int
      BY DEF RowT
    <2>6. Cardinality(Holders(k)) \in Nat /\ Cardinality(Referrers(k)) \in Nat
      BY CountZero DEF Holders, Referrers
    <2>7. RefsBalance(t, k)
      OBVIOUS
    <2> QED BY <2>1, <2>2, <2>3, <2>4, <2>5, <2>6, <2>7 DEF RefsBalance, Weight
  <1>4. ASSUME NEW q \in PermitId
        PROVE  permits'[q].refs = Cardinality(Sparing(q)') + Cardinality(Reserving(q)')
    <2>1. Cardinality(Sparing(q)') =
            Cardinality(Sparing(q)) + Weight(t \in Sparing(q)') - Weight(t \in Sparing(q))
      BY CountMoves DEF Sparing, Others
    <2>2. Cardinality(Reserving(q)') =
            Cardinality(Reserving(q)) + Weight(t \in Reserving(q)') - Weight(t \in Reserving(q))
      BY CountMoves DEF Reserving, Others
    <2>3. /\ t \in Sparing(q)' <=> loc'[t].spare = q
          /\ t \in Sparing(q) <=> loc[t].spare = q
          /\ t \in Reserving(q)' <=> loc'[t].res = q
          /\ t \in Reserving(q) <=> loc[t].res = q
      BY DEF Sparing, Reserving
    <2>4. permits[q].refs = Cardinality(Sparing(q)) + Cardinality(Reserving(q))
      BY DEF LeasesCounted, Sparing, Reserving
    <2>5. permits[q].refs \in Int /\ permits'[q].refs \in Int
      BY DEF PermitT
    <2>6. Cardinality(Sparing(q)) \in Nat /\ Cardinality(Reserving(q)) \in Nat
      BY CountZero DEF Sparing, Reserving
    <2>7. PermitBalances(t, q)
      OBVIOUS
    <2> QED BY <2>1, <2>2, <2>3, <2>4, <2>5, <2>6, <2>7, SMTT(30) DEF PermitBalances, Weight
  <1>5. LeasesCounted'
    BY <1>1, <1>2, <1>4 DEF LeasesCounted, Callers, Holders, Unpinners, Sparing, Reserving
  <1> QED BY <1>3, <1>5 DEF RefsCounted

-----------------------------------------------------------------------------
(* What the counts say *)

(* A version a thread uses, holds or may borrow is in the ledger.          *)
LEMMA InLedger ==
    ASSUME Inv, NEW t \in Thread, NEW k \in Key,
           k \in generation \/ Refers(t, k) \/ k \in held[t]
    PROVE  rows[k].present /\ rows[k].refs >= 1
  <1>1. Cardinality(Holders(k)) \in Nat /\ Cardinality(Referrers(k)) \in Nat
    BY CountZero DEF Holders, Referrers
  <1>2. Refers(t, k) => Cardinality(Referrers(k)) # 0
    BY CountZero DEF Referrers
  <1>3. k \in held[t] => Cardinality(Holders(k)) # 0
    BY CountZero DEF Holders
  <1>4. rows[k].refs >= 1
    BY <1>1, <1>2, <1>3 DEF Inv, RefsCounted
  <1> QED BY <1>4 DEF Inv, Referenced

LEMMA CallCounts ==
    ASSUME Inv, NEW t \in Thread, NEW k \in Key, InCall(t, k)
    PROVE  rows[k].calls >= 1
  <1>1. Cardinality(Callers(k)) \in Nat /\ Cardinality(Callers(k)) # 0
    BY CountZero DEF Callers
  <1>2. rows[k].calls = Cardinality(Callers(k))
    BY DEF Inv, LeasesCounted, Callers
  <1> QED BY <1>1, <1>2

(* A version without references is used by nobody. *)
LEMMA Unreferenced ==
    ASSUME Inv, NEW k \in Key, rows[k].refs = 0
    PROVE  /\ k \notin generation
           /\ \A t \in Thread : ~Refers(t, k) /\ k \notin held[t]
           /\ rows[k].calls = 0 /\ rows[k].pins = 0
  <1>1. k \notin generation /\ \A t \in Thread : ~Refers(t, k) /\ k \notin held[t]
    <2>1. CASE Thread = {}
      <3>1. Referrers(k) = {} /\ Holders(k) = {}
        BY <2>1 DEF Referrers, Holders
      <3> QED BY <2>1, <3>1, CountZero DEF Inv, RefsCounted
    <2>2. CASE Thread # {}
      BY <2>2, InLedger
    <2> QED BY <2>1, <2>2
  <1>2. Callers(k) = {} /\ Holders(k) = {} /\ Unpinners(k) = {}
    BY <1>1 DEF Callers, Holders, Unpinners, Refers, RefersAt, InCall, Calling, Aim, Trims
  <1>3. rows[k].calls = Cardinality(Callers(k))
    BY DEF Inv, LeasesCounted, Callers
  <1>4. rows[k].pins = Cardinality(Holders(k)) + Cardinality(Unpinners(k))
    BY DEF Inv, LeasesCounted, Holders, Unpinners
  <1> QED BY <1>1, <1>2, <1>3, <1>4, CountZero

(* A reservation is live exactly while a thread names it. *)
LEMMA NamedLive ==
    ASSUME LeasesCounted, NEW q \in PermitId, permits \in [PermitId -> PermitT]
    PROVE  permits[q].refs # 0 <=> \E t \in Thread : loc[t].spare = q \/ loc[t].res = q
  <1>1. permits[q].refs = Cardinality(Sparing(q)) + Cardinality(Reserving(q))
    BY DEF LeasesCounted, Sparing, Reserving
  <1>2. Cardinality(Sparing(q)) \in Nat /\ (Cardinality(Sparing(q)) = 0 <=> Sparing(q) = {})
    BY CountZero DEF Sparing
  <1>3. Cardinality(Reserving(q)) \in Nat /\ (Cardinality(Reserving(q)) = 0 <=> Reserving(q) = {})
    BY CountZero DEF Reserving
  <1> QED BY <1>1, <1>2, <1>3 DEF Sparing, Reserving

-----------------------------------------------------------------------------
(* Steps that leave all standings as they are *)

SameRows ==
    /\ rows' \in [Key -> RowT]
    /\ \A k \in Key : /\ rows'[k].calls = rows[k].calls /\ rows'[k].pins = rows[k].pins
                      /\ rows'[k].refs = rows[k].refs /\ rows'[k].wave = rows[k].wave
                      /\ rows'[k].present = rows[k].present
SamePermits ==
    /\ permits' \in [PermitId -> PermitT]
    /\ \A q \in PermitId : /\ permits'[q].refs = permits[q].refs
                           /\ permits'[q].member = permits[q].member
SamePhases ==
    /\ slot' \in [Key -> Slot]
    /\ \A k \in Key : slot'[k].phase = slot[k].phase
SameTables ==
    /\ SameRows /\ SamePermits /\ SamePhases
    /\ canon' \in [Key -> RawId \cup {NoRaw}]
    /\ UNCHANGED <<held, generation>>

(* The thread stands where it stood, or its standing was nothing.          *)
Alike(t, p, l) ==
    /\ l.spare = loc[t].spare /\ l.res = loc[t].res
    /\ \A k \in Key : /\ CallsAt(p, l, k) <=> InCall(t, k)
                      /\ RefersAt(p, l, k) <=> Refers(t, k)
                      /\ UnpinsAt(p, l, k) <=> UnpinsAt(pc[t], loc[t], k)
    /\ l.prep \in {"load", "wait"} \/ loc[t].prep \in {"load", "wait"}
         => l.prep = loc[t].prep /\ l.key = loc[t].key
    /\ l.hasBody => loc[t].hasBody
    /\ l.key # NoKey => l.key = loc[t].key
    /\ l.key # NoKey /\ ~Ends(p, l) => ~Ends(pc[t], loc[t])
    /\ l.key = NoKey => (l.spare = NoPermit /\ l.res = NoPermit) \/ loc[t].key = NoKey

LEMMA InCallAt ==
    ASSUME NEW t, NEW k
    PROVE  InCall(t, k) <=> CallsAt(pc[t], loc[t], k)
  BY DEF InCall, CallsAt, Calling

LEMMA TypedStep ==
    ASSUME TypedInv, NEW t \in Thread, NEW p \in Point, NEW l \in Local, Steps(t, p, l)
    PROVE  /\ pc' \in [Thread -> Point] /\ loc' \in [Thread -> Local]
           /\ pc'[t] = p /\ loc'[t] = l
           /\ \A u \in Thread \ {t} : pc'[u] = pc[u] /\ loc'[u] = loc[u]
  BY DEF TypedInv, Steps

LEMMA OthersStay ==
    ASSUME NEW t \in Thread,
           \A u \in Thread \ {t} : pc'[u] = pc[u] /\ loc'[u] = loc[u] /\ held'[u] = held[u]
    PROVE  Others(t)
  BY DEF Others, InCall, Refers, UnpinsAt

LEMMA QuietCounts ==
    ASSUME Inv, NEW t \in Thread, NEW p \in Point, NEW l \in Local, Steps(t, p, l),
           SameTables, Alike(t, p, l)
    PROVE  LeasesCounted' /\ RefsCounted'
  <1>1. Others(t)
    BY TypedStep, OthersStay DEF Inv, SameTables
  <1>2. pc'[t] = p /\ loc'[t] = l
    BY TypedStep DEF Inv
  <1>3. \A k \in Key : /\ InCall(t, k)' <=> InCall(t, k)
                       /\ Refers(t, k)' <=> Refers(t, k)
                       /\ UnpinsAt(pc'[t], loc'[t], k) <=> UnpinsAt(pc[t], loc[t], k)
    BY <1>2 DEF Alike, InCall, CallsAt, Calling, Refers
  <1>4. ASSUME NEW k \in Key
        PROVE  CallsBalance(t, k) /\ PinsBalance(t, k) /\ RefsBalance(t, k)
    <2>1. /\ rows[k].calls \in Int /\ rows'[k].calls = rows[k].calls
          /\ rows[k].pins \in Int /\ rows'[k].pins = rows[k].pins
          /\ rows[k].refs \in Int /\ rows'[k].refs = rows[k].refs
          /\ UNCHANGED <<held, generation>>
      BY DEF SameTables, SameRows, Inv, TypedInv, RowT
    <2>2. CallsBalance(t, k)
      BY <1>3, <2>1 DEF CallsBalance, Weight
    <2>3. PinsBalance(t, k)
      BY <1>3, <2>1 DEF PinsBalance, Weight
    <2>4. RefsBalance(t, k)
      BY <1>3, <2>1 DEF RefsBalance, Weight
    <2> QED BY <2>2, <2>3, <2>4
  <1>5. \A q \in PermitId : PermitBalances(t, q)
    BY <1>2 DEF PermitBalances, SameTables, SamePermits, Weight, Inv, TypedInv, PermitT, Alike
  <1> QED BY <1>1, <1>4, <1>5, Balanced DEF Inv, TypedInv, SameTables, SameRows, SamePermits

LEMMA Quiet ==
    ASSUME Inv, NEW t \in Thread, NEW p \in Point, NEW l \in Local, Steps(t, p, l),
           Place(p, l), SameTables, Alike(t, p, l)
    PROVE  Inv'
  <1>1. /\ pc' \in [Thread -> Point] /\ loc' \in [Thread -> Local]
        /\ pc'[t] = p /\ loc'[t] = l
        /\ \A u \in Thread \ {t} : pc'[u] = pc[u] /\ loc'[u] = loc[u]
    BY TypedStep DEF Inv
  <1>2. TypedInv'
    BY <1>1 DEF Inv, TypedInv, SameTables, SameRows, SamePermits, SamePhases
  <1>3. Placed'
    BY <1>1 DEF Inv, Placed
  <1>4. ASSUME NEW u \in Thread
        PROVE  Entitled(u)'
    <2>1. CASE u = t
      BY <1>1, <2>1 DEF Entitled, Inv, Alike, SameTables
    <2>2. CASE u # t
      BY <1>1, <2>2 DEF Entitled, Inv, SameTables
    <2> QED BY <2>1, <2>2
  <1>5. LeasesCounted' /\ RefsCounted'
    BY QuietCounts
  <1>6. Referenced'
    BY DEF Referenced, Inv, SameTables, SameRows
  <1>7. ASSUME NEW u \in Thread
        PROVE  Belongs(u)'
    <2>1. CASE u = t
      BY <1>1, <2>1 DEF Belongs, Inv, Alike, SameTables, SamePermits, TypedInv, Local
    <2>2. CASE u # t
      BY <1>1, <2>2 DEF Belongs, Inv, SameTables, SamePermits, TypedInv, Local
    <2> QED BY <2>1, <2>2
  <1>8. WaveLive'
    BY DEF WaveLive, Live, Inv, SameTables, SameRows, SamePermits
  <1>9. Flown'
    BY <1>1 DEF Flown, Loads, Inv, SameTables, SamePhases, Alike
  <1>10. Used'
    BY <1>1, ResidencyAssumption DEF Used, UsesBody, Inv, SameTables, SamePhases, Alike
  <1> QED BY <1>2, <1>3, <1>4, <1>5, <1>6, <1>7, <1>8, <1>9, <1>10 DEF Inv

LEMMA Untouched ==
    ASSUME Inv, UNCHANGED <<rows, permits, canon, slot, held, generation>>
    PROVE  SameTables
  BY DEF Inv, TypedInv, SameTables, SameRows, SamePermits, SamePhases

-----------------------------------------------------------------------------
(* begin_past *)

LEMMA RefuseBeginKeeps ==
    ASSUME Inv, NEW t \in Thread, NEW a \in Reply, pc[t] = "begin", RefuseBegin(t, a)
    PROVE  Inv'
  <1> DEFINE l == [loc[t] EXCEPT !.answer = a]
             p == IF loc[t].spare # NoPermit THEN "spare" ELSE "answer"
  <1>1. Steps(t, p, l)
    BY DEF Steps, RefuseBegin, Goto, Inv, TypedInv
  <1>2. SameTables
    BY Untouched DEF RefuseBegin, ledgerVars, hostVars, clientVars
  <1>3. loc[t] \in Local /\ Place(pc[t], loc[t])
    BY DEF Inv, TypedInv, Placed
  <1>4. p \in Point /\ l \in Local
    BY <1>3 DEF Point, Local
  <1>5. Place(p, l)
    BY <1>3 DEF Place, Local, Aim, Trims, Calling
  <1>6. Alike(t, p, l)
    BY <1>3 DEF Place, Local, Aim, Trims, Calling, Alike, CallsAt, InCall, RefersAt, Refers, UnpinsAt, Ends
  <1> HIDE DEF l, p
  <1> QED BY <1>1, <1>2, <1>4, <1>5, <1>6, Quiet

(* A step without a thread's step: nothing of the standings moves.         *)
LEMMA StillKeeps ==
    ASSUME Inv, UNCHANGED <<rows, permits, slot, pc, loc, held, generation>>,
           canon' \in [Key -> RawId \cup {NoRaw}]
    PROVE  Inv'
  <1>1. TypedInv' /\ Placed' /\ RefsCounted' /\ Referenced' /\ Flown' /\ Used'
    BY DEF Inv, TypedInv, Placed, RefsCounted, Referrers, Refers, Holders, Referenced, Flown,
           Loads, Used, UsesBody
  <1>2. WaveLive'
    BY DEF Inv, WaveLive, Live
  <1>3. LeasesCounted'
    BY DEF Inv, LeasesCounted, InCall
  <1>4. ASSUME NEW t \in Thread
        PROVE  Entitled(t)' /\ Belongs(t)'
    BY DEF Inv, Entitled, Belongs
  <1> QED BY <1>1, <1>2, <1>3, <1>4 DEF Inv

LEMMA BeginStaleKeeps ==
    ASSUME Inv, NEW t \in Thread, BeginStale(t)
    PROVE  Inv'
  <1>1. loc[t] \in Local /\ Place(pc[t], loc[t])
    BY DEF Inv, TypedInv, Placed
  <1>2. Steps(t, "spare", loc[t])
    BY DEF Steps, BeginStale, Goto, Inv, TypedInv
  <1>3. SameTables
    BY Untouched DEF BeginStale, ledgerVars, hostVars, clientVars
  <1>4. "spare" \in Point
    BY DEF Point
  <1>5. pc[t] = "begin" /\ loc[t].spare # NoPermit
    BY DEF BeginStale, Startable, Beginning, StaleSpare
  <1>6. Place("spare", loc[t])
    BY <1>1, <1>5 DEF Place, Aim, Trims, Calling
  <1>7. Alike(t, "spare", loc[t])
    BY <1>1, <1>5 DEF Place, Aim, Trims, Calling, Alike, CallsAt, InCall, RefersAt, Refers,
                      UnpinsAt, Ends
  <1> QED BY <1>1, <1>2, <1>3, <1>4, <1>6, <1>7, Quiet

LEMMA BeginAdmissionKeeps ==
    ASSUME Inv, NEW t \in Thread, BeginAdmission(t)
    PROVE  Inv'
  <1> DEFINE l == [loc[t] EXCEPT !.need = Declared(loc[t].key), !.rev = slot[loc[t].key].revision]
  <1>1. loc[t] \in Local /\ Place(pc[t], loc[t])
    BY DEF Inv, TypedInv, Placed
  <1>2. Steps(t, "admit", l)
    BY DEF Steps, BeginAdmission, Goto, Inv, TypedInv
  <1>3. SameTables
    BY Untouched DEF BeginAdmission, ledgerVars, hostVars, clientVars
  <1>4. pc[t] = "begin" /\ loc[t].spare = NoPermit
    BY DEF BeginAdmission, Startable, Beginning
  <1>5. loc[t].key \in Key
    BY <1>1, <1>4 DEF Place, Aim, Trims, Local
  <1>6. Declared(loc[t].key) \in Nat /\ slot[loc[t].key].revision \in 0..MaxRevision
    BY <1>5, ResidencyAssumption DEF Declared, Inv, TypedInv, RowT, Slot
  <1>7. "admit" \in Point /\ l \in Local
    <2> DEFINE o == [loc[t] EXCEPT !.need = Declared(loc[t].key)]
    <2>1. o \in Local
      BY <1>1, <1>6 DEF Local
    <2>2. l = [o EXCEPT !.rev = slot[loc[t].key].revision]
      OBVIOUS
    <2> HIDE DEF o, l
    <2> QED BY <1>6, <2>1, <2>2 DEF Point, Local
  <1>8. Place("admit", l)
    BY <1>1, <1>4 DEF Place, Local, Aim, Trims, Calling
  <1>9. Alike(t, "admit", l)
    BY <1>1, <1>4 DEF Place, Local, Aim, Trims, Calling, Alike, CallsAt, InCall, RefersAt,
                      Refers, UnpinsAt, Ends
  <1> HIDE DEF l
  <1> QED BY <1>2, <1>3, <1>7, <1>8, <1>9, Quiet

-----------------------------------------------------------------------------
(* admit_turn *)

LEMMA NoCallTyped == NoCall \in Local
  BY ResidencyAssumption, BoundsAssumption DEF Local, NoCall, Reply, Point

(* The thread is done with its operation. *)
LEMMA RestKeeps ==
    ASSUME Inv, NEW t \in Thread, Rest(t), SameTables,
           Aim(pc[t], loc[t]) \in {"idle", "admit", "unowe", "answer"}, pc[t] # "idle",
           loc[t].spare = NoPermit
    PROVE  Inv'
  <1>1. loc[t] \in Local /\ Place(pc[t], loc[t])
    BY DEF Inv, TypedInv, Placed
  <1>2. Steps(t, "idle", NoCall)
    BY DEF Steps, Rest, Goto
  <1>3. "idle" \in Point
    BY DEF Point
  <1>4. Place("idle", NoCall)
    BY DEF Place, NoCall, Aim, Trims, Calling
  <1>5. Alike(t, "idle", NoCall)
    BY <1>1, ResidencyAssumption DEF Place, Local, NoCall, Aim, Trims, Calling, Alike, CallsAt, InCall, RefersAt,
                      Refers, UnpinsAt, Ends
  <1> QED BY <1>2, <1>3, <1>4, <1>5, NoCallTyped, Quiet

LEMMA AnswerKeeps ==
    ASSUME Inv, NEW t \in Thread, NEW a \in {"Retiring", "Busy", "Waiting", "Paused"},
           Answer(t, a), SameTables, Aim(pc[t], loc[t]) = "admit"
    PROVE  Inv'
  <1> DEFINE l == [loc[t] EXCEPT !.answer = a]
             p == IF a = "Paused" THEN "answer" ELSE "unowe"
  <1>1. loc[t] \in Local /\ Place(pc[t], loc[t])
    BY DEF Inv, TypedInv, Placed
  <1>2. loc[t].spare = NoPermit /\ loc[t].prep = "none"
    BY <1>1 DEF Place, Aim, Trims
  <1>3. CASE loc[t].key = NoKey
    BY <1>2, <1>3, RestKeeps DEF Answer, Aim, Trims
  <1>4. CASE loc[t].key # NoKey
    <2>1. Steps(t, p, l)
      BY <1>4 DEF Steps, Answer, Goto
    <2>2. p \in Point /\ l \in Local
      BY <1>1 DEF Point, Local, Reply
    <2>3. Place(p, l)
      BY <1>1, <1>2, <1>4 DEF Place, Local, Aim, Trims, Calling
    <2>4. Alike(t, p, l)
      BY <1>1, <1>2, <1>4 DEF Place, Local, Aim, Trims, Calling, Alike, CallsAt, InCall, RefersAt,
                         Refers, UnpinsAt, Ends
    <2> HIDE DEF l, p
    <2> QED BY <2>1, <2>2, <2>3, <2>4, Quiet
  <1> QED BY <1>3, <1>4

LEMMA RefusedKeeps ==
    ASSUME Inv, NEW t \in Thread, NEW a \in {"Retiring", "Busy", "Waiting", "Paused"},
           Refused(t, a), pc[t] = "admit"
    PROVE  Inv'
  <1>1. SameTables
    BY Untouched DEF Refused, hostVars, clientVars
  <1> QED BY <1>1, AnswerKeeps DEF Refused, Aim, Trims

LEMMA AdmitHotKeeps ==
    ASSUME Inv, NEW t \in Thread, AdmitHot(t)
    PROVE  Inv'
  <1>1. loc[t] \in Local /\ Place(pc[t], loc[t])
    BY DEF Inv, TypedInv, Placed
  <1>2. Steps(t, "unowe", loc[t])
    BY DEF Steps, AdmitHot, Goto, Inv, TypedInv
  <1>3. SameTables
    BY Untouched DEF AdmitHot, hostVars, clientVars
  <1>4. "unowe" \in Point
    BY DEF Point
  <1>5. pc[t] = "admit"
    BY DEF AdmitHot, Admitting
  <1>6. Place("unowe", loc[t])
    BY <1>1, <1>5 DEF Place, Aim, Trims, Calling
  <1>7. Alike(t, "unowe", loc[t])
    BY <1>1, <1>5 DEF Place, Aim, Trims, Calling, Alike, CallsAt, InCall, RefersAt, Refers,
                      UnpinsAt, Ends
  <1> QED BY <1>1, <1>2, <1>3, <1>4, <1>6, <1>7, Quiet

LEMMA AdmitReclaimKeeps ==
    ASSUME Inv, NEW t \in Thread, AdmitReclaim(t)
    PROVE  Inv'
  <1> DEFINE l == [loc[t] EXCEPT !.mode = "admit"]
  <1>1. loc[t] \in Local /\ Place(pc[t], loc[t])
    BY DEF Inv, TypedInv, Placed
  <1>2. Steps(t, "select", l)
    BY DEF Steps, AdmitReclaim, Goto
  <1>3. SameTables
    BY Untouched DEF AdmitReclaim, hostVars, clientVars
  <1>4. pc[t] = "admit"
    BY DEF AdmitReclaim, Turn, Contends, Admitting
  <1>5. "select" \in Point /\ l \in Local
    BY <1>1 DEF Point, Local
  <1>6. Place("select", l)
    BY <1>1, <1>4 DEF Place, Local, Aim, Trims, Calling
  <1>7. Alike(t, "select", l)
    BY <1>1, <1>4 DEF Place, Local, Aim, Trims, Calling, Alike, CallsAt, InCall, RefersAt,
                      Refers, UnpinsAt, Ends
  <1> HIDE DEF l
  <1> QED BY <1>2, <1>3, <1>5, <1>6, <1>7, Quiet

LEMMA UnoweKeeps ==
    ASSUME Inv, NEW t \in Thread, Unowe(t)
    PROVE  Inv'
  <1> DEFINE l == [loc[t] EXCEPT !.mode = "trim"]
             p == IF loc[t].answer = "none" THEN "begin" ELSE "answer"
  <1>1. loc[t] \in Local /\ Place(pc[t], loc[t]) /\ pc[t] = "unowe"
    BY DEF Inv, TypedInv, Placed, Unowe
  <1>2. SameTables
    BY Untouched DEF Unowe, hostVars, clientVars
  <1>3. CASE loc[t].key = NoKey
    <2>1. loc[t].spare = NoPermit
      BY <1>1, <1>3 DEF Place
    <2> QED BY <1>1, <1>2, <1>3, <2>1, RestKeeps DEF Unowe, Aim, Trims
  <1>4. CASE loc[t].key # NoKey
    <2>1. Steps(t, p, l)
      BY <1>4 DEF Steps, Unowe, Goto
    <2>2. p \in Point /\ l \in Local
      BY <1>1 DEF Point, Local
    <2>3. Place(p, l)
      BY <1>1, <1>4 DEF Place, Local, Aim, Trims, Calling
    <2>4. Alike(t, p, l)
      BY <1>1, <1>4 DEF Place, Local, Aim, Trims, Calling, Alike, CallsAt, InCall, RefersAt,
                         Refers, UnpinsAt, Ends
    <2> HIDE DEF l, p
    <2> QED BY <1>2, <2>1, <2>2, <2>3, <2>4, Quiet
  <1> QED BY <1>3, <1>4

-----------------------------------------------------------------------------
(* Retirement *)

LEMMA NextCanonTyped ==
    ASSUME canon \in [Key -> RawId \cup {NoRaw}], NEW k \in Key, NEW dead
    PROVE  NextCanon(k, dead) \in RawId \cup {NoRaw}
  BY DEF NextCanon

LEMMA ReleaseRawCanon ==
    ASSUME canon \in [Key -> RawId \cup {NoRaw}], NEW id \in RawId \cup {NoRaw}, ReleaseRaw(id)
    PROVE  canon' \in [Key -> RawId \cup {NoRaw}]
  <1>1. CASE canon' = canon
    BY <1>1
  <1>2. CASE canon' # canon
    <2>1. id \in RawId /\ canon' = [canon EXCEPT ![KeyOf(id)] = NextCanon(KeyOf(id), {id})]
      BY <1>2 DEF ReleaseRaw
    <2>2. KeyOf(id) \in Key
      BY <2>1 DEF KeyOf, RawId
    <2>3. NextCanon(KeyOf(id), {id}) \in RawId \cup {NoRaw}
      BY <2>2, NextCanonTyped
    <2> QED BY <2>1, <2>2, <2>3
  <1> QED BY <1>1, <1>2

LEMMA PruneCanon ==
    ASSUME canon \in [Key -> RawId \cup {NoRaw}], NEW ids, Prune(ids)
    PROVE  canon' \in [Key -> RawId \cup {NoRaw}]
  BY NextCanonTyped DEF Prune

LEMMA AddRawCanon ==
    ASSUME canon \in [Key -> RawId \cup {NoRaw}], NEW id \in RawId \cup {NoRaw}, AddRaw(id)
    PROVE  canon' \in [Key -> RawId \cup {NoRaw}]
  BY DEF AddRaw

LEMMA VictimsAreVersions ==
    ASSUME NEW mode, NEW v \in Victims(mode)
    PROVE  v \in Key
  BY DEF Victims, Oldest

LEMMA SelectVictimKeeps ==
    ASSUME Inv, NEW t \in Thread, SelectVictim(t)
    PROVE  Inv'
  <1>1. loc[t] \in Local /\ Place(pc[t], loc[t]) /\ pc[t] = "select"
    BY DEF Inv, TypedInv, Placed, SelectVictim
  <1>2. PICK v \in Victims(loc[t].mode) :
          /\ rows' = [rows EXCEPT ![v].retiring = TRUE]
          /\ loc' = [loc EXCEPT ![t].victim = v, ![t].vrev = slot[v].revision]
    BY DEF SelectVictim
  <1>3. v \in Key
    BY VictimsAreVersions
  <1> DEFINE l == [loc[t] EXCEPT !.victim = v, !.vrev = slot[v].revision]
  <1>4. Steps(t, "shed", l)
    BY <1>2 DEF Steps, SelectVictim, Goto, Inv, TypedInv
  <1>5. SameRows
    <2>1. rows \in [Key -> RowT]
      BY DEF Inv, TypedInv
    <2>2. [rows[v] EXCEPT !.retiring = TRUE] \in RowT
      BY <1>3, <2>1 DEF RowT
    <2>3. rows' \in [Key -> RowT]
      BY <1>2, <1>3, <2>1, <2>2
    <2>4. rows' = [k \in Key |-> IF k = v THEN [rows[v] EXCEPT !.retiring = TRUE] ELSE rows[k]]
      BY <1>2, <1>3, <2>1
    <2>5. ASSUME NEW k \in Key
          PROVE  /\ rows'[k].calls = rows[k].calls /\ rows'[k].pins = rows[k].pins
                 /\ rows'[k].refs = rows[k].refs /\ rows'[k].wave = rows[k].wave
                 /\ rows'[k].present = rows[k].present
      BY <2>1, <2>4 DEF RowT
    <2> QED BY <2>3, <2>5 DEF SameRows
  <1>6. SameTables
    BY <1>5 DEF SameTables, SamePermits, SamePhases, SelectVictim, hostVars, clientVars, Inv, TypedInv
  <1>7. slot[v].revision \in 0..MaxRevision
    BY <1>3 DEF Inv, TypedInv, Slot
  <1>8. "shed" \in Point /\ l \in Local
    <2> DEFINE o == [loc[t] EXCEPT !.victim = v]
    <2>1. o \in Local
      BY <1>1, <1>3 DEF Local
    <2> HIDE DEF o
    <2>2. [o EXCEPT !.vrev = slot[v].revision] \in Local
      BY <1>7, <2>1 DEF Local
    <2>3. l = [o EXCEPT !.vrev = slot[v].revision]
      BY DEF o
    <2> QED BY <2>2, <2>3 DEF Point
  <1>9. Place("shed", l)
    BY <1>1, <1>3, ResidencyAssumption DEF Place, Local, Aim, Trims, Calling
  <1>10. Alike(t, "shed", l)
    BY <1>1 DEF Place, Local, Aim, Trims, Calling, Alike, CallsAt, InCall, RefersAt, Refers,
                UnpinsAt, Ends
  <1> HIDE DEF l
  <1> QED BY <1>4, <1>6, <1>8, <1>9, <1>10, Quiet

LEMMA AttemptTyped ==
    ASSUME NEW l \in Local
    PROVE  Attempt(l) \in Local
  <1>1. ASSUME NEW n \in Local
        PROVE  [n EXCEPT !.key = l.key, !.access = l.access, !.tries = l.tries] \in Local
    <2> DEFINE a == [n EXCEPT !.key = l.key]
               b == [a EXCEPT !.access = l.access]
    <2>1. a \in Local
      BY DEF Local
    <2>2. [n EXCEPT !.key = l.key, !.access = l.access, !.tries = l.tries]
            = [b EXCEPT !.tries = l.tries]
      OBVIOUS
    <2> HIDE DEF a
    <2>3. b \in Local
      BY <2>1 DEF Local
    <2> HIDE DEF b
    <2> QED BY <2>2, <2>3 DEF Local
  <1>2. ASSUME NEW n \in Local, NEW b \in BOOLEAN
        PROVE  [n EXCEPT !.unpaused = b] \in Local /\ [n EXCEPT !.again = b] \in Local
    BY DEF Local
  <1>3. ASSUME NEW n \in Local
        PROVE  [n EXCEPT !.patience = l.patience] \in Local
    BY DEF Local
  <1>4. l.unpaused \in BOOLEAN /\ l.again \in BOOLEAN
    BY DEF Local
  <1> DEFINE m == [NoCall EXCEPT !.key = l.key, !.access = l.access, !.tries = l.tries]
             n == [m EXCEPT !.patience = l.patience]
  <1>5. m \in Local /\ n \in Local
    BY <1>1, <1>3, NoCallTyped
  <1> DEFINE o == [n EXCEPT !.unpaused = l.unpaused]
  <1>6. o \in Local /\ [o EXCEPT !.again = l.again] \in Local
    BY <1>2, <1>4, <1>5
  <1>7. Attempt(l) = [o EXCEPT !.again = l.again]
    BY DEF Attempt
  <1> QED BY <1>6, <1>7

LEMMA ResumeKeeps ==
    ASSUME Inv, NEW t \in Thread, pc[t] = "select", loc[t].mode = "trim", SameTables, Resume(t)
    PROVE  Inv'
  <1>1. loc[t] \in Local /\ Place(pc[t], loc[t])
    BY DEF Inv, TypedInv, Placed
  <1>2. CASE loc[t].after = "idle"
    <2>1. loc[t].spare = NoPermit
      BY <1>1 DEF Place
    <2> QED BY <1>1, <1>2, <2>1, RestKeeps DEF Resume, Aim, Trims
  <1>3. CASE loc[t].after = "begin"
    <2> DEFINE l == Attempt(loc[t])
    <2>1. Steps(t, "begin", l)
      BY <1>3 DEF Steps, Resume, Goto, Inv, TypedInv
    <2>2. "begin" \in Point /\ l \in Local
      BY <1>1, AttemptTyped DEF Point
    <2>3. Place("begin", l)
      BY <1>1, <1>3 DEF Place, Local, Aim, Trims, Calling, Attempt, NoCall
    <2>4. Alike(t, "begin", l)
      BY <1>1, <1>3 DEF Place, Local, Aim, Trims, Calling, Alike, CallsAt, InCall, RefersAt,
                         Refers, UnpinsAt, Ends, Attempt, NoCall
    <2> HIDE DEF l
    <2> QED BY <2>1, <2>2, <2>3, <2>4, Quiet
  <1>4. CASE loc[t].after \notin {"idle", "begin"}
    <2> DEFINE l == [loc[t] EXCEPT !.after = "idle"]
               p == loc[t].after
    <2>1. Steps(t, p, l)
      BY <1>4 DEF Steps, Resume, Goto, Inv, TypedInv
    <2>2. p \in Point /\ l \in Local
      BY <1>1 DEF Point, Local
    <2>3. Place(p, l)
      BY <1>1, <1>4 DEF Place, Local, Aim, Trims, Calling
    <2>4. Alike(t, p, l)
      BY <1>1, <1>4 DEF Place, Local, Aim, Trims, Calling, Alike, CallsAt, InCall, RefersAt,
                         Refers, UnpinsAt, Ends
    <2> HIDE DEF l, p
    <2> QED BY <2>1, <2>2, <2>3, <2>4, Quiet
  <1> QED BY <1>2, <1>3, <1>4

LEMMA SelectNoneKeeps ==
    ASSUME Inv, NEW t \in Thread, SelectNone(t)
    PROVE  Inv'
  <1>1. SameTables
    BY Untouched DEF SelectNone, hostVars, clientVars
  <1>2. CASE loc[t].mode = "admit"
    BY <1>1, <1>2, AnswerKeeps DEF SelectNone, Aim, Trims
  <1>3. CASE loc[t].mode # "admit"
    <2>1. loc[t].mode = "trim"
      BY <1>3 DEF Inv, Placed, Place
    <2> QED BY <1>1, <1>3, <2>1, ResumeKeeps DEF SelectNone
  <1> QED BY <1>2, <1>3

LEMMA SettleKeeps ==
    ASSUME Inv, NEW t \in Thread, Settle(t)
    PROVE  Inv'
  <1> DEFINE v == loc[t].victim
             cold == slot[v].phase = "Cold"
             l == IF cold THEN loc[t] ELSE [loc[t] EXCEPT !.answer = "Busy"]
  <1>1. loc[t] \in Local /\ Place(pc[t], loc[t]) /\ pc[t] = "settle"
    BY DEF Inv, TypedInv, Placed, Settle
  <1>2. v \in Key
    BY <1>1 DEF Local, Place, Trims
  <1>3. Steps(t, "collect", l)
    BY DEF Steps, Settle, Goto, Inv, TypedInv
  <1>4. SameRows
    <2>1. rows' = [rows EXCEPT ![v].retiring = FALSE, ![v].body = IF cold THEN 0 ELSE @,
                               ![v].forced = IF cold THEN FALSE ELSE @]
      BY DEF Settle
    <2> HIDE DEF cold
    <2> DEFINE r == [rows[v] EXCEPT !.retiring = FALSE, !.body = IF cold THEN 0 ELSE rows[v].body,
                                    !.forced = IF cold THEN FALSE ELSE rows[v].forced]
    <2>2. rows \in [Key -> RowT]
      BY DEF Inv, TypedInv
    <2>3. rows' \in [Key -> RowT]
      <3>1. rows' = [rows EXCEPT ![v] = r]
        BY <1>2, <2>1, <2>2 DEF RowT
      <3>2. r \in RowT
        BY <1>2, <2>2, ZenonT(30) DEF RowT
      <3> HIDE DEF r
      <3> QED BY <2>2, <3>1, <3>2
    <2>4. ASSUME NEW k \in Key
          PROVE  /\ rows'[k].calls = rows[k].calls /\ rows'[k].pins = rows[k].pins
                 /\ rows'[k].refs = rows[k].refs /\ rows'[k].wave = rows[k].wave
                 /\ rows'[k].present = rows[k].present
      BY <1>2, <2>1, <2>2 DEF RowT
    <2> QED BY <2>3, <2>4 DEF SameRows
  <1>5. SamePhases
    BY <1>2 DEF SamePhases, Settle, Inv, TypedInv, Slot
  <1>6. canon' \in [Key -> RawId \cup {NoRaw}]
    BY <1>2, ReleaseRawCanon DEF Settle, Inv, TypedInv, RowT
  <1>7. SameTables
    BY <1>4, <1>5, <1>6 DEF SameTables, SamePermits, Settle, hostVars, clientVars, Inv, TypedInv
  <1>8. "collect" \in Point /\ l \in Local
    BY <1>1 DEF Point, Local, Reply
  <1>9. Place("collect", l)
    BY <1>1 DEF Place, Local, Aim, Trims, Calling
  <1>10. Alike(t, "collect", l)
    BY <1>1 DEF Place, Local, Aim, Trims, Calling, Alike, CallsAt, InCall, RefersAt, Refers,
                UnpinsAt, Ends
  <1> HIDE DEF l
  <1> QED BY <1>3, <1>7, <1>8, <1>9, <1>10, Quiet

LEMMA CollectedKeeps ==
    ASSUME Inv, NEW t \in Thread, pc[t] \in {"collect", "destroyed"}, Collected(t), SameTables,
           NEW l \in Local, loc' = [loc EXCEPT ![t] = l],
           l \in {loc[t], [loc[t] EXCEPT !.gone = 0, !.goneRaw = NoRaw]}
    PROVE  Inv'
  <1> DEFINE p == IF loc[t].mode = "trim" THEN "select"
                  ELSE IF loc[t].answer = "Busy" THEN "unowe" ELSE "admit"
  <1>1. loc[t] \in Local /\ Place(pc[t], loc[t])
    BY DEF Inv, TypedInv, Placed
  <1>2. Steps(t, p, l)
    BY DEF Steps, Collected, Goto
  <1>3. /\ p \in Point
        /\ l.key = loc[t].key /\ l.prep = loc[t].prep /\ l.mode = loc[t].mode
        /\ l.after = loc[t].after /\ l.fin = loc[t].fin /\ l.hasBody = loc[t].hasBody
        /\ l.spare = loc[t].spare /\ l.res = loc[t].res /\ l.answer = loc[t].answer
        /\ l.victim = loc[t].victim
    BY <1>1, ZenonT(30) DEF Point, Local
  <1>4. Place(p, l)
    BY <1>1, <1>3 DEF Place, Aim, Trims, Calling
  <1>5. Alike(t, p, l)
    BY <1>1, <1>3 DEF Place, Aim, Trims, Calling, Alike, CallsAt, InCall, RefersAt, Refers,
                UnpinsAt, Ends
  <1> HIDE DEF p
  <1> QED BY <1>2, <1>3, <1>4, <1>5, Quiet

LEMMA CollectNothingKeeps ==
    ASSUME Inv, NEW t \in Thread, CollectNothing(t)
    PROVE  Inv'
  <1>1. SameTables
    BY Untouched DEF CollectNothing, ledgerVars, hostVars, clientVars
  <1>2. loc[t] \in Local /\ loc' = [loc EXCEPT ![t] = loc[t]]
    BY DEF CollectNothing, Inv, TypedInv
  <1> QED BY <1>1, <1>2, CollectedKeeps DEF CollectNothing

LEMMA DropRowKeeps ==
    ASSUME Inv, NEW t \in Thread, DropRow(t)
    PROVE  Inv'
  <1> DEFINE l == [loc[t] EXCEPT !.raw = NoRaw]
  <1>1. loc[t] \in Local /\ Place(pc[t], loc[t]) /\ pc[t] = "drop"
    BY DEF Inv, TypedInv, Placed, DropRow
  <1>2. Steps(t, "destroyed", l)
    BY DEF Steps, DropRow, Goto
  <1>3. SameTables
    BY Untouched DEF DropRow, ledgerVars, hostVars, clientVars
  <1>4. "destroyed" \in Point /\ l \in Local
    BY <1>1 DEF Point, Local
  <1>5. Place("destroyed", l)
    BY <1>1 DEF Place, Local, Aim, Trims, Calling
  <1>6. Alike(t, "destroyed", l)
    BY <1>1 DEF Place, Local, Aim, Trims, Calling, Alike, CallsAt, InCall, RefersAt, Refers,
                UnpinsAt, Ends
  <1> HIDE DEF l
  <1> QED BY <1>2, <1>3, <1>4, <1>5, <1>6, Quiet

LEMMA ReleaseDetachedKeeps ==
    ASSUME Inv, NEW t \in Thread, ReleaseDetached(t)
    PROVE  Inv'
  <1> DEFINE l == [loc[t] EXCEPT !.gone = 0, !.goneRaw = NoRaw]
  <1>1. loc[t] \in Local
    BY DEF Inv, TypedInv
  <1>2. l \in Local
    BY <1>1 DEF Local
  <1>3. canon' \in [Key -> RawId \cup {NoRaw}]
    BY <1>1, ReleaseRawCanon, PruneCanon DEF ReleaseDetached, Inv, TypedInv, Local
  <1>4. SameTables
    BY <1>3 DEF SameTables, SameRows, SamePermits, SamePhases, ReleaseDetached, hostVars,
                clientVars, Inv, TypedInv
  <1>5. pc[t] = "destroyed" /\ Collected(t) /\ loc' = [loc EXCEPT ![t] = l]
    BY DEF ReleaseDetached
  <1> HIDE DEF l
  <1>6. l \in {loc[t], [loc[t] EXCEPT !.gone = 0, !.goneRaw = NoRaw]}
    BY DEF l
  <1> QED BY <1>2, <1>4, <1>5, <1>6, CollectedKeeps

-----------------------------------------------------------------------------
(* resolve, finish and the drops that change no standing *)

LEMMA LearnKeeps ==
    ASSUME Inv, NEW t \in Thread, Learn(t)
    PROVE  Inv'
  <1> DEFINE k == loc[t].key
  <1>1. loc[t] \in Local /\ Place(pc[t], loc[t]) /\ pc[t] = "resolve" /\ loc[t].prep = "ready"
    BY DEF Inv, TypedInv, Placed, Learn, Resolving
  <1>2. k \in Key
    BY <1>1 DEF Local, Place, Aim, Trims
  <1>3. Steps(t, "overrun", loc[t])
    BY DEF Steps, Learn, Goto, Inv, TypedInv
  <1>4. Max({rows[k].learned, Observed(k)}) \in Nat
    <2>1. rows[k].learned \in Nat /\ Observed(k) \in Nat
      BY <1>2, ResidencyAssumption DEF Inv, TypedInv, RowT, Observed
    <2>2. \E x \in {rows[k].learned, Observed(k)} : \A y \in {rows[k].learned, Observed(k)} : x >= y
      BY <2>1
    <2>3. Max({rows[k].learned, Observed(k)}) \in {rows[k].learned, Observed(k)}
      BY <2>2 DEF Max
    <2> QED BY <2>1, <2>3
  <1>5. SameRows
    <2> DEFINE m == Max({rows[k].learned, Observed(k)})
               r == [rows[k] EXCEPT !.learned = m, !.forced = TRUE]
    <2>1. rows \in [Key -> RowT]
      BY DEF Inv, TypedInv
    <2>2. rows' = [rows EXCEPT ![k] = r]
      BY <1>2, <2>1 DEF Learn, RowT
    <2> HIDE DEF m
    <2>3. /\ r \in RowT
          /\ r.calls = rows[k].calls /\ r.pins = rows[k].pins /\ r.refs = rows[k].refs
          /\ r.wave = rows[k].wave /\ r.present = rows[k].present
      BY <1>2, <1>4, <2>1, ZenonT(30) DEF RowT, m
    <2> HIDE DEF r
    <2> QED BY <1>2, <2>1, <2>2, <2>3 DEF SameRows
  <1>6. SameTables
    BY <1>5 DEF SameTables, SamePermits, SamePhases, Learn, hostVars, clientVars, Inv, TypedInv
  <1>7. "overrun" \in Point
    BY DEF Point
  <1>8. Place("overrun", loc[t])
    BY <1>1 DEF Place, Aim, Trims, Calling
  <1>9. Alike(t, "overrun", loc[t])
    BY <1>1 DEF Place, Aim, Trims, Calling, Alike, CallsAt, InCall, RefersAt, Refers, UnpinsAt, Ends
  <1> HIDE DEF k
  <1> QED BY <1>1, <1>3, <1>6, <1>7, <1>8, <1>9, Quiet

LEMMA FailSnapshotKeeps ==
    ASSUME Inv, NEW t \in Thread, FailSnapshot(t)
    PROVE  Inv'
  <1> DEFINE l == [loc[t] EXCEPT !.snap = slot[loc[t].key].phase]
  <1>1. /\ loc[t] \in Local /\ Place(pc[t], loc[t])
        /\ pc[t] = "resolve" /\ loc[t].prep = "failed"
    BY DEF Inv, TypedInv, Placed, FailSnapshot, Resolving
  <1>2. Steps(t, "raw", l)
    BY DEF Steps, FailSnapshot, Goto
  <1>3. SameTables
    BY Untouched DEF FailSnapshot, ledgerVars, hostVars, clientVars
  <1>4. slot[loc[t].key].phase \in {"Cold", "Loading", "Hot"}
    BY <1>1 DEF Local, Place, Aim, Trims, Inv, TypedInv, Slot
  <1>5. "raw" \in Point /\ l \in Local
    BY <1>1, <1>4 DEF Point, Local
  <1>6. Place("raw", l)
    BY <1>1 DEF Place, Local, Aim, Trims, Calling
  <1>7. Alike(t, "raw", l)
    BY <1>1 DEF Place, Local, Aim, Trims, Calling, Alike, CallsAt, InCall, RefersAt, Refers,
                UnpinsAt, Ends
  <1> HIDE DEF l
  <1> QED BY <1>2, <1>3, <1>5, <1>6, <1>7, Quiet

LEMMA FailRawKeeps ==
    ASSUME Inv, NEW t \in Thread, FailRaw(t)
    PROVE  Inv'
  <1> DEFINE k == loc[t].key
             l == [loc[t] EXCEPT !.raw = slot[k].raw]
  <1>1. loc[t] \in Local /\ Place(pc[t], loc[t]) /\ pc[t] = "raw"
    BY DEF Inv, TypedInv, Placed, FailRaw
  <1>2. k \in Key
    BY <1>1 DEF Local, Place, Aim, Trims
  <1>3. Steps(t, "fail", l)
    BY DEF Steps, FailRaw, Goto
  <1>4. SamePhases
    BY <1>2 DEF SamePhases, FailRaw, Inv, TypedInv, Slot
  <1>5. SameTables
    BY <1>4 DEF SameTables, SameRows, SamePermits, FailRaw, ledgerVars, hostVars, clientVars,
                Inv, TypedInv
  <1>6. slot[k].raw \in RawId \cup {NoRaw}
    BY <1>2 DEF Inv, TypedInv, Slot
  <1>7. "fail" \in Point /\ l \in Local
    BY <1>1, <1>6 DEF Point, Local
  <1>8. Place("fail", l)
    BY <1>1 DEF Place, Local, Aim, Trims, Calling
  <1>9. Alike(t, "fail", l)
    BY <1>1 DEF Place, Local, Aim, Trims, Calling, Alike, CallsAt, InCall, RefersAt, Refers,
                UnpinsAt, Ends
  <1> HIDE DEF l
  <1> QED BY <1>3, <1>5, <1>7, <1>8, <1>9, Quiet

-----------------------------------------------------------------------------
(* catalog.rs admit *)

LEMMA AgainKeeps ==
    ASSUME Inv, NEW t \in Thread, pc[t] = "answer", NEW m \in Local, m.key = loc[t].key, Again(t, m)
    PROVE  Inv'
  <1> DEFINE n == [m EXCEPT !.again = FALSE]
             l == Attempt(n)
  <1>1. loc[t] \in Local /\ Place(pc[t], loc[t])
    BY DEF Inv, TypedInv, Placed
  <1>2. Steps(t, "begin", l)
    BY DEF Steps, Again, Goto
  <1>3. SameTables
    BY Untouched DEF Again, ledgerVars, hostVars, clientVars
  <1>4. n \in Local /\ n.key = m.key
    <2>1. m \in Local
      OBVIOUS
    <2>2. n \in Local
      BY <2>1 DEF Local
    <2>3. n.key = m.key
      BY <2>1 DEF Local
    <2> QED BY <2>2, <2>3
  <1>5. "begin" \in Point /\ l \in Local
    BY <1>4, AttemptTyped DEF Point
  <1>6. Place("begin", l)
    BY <1>1, <1>4 DEF Place, Local, Aim, Trims, Calling, Attempt, NoCall
  <1>7. Alike(t, "begin", l)
    BY <1>1, <1>4 DEF Place, Local, Aim, Trims, Calling, Alike, CallsAt, InCall, RefersAt, Refers,
                UnpinsAt, Ends, Attempt, NoCall
  <1> HIDE DEF l
  <1> QED BY <1>2, <1>3, <1>5, <1>6, <1>7, Quiet

LEMMA LeaseKeeps ==
    ASSUME Inv, NEW t \in Thread, LeaseStep(t)
    PROVE  Inv'
  <1>1. loc[t] \in Local /\ Place(pc[t], loc[t]) /\ pc[t] = "answer"
    BY DEF Inv, TypedInv, Placed, LeaseStep, Poll, Unpause, RetryPause, Leave, Answered
  <1>2. CASE Poll(t)
    <2> DEFINE m == [loc[t] EXCEPT !.patience = "running"]
    <2>1. m \in Local /\ m.key = loc[t].key
      BY <1>1 DEF Local
    <2> QED BY <1>1, <1>2, <2>1, AgainKeeps DEF Poll
  <1>3. CASE Unpause(t)
    <2> DEFINE m == [loc[t] EXCEPT !.unpaused = TRUE]
    <2>1. m \in Local /\ m.key = loc[t].key
      BY <1>1, ZenonT(30) DEF Local
    <2> QED BY <1>1, <1>3, <2>1, AgainKeeps DEF Unpause
  <1>4. CASE RetryPause(t)
    <2> DEFINE m == [loc[t] EXCEPT !.tries = loc[t].tries + 1]
    <2>1. loc[t].tries + 1 \in 0..MaxTries
      BY <1>1, <1>4, BoundsAssumption DEF RetryPause, Local
    <2>2. m \in Local /\ m.key = loc[t].key
      BY <1>1, <2>1 DEF Local
    <2> QED BY <1>1, <1>4, <2>2, AgainKeeps DEF RetryPause
  <1>5. CASE Leave(t)
    <2>1. SameTables
      BY <1>5, Untouched DEF Leave, ledgerVars, hostVars, clientVars
    <2>2. loc[t].spare = NoPermit
      BY <1>1 DEF Place
    <2> QED BY <1>1, <1>5, <2>1, <2>2, RestKeeps DEF Leave, Aim, Trims
  <1> QED BY <1>2, <1>3, <1>4, <1>5 DEF LeaseStep

LEMMA PatienceEndsKeeps ==
    ASSUME Inv, NEW t \in Thread, PatienceEnds(t)
    PROVE  Inv'
  <1> DEFINE l == [loc[t] EXCEPT !.patience = "over"]
  <1>1. loc[t] \in Local /\ Place(pc[t], loc[t]) /\ pc[t] \in Point
    BY DEF Inv, TypedInv, Placed
  <1>2. Steps(t, pc[t], l)
    BY DEF Steps, PatienceEnds, Inv, TypedInv
  <1>3. SameTables
    BY Untouched DEF PatienceEnds, ledgerVars, hostVars, clientVars
  <1>4. l \in Local
    BY <1>1 DEF Local
  <1>5. loc[t] # NoCall
    BY DEF PatienceEnds, NoCall
  <1>6. Place(pc[t], l)
    BY <1>1, <1>5 DEF Place, Local, Aim, Trims, Calling
  <1>7. Alike(t, pc[t], l)
    BY <1>1 DEF Local, Aim, Trims, Calling, Alike, CallsAt, InCall, RefersAt, Refers,
                UnpinsAt, Ends, Place
  <1> HIDE DEF l
  <1> QED BY <1>1, <1>2, <1>3, <1>4, <1>6, <1>7, Quiet

-----------------------------------------------------------------------------
(* Steps that change a standing *)

CallsShift(t, p, l, k) ==
    rows'[k].calls - rows[k].calls = Weight(CallsAt(p, l, k)) - Weight(CallsAt(pc[t], loc[t], k))
PinsShift(t, p, l, k) ==
    rows'[k].pins - rows[k].pins =
        Weight(k \in held'[t]) - Weight(k \in held[t])
      + Weight(UnpinsAt(p, l, k)) - Weight(UnpinsAt(pc[t], loc[t], k))
RefsShift(t, p, l, k) ==
    rows'[k].refs - rows[k].refs =
        Weight(RefersAt(p, l, k)) - Weight(RefersAt(pc[t], loc[t], k))
      + Weight(k \in held'[t]) - Weight(k \in held[t])
      + Weight(k \in generation') - Weight(k \in generation)
PermitShift(t, l, q) ==
    permits'[q].refs - permits[q].refs =
        Weight(l.spare = q) - Weight(loc[t].spare = q)
      + Weight(l.res = q) - Weight(loc[t].res = q)

TypedTables ==
    /\ rows' \in [Key -> RowT] /\ permits' \in [PermitId -> PermitT]
    /\ canon' \in [Key -> RawId \cup {NoRaw}] /\ slot' \in [Key -> Slot]
    /\ held' \in [Thread -> SUBSET Key]

(* The reservations that stay live stay with their version.                *)
MembersStay ==
    \A q \in PermitId : permits[q].refs # 0 /\ permits'[q].refs # 0
                          => permits'[q].member = permits[q].member

LEMMA ShiftsCount ==
    ASSUME Inv, NEW t \in Thread, NEW p \in Point, NEW l \in Local, Steps(t, p, l), TypedTables,
           \A u \in Thread \ {t} : held'[u] = held[u],
           \A k \in Key : CallsShift(t, p, l, k) /\ PinsShift(t, p, l, k) /\ RefsShift(t, p, l, k),
           \A q \in PermitId : PermitShift(t, l, q)
    PROVE  LeasesCounted' /\ RefsCounted'
  <1>1. Others(t)
    BY TypedStep, OthersStay DEF Inv
  <1>2. pc'[t] = p /\ loc'[t] = l
    BY TypedStep DEF Inv
  <1>3. ASSUME NEW k \in Key
        PROVE  CallsBalance(t, k) /\ PinsBalance(t, k) /\ RefsBalance(t, k)
    <2>1. /\ InCall(t, k)' <=> CallsAt(p, l, k)
          /\ Refers(t, k)' <=> RefersAt(p, l, k)
          /\ InCall(t, k) <=> CallsAt(pc[t], loc[t], k)
          /\ Refers(t, k) <=> RefersAt(pc[t], loc[t], k)
      BY <1>2 DEF InCall, CallsAt, Calling, Refers
    <2>w. /\ Weight(InCall(t, k)') = Weight(CallsAt(p, l, k))
          /\ Weight(Refers(t, k)') = Weight(RefersAt(p, l, k))
          /\ Weight(InCall(t, k)) = Weight(CallsAt(pc[t], loc[t], k))
          /\ Weight(Refers(t, k)) = Weight(RefersAt(pc[t], loc[t], k))
      BY <2>1 DEF Weight
    <2>2. CallsBalance(t, k)
      BY <2>w DEF CallsBalance, CallsShift
    <2>3. PinsBalance(t, k)
      BY <1>2 DEF PinsBalance, PinsShift
    <2>4. RefsBalance(t, k)
      BY <2>w DEF RefsBalance, RefsShift
    <2> QED BY <2>2, <2>3, <2>4
  <1>4. \A q \in PermitId : PermitBalances(t, q)
    BY <1>2 DEF PermitBalances, PermitShift
  <1> QED BY <1>1, <1>3, <1>4, Balanced DEF Inv, TypedInv, TypedTables

LEMMA NamedAfter ==
    ASSUME LeasesCounted', NEW q \in PermitId, permits' \in [PermitId -> PermitT],
           NEW u \in Thread, loc'[u].spare = q \/ loc'[u].res = q
    PROVE  permits'[q].refs # 0
  <1>1. permits'[q].refs = Cardinality(Sparing(q)') + Cardinality(Reserving(q)')
    BY DEF LeasesCounted, Sparing, Reserving
  <1>2. Cardinality(Sparing(q)') \in Nat /\ (Cardinality(Sparing(q)') = 0 <=> Sparing(q)' = {})
    BY CountZero DEF Sparing
  <1>3. Cardinality(Reserving(q)') \in Nat /\ (Cardinality(Reserving(q)') = 0 <=> Reserving(q)' = {})
    BY CountZero DEF Reserving
  <1> QED BY <1>1, <1>2, <1>3 DEF Sparing, Reserving

LEMMA Moves ==
    ASSUME Inv, NEW t \in Thread, NEW p \in Point, NEW l \in Local, Steps(t, p, l), Place(p, l),
           TypedTables, \A u \in Thread \ {t} : held'[u] = held[u],
           \A k \in Key : CallsShift(t, p, l, k) /\ PinsShift(t, p, l, k) /\ RefsShift(t, p, l, k),
           \A q \in PermitId : PermitShift(t, l, q),
           \A u \in Thread \ {t} : loc[u].key \in generation => loc[u].key \in generation',
           MembersStay, Referenced', Entitled(t)', Belongs(t)', WaveLive', Flown', Used'
    PROVE  Inv'
  <1>1. /\ pc' \in [Thread -> Point] /\ loc' \in [Thread -> Local]
        /\ pc'[t] = p /\ loc'[t] = l
        /\ \A u \in Thread \ {t} : pc'[u] = pc[u] /\ loc'[u] = loc[u]
    BY TypedStep DEF Inv
  <1>2. TypedInv'
    BY <1>1 DEF TypedInv, TypedTables
  <1>3. Placed'
    BY <1>1 DEF Inv, Placed
  <1>4. LeasesCounted' /\ RefsCounted'
    BY ShiftsCount
  <1>5. ASSUME NEW u \in Thread
        PROVE  Entitled(u)'
    <2>1. CASE u # t
      BY <1>1, <2>1 DEF Entitled, Inv
    <2> QED BY <2>1
  <1>6. ASSUME NEW u \in Thread
        PROVE  Belongs(u)'
    <2>1. CASE u # t
      <3>1. loc'[u] = loc[u] /\ loc[u] \in Local /\ Belongs(u)
        BY <1>1, <2>1 DEF Inv, TypedInv
      <3>2. ASSUME NEW q \in PermitId, loc[u].spare = q \/ loc[u].res = q
            PROVE  permits'[q].member = permits[q].member
        <4>1. permits[q].refs # 0
          BY <3>2, NamedLive DEF Inv, TypedInv
        <4>5. permits'[q].refs # 0
          BY <1>4, <3>1, <3>2, NamedAfter DEF TypedTables
        <4> QED BY <4>1, <4>5 DEF MembersStay
      <3>3. loc[u].spare \in PermitId \cup {NoPermit} /\ loc[u].res \in PermitId \cup {NoPermit}
        BY <3>1 DEF Local
      <3> QED BY <3>1, <3>2, <3>3 DEF Belongs
    <2> QED BY <2>1
  <1> QED BY <1>2, <1>3, <1>4, <1>5, <1>6 DEF Inv

(* Flights and bodies in use, while no slot changes its phase.             *)
LEMMA FlightsStay ==
    ASSUME Inv, NEW t \in Thread, NEW p \in Point, NEW l \in Local, Steps(t, p, l), SamePhases,
           l.prep \in {"load", "wait"} \/ loc[t].prep \in {"load", "wait"}
             => l.prep = loc[t].prep /\ l.key = loc[t].key
    PROVE  Flown'
  <1>1. /\ pc'[t] = p /\ loc'[t] = l
        /\ \A u \in Thread \ {t} : pc'[u] = pc[u] /\ loc'[u] = loc[u]
    BY TypedStep DEF Inv
  <1> QED BY <1>1 DEF Flown, Loads, Inv, SamePhases

LEMMA BodiesStay ==
    ASSUME Inv, NEW t \in Thread, NEW p \in Point, NEW l \in Local, Steps(t, p, l), SamePhases,
           \A u \in Thread \ {t} : held'[u] = held[u],
           \A k \in Key : k \in held'[t] \/ (l.key = k /\ l.hasBody) => UsesBody(t, k)
    PROVE  Used'
  <1>1. /\ pc'[t] = p /\ loc'[t] = l
        /\ \A u \in Thread \ {t} : pc'[u] = pc[u] /\ loc'[u] = loc[u]
    BY TypedStep DEF Inv
  <1>2. ASSUME NEW u \in Thread, NEW k \in Key
        PROVE  UsesBody(u, k)' => UsesBody(u, k)
    <2>1. CASE u = t
      BY <1>1, <2>1 DEF UsesBody
    <2>2. CASE u # t
      BY <1>1, <2>2 DEF UsesBody
    <2> QED BY <2>1, <2>2
  <1> QED BY <1>2 DEF Used, Inv, SamePhases

(* The locals of a thread that starts a trim.                              *)
LEMMA TrimmingFields ==
    ASSUME NEW m \in Local, NEW a \in Point
    PROVE  /\ Trimming(m, a) \in Local
           /\ Trimming(m, a).mode = "trim" /\ Trimming(m, a).after = a
           /\ Trimming(m, a).key = m.key /\ Trimming(m, a).prep = m.prep
           /\ Trimming(m, a).fin = m.fin /\ Trimming(m, a).hasBody = m.hasBody
           /\ Trimming(m, a).spare = m.spare /\ Trimming(m, a).res = m.res
           /\ Trimming(m, a).answer = m.answer /\ Trimming(m, a).victim = m.victim
  <1> DEFINE n == [m EXCEPT !.mode = "trim"]
             o == [n EXCEPT !.after = a]
  <1>1. n \in Local
    BY DEF Local
  <1> HIDE DEF n
  <1>2. o \in Local
    BY <1>1 DEF Local
  <1>3. Trimming(m, a) = o
    BY DEF Trimming, n, o
  <1>4. /\ o.mode = "trim" /\ o.after = a /\ o.key = m.key /\ o.prep = m.prep /\ o.fin = m.fin
        /\ o.hasBody = m.hasBody /\ o.spare = m.spare /\ o.res = m.res
        /\ o.answer = m.answer /\ o.victim = m.victim
    BY DEF Local, n, o
  <1> HIDE DEF o
  <1> QED BY <1>2, <1>3, <1>4

LEMMA DropBodyKeeps ==
    ASSUME Inv, NEW t \in Thread, DropBody(t)
    PROVE  Inv'
  <1> DEFINE m == [loc[t] EXCEPT !.hasBody = FALSE]
             l == Trimming(m, "call")
  <1>1. loc[t] \in Local /\ Place(pc[t], loc[t]) /\ pc[t] = "body"
    BY DEF Inv, TypedInv, Placed, DropBody
  <1>2. Steps(t, "select", l)
    BY DEF Steps, DropBody, Goto
  <1>3. SameTables
    BY Untouched DEF DropBody, ledgerVars, hostVars, clientVars
  <1>4. m \in Local /\ "select" \in Point /\ "call" \in Point
    <2>1. m \in Local
      BY <1>1 DEF Local
    <2> QED BY <2>1 DEF Point
  <1>5. /\ l \in Local /\ l.mode = "trim" /\ l.after = "call" /\ l.key = m.key
        /\ l.prep = m.prep /\ l.fin = m.fin /\ l.hasBody = m.hasBody
        /\ l.spare = m.spare /\ l.res = m.res /\ l.answer = m.answer
    BY <1>4, TrimmingFields
  <1>6. /\ m.key = loc[t].key /\ m.prep = loc[t].prep /\ m.fin = loc[t].fin
        /\ m.hasBody = FALSE /\ m.spare = loc[t].spare /\ m.res = loc[t].res
        /\ m.answer = loc[t].answer
    BY <1>1 DEF Local
  <1> HIDE DEF l, m
  <1>7. Place("select", l)
    BY <1>1, <1>5, <1>6 DEF Place, Aim, Trims, Calling
  <1>8. Alike(t, "select", l)
    BY <1>1, <1>5, <1>6 DEF Place, Aim, Trims, Calling, Alike, CallsAt, InCall, RefersAt, Refers,
                UnpinsAt, Ends
  <1> QED BY <1>2, <1>3, <1>4, <1>5, <1>7, <1>8, Quiet

-----------------------------------------------------------------------------
(* Reservations that end *)

(* Reservation::drop by a thread that names q: what it does to the tables. *)
LEMMA Released ==
    ASSUME Inv, NEW q \in PermitId, ReleasePermit(q)
    PROVE  /\ rows' \in [Key -> RowT] /\ permits' \in [PermitId -> PermitT]
           /\ \A k \in Key : /\ rows'[k].calls = rows[k].calls /\ rows'[k].pins = rows[k].pins
                             /\ rows'[k].refs = rows[k].refs
                             /\ rows'[k].present = rows[k].present
           /\ permits'[q].refs = permits[q].refs - 1
           /\ \A r \in PermitId \ {q} : permits'[r] = permits[r]
           /\ MembersStay /\ WaveLive'
  <1> DEFINE last == permits[q].refs = 1
             m == permits[q].member
             clears == last /\ m # NoKey /\ rows[m].wave = q
  <1>1. /\ permits' = IF last THEN [permits EXCEPT ![q] = Unissued]
                      ELSE [permits EXCEPT ![q].refs = @ - 1]
        /\ rows' = IF clears THEN [rows EXCEPT ![m].wave = NoPermit] ELSE rows
        /\ q \in Live
    BY DEF ReleasePermit
  <1>2. rows \in [Key -> RowT] /\ permits \in [PermitId -> PermitT] /\ permits[q] \in PermitT
    BY DEF Inv, TypedInv
  <1>3. permits[q].refs \in Int /\ m \in Key \cup {NoKey}
    BY <1>2 DEF PermitT
  <1>4. permits' \in [PermitId -> PermitT]
    <2>1. Unissued \in PermitT
      BY DEF Unissued, PermitT
    <2>2. [permits[q] EXCEPT !.refs = permits[q].refs - 1] \in PermitT
      BY <1>2, <1>3 DEF PermitT
    <2>3. CASE last
      BY <1>1, <1>2, <2>1, <2>3
    <2>4. CASE ~last
      <3>1. permits' = [permits EXCEPT ![q] = [permits[q] EXCEPT !.refs = permits[q].refs - 1]]
        BY <1>1, <2>4
      <3> QED BY <1>2, <2>2, <3>1
    <2> QED BY <2>3, <2>4
  <1>5. permits'[q].refs = permits[q].refs - 1 /\ (~last => permits'[q].member = m)
    BY <1>1, <1>2, <1>3 DEF Unissued, PermitT
  <1>6. \A r \in PermitId \ {q} : permits'[r] = permits[r]
    BY <1>1, <1>2
  <1>7. MembersStay
    BY <1>5, <1>6, <1>3 DEF MembersStay
  <1>8. rows' \in [Key -> RowT]
    BY <1>1, <1>2, ZenonT(30) DEF RowT
  <1>9. ASSUME NEW k \in Key
        PROVE  /\ rows'[k].calls = rows[k].calls /\ rows'[k].pins = rows[k].pins
               /\ rows'[k].refs = rows[k].refs /\ rows'[k].present = rows[k].present
               /\ rows'[k].wave = IF clears /\ k = m THEN NoPermit ELSE rows[k].wave
    BY <1>1, <1>2 DEF RowT
  <1>10. WaveLive'
    <2>1. ASSUME NEW k \in Key, rows'[k].wave # NoPermit
          PROVE  rows'[k].wave \in Live' /\ permits'[rows'[k].wave].member = k
      <3> DEFINE w == rows[k].wave
      <3>1. rows'[k].wave = w /\ w # NoPermit
        BY <1>9, <2>1
      <3>2. w \in PermitId /\ permits[w].refs # 0 /\ permits[w].member = k
        BY <3>1 DEF Inv, WaveLive, Live
      <3>3. CASE w = q
        <4>1. k # NoKey /\ m = k
          BY <3>2, <3>3, ResidencyAssumption
        <4>2. ~last
          BY <1>9, <3>1, <3>3, <4>1, <2>1
        <4>3. permits'[q].refs # 0 /\ permits'[q].member = k
          BY <1>3, <1>5, <4>1, <4>2
        <4> QED BY <3>1, <3>3, <4>3 DEF Live
      <3>4. CASE w # q
        BY <1>6, <3>1, <3>2, <3>4 DEF Live
      <3> QED BY <3>3, <3>4
    <2> QED BY <2>1 DEF WaveLive
  <1> HIDE DEF last, m, clears
  <1> QED BY <1>4, <1>5, <1>6, <1>7, <1>8, <1>9, <1>10

(* A step in which t gives one reservation back and starts a trim.         *)
LEMMA ReleaseKeeps ==
    ASSUME Inv, NEW t \in Thread, NEW p \in Point, NEW l \in Local, Steps(t, p, l), Place(p, l),
           NEW q \in PermitId, ReleasePermit(q), UNCHANGED <<canon, slot, held, generation>>,
           loc[t].spare = q \/ loc[t].res = q,
           \A r \in PermitId \cup {NoPermit} :
               r # NoPermit => Weight(l.spare = r) + Weight(l.res = r)
                               = Weight(loc[t].spare = r) + Weight(loc[t].res = r)
                                 - Weight(r = q),
           l.spare \in {loc[t].spare, NoPermit}, l.res \in {loc[t].res, NoPermit},
           l.key = loc[t].key, l.prep = loc[t].prep, l.hasBody = loc[t].hasBody,
           Ends(pc[t], loc[t]) => Ends(p, l),
           \A k \in Key : /\ CallsAt(p, l, k) <=> CallsAt(pc[t], loc[t], k)
                          /\ RefersAt(p, l, k) <=> RefersAt(pc[t], loc[t], k)
                          /\ UnpinsAt(p, l, k) <=> UnpinsAt(pc[t], loc[t], k)
    PROVE  Inv'
  <1>1. /\ rows' \in [Key -> RowT] /\ permits' \in [PermitId -> PermitT]
        /\ \A k \in Key : /\ rows'[k].calls = rows[k].calls /\ rows'[k].pins = rows[k].pins
                          /\ rows'[k].refs = rows[k].refs
                          /\ rows'[k].present = rows[k].present
        /\ permits'[q].refs = permits[q].refs - 1
        /\ \A r \in PermitId \ {q} : permits'[r] = permits[r]
        /\ MembersStay /\ WaveLive'
    BY Released
  <1>2. pc'[t] = p /\ loc'[t] = l
    BY TypedStep DEF Inv
  <1>3. loc[t] \in Local /\ Belongs(t) /\ Entitled(t)
    BY DEF Inv, TypedInv
  <1>4. TypedTables /\ SamePhases
    BY <1>1 DEF TypedTables, SamePhases, Inv, TypedInv
  <1>5. ASSUME NEW k \in Key
        PROVE  CallsShift(t, p, l, k) /\ PinsShift(t, p, l, k) /\ RefsShift(t, p, l, k)
    <2>1. /\ rows[k].calls \in Int /\ rows'[k].calls = rows[k].calls
          /\ rows[k].pins \in Int /\ rows'[k].pins = rows[k].pins
          /\ rows[k].refs \in Int /\ rows'[k].refs = rows[k].refs
      BY <1>1 DEF Inv, TypedInv, RowT
    <2>2. /\ Weight(CallsAt(p, l, k)) = Weight(CallsAt(pc[t], loc[t], k))
          /\ Weight(RefersAt(p, l, k)) = Weight(RefersAt(pc[t], loc[t], k))
          /\ Weight(UnpinsAt(p, l, k)) = Weight(UnpinsAt(pc[t], loc[t], k))
      BY DEF Weight
    <2>3. CallsShift(t, p, l, k)
      BY <2>1, <2>2 DEF CallsShift, Weight
    <2>4. PinsShift(t, p, l, k)
      BY <2>1, <2>2 DEF PinsShift, Weight
    <2>5. RefsShift(t, p, l, k)
      BY <2>1, <2>2 DEF RefsShift, Weight
    <2> QED BY <2>3, <2>4, <2>5
  <1>6. ASSUME NEW r \in PermitId
        PROVE  PermitShift(t, l, r)
    <2>1. permits[r].refs \in Int /\ permits'[r].refs = permits[r].refs - Weight(r = q)
      BY <1>1 DEF Inv, TypedInv, PermitT, Weight
    <2>2. Weight(l.spare = r) + Weight(l.res = r)
            = Weight(loc[t].spare = r) + Weight(loc[t].res = r) - Weight(r = q)
      BY ResidencyAssumption
    <2> QED BY <2>1, <2>2 DEF PermitShift, Weight
  <1>7. Referenced'
    BY <1>1 DEF Referenced, Inv
  <1>8. Entitled(t)'
    BY <1>2, <1>3 DEF Entitled
  <1>9. LeasesCounted'
    BY <1>4, <1>5, <1>6, ShiftsCount
  <1>10. Belongs(t)'
    <2>1. ASSUME NEW r \in PermitId, l.spare = r \/ l.res = r
          PROVE  permits'[r].member = permits[r].member
      <3>1. permits'[r].refs # 0
        BY <1>1, <1>2, <1>9, <2>1, NamedAfter
      <3>2. permits[r].refs # 0
        BY <2>1, NamedLive, ResidencyAssumption DEF Inv, TypedInv
      <3> QED BY <1>1, <3>1, <3>2 DEF MembersStay
    <2>2. l.spare \in PermitId \cup {NoPermit} /\ l.res \in PermitId \cup {NoPermit}
      BY DEF Local
    <2> QED BY <1>2, <1>3, <2>1, <2>2 DEF Belongs
  <1>11. Flown'
    BY <1>4, FlightsStay
  <1>12. Used'
    BY <1>4, BodiesStay DEF UsesBody
  <1> QED BY <1>1, <1>4, <1>5, <1>6, <1>7, <1>8, <1>10, <1>11, <1>12, Moves

LEMMA DropSpareKeeps ==
    ASSUME Inv, NEW t \in Thread, DropSpare(t)
    PROVE  Inv'
  <1> DEFINE m == [loc[t] EXCEPT !.spare = NoPermit]
             a == IF loc[t].prep # "none" THEN "resolve"
                  ELSE IF loc[t].answer # "none" THEN "answer" ELSE "begin"
             l == Trimming(m, a)
             q == loc[t].spare
  <1>1. loc[t] \in Local /\ Place(pc[t], loc[t]) /\ pc[t] = "spare"
    BY DEF Inv, TypedInv, Placed, DropSpare
  <1>2. Steps(t, "select", l)
    BY DEF Steps, DropSpare, Goto
  <1>3. m \in Local
    BY <1>1 DEF Local
  <1>4. a \in Point /\ "select" \in Point
    BY DEF Point
  <1> HIDE DEF a
  <1>5. /\ l \in Local /\ l.mode = "trim" /\ l.after = a /\ l.key = m.key
        /\ l.prep = m.prep /\ l.fin = m.fin /\ l.hasBody = m.hasBody
        /\ l.spare = m.spare /\ l.res = m.res /\ l.answer = m.answer
    BY <1>3, <1>4, TrimmingFields
  <1>6. /\ m.key = loc[t].key /\ m.prep = loc[t].prep /\ m.fin = loc[t].fin
        /\ m.hasBody = loc[t].hasBody /\ m.spare = NoPermit /\ m.res = loc[t].res
        /\ m.answer = loc[t].answer
    BY <1>1 DEF Local
  <1>7. q \in PermitId /\ ReleasePermit(q)
    BY <1>1 DEF Local, Place, DropSpare
  <1>8. UNCHANGED <<canon, slot, held, generation>>
    BY DEF DropSpare, hostVars, clientVars
  <1> HIDE DEF l, m
  <1>9. Place("select", l)
    BY <1>1, <1>5, <1>6 DEF Place, Aim, Trims, Calling, a
  <1>10. \A k \in Key : /\ CallsAt("select", l, k) <=> CallsAt(pc[t], loc[t], k)
                        /\ RefersAt("select", l, k) <=> RefersAt(pc[t], loc[t], k)
                        /\ UnpinsAt("select", l, k) <=> UnpinsAt(pc[t], loc[t], k)
    BY <1>1, <1>5, <1>6 DEF Place, CallsAt, RefersAt, UnpinsAt, Calling, Aim, Trims, a
  <1>11. ~Ends(pc[t], loc[t])
    BY <1>1 DEF Ends, Trims
  <1>12. ASSUME NEW r, r # NoPermit
         PROVE  Weight(l.spare = r) + Weight(l.res = r)
                  = Weight(loc[t].spare = r) + Weight(loc[t].res = r) - Weight(r = q)
    BY <1>5, <1>6, <1>12 DEF Weight
  <1> HIDE DEF q
  <1>13. loc[t].spare = q
    BY DEF q
  <1> QED BY <1>2, <1>4, <1>5, <1>6, <1>7, <1>8, <1>9, <1>10, <1>11, <1>12, <1>13, ReleaseKeeps

LEMMA DropHoldingKeeps ==
    ASSUME Inv, NEW t \in Thread, DropHolding(t)
    PROVE  Inv'
  <1> DEFINE m == [loc[t] EXCEPT !.res = NoPermit]
             l == Trimming(m, "idle")
             q == loc[t].res
  <1>1. loc[t] \in Local /\ Place(pc[t], loc[t]) /\ pc[t] = "holding"
    BY DEF Inv, TypedInv, Placed, DropHolding
  <1>2. Steps(t, "select", l)
    BY DEF Steps, DropHolding, Goto
  <1>3. m \in Local
    BY <1>1 DEF Local
  <1>4. "idle" \in Point /\ "select" \in Point
    BY DEF Point
  <1>5. /\ l \in Local /\ l.mode = "trim" /\ l.after = "idle" /\ l.key = m.key
        /\ l.prep = m.prep /\ l.fin = m.fin /\ l.hasBody = m.hasBody
        /\ l.spare = m.spare /\ l.res = m.res /\ l.answer = m.answer
    BY <1>3, <1>4, TrimmingFields
  <1>6. /\ m.key = loc[t].key /\ m.prep = loc[t].prep /\ m.fin = loc[t].fin
        /\ m.hasBody = loc[t].hasBody /\ m.spare = loc[t].spare /\ m.res = NoPermit
        /\ m.answer = loc[t].answer
    BY <1>1 DEF Local
  <1>7. q \in PermitId /\ ReleasePermit(q)
    BY <1>1 DEF Local, Place, DropHolding, Aim, Trims
  <1>8. UNCHANGED <<canon, slot, held, generation>>
    BY DEF DropHolding, hostVars, clientVars
  <1> HIDE DEF l, m
  <1>9. Place("select", l)
    BY <1>1, <1>5, <1>6 DEF Place, Aim, Trims, Calling
  <1>10. \A k \in Key : /\ CallsAt("select", l, k) <=> CallsAt(pc[t], loc[t], k)
                        /\ RefersAt("select", l, k) <=> RefersAt(pc[t], loc[t], k)
                        /\ UnpinsAt("select", l, k) <=> UnpinsAt(pc[t], loc[t], k)
    BY <1>1, <1>5, <1>6 DEF Place, CallsAt, RefersAt, UnpinsAt, Calling, Aim, Trims
  <1>11. ~Ends(pc[t], loc[t])
    BY <1>1 DEF Ends, Trims
  <1>12. ASSUME NEW r, r # NoPermit
         PROVE  Weight(l.spare = r) + Weight(l.res = r)
                  = Weight(loc[t].spare = r) + Weight(loc[t].res = r) - Weight(r = q)
    BY <1>5, <1>6, <1>12 DEF Weight
  <1> HIDE DEF q
  <1>13. loc[t].res = q
    BY DEF q
  <1> QED BY <1>2, <1>4, <1>5, <1>6, <1>7, <1>8, <1>9, <1>10, <1>11, <1>12, <1>13, ReleaseKeeps

LEMMA DropCallKeeps ==
    ASSUME Inv, NEW t \in Thread, DropCall(t)
    PROVE  Inv'
  <1> DEFINE keeps == loc[t].fin = "holding" \/ loc[t].res = NoPermit
             m == IF keeps THEN loc[t] ELSE [loc[t] EXCEPT !.res = NoPermit]
             l == Trimming(m, "member")
             q == loc[t].res
  <1>1. loc[t] \in Local /\ Place(pc[t], loc[t]) /\ pc[t] = "call"
    BY DEF Inv, TypedInv, Placed, DropCall
  <1>2. Steps(t, "select", l)
    BY DEF Steps, DropCall, Goto
  <1>3. m \in Local
    BY <1>1 DEF Local
  <1> HIDE DEF m
  <1>4. "member" \in Point /\ "select" \in Point
    BY DEF Point
  <1>5. /\ l \in Local /\ l.mode = "trim" /\ l.after = "member" /\ l.key = m.key
        /\ l.prep = m.prep /\ l.fin = m.fin /\ l.hasBody = m.hasBody
        /\ l.spare = m.spare /\ l.res = m.res /\ l.answer = m.answer
    BY <1>3, <1>4, TrimmingFields
  <1>6. /\ m.key = loc[t].key /\ m.prep = loc[t].prep /\ m.fin = loc[t].fin
        /\ m.hasBody = loc[t].hasBody /\ m.spare = loc[t].spare
        /\ m.res = (IF keeps THEN loc[t].res ELSE NoPermit)
        /\ m.answer = loc[t].answer
    BY <1>1 DEF Local, m
  <1> HIDE DEF l
  <1>7. Place("select", l)
    BY <1>1, <1>5, <1>6 DEF Place, Aim, Trims, Calling
  <1>8. \A k \in Key : /\ CallsAt("select", l, k) <=> CallsAt(pc[t], loc[t], k)
                       /\ RefersAt("select", l, k) <=> RefersAt(pc[t], loc[t], k)
                       /\ UnpinsAt("select", l, k) <=> UnpinsAt(pc[t], loc[t], k)
    BY <1>1, <1>5, <1>6 DEF Place, CallsAt, RefersAt, UnpinsAt, Calling, Aim, Trims
  <1>9. Ends(pc[t], loc[t]) <=> Ends("select", l)
    BY <1>1, <1>5, <1>6 DEF Ends, Trims, Place
  <1>10. CASE keeps
    <2>1. SameTables
      BY <1>10, Untouched DEF DropCall, hostVars, clientVars
    <2>2. Alike(t, "select", l)
      BY <1>1, <1>5, <1>6, <1>8, <1>9, <1>10, InCallAt DEF Alike, Place, Refers
    <2> QED BY <1>2, <1>4, <1>5, <1>7, <2>1, <2>2, Quiet
  <1>11. CASE ~keeps
    <2>1. q \in PermitId /\ ReleasePermit(q)
      BY <1>1, <1>11 DEF Local, DropCall
    <2>2. UNCHANGED <<canon, slot, held, generation>>
      BY DEF DropCall, hostVars, clientVars
    <2>3. ASSUME NEW r, r # NoPermit
          PROVE  Weight(l.spare = r) + Weight(l.res = r)
                   = Weight(loc[t].spare = r) + Weight(loc[t].res = r) - Weight(r = q)
      BY <1>5, <1>6, <1>11, <2>3 DEF Weight
    <2>4. l.res \in {loc[t].res, NoPermit}
      BY <1>5, <1>6, <1>11
    <2> HIDE DEF q, keeps
    <2>5. loc[t].res = q
      BY DEF q
    <2> QED BY <1>2, <1>4, <1>5, <1>6, <1>7, <1>8, <1>9, <2>1, <2>2, <2>3, <2>4, <2>5, ReleaseKeeps
  <1> QED BY <1>10, <1>11

-----------------------------------------------------------------------------
(* Members, pins and what the host retains *)

LEMMA DropMemberKeeps ==
    ASSUME Inv, NEW t \in Thread, DropMember(t)
    PROVE  Inv'
  <1> DEFINE k == loc[t].key
             m == [loc[t] EXCEPT !.victim = k]
             a == loc[t].fin
             l == Trimming(m, a)
  <1>1. loc[t] \in Local /\ Place(pc[t], loc[t]) /\ pc[t] = "member"
    BY DEF Inv, TypedInv, Placed, DropMember
  <1>2. k \in Key
    BY <1>1 DEF Local, Place, Aim, Trims
  <1>3. Steps(t, "collect", l)
    BY DEF Steps, DropMember, Goto
  <1>4. m \in Local /\ a \in Point
    BY <1>1, <1>2 DEF Local
  <1> HIDE DEF m
  <1>5. /\ l \in Local /\ l.mode = "trim" /\ l.after = a /\ l.key = m.key
        /\ l.prep = m.prep /\ l.fin = m.fin /\ l.hasBody = m.hasBody
        /\ l.spare = m.spare /\ l.res = m.res /\ l.answer = m.answer /\ l.victim = m.victim
    BY <1>4, TrimmingFields
  <1>6. /\ m.key = k /\ m.prep = loc[t].prep /\ m.fin = a /\ m.victim = k
        /\ m.hasBody = loc[t].hasBody /\ m.spare = loc[t].spare /\ m.res = loc[t].res
        /\ m.answer = loc[t].answer
    BY <1>1, <1>2 DEF Local, m
  <1> HIDE DEF l
  <1>7. Place("collect", l)
    BY <1>1, <1>2, <1>5, <1>6, ResidencyAssumption DEF Place, Aim, Trims, Calling
  <1>8. "collect" \in Point
    BY DEF Point
  <1>9. pc'[t] = "collect" /\ loc'[t] = l
    BY <1>3, <1>5, <1>8, TypedStep DEF Inv
  <1>10. UNCHANGED <<canon, permits, slot, held, generation>>
    BY DEF DropMember, hostVars, clientVars
  <1> DEFINE r == [rows[k] EXCEPT !.refs = rows[k].refs - 1]
  <1>11. /\ rows \in [Key -> RowT] /\ rows[k] \in RowT /\ rows[k].refs \in Int
         /\ rows' = [rows EXCEPT ![k] = r]
    BY <1>2 DEF DropMember, Inv, TypedInv, RowT
  <1>12. /\ r \in RowT /\ r.refs = rows[k].refs - 1 /\ r.calls = rows[k].calls
         /\ r.pins = rows[k].pins /\ r.wave = rows[k].wave /\ r.present = rows[k].present
    BY <1>11 DEF RowT
  <1> HIDE DEF r
  <1>13. /\ rows' \in [Key -> RowT] /\ rows'[k] = r
         /\ \A j \in Key \ {k} : rows'[j] = rows[j]
    BY <1>2, <1>11, <1>12
  <1>14. TypedTables /\ SamePhases
    BY <1>10, <1>13 DEF TypedTables, SamePhases, Inv, TypedInv
  <1>15. ASSUME NEW j \in Key
         PROVE  /\ CallsShift(t, "collect", l, j) /\ PinsShift(t, "collect", l, j)
                /\ RefsShift(t, "collect", l, j)
    <2>1. /\ rows[j].calls \in Int /\ rows[j].pins \in Int /\ rows[j].refs \in Int
          /\ rows'[j].calls = rows[j].calls /\ rows'[j].pins = rows[j].pins
          /\ rows'[j].refs = rows[j].refs - Weight(j = k)
      BY <1>11, <1>12, <1>13 DEF RowT, Weight
    <2>2. /\ ~CallsAt("collect", l, j) /\ ~CallsAt(pc[t], loc[t], j)
          /\ ~UnpinsAt("collect", l, j) /\ ~UnpinsAt(pc[t], loc[t], j)
          /\ ~RefersAt("collect", l, j) /\ (RefersAt(pc[t], loc[t], j) <=> j = k)
      BY <1>1, <1>5, <1>6 DEF CallsAt, UnpinsAt, RefersAt, Place, Aim, Trims, Calling
    <2>3. CallsShift(t, "collect", l, j)
      BY <2>1, <2>2 DEF CallsShift, Weight
    <2>4. PinsShift(t, "collect", l, j)
      BY <1>10, <2>1, <2>2 DEF PinsShift, Weight
    <2>5. RefsShift(t, "collect", l, j)
      BY <1>10, <2>1, <2>2 DEF RefsShift, Weight
    <2> QED BY <2>3, <2>4, <2>5
  <1>16. \A q \in PermitId : PermitShift(t, l, q)
    BY <1>5, <1>6, <1>10 DEF PermitShift, Weight, Inv, TypedInv, PermitT
  <1>17. Referenced'
    <2>1. ASSUME NEW j \in Key, rows'[j].refs # 0
          PROVE  rows'[j].present
      <3>1. CASE j = k
        <4>1. Refers(t, k)
          BY <1>1 DEF Refers, RefersAt, Aim, Trims
        <4>2. rows[k].present
          BY <1>2, <4>1, InLedger
        <4> QED BY <1>12, <1>13, <3>1, <4>2
      <3>2. CASE j # k
        BY <1>13, <2>1, <3>2 DEF Inv, Referenced
      <3> QED BY <3>1, <3>2
    <2> QED BY <2>1 DEF Referenced
  <1>18. Entitled(t)'
    <2>1. a = "idle" => Ends("collect", l)
      BY <1>1, <1>5, <1>6 DEF Ends, Trims, Place, Calling, Aim
    <2>2. a # "idle" => ~Ends(pc[t], loc[t])
      BY DEF Ends
    <2> QED BY <1>2, <1>5, <1>6, <1>9, <1>10, <2>1, <2>2 DEF Entitled, Inv
  <1>19. Belongs(t)'
    BY <1>5, <1>6, <1>9, <1>10 DEF Belongs, Inv
  <1>20. WaveLive'
    BY <1>10, <1>12, <1>13 DEF WaveLive, Live, Inv
  <1>21. Flown'
    BY <1>3, <1>5, <1>6, <1>8, <1>14, FlightsStay
  <1>22. Used'
    BY <1>3, <1>5, <1>6, <1>8, <1>10, <1>14, BodiesStay DEF UsesBody
  <1>23. MembersStay
    BY <1>10 DEF MembersStay
  <1> QED BY <1>3, <1>5, <1>7, <1>8, <1>10, <1>14, <1>15, <1>16, <1>17, <1>18, <1>19, <1>20,
             <1>21, <1>22, <1>23, Moves

(* A step that moves no call and no reservation, and one count of a row by *)
(* what it changes of the thread's own standing.                           *)
LEMMA RowKeeps ==
    ASSUME Inv, NEW t \in Thread, NEW p \in Point, NEW l \in Local, Steps(t, p, l), Place(p, l),
           UNCHANGED <<canon, permits, slot>>, held' \in [Thread -> SUBSET Key],
           \A u \in Thread \ {t} : held'[u] = held[u],
           \A u \in Thread \ {t} : loc[u].key \in generation => loc[u].key \in generation',
           NEW k \in Key, NEW r \in RowT, rows' = [rows EXCEPT ![k] = r],
           r.calls = rows[k].calls, r.wave \in {rows[k].wave, NoPermit},
           \A j \in Key : /\ ~CallsAt(p, l, j) /\ ~CallsAt(pc[t], loc[t], j)
                          /\ PinsShift(t, p, l, j) /\ RefsShift(t, p, l, j)
                          /\ j \in held'[t] => j \in held[t],
           r.present \/ r.refs = 0, Entitled(t)',
           l.spare = NoPermit, l.res = NoPermit, loc[t].spare = NoPermit, loc[t].res = NoPermit,
           l.hasBody = FALSE, l.prep = "none" \/ l.prep = "done",
           loc[t].prep = "none" \/ loc[t].prep = "done"
    PROVE  Inv'
  <1>1. pc'[t] = p /\ loc'[t] = l
    BY TypedStep DEF Inv
  <1>2. rows \in [Key -> RowT] /\ rows' \in [Key -> RowT] /\ rows'[k] = r
        /\ \A j \in Key \ {k} : rows'[j] = rows[j]
    BY DEF Inv, TypedInv
  <1>3. TypedTables /\ SamePhases
    BY <1>2 DEF TypedTables, SamePhases, Inv, TypedInv
  <1>4. ASSUME NEW j \in Key
        PROVE  CallsShift(t, p, l, j)
    BY <1>2 DEF CallsShift, Weight, RowT
  <1>5. \A q \in PermitId : PermitShift(t, l, q)
    BY ResidencyAssumption DEF PermitShift, Weight, Inv, TypedInv, PermitT
  <1>6. Referenced'
    BY <1>2 DEF Referenced, Inv
  <1>7. Belongs(t)'
    BY <1>1 DEF Belongs
  <1>8. WaveLive'
    BY <1>2 DEF WaveLive, Live, Inv
  <1>9. Flown'
    BY <1>3, FlightsStay
  <1>10. Used'
    BY <1>3, BodiesStay DEF UsesBody
  <1>11. MembersStay
    BY DEF MembersStay
  <1> QED BY <1>3, <1>4, <1>5, <1>6, <1>7, <1>8, <1>9, <1>10, <1>11, Moves

LEMMA UnpinLedgerKeeps ==
    ASSUME Inv, NEW t \in Thread, UnpinLedger(t)
    PROVE  Inv'
  <1> DEFINE k == loc[t].key
             l == Trimming(loc[t], "member")
             r == [rows[k] EXCEPT !.pins = rows[k].pins - 1]
  <1>1. loc[t] \in Local /\ Place(pc[t], loc[t]) /\ pc[t] = "unpin"
    BY DEF Inv, TypedInv, Placed, UnpinLedger
  <1>2. k \in Key
    BY <1>1 DEF Local, Place, Aim, Trims
  <1>3. Steps(t, "select", l)
    BY DEF Steps, UnpinLedger, Goto
  <1>4. "select" \in Point /\ "member" \in Point
    BY DEF Point
  <1>5. /\ l \in Local /\ l.mode = "trim" /\ l.after = "member" /\ l.key = k
        /\ l.prep = loc[t].prep /\ l.fin = loc[t].fin /\ l.hasBody = loc[t].hasBody
        /\ l.spare = loc[t].spare /\ l.res = loc[t].res /\ l.answer = loc[t].answer
    BY <1>1, <1>4, TrimmingFields
  <1> HIDE DEF l
  <1>6. Place("select", l)
    BY <1>1, <1>5 DEF Place, Aim, Trims, Calling
  <1>7. UNCHANGED <<canon, permits, slot, held, generation>>
    BY DEF UnpinLedger, hostVars, clientVars
  <1>8. /\ rows \in [Key -> RowT] /\ rows[k] \in RowT /\ rows[k].pins \in Int
        /\ rows' = [rows EXCEPT ![k] = r]
    BY <1>2 DEF UnpinLedger, Inv, TypedInv, RowT
  <1>9. /\ r \in RowT /\ r.refs = rows[k].refs /\ r.calls = rows[k].calls
        /\ r.pins = rows[k].pins - 1 /\ r.wave = rows[k].wave /\ r.present = rows[k].present
    BY <1>8 DEF RowT
  <1> HIDE DEF r
  <1>10. ASSUME NEW j \in Key
         PROVE  /\ ~CallsAt("select", l, j) /\ ~CallsAt(pc[t], loc[t], j)
                /\ PinsShift(t, "select", l, j) /\ RefsShift(t, "select", l, j)
    <2>1. /\ rows[j].pins \in Int /\ rows[j].refs \in Int
          /\ rows'[j].refs = rows[j].refs
          /\ rows'[j].pins = rows[j].pins - Weight(j = k)
      BY <1>2, <1>8, <1>9 DEF RowT, Weight
    <2>2. /\ ~CallsAt("select", l, j) /\ ~CallsAt(pc[t], loc[t], j)
          /\ ~UnpinsAt("select", l, j) /\ (UnpinsAt(pc[t], loc[t], j) <=> j = k)
          /\ (RefersAt("select", l, j) <=> j = k) /\ (RefersAt(pc[t], loc[t], j) <=> j = k)
      BY <1>1, <1>5 DEF CallsAt, UnpinsAt, RefersAt, Place, Aim, Trims, Calling
    <2>3. PinsShift(t, "select", l, j)
      BY <1>7, <2>1, <2>2 DEF PinsShift, Weight
    <2>4. RefsShift(t, "select", l, j)
      BY <1>7, <2>1, <2>2 DEF RefsShift, Weight
    <2> QED BY <2>2, <2>3, <2>4
  <1>11. r.present \/ r.refs = 0
    BY <1>2, <1>9 DEF Inv, Referenced
  <1>12. Entitled(t)'
    <2>1. Ends(pc[t], loc[t]) <=> Ends("select", l)
      BY <1>1, <1>5 DEF Ends, Trims, Place
    <2>2. pc'[t] = "select" /\ loc'[t] = l
      BY <1>3, <1>4, <1>5, TypedStep DEF Inv
    <2> QED BY <1>5, <1>7, <2>1, <2>2 DEF Entitled, Inv
  <1>13. /\ loc[t].spare = NoPermit /\ loc[t].res = NoPermit /\ loc[t].hasBody = FALSE
         /\ loc[t].prep = "none"
    BY <1>1 DEF Place, Aim, Trims, Calling, Local
  <1>14. held' \in [Thread -> SUBSET Key] /\ UNCHANGED <<held, generation>>
    BY <1>7 DEF Inv, TypedInv
  <1> QED BY <1>2, <1>3, <1>4, <1>5, <1>6, <1>7, <1>8, <1>9, <1>10, <1>11, <1>12, <1>13, <1>14, RowKeeps, ZenonT(30)

LEMMA IdleIsNoCall ==
    ASSUME Inv, NEW t \in Thread, pc[t] = "idle"
    PROVE  loc[t] = NoCall
  BY DEF Inv, Placed, Place

LEMMA UnpinKeeps ==
    ASSUME Inv, NEW t \in Thread, NEW k \in Key, Unpin(t, k)
    PROVE  Inv'
  <1> DEFINE l == [NoCall EXCEPT !.key = k]
  <1>1. loc[t] = NoCall /\ pc[t] = "idle"
    BY IdleIsNoCall DEF Unpin, Start
  <1>2. Steps(t, "unpin", l)
    BY DEF Steps, Unpin, Start, Goto
  <1>3. /\ l.key = k /\ l.prep = "none" /\ l.spare = NoPermit /\ l.res = NoPermit
        /\ l.hasBody = FALSE /\ l.fin = "idle" /\ l.after = "idle" /\ l.mode = "trim"
        /\ l.answer = "none"
        /\ NoCall.key = NoKey /\ NoCall.prep = "none" /\ NoCall.spare = NoPermit
        /\ NoCall.res = NoPermit /\ NoCall.hasBody = FALSE
    BY DEF NoCall
  <1>4. "unpin" \in Point /\ l \in Local
    BY NoCallTyped DEF Point, Local
  <1> HIDE DEF l
  <1>5. Place("unpin", l)
    BY <1>3, ResidencyAssumption DEF Place, Aim, Trims, Calling
  <1>6. UNCHANGED <<rows, canon, permits, slot, generation>>
    BY DEF Unpin, ledgerVars, hostVars
  <1>7. /\ held \in [Thread -> SUBSET Key] /\ k \in held[t]
        /\ held' = [held EXCEPT ![t] = held[t] \ {k}]
    BY DEF Unpin, Inv, TypedInv
  <1>8. held' \in [Thread -> SUBSET Key] /\ held'[t] = held[t] \ {k}
        /\ \A u \in Thread \ {t} : held'[u] = held[u]
    BY <1>7
  <1>9. rows' = [rows EXCEPT ![k] = rows[k]] /\ rows[k] \in RowT
    BY <1>6 DEF Inv, TypedInv
  <1>10. ASSUME NEW j \in Key
         PROVE  /\ ~CallsAt("unpin", l, j) /\ ~CallsAt(pc[t], loc[t], j)
                /\ PinsShift(t, "unpin", l, j) /\ RefsShift(t, "unpin", l, j)
    <2>1. rows[j].pins \in Int /\ rows[j].refs \in Int
      BY DEF Inv, TypedInv, RowT
    <2>2. /\ ~CallsAt("unpin", l, j) /\ ~CallsAt(pc[t], loc[t], j)
          /\ (UnpinsAt("unpin", l, j) <=> j = k) /\ ~UnpinsAt(pc[t], loc[t], j)
          /\ (RefersAt("unpin", l, j) <=> j = k) /\ ~RefersAt(pc[t], loc[t], j)
      BY <1>1, <1>3 DEF CallsAt, UnpinsAt, RefersAt, Aim, Trims, Calling
    <2>3. Weight(j \in held'[t]) - Weight(j \in held[t]) = 0 - Weight(j = k)
      BY <1>7, <1>8 DEF Weight
    <2>4. PinsShift(t, "unpin", l, j)
      BY <1>6, <2>1, <2>2, <2>3 DEF PinsShift, Weight
    <2>5. RefsShift(t, "unpin", l, j)
      BY <1>6, <2>1, <2>2, <2>3 DEF RefsShift, Weight
    <2> QED BY <2>2, <2>4, <2>5
  <1>11. rows[k].present \/ rows[k].refs = 0
    BY DEF Inv, Referenced
  <1>12. Entitled(t)'
    <2>1. pc'[t] = "unpin" /\ loc'[t] = l
      BY <1>2, <1>4, TypedStep DEF Inv
    <2> QED BY <1>3, <2>1 DEF Entitled, Ends
  <1> QED BY <1>1, <1>2, <1>3, <1>4, <1>5, <1>6, <1>8, <1>9, <1>10, <1>11, <1>12, RowKeeps

LEMMA DropGenerationKeeps ==
    ASSUME Inv, NEW t \in Thread, NEW k \in Key, DropGeneration(t, k)
    PROVE  Inv'
  <1> DEFINE l == [NoCall EXCEPT !.key = k]
  <1>1. loc[t] = NoCall /\ pc[t] = "idle"
    BY IdleIsNoCall DEF DropGeneration, Start
  <1>2. Steps(t, "member", l)
    BY DEF Steps, DropGeneration, Start, Goto
  <1>3. /\ l.key = k /\ l.prep = "none" /\ l.spare = NoPermit /\ l.res = NoPermit
        /\ l.hasBody = FALSE /\ l.fin = "idle" /\ l.after = "idle" /\ l.mode = "trim"
        /\ l.answer = "none"
        /\ NoCall.key = NoKey /\ NoCall.prep = "none" /\ NoCall.spare = NoPermit
        /\ NoCall.res = NoPermit /\ NoCall.hasBody = FALSE
    BY DEF NoCall
  <1>4. "member" \in Point /\ l \in Local
    BY NoCallTyped DEF Point, Local
  <1> HIDE DEF l
  <1>5. Place("member", l)
    BY <1>3, ResidencyAssumption DEF Place, Aim, Trims, Calling
  <1>6. UNCHANGED <<rows, canon, permits, slot, held>>
    BY DEF DropGeneration, ledgerVars, clientVars
  <1>7. k \in generation /\ generation' = generation \ {k} /\ \A u \in Thread : loc[u].key # k
    BY DEF DropGeneration
  <1>8. held' \in [Thread -> SUBSET Key]
    BY <1>6 DEF Inv, TypedInv
  <1>9. rows' = [rows EXCEPT ![k] = rows[k]] /\ rows[k] \in RowT
    BY <1>6 DEF Inv, TypedInv
  <1>10. ASSUME NEW j \in Key
         PROVE  /\ ~CallsAt("member", l, j) /\ ~CallsAt(pc[t], loc[t], j)
                /\ PinsShift(t, "member", l, j) /\ RefsShift(t, "member", l, j)
    <2>1. rows[j].pins \in Int /\ rows[j].refs \in Int
      BY DEF Inv, TypedInv, RowT
    <2>2. /\ ~CallsAt("member", l, j) /\ ~CallsAt(pc[t], loc[t], j)
          /\ ~UnpinsAt("member", l, j) /\ ~UnpinsAt(pc[t], loc[t], j)
          /\ (RefersAt("member", l, j) <=> j = k) /\ ~RefersAt(pc[t], loc[t], j)
      BY <1>1, <1>3 DEF CallsAt, UnpinsAt, RefersAt, Aim, Trims, Calling
    <2>3. Weight(j \in generation') - Weight(j \in generation) = 0 - Weight(j = k)
      BY <1>7 DEF Weight
    <2>4. PinsShift(t, "member", l, j)
      BY <1>6, <2>1, <2>2 DEF PinsShift, Weight
    <2>5. RefsShift(t, "member", l, j)
      BY <1>6, <2>1, <2>2, <2>3 DEF RefsShift, Weight
    <2> QED BY <2>2, <2>4, <2>5
  <1>11. rows[k].present \/ rows[k].refs = 0
    BY DEF Inv, Referenced
  <1>12. Entitled(t)'
    <2>1. pc'[t] = "member" /\ loc'[t] = l
      BY <1>2, <1>4, TypedStep DEF Inv
    <2>2. Ends("member", l)
      BY <1>3 DEF Ends
    <2> QED BY <2>1, <2>2 DEF Entitled
  <1> QED BY <1>1, <1>2, <1>3, <1>4, <1>5, <1>6, <1>7, <1>8, <1>9, <1>10, <1>11, <1>12, RowKeeps

LEMMA NewRowFields ==
    /\ NewRow \in RowT /\ NewRow.refs = 1 /\ NewRow.calls = 0 /\ NewRow.pins = 0
    /\ NewRow.wave = NoPermit /\ NewRow.present = TRUE
  <1> DEFINE a == Absent
             b == [a EXCEPT !.refs = 1]
  <1>1. /\ a \in RowT /\ a.calls = 0 /\ a.pins = 0 /\ a.wave = NoPermit
    BY DEF Absent, RowT
  <1>2. NewRow = [b EXCEPT !.present = TRUE]
    BY DEF NewRow
  <1> HIDE DEF a
  <1>3. b \in RowT /\ b.refs = 1 /\ b.calls = 0 /\ b.pins = 0 /\ b.wave = NoPermit
    BY <1>1 DEF RowT
  <1> HIDE DEF b
  <1> QED BY <1>2, <1>3 DEF RowT

LEMMA RetainKeeps ==
    ASSUME Inv, NEW t \in Thread, NEW k \in Key, Retain(t, k)
    PROVE  Inv'
  <1> DEFINE r == IF rows[k].present THEN [rows[k] EXCEPT !.refs = rows[k].refs + 1] ELSE NewRow
  <1>1. loc[t] = NoCall /\ pc[t] = "idle"
    BY IdleIsNoCall DEF Retain, Start
  <1>2. Steps(t, "select", NoCall)
    BY DEF Steps, Retain, Start, Goto
  <1>3. /\ NoCall.key = NoKey /\ NoCall.prep = "none" /\ NoCall.spare = NoPermit
        /\ NoCall.res = NoPermit /\ NoCall.hasBody = FALSE
        /\ NoCall.fin = "idle" /\ NoCall.after = "idle" /\ NoCall.mode = "trim"
        /\ NoCall.answer = "none"
    BY DEF NoCall
  <1>4. "select" \in Point
    BY DEF Point
  <1>5. Place("select", NoCall)
    BY <1>3, ResidencyAssumption DEF Place, Aim, Trims, Calling
  <1>6. UNCHANGED <<canon, permits, slot, held>>
    BY DEF Retain, clientVars
  <1>7. k \notin generation /\ generation' = generation \cup {k}
    BY DEF Retain
  <1>8. held' \in [Thread -> SUBSET Key]
    BY <1>6 DEF Inv, TypedInv
  <1>9. /\ rows \in [Key -> RowT] /\ rows[k] \in RowT /\ rows[k].refs \in Int
    BY DEF Inv, TypedInv, RowT
  <1>10. rows' = [rows EXCEPT ![k] = r]
    BY <1>9 DEF Retain
  <1>11. /\ NewRow \in RowT /\ NewRow.refs = 1 /\ NewRow.calls = 0 /\ NewRow.pins = 0
         /\ NewRow.wave = NoPermit /\ NewRow.present = TRUE
    BY NewRowFields
  <1>12. ~rows[k].present => rows[k].calls = 0 /\ rows[k].pins = 0 /\ rows[k].refs = 0
    BY Unreferenced DEF Inv, Referenced
  <1>13. /\ r \in RowT /\ r.refs = rows[k].refs + 1 /\ r.calls = rows[k].calls
         /\ r.pins = rows[k].pins /\ r.wave \in {rows[k].wave, NoPermit} /\ r.present
    BY <1>9, <1>11, <1>12 DEF RowT
  <1> HIDE DEF r
  <1>14. ASSUME NEW j \in Key
         PROVE  /\ ~CallsAt("select", NoCall, j) /\ ~CallsAt(pc[t], loc[t], j)
                /\ PinsShift(t, "select", NoCall, j) /\ RefsShift(t, "select", NoCall, j)
    <2>1. /\ rows[j].pins \in Int /\ rows[j].refs \in Int /\ rows'[j].pins = rows[j].pins
          /\ rows'[j].refs = rows[j].refs + Weight(j = k)
      BY <1>9, <1>10, <1>13 DEF RowT, Weight
    <2>2. /\ ~CallsAt("select", NoCall, j) /\ ~CallsAt(pc[t], loc[t], j)
          /\ ~UnpinsAt("select", NoCall, j) /\ ~UnpinsAt(pc[t], loc[t], j)
          /\ ~RefersAt("select", NoCall, j) /\ ~RefersAt(pc[t], loc[t], j)
      BY <1>1, <1>3, ResidencyAssumption DEF CallsAt, UnpinsAt, RefersAt, Aim, Trims, Calling
    <2>3. Weight(j \in generation') - Weight(j \in generation) = Weight(j = k)
      BY <1>7 DEF Weight
    <2>4. PinsShift(t, "select", NoCall, j)
      BY <1>6, <2>1, <2>2 DEF PinsShift, Weight
    <2>5. RefsShift(t, "select", NoCall, j)
      BY <1>6, <2>1, <2>2, <2>3 DEF RefsShift, Weight
    <2> QED BY <2>2, <2>4, <2>5
  <1>15. Entitled(t)'
    <2>1. loc'[t] = NoCall
      BY <1>2, <1>4, NoCallTyped, TypedStep DEF Inv
    <2> QED BY <1>3, <2>1 DEF Entitled
  <1> QED BY <1>1, <1>2, <1>3, <1>4, <1>5, <1>6, <1>7, <1>8, <1>10, <1>13, <1>14, <1>15,
             NoCallTyped, RowKeeps

LEMMA LeaseStartKeeps ==
    ASSUME Inv, NEW t \in Thread, NEW k \in Key, NEW a \in Accesses, Lease(t, k, a)
    PROVE  Inv'
  <1> DEFINE l == [NoCall EXCEPT !.key = k, !.access = a]
  <1>1. loc[t] = NoCall /\ pc[t] = "idle"
    BY IdleIsNoCall DEF Lease, Start
  <1>2. Steps(t, "begin", l)
    BY DEF Steps, Lease, Start, Goto
  <1>3. /\ l.key = k /\ l.prep = "none" /\ l.spare = NoPermit /\ l.res = NoPermit
        /\ l.hasBody = FALSE /\ l.fin = "idle" /\ l.after = "idle" /\ l.mode = "trim"
        /\ l.answer = "none"
        /\ NoCall.key = NoKey /\ NoCall.prep = "none" /\ NoCall.spare = NoPermit
        /\ NoCall.res = NoPermit /\ NoCall.hasBody = FALSE
    BY DEF NoCall
  <1>4. "begin" \in Point /\ l \in Local
    <2>1. a \in {"Read", "Scan"}
      BY BoundsAssumption
    <2>2. l \in Local
      BY <2>1, NoCallTyped DEF Local
    <2> QED BY <2>2 DEF Point
  <1> HIDE DEF l
  <1>5. Place("begin", l)
    BY <1>3, ResidencyAssumption DEF Place, Aim, Trims, Calling
  <1>6. UNCHANGED <<rows, canon, permits, slot, held, generation>>
    BY DEF Lease, ledgerVars, hostVars, clientVars
  <1>7. k \in generation /\ k \notin held[t]
    BY DEF Lease
  <1>8. held' \in [Thread -> SUBSET Key]
    BY <1>6 DEF Inv, TypedInv
  <1>9. rows' = [rows EXCEPT ![k] = rows[k]] /\ rows[k] \in RowT
    BY <1>6 DEF Inv, TypedInv
  <1>10. ASSUME NEW j \in Key
         PROVE  /\ ~CallsAt("begin", l, j) /\ ~CallsAt(pc[t], loc[t], j)
                /\ PinsShift(t, "begin", l, j) /\ RefsShift(t, "begin", l, j)
    <2>1. rows[j].pins \in Int /\ rows[j].refs \in Int
      BY DEF Inv, TypedInv, RowT
    <2>2. /\ ~CallsAt("begin", l, j) /\ ~CallsAt(pc[t], loc[t], j)
          /\ ~UnpinsAt("begin", l, j) /\ ~UnpinsAt(pc[t], loc[t], j)
          /\ ~RefersAt("begin", l, j) /\ ~RefersAt(pc[t], loc[t], j)
      BY <1>1, <1>3 DEF CallsAt, UnpinsAt, RefersAt, Aim, Trims, Calling
    <2>3. PinsShift(t, "begin", l, j)
      BY <1>6, <2>1, <2>2 DEF PinsShift, Weight
    <2>4. RefsShift(t, "begin", l, j)
      BY <1>6, <2>1, <2>2 DEF RefsShift, Weight
    <2> QED BY <2>2, <2>3, <2>4
  <1>11. rows[k].present \/ rows[k].refs = 0
    BY DEF Inv, Referenced
  <1>12. Entitled(t)'
    <2>1. loc'[t] = l
      BY <1>2, <1>4, TypedStep DEF Inv
    <2> QED BY <1>3, <1>6, <1>7, <2>1 DEF Entitled
  <1> QED BY <1>1, <1>2, <1>3, <1>4, <1>5, <1>6, <1>8, <1>9, <1>10, <1>11, <1>12, RowKeeps

-----------------------------------------------------------------------------
(* Starts of operations on no version                                      *)

LEMMA StartKeeps ==
    ASSUME Inv, NEW t \in Thread, pc[t] = "idle", NEW p \in {"select", "admit", "unraw"},
           NEW l \in Local, Steps(t, p, l), SameTables,
           l.key = NoKey, l.prep = "none", l.spare = NoPermit, l.res = NoPermit,
           l.hasBody = FALSE, l.fin = "idle", l.after = "idle", l.mode = "trim", l.answer = "none"
    PROVE  Inv'
  <1>1. /\ NoCall.key = NoKey /\ NoCall.prep = "none" /\ NoCall.spare = NoPermit
        /\ NoCall.res = NoPermit /\ NoCall.hasBody = FALSE
    BY DEF NoCall
  <1>2. loc[t] = NoCall
    BY IdleIsNoCall
  <1>3. p \in Point
    BY DEF Point
  <1>4. Place(p, l)
    BY DEF Place, Aim, Trims, Calling
  <1>5. Alike(t, p, l)
    BY <1>1, <1>2, ResidencyAssumption DEF Alike, CallsAt, InCall, RefersAt, Refers, UnpinsAt,
                                           Aim, Trims, Calling, Ends
  <1> QED BY <1>3, <1>4, <1>5, Quiet

LEMMA NoCallFields ==
    /\ NoCall.key = NoKey /\ NoCall.prep = "none" /\ NoCall.spare = NoPermit
    /\ NoCall.res = NoPermit /\ NoCall.hasBody = FALSE /\ NoCall.fin = "idle"
    /\ NoCall.after = "idle" /\ NoCall.mode = "trim" /\ NoCall.answer = "none"
  BY DEF NoCall

LEMMA SetLimitKeeps ==
    ASSUME Inv, NEW t \in Thread, NEW n, SetLimit(t, n) \/ SetFloor(t, n)
    PROVE  Inv'
  <1>1. pc[t] = "idle" /\ Steps(t, "select", NoCall)
    BY DEF Steps, SetLimit, SetFloor, Start, Goto
  <1>2. SameTables
    BY Untouched DEF SetLimit, SetFloor, ledgerVars, clientVars
  <1> QED BY <1>1, <1>2, NoCallTyped, NoCallFields, StartKeeps

LEMMA ReserveKeeps ==
    ASSUME Inv, NEW t \in Thread, NEW b \in StageSizes, Reserve(t, b)
    PROVE  Inv'
  <1> DEFINE l == [NoCall EXCEPT !.need = b]
  <1>1. pc[t] = "idle" /\ Steps(t, "admit", l)
    BY DEF Steps, Reserve, Start, Goto
  <1>2. SameTables
    BY Untouched DEF Reserve, ledgerVars, hostVars, clientVars
  <1>3. /\ l.key = NoKey /\ l.prep = "none" /\ l.spare = NoPermit
        /\ l.res = NoPermit /\ l.hasBody = FALSE /\ l.fin = "idle"
        /\ l.after = "idle" /\ l.mode = "trim" /\ l.answer = "none"
    BY DEF NoCall
  <1>4. l \in Local
    BY BoundsAssumption, NoCallTyped DEF Local
  <1> HIDE DEF l
  <1> QED BY <1>1, <1>2, <1>3, <1>4, StartKeeps

LEMMA DropRawKeeps ==
    ASSUME Inv, NEW t \in Thread, NEW id \in RawId, DropRaw(t, id)
    PROVE  Inv'
  <1> DEFINE l == [NoCall EXCEPT !.goneRaw = id]
  <1>1. pc[t] = "idle" /\ Steps(t, "unraw", l)
    BY DEF Steps, DropRaw, Start, Goto
  <1>2. SameTables
    BY Untouched DEF DropRaw, ledgerVars, hostVars
  <1>3. /\ l.key = NoKey /\ l.prep = "none" /\ l.spare = NoPermit
        /\ l.res = NoPermit /\ l.hasBody = FALSE /\ l.fin = "idle"
        /\ l.after = "idle" /\ l.mode = "trim" /\ l.answer = "none"
    BY DEF NoCall
  <1>4. l \in Local
    BY NoCallTyped DEF Local
  <1> HIDE DEF l
  <1> QED BY <1>1, <1>2, <1>3, <1>4, StartKeeps

LEMMA DropRawLedgerKeeps ==
    ASSUME Inv, NEW t \in Thread, DropRawLedger(t)
    PROVE  Inv'
  <1> DEFINE m == [loc[t] EXCEPT !.goneRaw = NoRaw]
             l == Trimming(m, "idle")
  <1>1. loc[t] \in Local /\ Place(pc[t], loc[t]) /\ pc[t] = "unraw"
    BY DEF Inv, TypedInv, Placed, DropRawLedger
  <1>2. Steps(t, "select", l)
    BY DEF Steps, DropRawLedger, Goto
  <1>3. canon' \in [Key -> RawId \cup {NoRaw}]
    BY <1>1, ReleaseRawCanon DEF DropRawLedger, Inv, TypedInv, Local
  <1>4. SameTables
    BY <1>3 DEF SameTables, SameRows, SamePermits, SamePhases, DropRawLedger, hostVars,
                clientVars, Inv, TypedInv
  <1>5. m \in Local
    BY <1>1 DEF Local
  <1>6. "select" \in Point /\ "idle" \in Point
    BY DEF Point
  <1>7. /\ l \in Local /\ l.mode = "trim" /\ l.after = "idle" /\ l.key = m.key
        /\ l.prep = m.prep /\ l.fin = m.fin /\ l.hasBody = m.hasBody
        /\ l.spare = m.spare /\ l.res = m.res /\ l.answer = m.answer
    BY <1>5, <1>6, TrimmingFields
  <1>8. /\ m.key = loc[t].key /\ m.prep = loc[t].prep /\ m.fin = loc[t].fin
        /\ m.hasBody = loc[t].hasBody /\ m.spare = loc[t].spare /\ m.res = loc[t].res
        /\ m.answer = loc[t].answer
    BY <1>1 DEF Local
  <1> HIDE DEF l, m
  <1>9. Place("select", l)
    BY <1>1, <1>7, <1>8 DEF Place, Aim, Trims, Calling
  <1>10. Alike(t, "select", l)
    BY <1>1, <1>7, <1>8 DEF Place, Aim, Trims, Calling, Alike, CallsAt, InCall, RefersAt, Refers,
                UnpinsAt, Ends
  <1> QED BY <1>2, <1>4, <1>6, <1>7, <1>9, <1>10, Quiet

LEMMA PassageKeeps ==
    ASSUME Inv, Passage
    PROVE  Inv'
  <1>1. CASE \E t \in Thread : PatienceEnds(t)
    BY <1>1, PatienceEndsKeeps
  <1>2. CASE WaitingExpires \/ \E k \in Key : OwedExpires(k)
    <2>1. /\ UNCHANGED <<rows, permits, slot, pc, loc, held, generation>>
          /\ canon' \in [Key -> RawId \cup {NoRaw}]
      BY <1>2 DEF WaitingExpires, OwedExpires, hostVars, clientVars, Inv, TypedInv
    <2> QED BY <2>1, StillKeeps
  <1>3. CASE Census
    <2>1. UNCHANGED <<rows, permits, slot, pc, loc, held, generation>>
      BY <1>3 DEF Census, hostVars, clientVars
    <2>2. canon' \in [Key -> RawId \cup {NoRaw}]
      BY <1>3, PruneCanon DEF Census, Inv, TypedInv
    <2> QED BY <2>1, <2>2, StillKeeps
  <1> QED BY <1>1, <1>2, <1>3 DEF Passage

LEMMA TakeRawKeeps ==
    ASSUME Inv, NEW t \in Thread, NEW k \in Key, TakeRaw(t, k)
    PROVE  Inv'
  <1>1. /\ UNCHANGED <<rows, permits, slot, pc, loc, held, generation>>
        /\ canon' \in [Key -> RawId \cup {NoRaw}]
    BY DEF TakeRaw, hostVars, Inv, TypedInv
  <1> QED BY <1>1, StillKeeps

-----------------------------------------------------------------------------
(* Reservations that are granted                                           *)

(* Thread t names one more reservation, of the version it admits.          *)
LEMMA GrantKeeps ==
    ASSUME Inv, NEW t \in Thread, pc[t] = "admit", NEW q \in PermitId,
           NEW p \in {"unowe", "holding"}, NEW l \in Local, Steps(t, p, l),
           l = (IF p = "unowe" THEN [loc[t] EXCEPT !.spare = q] ELSE [loc[t] EXCEPT !.res = q]),
           p = "unowe" <=> loc[t].key # NoKey,
           UNCHANGED <<canon, slot, held, generation>>,
           rows' \in [Key -> RowT], permits' \in [PermitId -> PermitT],
           \A k \in Key : /\ rows'[k].calls = rows[k].calls /\ rows'[k].pins = rows[k].pins
                          /\ rows'[k].refs = rows[k].refs /\ rows'[k].present = rows[k].present,
           permits'[q].refs = permits[q].refs + 1, permits'[q].member = loc[t].key,
           \A r \in PermitId \ {q} : permits'[r] = permits[r],
           permits[q].refs # 0 => permits[q].member = loc[t].key,
           WaveLive'
    PROVE  Inv'
  <1>1. loc[t] \in Local /\ Place("admit", loc[t]) /\ Entitled(t)
    BY DEF Inv, TypedInv, Placed
  <1>2. /\ loc[t].spare = NoPermit /\ loc[t].res = NoPermit /\ loc[t].prep = "none"
        /\ loc[t].hasBody = FALSE /\ loc[t].answer = "none"
    BY <1>1 DEF Place, Aim, Trims, Calling, Local
  <1>3. /\ l.key = loc[t].key /\ l.prep = "none" /\ l.hasBody = FALSE /\ l.answer = "none"
        /\ l.mode = loc[t].mode /\ l.after = loc[t].after /\ l.fin = loc[t].fin
        /\ l.spare = (IF p = "unowe" THEN q ELSE NoPermit)
        /\ l.res = (IF p = "unowe" THEN NoPermit ELSE q)
    BY <1>1, <1>2 DEF Local
  <1>4. p \in Point
    BY DEF Point
  <1>5. pc'[t] = p /\ loc'[t] = l
    BY <1>4, TypedStep DEF Inv
  <1>6. Place(p, l)
    BY <1>1, <1>3, ResidencyAssumption DEF Place, Aim, Trims, Calling
  <1>7. TypedTables /\ SamePhases
    BY DEF TypedTables, SamePhases, Inv, TypedInv
  <1>8. ASSUME NEW k \in Key
        PROVE  CallsShift(t, p, l, k) /\ PinsShift(t, p, l, k) /\ RefsShift(t, p, l, k)
    <2>1. /\ rows[k].calls \in Int /\ rows'[k].calls = rows[k].calls
          /\ rows[k].pins \in Int /\ rows'[k].pins = rows[k].pins
          /\ rows[k].refs \in Int /\ rows'[k].refs = rows[k].refs
      BY DEF Inv, TypedInv, RowT
    <2>2. /\ ~CallsAt(p, l, k) /\ ~CallsAt(pc[t], loc[t], k)
          /\ ~UnpinsAt(p, l, k) /\ ~UnpinsAt(pc[t], loc[t], k)
          /\ ~RefersAt(p, l, k) /\ ~RefersAt(pc[t], loc[t], k)
      BY <1>1, <1>2, <1>3 DEF CallsAt, UnpinsAt, RefersAt, Aim, Trims, Calling
    <2>3. CallsShift(t, p, l, k)
      BY <2>1, <2>2 DEF CallsShift, Weight
    <2>4. PinsShift(t, p, l, k)
      BY <2>1, <2>2 DEF PinsShift, Weight
    <2>5. RefsShift(t, p, l, k)
      BY <2>1, <2>2 DEF RefsShift, Weight
    <2> QED BY <2>3, <2>4, <2>5
  <1>9. ASSUME NEW r \in PermitId
        PROVE  PermitShift(t, l, r)
    BY <1>2, <1>3, ResidencyAssumption DEF PermitShift, Weight, Inv, TypedInv, PermitT
  <1>10. Referenced'
    BY DEF Referenced, Inv
  <1>11. Entitled(t)'
    BY <1>1, <1>3, <1>5 DEF Entitled, Ends, Trims
  <1>12. Belongs(t)'
    BY <1>3, <1>5 DEF Belongs
  <1>13. Flown'
    BY <1>2, <1>3, <1>4, <1>7, FlightsStay
  <1>14. Used'
    BY <1>3, <1>4, <1>7, BodiesStay DEF UsesBody
  <1>15. MembersStay
    BY DEF MembersStay
  <1> QED BY <1>4, <1>6, <1>7, <1>8, <1>9, <1>10, <1>11, <1>12, <1>13, <1>14, <1>15, Moves

LEMMA RefsNatural ==
    ASSUME LeasesCounted, NEW q \in PermitId
    PROVE  permits[q].refs \in Nat
  <1>1. permits[q].refs = Cardinality(Sparing(q)) + Cardinality(Reserving(q))
    BY DEF LeasesCounted, Sparing, Reserving
  <1>2. Cardinality(Sparing(q)) \in Nat /\ Cardinality(Reserving(q)) \in Nat
    BY CountZero DEF Sparing, Reserving
  <1> QED BY <1>1, <1>2

LEMMA AdmitJoinKeeps ==
    ASSUME Inv, NEW t \in Thread, AdmitJoin(t)
    PROVE  Inv'
  <1> DEFINE k == loc[t].key
             q == rows[k].wave
             l == [loc[t] EXCEPT !.spare = q]
  <1>1. loc[t] \in Local /\ pc[t] = "admit" /\ k # NoKey /\ q # NoPermit
    BY DEF Inv, TypedInv, AdmitJoin, Admitting
  <1>2. k \in Key
    BY <1>1 DEF Local
  <1>3. q \in PermitId /\ permits[q].refs # 0 /\ permits[q].member = k
    BY <1>1, <1>2 DEF Inv, WaveLive, Live
  <1>4. /\ permits \in [PermitId -> PermitT] /\ permits[q] \in PermitT
        /\ permits[q].refs \in Int
    BY <1>3 DEF Inv, TypedInv, PermitT
  <1>5. permits' = [permits EXCEPT ![q] = [permits[q] EXCEPT !.refs = permits[q].refs + 1]]
    BY DEF AdmitJoin
  <1>6. /\ permits' \in [PermitId -> PermitT] /\ permits'[q].refs = permits[q].refs + 1
        /\ permits'[q].member = k
        /\ \A r \in PermitId \ {q} : permits'[r] = permits[r]
    <2> DEFINE s == [permits[q] EXCEPT !.refs = permits[q].refs + 1]
    <2>1. s.refs = permits[q].refs + 1 /\ s.member = k
      BY <1>3, <1>4 DEF PermitT
    <2>3. permits[q].refs + 1 \in Int
      BY <1>4
    <2>2. s \in PermitT
      BY <1>4, <2>3 DEF PermitT
    <2> HIDE DEF s
    <2> QED BY <1>3, <1>4, <1>5, <2>1, <2>2 DEF s
  <1>7. Steps(t, "unowe", l)
    BY DEF Steps, AdmitJoin, Goto
  <1>8. UNCHANGED <<rows, canon, slot, held, generation>>
    BY DEF AdmitJoin, hostVars, clientVars
  <1>9. l \in Local
    BY <1>1, <1>3 DEF Local
  <1>10. WaveLive'
    <2>1. ASSUME NEW j \in Key, rows[j].wave # NoPermit
          PROVE  /\ rows[j].wave \in PermitId /\ permits'[rows[j].wave].refs # 0
                 /\ permits'[rows[j].wave].member = j
      <3>1. /\ rows[j].wave \in PermitId /\ permits[rows[j].wave].refs # 0
            /\ permits[rows[j].wave].member = j
        BY <2>1 DEF Inv, WaveLive, Live
      <3>2. CASE rows[j].wave = q
        <4>1. permits[q].refs \in Nat
          BY <1>3, RefsNatural DEF Inv, TypedInv
        <4> QED BY <1>3, <1>6, <3>1, <3>2, <4>1
      <3>3. CASE rows[j].wave # q
        BY <1>6, <3>1, <3>3
      <3> QED BY <3>2, <3>3
    <2> QED BY <1>8, <2>1 DEF WaveLive, Live
  <1>11. rows' \in [Key -> RowT]
    BY <1>8 DEF Inv, TypedInv
  <1>12. l = (IF "unowe" = "unowe" THEN [loc[t] EXCEPT !.spare = q] ELSE [loc[t] EXCEPT !.res = q])
    OBVIOUS
  <1> HIDE DEF l, q, k
  <1>13. k = loc[t].key
    BY DEF k
  <1> QED BY <1>1, <1>3, <1>6, <1>7, <1>8, <1>9, <1>10, <1>11, <1>12, <1>13, GrantKeeps

LEMMA AdmitOpenKeeps ==
    ASSUME Inv, NEW t \in Thread, AdmitOpen(t)
    PROVE  Inv'
  <1> DEFINE k == loc[t].key
             b == loc[t].need
             free == PermitId \ Live
             q == CHOOSE p \in free : TRUE
             n == IF Fits(b) THEN NoKey ELSE k
             s == [refs |-> 1, bytes |-> b, peak |-> b, member |-> k, settled |-> k = NoKey,
                   revision |-> loc[t].rev, transient |-> n]
             p == IF k = NoKey THEN "holding" ELSE "unowe"
             l == IF k = NoKey THEN [loc[t] EXCEPT !.res = q] ELSE [loc[t] EXCEPT !.spare = q]
  <1>1. loc[t] \in Local /\ pc[t] = "admit"
    BY DEF Inv, TypedInv, AdmitOpen, Turn, Contends, Admitting
  <1>2. k \in Key \cup {NoKey} /\ b \in Nat /\ loc[t].rev \in 0..MaxRevision
    BY <1>1 DEF Local
  <1>3. q \in PermitId /\ permits[q].refs = 0
    <2>1. free # {}
      BY DEF AdmitOpen
    <2>2. q \in free
      BY <2>1
    <2> QED BY <2>2 DEF Live
  <1>4. permits' = [permits EXCEPT ![q] = s]
    BY DEF AdmitOpen
  <1>5. rows' = IF k = NoKey THEN rows ELSE [rows EXCEPT ![k].wave = q]
    BY DEF AdmitOpen
  <1>6. Steps(t, p, l)
    BY DEF Steps, AdmitOpen, Goto
  <1>7. UNCHANGED <<canon, slot, held, generation>>
    BY DEF AdmitOpen, hostVars, clientVars
  <1> HIDE DEF q
  <1>8. l \in Local
    BY <1>1, <1>3 DEF Local
  <1>9. s \in PermitT /\ s.refs = 1 /\ s.member = k
    <2>1. n \in Key \cup {NoKey} /\ loc[t].rev \in Nat
      BY <1>2, ResidencyAssumption
    <2> HIDE DEF n
    <2> QED BY <1>2, <2>1 DEF PermitT
  <1> HIDE DEF s
  <1>10. /\ permits' \in [PermitId -> PermitT] /\ permits'[q].refs = permits[q].refs + 1
         /\ permits'[q].member = k
         /\ \A r \in PermitId \ {q} : permits'[r] = permits[r]
    BY <1>3, <1>4, <1>9 DEF Inv, TypedInv
  <1>11. rows \in [Key -> RowT]
    BY DEF Inv, TypedInv
  <1>12. rows' \in [Key -> RowT]
    BY <1>3, <1>5, <1>11, ZenonT(30) DEF RowT
  <1>13. ASSUME NEW j \in Key
         PROVE  /\ rows'[j].calls = rows[j].calls /\ rows'[j].pins = rows[j].pins
                /\ rows'[j].refs = rows[j].refs /\ rows'[j].present = rows[j].present
                /\ rows'[j].wave = IF k # NoKey /\ j = k THEN q ELSE rows[j].wave
    BY <1>2, <1>5, <1>11 DEF RowT
  <1>14. WaveLive'
    <2>1. ASSUME NEW j \in Key, rows'[j].wave # NoPermit
          PROVE  /\ rows'[j].wave \in PermitId /\ permits'[rows'[j].wave].refs # 0
                 /\ permits'[rows'[j].wave].member = j
      <3>1. CASE k # NoKey /\ j = k
        BY <1>3, <1>10, <1>13, <3>1
      <3>2. CASE ~(k # NoKey /\ j = k)
        <4>1. /\ rows'[j].wave = rows[j].wave /\ rows[j].wave # NoPermit
          BY <1>13, <2>1, <3>2
        <4>2. /\ rows[j].wave \in PermitId /\ permits[rows[j].wave].refs # 0
              /\ permits[rows[j].wave].member = j
          BY <4>1 DEF Inv, WaveLive, Live
        <4> QED BY <1>3, <1>10, <4>1, <4>2
      <3> QED BY <3>1, <3>2
    <2> QED BY <2>1 DEF WaveLive, Live
  <1>15. p \in {"unowe", "holding"} /\ (p = "unowe" <=> k # NoKey)
         /\ l = (IF p = "unowe" THEN [loc[t] EXCEPT !.spare = q] ELSE [loc[t] EXCEPT !.res = q])
    OBVIOUS
  <1> HIDE DEF l, p
  <1> QED BY <1>1, <1>3, <1>6, <1>7, <1>8, <1>10, <1>12, <1>13, <1>14, <1>15, GrantKeeps

-----------------------------------------------------------------------------
(* Bodies and rows that go                                                 *)

LEMMA ShiftsNone ==
    ASSUME Inv, NEW t \in Thread, NEW p, NEW l, SameRows, SamePermits,
           UNCHANGED <<held, generation>>, l.spare = loc[t].spare, l.res = loc[t].res,
           NEW k \in Key,
           CallsAt(p, l, k) <=> CallsAt(pc[t], loc[t], k),
           RefersAt(p, l, k) <=> RefersAt(pc[t], loc[t], k),
           UnpinsAt(p, l, k) <=> UnpinsAt(pc[t], loc[t], k)
    PROVE  CallsShift(t, p, l, k) /\ PinsShift(t, p, l, k) /\ RefsShift(t, p, l, k)
  <1>1. /\ rows[k].calls \in Int /\ rows'[k].calls = rows[k].calls
        /\ rows[k].pins \in Int /\ rows'[k].pins = rows[k].pins
        /\ rows[k].refs \in Int /\ rows'[k].refs = rows[k].refs
    BY DEF SameRows, Inv, TypedInv, RowT
  <1>2. /\ Weight(CallsAt(p, l, k)) = Weight(CallsAt(pc[t], loc[t], k))
        /\ Weight(RefersAt(p, l, k)) = Weight(RefersAt(pc[t], loc[t], k))
        /\ Weight(UnpinsAt(p, l, k)) = Weight(UnpinsAt(pc[t], loc[t], k))
    BY DEF Weight
  <1>3. CallsShift(t, p, l, k)
    BY <1>1, <1>2 DEF CallsShift, Weight
  <1>4. PinsShift(t, p, l, k)
    BY <1>1, <1>2 DEF PinsShift, Weight
  <1>5. RefsShift(t, p, l, k)
    BY <1>1, <1>2 DEF RefsShift, Weight
  <1> QED BY <1>3, <1>4, <1>5

LEMMA PermitShiftNone ==
    ASSUME Inv, NEW t \in Thread, NEW l, SamePermits, l.spare = loc[t].spare, l.res = loc[t].res,
           NEW q \in PermitId
    PROVE  PermitShift(t, l, q)
  BY DEF PermitShift, Weight, SamePermits, Inv, TypedInv, PermitT

LEMMA MembersSame ==
    ASSUME SamePermits
    PROVE  MembersStay
  BY DEF SamePermits, MembersStay

LEMMA ShedKeeps ==
    ASSUME Inv, NEW t \in Thread, Shed(t)
    PROVE  Inv'
  <1> DEFINE v == loc[t].victim
             l == loc[t]
             s == [slot[v] EXCEPT !.phase = "Cold", !.raw = NoRaw]
  <1>1. l \in Local /\ Place(pc[t], l) /\ pc[t] = "shed" /\ Entitled(t) /\ Belongs(t)
    BY DEF Inv, TypedInv, Placed, Shed
  <1>2. v \in Key
    BY <1>1 DEF Local, Place, Trims
  <1>3. Steps(t, "settle", l)
    BY DEF Steps, Shed, Goto, Inv, TypedInv
  <1>4. UNCHANGED <<rows, permits, canon, held, generation>>
    BY DEF Shed, ledgerVars, hostVars, clientVars
  <1>5. SameRows /\ SamePermits
    BY <1>4 DEF SameRows, SamePermits, Inv, TypedInv
  <1>6. "settle" \in Point
    BY DEF Point
  <1>7. Place("settle", l)
    BY <1>1 DEF Place, Aim, Trims, Calling
  <1>8. /\ slot \in [Key -> Slot] /\ slot' = IF TicketHolds(t) THEN [slot EXCEPT ![v] = s] ELSE slot
    BY DEF Shed, Inv, TypedInv
  <1>9. s \in Slot /\ s.phase = "Cold"
    BY <1>2, <1>8 DEF Slot
  <1> HIDE DEF s
  <1>10. /\ slot' \in [Key -> Slot]
         /\ \A k \in Key : slot'[k].phase = IF k = v /\ TicketHolds(t) THEN "Cold" ELSE slot[k].phase
    BY <1>2, <1>8, <1>9
  <1>11. TicketHolds(t) => slot[v].phase = "Hot" /\ Unshared(v)
    BY DEF TicketHolds
  <1>12. TypedTables
    BY <1>4, <1>10 DEF TypedTables, Inv, TypedInv
  <1>13. pc'[t] = "settle" /\ loc' = loc
    BY <1>1, <1>3, <1>6, TypedStep DEF Inv, Shed
  <1>14. ASSUME NEW k \in Key
         PROVE  /\ CallsShift(t, "settle", l, k) /\ PinsShift(t, "settle", l, k)
                /\ RefsShift(t, "settle", l, k)
    <2>1. /\ CallsAt("settle", l, k) <=> CallsAt(pc[t], loc[t], k)
          /\ RefersAt("settle", l, k) <=> RefersAt(pc[t], loc[t], k)
          /\ UnpinsAt("settle", l, k) <=> UnpinsAt(pc[t], loc[t], k)
      BY <1>1 DEF CallsAt, RefersAt, UnpinsAt, Aim, Trims, Calling
    <2> HIDE DEF l
    <2> QED BY <1>4, <1>5, <2>1, ShiftsNone DEF l
  <1>15. \A q \in PermitId : PermitShift(t, l, q)
    BY <1>5, PermitShiftNone
  <1>16. Referenced' /\ WaveLive'
    BY <1>4 DEF Referenced, WaveLive, Live, Inv
  <1>17. Entitled(t)'
    BY <1>1, <1>4, <1>13 DEF Entitled, Ends, Trims
  <1>18. Belongs(t)'
    BY <1>1, <1>4, <1>13 DEF Belongs
  <1>19. Flown'
    BY <1>10, <1>11, <1>13 DEF Flown, Loads, Inv
  <1>20. Used'
    BY <1>4, <1>10, <1>11, <1>13 DEF Used, UsesBody, Unshared, Inv
  <1>21. MembersStay
    BY <1>5, MembersSame
  <1> QED BY <1>1, <1>3, <1>4, <1>6, <1>7, <1>12, <1>14, <1>15, <1>16, <1>17, <1>18, <1>19,
             <1>20, <1>21, Moves

LEMMA CollectKeeps ==
    ASSUME Inv, NEW t \in Thread, Collect(t)
    PROVE  Inv'
  <1> DEFINE v == loc[t].victim
             l == [loc[t] EXCEPT !.raw = slot[v].raw, !.gone = rows[v].body,
                                 !.goneRaw = rows[v].raw]
  <1>1. loc[t] \in Local /\ Place(pc[t], loc[t]) /\ pc[t] = "collect" /\ Entitled(t) /\ Belongs(t)
    BY DEF Inv, TypedInv, Placed, Collect
  <1>2. v \in Key
    BY <1>1 DEF Local, Place, Trims
  <1>3. Steps(t, "drop", l)
    BY DEF Steps, Collect, Goto
  <1>4. UNCHANGED <<permits, canon, held, generation>>
    BY DEF Collect, hostVars, clientVars
  <1>5. rows[v].refs = 0
    BY DEF Collect, Collectable
  <1>6. /\ v \notin generation /\ \A u \in Thread : ~Refers(u, v) /\ v \notin held[u]
        /\ rows[v].calls = 0 /\ rows[v].pins = 0
    BY <1>2, <1>5, Unreferenced
  <1>7. slot[v].raw \in RawId \cup {NoRaw} /\ rows[v].raw \in RawId \cup {NoRaw} /\ rows[v].body \in Nat
    BY <1>2 DEF Inv, TypedInv, Slot, RowT
  <1>8. l \in Local
    BY <1>1, <1>7 DEF Local
  <1>9. /\ l.key = loc[t].key /\ l.prep = loc[t].prep /\ l.mode = loc[t].mode
        /\ l.after = loc[t].after /\ l.fin = loc[t].fin /\ l.hasBody = loc[t].hasBody
        /\ l.spare = loc[t].spare /\ l.res = loc[t].res /\ l.answer = loc[t].answer
        /\ l.victim = v
    BY <1>1 DEF Local
  <1> HIDE DEF l
  <1>10. "drop" \in Point
    BY DEF Point
  <1>11. Place("drop", l)
    BY <1>1, <1>9 DEF Place, Aim, Trims, Calling
  <1>12. rows' = [rows EXCEPT ![v] = Absent] /\ slot' = [slot EXCEPT ![v] = NewSlot]
    BY DEF Collect
  <1>13. /\ Absent \in RowT /\ Absent.refs = 0 /\ Absent.calls = 0 /\ Absent.pins = 0
         /\ Absent.wave = NoPermit
    BY DEF Absent, RowT
  <1>14. NewSlot \in Slot /\ NewSlot.phase = "Cold"
    BY ResidencyAssumption DEF NewSlot, Slot
  <1>15. rows \in [Key -> RowT] /\ slot \in [Key -> Slot]
    BY DEF Inv, TypedInv
  <1>16. /\ rows' \in [Key -> RowT] /\ rows'[v] = Absent
         /\ \A k \in Key \ {v} : rows'[k] = rows[k]
    BY <1>2, <1>12, <1>13, <1>15
  <1>17. /\ slot' \in [Key -> Slot] /\ slot'[v].phase = "Cold"
         /\ \A k \in Key \ {v} : slot'[k] = slot[k]
    BY <1>2, <1>12, <1>14, <1>15
  <1>18. TypedTables
    BY <1>4, <1>16, <1>17 DEF TypedTables, Inv, TypedInv
  <1>19. /\ pc'[t] = "drop" /\ loc'[t] = l
         /\ \A u \in Thread \ {t} : pc'[u] = pc[u] /\ loc'[u] = loc[u]
    BY <1>3, <1>8, <1>10, TypedStep DEF Inv
  <1>20. ASSUME NEW k \in Key
         PROVE  CallsShift(t, "drop", l, k) /\ PinsShift(t, "drop", l, k) /\ RefsShift(t, "drop", l, k)
    <2>1. /\ CallsAt("drop", l, k) <=> CallsAt(pc[t], loc[t], k)
          /\ RefersAt("drop", l, k) <=> RefersAt(pc[t], loc[t], k)
          /\ UnpinsAt("drop", l, k) <=> UnpinsAt(pc[t], loc[t], k)
      BY <1>1, <1>9 DEF CallsAt, RefersAt, UnpinsAt, Aim, Trims, Calling
    <2>2. /\ Weight(CallsAt("drop", l, k)) = Weight(CallsAt(pc[t], loc[t], k))
          /\ Weight(RefersAt("drop", l, k)) = Weight(RefersAt(pc[t], loc[t], k))
          /\ Weight(UnpinsAt("drop", l, k)) = Weight(UnpinsAt(pc[t], loc[t], k))
      BY <2>1 DEF Weight
    <2>3. /\ rows[k].calls \in Int /\ rows'[k].calls = rows[k].calls
          /\ rows[k].pins \in Int /\ rows'[k].pins = rows[k].pins
          /\ rows[k].refs \in Int /\ rows'[k].refs = rows[k].refs
      BY <1>5, <1>6, <1>13, <1>15, <1>16 DEF RowT
    <2>4. CallsShift(t, "drop", l, k)
      BY <2>2, <2>3 DEF CallsShift, Weight
    <2>5. PinsShift(t, "drop", l, k)
      BY <1>4, <2>2, <2>3 DEF PinsShift, Weight
    <2>6. RefsShift(t, "drop", l, k)
      BY <1>4, <2>2, <2>3 DEF RefsShift, Weight
    <2> QED BY <2>4, <2>5, <2>6
  <1>21. SamePermits
    BY <1>4 DEF SamePermits, Inv, TypedInv
  <1>22. \A q \in PermitId : PermitShift(t, l, q)
    BY <1>9, <1>21, PermitShiftNone
  <1>23. Referenced'
    BY <1>13, <1>16 DEF Referenced, Inv
  <1>24. WaveLive'
    BY <1>4, <1>13, <1>16 DEF WaveLive, Live, Inv
  <1>25. Entitled(t)'
    BY <1>1, <1>4, <1>9, <1>19 DEF Entitled, Ends, Trims
  <1>26. Belongs(t)'
    BY <1>1, <1>4, <1>9, <1>19 DEF Belongs
  <1>27. \A u \in Thread : ~(loc[u].key = v /\ loc[u].prep \in {"load", "wait"}) /\ ~UsesBody(u, v)
    <2>1. ASSUME NEW u \in Thread
          PROVE  ~(loc[u].key = v /\ loc[u].prep \in {"load", "wait"}) /\ ~UsesBody(u, v)
      <3>1. Place(pc[u], loc[u]) /\ ~Refers(u, v) /\ v \notin held[u]
        BY <1>6 DEF Inv, Placed
      <3> QED BY <3>1 DEF Place, Refers, RefersAt, UsesBody, Calling, Aim, Trims
    <2> QED BY <2>1
  <1>28. Flown'
    BY <1>9, <1>17, <1>19, <1>27 DEF Flown, Loads, Inv
  <1>29. Used'
    BY <1>4, <1>9, <1>17, <1>19, <1>27 DEF Used, UsesBody, Inv
  <1>30. MembersStay
    BY <1>21, MembersSame
  <1> QED BY <1>3, <1>4, <1>8, <1>10, <1>11, <1>18, <1>20, <1>22, <1>23, <1>24, <1>25, <1>26,
             <1>28, <1>29, <1>30, Moves

-----------------------------------------------------------------------------
(* Call::finish                                                            *)

LEMMA SettleWaveSame ==
    ASSUME Inv, NEW q \in PermitId \cup {NoPermit}, NEW hot \in BOOLEAN, NEW k \in Key,
           SettleWave(q, hot, k)
    PROVE  SamePermits
  <1> DEFINE part == IF hot THEN Min({permits[q].bytes, Observed(k)}) ELSE 0
  <1>1. permits \in [PermitId -> PermitT]
    BY DEF Inv, TypedInv
  <1>2. CASE UNCHANGED permits
    BY <1>1, <1>2 DEF SamePermits
  <1>3. CASE permits' # permits
    <2> DEFINE s == [permits[q] EXCEPT !.settled = TRUE, !.bytes = permits[q].bytes - part]
    <2>1. q \in PermitId /\ permits' = [permits EXCEPT ![q] = s]
      BY <1>1, <1>3 DEF SettleWave
    <2>2. permits[q] \in PermitT /\ permits[q].bytes \in Int
      BY <1>1, <2>1 DEF PermitT
    <2>3. part \in Int
      <3>1. Observed(k) \in Int
        BY ResidencyAssumption DEF Observed
      <3>2. \E x \in {permits[q].bytes, Observed(k)} :
              \A y \in {permits[q].bytes, Observed(k)} : x <= y
        BY <2>2, <3>1
      <3>3. Min({permits[q].bytes, Observed(k)}) \in {permits[q].bytes, Observed(k)}
        BY <3>2 DEF Min
      <3> QED BY <2>2, <3>1, <3>3
    <2> HIDE DEF part
    <2>4. s \in PermitT /\ s.refs = permits[q].refs /\ s.member = permits[q].member
      <3> DEFINE o == [permits[q] EXCEPT !.settled = TRUE]
                 d == permits[q].bytes - part
      <3>1. d \in Int
        BY <2>2, <2>3
      <3>2. o \in PermitT /\ o.refs = permits[q].refs /\ o.member = permits[q].member
        BY <2>2 DEF PermitT
      <3>3. s = [o EXCEPT !.bytes = d]
        OBVIOUS
      <3> HIDE DEF o, d, s
      <3> QED BY <3>1, <3>2, <3>3 DEF PermitT
    <2> HIDE DEF s
    <2> QED BY <1>1, <2>1, <2>4 DEF SamePermits
  <1> QED BY <1>2, <1>3

LEMMA FinishKeeps ==
    ASSUME Inv, NEW t \in Thread, NEW k \in Key, loc[t].key = k, Calling(loc[t]),
           pc[t] \in {"resolve", "overrun", "fail"}, NEW p \in {"call", "body"},
           NEW l \in Local, Steps(t, p, l), Place(p, l), l.key = k, l.prep = "done",
           l.spare = loc[t].spare, l.res = loc[t].res, l.hasBody => loc[t].hasBody,
           NEW n \in {0, 1}, NEW r \in RowT, rows' = [rows EXCEPT ![k] = r],
           r.calls = rows[k].calls - 1, r.pins = rows[k].pins + n, r.refs = rows[k].refs + n,
           r.wave \in {rows[k].wave, NoPermit}, r.present = rows[k].present,
           SamePermits, canon' \in [Key -> RawId \cup {NoRaw}], UNCHANGED <<slot, generation>>,
           held' = IF n = 1 THEN [held EXCEPT ![t] = @ \cup {k}] ELSE held,
           n = 1 => loc[t].hasBody /\ Ends(p, l),
           loc[t].prep \in {"ready", "failed"}
    PROVE  Inv'
  <1>1. loc[t] \in Local /\ Place(pc[t], loc[t]) /\ Entitled(t) /\ Belongs(t)
    BY DEF Inv, TypedInv, Placed
  <1>2. p \in Point
    BY DEF Point
  <1>3. pc'[t] = p /\ loc'[t] = l
    BY <1>2, TypedStep DEF Inv
  <1>4. ~Ends(pc[t], loc[t]) /\ k # NoKey
    BY ResidencyAssumption DEF Ends, Trims
  <1>5. k \in generation /\ k \notin held[t]
    BY <1>1, <1>4 DEF Entitled
  <1>6. rows \in [Key -> RowT] /\ held \in [Thread -> SUBSET Key]
    BY DEF Inv, TypedInv
  <1>7. /\ rows' \in [Key -> RowT] /\ rows'[k] = r
        /\ \A j \in Key \ {k} : rows'[j] = rows[j]
    BY <1>6
  <1>8. /\ held' \in [Thread -> SUBSET Key]
        /\ \A u \in Thread \ {t} : held'[u] = held[u]
        /\ held'[t] = IF n = 1 THEN held[t] \cup {k} ELSE held[t]
    BY <1>6
  <1>9. TypedTables /\ SamePhases
    BY <1>7, <1>8 DEF TypedTables, SamePhases, SamePermits, Inv, TypedInv
  <1>10. ASSUME NEW j \in Key
         PROVE  CallsShift(t, p, l, j) /\ PinsShift(t, p, l, j) /\ RefsShift(t, p, l, j)
    <2>1. /\ rows[j].calls \in Int /\ rows[j].pins \in Int /\ rows[j].refs \in Int
          /\ rows'[j].calls = rows[j].calls - Weight(j = k)
          /\ rows'[j].pins = rows[j].pins + (IF j = k THEN n ELSE 0)
          /\ rows'[j].refs = rows[j].refs + (IF j = k THEN n ELSE 0)
      BY <1>6, <1>7 DEF RowT, Weight
    <2>2. /\ ~CallsAt(p, l, j) /\ (CallsAt(pc[t], loc[t], j) <=> j = k)
          /\ ~UnpinsAt(p, l, j) /\ ~UnpinsAt(pc[t], loc[t], j)
          /\ (RefersAt(p, l, j) <=> j = k) /\ (RefersAt(pc[t], loc[t], j) <=> j = k)
      BY DEF CallsAt, UnpinsAt, RefersAt, Aim, Trims, Calling
    <2>3. Weight(j \in held'[t]) - Weight(j \in held[t]) = IF j = k THEN n ELSE 0
      BY <1>5, <1>8 DEF Weight
    <2>4. CallsShift(t, p, l, j)
      BY <2>1, <2>2 DEF CallsShift, Weight
    <2>5. PinsShift(t, p, l, j)
      BY <2>1, <2>2, <2>3 DEF PinsShift, Weight
    <2>6. RefsShift(t, p, l, j)
      <3>1. Weight(RefersAt(p, l, j)) = Weight(RefersAt(pc[t], loc[t], j))
        BY <2>2 DEF Weight
      <3>2. rows'[j].refs - rows[j].refs = IF j = k THEN n ELSE 0
        BY <2>1
      <3>3. Weight(j \in held'[t]) \in Int /\ Weight(j \in held[t]) \in Int
            /\ Weight(RefersAt(pc[t], loc[t], j)) \in Int /\ Weight(j \in generation) \in Int
        BY DEF Weight
      <3> QED BY <2>3, <3>1, <3>2, <3>3 DEF RefsShift
    <2> QED BY <2>4, <2>5, <2>6
  <1>11. \A q \in PermitId : PermitShift(t, l, q)
    BY PermitShiftNone
  <1>12. Referenced'
    <2>1. Refers(t, k)
      BY DEF Refers, RefersAt
    <2>2. rows[k].present
      BY <2>1, InLedger
    <2> QED BY <1>7, <2>2 DEF Referenced, Inv
  <1>13. Entitled(t)'
    BY <1>3, <1>5, <1>8 DEF Entitled
  <1>14. Belongs(t)'
    BY <1>1, <1>3 DEF Belongs, SamePermits, Local
  <1>15. WaveLive'
    <2>1. ASSUME NEW j \in Key, rows'[j].wave # NoPermit
          PROVE  rows'[j].wave \in Live' /\ permits'[rows'[j].wave].member = j
      <3>1. rows'[j].wave = rows[j].wave
        BY <1>7, <2>1
      <3> QED BY <2>1, <3>1 DEF Inv, WaveLive, Live, SamePermits
    <2> QED BY <2>1 DEF WaveLive
  <1>16. Flown'
    BY <1>2, <1>9, FlightsStay
  <1>17. Used'
    BY <1>2, <1>8, <1>9, BodiesStay DEF UsesBody
  <1>18. MembersStay
    BY MembersSame
  <1> QED BY <1>2, <1>8, <1>9, <1>10, <1>11, <1>12, <1>13, <1>14, <1>15, <1>16, <1>17, <1>18, Moves

(* What a finish with the body does to the row and the tables.             *)
LEMMA FinishHotTables ==
    ASSUME Inv, NEW t \in Thread, NEW k \in Key, loc[t].key = k, NEW n \in {0, 1}, FinishHot(t, n)
    PROVE  /\ SamePermits /\ canon' \in [Key -> RawId \cup {NoRaw}]
           /\ UNCHANGED <<slot, generation>>
           /\ \E r \in RowT : /\ rows' = [rows EXCEPT ![k] = r]
                              /\ r.calls = rows[k].calls - 1 /\ r.pins = rows[k].pins + n
                              /\ r.refs = rows[k].refs + n
                              /\ r.wave \in {rows[k].wave, NoPermit}
                              /\ r.present = rows[k].present
  <1> DEFINE first == rows[k].body = 0
             a == IF first THEN slot[k].raw ELSE rows[k].raw
             b == IF first THEN TreeSize[k] ELSE rows[k].body
             w == IF rows[k].calls = 1 THEN NoPermit ELSE rows[k].wave
             m == [rows[k] EXCEPT !.raw = a, !.body = b]
             r == [m EXCEPT !.calls = rows[k].calls - 1, !.pins = rows[k].pins + n,
                            !.refs = rows[k].refs + n, !.wave = w]
  <1>1. rows \in [Key -> RowT] /\ slot \in [Key -> Slot] /\ loc[t] \in Local
    BY DEF Inv, TypedInv
  <1>2. SamePermits
    BY <1>1, SettleWaveSame DEF FinishHot, Local
  <1>3. slot[k].raw \in RawId \cup {NoRaw}
    BY <1>1 DEF Slot
  <1>4. canon' \in [Key -> RawId \cup {NoRaw}]
    BY <1>3, AddRawCanon DEF FinishHot, Inv, TypedInv
  <1>5. UNCHANGED <<slot, generation>>
    BY DEF FinishHot, hostVars
  <1>6. rows' = [rows EXCEPT ![k] = [rows[k] EXCEPT !.raw = a, !.body = b,
                     !.calls = rows[k].calls - 1, !.pins = rows[k].pins + n,
                     !.refs = rows[k].refs + n, !.wave = w]]
    BY <1>1, ZenonT(30) DEF FinishHot
  <1>7. /\ rows[k] \in RowT /\ a \in RawId \cup {NoRaw} /\ b \in Nat /\ w \in PermitId \cup {NoPermit}
        /\ w \in {rows[k].wave, NoPermit}
        /\ rows[k].calls \in Int /\ rows[k].pins \in Int /\ rows[k].refs \in Int
    BY <1>1, <1>3, ResidencyAssumption DEF RowT
  <1> HIDE DEF a, b, w
  <1>8. rows' = [rows EXCEPT ![k] = r]
    BY <1>6
  <1>9. /\ m \in RowT /\ m.calls = rows[k].calls /\ m.pins = rows[k].pins
        /\ m.refs = rows[k].refs /\ m.present = rows[k].present
    BY <1>7 DEF RowT
  <1> HIDE DEF m
  <1>10. /\ r \in RowT /\ r.calls = rows[k].calls - 1 /\ r.pins = rows[k].pins + n
         /\ r.refs = rows[k].refs + n /\ r.wave = w /\ r.present = rows[k].present
    <2> DEFINE c == rows[k].calls - 1
               i == rows[k].pins + n
               e == rows[k].refs + n
               o == [m EXCEPT !.calls = c, !.wave = w]
    <2>1. c \in Int /\ i \in Int /\ e \in Int
      BY <1>7
    <2>2. r = [o EXCEPT !.pins = i, !.refs = e]
      OBVIOUS
    <2> HIDE DEF c, i, e
    <2>3. o \in RowT /\ o.calls = c /\ o.wave = w /\ o.present = rows[k].present
      BY <1>7, <1>9, <2>1 DEF RowT
    <2> HIDE DEF o, r
    <2>4. r \in RowT /\ r.calls = c /\ r.pins = i /\ r.refs = e /\ r.wave = w
          /\ r.present = rows[k].present
      BY <2>1, <2>2, <2>3 DEF RowT
    <2> QED BY <2>4 DEF c, i, e
  <1> HIDE DEF r
  <1> QED BY <1>2, <1>4, <1>5, <1>7, <1>8, <1>10

LEMMA FinishPinKeeps ==
    ASSUME Inv, NEW t \in Thread, FinishPin(t)
    PROVE  Inv'
  <1> DEFINE k == loc[t].key
             m == [loc[t] EXCEPT !.hasBody = FALSE, !.prep = "done"]
             l == [m EXCEPT !.fin = "idle"]
  <1>1. /\ loc[t] \in Local /\ Place(pc[t], loc[t])
        /\ pc[t] = "resolve" /\ loc[t].prep = "ready"
    BY DEF Inv, TypedInv, Placed, FinishPin, Resolving
  <1>2. k \in Key
    BY <1>1 DEF Local, Place, Aim, Trims
  <1>3. Steps(t, "call", l)
    BY DEF Steps, FinishPin, Goto
  <1>4. /\ SamePermits /\ canon' \in [Key -> RawId \cup {NoRaw}] /\ UNCHANGED <<slot, generation>>
        /\ \E r \in RowT : /\ rows' = [rows EXCEPT ![k] = r]
                           /\ r.calls = rows[k].calls - 1 /\ r.pins = rows[k].pins + 1
                           /\ r.refs = rows[k].refs + 1
                           /\ r.wave \in {rows[k].wave, NoPermit}
                           /\ r.present = rows[k].present
    BY <1>2, FinishHotTables DEF FinishPin
  <1>5. PICK r \in RowT : /\ rows' = [rows EXCEPT ![k] = r]
                          /\ r.calls = rows[k].calls - 1 /\ r.pins = rows[k].pins + 1
                          /\ r.refs = rows[k].refs + 1
                          /\ r.wave \in {rows[k].wave, NoPermit}
                          /\ r.present = rows[k].present
    BY <1>4
  <1>6. m \in Local
    BY <1>1 DEF Local
  <1>7. /\ m.key = k /\ m.prep = "done" /\ m.mode = loc[t].mode
        /\ m.after = loc[t].after /\ m.hasBody = FALSE
        /\ m.spare = loc[t].spare /\ m.res = loc[t].res /\ m.answer = loc[t].answer
    BY <1>1 DEF Local
  <1> HIDE DEF m
  <1>8. l \in Local
    BY <1>6 DEF Local, Point
  <1>9. /\ l.key = k /\ l.prep = "done" /\ l.mode = loc[t].mode
        /\ l.after = loc[t].after /\ l.fin = "idle" /\ l.hasBody = FALSE
        /\ l.spare = loc[t].spare /\ l.res = loc[t].res /\ l.answer = loc[t].answer
    BY <1>6, <1>7 DEF Local
  <1> HIDE DEF l
  <1>10. Place("call", l)
    BY <1>1, <1>2, <1>9, ResidencyAssumption DEF Place, Aim, Trims, Calling
  <1>11. Ends("call", l)
    BY <1>1, <1>9 DEF Ends, Place, Trims
  <1>12. loc[t].hasBody /\ Calling(loc[t])
    BY <1>1 DEF Place, Calling
  <1>13. held' = [held EXCEPT ![t] = @ \cup {k}]
    BY DEF FinishPin
  <1> HIDE DEF k
  <1>14. loc[t].key = k
    BY DEF k
  <1> QED BY <1>1, <1>2, <1>3, <1>4, <1>5, <1>8, <1>9, <1>10, <1>11, <1>12, <1>13, <1>14, FinishKeeps

LEMMA FinishOverrunKeeps ==
    ASSUME Inv, NEW t \in Thread, FinishOverrun(t)
    PROVE  Inv'
  <1> DEFINE k == loc[t].key
             f == IF loc[t].again THEN "answer" ELSE "begin"
             a == IF loc[t].again THEN "PeakExceeded" ELSE "none"
             m == [loc[t] EXCEPT !.prep = "done", !.fin = f]
             l == [m EXCEPT !.answer = a, !.again = TRUE]
  <1>1. /\ loc[t] \in Local /\ Place(pc[t], loc[t])
        /\ pc[t] = "overrun" /\ loc[t].prep = "ready"
    BY DEF Inv, TypedInv, Placed, FinishOverrun, Place
  <1>2. k \in Key
    BY <1>1 DEF Local, Place, Aim, Trims
  <1>3. Steps(t, "body", l)
    BY DEF Steps, FinishOverrun, Goto
  <1>4. /\ SamePermits /\ canon' \in [Key -> RawId \cup {NoRaw}] /\ UNCHANGED <<slot, generation>>
        /\ \E r \in RowT : /\ rows' = [rows EXCEPT ![k] = r]
                           /\ r.calls = rows[k].calls - 1 /\ r.pins = rows[k].pins + 0
                           /\ r.refs = rows[k].refs + 0
                           /\ r.wave \in {rows[k].wave, NoPermit}
                           /\ r.present = rows[k].present
    BY <1>2, FinishHotTables DEF FinishOverrun
  <1>5. PICK r \in RowT : /\ rows' = [rows EXCEPT ![k] = r]
                          /\ r.calls = rows[k].calls - 1 /\ r.pins = rows[k].pins + 0
                          /\ r.refs = rows[k].refs + 0
                          /\ r.wave \in {rows[k].wave, NoPermit}
                          /\ r.present = rows[k].present
    BY <1>4
  <1>6. f \in Point /\ a \in Reply /\ f \in {"answer", "begin"}
    BY DEF Point, Reply
  <1> HIDE DEF f, a
  <1>7. m \in Local
    BY <1>1, <1>6 DEF Local
  <1>8. /\ m.key = k /\ m.prep = "done" /\ m.mode = loc[t].mode /\ m.fin = f
        /\ m.after = loc[t].after /\ m.hasBody = loc[t].hasBody
        /\ m.spare = loc[t].spare /\ m.res = loc[t].res
    BY <1>1 DEF Local
  <1> HIDE DEF m
  <1>9. l \in Local
    BY <1>6, <1>7 DEF Local
  <1>10. /\ l.key = k /\ l.prep = "done" /\ l.mode = loc[t].mode
         /\ l.after = loc[t].after /\ l.fin = f /\ l.hasBody = loc[t].hasBody
         /\ l.spare = loc[t].spare /\ l.res = loc[t].res
    BY <1>7, <1>8 DEF Local
  <1> HIDE DEF l
  <1>11. Place("body", l)
    BY <1>1, <1>2, <1>6, <1>10, ResidencyAssumption DEF Place, Aim, Trims, Calling
  <1>12. Calling(loc[t])
    BY <1>1 DEF Calling
  <1>13. /\ held' = IF 0 = 1 THEN [held EXCEPT ![t] = @ \cup {k}] ELSE held
         /\ 0 = 1 => loc[t].hasBody /\ Ends("body", l)
         /\ 0 \in {0, 1}
    BY DEF FinishOverrun, clientVars
  <1> HIDE DEF k
  <1>14. loc[t].key = k
    BY DEF k
  <1> QED BY <1>1, <1>2, <1>3, <1>4, <1>5, <1>9, <1>10, <1>11, <1>12, <1>13, <1>14, FinishKeeps

LEMMA FinishFailKeeps ==
    ASSUME Inv, NEW t \in Thread, FinishFail(t)
    PROVE  Inv'
  <1> DEFINE k == loc[t].key
             id == loc[t].raw
             first == id # NoRaw /\ rows[k].body = 0
             body == IF first /\ loc[t].snap = "Hot" THEN TreeSize[k] ELSE 0
             last == rows[k].calls = 1
             a == IF first THEN id ELSE rows[k].raw
             b == rows[k].body + body
             w == IF last THEN NoPermit ELSE rows[k].wave
             f == IF loc[t].res = NoPermit THEN "idle" ELSE "holding"
             m == [loc[t] EXCEPT !.raw = NoRaw, !.prep = "done"]
             l == [m EXCEPT !.fin = f]
             o == [rows[k] EXCEPT !.raw = a, !.body = b]
             c == rows[k].calls - 1
             r == [o EXCEPT !.calls = c, !.wave = w]
  <1>1. /\ loc[t] \in Local /\ Place(pc[t], loc[t])
        /\ pc[t] = "fail" /\ loc[t].prep = "failed"
    BY DEF Inv, TypedInv, Placed, FinishFail, Place
  <1>2. k \in Key /\ id \in RawId \cup {NoRaw}
    BY <1>1 DEF Local, Place, Aim, Trims
  <1>3. Steps(t, "call", l)
    BY DEF Steps, FinishFail, Goto
  <1>4. UNCHANGED <<slot, generation, held>>
    BY DEF FinishFail, hostVars, clientVars
  <1>5. rows \in [Key -> RowT]
    BY DEF Inv, TypedInv
  <1>6. SamePermits
    <2>1. CASE UNCHANGED permits
      BY <2>1 DEF SamePermits, Inv, TypedInv
    <2>2. CASE SettleWave(loc[t].res, loc[t].snap = "Hot", k)
      <3>1. loc[t].res \in PermitId \cup {NoPermit}
        BY <1>1 DEF Local
      <3> HIDE DEF k
      <3>2. (loc[t].snap = "Hot") \in BOOLEAN
        OBVIOUS
      <3> QED BY <1>2, <2>2, <3>1, <3>2, SettleWaveSame
    <2> QED BY <2>1, <2>2 DEF FinishFail
  <1>7. canon' \in [Key -> RawId \cup {NoRaw}]
    BY <1>2, AddRawCanon DEF FinishFail, Inv, TypedInv
  <1>8. rows' = [rows EXCEPT ![k] = [rows[k] EXCEPT !.raw = a, !.body = b, !.calls = c, !.wave = w]]
    BY <1>5 DEF FinishFail
  <1>9. /\ rows[k] \in RowT /\ a \in RawId \cup {NoRaw} /\ b \in Nat /\ c \in Int
        /\ w \in PermitId \cup {NoPermit} /\ w \in {rows[k].wave, NoPermit}
        /\ rows[k].pins \in Int /\ rows[k].refs \in Int
    <2>1. /\ rows[k] \in RowT /\ rows[k].raw \in RawId \cup {NoRaw} /\ rows[k].body \in Nat
          /\ rows[k].calls \in Int /\ rows[k].wave \in PermitId \cup {NoPermit}
          /\ rows[k].pins \in Int /\ rows[k].refs \in Int
      BY <1>2, <1>5 DEF RowT
    <2>2. body \in Nat
      BY <1>2, ResidencyAssumption
    <2> HIDE DEF body, first
    <2> QED BY <1>2, <2>1, <2>2
  <1>10. f \in Point /\ f \in {"idle", "holding"} /\ (f = "holding" => loc[t].res # NoPermit)
         /\ (f = "idle" => loc[t].res = NoPermit)
    BY DEF Point
  <1>11. c = rows[k].calls - 1
    OBVIOUS
  <1> HIDE DEF first, body, last, a, b, c, w, f
  <1>12. rows' = [rows EXCEPT ![k] = r]
    BY <1>8
  <1>13. /\ o \in RowT /\ o.pins = rows[k].pins
         /\ o.refs = rows[k].refs /\ o.present = rows[k].present
    BY <1>9 DEF RowT
  <1> HIDE DEF o
  <1>14. /\ r \in RowT /\ r.calls = c /\ r.wave = w /\ r.pins = rows[k].pins
         /\ r.refs = rows[k].refs /\ r.present = rows[k].present
    BY <1>9, <1>13 DEF RowT
  <1> HIDE DEF r
  <1>15. m \in Local
    BY <1>1 DEF Local
  <1>16. /\ m.key = k /\ m.prep = "done" /\ m.mode = loc[t].mode
         /\ m.after = loc[t].after /\ m.hasBody = loc[t].hasBody
         /\ m.spare = loc[t].spare /\ m.res = loc[t].res /\ m.answer = loc[t].answer
    BY <1>1 DEF Local
  <1> HIDE DEF m
  <1>17. l \in Local
    BY <1>10, <1>15 DEF Local
  <1>18. /\ l.key = k /\ l.prep = "done" /\ l.mode = loc[t].mode
         /\ l.after = loc[t].after /\ l.fin = f /\ l.hasBody = loc[t].hasBody
         /\ l.spare = loc[t].spare /\ l.res = loc[t].res /\ l.answer = loc[t].answer
    BY <1>15, <1>16 DEF Local
  <1> HIDE DEF l
  <1>19. Place("call", l)
    BY <1>1, <1>2, <1>10, <1>18, ResidencyAssumption DEF Place, Aim, Trims, Calling
  <1>20. Calling(loc[t])
    BY <1>1 DEF Calling
  <1>21. r.pins = rows[k].pins + 0 /\ r.refs = rows[k].refs + 0 /\ r.calls = rows[k].calls - 1
         /\ r.wave \in {rows[k].wave, NoPermit}
    BY <1>9, <1>11, <1>14
  <1>22. /\ held' = IF 0 = 1 THEN [held EXCEPT ![t] = @ \cup {k}] ELSE held
         /\ 0 = 1 => loc[t].hasBody /\ Ends("call", l)
         /\ 0 \in {0, 1}
    BY <1>4
  <1> HIDE DEF k
  <1>23. loc[t].key = k
    BY DEF k
  <1> QED BY <1>1, <1>2, <1>3, <1>4, <1>6, <1>7, <1>12, <1>14, <1>17, <1>18, <1>19, <1>20, <1>21,
             <1>22, <1>23, FinishKeeps

-----------------------------------------------------------------------------
(* Resident::prepare                                                       *)

(* A thread prepared: what it found tells what it is, and only a cold slot *)
(* moves, to the flight of this thread.                                    *)
Prepared(t, k, p, l) ==
    /\ l.key = k /\ l.prep \in {"ready", "wait", "load", "failed"}
    /\ l.hasBody <=> l.prep = "ready"
    /\ p = (IF l.spare # NoPermit THEN "spare" ELSE "resolve")
    /\ slot' \in [Key -> Slot]
    /\ \A j \in Key \ {k} : slot'[j] = slot[j]
    /\ l.prep = "ready" => slot[k].phase = "Hot"
    /\ l.prep = "wait" => slot[k].phase = "Loading"
    /\ l.prep = "load" => slot[k].phase = "Cold" /\ slot'[k].phase = "Loading"
    /\ l.prep # "load" => slot'[k].phase = slot[k].phase

LEMMA PrepareOutcome ==
    ASSUME Inv, NEW t \in Thread, NEW m \in Local, NEW k \in Key, m.key = k,
           NEW s \in Slot, s.phase = slot[k].phase, Prepare(t, m, s)
    PROVE  \E p \in Point, l \in Local :
             /\ Steps(t, p, l) /\ Prepared(t, k, p, l)
             /\ l.spare = m.spare /\ l.res = m.res /\ l.mode = m.mode /\ l.after = m.after
             /\ l.fin = m.fin /\ l.answer = m.answer
  <1> DEFINE bumps == m.access = "Read" \/ s.phase = "Cold"
             spent == bumps /\ s.revision = MaxRevision
             reuse == IF s.lastRaw # NoRaw /\ Alive(s.lastRaw) THEN s.lastRaw ELSE NoRaw
             n == s.revision + 1
             moved == IF bumps /\ ~spent THEN [s EXCEPT !.revision = n] ELSE s
             cold == s.phase = "Cold" /\ ~spent
             z == IF cold THEN [moved EXCEPT !.phase = "Loading", !.lastRaw = reuse] ELSE moved
             a == IF spent THEN "failed" ELSE Outcome(s)
             b == s.phase = "Hot" /\ ~spent
             c == IF cold THEN reuse ELSE NoRaw
             h == [m EXCEPT !.prep = a]
             i == [h EXCEPT !.hasBody = b]
             l == [i EXCEPT !.raw = c]
             p == IF m.spare # NoPermit THEN "spare" ELSE "resolve"
  <1>1. slot' = [slot EXCEPT ![k] = z]
    BY DEF Prepare
  <1>2. loc' = [loc EXCEPT ![t] = l] /\ pc' = [pc EXCEPT ![t] = p]
    BY DEF Prepare, Goto
  <1>3. /\ s.phase \in {"Cold", "Loading", "Hot"} /\ s.revision \in 0..MaxRevision
        /\ s.raw \in RawId \cup {NoRaw} /\ s.lastRaw \in RawId \cup {NoRaw}
        /\ slot \in [Key -> Slot]
    BY DEF Slot, Inv, TypedInv
  <1>4. reuse \in RawId \cup {NoRaw}
    BY <1>3
  <1>5. moved \in Slot /\ moved.phase = s.phase
    <2>1. bumps /\ ~spent => n \in 0..MaxRevision
      BY <1>3, ResidencyAssumption
    <2> HIDE DEF bumps, spent, n
    <2> QED BY <2>1 DEF Slot
  <1>6. /\ a \in {"ready", "wait", "load", "failed"} /\ b \in BOOLEAN
        /\ b <=> a = "ready"
        /\ cold <=> a = "load"
        /\ a = "ready" => s.phase = "Hot"
        /\ a = "wait" => s.phase = "Loading"
        /\ a = "load" => s.phase = "Cold"
    BY <1>3 DEF Outcome
  <1>7. c \in RawId \cup {NoRaw}
    BY <1>4
  <1>8. z \in Slot /\ z.phase = IF a = "load" THEN "Loading" ELSE s.phase
    <2> HIDE DEF moved, reuse, cold, a
    <2> QED BY <1>4, <1>5, <1>6 DEF Slot
  <1> HIDE DEF bumps, spent, reuse, n, moved, cold, z, a, b, c
  <1>9. /\ slot' \in [Key -> Slot] /\ slot'[k] = z /\ \A j \in Key \ {k} : slot'[j] = slot[j]
    BY <1>1, <1>3, <1>8
  <1>10. /\ h \in Local /\ h.prep = a /\ h.key = k /\ h.spare = m.spare /\ h.res = m.res
         /\ h.mode = m.mode /\ h.after = m.after /\ h.fin = m.fin /\ h.answer = m.answer
    BY <1>6 DEF Local
  <1> HIDE DEF h
  <1>11. /\ i \in Local /\ i.hasBody = b /\ i.prep = a /\ i.key = k /\ i.spare = m.spare
         /\ i.res = m.res /\ i.mode = m.mode /\ i.after = m.after /\ i.fin = m.fin
         /\ i.answer = m.answer
    BY <1>6, <1>10 DEF Local
  <1> HIDE DEF i
  <1>12. /\ l \in Local /\ l.hasBody = b /\ l.prep = a /\ l.key = k /\ l.spare = m.spare
         /\ l.res = m.res /\ l.mode = m.mode /\ l.after = m.after /\ l.fin = m.fin
         /\ l.answer = m.answer
    BY <1>7, <1>11 DEF Local
  <1> HIDE DEF l
  <1>13. p \in Point /\ p = (IF l.spare # NoPermit THEN "spare" ELSE "resolve")
    BY <1>12 DEF Point
  <1> HIDE DEF p
  <1>14. Steps(t, p, l)
    BY <1>2 DEF Steps
  <1>15. Prepared(t, k, p, l)
    BY <1>6, <1>8, <1>9, <1>12, <1>13 DEF Prepared
  <1> QED BY <1>12, <1>13, <1>14, <1>15

LEMMA PreparedFlights ==
    ASSUME Inv, NEW t \in Thread, NEW k \in Key, NEW p \in Point, NEW l \in Local,
           Steps(t, p, l), Prepared(t, k, p, l), loc[t].prep = "none", held' = held
    PROVE  Flown' /\ Used'
  <1>1. /\ pc'[t] = p /\ loc'[t] = l
        /\ \A u \in Thread \ {t} : pc'[u] = pc[u] /\ loc'[u] = loc[u]
    BY TypedStep DEF Inv
  <1>2. ASSUME NEW u \in Thread, NEW j \in Key, loc'[u].key = j, loc'[u].prep \in {"load", "wait"}
        PROVE  slot'[j].phase = "Loading"
    BY <1>1, <1>2 DEF Prepared, Flown, Inv
  <1>3. ASSUME NEW u \in Thread, NEW v \in Thread, NEW j \in Key, Loads(u, j)', Loads(v, j)'
        PROVE  u = v
    <2>1. CASE u # t /\ v # t
      BY <1>1, <1>3, <2>1 DEF Loads, Flown, Inv
    <2>2. CASE u = t /\ v # t
      <3>1. j = k /\ slot[k].phase = "Cold" /\ Loads(v, k)
        BY <1>1, <1>3, <2>2 DEF Loads, Prepared
      <3> QED BY <3>1 DEF Flown, Inv, Loads
    <2>3. CASE v = t /\ u # t
      <3>1. j = k /\ slot[k].phase = "Cold" /\ Loads(u, k)
        BY <1>1, <1>3, <2>3 DEF Loads, Prepared
      <3> QED BY <3>1 DEF Flown, Inv, Loads
    <2> QED BY <2>1, <2>2, <2>3
  <1>4. ASSUME NEW j \in Key, slot'[j].phase = "Loading"
        PROVE  \E u \in Thread : Loads(u, j)'
    <2>1. CASE j = k /\ l.prep = "load"
      BY <1>1, <2>1 DEF Loads, Prepared
    <2>2. CASE ~(j = k /\ l.prep = "load")
      <3>1. slot[j].phase = "Loading"
        BY <1>4, <2>2 DEF Prepared
      <3>2. PICK u \in Thread : Loads(u, j)
        BY <3>1 DEF Inv, Flown
      <3>3. u # t
        BY <3>2 DEF Loads
      <3> QED BY <1>1, <3>2, <3>3 DEF Loads
    <2> QED BY <2>1, <2>2
  <1>5. Flown'
    BY <1>2, <1>3, <1>4 DEF Flown
  <1>6. ASSUME NEW u \in Thread, NEW j \in Key, UsesBody(u, j)'
        PROVE  slot'[j].phase = "Hot"
    <2>1. j \in held[u] \/ (loc'[u].key = j /\ loc'[u].hasBody)
      BY <1>6 DEF UsesBody
    <2>2. CASE u = t /\ l.key = j /\ l.hasBody
      BY <2>2 DEF Prepared
    <2>3. CASE ~(u = t /\ l.key = j /\ l.hasBody)
      <3>1. UsesBody(u, j)
        BY <1>1, <2>1, <2>3 DEF UsesBody
      <3>2. slot[j].phase = "Hot"
        BY <3>1 DEF Inv, Used
      <3> QED BY <3>2 DEF Prepared
    <2> QED BY <2>2, <2>3
  <1>7. Used'
    BY <1>6 DEF Used
  <1> QED BY <1>5, <1>7

LEMMA PrepareJoinKeeps ==
    ASSUME Inv, NEW t \in Thread, PrepareJoin(t)
    PROVE  Inv'
  <1> DEFINE k == loc[t].key
  <1>1. /\ loc[t] \in Local /\ Place(pc[t], loc[t]) /\ pc[t] = "prepare" /\ Entitled(t)
        /\ Belongs(t)
    BY DEF Inv, TypedInv, Placed, PrepareJoin
  <1>2. k \in Key /\ loc[t].prep = "none"
    BY <1>1 DEF Local, Place, Aim, Trims
  <1>3. slot[k] \in Slot
    BY <1>2 DEF Inv, TypedInv
  <1>4. Prepare(t, loc[t], slot[k])
    BY DEF PrepareJoin
  <1>5. PICK p \in Point, l \in Local :
             /\ Steps(t, p, l) /\ Prepared(t, k, p, l)
             /\ l.spare = loc[t].spare /\ l.res = loc[t].res /\ l.mode = loc[t].mode
             /\ l.after = loc[t].after /\ l.fin = loc[t].fin /\ l.answer = loc[t].answer
    BY <1>1, <1>2, <1>3, <1>4, PrepareOutcome
  <1>6. UNCHANGED <<rows, permits, canon, held, generation>>
    BY DEF PrepareJoin, ledgerVars, hostVars, clientVars
  <1>7. SameRows /\ SamePermits
    BY <1>6 DEF SameRows, SamePermits, Inv, TypedInv
  <1>8. TypedTables
    BY <1>5, <1>6 DEF TypedTables, Prepared, Inv, TypedInv
  <1>9. /\ l.key = k /\ l.prep \in {"ready", "wait", "load", "failed"}
        /\ l.hasBody <=> l.prep = "ready"
        /\ p = (IF l.spare # NoPermit THEN "spare" ELSE "resolve")
    BY <1>5 DEF Prepared
  <1>10. Place(p, l)
    BY <1>1, <1>2, <1>5, <1>9, ResidencyAssumption DEF Place, Aim, Trims, Calling
  <1>11. pc'[t] = p /\ loc'[t] = l
    BY <1>5, TypedStep DEF Inv
  <1>12. ASSUME NEW j \in Key
         PROVE  CallsShift(t, p, l, j) /\ PinsShift(t, p, l, j) /\ RefsShift(t, p, l, j)
    <2>1. /\ CallsAt(p, l, j) <=> CallsAt(pc[t], loc[t], j)
          /\ RefersAt(p, l, j) <=> RefersAt(pc[t], loc[t], j)
          /\ UnpinsAt(p, l, j) <=> UnpinsAt(pc[t], loc[t], j)
      BY <1>1, <1>2, <1>9 DEF CallsAt, RefersAt, UnpinsAt, Aim, Trims, Calling
    <2> QED BY <1>5, <1>6, <1>7, <2>1, ShiftsNone
  <1>13. \A q \in PermitId : PermitShift(t, l, q)
    BY <1>5, <1>7, PermitShiftNone
  <1>14. Referenced' /\ WaveLive'
    BY <1>6 DEF Referenced, WaveLive, Live, Inv
  <1>15. Entitled(t)'
    <2>1. ~Ends(pc[t], loc[t])
      BY <1>1 DEF Ends, Trims
    <2> QED BY <1>1, <1>2, <1>6, <1>9, <1>11, <2>1, ResidencyAssumption DEF Entitled
  <1>16. Belongs(t)'
    BY <1>1, <1>5, <1>6, <1>9, <1>11 DEF Belongs
  <1>17. Flown' /\ Used'
    BY <1>2, <1>5, <1>6, PreparedFlights
  <1>18. MembersStay
    BY <1>7, MembersSame
  <1> QED BY <1>5, <1>6, <1>8, <1>10, <1>12, <1>13, <1>14, <1>15, <1>16, <1>17, <1>18, Moves

-----------------------------------------------------------------------------
(* Entering a call                                                         *)

LEMMA EnteredKeeps ==
    ASSUME Inv, NEW t \in Thread, pc[t] = "begin", NEW k \in Key, loc[t].key = k,
           NEW opens \in BOOLEAN, NEW q \in PermitId \cup {NoPermit},
           opens => q = loc[t].spare /\ q # NoPermit,
           ~opens => q = rows[k].wave,
           permits' = (IF opens \/ q = NoPermit THEN permits
                       ELSE [permits EXCEPT ![q] = [permits[q] EXCEPT !.refs = permits[q].refs + 1]]),
           rows' = [rows EXCEPT ![k] = [rows[k] EXCEPT !.calls = rows[k].calls + 1,
                                         !.refs = rows[k].refs + 1, !.wave = q]],
           UNCHANGED <<canon, held, generation>>, slot' \in [Key -> Slot], Flown', Used',
           NEW p \in Point, NEW l \in Local, Steps(t, p, l),
           l.key = k, l.res = q, l.spare = (IF opens THEN NoPermit ELSE loc[t].spare),
           l.mode = loc[t].mode, l.after = loc[t].after, l.fin = loc[t].fin,
           l.answer = loc[t].answer,
           \/ p = "prepare" /\ l.prep = "none" /\ l.hasBody = FALSE
           \/ /\ l.prep \in {"ready", "wait", "load", "failed"}
              /\ l.hasBody <=> l.prep = "ready"
              /\ p = (IF l.spare # NoPermit THEN "spare" ELSE "resolve")
    PROVE  Inv'
  <1>1. loc[t] \in Local /\ Place("begin", loc[t]) /\ Entitled(t) /\ Belongs(t)
    BY DEF Inv, TypedInv, Placed
  <1>2. loc[t].prep = "none" /\ loc[t].res = NoPermit /\ loc[t].hasBody = FALSE
    BY <1>1 DEF Place, Aim, Trims, Calling, Local
  <1>3. k # NoKey /\ k \in generation /\ k \notin held[t]
    BY <1>1, ResidencyAssumption DEF Entitled, Ends, Trims
  <1>4. Place(p, l)
    BY <1>1, <1>3 DEF Place, Aim, Trims, Calling
  <1>5. pc'[t] = p /\ loc'[t] = l
    BY TypedStep DEF Inv
  <1>6. /\ rows \in [Key -> RowT] /\ permits \in [PermitId -> PermitT]
        /\ rows[k] \in RowT /\ rows[k].calls \in Int /\ rows[k].refs \in Int
    BY DEF Inv, TypedInv, RowT
  <1> DEFINE r == [rows[k] EXCEPT !.calls = rows[k].calls + 1, !.refs = rows[k].refs + 1, !.wave = q]
  <1>7. /\ r \in RowT /\ r.calls = rows[k].calls + 1 /\ r.refs = rows[k].refs + 1
        /\ r.pins = rows[k].pins /\ r.wave = q /\ r.present = rows[k].present
    <2> DEFINE c == rows[k].calls + 1
               e == rows[k].refs + 1
               o == [rows[k] EXCEPT !.calls = c, !.refs = e]
    <2>1. c \in Int /\ e \in Int
      BY <1>6
    <2>2. r = [o EXCEPT !.wave = q]
      OBVIOUS
    <2> HIDE DEF c, e
    <2>3. /\ o \in RowT /\ o.calls = c /\ o.refs = e /\ o.pins = rows[k].pins
          /\ o.present = rows[k].present
      BY <1>6, <2>1 DEF RowT
    <2> HIDE DEF o, r
    <2>4. /\ r \in RowT /\ r.calls = c /\ r.refs = e /\ r.pins = rows[k].pins /\ r.wave = q
          /\ r.present = rows[k].present
      BY <2>2, <2>3 DEF RowT
    <2> QED BY <2>4 DEF c, e
  <1> HIDE DEF r
  <1>8. /\ rows' \in [Key -> RowT] /\ rows'[k] = r /\ \A j \in Key \ {k} : rows'[j] = rows[j]
    BY <1>6, <1>7 DEF r
  <1>9. q # NoPermit => q \in PermitId /\ permits[q].refs \in Nat \ {0} /\ permits[q].member = k
    <2>1. CASE opens
      <3>1. q \in PermitId /\ loc[t].spare = q /\ permits[q].member = k
        BY <1>1, <2>1 DEF Belongs
      <3>2. permits[q].refs # 0
        BY <1>6, <3>1, NamedLive DEF Inv
      <3> QED BY <3>1, <3>2, RefsNatural DEF Inv
    <2>2. CASE ~opens /\ q # NoPermit
      <3>1. q \in PermitId /\ permits[q].refs # 0 /\ permits[q].member = k
        BY <2>2 DEF Inv, WaveLive, Live
      <3> QED BY <3>1, RefsNatural DEF Inv
    <2> QED BY <2>1, <2>2
  <1>10. /\ permits' \in [PermitId -> PermitT]
         /\ \A i \in PermitId : /\ permits'[i].member = permits[i].member
                                /\ permits'[i].refs = permits[i].refs + Weight(i = q /\ ~opens)
    <2>1. CASE opens \/ q = NoPermit
      BY <1>6, <2>1, ResidencyAssumption DEF PermitT, Weight
    <2>2. CASE ~opens /\ q # NoPermit
      <3> DEFINE s == [permits[q] EXCEPT !.refs = permits[q].refs + 1]
      <3>1. s \in PermitT /\ s.refs = permits[q].refs + 1 /\ s.member = permits[q].member
        BY <1>6, <1>9, <2>2 DEF PermitT
      <3>2. permits' = [permits EXCEPT ![q] = s]
        BY <2>2
      <3> HIDE DEF s
      <3> QED BY <1>6, <1>9, <2>2, <3>1, <3>2 DEF PermitT, Weight
    <2> QED BY <2>1, <2>2
  <1>11. TypedTables
    BY <1>8, <1>10 DEF TypedTables, Inv, TypedInv
  <1>12. ASSUME NEW j \in Key
         PROVE  CallsShift(t, p, l, j) /\ PinsShift(t, p, l, j) /\ RefsShift(t, p, l, j)
    <2>1. /\ rows[j].calls \in Int /\ rows[j].pins \in Int /\ rows[j].refs \in Int
          /\ rows'[j].calls = rows[j].calls + Weight(j = k)
          /\ rows'[j].pins = rows[j].pins
          /\ rows'[j].refs = rows[j].refs + Weight(j = k)
      BY <1>6, <1>7, <1>8 DEF RowT, Weight
    <2>2. /\ (CallsAt(p, l, j) <=> j = k) /\ ~CallsAt(pc[t], loc[t], j)
          /\ ~UnpinsAt(p, l, j) /\ ~UnpinsAt(pc[t], loc[t], j)
          /\ (RefersAt(p, l, j) <=> j = k) /\ ~RefersAt(pc[t], loc[t], j)
      BY <1>1, <1>2 DEF CallsAt, UnpinsAt, RefersAt, Aim, Trims, Calling
    <2>3. CallsShift(t, p, l, j)
      BY <2>1, <2>2 DEF CallsShift, Weight
    <2>4. PinsShift(t, p, l, j)
      BY <2>1, <2>2 DEF PinsShift, Weight
    <2>5. RefsShift(t, p, l, j)
      BY <2>1, <2>2 DEF RefsShift, Weight
    <2> QED BY <2>3, <2>4, <2>5
  <1>13. ASSUME NEW i \in PermitId
         PROVE  PermitShift(t, l, i)
    <2>1. permits[i].refs \in Int /\ permits'[i].refs = permits[i].refs + Weight(i = q /\ ~opens)
      BY <1>6, <1>10 DEF PermitT
    <2>2. i # NoPermit
      BY ResidencyAssumption
    <2> QED BY <1>2, <2>1, <2>2 DEF PermitShift, Weight
  <1>14. Referenced'
    <2>1. rows[k].present
      BY <1>3, InLedger
    <2> QED BY <1>7, <1>8, <2>1 DEF Referenced, Inv
  <1>15. WaveLive'
    <2>1. ASSUME NEW j \in Key, rows'[j].wave # NoPermit
          PROVE  /\ rows'[j].wave \in PermitId /\ permits'[rows'[j].wave].refs # 0
                 /\ permits'[rows'[j].wave].member = j
      <3> DEFINE w == rows'[j].wave
      <3>1. w \in PermitId /\ permits[w].refs \in Nat \ {0} /\ permits[w].member = j
        <4>1. CASE j = k
          BY <1>7, <1>8, <1>9, <2>1, <4>1
        <4>2. CASE j # k
          <5>1. w \in PermitId /\ permits[w].refs # 0 /\ permits[w].member = j
            BY <1>8, <2>1, <4>2 DEF Inv, WaveLive, Live
          <5> QED BY <5>1, RefsNatural DEF Inv
        <4> QED BY <4>1, <4>2
      <3> HIDE DEF w
      <3>2. permits'[w].member = j /\ permits'[w].refs = permits[w].refs + Weight(w = q /\ ~opens)
        BY <1>10, <3>1
      <3>3. permits'[w].refs # 0
        BY <3>1, <3>2 DEF Weight
      <3> QED BY <3>1, <3>2, <3>3 DEF w
    <2> QED BY <2>1 DEF WaveLive, Live
  <1>16. Entitled(t)'
    BY <1>3, <1>5 DEF Entitled
  <1>17. Belongs(t)'
    <2>1. loc[t].spare \in PermitId \cup {NoPermit}
      BY <1>1 DEF Local
    <2>2. loc[t].spare # NoPermit => permits[loc[t].spare].member = k
      BY <1>1 DEF Belongs
    <2> QED BY <1>5, <1>9, <1>10, <2>1, <2>2 DEF Belongs
  <1>18. MembersStay
    BY <1>10 DEF MembersStay
  <1> QED BY <1>4, <1>11, <1>12, <1>13, <1>14, <1>15, <1>16, <1>17, <1>18, Moves

LEMMA EnterKeeps ==
    ASSUME Inv, NEW t \in Thread, Enter(t)
    PROVE  Inv'
  <1> DEFINE k == loc[t].key
             opens == NeedsWave(k)
             q == IF opens THEN loc[t].spare ELSE rows[k].wave
             m == [loc[t] EXCEPT !.res = q, !.spare = IF opens THEN NoPermit ELSE @]
             s == [slot[k] EXCEPT !.lastRaw = IF opens THEN Reusable(k) ELSE @]
  <1>1. loc[t] \in Local /\ Place("begin", loc[t]) /\ pc[t] = "begin"
    BY DEF Inv, TypedInv, Placed, Enter, Startable, Beginning
  <1>2. k \in Key /\ loc[t].prep = "none" /\ loc[t].hasBody = FALSE
    BY <1>1 DEF Local, Place, Aim, Trims
  <1>3. rows \in [Key -> RowT] /\ slot \in [Key -> Slot] /\ canon \in [Key -> RawId \cup {NoRaw}]
    BY DEF Inv, TypedInv
  <1>4. q \in PermitId \cup {NoPermit}
    BY <1>1, <1>2, <1>3 DEF Local, RowT
  <1>5. /\ opens => q = loc[t].spare /\ q # NoPermit
        /\ ~opens => q = rows[k].wave
    BY DEF Enter
  <1>6. permits' = (IF opens \/ q = NoPermit THEN permits
                    ELSE [permits EXCEPT ![q] = [permits[q] EXCEPT !.refs = permits[q].refs + 1]])
    BY DEF Enter
  <1>7. rows' = [rows EXCEPT ![k] = [rows[k] EXCEPT !.calls = rows[k].calls + 1,
                                         !.refs = rows[k].refs + 1, !.wave = q]]
    BY <1>3 DEF Enter
  <1>8. UNCHANGED <<canon, held, generation>>
    BY DEF Enter, hostVars, clientVars
  <1>9. /\ slot[k].phase = "Loading" => /\ loc' = [loc EXCEPT ![t] = m]
                                        /\ Goto(t, "prepare") /\ UNCHANGED slot
        /\ slot[k].phase # "Loading" => Prepare(t, m, s)
    BY DEF Enter
  <1>10. s \in Slot /\ s.phase = slot[k].phase
    <2>1. Reusable(k) \in RawId \cup {NoRaw}
      BY <1>2, <1>3 DEF Reusable
    <2> QED BY <1>2, <1>3, <2>1 DEF Slot
  <1>11. opens \in BOOLEAN
    BY DEF NeedsWave
  <1> HIDE DEF opens, q, s
  <1>12. /\ m \in Local /\ m.key = k /\ m.res = q
         /\ m.spare = (IF opens THEN NoPermit ELSE loc[t].spare)
         /\ m.prep = "none" /\ m.hasBody = FALSE /\ m.mode = loc[t].mode
         /\ m.after = loc[t].after /\ m.fin = loc[t].fin /\ m.answer = loc[t].answer
    <2> DEFINE n == [loc[t] EXCEPT !.res = q]
               b == IF opens THEN NoPermit ELSE loc[t].spare
    <2>1. /\ n \in Local /\ n.key = k /\ n.res = q /\ n.spare = loc[t].spare
          /\ n.prep = "none" /\ n.hasBody = FALSE /\ n.mode = loc[t].mode
          /\ n.after = loc[t].after /\ n.fin = loc[t].fin /\ n.answer = loc[t].answer
      BY <1>1, <1>2, <1>4 DEF Local
    <2>2. m = [n EXCEPT !.spare = b]
      OBVIOUS
    <2>3. b \in PermitId \cup {NoPermit}
      BY <1>1 DEF Local
    <2> HIDE DEF n, m, b
    <2>4. /\ m \in Local /\ m.key = k /\ m.res = q /\ m.spare = b
          /\ m.prep = "none" /\ m.hasBody = FALSE /\ m.mode = loc[t].mode
          /\ m.after = loc[t].after /\ m.fin = loc[t].fin /\ m.answer = loc[t].answer
      BY <2>1, <2>2, <2>3 DEF Local
    <2> QED BY <2>4 DEF b
  <1> HIDE DEF m, k
  <1>13. loc[t].key = k
    BY DEF k
  <1>14. CASE slot[k].phase = "Loading"
    <2>1. Steps(t, "prepare", m)
      BY <1>9, <1>14 DEF Steps, Goto
    <2>2. "prepare" \in Point
      BY DEF Point
    <2>3. slot' \in [Key -> Slot] /\ SamePhases
      BY <1>3, <1>9, <1>14 DEF SamePhases
    <2>4. Flown'
      BY <1>2, <1>12, <2>1, <2>2, <2>3, FlightsStay
    <2>5. Used'
      BY <1>8, <1>12, <2>1, <2>2, <2>3, BodiesStay DEF UsesBody
    <2> QED BY <1>1, <1>2, <1>4, <1>5, <1>6, <1>7, <1>8, <1>11, <1>12, <1>13, <2>1, <2>2, <2>3,
               <2>4, <2>5, EnteredKeeps
  <1>15. CASE slot[k].phase # "Loading"
    <2>1. PICK p \in Point, l \in Local :
             /\ Steps(t, p, l) /\ Prepared(t, k, p, l)
             /\ l.spare = m.spare /\ l.res = m.res /\ l.mode = m.mode
             /\ l.after = m.after /\ l.fin = m.fin /\ l.answer = m.answer
      BY <1>2, <1>9, <1>10, <1>12, <1>15, PrepareOutcome
    <2>2. Flown' /\ Used'
      BY <1>2, <1>8, <2>1, PreparedFlights
    <2>3. /\ slot' \in [Key -> Slot] /\ l.key = k
          /\ l.prep \in {"ready", "wait", "load", "failed"}
          /\ l.hasBody <=> l.prep = "ready"
          /\ p = (IF l.spare # NoPermit THEN "spare" ELSE "resolve")
      BY <2>1 DEF Prepared
    <2> QED BY <1>1, <1>2, <1>4, <1>5, <1>6, <1>7, <1>8, <1>11, <1>12, <1>13, <2>1, <2>2, <2>3,
               EnteredKeeps
  <1> QED BY <1>14, <1>15

-----------------------------------------------------------------------------
(* The end of a flight                                                     *)

(* The flight of t ends: it and every waiter get the outcome at once.      *)
Landed(t, k, prep, body) ==
    \A u \in Thread :
        /\ loc'[u].key = loc[u].key /\ loc'[u].spare = loc[u].spare /\ loc'[u].res = loc[u].res
        /\ loc'[u].mode = loc[u].mode /\ loc'[u].after = loc[u].after /\ loc'[u].fin = loc[u].fin
        /\ loc'[u].answer = loc[u].answer /\ loc'[u].victim = loc[u].victim
        /\ IF u = t \/ u \in Waiters(k)
           THEN loc'[u].prep = prep /\ loc'[u].hasBody = body
           ELSE loc'[u] = loc[u]

(* A call that learns how its load ended stands where it stood. *)
LEMMA AwaitedPlace ==
    ASSUME NEW p, NEW m, NEW l, NEW o \in {"ready", "failed"}, Place(p, m),
           m.prep \in {"load", "wait"}, m.key # NoKey,
           l.prep = o, l.hasBody = (o = "ready"),
           l.key = m.key, l.spare = m.spare, l.res = m.res, l.mode = m.mode,
           l.after = m.after, l.fin = m.fin, l.answer = m.answer, l.victim = m.victim
    PROVE  Place(p, l)
  <1>1. Aim(p, l) = Aim(p, m)
    BY DEF Aim
  <1>2. /\ Calling(m) /\ Calling(l) /\ Aim(p, m) \in {"spare", "resolve"}
        /\ p \notin {"idle", "overrun", "raw", "fail", "body"}
    BY DEF Place, Aim, Trims, Calling
  <1> QED BY <1>1, <1>2, ZenonT(30) DEF Place, Trims, Calling

LEMMA LandedKeeps ==
    ASSUME Inv, NEW t \in Thread, NEW k \in Key, Loads(t, k),
           loc' \in [Thread -> Local], NEW o \in {"ready", "failed"}, Landed(t, k, o, o = "ready"),
           UNCHANGED <<rows, permits, canon, pc, held, generation>>,
           NEW s \in Slot, slot' = [slot EXCEPT ![k] = s],
           s.phase = IF o = "ready" THEN "Hot" ELSE "Cold"
    PROVE  Inv'
  <1>1. slot[k].phase = "Loading"
    BY DEF Inv, Flown, Loads
  <1>2. /\ slot' \in [Key -> Slot] /\ slot'[k] = s /\ \A j \in Key \ {k} : slot'[j] = slot[j]
    BY DEF Inv, TypedInv
  <1>3. ASSUME NEW u \in Thread
        PROVE  \/ /\ loc[u].key = k /\ loc[u].prep \in {"load", "wait"}
                  /\ loc'[u].prep = o /\ loc'[u].hasBody = (o = "ready")
               \/ /\ loc'[u] = loc[u] /\ u # t
                  /\ ~(loc[u].key = k /\ loc[u].prep \in {"load", "wait"})
    <2>1. CASE u = t \/ u \in Waiters(k)
      BY <2>1 DEF Landed, Waiters, Loads
    <2>2. CASE ~(u = t \/ u \in Waiters(k))
      <3>1. loc'[u] = loc[u] /\ u # t /\ ~(loc[u].key = k /\ loc[u].prep = "wait")
        BY <2>2 DEF Landed, Waiters
      <3>2. ~Loads(u, k)
        BY <3>1 DEF Inv, Flown
      <3> QED BY <3>1, <3>2 DEF Loads
    <2> QED BY <2>1, <2>2
  <1>4. TypedInv'
    BY <1>2 DEF TypedInv, Inv
  <1>5. ASSUME NEW u \in Thread
        PROVE  /\ Place(pc'[u], loc'[u]) /\ Entitled(u)' /\ Belongs(u)'
               /\ \A j \in Key : /\ InCall(u, j)' <=> InCall(u, j)
                                 /\ Refers(u, j)' <=> Refers(u, j)
                                 /\ UnpinsAt(pc'[u], loc'[u], j) <=> UnpinsAt(pc[u], loc[u], j)
    <2>1. CASE loc'[u] = loc[u]
      <3>1. Place(pc'[u], loc'[u]) /\ Belongs(u)'
        BY <2>1 DEF Inv, Placed, Belongs
      <3>2. Entitled(u)'
        BY <2>1 DEF Inv, Entitled
      <3>3. \A j \in Key : /\ InCall(u, j)' <=> InCall(u, j)
                           /\ Refers(u, j)' <=> Refers(u, j)
                           /\ UnpinsAt(pc'[u], loc'[u], j) <=> UnpinsAt(pc[u], loc[u], j)
        BY <2>1 DEF InCall, Refers
      <3> QED BY <3>1, <3>2, <3>3
    <2>2. CASE loc'[u] # loc[u]
      <3>1. /\ loc[u].key = k /\ loc[u].prep \in {"load", "wait"}
            /\ loc'[u].prep = o /\ loc'[u].hasBody = (o = "ready")
            /\ loc'[u].key = loc[u].key /\ loc'[u].spare = loc[u].spare
            /\ loc'[u].res = loc[u].res /\ loc'[u].mode = loc[u].mode
            /\ loc'[u].after = loc[u].after /\ loc'[u].fin = loc[u].fin
            /\ loc'[u].answer = loc[u].answer /\ loc'[u].victim = loc[u].victim
        BY <1>3, <2>2 DEF Landed
      <3>2. /\ pc'[u] = pc[u] /\ Place(pc[u], loc[u]) /\ Entitled(u) /\ Belongs(u) /\ k # NoKey
        BY ResidencyAssumption DEF Inv, Placed
      <3>3. Place(pc'[u], loc'[u])
        BY <3>1, <3>2, AwaitedPlace
      <3>4. Entitled(u)'
        BY <3>1, <3>2 DEF Entitled, Ends
      <3>5. Belongs(u)'
        BY <3>1, <3>2 DEF Belongs
      <3>6. \A j \in Key : /\ InCall(u, j)' <=> InCall(u, j)
                           /\ Refers(u, j)' <=> Refers(u, j)
                           /\ UnpinsAt(pc'[u], loc'[u], j) <=> UnpinsAt(pc[u], loc[u], j)
        BY <3>1, <3>2 DEF InCall, Refers, RefersAt, UnpinsAt, Calling, Aim
      <3> QED BY <3>3, <3>4, <3>5, <3>6
    <2> QED BY <2>1, <2>2
  <1>6. LeasesCounted' /\ RefsCounted'
    <2>1. Others(t)
      BY <1>5 DEF Others, Landed
    <2>2. ASSUME NEW j \in Key
          PROVE  CallsBalance(t, j) /\ PinsBalance(t, j) /\ RefsBalance(t, j)
      <3>1. /\ Weight(InCall(t, j)') = Weight(InCall(t, j))
            /\ Weight(Refers(t, j)') = Weight(Refers(t, j))
            /\ Weight(UnpinsAt(pc'[t], loc'[t], j)) = Weight(UnpinsAt(pc[t], loc[t], j))
        BY <1>5 DEF Weight
      <3>2. rows[j].calls \in Int /\ rows[j].pins \in Int /\ rows[j].refs \in Int
        BY DEF Inv, TypedInv, RowT
      <3>3. CallsBalance(t, j)
        BY <3>1, <3>2 DEF CallsBalance, Weight
      <3>4. PinsBalance(t, j)
        BY <3>1, <3>2 DEF PinsBalance, Weight
      <3>5. RefsBalance(t, j)
        BY <3>1, <3>2 DEF RefsBalance, Weight
      <3> QED BY <3>3, <3>4, <3>5
    <2>3. \A q \in PermitId : PermitBalances(t, q)
      BY DEF PermitBalances, Landed, Weight, Inv, TypedInv, PermitT
    <2> QED BY <2>1, <2>2, <2>3, Balanced DEF Inv, TypedInv
  <1>7. Referenced' /\ WaveLive'
    BY DEF Referenced, WaveLive, Live, Inv
  <1>8. Placed'
    BY <1>5 DEF Placed
  <1>9. Flown'
    <2>1. ASSUME NEW u \in Thread, NEW j \in Key, loc'[u].key = j, loc'[u].prep \in {"load", "wait"}
          PROVE  slot'[j].phase = "Loading" /\ loc'[u] = loc[u] /\ j # k
      <3>1. loc'[u] = loc[u] /\ ~(loc[u].key = k /\ loc[u].prep \in {"load", "wait"})
        BY <1>3, <2>1
      <3> QED BY <1>2, <2>1, <3>1 DEF Inv, Flown
    <2>2. ASSUME NEW u \in Thread, NEW v \in Thread, NEW j \in Key, Loads(u, j)', Loads(v, j)'
          PROVE  u = v
      <3>1. Loads(u, j) /\ Loads(v, j)
        BY <2>1, <2>2 DEF Loads
      <3> QED BY <3>1 DEF Inv, Flown
    <2>3. ASSUME NEW j \in Key, slot'[j].phase = "Loading"
          PROVE  \E u \in Thread : Loads(u, j)'
      <3>1. j # k /\ slot[j].phase = "Loading"
        BY <1>2, <2>3
      <3>2. PICK u \in Thread : Loads(u, j)
        BY <3>1 DEF Inv, Flown
      <3>3. loc'[u] = loc[u]
        BY <1>3, <3>1, <3>2 DEF Loads
      <3> QED BY <3>2, <3>3 DEF Loads
    <2> QED BY <2>1, <2>2, <2>3 DEF Flown
  <1>10. Used'
    <2>1. ASSUME NEW u \in Thread, NEW j \in Key, UsesBody(u, j)'
          PROVE  slot'[j].phase = "Hot"
      <3>1. j \in held[u] \/ (loc'[u].key = j /\ loc'[u].hasBody)
        BY <2>1 DEF UsesBody
      <3>2. CASE UsesBody(u, j)
        <4>1. slot[j].phase = "Hot"
          BY <3>2 DEF Inv, Used
        <4> QED BY <1>1, <1>2, <4>1
      <3>3. CASE ~UsesBody(u, j)
        <4>1. loc'[u].key = j /\ loc'[u].hasBody /\ loc'[u] # loc[u]
          BY <3>1, <3>3 DEF UsesBody
        <4>2. loc[u].key = k /\ loc'[u].key = loc[u].key /\ loc'[u].hasBody = (o = "ready")
          BY <1>3, <4>1 DEF Landed
        <4> QED BY <1>2, <4>1, <4>2
      <3> QED BY <3>2, <3>3
    <2> QED BY <2>1 DEF Used
  <1> QED BY <1>4, <1>5, <1>6, <1>7, <1>8, <1>9, <1>10 DEF Inv

LEMMA LoadOkKeeps ==
    ASSUME Inv, NEW t \in Thread, LoadOk(t)
    PROVE  Inv'
  <1> DEFINE k == loc[t].key
             fresh == {i \in RawId : KeyOf(i) = k /\ ~raws[i].charged /\ ~Alive(i)}
             id == IF loc[t].raw # NoRaw THEN loc[t].raw ELSE CHOOSE i \in fresh : TRUE
             s == [slot[k] EXCEPT !.phase = "Hot", !.raw = id, !.lastRaw = id]
             n(u) == [loc[u] EXCEPT !.prep = "ready", !.hasBody = TRUE, !.raw = NoRaw]
  <1>1. /\ loc \in [Thread -> Local] /\ loc[t] \in Local /\ Place(pc[t], loc[t])
        /\ pc[t] = "resolve" /\ loc[t].prep = "load"
    BY DEF Inv, TypedInv, Placed, LoadOk, Resolving
  <1>2. k \in Key
    BY <1>1 DEF Local, Place, Aim, Trims
  <1>3. id \in RawId
    <2>1. CASE loc[t].raw # NoRaw
      BY <1>1, <2>1 DEF Local
    <2>2. CASE loc[t].raw = NoRaw
      <3>1. fresh # {}
        BY <2>2 DEF LoadOk
      <3>2. (CHOOSE i \in fresh : TRUE) \in fresh
        BY <3>1
      <3> QED BY <2>2, <3>2
    <2> QED BY <2>1, <2>2
  <1>4. slot' = [slot EXCEPT ![k] = s]
    BY DEF LoadOk
  <1>5. loc' = [u \in Thread |-> IF u = t \/ u \in Waiters(k) THEN n(u) ELSE loc[u]]
    BY DEF LoadOk
  <1>6. UNCHANGED <<rows, permits, canon, pc, held, generation>>
    BY DEF LoadOk, ledgerVars, hostVars, clientVars
  <1> HIDE DEF id
  <1>7. s \in Slot /\ s.phase = "Hot"
    <2> DEFINE o == [slot[k] EXCEPT !.phase = "Hot"]
               r == [o EXCEPT !.raw = id]
    <2>1. slot[k] \in Slot
      BY <1>2 DEF Inv, TypedInv
    <2>2. o \in Slot /\ o.phase = "Hot"
      BY <2>1 DEF Slot
    <2>3. s = [r EXCEPT !.lastRaw = id]
      OBVIOUS
    <2> HIDE DEF o, s
    <2>4. r \in Slot /\ r.phase = "Hot"
      BY <2>2, <1>3 DEF Slot
    <2> HIDE DEF r
    <2> QED BY <2>3, <2>4, <1>3 DEF Slot
  <1>8. ASSUME NEW u \in Thread
        PROVE  /\ n(u) \in Local
               /\ n(u).key = loc[u].key /\ n(u).spare = loc[u].spare /\ n(u).res = loc[u].res
               /\ n(u).mode = loc[u].mode /\ n(u).after = loc[u].after /\ n(u).fin = loc[u].fin
               /\ n(u).answer = loc[u].answer /\ n(u).victim = loc[u].victim
               /\ n(u).prep = "ready" /\ n(u).hasBody = TRUE
    <2> DEFINE a == [loc[u] EXCEPT !.prep = "ready"]
               b == [a EXCEPT !.hasBody = TRUE]
    <2>1. loc[u] \in Local
      BY <1>1
    <2>2. n(u) = [b EXCEPT !.raw = NoRaw]
      OBVIOUS
    <2>3. /\ a \in Local /\ a.key = loc[u].key /\ a.spare = loc[u].spare
          /\ a.res = loc[u].res /\ a.mode = loc[u].mode /\ a.after = loc[u].after
          /\ a.fin = loc[u].fin /\ a.answer = loc[u].answer /\ a.victim = loc[u].victim
          /\ a.prep = "ready"
      BY <2>1 DEF Local
    <2> HIDE DEF a, n
    <2>4. /\ b \in Local /\ b.key = loc[u].key /\ b.spare = loc[u].spare
          /\ b.res = loc[u].res /\ b.mode = loc[u].mode /\ b.after = loc[u].after
          /\ b.fin = loc[u].fin /\ b.answer = loc[u].answer /\ b.victim = loc[u].victim
          /\ b.prep = "ready" /\ b.hasBody = TRUE
      BY <2>3, ZenonT(30) DEF Local
    <2> HIDE DEF b
    <2> QED BY <2>2, <2>4 DEF Local
  <1> HIDE DEF n, s
  <1>9. loc' \in [Thread -> Local]
    BY <1>1, <1>5, <1>8
  <1>10. Landed(t, k, "ready", "ready" = "ready")
    BY <1>5, <1>8 DEF Landed
  <1>11. Loads(t, k)
    BY <1>1 DEF Loads
  <1> HIDE DEF k
  <1> QED BY <1>2, <1>4, <1>6, <1>7, <1>9, <1>10, <1>11, LandedKeeps

LEMMA LoadFailKeeps ==
    ASSUME Inv, NEW t \in Thread, LoadFail(t)
    PROVE  Inv'
  <1> DEFINE k == loc[t].key
             s == [slot[k] EXCEPT !.phase = "Cold"]
             n(u) == [loc[u] EXCEPT !.prep = "failed", !.raw = NoRaw]
  <1>1. /\ loc \in [Thread -> Local] /\ loc[t] \in Local /\ Place(pc[t], loc[t])
        /\ pc[t] = "resolve" /\ loc[t].prep = "load"
    BY DEF Inv, TypedInv, Placed, LoadFail, Resolving
  <1>2. k \in Key
    BY <1>1 DEF Local, Place, Aim, Trims
  <1>3. slot' = [slot EXCEPT ![k] = s]
    BY DEF LoadFail
  <1>4. loc' = [u \in Thread |-> IF u = t \/ u \in Waiters(k) THEN n(u) ELSE loc[u]]
    BY DEF LoadFail
  <1>5. UNCHANGED <<rows, permits, canon, pc, held, generation>>
    BY DEF LoadFail, ledgerVars, hostVars, clientVars
  <1>6. s \in Slot /\ s.phase = "Cold"
    BY <1>2 DEF Inv, TypedInv, Slot
  <1>7. ASSUME NEW u \in Thread
        PROVE  /\ n(u) \in Local
               /\ n(u).key = loc[u].key /\ n(u).spare = loc[u].spare /\ n(u).res = loc[u].res
               /\ n(u).mode = loc[u].mode /\ n(u).after = loc[u].after /\ n(u).fin = loc[u].fin
               /\ n(u).answer = loc[u].answer /\ n(u).victim = loc[u].victim
               /\ n(u).prep = "failed" /\ n(u).hasBody = loc[u].hasBody
    <2> DEFINE a == [loc[u] EXCEPT !.prep = "failed"]
    <2>1. loc[u] \in Local
      BY <1>1
    <2>2. n(u) = [a EXCEPT !.raw = NoRaw]
      OBVIOUS
    <2>3. /\ a \in Local /\ a.key = loc[u].key /\ a.spare = loc[u].spare
          /\ a.res = loc[u].res /\ a.mode = loc[u].mode /\ a.after = loc[u].after
          /\ a.fin = loc[u].fin /\ a.answer = loc[u].answer /\ a.victim = loc[u].victim
          /\ a.prep = "failed" /\ a.hasBody = loc[u].hasBody
      BY <2>1 DEF Local
    <2> HIDE DEF a, n
    <2> QED BY <2>2, <2>3 DEF Local
  <1>8. ASSUME NEW u \in Thread, u = t \/ u \in Waiters(k)
        PROVE  loc[u].hasBody = FALSE
    <2>1. loc[u].prep \in {"load", "wait"} /\ Place(pc[u], loc[u]) /\ loc[u] \in Local
      BY <1>1, <1>8 DEF Waiters, Inv, Placed
    <2> QED BY <2>1 DEF Place, Aim, Trims, Calling, Local
  <1> HIDE DEF n, s
  <1>9. loc' \in [Thread -> Local]
    BY <1>1, <1>4, <1>7
  <1>10. Landed(t, k, "failed", "failed" = "ready")
    BY <1>4, <1>7, <1>8 DEF Landed
  <1>11. Loads(t, k)
    BY <1>1 DEF Loads
  <1> HIDE DEF k
  <1> QED BY <1>2, <1>3, <1>5, <1>6, <1>9, <1>10, <1>11, LandedKeeps

-----------------------------------------------------------------------------
(* Every step *)

LEMMA InitInv ==
    ASSUME Init
    PROVE  Inv
  <1>1. NewRow \in RowT /\ NewRow.refs = 1 /\ NewRow.calls = 0 /\ NewRow.pins = 0
        /\ NewRow.wave = NoPermit /\ NewRow.present = TRUE
    BY NewRowFields
  <1>2. Unissued \in PermitT /\ Unissued.refs = 0
    BY DEF Unissued, PermitT
  <1>3. NewSlot \in Slot /\ NewSlot.phase = "Cold"
    BY ResidencyAssumption DEF NewSlot, Slot
  <1>4. TypedInv
    BY <1>1, <1>2, <1>3, NoCallTyped DEF Init, TypedInv, Point
  <1>5. \A t \in Thread : pc[t] = "idle" /\ loc[t] = NoCall /\ held[t] = {}
    BY DEF Init
  <1>6. Place("idle", NoCall)
    BY NoCallFields DEF Place, Aim, Trims, Calling
  <1>7. Placed /\ \A t \in Thread : Entitled(t) /\ Belongs(t)
    BY <1>5, <1>6, NoCallFields DEF Placed, Entitled, Belongs
  <1>8. \A k \in Key : rows[k] = NewRow /\ slot[k] = NewSlot
    BY DEF Init
  <1>9. \A q \in PermitId : permits[q] = Unissued
    BY DEF Init
  <1>10. ASSUME NEW k \in Key
         PROVE  Callers(k) = {} /\ Referrers(k) = {} /\ Holders(k) = {} /\ Unpinners(k) = {}
    BY <1>5, NoCallFields, ResidencyAssumption
       DEF Callers, Referrers, Holders, Unpinners, InCall, Refers, RefersAt, Calling
  <1>11. ASSUME NEW q \in PermitId
         PROVE  Sparing(q) = {} /\ Reserving(q) = {}
    BY <1>5, NoCallFields, ResidencyAssumption DEF Sparing, Reserving
  <1>12. Cardinality({}) = 0
    BY FS_EmptySet
  <1>13. LeasesCounted
    <2>1. \A k \in Key : /\ rows[k].calls = Cardinality(Callers(k))
                         /\ rows[k].pins = Cardinality(Holders(k)) + Cardinality(Unpinners(k))
      <3> TAKE k \in Key
      <3>1. rows[k].calls = 0 /\ rows[k].pins = 0
        BY <1>1, <1>8
      <3> QED BY <1>10, <1>12, <3>1
    <2>2. \A q \in PermitId :
            permits[q].refs = Cardinality(Sparing(q)) + Cardinality(Reserving(q))
      <3> TAKE q \in PermitId
      <3>1. permits[q].refs = 0
        BY <1>2, <1>9
      <3> QED BY <1>11, <1>12, <3>1
    <2> QED BY <2>1, <2>2 DEF LeasesCounted, Callers, Holders, Unpinners, Sparing, Reserving
  <1>14. RefsCounted /\ Referenced /\ WaveLive
    <2>1. generation = Key
      BY DEF Init
    <2> QED BY <1>1, <1>8, <1>10, <1>12, <2>1 DEF RefsCounted, Referenced, WaveLive
  <1>15. Flown /\ Used
    BY <1>3, <1>5, <1>8, NoCallFields DEF Flown, Loads, Used, UsesBody
  <1> QED BY <1>4, <1>7, <1>13, <1>14, <1>15 DEF Inv

LEMMA BeginStepKeeps ==
    ASSUME Inv, NEW t \in Thread, BeginStep(t)
    PROVE  Inv'
  <1>1. CASE BeginRetiring(t)
    BY <1>1, RefuseBeginKeeps DEF BeginRetiring, Beginning, Reply
  <1>2. CASE BeginExhausted(t)
    BY <1>2, RefuseBeginKeeps DEF BeginExhausted, Beginning, Reply
  <1>3. CASE BeginSettling(t)
    BY <1>3, RefuseBeginKeeps DEF BeginSettling, Startable, Beginning, Reply
  <1> QED BY <1>1, <1>2, <1>3, BeginStaleKeeps, BeginAdmissionKeeps, EnterKeeps,
             PrepareJoinKeeps, DropSpareKeeps DEF BeginStep

LEMMA AdmitStepKeeps ==
    ASSUME Inv, NEW t \in Thread, AdmitStep(t)
    PROVE  Inv'
  <1>1. CASE AdmitRetiring(t)
    BY <1>1, RefusedKeeps DEF AdmitRetiring, Admitting
  <1>2. CASE AdmitPaused(t)
    BY <1>2, RefusedKeeps DEF AdmitPaused, Contends, Admitting
  <1>3. CASE AdmitKeptOut(t)
    <2> DEFINE a == IF OtherWaits(loc[t].key) THEN "Busy" ELSE "Waiting"
    <2>1. Refused(t, a) /\ pc[t] = "admit" /\ a \in {"Retiring", "Busy", "Waiting", "Paused"}
      BY <1>3 DEF AdmitKeptOut, Contends, Admitting
    <2> HIDE DEF a
    <2> QED BY <2>1, RefusedKeeps
  <1>4. CASE AdmitRefusedOversized(t)
    <2> DEFINE a == IF SlotAwaits(loc[t].key, loc[t].need) THEN "Retiring" ELSE "Waiting"
    <2>1. Refused(t, a) /\ pc[t] = "admit" /\ a \in {"Retiring", "Busy", "Waiting", "Paused"}
      BY <1>4 DEF AdmitRefusedOversized, Turn, Contends, Admitting
    <2> HIDE DEF a
    <2> QED BY <2>1, RefusedKeeps
  <1>5. CASE AdmitOccupied(t)
    <2>1. PICK a \in {"Paused", "Busy"} : Refused(t, a)
      BY <1>5 DEF AdmitOccupied
    <2>2. pc[t] = "admit" /\ a \in {"Retiring", "Busy", "Waiting", "Paused"}
      BY <1>5 DEF AdmitOccupied, Turn, Contends, Admitting
    <2> QED BY <2>1, <2>2, RefusedKeeps
  <1> QED BY <1>1, <1>2, <1>3, <1>4, <1>5, AdmitJoinKeeps, AdmitHotKeeps, AdmitOpenKeeps,
             AdmitReclaimKeeps, UnoweKeeps DEF AdmitStep

LEMMA NextKeeps ==
    ASSUME Inv, [Next]_allVars
    PROVE  Inv'
  <1>1. CASE UNCHANGED allVars
    <2>1. UNCHANGED <<rows, permits, slot, pc, loc, held, generation, canon>>
      BY <1>1 DEF allVars, vars, ledgerVars, hostVars
    <2>2. canon' \in [Key -> RawId \cup {NoRaw}]
      BY <2>1 DEF Inv, TypedInv
    <2> QED BY <2>1, <2>2, StillKeeps
  <1>2. CASE Passage
    BY <1>2, PassageKeeps
  <1>3. ASSUME NEW t \in Thread, RetireStep(t)
        PROVE  Inv'
    BY <1>3, SelectVictimKeeps, SelectNoneKeeps, ShedKeeps, SettleKeeps, CollectNothingKeeps,
       CollectKeeps, DropRowKeeps, ReleaseDetachedKeeps DEF RetireStep
  <1>4. ASSUME NEW t \in Thread, CallStep(t)
        PROVE  Inv'
    BY <1>4, LoadOkKeeps, LoadFailKeeps, LearnKeeps, FinishPinKeeps, FinishOverrunKeeps,
       DropBodyKeeps, FailSnapshotKeeps, FailRawKeeps, FinishFailKeeps, DropCallKeeps,
       DropMemberKeeps, DropHoldingKeeps, UnpinLedgerKeeps, DropRawLedgerKeeps DEF CallStep
  <1>5. ASSUME NEW t \in Thread, ClientStart(t)
        PROVE  Inv'
    BY <1>5, UnpinKeeps, TakeRawKeeps, LeaseStartKeeps, DropRawKeeps DEF ClientStart
  <1>6. ASSUME NEW t \in Thread, HostStart(t)
        PROVE  Inv'
    BY <1>6, ReserveKeeps, DropGenerationKeeps, RetainKeeps, SetLimitKeeps DEF HostStart
  <1> QED BY <1>1, <1>2, <1>3, <1>4, <1>5, <1>6, BeginStepKeeps, AdmitStepKeeps, LeaseKeeps
          DEF Next, Step

(* The bookkeeping of leases holds from the first state on, whatever the  *)
(* order of the steps of calls, releases, trims and retirements.           *)
THEOREM InvHolds == Spec => []Inv
  <1>1. Init => Inv
    BY InitInv
  <1>2. Inv /\ [Next]_allVars => Inv'
    BY NextKeeps
  <1> QED BY <1>1, <1>2, PTL DEF Spec

(* Calls, pins and reservation references are exactly what the threads     *)
(* hold, on every error path and after every lost admission race.          *)
THEOREM LeasesCountedHolds == Spec => []LeasesCounted
  <1>1. Inv => LeasesCounted
    BY DEF Inv
  <1> QED BY <1>1, InvHolds, PTL

(* begin and admit index the permit table with a join hint of a row: it    *)
(* always names a live reservation of that version.                        *)
THEOREM WaveLiveHolds == Spec => []WaveLive
  <1>1. Inv => WaveLive
    BY DEF Inv
  <1> QED BY <1>1, InvHolds, PTL

(* A body a call or a pin uses stays loaded and its row stays in the       *)
(* ledger, whatever trims, retirements and collections run beside it.      *)
THEOREM BodyStaysHolds == Spec => []BodyStays
  <1>1. ASSUME Inv
        PROVE  BodyStays
    <2>1. ASSUME NEW t \in Thread, NEW k \in Key, UsesBody(t, k)
          PROVE  slot[k].phase = "Hot" /\ rows[k].present
      <3>1. slot[k].phase = "Hot"
        BY <1>1, <2>1 DEF Inv, Used
      <3>2. k \in held[t] \/ Refers(t, k)
        <4>1. CASE loc[t].key = k /\ loc[t].hasBody
          <5>1. Place(pc[t], loc[t])
            BY <1>1 DEF Inv, Placed
          <5> QED BY <4>1, <5>1 DEF Place, Refers, RefersAt, Aim, Trims, Calling
        <4> QED BY <2>1, <4>1 DEF UsesBody
      <3>3. rows[k].present
        BY <1>1, <3>2, InLedger
      <3> QED BY <3>1, <3>3
    <2> QED BY <2>1 DEF BodyStays
  <1> QED BY <1>1, InvHolds, PTL

(* A version being loaded has one loader, and a waiter always has one.     *)
THEOREM SingleFlightHolds == Spec => []SingleFlight
  <1>1. ASSUME Inv
        PROVE  SingleFlight
    <2>1. ASSUME NEW k \in Key
          PROVE  LET loaders == {t \in Thread : loc[t].key = k /\ loc[t].prep = "load"}
                 IN  /\ Cardinality(loaders) = IF slot[k].phase = "Loading" THEN 1 ELSE 0
                     /\ Waiters(k) # {} => loaders # {}
      <3> DEFINE loaders == {t \in Thread : loc[t].key = k /\ loc[t].prep = "load"}
      <3>1. \A t \in Thread : t \in loaders <=> Loads(t, k)
        BY DEF Loads
      <3>2. CASE slot[k].phase = "Loading"
        <4>1. PICK t \in Thread : Loads(t, k)
          BY <1>1, <3>2 DEF Inv, Flown
        <4>2. loaders = {t}
          BY <1>1, <3>1, <4>1 DEF Inv, Flown
        <4> HIDE DEF loaders
        <4>3. Cardinality(loaders) = 1
          BY <4>2, FS_Singleton
        <4> QED BY <3>2, <4>2, <4>3 DEF loaders
      <3>3. CASE slot[k].phase # "Loading"
        <4>1. loaders = {} /\ Waiters(k) = {}
          BY <1>1, <3>3 DEF Inv, Flown, Waiters
        <4> HIDE DEF loaders
        <4>2. Cardinality(loaders) = 0
          BY <4>1, FS_EmptySet
        <4> QED BY <3>3, <4>1, <4>2 DEF loaders
      <3> QED BY <3>2, <3>3
    <2> QED BY <2>1 DEF SingleFlight
  <1> QED BY <1>1, InvHolds, PTL
=============================================================================
