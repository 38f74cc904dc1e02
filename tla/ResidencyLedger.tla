-------------------------- MODULE ResidencyLedger --------------------------
(***************************************************************************)
(* The process-wide residency ledger of crates/registry/src/residency:     *)
(* what one Mutex<Ledger> protects (controller/ledger.rs), the per-version *)
(* slot with its single flight (residency.rs), and the locals of the       *)
(* threads that ask for bodies.  The steps are in Residency.tla.           *)
(*                                                                         *)
(* Abstractions.  A Key is one retained version (digest, length); its raw, *)
(* tree and peak sizes are constants, since a version's parse is           *)
(* deterministic.  Table capacities are part of `floor`.  A permit id is a *)
(* member of PermitId that no live permit uses (the code counts up).  The  *)
(* reclaimable counters are derived from the rows.  A clock is not kept:   *)
(* a record with a deadline may end at any moment (Residency.tla says when *)
(* it may not).  MaxRevision stands for u64::MAX.                          *)
(***************************************************************************)
EXTENDS Integers, FiniteSets, Sequences, FiniteSetsExt

CONSTANTS
    Key,            \* retained versions
    Thread,         \* request threads, watchers, the host
    PermitId,       \* reservation identities
    AllocNo,        \* raw allocations one version may have at once
    NoKey, NoPermit, NoRaw, NoThread,
    RawSize,        \* [Key -> Nat]: heap bytes of the source
    TreeSize,       \* [Key -> Nat]: parsed tree and body owner
    LoadPeak,       \* [Key -> Nat]: the peak the length rule declares
    MaxRevision

RawId == Key \X AllocNo
KeyOf(id) == id[1]

(* The sum of f over S: as many as the units that its members are worth.   *)
Sum(f(_), S) == Cardinality(UNION {{x} \X (1 .. f(x)) : x \in S})

ASSUME ResidencyAssumption ==
    /\ NoKey \notin Key /\ NoPermit \notin PermitId
    /\ NoRaw \notin RawId /\ NoThread \notin Thread
    /\ IsFiniteSet(Thread) /\ IsFiniteSet(Key) /\ IsFiniteSet(AllocNo) /\ IsFiniteSet(PermitId)
    /\ RawSize \in [Key -> Nat] /\ TreeSize \in [Key -> Nat \ {0}]
    /\ LoadPeak \in [Key -> Nat \ {0}]
    /\ MaxRevision \in Nat

VARIABLES
    rows, lru,                      \* Row per version, recency list
    raws, canon,                    \* raw table and canonical allocation
    permits,                        \* live reservations
    transient,                      \* holder of the serialized slot
    waiting, owed,                  \* the oversized record; paused loads
    rawBytes, bodyBytes, reservedBytes,
    limit, floor,
    slot,                           \* [Key -> phase, revision, raw, lastRaw]
    mutex,                          \* thread holding the ledger between steps
    pc, loc,                        \* control point and locals of a thread
    held, rawHeld,                  \* pins and raw pins a thread owns
    generation                      \* versions the live catalog retains

ledgerVars == <<rows, lru, raws, canon, permits, transient, waiting, owed,
                rawBytes, bodyBytes, reservedBytes>>
hostVars == <<limit, floor, generation>>
vars == <<ledgerVars, hostVars, slot, mutex, pc, loc, held, rawHeld>>

-----------------------------------------------------------------------------
(* Records *)

Absent == [refs |-> 0, calls |-> 0, pins |-> 0, body |-> 0, raw |-> NoRaw,
           retiring |-> FALSE, forced |-> FALSE, wave |-> NoPermit,
           learned |-> 0, present |-> FALSE]
NewRow == [Absent EXCEPT !.refs = 1, !.present = TRUE]
NewSlot == [phase |-> "Cold", revision |-> 0, raw |-> NoRaw, lastRaw |-> NoRaw]
Unissued == [refs |-> 0, bytes |-> 0, peak |-> 0, member |-> NoKey,
             settled |-> FALSE, revision |-> 0, transient |-> NoKey]
Uncharged == [charged |-> FALSE, owners |-> 0]
NoCall == [key |-> NoKey, access |-> "Scan", unpaused |-> FALSE,
           spare |-> NoPermit, res |-> NoPermit, hasBody |-> FALSE,
           prep |-> "none", need |-> 0, rev |-> 0, raw |-> NoRaw, snap |-> "Cold",
           answer |-> "none", tries |-> 0, patience |-> "unset",
           again |-> FALSE, mode |-> "trim", victim |-> NoKey, vrev |-> 0,
           gone |-> 0, goneRaw |-> NoRaw, after |-> "idle", fin |-> "idle"]

-----------------------------------------------------------------------------
(* Charges *)

Total == floor + rawBytes + bodyBytes + reservedBytes
Room == IF limit > floor THEN limit - floor ELSE 0
Over == limit # 0 /\ Total > limit
Live == {p \in PermitId : permits[p].refs # 0}
Declared(k) == LoadPeak[k] + rows[k].learned
Observed(k) == RawSize[k] + TreeSize[k]

(* A row a trim may take: a charged body no call and no pin uses. *)
Idle(k) == /\ rows[k].body # 0 /\ rows[k].calls = 0 /\ rows[k].pins = 0
           /\ ~rows[k].retiring
Reclaimable == {k \in Key : Idle(k)}
ReclaimUpperBound ==
    LET freed(k) == rows[k].body + IF rows[k].raw # NoRaw /\ raws[rows[k].raw].owners = 1
                                   THEN RawSize[k] ELSE 0
    IN  Sum(freed, Reclaimable)

(* Faulty variant: forgets a reservation of the holder. *)
HoldsSlotByUseOnly(k) ==
    /\ limit = 0 \/ Total > limit
    /\ rows[k].body # 0 \/ rows[k].calls # 0 \/ rows[k].retiring

(* clear_transient_if_unused: the holder keeps the slot only while the     *)
(* total is above the limit and something of its version is still charged. *)
HoldsSlot(k) ==
    /\ limit = 0 \/ Total > limit
    /\ \/ rows[k].body # 0 \/ rows[k].calls # 0 \/ rows[k].retiring
       \/ canon[k] # NoRaw /\ raws[canon[k]].owners # 0
       \/ \E p \in Live : permits[p].transient = k
Holder == IF transient # NoKey /\ HoldsSlot(transient) THEN transient ELSE NoKey
ClearTransient ==
    \E k \in Key \cup {NoKey} :
        k = transient /\ transient' = IF k # NoKey /\ HoldsSlot(k)' THEN k ELSE NoKey

-----------------------------------------------------------------------------
(* Bodies and raw allocations in use *)

UsesBody(t, k) == k \in held[t] \/ (loc[t].key = k /\ loc[t].hasBody)
Unshared(k) == \A t \in Thread : ~UsesBody(t, k)
Alive(id) ==
    \/ slot[KeyOf(id)].phase = "Hot" /\ slot[KeyOf(id)].raw = id
    \/ \E t \in Thread : loc[t].raw = id \/ id \in rawHeld[t]
Reusable(k) == IF canon[k] # NoRaw /\ Alive(canon[k]) THEN canon[k] ELSE NoRaw

(* add_raw: one more owner of an allocation, charged when it is new. *)
AddRaw(id) ==
    /\ raws' = [raws EXCEPT ![id] = [charged |-> TRUE, owners |-> @.owners + 1]]
    /\ rawBytes' = IF raws[id].charged THEN rawBytes ELSE rawBytes + RawSize[KeyOf(id)]
    /\ canon' = IF raws[id].charged THEN canon ELSE [canon EXCEPT ![KeyOf(id)] = id]

(* The allocation that stands for version k once those of `dead` are gone. *)
NextCanon(k, dead) ==
    LET others == {id \in RawId : KeyOf(id) = k /\ raws[id].charged} \ dead
        alive  == {id \in others : Alive(id)}
    IN  IF canon[k] \notin dead THEN canon[k]
        ELSE IF alive # {} THEN CHOOSE id \in alive : TRUE
        ELSE IF others # {} THEN CHOOSE id \in others : TRUE
        ELSE NoRaw

(* Faulty variant: storage something keeps alive keeps its owners too. *)
ReleaseRawDead(id) ==
    IF id = NoRaw \/ Alive(id) THEN UNCHANGED <<raws, rawBytes, canon>>
    ELSE LET gone == raws[id].owners = 1
         IN  /\ raws' = IF gone THEN [raws EXCEPT ![id] = Uncharged]
                        ELSE [raws EXCEPT ![id].owners = @ - 1]
             /\ rawBytes' = IF gone THEN rawBytes - RawSize[KeyOf(id)] ELSE rawBytes
             /\ canon' = IF gone THEN [canon EXCEPT ![KeyOf(id)] = NextCanon(KeyOf(id), {id})]
                         ELSE canon

(* release_raw: drop one owner; the charge goes with the last owner of     *)
(* storage nothing keeps alive.                                            *)
ReleaseRaw(id) ==
    IF id = NoRaw THEN UNCHANGED <<raws, rawBytes, canon>>
    ELSE LET gone == raws[id].owners = 1 /\ ~Alive(id)
         IN  /\ raws' = IF gone THEN [raws EXCEPT ![id] = Uncharged]
                        ELSE [raws EXCEPT ![id].owners = @ - 1]
             /\ rawBytes' = IF gone THEN rawBytes - RawSize[KeyOf(id)] ELSE rawBytes
             /\ canon' = IF gone THEN [canon EXCEPT ![KeyOf(id)] = NextCanon(KeyOf(id), {id})]
                         ELSE canon

(* prune: allocations without an owner whose storage is gone. *)
Prune(ids) ==
    LET dead == {id \in ids : raws[id].charged /\ raws[id].owners = 0 /\ ~Alive(id)}
        size(id) == RawSize[KeyOf(id)]
    IN  /\ raws' = [id \in RawId |-> IF id \in dead THEN Uncharged ELSE raws[id]]
        /\ rawBytes' = rawBytes - Sum(size, dead)
        /\ canon' = [k \in Key |-> NextCanon(k, dead)]

-----------------------------------------------------------------------------
(* The recency list: a read goes to the young end, a scan to the old end   *)
(* unless it is listed already.                                            *)

Listed(list, k) == \E i \in 1..Len(list) : list[i] = k
Unlink(list, k) ==
    IF ~Listed(list, k) THEN list
    ELSE LET i == CHOOSE j \in 1..Len(list) : list[j] = k
         IN  SubSeq(list, 1, i - 1) \o SubSeq(list, i + 1, Len(list))
Link(list, k, access) ==
    IF access = "Read" THEN Append(Unlink(list, k), k)
    ELSE IF Listed(list, k) THEN list
    ELSE <<k>> \o list

(* The member of S nearest the old end. *)
Oldest(S) ==
    {k \in S : \E i \in 1..Len(lru) : lru[i] = k /\ \A j \in 1..(i - 1) : lru[j] \notin S}

-----------------------------------------------------------------------------
(* Admission *)

(* Faulty variant: admits against measured charges only. *)
FitsUnreserved(b) == limit = 0 \/ Total - reservedBytes + b <= limit
Fits(b) == limit = 0 \/ Total + b <= limit
Oversized(k, b) == k # NoKey /\ limit # 0 /\ b > Room
OtherWaits(k) == waiting \notin {NoKey, k}

(* Faulty variant: lets an oversized load pass the paused ones. *)
NoTurnOwed(k) == FALSE
TurnOwed(k) == owed \ {k} # {} /\ waiting # k

(* Faulty variant: opens beside live reservations. *)
SlotAwaitsNobody(k, b) == Oversized(k, b) /\ Holder \in {NoKey, k}
SlotAwaits(k, b) ==
    Oversized(k, b) /\ Holder \in {NoKey, k} /\ Live = {}
      /\ \A t \in Thread : pc[t] \notin {"drop", "destroyed"}
MayOverflow(k, b) == SlotAwaits(k, b) /\ \A j \in Key : ~rows[j].retiring
Hopeless(b) == Total - ReclaimUpperBound + b > limit
Pauses(k, b, u) == ~u /\ ~Oversized(k, b) /\ limit # 0 /\ OtherWaits(k)
KeptOut(k, b) ==
    Oversized(k, b) /\ (OtherWaits(k) \/ TurnOwed(k) \/ Holder \notin {NoKey, k})

(* Faulty variant: asks an oversized load to fit. *)
HeldBlocksOversized(t, k) ==
    LET charge(j) == rows[j].body + IF rows[j].raw # NoRaw THEN RawSize[j] ELSE 0
    IN  limit # 0 /\ Sum(charge, held[t]) + Declared(k) > Room

(* held_blocks: would the load of k be refused if only the leases of t     *)
(* were left?                                                              *)
HeldBlocks(t, k) ==
    LET charge(j) == rows[j].body + IF rows[j].raw # NoRaw THEN RawSize[j] ELSE 0
        own == Sum(charge, held[t])
    IN  /\ limit # 0
        /\ IF Declared(k) > Room THEN own > Room /\ transient \in held[t]
           ELSE own + Declared(k) > Room
=============================================================================
