----------------------------- MODULE LedgerProofs -----------------------------
(***************************************************************************)
(* The charges, the types and the recency list of the residency ledger,    *)
(* for every finite set of versions, threads, allocations and reservation  *)
(* identities, and all sizes, limits and floors.                           *)
(*                                                                         *)
(* A running sum is compared with a worth: how many units a function gives *)
(* the members of a finite set.  Each step that moves a sum moves what one *)
(* member is worth (WorthMoves), or empties a part of the set (prune).     *)
(*                                                                         *)
(* What is reserved needs the permit table alone (ReservedInv).  What      *)
(* bodies and raw storage charge (LedgerInv) also needs to know that a     *)
(* subtraction takes what is there: StoreInv says which allocation a       *)
(* charged row names and shares with its slot, that a retirement has its   *)
(* version to itself and no call or pin in it, what a failed finish has    *)
(* seen of its slot, and that what a collected row charged is owed by the  *)
(* one thread that destroys it.  The owners a raw allocation counts are no *)
(* fewer than those known: a failed finish may leave one more, and while   *)
(* no load fails there is none (UnfailedInv).                              *)
(*                                                                         *)
(* ListedInv follows the recency list through link and unlink.  TypeOK     *)
(* then follows from the counts of leases and of owners and the sums.      *)
(***************************************************************************)
EXTENDS ResidencyProofs, SequenceTheorems

-----------------------------------------------------------------------------
(* Sums *)

(* The units that a function gives the members of a set; a sum is how many *)
(* there are.                                                              *)
Units(f, S) == UNION {{x} \X (1 .. f[x]) : x \in S}
Worth(f, S) == Cardinality(Units(f, S))

LEMMA UnitsFinite ==
    ASSUME NEW S, IsFiniteSet(S), NEW f, \A x \in S : f[x] \in Nat
    PROVE  IsFiniteSet(Units(f, S))
  <1> DEFINE U(x) == {x} \X (1 .. f[x])
             g == [x \in S |-> U(x)]
             T == {U(x) : x \in S}
  <1>1. g \in Surjection(S, T)
    BY DEF Surjection
  <1>2. IsFiniteSet(T)
    <2> HIDE DEF g, T
    <2> QED BY <1>1, FS_Surjection
  <1>3. ASSUME NEW x \in S
        PROVE  IsFiniteSet(U(x))
    <2>1. IsFiniteSet({x})
      BY FS_Singleton
    <2>2. IsFiniteSet(1 .. f[x])
      BY FS_Interval
    <2> QED BY <2>1, <2>2, FS_Product
  <1>4. \A V \in T : IsFiniteSet(V)
    BY <1>3
  <1>5. IsFiniteSet(UNION T)
    <2> HIDE DEF T
    <2> QED BY <1>2, <1>4, FS_UNION
  <1> QED BY <1>5 DEF Units

LEMMA WorthNat ==
    ASSUME NEW S, IsFiniteSet(S), NEW f, \A x \in S : f[x] \in Nat
    PROVE  Worth(f, S) \in Nat
  BY UnitsFinite, FS_CardinalityType DEF Worth

(* Taking one member out. *)
LEMMA WorthOut ==
    ASSUME NEW S, IsFiniteSet(S), NEW f, \A x \in S : f[x] \in Nat, NEW y \in S
    PROVE  Worth(f, S) = Worth(f, S \ {y}) + f[y] /\ f[y] <= Worth(f, S)
  <1> DEFINE V == {y} \X (1 .. f[y])
             R == S \ {y}
  <1>1. Units(f, S) = Units(f, R) \cup V
    BY DEF Units
  <1>2. Units(f, R) \cap V = {}
    BY DEF Units
  <1>3. IsFiniteSet({y}) /\ Cardinality({y}) = 1
    BY FS_Singleton
  <1>4. f[y] \in Nat
    OBVIOUS
  <1>5. IsFiniteSet(1 .. f[y]) /\ Cardinality(1 .. f[y]) = f[y]
    BY <1>4, FS_Interval, SMTT(30)
  <1>6. IsFiniteSet(V) /\ Cardinality(V) = f[y]
    <2>1. IsFiniteSet(V) /\ Cardinality(V) = Cardinality({y}) * Cardinality(1 .. f[y])
      BY <1>3, <1>5, FS_Product
    <2> QED BY <1>3, <1>4, <1>5, <2>1
  <1>7. IsFiniteSet(R) /\ \A x \in R : f[x] \in Nat
    BY FS_Subset
  <1> HIDE DEF R, V
  <1>8. IsFiniteSet(Units(f, R)) /\ Cardinality(Units(f, R)) \in Nat
    BY <1>7, UnitsFinite, FS_CardinalityType
  <1>9. Cardinality(Units(f, R) \cup V)
          = Cardinality(Units(f, R)) + Cardinality(V) - Cardinality(Units(f, R) \cap V)
    BY <1>6, <1>8, FS_Union
  <1>10. Cardinality({}) = 0
    BY FS_EmptySet
  <1>11. Cardinality(Units(f, S)) = Cardinality(Units(f, R)) + f[y]
    <2>1. Cardinality(Units(f, R) \cap V) = 0
      BY <1>2, <1>10
    <2>2. Cardinality(Units(f, S)) = Cardinality(Units(f, R) \cup V)
      BY <1>1
    <2> QED BY <2>1, <2>2, <1>4, <1>6, <1>8, <1>9
  <1>12. Worth(f, S) = Worth(f, R) + f[y] /\ f[y] <= Worth(f, S)
    BY <1>4, <1>8, <1>11 DEF Worth
  <1> QED BY <1>12 DEF R

LEMMA WorthSame ==
    ASSUME NEW S, NEW f, NEW g, \A x \in S : f[x] = g[x]
    PROVE  Worth(f, S) = Worth(g, S)
  <1>1. Units(f, S) = Units(g, S)
    BY DEF Units
  <1> QED BY <1>1 DEF Worth

(* A change of one member's worth. *)
LEMMA WorthMoves ==
    ASSUME NEW S, IsFiniteSet(S), NEW f, NEW g, NEW y \in S,
           \A x \in S : f[x] \in Nat /\ g[x] \in Nat,
           \A x \in S \ {y} : g[x] = f[x]
    PROVE  Worth(g, S) = Worth(f, S) - f[y] + g[y]
  <1>1. Worth(f, S \ {y}) = Worth(g, S \ {y})
    BY WorthSame
  <1>2. Worth(f, S) = Worth(f, S \ {y}) + f[y] /\ Worth(g, S) = Worth(g, S \ {y}) + g[y]
    BY WorthOut
  <1>3. IsFiniteSet(S \ {y})
    BY FS_Subset
  <1>4. Worth(f, S \ {y}) \in Nat
    BY <1>3, WorthNat
  <1>5. f[y] \in Nat /\ g[y] \in Nat
    OBVIOUS
  <1> QED BY <1>1, <1>2, <1>4, <1>5

(* Emptying the members of a part.                                         *)
LEMMA WorthEmptied ==
    ASSUME NEW S, IsFiniteSet(S), NEW f, NEW g, NEW D \in SUBSET S,
           \A x \in S : f[x] \in Nat,
           \A x \in S : g[x] = IF x \in D THEN 0 ELSE f[x]
    PROVE  /\ Worth(g, S) = Worth(f, S) - Worth(f, D)
           /\ Worth(f, D) \in Nat /\ Worth(f, D) <= Worth(f, S)
  <1> DEFINE R == S \ D
  <1>1. Units(f, S) = Units(f, R) \cup Units(f, D)
    BY DEF Units
  <1>2. Units(f, R) \cap Units(f, D) = {}
    BY DEF Units
  <1>3. Units(g, S) = Units(f, R)
    <2>1. \A x \in D : {x} \X (1 .. g[x]) = {}
      OBVIOUS
    <2>2. \A x \in R : {x} \X (1 .. g[x]) = {x} \X (1 .. f[x])
      OBVIOUS
    <2>3. S = R \cup D
      OBVIOUS
    <2> HIDE DEF R
    <2> QED BY <2>1, <2>2, <2>3 DEF Units
  <1>4. IsFiniteSet(R) /\ IsFiniteSet(D)
    BY FS_Subset
  <1>5. (\A x \in R : f[x] \in Nat) /\ (\A x \in D : f[x] \in Nat)
    OBVIOUS
  <1> HIDE DEF R
  <1>6. IsFiniteSet(Units(f, R)) /\ IsFiniteSet(Units(f, D))
    BY <1>4, <1>5, UnitsFinite
  <1>7. Cardinality(Units(f, R)) \in Nat /\ Cardinality(Units(f, D)) \in Nat
    BY <1>6, FS_CardinalityType
  <1>8. Cardinality(Units(f, R) \cup Units(f, D))
          = Cardinality(Units(f, R)) + Cardinality(Units(f, D))
            - Cardinality(Units(f, R) \cap Units(f, D))
    BY <1>6, FS_Union
  <1>9. Cardinality(Units(f, R) \cap Units(f, D)) = 0
    BY <1>2, FS_EmptySet
  <1>10. Cardinality(Units(f, S)) = Cardinality(Units(f, R)) + Cardinality(Units(f, D))
    BY <1>1, <1>7, <1>8, <1>9
  <1> QED BY <1>3, <1>7, <1>10 DEF Worth

LEMMA LeastOfTwo ==
    ASSUME NEW m \in Nat, NEW n \in Nat
    PROVE  Min({m, n}) \in Nat /\ Min({m, n}) <= m
  <1>1. \A x \in {m, n} : x \in Int
    OBVIOUS
  <1>2. \E x \in {m, n} : \A y \in {m, n} : x <= y
    OBVIOUS
  <1> QED BY <1>2 DEF Min
-----------------------------------------------------------------------------
(* What the permits reserve                                                *)

Bytes == [p \in PermitId |-> permits[p].bytes]

(* A free identity reserves nothing, and the running sum is that of all.   *)
ReservedInv ==
    /\ \A p \in PermitId : permits[p].bytes \in Nat /\ (permits[p].refs = 0 => permits[p].bytes = 0)
    /\ reservedBytes = Worth(Bytes, PermitId)

LEMMA PermitMoves ==
    ASSUME Inv, ReservedInv, NEW p \in PermitId, NEW e, permits' = [permits EXCEPT ![p] = e],
           e.bytes \in Nat, e.refs = 0 => e.bytes = 0,
           reservedBytes' = reservedBytes - permits[p].bytes + e.bytes
    PROVE  ReservedInv'
  <1>1. permits'[p] = e /\ \A q \in PermitId \ {p} : permits'[q] = permits[q]
    BY DEF Inv, TypedInv
  <1>2. \A q \in PermitId : /\ permits'[q].bytes \in Nat
                            /\ permits'[q].refs = 0 => permits'[q].bytes = 0
    BY <1>1 DEF ReservedInv
  <1>3. Bytes[p] = permits[p].bytes /\ Bytes'[p] = e.bytes
    BY <1>1 DEF Bytes
  <1>4. /\ \A q \in PermitId : Bytes[q] \in Nat /\ Bytes'[q] \in Nat
        /\ \A q \in PermitId \ {p} : Bytes'[q] = Bytes[q]
    BY <1>1, <1>2 DEF Bytes, ReservedInv
  <1>5. Worth(Bytes', PermitId) = Worth(Bytes, PermitId) - Bytes[p] + Bytes'[p]
    <2>1. IsFiniteSet(PermitId)
      BY ResidencyAssumption
    <2> DEFINE f == Bytes
               g == Bytes'
    <2>2. /\ \A q \in PermitId : f[q] \in Nat /\ g[q] \in Nat
          /\ \A q \in PermitId \ {p} : g[q] = f[q]
      BY <1>4
    <2> HIDE DEF f, g
    <2>3. Worth(g, PermitId) = Worth(f, PermitId) - f[p] + g[p]
      BY <2>1, <2>2, WorthMoves, SMTT(30)
    <2> QED BY <2>3 DEF f, g
  <1>6. reservedBytes' = Worth(Bytes', PermitId)
    BY <1>3, <1>5 DEF ReservedInv
  <1> QED BY <1>2, <1>6 DEF ReservedInv

LEMMA PermitsStay ==
    ASSUME ReservedInv, UNCHANGED <<permits, reservedBytes>>
    PROVE  ReservedInv'
  <1>1. Bytes' = Bytes
    BY DEF Bytes
  <1> QED BY <1>1 DEF ReservedInv

(* Reservation::clone *)
LEMMA CloneReserves ==
    ASSUME Inv, ReservedInv, NEW p, permits' = [permits EXCEPT ![p].refs = @ + 1],
           UNCHANGED reservedBytes
    PROVE  ReservedInv'
  <1>1. CASE p \in PermitId
    <2> DEFINE e == [permits[p] EXCEPT !.refs = permits[p].refs + 1]
    <2>1. permits' = [permits EXCEPT ![p] = e]
      OBVIOUS
    <2>2. permits[p] \in PermitT /\ permits[p].refs \in Nat /\ permits[p].bytes \in Nat
      BY <1>1, RefsNatural DEF Inv, TypedInv, ReservedInv
    <2>3. e.bytes = permits[p].bytes /\ e.refs # 0
      BY <2>2 DEF PermitT
    <2>4. reservedBytes \in Nat
      BY WorthNat, ResidencyAssumption DEF ReservedInv, Bytes
    <2>5. reservedBytes' = reservedBytes - permits[p].bytes + e.bytes
      BY <2>2, <2>3, <2>4
    <2> HIDE DEF e
    <2> QED BY <1>1, <2>1, <2>2, <2>3, <2>5, PermitMoves
  <1>2. CASE p \notin PermitId
    <2>1. permits' = permits
      BY <1>2 DEF Inv, TypedInv
    <2> QED BY <2>1, PermitsStay
  <1> QED BY <1>1, <1>2

(* Reservation::drop *)
LEMMA ReleaseReserves ==
    ASSUME Inv, ReservedInv, NEW p, ReleasePermit(p)
    PROVE  ReservedInv'
  <1>1. p \in PermitId /\ permits[p].refs # 0
    BY DEF ReleasePermit, Live
  <1>2. permits[p] \in PermitT /\ permits[p].refs \in Nat /\ permits[p].bytes \in Nat
    BY <1>1, RefsNatural DEF Inv, TypedInv, ReservedInv
  <1>3. reservedBytes \in Nat
    BY WorthNat, ResidencyAssumption DEF ReservedInv, Bytes
  <1>4. CASE permits[p].refs = 1
    <2>1. permits' = [permits EXCEPT ![p] = Unissued]
          /\ reservedBytes' = reservedBytes - permits[p].bytes
      BY <1>4 DEF ReleasePermit
    <2>2. Unissued.bytes = 0
      BY DEF Unissued
    <2>3. reservedBytes' = reservedBytes - permits[p].bytes + Unissued.bytes
      BY <1>2, <1>3, <2>1, <2>2
    <2>4. permits' = [permits EXCEPT ![p] = Unissued]
      BY <2>1
    <2>5. Unissued.bytes \in Nat /\ (Unissued.refs = 0 => Unissued.bytes = 0)
      BY <2>2
    <2> QED BY <1>1, <2>3, <2>4, <2>5, PermitMoves
  <1>5. CASE permits[p].refs # 1
    <2> DEFINE e == [permits[p] EXCEPT !.refs = permits[p].refs - 1]
    <2>1. permits' = [permits EXCEPT ![p] = e] /\ reservedBytes' = reservedBytes - 0
      BY <1>5 DEF ReleasePermit
    <2>2. e.bytes = permits[p].bytes /\ e.refs # 0
      BY <1>2, <1>5 DEF PermitT
    <2>3. reservedBytes' = reservedBytes - permits[p].bytes + e.bytes
      BY <1>2, <1>3, <2>1, <2>2
    <2> HIDE DEF e
    <2> QED BY <1>1, <1>2, <2>1, <2>2, <2>3, PermitMoves
  <1> QED BY <1>4, <1>5

(* Ledger::settle_wave takes no more from a permit than it reserves.       *)
LEMMA SettleReserves ==
    ASSUME Inv, ReservedInv, NEW p \in PermitId \cup {NoPermit}, NEW hot \in BOOLEAN,
           NEW k \in Key, SettleWave(p, hot, k)
    PROVE  ReservedInv'
  <1> DEFINE part == IF hot THEN Min({permits[p].bytes, Observed(k)}) ELSE 0
             e == [permits[p] EXCEPT !.settled = TRUE, !.bytes = permits[p].bytes - part]
  <1>1. CASE p = NoPermit \/ permits[p].settled
    BY <1>1, PermitsStay DEF SettleWave
  <1>2. CASE ~(p = NoPermit \/ permits[p].settled)
    <2>1. p \in PermitId
      BY <1>2
    <2>2. permits' = [permits EXCEPT ![p] = e] /\ reservedBytes' = reservedBytes - part
      BY <1>2 DEF SettleWave
    <2>3. permits[p] \in PermitT /\ permits[p].bytes \in Nat
      BY <2>1 DEF Inv, TypedInv, ReservedInv
    <2>4. Observed(k) \in Nat
      BY ResidencyAssumption DEF Observed
    <2>5. part \in Nat /\ part <= permits[p].bytes
      BY <2>3, <2>4, LeastOfTwo
    <2>6. permits[p].refs = 0 => permits[p].bytes = 0
      BY <2>1 DEF ReservedInv
    <2>7. reservedBytes \in Nat
      BY WorthNat, ResidencyAssumption DEF ReservedInv, Bytes
    <2> HIDE DEF part
    <2>8. e.bytes = permits[p].bytes - part /\ e.refs = permits[p].refs
      BY <2>3 DEF PermitT
    <2> HIDE DEF e
    <2>9. e.bytes \in Nat /\ (e.refs = 0 => e.bytes = 0)
      BY <2>3, <2>5, <2>6, <2>8
    <2>10. reservedBytes' = reservedBytes - permits[p].bytes + e.bytes
      BY <2>2, <2>3, <2>5, <2>7, <2>8
    <2> QED BY <2>1, <2>2, <2>9, <2>10, PermitMoves
  <1> QED BY <1>1, <1>2

(* open_wave *)
LEMMA OpenReserves ==
    ASSUME Inv, ReservedInv, NEW t \in Thread, AdmitOpen(t)
    PROVE  ReservedInv'
  <1> DEFINE k == loc[t].key
             b == loc[t].need
             free == PermitId \ Live
             p == CHOOSE q \in free : TRUE
             x == IF Fits(b) THEN NoKey ELSE k
             e == [refs |-> 1, bytes |-> b, peak |-> b, member |-> k,
                   settled |-> k = NoKey, revision |-> loc[t].rev, transient |-> x]
  <1>1. permits' = [permits EXCEPT ![p] = e] /\ p \in free /\ reservedBytes' = reservedBytes + b
    BY DEF AdmitOpen
  <1>2. b \in Nat
    BY DEF Inv, TypedInv, Local
  <1>3. e.bytes = b /\ e.refs = 1
    OBVIOUS
  <1> HIDE DEF e, p, b
  <1>4. p \in PermitId /\ permits[p].bytes = 0
    BY <1>1 DEF Live, ReservedInv
  <1>5. reservedBytes \in Nat
    BY WorthNat, ResidencyAssumption DEF ReservedInv, Bytes
  <1>6. reservedBytes' = reservedBytes - permits[p].bytes + e.bytes
    BY <1>1, <1>2, <1>3, <1>4, <1>5
  <1>7. e.bytes \in Nat /\ (e.refs = 0 => e.bytes = 0)
    BY <1>2, <1>3
  <1>8. permits' = [permits EXCEPT ![p] = e]
    BY <1>1
  <1> QED BY <1>4, <1>6, <1>7, <1>8, PermitMoves

LEMMA BeginStepReserves ==
    ASSUME Inv, ReservedInv, NEW t \in Thread, BeginStep(t)
    PROVE  ReservedInv'
  <1>1. CASE Enter(t)
    <2> DEFINE p == IF NeedsWave(loc[t].key) THEN loc[t].spare ELSE rows[loc[t].key].wave
    <2>1. UNCHANGED permits \/ permits' = [permits EXCEPT ![p].refs = @ + 1]
      BY <1>1 DEF Enter
    <2>2. UNCHANGED reservedBytes
      BY <1>1 DEF Enter
    <2> QED BY <2>1, <2>2, PermitsStay, CloneReserves
  <1>2. CASE DropSpare(t)
    BY <1>2, ReleaseReserves DEF DropSpare
  <1>3. CASE BeginRetiring(t) \/ BeginExhausted(t) \/ BeginSettling(t)
    BY <1>3, PermitsStay DEF BeginRetiring, BeginExhausted, BeginSettling, RefuseBegin, ledgerVars
  <1>4. CASE BeginStale(t) \/ BeginAdmission(t) \/ PrepareJoin(t)
    BY <1>4, PermitsStay DEF BeginStale, BeginAdmission, PrepareJoin, ledgerVars
  <1> QED BY <1>1, <1>2, <1>3, <1>4 DEF BeginStep

LEMMA AdmitStepReserves ==
    ASSUME Inv, ReservedInv, NEW t \in Thread, AdmitStep(t)
    PROVE  ReservedInv'
  <1>1. CASE AdmitJoin(t)
    BY <1>1, CloneReserves DEF AdmitJoin
  <1>2. CASE AdmitOpen(t)
    BY <1>2, OpenReserves
  <1>3. CASE \/ AdmitRetiring(t) \/ AdmitPaused(t) \/ AdmitKeptOut(t)
             \/ AdmitRefusedOversized(t) \/ AdmitOccupied(t)
    BY <1>3, PermitsStay DEF AdmitRetiring, AdmitPaused, AdmitKeptOut,
                            AdmitRefusedOversized, AdmitOccupied, Refused
  <1>4. CASE AdmitHot(t) \/ AdmitReclaim(t) \/ Unowe(t)
    BY <1>4, PermitsStay DEF AdmitHot, AdmitReclaim, Unowe
  <1> QED BY <1>1, <1>2, <1>3, <1>4 DEF AdmitStep

LEMMA RetireStepReserves ==
    ASSUME ReservedInv, NEW t, RetireStep(t)
    PROVE  ReservedInv'
  <1>1. CASE SelectVictim(t) \/ SelectNone(t) \/ Shed(t) \/ Settle(t)
    BY <1>1, PermitsStay DEF SelectVictim, SelectNone, Shed, Settle, ledgerVars
  <1>2. CASE CollectNothing(t) \/ Collect(t) \/ DropRow(t) \/ ReleaseDetached(t)
    BY <1>2, PermitsStay DEF CollectNothing, Collect, DropRow, ReleaseDetached, ledgerVars
  <1> QED BY <1>1, <1>2 DEF RetireStep

(* The version and the reservation a finish settles.                       *)
LEMMA Finishing ==
    ASSUME Inv, NEW t \in Thread, FinishPin(t) \/ FinishOverrun(t) \/ FinishFail(t)
    PROVE  loc[t].key \in Key /\ loc[t].res \in PermitId \cup {NoPermit}
  <1>1. pc[t] \in {"resolve", "overrun", "fail"}
    BY DEF FinishPin, FinishOverrun, FinishFail, Resolving
  <1>2. Place(pc[t], loc[t]) /\ loc[t] \in Local
    BY DEF Inv, Placed, TypedInv
  <1>3. loc[t].key # NoKey
    BY <1>1, <1>2 DEF Place, Aim, Trims
  <1> QED BY <1>2, <1>3 DEF Local

LEMMA CallStepReserves ==
    ASSUME Inv, ReservedInv, NEW t \in Thread, CallStep(t)
    PROVE  ReservedInv'
  <1>1. CASE FinishPin(t)
    BY <1>1, Finishing, SettleReserves DEF FinishPin, FinishHot
  <1>2. CASE FinishOverrun(t)
    BY <1>2, Finishing, SettleReserves DEF FinishOverrun, FinishHot
  <1>3. CASE FinishFail(t)
    BY <1>3, Finishing, SettleReserves, PermitsStay DEF FinishFail
  <1>4. CASE DropCall(t)
    BY <1>4, ReleaseReserves, PermitsStay DEF DropCall
  <1>5. CASE DropHolding(t)
    BY <1>5, ReleaseReserves DEF DropHolding
  <1>6. CASE LoadOk(t) \/ LoadFail(t) \/ Learn(t) \/ DropBody(t)
    BY <1>6, PermitsStay DEF LoadOk, LoadFail, Learn, DropBody, ledgerVars
  <1>7. CASE FailSnapshot(t) \/ FailRaw(t) \/ DropMember(t) \/ UnpinLedger(t) \/ DropRawLedger(t)
    BY <1>7, PermitsStay DEF FailSnapshot, FailRaw, DropMember, UnpinLedger, DropRawLedger,
                            ledgerVars
  <1> QED BY <1>1, <1>2, <1>3, <1>4, <1>5, <1>6, <1>7 DEF CallStep

LEMMA NextReserves ==
    ASSUME Inv, ReservedInv, [Next]_allVars
    PROVE  ReservedInv'
  <1>1. CASE UNCHANGED allVars
    BY <1>1, PermitsStay DEF allVars, vars, ledgerVars
  <1>2. ASSUME NEW t \in Thread, LeaseStep(t)
        PROVE  ReservedInv'
    BY <1>2, PermitsStay DEF LeaseStep, Poll, Unpause, RetryPause, Leave, Again, ledgerVars
  <1>3. ASSUME NEW t \in Thread, ClientStart(t)
        PROVE  ReservedInv'
    BY <1>3, PermitsStay DEF ClientStart, Unpin, TakeRaw, Lease, DropRaw, ledgerVars
  <1>4. ASSUME NEW t \in Thread, HostStart(t)
        PROVE  ReservedInv'
    BY <1>4, PermitsStay DEF HostStart, Reserve, DropGeneration, Retain, SetLimit, SetFloor,
                            ledgerVars
  <1>5. CASE Passage
    BY <1>5, PermitsStay DEF Passage, PatienceEnds, WaitingExpires, OwedExpires, Census, ledgerVars
  <1> QED BY <1>1, <1>2, <1>3, <1>4, <1>5, BeginStepReserves, AdmitStepReserves,
             RetireStepReserves, CallStepReserves DEF Next, Step

LEMMA WorthNothing ==
    ASSUME NEW S, NEW f, \A x \in S : f[x] = 0
    PROVE  Worth(f, S) = 0
  <1>1. Units(f, S) = {}
    BY DEF Units
  <1> QED BY <1>1, FS_EmptySet DEF Worth

LEMMA InitReserves == Init => ReservedInv
  BY WorthNothing DEF Init, ReservedInv, Bytes, Unissued
-----------------------------------------------------------------------------
(* What a charged row, a slot and a retirement know of each other          *)

(* A charged row names its allocation, which a hot slot shares; it is cold *)
(* only while a retirement has shed it and not settled yet.                *)
ChargedRow(k) ==
    rows[k].body # 0 =>
        /\ rows[k].present /\ rows[k].raw # NoRaw
        /\ \/ slot[k].phase = "Hot" /\ slot[k].raw = rows[k].raw
           \/ slot[k].phase = "Cold" /\ rows[k].retiring
Stored(k) == slot[k].phase = "Hot" => slot[k].raw # NoRaw
Ticketing(k) == rows[k].retiring => rows[k].body # 0 /\ rows[k].calls = 0

Retires(t) == pc[t] \in {"shed", "settle"}

(* A failed caller that saw its slot hot finds it so when it finishes.     *)
Snapped(t) ==
    pc[t] \in {"raw", "fail"} /\ loc[t].snap = "Hot" =>
        /\ slot[loc[t].key].phase = "Hot"
        /\ pc[t] = "fail" => loc[t].raw = slot[loc[t].key].raw

(* What a collected row charged is charged until its destruction is told.  *)
Leaving(t) == loc[t].gone # 0 => pc[t] \in {"drop", "destroyed"}

StoreInv ==
    /\ \A k \in Key : ChargedRow(k) /\ Stored(k) /\ Ticketing(k)
    /\ \A t \in Thread : \A k \in held[t] : rows[k].body # 0
    /\ \A t \in Thread : Retires(t) => rows[loc[t].victim].retiring
    /\ \A t, u \in Thread : Retires(t) /\ Retires(u) /\ loc[t].victim = loc[u].victim => t = u
    /\ \A t \in Thread : Snapped(t) /\ Leaving(t)

(* A step that leaves the charges of the rows alone, and the slots and the *)
(* retirements too.                                                        *)
SameCharges ==
    \A k \in Key : /\ rows'[k].body = rows[k].body
                   /\ rows'[k].raw = rows[k].raw \/ rows[k].body = 0
SameTickets ==
    \A k \in Key : /\ rows'[k].retiring = rows[k].retiring
                   /\ rows[k].present => rows'[k].present
                   /\ rows'[k].calls = rows[k].calls \/ ~rows[k].retiring
SameSlot(k) == slot'[k].phase = slot[k].phase /\ slot'[k].raw = slot[k].raw
SameStore == SameCharges /\ SameTickets /\ \A k \in Key : SameSlot(k)

(* A thread that owes the same destruction, or none, before and after, and *)
(* begins no retirement and no failed finish.                              *)
SameGone(u) ==
    /\ loc'[u].gone = loc[u].gone
    /\ loc[u].gone # 0 => pc'[u] \in {"drop", "destroyed"} /\ loc'[u].goneRaw = loc[u].goneRaw
    /\ pc'[u] = "unraw" <=> pc[u] = "unraw"
    /\ pc[u] = "unraw" => loc'[u].goneRaw = loc[u].goneRaw
Calm(u) ==
    /\ Retires(u)' => Retires(u) /\ loc'[u].victim = loc[u].victim
    /\ pc'[u] \in {"raw", "fail"} =>
         /\ pc'[u] = pc[u] /\ loc'[u].snap = loc[u].snap
         /\ loc'[u].key = loc[u].key /\ loc'[u].raw = loc[u].raw
    /\ SameGone(u)

LEMMA VictimTyped ==
    ASSUME Inv, NEW t \in Thread, Retires(t)
    PROVE  loc[t].victim \in Key
  BY DEF Inv, TypedInv, Placed, Place, Trims, Local, Retires

LEMMA SnapTyped ==
    ASSUME Inv, NEW t \in Thread, pc[t] \in {"raw", "fail"}
    PROVE  loc[t].key \in Key /\ loc[t].prep = "failed"
  BY DEF Inv, TypedInv, Placed, Place, Aim, Trims, Local

LEMMA CalmStore ==
    ASSUME Inv, StoreInv, SameStore, \A u \in Thread : Calm(u),
           \A u \in Thread : held'[u] \subseteq held[u]
    PROVE  StoreInv'
  <1>1. ASSUME NEW k \in Key
        PROVE  (ChargedRow(k) /\ Stored(k) /\ Ticketing(k))'
    BY DEF StoreInv, SameStore, SameCharges, SameTickets, SameSlot, ChargedRow, Stored, Ticketing
  <1>2. ASSUME NEW t \in Thread, NEW k \in held'[t]
        PROVE  rows'[k].body # 0
    <2>1. k \in held[t] /\ k \in Key
      BY DEF Inv, TypedInv
    <2> QED BY <2>1 DEF StoreInv, SameStore, SameCharges, SameTickets
  <1>3. ASSUME NEW t \in Thread, Retires(t)'
        PROVE  rows'[loc'[t].victim].retiring
    <2>1. Retires(t) /\ loc'[t].victim = loc[t].victim
      BY <1>3 DEF Calm
    <2> QED BY <2>1, VictimTyped DEF StoreInv, SameStore, SameTickets
  <1>4. ASSUME NEW t \in Thread, NEW u \in Thread, Retires(t)', Retires(u)',
               loc'[t].victim = loc'[u].victim
        PROVE  t = u
    BY <1>4 DEF StoreInv, Calm
  <1>5. ASSUME NEW t \in Thread
        PROVE  Snapped(t)' /\ Leaving(t)'
    <2>1. Snapped(t)'
      <3>1. SUFFICES ASSUME pc'[t] \in {"raw", "fail"}, loc'[t].snap = "Hot"
                     PROVE  /\ slot'[loc'[t].key].phase = "Hot"
                            /\ pc'[t] = "fail" => loc'[t].raw = slot'[loc'[t].key].raw
        BY DEF Snapped
      <3>2. /\ pc'[t] = pc[t] /\ loc'[t].snap = loc[t].snap
            /\ loc'[t].key = loc[t].key /\ loc'[t].raw = loc[t].raw
        BY <3>1 DEF Calm
      <3>3. loc[t].key \in Key
        BY <3>1, <3>2, SnapTyped
      <3> QED BY <3>1, <3>2, <3>3 DEF StoreInv, Snapped, SameStore, SameSlot
    <2>2. Leaving(t)'
      BY DEF Leaving, Calm, SameGone
    <2> QED BY <2>1, <2>2
  <1> QED BY <1>1, <1>2, <1>3, <1>4, <1>5 DEF StoreInv

(* Where no destruction is under way and none begins. *)
Apart == {"shed", "settle", "raw", "fail", "drop", "destroyed", "unraw"}
LEMMA ApartCalm ==
    ASSUME Inv, StoreInv, NEW t \in Thread, NEW p, p \notin Apart,
           pc' = [pc EXCEPT ![t] = p], \A u \in Thread \ {t} : loc'[u] = loc[u],
           pc[t] \notin {"drop", "destroyed", "unraw"}, loc'[t].gone \in {0, loc[t].gone}
    PROVE  \A u \in Thread : Calm(u)
  <1>1. pc'[t] = p /\ \A u \in Thread \ {t} : pc'[u] = pc[u]
    BY DEF Inv, TypedInv
  <1>2. loc[t].gone = 0
    BY DEF StoreInv, Leaving
  <1>3. Calm(t)
    BY <1>1, <1>2 DEF Calm, SameGone, Retires, Apart
  <1>4. ASSUME NEW u \in Thread \ {t}
        PROVE  Calm(u)
    <2>1. pc'[u] = pc[u] /\ loc'[u] = loc[u]
      BY <1>1
    <2> QED BY <2>1 DEF Calm, SameGone, Retires, StoreInv, Leaving
  <1> QED BY <1>3, <1>4

-----------------------------------------------------------------------------
(* What bodies and raw storage are charged, and who owns an allocation.    *)
(* A failed finish may leave an owner without a body: the owners counted   *)
(* are those known and these strays.                                       *)

Bodies == [k \in Key |-> rows[k].body]
Gone == [t \in Thread |-> loc[t].gone]
Raws == [id \in RawId |-> IF raws[id].charged THEN RawSize[KeyOf(id)] ELSE 0]

RowOwners(id) == {k \in Key : rows[k].body # 0 /\ rows[k].raw = id}
PinOwners(id) == {t \in Thread : id \in rawHeld[t]}
GoneOwners(id) == {t \in Thread : loc[t].goneRaw = id /\ (loc[t].gone # 0 \/ pc[t] = "unraw")}
Known(id) ==
    Cardinality(RowOwners(id)) + Cardinality(PinOwners(id)) + Cardinality(GoneOwners(id))

RawT == [charged: BOOLEAN, owners: Int]
FaultT == [loads: Nat, strays: [RawId -> Nat]]
OwnedInv ==
    /\ raws \in [RawId -> RawT] /\ rawHeld \in [Thread -> SUBSET RawId]
    /\ faults \in FaultT
    /\ \A id \in RawId : /\ raws[id].owners = Known(id) + faults.strays[id]
                         /\ raws[id].owners # 0 => raws[id].charged
LedgerInv ==
    /\ bodyBytes = Worth(Bodies, Key) + Worth(Gone, Thread)
    /\ rawBytes = Worth(Raws, RawId)
    /\ OwnedInv

(* Loads may fail, but no owner goes astray. *)
SameStrays == faults' \in FaultT /\ faults'.strays = faults.strays

LEMMA SameOwners ==
    ASSUME SameCharges, \A u \in Thread : SameGone(u), UNCHANGED rawHeld, NEW id
    PROVE  Known(id)' = Known(id)
  <1>1. RowOwners(id)' = RowOwners(id)
    BY DEF RowOwners, SameCharges
  <1>2. PinOwners(id)' = PinOwners(id)
    BY DEF PinOwners
  <1>3. GoneOwners(id)' = GoneOwners(id)
    BY DEF GoneOwners, SameGone
  <1> QED BY <1>1, <1>2, <1>3 DEF Known

LEMMA SameBodies ==
    ASSUME LedgerInv, SameCharges, \A u \in Thread : SameGone(u), UNCHANGED bodyBytes
    PROVE  bodyBytes' = Worth(Bodies, Key)' + Worth(Gone, Thread)'
  <1>1. Bodies' = Bodies
    BY DEF Bodies, SameCharges
  <1>2. Gone' = Gone
    BY DEF Gone, SameGone
  <1> QED BY <1>1, <1>2 DEF LedgerInv

LEMMA CalmLedger ==
    ASSUME LedgerInv, SameCharges, \A u \in Thread : SameGone(u), SameStrays,
           UNCHANGED <<raws, rawBytes, bodyBytes, rawHeld>>
    PROVE  LedgerInv'
  <1>1. Raws' = Raws
    BY DEF Raws
  <1>2. bodyBytes' = Worth(Bodies, Key)' + Worth(Gone, Thread)'
    BY SameBodies
  <1>3. OwnedInv'
    BY SameOwners DEF LedgerInv, OwnedInv, SameStrays
  <1> QED BY <1>1, <1>2, <1>3 DEF LedgerInv

BooksInv == StoreInv /\ LedgerInv

LEMMA CalmKeeps ==
    ASSUME Inv, BooksInv, SameStore, \A u \in Thread : Calm(u),
           \A u \in Thread : held'[u] \subseteq held[u],
           UNCHANGED <<raws, rawBytes, bodyBytes, rawHeld, faults>>
    PROVE  BooksInv'
  <1>1. StoreInv'
    BY CalmStore DEF BooksInv
  <1>2. LedgerInv'
    BY CalmLedger DEF BooksInv, SameStore, Calm, SameStrays, LedgerInv, OwnedInv
  <1> QED BY <1>1, <1>2 DEF BooksInv

(* The ledger part of a step that retires or loads. *)
LEMMA LedgerApart ==
    ASSUME Inv, BooksInv, StoreInv', SameCharges, \A u \in Thread : SameGone(u), SameStrays,
           UNCHANGED <<raws, rawBytes, bodyBytes, rawHeld>>
    PROVE  BooksInv'
  BY CalmLedger DEF BooksInv

LEMMA SameFaults ==
    ASSUME BooksInv, UNCHANGED faults
    PROVE  SameStrays
  BY DEF BooksInv, LedgerInv, OwnedInv, SameStrays

LEMMA UntouchedStore ==
    ASSUME UNCHANGED <<rows, slot>>
    PROVE  SameStore /\ SameCharges
  BY DEF SameStore, SameCharges, SameTickets, SameSlot

-----------------------------------------------------------------------------
(* Steps that touch no charge                                              *)

Goes(t) == \E p : p \notin Apart /\ pc' = [pc EXCEPT ![t] = p]
Spared(t) ==
    /\ \A u \in Thread \ {t} : loc'[u] = loc[u]
    /\ loc'[t].gone \in {0, loc[t].gone}

LEMMA GoesKeeps ==
    ASSUME Inv, BooksInv, NEW t \in Thread, Goes(t), Spared(t),
           pc[t] \notin {"drop", "destroyed", "unraw"}, SameStore, held' = held,
           UNCHANGED <<raws, rawBytes, bodyBytes, rawHeld, faults>>
    PROVE  BooksInv'
  <1>1. \A u \in Thread : Calm(u)
    BY ApartCalm DEF Goes, Spared, BooksInv
  <1> QED BY <1>1, CalmKeeps

LEMMA SameSpared ==
    ASSUME NEW t \in Thread, UNCHANGED loc
    PROVE  Spared(t)
  BY DEF Spared

(* A record that keeps what it owes. *)
LEMMA RecordSpared ==
    ASSUME Inv, NEW t \in Thread, NEW l, loc' = [loc EXCEPT ![t] = l],
           l.gone \in {0, loc[t].gone}
    PROVE  Spared(t)
  BY DEF Spared, Inv, TypedInv

LEMMA NoCallGone == NoCall.gone = 0 /\ NoCall.goneRaw = NoRaw
  BY DEF NoCall

LEMMA AttemptGone ==
    ASSUME NEW l
    PROVE  Attempt(l).gone = 0
  BY DEF Attempt, NoCall

LEMMA TrimmingGone ==
    ASSUME NEW m \in Local, NEW a
    PROVE  Trimming(m, a).gone = m.gone /\ Trimming(m, a).goneRaw = m.goneRaw
  BY DEF Trimming, Local

LEMMA LocalRecord ==
    ASSUME Inv, NEW t \in Thread
    PROVE  loc[t] \in Local /\ pc[t] \in Point /\ Place(pc[t], loc[t])
  BY DEF Inv, TypedInv, Placed

LEMMA RefuseBeginBooks ==
    ASSUME Inv, BooksInv, NEW t \in Thread, NEW a, pc[t] = "begin", RefuseBegin(t, a)
    PROVE  BooksInv'
  <1> DEFINE l == [loc[t] EXCEPT !.answer = a]
  <1>1. loc' = [loc EXCEPT ![t] = l]
    BY DEF RefuseBegin
  <1>2. l.gone = loc[t].gone
    BY LocalRecord DEF Local
  <1> HIDE DEF l
  <1>3. Spared(t)
    BY <1>1, <1>2, RecordSpared
  <1>4. Goes(t)
    BY DEF RefuseBegin, Goto, Goes, Apart
  <1> QED BY <1>3, <1>4, GoesKeeps, UntouchedStore DEF RefuseBegin, ledgerVars, clientVars

LEMMA BeginBooks ==
    ASSUME Inv, BooksInv, NEW t \in Thread,
           \/ BeginRetiring(t) \/ BeginExhausted(t) \/ BeginStale(t)
           \/ BeginSettling(t) \/ BeginAdmission(t)
    PROVE  BooksInv'
  <1>1. pc[t] = "begin"
    BY DEF BeginRetiring, BeginExhausted, BeginStale, BeginSettling, BeginAdmission, Startable,
           Beginning
  <1>2. CASE BeginRetiring(t) \/ BeginExhausted(t) \/ BeginSettling(t)
    BY <1>1, <1>2, RefuseBeginBooks DEF BeginRetiring, BeginExhausted, BeginSettling
  <1>3. CASE BeginStale(t)
    <2>1. Goes(t) /\ Spared(t)
      BY <1>3, SameSpared DEF BeginStale, Goto, Goes, Apart
    <2> QED BY <1>1, <1>3, <2>1, GoesKeeps, UntouchedStore DEF BeginStale, ledgerVars, clientVars
  <1>4. CASE BeginAdmission(t)
    <2>1. PICK l : loc' = [loc EXCEPT ![t] = l] /\ l.gone = loc[t].gone
      <3> DEFINE m == [loc[t] EXCEPT !.need = Declared(loc[t].key)]
                 n == [m EXCEPT !.rev = slot[loc[t].key].revision]
      <3>1. loc' = [loc EXCEPT ![t] = n]
        BY <1>4 DEF BeginAdmission
      <3>2. n.gone = loc[t].gone
        BY LocalRecord DEF Local
      <3> QED BY <3>1, <3>2
    <2>2. Goes(t)
      BY <1>4 DEF BeginAdmission, Goto, Goes, Apart
    <2>3. Spared(t)
      BY <2>1, RecordSpared
    <2> QED BY <1>1, <1>4, <2>2, <2>3, GoesKeeps, UntouchedStore
            DEF BeginAdmission, ledgerVars, clientVars
  <1> QED BY <1>2, <1>3, <1>4

(* Reservation::drop changes a row by its join hint only. *)
LEMMA ReleaseSame ==
    ASSUME Inv, NEW p, ReleasePermit(p), UNCHANGED slot
    PROVE  SameStore
  <1>1. \A k \in Key : rows[k] \in RowT
    BY DEF Inv, TypedInv
  <1>2. CASE rows' = rows
    BY <1>2, UntouchedStore
  <1>3. CASE rows' # rows
    <2>1. PICK k : rows' = [rows EXCEPT ![k].wave = NoPermit]
      BY <1>3 DEF ReleasePermit
    <2>2. \A j \in Key : /\ rows'[j].body = rows[j].body /\ rows'[j].raw = rows[j].raw
                         /\ rows'[j].retiring = rows[j].retiring
                         /\ rows'[j].present = rows[j].present
                         /\ rows'[j].calls = rows[j].calls
      BY <2>1, <1>1 DEF Inv, TypedInv, RowT
    <2> QED BY <2>2 DEF SameStore, SameCharges, SameTickets, SameSlot
  <1> QED BY <1>2, <1>3

LEMMA DropSpareBooks ==
    ASSUME Inv, BooksInv, NEW t \in Thread, DropSpare(t)
    PROVE  BooksInv'
  <1> DEFINE m == [loc[t] EXCEPT !.spare = NoPermit]
             a == IF loc[t].prep # "none" THEN "resolve"
                  ELSE IF loc[t].answer # "none" THEN "answer" ELSE "begin"
  <1>1. loc' = [loc EXCEPT ![t] = Trimming(m, a)] /\ Goes(t) /\ pc[t] = "spare"
    BY DEF DropSpare, Goto, Goes, Apart
  <1>2. m.gone = loc[t].gone /\ m \in Local
    BY LocalRecord DEF Local
  <1>3. Spared(t)
    BY <1>1, <1>2, TrimmingGone, RecordSpared
  <1>4. SameStore
    BY ReleaseSame DEF DropSpare
  <1> QED BY <1>1, <1>3, <1>4, GoesKeeps DEF DropSpare, clientVars

LEMMA RestGoes ==
    ASSUME Inv, NEW t \in Thread, Rest(t)
    PROVE  Goes(t) /\ Spared(t)
  <1>1. Goes(t)
    BY DEF Rest, Goto, Goes, Apart
  <1>2. loc' = [loc EXCEPT ![t] = NoCall]
    BY DEF Rest
  <1> QED BY <1>1, <1>2, NoCallGone, RecordSpared

LEMMA AnswerGoes ==
    ASSUME Inv, NEW t \in Thread, NEW a, Answer(t, a)
    PROVE  Goes(t) /\ Spared(t)
  <1>1. CASE loc[t].key = NoKey
    BY <1>1, RestGoes DEF Answer
  <1>2. CASE loc[t].key # NoKey
    <2> DEFINE l == [loc[t] EXCEPT !.answer = a]
    <2>1. loc' = [loc EXCEPT ![t] = l] /\ Goes(t)
      BY <1>2 DEF Answer, Goto, Goes, Apart
    <2>2. l.gone = loc[t].gone
      BY LocalRecord DEF Local
    <2> HIDE DEF l
    <2> QED BY <2>1, <2>2, RecordSpared
  <1> QED BY <1>1, <1>2

LEMMA RefusedBooks ==
    ASSUME Inv, BooksInv, NEW t \in Thread, NEW a, pc[t] = "admit", Refused(t, a)
    PROVE  BooksInv'
  BY AnswerGoes, GoesKeeps, UntouchedStore DEF Refused, clientVars

LEMMA AdmitOpenBooks ==
    ASSUME Inv, BooksInv, NEW t \in Thread, AdmitOpen(t)
    PROVE  BooksInv'
  <1> DEFINE q == CHOOSE p \in PermitId \ Live : TRUE
  <1>1. pc[t] = "admit" /\ Goes(t)
    BY DEF AdmitOpen, Turn, Contends, Admitting, Goto, Goes, Apart
  <1>2. PICK l : loc' = [loc EXCEPT ![t] = l] /\ l.gone = loc[t].gone
    <2>1. CASE loc[t].key = NoKey
      <3> DEFINE m == [loc[t] EXCEPT !.res = q]
      <3>1. loc' = [loc EXCEPT ![t] = m]
        BY <2>1 DEF AdmitOpen
      <3>2. m.gone = loc[t].gone
        BY LocalRecord DEF Local
      <3> QED BY <3>1, <3>2
    <2>2. CASE loc[t].key # NoKey
      <3> DEFINE m == [loc[t] EXCEPT !.spare = q]
      <3>1. loc' = [loc EXCEPT ![t] = m]
        BY <2>2 DEF AdmitOpen
      <3>2. m.gone = loc[t].gone
        BY LocalRecord DEF Local
      <3> QED BY <3>1, <3>2
    <2> QED BY <2>1, <2>2
  <1>3. Spared(t)
    BY <1>2, RecordSpared
  <1>4. SameStore
    <2>1. CASE UNCHANGED rows
      BY <2>1, UntouchedStore DEF AdmitOpen
    <2>2. CASE ~UNCHANGED rows
      <3>1. rows' = [rows EXCEPT ![loc[t].key].wave = q] /\ UNCHANGED slot
        BY <2>2 DEF AdmitOpen
      <3>2. \A j \in Key : /\ rows'[j].body = rows[j].body /\ rows'[j].raw = rows[j].raw
                           /\ rows'[j].retiring = rows[j].retiring
                           /\ rows'[j].present = rows[j].present
                           /\ rows'[j].calls = rows[j].calls
        BY <3>1 DEF Inv, TypedInv, RowT
      <3> QED BY <3>1, <3>2 DEF SameStore, SameCharges, SameTickets, SameSlot
    <2> QED BY <2>1, <2>2
  <1> QED BY <1>1, <1>3, <1>4, GoesKeeps DEF AdmitOpen, clientVars

LEMMA AdmitStepBooks ==
    ASSUME Inv, BooksInv, NEW t \in Thread, AdmitStep(t)
    PROVE  BooksInv'
  <1>1. CASE \/ AdmitRetiring(t) \/ AdmitPaused(t) \/ AdmitKeptOut(t)
             \/ AdmitRefusedOversized(t) \/ AdmitOccupied(t)
    <2>1. pc[t] = "admit"
      BY <1>1 DEF AdmitRetiring, AdmitPaused, AdmitKeptOut, AdmitRefusedOversized, AdmitOccupied,
                  Turn, Contends, Admitting
    <2>2. \E a : Refused(t, a)
      BY <1>1 DEF AdmitRetiring, AdmitPaused, AdmitKeptOut, AdmitRefusedOversized, AdmitOccupied
    <2> QED BY <2>1, <2>2, RefusedBooks
  <1>2. CASE AdmitJoin(t)
    <2> DEFINE l == [loc[t] EXCEPT !.spare = rows[loc[t].key].wave]
    <2>1. loc' = [loc EXCEPT ![t] = l] /\ Goes(t) /\ pc[t] = "admit"
      BY <1>2 DEF AdmitJoin, Admitting, Goto, Goes, Apart
    <2>2. l.gone = loc[t].gone
      BY LocalRecord DEF Local
    <2> HIDE DEF l
    <2>3. Spared(t)
      BY <2>1, <2>2, RecordSpared
    <2> QED BY <1>2, <2>1, <2>3, GoesKeeps, UntouchedStore DEF AdmitJoin, clientVars
  <1>3. CASE AdmitHot(t)
    <2>1. Goes(t) /\ pc[t] = "admit" /\ Spared(t)
      BY <1>3, SameSpared DEF AdmitHot, Admitting, Goto, Goes, Apart
    <2> QED BY <1>3, <2>1, GoesKeeps, UntouchedStore DEF AdmitHot, clientVars
  <1>4. CASE AdmitOpen(t)
    BY <1>4, AdmitOpenBooks
  <1>5. CASE AdmitReclaim(t)
    <2> DEFINE l == [loc[t] EXCEPT !.mode = "admit"]
    <2>1. loc' = [loc EXCEPT ![t] = l] /\ Goes(t) /\ pc[t] = "admit"
      BY <1>5 DEF AdmitReclaim, Turn, Contends, Admitting, Goto, Goes, Apart
    <2>2. l.gone = loc[t].gone
      BY LocalRecord DEF Local
    <2> HIDE DEF l
    <2>3. Spared(t)
      BY <2>1, <2>2, RecordSpared
    <2> QED BY <1>5, <2>1, <2>3, GoesKeeps, UntouchedStore DEF AdmitReclaim, clientVars
  <1>6. CASE Unowe(t)
    <2>1. Goes(t) /\ Spared(t)
      <3>1. CASE loc[t].key = NoKey
        BY <1>6, <3>1, RestGoes DEF Unowe
      <3>2. CASE loc[t].key # NoKey
        <4> DEFINE l == [loc[t] EXCEPT !.mode = "trim"]
        <4>1. loc' = [loc EXCEPT ![t] = l] /\ Goes(t)
          BY <1>6, <3>2 DEF Unowe, Goto, Goes, Apart
        <4>2. l.gone = loc[t].gone
          BY LocalRecord DEF Local
        <4> HIDE DEF l
        <4> QED BY <4>1, <4>2, RecordSpared
      <3> QED BY <3>1, <3>2
    <2> QED BY <1>6, <2>1, GoesKeeps, UntouchedStore DEF Unowe, clientVars
  <1> QED BY <1>1, <1>2, <1>3, <1>4, <1>5, <1>6 DEF AdmitStep

-----------------------------------------------------------------------------
(* catalog.rs admit *)

LEMMA AgainBooks ==
    ASSUME Inv, BooksInv, NEW t \in Thread, pc[t] = "answer", NEW m, Again(t, m)
    PROVE  BooksInv'
  <1>1. loc' = [loc EXCEPT ![t] = Attempt([m EXCEPT !.again = FALSE])] /\ Goes(t)
    BY DEF Again, Goto, Goes, Apart
  <1>2. Spared(t)
    BY <1>1, AttemptGone, RecordSpared
  <1> QED BY <1>1, <1>2, GoesKeeps, UntouchedStore DEF Again, ledgerVars, clientVars

LEMMA LeaseBooks ==
    ASSUME Inv, BooksInv, NEW t \in Thread, LeaseStep(t)
    PROVE  BooksInv'
  <1>1. pc[t] = "answer"
    BY DEF LeaseStep, Poll, Unpause, RetryPause, Leave, Answered
  <1>2. CASE Poll(t) \/ Unpause(t) \/ RetryPause(t)
    BY <1>1, <1>2, AgainBooks DEF Poll, Unpause, RetryPause
  <1>3. CASE Leave(t)
    BY <1>1, <1>3, RestGoes, GoesKeeps, UntouchedStore DEF Leave, ledgerVars, clientVars
  <1> QED BY <1>2, <1>3 DEF LeaseStep

LEMMA PatienceBooks ==
    ASSUME Inv, BooksInv, NEW t \in Thread, PatienceEnds(t)
    PROVE  BooksInv'
  <1>1. loc[t] \in Local
    BY DEF Inv, TypedInv
  <1>2. /\ loc'[t].gone = loc[t].gone /\ loc'[t].goneRaw = loc[t].goneRaw
        /\ loc'[t].victim = loc[t].victim /\ loc'[t].snap = loc[t].snap
        /\ loc'[t].key = loc[t].key /\ loc'[t].raw = loc[t].raw
    BY <1>1 DEF PatienceEnds, Inv, TypedInv, Local
  <1>3. \A u \in Thread \ {t} : loc'[u] = loc[u]
    BY DEF PatienceEnds, Inv, TypedInv
  <1>4. \A u \in Thread : Calm(u)
    BY <1>2, <1>3 DEF Calm, SameGone, Retires, PatienceEnds, BooksInv, StoreInv, Leaving
  <1> QED BY <1>4, CalmKeeps, UntouchedStore DEF PatienceEnds, ledgerVars, clientVars

-----------------------------------------------------------------------------
(* Trims that find nothing, and drops outside the store                    *)

LEMMA ResumeGoes ==
    ASSUME Inv, NEW t \in Thread, Resume(t)
    PROVE  Goes(t) /\ Spared(t)
  <1>1. CASE loc[t].after = "idle"
    BY <1>1, RestGoes DEF Resume
  <1>2. CASE loc[t].after = "begin"
    BY <1>2, AttemptGone, RecordSpared DEF Resume, Goto, Goes, Apart
  <1>3. CASE loc[t].after \notin {"idle", "begin"}
    <2> DEFINE l == [loc[t] EXCEPT !.after = "idle"]
    <2>1. loc' = [loc EXCEPT ![t] = l] /\ pc' = [pc EXCEPT ![t] = loc[t].after]
      BY <1>3 DEF Resume, Goto
    <2>2. loc[t].after \notin Apart
      BY LocalRecord DEF Place, Apart
    <2>3. l.gone = loc[t].gone
      BY LocalRecord DEF Local
    <2> HIDE DEF l
    <2> QED BY <2>1, <2>2, <2>3, RecordSpared DEF Goes
  <1> QED BY <1>1, <1>2, <1>3

LEMMA CollectedGoes ==
    ASSUME NEW t \in Thread, Collected(t)
    PROVE  Goes(t)
  <1> DEFINE p == IF loc[t].mode = "trim" THEN "select"
                  ELSE IF loc[t].answer = "Busy" THEN "unowe" ELSE "admit"
  <1>1. pc' = [pc EXCEPT ![t] = p]
    BY DEF Collected, Goto
  <1>2. p \notin Apart
    BY DEF Apart
  <1> HIDE DEF p
  <1> QED BY <1>1, <1>2 DEF Goes

LEMMA RetireCalmBooks ==
    ASSUME Inv, BooksInv, NEW t \in Thread, SelectNone(t) \/ CollectNothing(t) \/ DropRow(t)
    PROVE  BooksInv'
  <1>1. CASE SelectNone(t)
    <2>1. Goes(t) /\ Spared(t)
      BY <1>1, AnswerGoes, ResumeGoes DEF SelectNone
    <2> QED BY <1>1, <2>1, GoesKeeps, UntouchedStore DEF SelectNone, clientVars
  <1>2. CASE CollectNothing(t)
    <2>1. Goes(t) /\ Spared(t) /\ pc[t] = "collect"
      BY <1>2, CollectedGoes, SameSpared DEF CollectNothing
    <2> QED BY <1>2, <2>1, GoesKeeps, UntouchedStore DEF CollectNothing, ledgerVars, clientVars
  <1>3. CASE DropRow(t)
    <2>1. /\ pc[t] = "drop" /\ pc'[t] = "destroyed"
          /\ \A u \in Thread \ {t} : pc'[u] = pc[u] /\ loc'[u] = loc[u]
          /\ loc'[t].gone = loc[t].gone /\ loc'[t].goneRaw = loc[t].goneRaw
      BY <1>3, LocalRecord DEF DropRow, Goto, Inv, TypedInv, Local
    <2>2. \A u \in Thread : Calm(u)
      BY <2>1 DEF Calm, SameGone, Retires, BooksInv, StoreInv, Leaving
    <2> QED BY <1>3, <2>2, CalmKeeps, UntouchedStore DEF DropRow, ledgerVars, clientVars
  <1> QED BY <1>1, <1>2, <1>3

(* A step that starts a trim. *)
LEMMA TrimBooks ==
    ASSUME Inv, BooksInv, NEW t \in Thread, NEW m \in Local, m.gone = loc[t].gone, NEW a,
           loc' = [loc EXCEPT ![t] = Trimming(m, a)], Goes(t),
           pc[t] \notin {"drop", "destroyed", "unraw"},
           SameStore, UNCHANGED <<raws, rawBytes, bodyBytes, held, rawHeld, faults>>
    PROVE  BooksInv'
  <1>1. Spared(t)
    BY TrimmingGone, RecordSpared
  <1> QED BY <1>1, GoesKeeps

(* A row of which only counts no retirement reads, or sizes learned, move. *)
LEMMA RowSame ==
    ASSUME NEW k, \A j \in Key \ {k} : rows'[j] = rows[j], UNCHANGED slot,
           rows'[k].body = rows[k].body, rows'[k].raw = rows[k].raw,
           rows'[k].retiring = rows[k].retiring, rows'[k].present = rows[k].present,
           rows'[k].calls = rows[k].calls
    PROVE  SameStore
  <1>1. \A j \in Key : /\ rows'[j].body = rows[j].body /\ rows'[j].raw = rows[j].raw
                       /\ rows'[j].retiring = rows[j].retiring
                       /\ rows'[j].present = rows[j].present
                       /\ rows'[j].calls = rows[j].calls
    OBVIOUS
  <1> QED BY <1>1 DEF SameStore, SameCharges, SameTickets, SameSlot

LEMMA CallCalmBooks ==
    ASSUME Inv, BooksInv, NEW t \in Thread,
           \/ Learn(t) \/ DropBody(t) \/ DropCall(t) \/ DropMember(t) \/ DropHolding(t)
           \/ UnpinLedger(t)
    PROVE  BooksInv'
  <1> DEFINE k == loc[t].key
  <1>0. loc[t] \in Local /\ \A j \in Key : rows[j] \in RowT
    BY DEF Inv, TypedInv
  <1>1. CASE Learn(t)
    <2>1. Goes(t) /\ Spared(t) /\ pc[t] = "resolve"
      BY <1>1, SameSpared DEF Learn, Resolving, Goto, Goes, Apart
    <2>2. k \in Key
      BY <2>1, LocalRecord DEF Learn, Place, Aim, Trims, Local
    <2> DEFINE m == [rows[k] EXCEPT !.learned = Max({rows[k].learned, Observed(k)})]
               r == [m EXCEPT !.forced = TRUE]
    <2>3. rows' = [rows EXCEPT ![k] = r]
      BY <1>1 DEF Learn
    <2>4. /\ r.body = rows[k].body /\ r.raw = rows[k].raw /\ r.retiring = rows[k].retiring
          /\ r.present = rows[k].present /\ r.calls = rows[k].calls
      BY <1>0, <2>2 DEF RowT
    <2> HIDE DEF r, m
    <2>5. SameStore
      BY <1>1, <2>2, <2>3, <2>4, RowSame DEF Learn, Inv, TypedInv
    <2> QED BY <1>1, <2>1, <2>5, GoesKeeps DEF Learn, clientVars
  <1>2. CASE DropBody(t)
    <2> DEFINE m == [loc[t] EXCEPT !.hasBody = FALSE]
    <2>1. loc' = [loc EXCEPT ![t] = Trimming(m, "call")] /\ Goes(t) /\ pc[t] = "body"
      BY <1>2 DEF DropBody, Goto, Goes, Apart
    <2>2. m \in Local
      BY <1>0 DEF Local
    <2>3. m.gone = loc[t].gone
      BY <1>0 DEF Local
    <2> HIDE DEF m
    <2> QED BY <1>2, <2>1, <2>2, <2>3, TrimBooks, UntouchedStore
            DEF DropBody, ledgerVars, clientVars
  <1>3. CASE DropCall(t)
    <2>1. Goes(t) /\ pc[t] = "call"
      BY <1>3 DEF DropCall, Goto, Goes, Apart
    <2>2. \E m \in Local : /\ m.gone = loc[t].gone
                           /\ loc' = [loc EXCEPT ![t] = Trimming(m, "member")]
      <3> DEFINE m == [loc[t] EXCEPT !.res = NoPermit]
      <3>1. m \in Local /\ m.gone = loc[t].gone
        BY <1>0 DEF Local
      <3> QED BY <1>0, <1>3, <3>1 DEF DropCall
    <2>3. SameStore
      BY <1>3, ReleaseSame, UntouchedStore DEF DropCall
    <2> QED BY <1>3, <2>1, <2>2, <2>3, TrimBooks DEF DropCall, clientVars
  <1>4. CASE DropMember(t)
    <2> DEFINE m == [loc[t] EXCEPT !.victim = k]
               r == [rows[k] EXCEPT !.refs = rows[k].refs - 1]
    <2>1. /\ loc' = [loc EXCEPT ![t] = Trimming(m, loc[t].fin)] /\ Goes(t) /\ pc[t] = "member"
          /\ rows' = [rows EXCEPT ![k] = r]
      BY <1>4 DEF DropMember, Goto, Goes, Apart
    <2>2. k \in Key
      BY <2>1, LocalRecord DEF Place, Aim, Trims, Local
    <2>3. m \in Local /\ m.gone = loc[t].gone
      BY <1>0 DEF Local
    <2>4. /\ r.body = rows[k].body /\ r.raw = rows[k].raw /\ r.retiring = rows[k].retiring
          /\ r.present = rows[k].present /\ r.calls = rows[k].calls
      BY <1>0, <2>2 DEF RowT
    <2> HIDE DEF m, r
    <2>5. SameStore
      BY <1>4, <2>1, <2>2, <2>4, RowSame DEF DropMember, Inv, TypedInv
    <2> QED BY <1>4, <2>1, <2>3, <2>5, TrimBooks DEF DropMember, clientVars
  <1>5. CASE DropHolding(t)
    <2> DEFINE m == [loc[t] EXCEPT !.res = NoPermit]
    <2>1. loc' = [loc EXCEPT ![t] = Trimming(m, "idle")] /\ Goes(t) /\ pc[t] = "holding"
      BY <1>5 DEF DropHolding, Goto, Goes, Apart
    <2>2. m \in Local /\ m.gone = loc[t].gone
      BY <1>0 DEF Local
    <2> HIDE DEF m
    <2>3. SameStore
      BY <1>5, ReleaseSame DEF DropHolding
    <2> QED BY <1>5, <2>1, <2>2, <2>3, TrimBooks DEF DropHolding, clientVars
  <1>6. CASE UnpinLedger(t)
    <2> DEFINE r == [rows[k] EXCEPT !.pins = rows[k].pins - 1]
    <2>1. /\ loc' = [loc EXCEPT ![t] = Trimming(loc[t], "member")] /\ Goes(t) /\ pc[t] = "unpin"
          /\ rows' = [rows EXCEPT ![k] = r]
      BY <1>6 DEF UnpinLedger, Goto, Goes, Apart
    <2>2. k \in Key
      BY <2>1, LocalRecord DEF Place, Aim, Trims, Local
    <2>4. /\ r.body = rows[k].body /\ r.raw = rows[k].raw /\ r.retiring = rows[k].retiring
          /\ r.present = rows[k].present /\ r.calls = rows[k].calls
      BY <1>0, <2>2 DEF RowT
    <2> HIDE DEF r
    <2>5. SameStore
      BY <1>6, <2>1, <2>2, <2>4, RowSame DEF UnpinLedger, Inv, TypedInv
    <2> QED BY <1>0, <1>6, <2>1, <2>5, TrimBooks DEF UnpinLedger, clientVars
  <1> QED BY <1>1, <1>2, <1>3, <1>4, <1>5, <1>6

-----------------------------------------------------------------------------
(* What an idle thread starts, and what only passes                        *)

LEMMA StartGoes ==
    ASSUME Inv, NEW t \in Thread, NEW l, NEW p, Start(t, l, p), p \notin Apart, l.gone = 0
    PROVE  Goes(t) /\ Spared(t) /\ pc[t] = "idle"
  BY RecordSpared DEF Start, Goto, Goes

LEMMA UnpinBooks ==
    ASSUME Inv, BooksInv, NEW t \in Thread, NEW k \in Key, Unpin(t, k)
    PROVE  BooksInv'
  <1> DEFINE l == [NoCall EXCEPT !.key = k]
  <1>1. l.gone = 0
    BY DEF NoCall
  <1>2. Start(t, l, "unpin")
    BY DEF Unpin
  <1> HIDE DEF l
  <1>3. Goes(t) /\ Spared(t) /\ pc[t] = "idle"
    BY <1>1, <1>2, StartGoes DEF Apart
  <1>4. \A u \in Thread : Calm(u)
    BY <1>3, ApartCalm DEF Goes, Spared, BooksInv
  <1>5. \A u \in Thread : held'[u] \subseteq held[u]
    BY DEF Unpin, Inv, TypedInv
  <1> QED BY <1>4, <1>5, CalmKeeps, UntouchedStore DEF Unpin, ledgerVars

LEMMA LeaseStartBooks ==
    ASSUME Inv, BooksInv, NEW t \in Thread, NEW k \in Key, NEW a, Lease(t, k, a)
    PROVE  BooksInv'
  <1> DEFINE m == [NoCall EXCEPT !.key = k]
             l == [m EXCEPT !.access = a]
  <1>1. l.gone = 0
    BY DEF NoCall
  <1>2. Start(t, l, "begin")
    BY DEF Lease
  <1> HIDE DEF l
  <1>3. Goes(t) /\ Spared(t) /\ pc[t] = "idle"
    BY <1>1, <1>2, StartGoes DEF Apart
  <1> QED BY <1>3, GoesKeeps, UntouchedStore DEF Lease, ledgerVars, clientVars

(* Controller::retain: a row that is not present has nothing charged.      *)
LEMMA RetainBooks ==
    ASSUME Inv, BooksInv, NEW t \in Thread, NEW k \in Key, Retain(t, k)
    PROVE  BooksInv'
  <1>1. Goes(t) /\ Spared(t) /\ pc[t] = "idle"
    <2>1. Start(t, NoCall, "select")
      BY DEF Retain
    <2> QED BY <2>1, NoCallGone, StartGoes DEF Apart
  <1>2. \A j \in Key : rows[j] \in RowT
    BY DEF Inv, TypedInv
  <1>3. SameStore
    <2>1. CASE rows[k].present
      <3> DEFINE r == [rows[k] EXCEPT !.refs = rows[k].refs + 1]
      <3>1. rows' = [rows EXCEPT ![k] = r] /\ UNCHANGED slot
        BY <2>1 DEF Retain
      <3>2. /\ r.body = rows[k].body /\ r.raw = rows[k].raw /\ r.retiring = rows[k].retiring
            /\ r.present = rows[k].present /\ r.calls = rows[k].calls
        BY <1>2 DEF RowT
      <3> HIDE DEF r
      <3> QED BY <3>1, <3>2, RowSame DEF Inv, TypedInv
    <2>2. CASE ~rows[k].present
      <3>1. rows' = [rows EXCEPT ![k] = NewRow] /\ UNCHANGED slot
        BY <2>2 DEF Retain
      <3>2. NewRow.body = 0 /\ NewRow.retiring = FALSE
        BY DEF NewRow, Absent
      <3>3. ~rows[k].retiring /\ rows[k].body = 0
        BY <2>2 DEF BooksInv, StoreInv, ChargedRow, Ticketing
      <3>4. rows'[k] = NewRow /\ \A j \in Key \ {k} : rows'[j] = rows[j]
        BY <3>1 DEF Inv, TypedInv
      <3>5. rows[k].retiring = FALSE
        BY <1>2, <3>3 DEF RowT
      <3>6. SameCharges
        BY <3>2, <3>3, <3>4 DEF SameCharges
      <3>7. \A j \in Key : /\ rows'[j].retiring = rows[j].retiring
                           /\ rows[j].present => rows'[j].present
                           /\ rows'[j].calls = rows[j].calls \/ ~rows[j].retiring
        BY <2>2, <3>2, <3>4, <3>5
      <3> QED BY <3>1, <3>6, <3>7 DEF SameStore, SameTickets, SameSlot
    <2> QED BY <2>1, <2>2
  <1> QED BY <1>1, <1>3, GoesKeeps DEF Retain, clientVars

LEMMA HostBooks ==
    ASSUME Inv, BooksInv, NEW t \in Thread, HostStart(t)
    PROVE  BooksInv'
  <1>1. ASSUME NEW b \in StageSizes, Reserve(t, b)
        PROVE  BooksInv'
    <2> DEFINE l == [NoCall EXCEPT !.need = b]
    <2>1. l.gone = 0
      BY DEF NoCall
    <2>2. Start(t, l, "admit")
      BY <1>1 DEF Reserve
    <2> HIDE DEF l
    <2>3. Goes(t) /\ Spared(t) /\ pc[t] = "idle"
      BY <2>1, <2>2, StartGoes DEF Apart
    <2> QED BY <1>1, <2>3, GoesKeeps, UntouchedStore DEF Reserve, ledgerVars, clientVars
  <1>2. ASSUME NEW k \in Key, DropGeneration(t, k)
        PROVE  BooksInv'
    <2> DEFINE l == [NoCall EXCEPT !.key = k]
    <2>1. l.gone = 0
      BY DEF NoCall
    <2>2. Start(t, l, "member")
      BY <1>2 DEF DropGeneration
    <2> HIDE DEF l
    <2>3. Goes(t) /\ Spared(t) /\ pc[t] = "idle"
      BY <2>1, <2>2, StartGoes DEF Apart
    <2> QED BY <1>2, <2>3, GoesKeeps, UntouchedStore DEF DropGeneration, ledgerVars, clientVars
  <1>3. ASSUME NEW n, SetLimit(t, n)
        PROVE  BooksInv'
    <2>1. Goes(t) /\ Spared(t) /\ pc[t] = "idle"
      BY <1>3, NoCallGone, StartGoes DEF SetLimit, Apart
    <2> QED BY <1>3, <2>1, GoesKeeps, UntouchedStore DEF SetLimit, clientVars
  <1>4. ASSUME NEW n, SetFloor(t, n)
        PROVE  BooksInv'
    <2>1. Goes(t) /\ Spared(t) /\ pc[t] = "idle"
      BY <1>4, NoCallGone, StartGoes DEF SetFloor, Apart
    <2> QED BY <1>4, <2>1, GoesKeeps, UntouchedStore DEF SetFloor, ledgerVars, clientVars
  <1> QED BY <1>1, <1>2, <1>3, <1>4, RetainBooks DEF HostStart

LEMMA StillBooks ==
    ASSUME Inv, BooksInv,
           UNCHANGED <<rows, slot, pc, loc, held, raws, rawBytes, bodyBytes, rawHeld, faults>>
    PROVE  BooksInv'
  <1>1. \A u \in Thread : Calm(u)
    BY DEF Calm, SameGone, Retires, BooksInv, StoreInv, Leaving
  <1> QED BY <1>1, CalmKeeps, UntouchedStore

-----------------------------------------------------------------------------
(* Flights                                                                 *)

(* The slot of a version without a body moves while it is not hot.         *)
LEMMA FlightStore ==
    ASSUME Inv, StoreInv, NEW k \in Key, rows[k].body = 0, slot[k].phase # "Hot",
           slot'[k].phase = "Hot" => slot'[k].raw # NoRaw,
           \A j \in Key \ {k} : SameSlot(j), SameCharges, SameTickets,
           \A u \in Thread : Calm(u), \A u \in Thread : held'[u] \subseteq held[u]
    PROVE  StoreInv'
  <1>1. ASSUME NEW j \in Key
        PROVE  (ChargedRow(j) /\ Stored(j) /\ Ticketing(j))'
    <2>1. CASE j = k
      BY <2>1 DEF StoreInv, SameCharges, SameTickets, ChargedRow, Stored, Ticketing
    <2>2. CASE j # k
      BY <2>2 DEF StoreInv, SameCharges, SameTickets, SameSlot, ChargedRow, Stored, Ticketing
    <2> QED BY <2>1, <2>2
  <1>2. ASSUME NEW t \in Thread, NEW j \in held'[t]
        PROVE  rows'[j].body # 0
    <2>1. j \in held[t] /\ j \in Key
      BY DEF Inv, TypedInv
    <2> QED BY <2>1 DEF StoreInv, SameCharges
  <1>3. ASSUME NEW t \in Thread, Retires(t)'
        PROVE  rows'[loc'[t].victim].retiring
    <2>1. Retires(t) /\ loc'[t].victim = loc[t].victim
      BY <1>3 DEF Calm
    <2> QED BY <2>1, VictimTyped DEF StoreInv, SameTickets
  <1>4. ASSUME NEW t \in Thread, NEW u \in Thread, Retires(t)', Retires(u)',
               loc'[t].victim = loc'[u].victim
        PROVE  t = u
    BY <1>4 DEF StoreInv, Calm
  <1>5. ASSUME NEW t \in Thread
        PROVE  Snapped(t)'
    <2>1. SUFFICES ASSUME pc'[t] \in {"raw", "fail"}, loc'[t].snap = "Hot"
                   PROVE  /\ slot'[loc'[t].key].phase = "Hot"
                          /\ pc'[t] = "fail" => loc'[t].raw = slot'[loc'[t].key].raw
      BY DEF Snapped
    <2>2. /\ pc'[t] = pc[t] /\ loc'[t].snap = loc[t].snap
          /\ loc'[t].key = loc[t].key /\ loc'[t].raw = loc[t].raw
      BY <2>1 DEF Calm
    <2>3. loc[t].key \in Key
      BY <2>1, <2>2, SnapTyped
    <2>4. Snapped(t)
      BY DEF StoreInv
    <2>5. loc[t].key # k
      BY <2>1, <2>2, <2>4 DEF Snapped
    <2> QED BY <2>1, <2>2, <2>3, <2>4, <2>5 DEF Snapped, SameSlot
  <1>6. ASSUME NEW t \in Thread
        PROVE  Leaving(t)'
    BY DEF StoreInv, Leaving, Calm, SameGone
  <1> QED BY <1>1, <1>2, <1>3, <1>4, <1>5, <1>6 DEF StoreInv

LEMMA SameRowsStore ==
    ASSUME UNCHANGED rows
    PROVE  SameCharges /\ SameTickets
  BY DEF SameCharges, SameTickets

(* A loading slot's version has no body, and no call of a retiring one.    *)
LEMMA Unbodied ==
    ASSUME StoreInv, NEW k \in Key
    PROVE  /\ slot[k].phase = "Loading" => rows[k].body = 0
           /\ slot[k].phase = "Cold" /\ ~rows[k].retiring => rows[k].body = 0
  BY DEF StoreInv, ChargedRow

(* The end of a flight. *)
LEMMA LandedBooks ==
    ASSUME Inv, BooksInv, NEW t \in Thread, NEW k \in Key, Loads(t, k),
           NEW s, slot' = [slot EXCEPT ![k] = s], s.phase = "Hot" => s.raw # NoRaw,
           \A u \in Thread : /\ loc'[u].victim = loc[u].victim /\ loc'[u].gone = loc[u].gone
                             /\ loc'[u].goneRaw = loc[u].goneRaw
                             /\ pc[u] \in {"raw", "fail"} => loc'[u] = loc[u],
           UNCHANGED <<rows, pc, held, raws, rawBytes, bodyBytes, rawHeld>>, SameStrays
    PROVE  BooksInv'
  <1>1. slot[k].phase = "Loading"
    BY DEF Inv, Flown, Loads
  <1>2. rows[k].body = 0
    BY <1>1, Unbodied DEF BooksInv
  <1>3. slot'[k] = s /\ \A j \in Key \ {k} : slot'[j] = slot[j]
    BY DEF Inv, TypedInv
  <1>4. \A u \in Thread : Calm(u)
    BY DEF Calm, SameGone, Retires, BooksInv, StoreInv, Leaving
  <1>5. StoreInv'
    BY <1>1, <1>2, <1>3, <1>4, SameRowsStore, FlightStore DEF SameSlot, BooksInv
  <1> QED BY <1>4, <1>5, SameRowsStore, LedgerApart DEF Calm

LEMMA LoadBooks ==
    ASSUME Inv, BooksInv, NEW t \in Thread, LoadOk(t) \/ LoadFail(t)
    PROVE  BooksInv'
  <1> DEFINE k == loc[t].key
  <1>1. k \in Key /\ Loads(t, k) /\ slot[k] \in Slot
    <2>1. pc[t] = "resolve" /\ loc[t].prep = "load"
      BY DEF LoadOk, LoadFail, Resolving
    <2>2. loc[t].key \in Key
      BY <2>1, LocalRecord DEF Place, Aim, Trims, Local
    <2> QED BY <2>1, <2>2 DEF Loads, Inv, TypedInv
  <1>2. \A u \in Thread : loc[u] \in Local
    BY DEF Inv, TypedInv
  <1>3. \A u \in Thread : pc[u] \in {"raw", "fail"} => u # t /\ u \notin Waiters(k)
    <2>1. ASSUME NEW u \in Thread, pc[u] \in {"raw", "fail"}
          PROVE  loc[u].prep = "failed"
      BY <2>1, SnapTyped
    <2> QED BY <1>1, <2>1 DEF Loads, Waiters
  <1>4. CASE LoadOk(t)
    <2> DEFINE fresh == {i \in RawId : KeyOf(i) = k /\ ~raws[i].charged /\ ~Alive(i)}
               id == IF loc[t].raw # NoRaw THEN loc[t].raw ELSE CHOOSE i \in fresh : TRUE
               m == [slot[k] EXCEPT !.phase = "Hot", !.raw = id, !.lastRaw = id]
    <2>1. slot' = [slot EXCEPT ![k] = m]
      BY <1>4 DEF LoadOk
    <2>2. id # NoRaw
      <3>1. loc[t].raw = NoRaw => fresh # {}
        BY <1>4 DEF LoadOk
      <3>2. NoRaw \notin fresh
        BY ResidencyAssumption
      <3> HIDE DEF fresh
      <3> QED BY <3>1, <3>2
    <2>3. m.raw = id
      BY <1>1 DEF Slot
    <2> HIDE DEF m, id
    <2>4. \A u \in Thread :
            /\ loc'[u].victim = loc[u].victim /\ loc'[u].gone = loc[u].gone
            /\ loc'[u].goneRaw = loc[u].goneRaw
      BY <1>2, <1>4, ZenonT(30) DEF LoadOk, Local
    <2>5. \A u \in Thread : pc[u] \in {"raw", "fail"} => loc'[u] = loc[u]
      BY <1>3, <1>4 DEF LoadOk
    <2>6. SameStrays
      BY <1>4, SameFaults DEF LoadOk
    <2> QED BY <1>1, <1>4, <2>1, <2>2, <2>3, <2>4, <2>5, <2>6, LandedBooks, ZenonT(30)
            DEF LoadOk, ledgerVars, clientVars
  <1>5. CASE LoadFail(t)
    <2> DEFINE m == [slot[k] EXCEPT !.phase = "Cold"]
    <2>1. slot' = [slot EXCEPT ![k] = m]
      BY <1>5 DEF LoadFail
    <2>2. m.phase = "Cold"
      BY <1>1 DEF Slot
    <2> HIDE DEF m
    <2>4. \A u \in Thread :
            /\ loc'[u].victim = loc[u].victim /\ loc'[u].gone = loc[u].gone
            /\ loc'[u].goneRaw = loc[u].goneRaw
      BY <1>2, <1>5 DEF LoadFail, Local
    <2>5. \A u \in Thread : pc[u] \in {"raw", "fail"} => loc'[u] = loc[u]
      BY <1>3, <1>5 DEF LoadFail
    <2>6. SameStrays
      <3>1. faults' = [faults EXCEPT !.loads = @ + 1]
        BY <1>5 DEF LoadFail
      <3> QED BY <3>1 DEF SameStrays, FaultT, BooksInv, LedgerInv, OwnedInv
    <2> QED BY <1>1, <1>5, <2>1, <2>2, <2>4, <2>5, <2>6, LandedBooks, ZenonT(30)
            DEF LoadFail, ledgerVars, clientVars
  <1> QED BY <1>4, <1>5

(* Resident::prepare leaves the storage of the slot, and a hot slot hot.   *)
LEMMA PrepareStore ==
    ASSUME Inv, NEW t \in Thread, NEW m \in Local, NEW k \in Key, m.key = k,
           NEW s \in Slot, s.phase = slot[k].phase, s.raw = slot[k].raw, Prepare(t, m, s)
    PROVE  /\ \A j \in Key \ {k} : SameSlot(j)
           /\ slot'[k].raw = slot[k].raw
           /\ \/ slot'[k].phase = slot[k].phase
              \/ slot[k].phase = "Cold" /\ slot'[k].phase = "Loading"
           /\ Goes(t) /\ \A u \in Thread \ {t} : loc'[u] = loc[u]
           /\ loc'[t].gone = m.gone
  <1> DEFINE bumps == m.access = "Read" \/ s.phase = "Cold"
             spent == bumps /\ s.revision = MaxRevision
             reuse == IF s.lastRaw # NoRaw /\ Alive(s.lastRaw) THEN s.lastRaw ELSE NoRaw
             moved == IF bumps /\ ~spent THEN [s EXCEPT !.revision = @ + 1] ELSE s
             cold  == s.phase = "Cold" /\ ~spent
             n     == IF cold THEN [moved EXCEPT !.phase = "Loading", !.lastRaw = reuse] ELSE moved
             o     == IF spent THEN "failed" ELSE Outcome(s)
             h     == s.phase = "Hot" /\ ~spent
             x     == IF cold THEN reuse ELSE NoRaw
             l1    == [m EXCEPT !.prep = o]
             l2    == [l1 EXCEPT !.hasBody = h]
             l3    == [l2 EXCEPT !.raw = x]
  <1>1. slot' = [slot EXCEPT ![k] = n]
    BY DEF Prepare
  <1>2. loc' = [loc EXCEPT ![t] = l3]
    BY DEF Prepare
  <1>3. Goes(t)
    <2> DEFINE p == IF m.spare # NoPermit THEN "spare" ELSE "resolve"
    <2>1. pc' = [pc EXCEPT ![t] = p]
      BY DEF Prepare, Goto
    <2>2. p \notin Apart
      BY DEF Apart
    <2> HIDE DEF p
    <2> QED BY <2>1, <2>2 DEF Goes
  <1>4. moved.raw = s.raw /\ moved.phase = s.phase /\ DOMAIN moved = DOMAIN s
    BY DEF Slot
  <1>5. "raw" \in DOMAIN s /\ "phase" \in DOMAIN s
    BY DEF Slot
  <1> HIDE DEF moved, spent, reuse
  <1>6. n.raw = s.raw /\ n.phase = IF cold THEN "Loading" ELSE s.phase
    BY <1>4, <1>5
  <1>7. l3.gone = m.gone
    BY DEF Local
  <1> HIDE DEF n, l3
  <1>8. slot'[k] = n /\ \A j \in Key \ {k} : slot'[j] = slot[j]
    BY <1>1 DEF Inv, TypedInv
  <1>9. loc'[t] = l3 /\ \A u \in Thread \ {t} : loc'[u] = loc[u]
    BY <1>2 DEF Inv, TypedInv
  <1> QED BY <1>3, <1>6, <1>7, <1>8, <1>9 DEF SameSlot

(* Entering a call, in one step or in two. *)
LEMMA PreparedBooks ==
    ASSUME Inv, BooksInv, NEW t \in Thread, pc[t] \in {"begin", "prepare"},
           NEW m \in Local, NEW k \in Key, m.key = k, m.gone = loc[t].gone,
           NEW s \in Slot, s.phase = slot[k].phase, s.raw = slot[k].raw, Prepare(t, m, s),
           ~rows[k].retiring, SameCharges, SameTickets,
           UNCHANGED <<held, raws, rawBytes, bodyBytes, rawHeld, faults>>
    PROVE  BooksInv'
  <1>1. /\ \A j \in Key \ {k} : SameSlot(j)
        /\ slot'[k].raw = slot[k].raw
        /\ \/ slot'[k].phase = slot[k].phase
           \/ slot[k].phase = "Cold" /\ slot'[k].phase = "Loading"
        /\ Goes(t) /\ \A u \in Thread \ {t} : loc'[u] = loc[u]
        /\ loc'[t].gone = m.gone
    BY PrepareStore
  <1>2. \A u \in Thread : Calm(u)
    BY <1>1, ApartCalm DEF Goes, BooksInv
  <1>3. CASE slot'[k].phase = slot[k].phase
    <2>1. SameStore
      BY <1>1, <1>3 DEF SameStore, SameSlot
    <2> QED BY <1>2, <2>1, CalmKeeps
  <1>4. CASE slot[k].phase = "Cold" /\ slot'[k].phase = "Loading"
    <2>1. rows[k].body = 0
      BY <1>4, Unbodied DEF BooksInv
    <2>2. StoreInv'
      BY <1>1, <1>2, <1>4, <2>1, FlightStore DEF BooksInv
    <2> QED BY <1>2, <2>2, LedgerApart, SameFaults DEF Calm
  <1> QED BY <1>1, <1>3, <1>4

LEMMA PrepareJoinBooks ==
    ASSUME Inv, BooksInv, NEW t \in Thread, PrepareJoin(t)
    PROVE  BooksInv'
  <1> DEFINE k == loc[t].key
  <1>1. pc[t] = "prepare" /\ Prepare(t, loc[t], slot[k])
    BY DEF PrepareJoin
  <1>2. k \in Key /\ loc[t] \in Local
    BY <1>1, LocalRecord DEF Place, Aim, Trims, Local
  <1>3. slot[k] \in Slot
    BY <1>2 DEF Inv, TypedInv
  <1>4. InCall(t, k)
    BY <1>1 DEF InCall
  <1>5. rows[k].calls >= 1 /\ rows[k].calls \in Int
    BY <1>2, <1>4, CallCounts DEF Inv, TypedInv, RowT
  <1>6. ~rows[k].retiring
    BY <1>2, <1>5 DEF BooksInv, StoreInv, Ticketing
  <1>7. SameCharges /\ SameTickets
    BY SameRowsStore DEF PrepareJoin, ledgerVars
  <1> QED BY <1>1, <1>2, <1>3, <1>6, <1>7, PreparedBooks DEF PrepareJoin, ledgerVars, clientVars

LEMMA EnterBooks ==
    ASSUME Inv, BooksInv, NEW t \in Thread, Enter(t)
    PROVE  BooksInv'
  <1> DEFINE k == loc[t].key
             opens == NeedsWave(k)
             res == IF opens THEN loc[t].spare ELSE rows[k].wave
             sp == IF opens THEN NoPermit ELSE loc[t].spare
             l0 == [loc[t] EXCEPT !.res = res]
             l == [l0 EXCEPT !.spare = sp]
             r == [rows[k] EXCEPT !.calls = @ + 1, !.refs = @ + 1, !.wave = res]
             x == IF opens THEN Reusable(k) ELSE slot[k].lastRaw
             s == [slot[k] EXCEPT !.lastRaw = x]
  <1>1. pc[t] = "begin" /\ ~rows[k].retiring
    BY DEF Enter, Startable, Beginning
  <1>2. k \in Key /\ loc[t] \in Local
    BY <1>1, LocalRecord DEF Place, Aim, Trims, Local
  <1>3. rows[k] \in RowT /\ slot[k] \in Slot
    BY <1>2 DEF Inv, TypedInv
  <1>4. res \in PermitId \cup {NoPermit} /\ sp \in PermitId \cup {NoPermit}
    BY <1>2, <1>3 DEF Local, RowT
  <1> HIDE DEF res, sp
  <1>5. l0 \in Local /\ l0.key = k /\ l0.gone = loc[t].gone
    BY <1>2, <1>4 DEF Local
  <1> HIDE DEF l0
  <1>6. l \in Local /\ l.key = k /\ l.gone = loc[t].gone
    BY <1>4, <1>5 DEF Local
  <1>7. rows' = [rows EXCEPT ![k] = r]
    BY DEF Enter, res
  <1>8. /\ r.body = rows[k].body /\ r.raw = rows[k].raw /\ r.retiring = rows[k].retiring
        /\ r.present = rows[k].present
    BY <1>3 DEF RowT
  <1> HIDE DEF r
  <1>9. rows'[k] = r /\ \A j \in Key \ {k} : rows'[j] = rows[j]
    BY <1>2, <1>7 DEF Inv, TypedInv
  <1>10. SameCharges
    BY <1>8, <1>9 DEF SameCharges
  <1>11. SameTickets
    BY <1>1, <1>8, <1>9 DEF SameTickets
  <1>12. CASE slot[k].phase = "Loading"
    <2>1. loc' = [loc EXCEPT ![t] = l] /\ Goes(t) /\ UNCHANGED slot
      BY <1>12 DEF Enter, Goto, Goes, Apart, l, l0, res, sp
    <2> HIDE DEF l
    <2>2. Spared(t)
      BY <1>6, <2>1, RecordSpared
    <2>3. SameStore
      BY <1>10, <1>11, <2>1 DEF SameStore, SameSlot
    <2> QED BY <1>1, <2>1, <2>2, <2>3, GoesKeeps DEF Enter, clientVars
  <1>13. CASE slot[k].phase # "Loading"
    <2>1. Prepare(t, l, s)
      BY <1>13 DEF Enter, l, l0, res, sp
    <2>2. x \in RawId \cup {NoRaw}
      BY <1>2, <1>3 DEF Reusable, Slot, Inv, TypedInv
    <2> HIDE DEF x, l
    <2>3. s \in Slot /\ s.phase = slot[k].phase /\ s.raw = slot[k].raw
      BY <1>3, <2>2 DEF Slot
    <2> HIDE DEF s
    <2> QED BY <1>1, <1>2, <1>6, <1>10, <1>11, <2>1, <2>3, PreparedBooks DEF Enter, clientVars
  <1> QED BY <1>12, <1>13

-----------------------------------------------------------------------------
(* Retirements begin and shed                                              *)

(* No failed finish is under way in a version that is being retired.       *)
LEMMA NoCallRetiring ==
    ASSUME Inv, StoreInv, NEW t \in Thread, pc[t] \in {"raw", "fail"}
    PROVE  loc[t].key \in Key /\ ~rows[loc[t].key].retiring
  <1> DEFINE k == loc[t].key
  <1>1. k \in Key /\ loc[t].prep = "failed"
    BY SnapTyped
  <1>2. InCall(t, k)
    BY <1>1 DEF InCall
  <1>3. rows[k].calls >= 1 /\ rows[k].calls \in Int
    BY <1>1, <1>2, CallCounts DEF Inv, TypedInv, RowT
  <1> QED BY <1>1, <1>3 DEF StoreInv, Ticketing

LEMMA VictimsIdle ==
    ASSUME NEW mode, NEW v \in Victims(mode)
    PROVE  Idle(v)
  BY DEF Victims, Oldest, Ticketed

LEMMA SelectVictimBooks ==
    ASSUME Inv, BooksInv, NEW t \in Thread, SelectVictim(t)
    PROVE  BooksInv'
  <1>1. PICK v \in Victims(loc[t].mode) :
          /\ rows' = [rows EXCEPT ![v].retiring = TRUE]
          /\ loc' = [loc EXCEPT ![t].victim = v, ![t].vrev = slot[v].revision]
    BY DEF SelectVictim
  <1>2. v \in Key /\ Idle(v)
    BY VictimsAreVersions, VictimsIdle
  <1>3. pc[t] = "select" /\ pc'[t] = "shed" /\ \A u \in Thread \ {t} : pc'[u] = pc[u]
    BY DEF SelectVictim, Goto, Inv, TypedInv
  <1>4. /\ loc'[t].victim = v /\ loc'[t].gone = loc[t].gone
        /\ \A u \in Thread \ {t} : loc'[u] = loc[u]
    BY <1>1, LocalRecord DEF Inv, TypedInv, Local
  <1>5. /\ \A j \in Key \ {v} : rows'[j] = rows[j]
        /\ rows'[v].retiring = TRUE
        /\ rows'[v].body = rows[v].body /\ rows'[v].raw = rows[v].raw
        /\ rows'[v].present = rows[v].present /\ rows'[v].calls = rows[v].calls
    BY <1>1, <1>2 DEF Inv, TypedInv, RowT
  <1>6. UNCHANGED <<slot, held, raws, rawBytes, bodyBytes, rawHeld, faults>>
    BY DEF SelectVictim, clientVars
  <1>7. rows[v].body # 0 /\ rows[v].calls = 0 /\ ~rows[v].retiring
    BY <1>2 DEF Idle
  <1>8. \A u \in Thread : SameGone(u)
    <2>1. loc[t].gone = 0
      BY <1>3 DEF BooksInv, StoreInv, Leaving
    <2> QED BY <1>3, <1>4, <2>1 DEF SameGone, BooksInv, StoreInv, Leaving
  <1>9. SameCharges
    BY <1>5 DEF SameCharges
  <1>10. StoreInv'
    <2>1. ASSUME NEW j \in Key
          PROVE  (ChargedRow(j) /\ Stored(j) /\ Ticketing(j))'
      <3>1. ChargedRow(j) /\ Stored(j) /\ Ticketing(j)
        BY DEF BooksInv, StoreInv
      <3>2. CASE j = v
        BY <1>5, <1>6, <1>7, <3>1, <3>2 DEF ChargedRow, Stored, Ticketing
      <3>3. CASE j # v
        BY <1>5, <1>6, <3>1, <3>3 DEF ChargedRow, Stored, Ticketing
      <3> QED BY <3>2, <3>3
    <2>2. ASSUME NEW u \in Thread, NEW j \in held'[u]
          PROVE  rows'[j].body # 0
      BY <1>5, <1>6 DEF BooksInv, StoreInv, Inv, TypedInv
    <2>3. ASSUME NEW u \in Thread, Retires(u)'
          PROVE  rows'[loc'[u].victim].retiring
      <3>1. CASE u = t
        BY <1>4, <1>5, <3>1
      <3>2. CASE u # t
        <4>1. Retires(u) /\ loc'[u] = loc[u]
          BY <1>3, <1>4, <2>3, <3>2 DEF Retires
        <4> QED BY <1>5, <4>1, VictimTyped DEF BooksInv, StoreInv
      <3> QED BY <3>1, <3>2
    <2>4. ASSUME NEW u \in Thread \ {t}, Retires(u)'
          PROVE  Retires(u) /\ loc'[u].victim # v
      <3>1. Retires(u) /\ loc'[u] = loc[u]
        BY <1>3, <1>4, <2>4 DEF Retires
      <3> QED BY <1>7, <3>1 DEF BooksInv, StoreInv
    <2>5. ASSUME NEW a \in Thread, NEW u \in Thread, Retires(a)', Retires(u)',
                 loc'[a].victim = loc'[u].victim
          PROVE  a = u
      <3>1. CASE a # t /\ u # t
        BY <1>4, <2>4, <2>5, <3>1 DEF BooksInv, StoreInv
      <3>2. CASE a = t \/ u = t
        BY <1>4, <2>4, <2>5, <3>2
      <3> QED BY <3>1, <3>2
    <2>6. ASSUME NEW u \in Thread
          PROVE  Snapped(u)' /\ Leaving(u)'
      BY <1>3, <1>4, <1>6, <1>8 DEF BooksInv, StoreInv, Snapped, Leaving
    <2> QED BY <2>1, <2>2, <2>3, <2>5, <2>6 DEF StoreInv
  <1> QED BY <1>6, <1>8, <1>9, <1>10, LedgerApart, SameFaults

LEMMA ShedBooks ==
    ASSUME Inv, BooksInv, NEW t \in Thread, Shed(t)
    PROVE  BooksInv'
  <1> DEFINE v == loc[t].victim
             c == [slot[v] EXCEPT !.phase = "Cold", !.raw = NoRaw]
  <1>1. pc[t] = "shed" /\ pc'[t] = "settle" /\ \A u \in Thread \ {t} : pc'[u] = pc[u]
    BY DEF Shed, Goto, Inv, TypedInv
  <1>2. v \in Key /\ rows[v].retiring
    BY <1>1, VictimTyped DEF Retires, BooksInv, StoreInv
  <1>3. UNCHANGED <<rows, loc, held, raws, rawBytes, bodyBytes, rawHeld, faults>>
    BY DEF Shed, ledgerVars, clientVars
  <1>4. /\ \A j \in Key \ {v} : slot'[j] = slot[j]
        /\ slot'[v] = slot[v] \/ slot'[v].phase = "Cold"
    BY <1>2 DEF Shed, Inv, TypedInv, Slot
  <1>5. \A u \in Thread : SameGone(u)
    BY <1>1, <1>3 DEF SameGone, BooksInv, StoreInv, Leaving
  <1>6. SameCharges
    BY <1>3 DEF SameCharges
  <1>7. StoreInv'
    <2>1. ASSUME NEW j \in Key
          PROVE  (ChargedRow(j) /\ Stored(j) /\ Ticketing(j))'
      BY <1>2, <1>3, <1>4 DEF BooksInv, StoreInv, ChargedRow, Stored, Ticketing
    <2>2. \A u \in Thread : Retires(u)' => Retires(u)
      BY <1>1 DEF Retires
    <2>3. ASSUME NEW u \in Thread
          PROVE  Snapped(u)'
      <3>1. CASE pc[u] \in {"raw", "fail"}
        <4>1. loc[u].key \in Key /\ loc[u].key # v
          BY <1>2, <3>1, NoCallRetiring DEF BooksInv
        <4> QED BY <1>1, <1>3, <1>4, <4>1, <3>1 DEF BooksInv, StoreInv, Snapped
      <3>2. CASE pc[u] \notin {"raw", "fail"}
        BY <1>1, <3>2 DEF Snapped
      <3> QED BY <3>1, <3>2
    <2>4. ASSUME NEW u \in Thread
          PROVE  Leaving(u)'
      BY <1>1, <1>3 DEF BooksInv, StoreInv, Leaving
    <2> QED BY <1>3, <2>1, <2>2, <2>3, <2>4 DEF StoreInv, BooksInv
  <1> QED BY <1>3, <1>5, <1>6, <1>7, LedgerApart, SameFaults

-----------------------------------------------------------------------------
(* A failed finish reads its slot twice                                    *)

LEMMA FailReadBooks ==
    ASSUME Inv, BooksInv, NEW t \in Thread, FailSnapshot(t) \/ FailRaw(t)
    PROVE  BooksInv'
  <1> DEFINE k == loc[t].key
  <1>1. pc[t] \in {"resolve", "raw"} /\ \A u \in Thread \ {t} : pc'[u] = pc[u] /\ loc'[u] = loc[u]
    BY DEF FailSnapshot, FailRaw, Resolving, Goto, Inv, TypedInv
  <1>2. k \in Key /\ loc[t] \in Local
    BY <1>1, LocalRecord DEF Place, Aim, Trims, Local
  <1>3. UNCHANGED <<rows, held, raws, rawBytes, bodyBytes, rawHeld, faults>>
    BY DEF FailSnapshot, FailRaw, ledgerVars, clientVars
  <1>4. \A j \in Key : SameSlot(j)
    <2>1. CASE UNCHANGED slot
      BY <2>1 DEF SameSlot
    <2>2. CASE slot' = [slot EXCEPT ![k].lastRaw = NoRaw]
      BY <2>2 DEF SameSlot, Inv, TypedInv, Slot
    <2> QED BY <2>1, <2>2 DEF FailSnapshot, FailRaw
  <1>5. loc'[t].gone = loc[t].gone /\ loc'[t].key = k
    BY <1>2 DEF FailSnapshot, FailRaw, Inv, TypedInv, Local
  <1>6. \A u \in Thread : SameGone(u)
    <2>1. loc[t].gone = 0
      BY <1>1 DEF BooksInv, StoreInv, Leaving
    <2>2. pc'[t] \in {"raw", "fail"}
      BY DEF FailSnapshot, FailRaw, Goto, Inv, TypedInv
    <2> QED BY <1>1, <1>5, <2>1, <2>2 DEF SameGone, BooksInv, StoreInv, Leaving
  <1>7. SameCharges
    BY <1>3 DEF SameCharges
  <1>8. Snapped(t)'
    <2>1. CASE FailSnapshot(t)
      <3>1. pc'[t] = "raw" /\ loc'[t].snap = slot[k].phase /\ UNCHANGED slot
        BY <1>2, <2>1 DEF FailSnapshot, Goto, Inv, TypedInv, Local
      <3> QED BY <1>5, <3>1 DEF Snapped
    <2>2. CASE FailRaw(t)
      <3>1. pc[t] = "raw" /\ loc'[t].snap = loc[t].snap /\ loc'[t].raw = slot[k].raw
        BY <1>2, <2>2 DEF FailRaw, Inv, TypedInv, Local
      <3>2. Snapped(t)
        BY DEF BooksInv, StoreInv
      <3> QED BY <1>2, <1>4, <1>5, <3>1, <3>2 DEF Snapped, SameSlot
    <2> QED BY <2>1, <2>2
  <1>9. StoreInv'
    <2>1. ASSUME NEW j \in Key
          PROVE  (ChargedRow(j) /\ Stored(j) /\ Ticketing(j))'
      BY <1>3, <1>4 DEF BooksInv, StoreInv, ChargedRow, Stored, Ticketing, SameSlot
    <2>2. pc'[t] \in {"raw", "fail"}
      BY DEF FailSnapshot, FailRaw, Goto, Inv, TypedInv
    <2>3. \A u \in Thread : Retires(u)' => Retires(u) /\ u # t /\ loc'[u] = loc[u]
      BY <1>1, <2>2 DEF Retires
    <2>4. ASSUME NEW u \in Thread \ {t}
          PROVE  Snapped(u)'
      <3>1. pc[u] \in {"raw", "fail"} => loc[u].key \in Key
        BY SnapTyped
      <3> QED BY <1>1, <1>4, <3>1 DEF BooksInv, StoreInv, Snapped, SameSlot
    <2>5. ASSUME NEW u \in Thread
          PROVE  Leaving(u)'
      BY <1>6 DEF SameGone, Leaving
    <2> QED BY <1>3, <1>8, <2>1, <2>3, <2>4, <2>5 DEF StoreInv, BooksInv
  <1> QED BY <1>3, <1>6, <1>7, <1>9, LedgerApart, SameFaults

-----------------------------------------------------------------------------
(* Steps that move a charge                                                *)

(* A finite set of which only x may come or go. *)
LEMMA OneMoves ==
    ASSUME NEW X, IsFiniteSet(X), NEW S \in SUBSET X, NEW T \in SUBSET X, NEW x,
           \A y \in X \ {x} : y \in S <=> y \in T
    PROVE  /\ Cardinality(S) \in Nat /\ Cardinality(T) \in Nat
           /\ Cardinality(T) = Cardinality(S) + Weight(x \in T) - Weight(x \in S)
  <1>1. IsFiniteSet(S) /\ IsFiniteSet(T)
    BY FS_Subset
  <1>2. Cardinality(S) \in Nat /\ Cardinality(T) \in Nat
    BY <1>1, FS_CardinalityType
  <1>3. CASE x \in S <=> x \in T
    <2>1. S = T
      BY <1>3
    <2> QED BY <1>2, <1>3, <2>1 DEF Weight
  <1>4. CASE x \in T /\ x \notin S
    <2>1. T = S \cup {x}
      BY <1>4
    <2>2. Cardinality(T) = Cardinality(S) + 1
      BY <1>1, <1>4, <2>1, FS_AddElement
    <2> QED BY <1>2, <1>4, <2>2 DEF Weight
  <1>5. CASE x \in S /\ x \notin T
    <2>1. S = T \cup {x}
      BY <1>5
    <2>2. Cardinality(S) = Cardinality(T) + 1
      BY <1>1, <1>5, <2>1, FS_AddElement
    <2> QED BY <1>2, <1>5, <2>2 DEF Weight
  <1> QED BY <1>3, <1>4, <1>5

(* What a step of t that changes the row k knows of the owners.            *)
OtherRows(k) == \A j \in Key \ {k} : rows'[j] = rows[j]
OtherThreads(t) == \A u \in Thread \ {t} : pc'[u] = pc[u] /\ loc'[u] = loc[u]
KnownShift(k, t, id) ==
      Weight(k \in RowOwners(id)') - Weight(k \in RowOwners(id))
    + Weight(t \in PinOwners(id)') - Weight(t \in PinOwners(id))
    + Weight(t \in GoneOwners(id)') - Weight(t \in GoneOwners(id))

LEMMA KnownMoves ==
    ASSUME NEW k, NEW t, NEW id, OtherRows(k), OtherThreads(t),
           \A u \in Thread \ {t} : rawHeld'[u] = rawHeld[u]
    PROVE  /\ Known(id) \in Nat /\ Known(id)' \in Nat
           /\ Known(id)' = Known(id) + KnownShift(k, t, id)
  <1>1. IsFiniteSet(Key) /\ IsFiniteSet(Thread)
    BY ResidencyAssumption
  <1>2. /\ Cardinality(RowOwners(id)) \in Nat /\ Cardinality(RowOwners(id)') \in Nat
        /\ Cardinality(RowOwners(id)') = Cardinality(RowOwners(id))
             + Weight(k \in RowOwners(id)') - Weight(k \in RowOwners(id))
    <2> DEFINE A == RowOwners(id)
               B == RowOwners(id)'
    <2>1. A \in SUBSET Key /\ B \in SUBSET Key /\ \A y \in Key \ {k} : y \in A <=> y \in B
      BY DEF RowOwners, OtherRows
    <2> HIDE DEF A, B
    <2>2. /\ Cardinality(A) \in Nat /\ Cardinality(B) \in Nat
          /\ Cardinality(B) = Cardinality(A) + Weight(k \in B) - Weight(k \in A)
      BY <1>1, <2>1, OneMoves
    <2> QED BY <2>2 DEF A, B
  <1>3. /\ Cardinality(PinOwners(id)) \in Nat /\ Cardinality(PinOwners(id)') \in Nat
        /\ Cardinality(PinOwners(id)') = Cardinality(PinOwners(id))
             + Weight(t \in PinOwners(id)') - Weight(t \in PinOwners(id))
    <2> DEFINE A == PinOwners(id)
               B == PinOwners(id)'
    <2>1. A \in SUBSET Thread /\ B \in SUBSET Thread /\ \A y \in Thread \ {t} : y \in A <=> y \in B
      BY DEF PinOwners
    <2> HIDE DEF A, B
    <2>2. /\ Cardinality(A) \in Nat /\ Cardinality(B) \in Nat
          /\ Cardinality(B) = Cardinality(A) + Weight(t \in B) - Weight(t \in A)
      BY <1>1, <2>1, OneMoves
    <2> QED BY <2>2 DEF A, B
  <1>4. /\ Cardinality(GoneOwners(id)) \in Nat /\ Cardinality(GoneOwners(id)') \in Nat
        /\ Cardinality(GoneOwners(id)') = Cardinality(GoneOwners(id))
             + Weight(t \in GoneOwners(id)') - Weight(t \in GoneOwners(id))
    <2> DEFINE A == GoneOwners(id)
               B == GoneOwners(id)'
    <2>1. A \in SUBSET Thread /\ B \in SUBSET Thread /\ \A y \in Thread \ {t} : y \in A <=> y \in B
      BY DEF GoneOwners, OtherThreads
    <2> HIDE DEF A, B
    <2>2. /\ Cardinality(A) \in Nat /\ Cardinality(B) \in Nat
          /\ Cardinality(B) = Cardinality(A) + Weight(t \in B) - Weight(t \in A)
      BY <1>1, <2>1, OneMoves
    <2> QED BY <2>2 DEF A, B
  <1> QED BY <1>2, <1>3, <1>4 DEF Known, KnownShift, Weight

(* The charges of bodies, as a row and the destruction of a thread move.   *)
LEMMA BodiesMove ==
    ASSUME Inv, Inv', LedgerInv, NEW k \in Key, NEW t \in Thread, OtherRows(k), OtherThreads(t),
           bodyBytes' = bodyBytes + rows'[k].body - rows[k].body + loc'[t].gone - loc[t].gone
    PROVE  bodyBytes' = Worth(Bodies, Key)' + Worth(Gone, Thread)'
  <1> DEFINE f == Bodies
             g == Bodies'
             c == Gone
             d == Gone'
  <1>1. IsFiniteSet(Key) /\ IsFiniteSet(Thread)
    BY ResidencyAssumption
  <1>2. /\ \A j \in Key : f[j] \in Nat /\ g[j] \in Nat
        /\ \A j \in Key \ {k} : g[j] = f[j]
        /\ f[k] = rows[k].body /\ g[k] = rows'[k].body
    BY DEF Bodies, OtherRows, Inv, TypedInv, RowT
  <1>3. /\ \A u \in Thread : c[u] \in Nat /\ d[u] \in Nat
        /\ \A u \in Thread \ {t} : d[u] = c[u]
        /\ c[t] = loc[t].gone /\ d[t] = loc'[t].gone
    BY DEF Gone, OtherThreads, Inv, TypedInv, Local
  <1>4. bodyBytes = Worth(f, Key) + Worth(c, Thread)
    BY DEF LedgerInv
  <1>5. Worth(Bodies, Key)' = Worth(g, Key) /\ Worth(Gone, Thread)' = Worth(d, Thread)
    BY DEF Worth, Units
  <1> HIDE DEF f, g, c, d
  <1>6. Worth(g, Key) = Worth(f, Key) - f[k] + g[k]
    BY <1>1, <1>2, WorthMoves
  <1>7. Worth(d, Thread) = Worth(c, Thread) - c[t] + d[t]
    BY <1>1, <1>3, WorthMoves
  <1>8. Worth(f, Key) \in Nat /\ Worth(c, Thread) \in Nat
    BY <1>1, <1>2, <1>3, WorthNat
  <1>9. f[k] \in Nat /\ g[k] \in Nat /\ c[t] \in Nat /\ d[t] \in Nat
    BY <1>2, <1>3
  <1> QED BY <1>2, <1>3, <1>4, <1>5, <1>6, <1>7, <1>8, <1>9

(* Raw storage and its owners. *)
RawBooks == rawBytes = Worth(Raws, RawId) /\ OwnedInv

(* n more owners of id are known, and as many of any other.                *)
Claims(id, n) ==
    \A j \in RawId : /\ Known(j) \in Nat /\ Known(j)' \in Nat
                     /\ Known(j)' = Known(j) + IF j = id THEN n ELSE 0

LEMMA RawIdFinite == IsFiniteSet(RawId)
  <1>1. IsFiniteSet(Key) /\ IsFiniteSet(AllocNo)
    BY ResidencyAssumption
  <1> QED BY <1>1, FS_Product DEF RawId

LEMMA RawSizes ==
    ASSUME NEW id \in RawId
    PROVE  RawSize[KeyOf(id)] \in Nat /\ KeyOf(id) \in Key
  BY ResidencyAssumption DEF RawId, KeyOf

LEMMA RawsAreSizes ==
    ASSUME NEW id \in RawId
    PROVE  Raws[id] \in Nat /\ Raws'[id] \in Nat
  BY RawSizes DEF Raws

LEMMA RawsMove ==
    ASSUME RawBooks, NEW id \in RawId, NEW e \in RawT, raws' = [raws EXCEPT ![id] = e],
           rawBytes' = rawBytes + (IF e.charged THEN RawSize[KeyOf(id)] ELSE 0)
                                - (IF raws[id].charged THEN RawSize[KeyOf(id)] ELSE 0)
    PROVE  rawBytes' = Worth(Raws, RawId)'
  <1> DEFINE f == Raws
             g == Raws'
  <1>1. \A j \in RawId : f[j] \in Nat /\ g[j] \in Nat
    BY RawsAreSizes
  <1>2. raws'[id] = e /\ \A j \in RawId \ {id} : raws'[j] = raws[j]
    BY DEF RawBooks, OwnedInv
  <1>3. /\ \A j \in RawId \ {id} : g[j] = f[j]
        /\ f[id] = IF raws[id].charged THEN RawSize[KeyOf(id)] ELSE 0
        /\ g[id] = IF e.charged THEN RawSize[KeyOf(id)] ELSE 0
    BY <1>2 DEF Raws
  <1>4. rawBytes = Worth(f, RawId)
    BY DEF RawBooks
  <1>5. Worth(Raws, RawId)' = Worth(g, RawId)
    BY DEF Worth, Units
  <1> HIDE DEF f, g
  <1>10. IsFiniteSet(RawId)
    BY RawIdFinite
  <1>11. \A j \in RawId \ {id} : g[j] = f[j]
    BY <1>3
  <1>6. Worth(g, RawId) = Worth(f, RawId) - f[id] + g[id]
    BY <1>1, <1>10, <1>11, WorthMoves
  <1>7. Worth(f, RawId) \in Nat
    BY <1>1, RawIdFinite, WorthNat
  <1>8. f[id] \in Nat /\ g[id] \in Nat
    BY <1>1
  <1>9. rawBytes' = rawBytes + g[id] - f[id]
    BY <1>3
  <1> QED BY <1>4, <1>5, <1>6, <1>7, <1>8, <1>9

(* One allocation counts its owners anew. *)
LEMMA OwnersMove ==
    ASSUME RawBooks, NEW id \in RawId, NEW e \in RawT, raws' = [raws EXCEPT ![id] = e],
           rawHeld' \in [Thread -> SUBSET RawId], faults' \in FaultT,
           e.owners = Known(id)' + faults'.strays[id], e.owners # 0 => e.charged,
           \A j \in RawId \ {id} : Known(j)' = Known(j) /\ faults'.strays[j] = faults.strays[j]
    PROVE  OwnedInv'
  <1>1. raws' \in [RawId -> RawT]
    BY DEF RawBooks, OwnedInv
  <1>2. raws'[id] = e /\ \A j \in RawId \ {id} : raws'[j] = raws[j]
    BY DEF RawBooks, OwnedInv
  <1>3. ASSUME NEW j \in RawId \ {id}
        PROVE  raws'[j].owners = Known(j)' + faults'.strays[j]
    <2>1. raws[j].owners = Known(j) + faults.strays[j] /\ raws'[j] = raws[j]
      BY <1>2 DEF RawBooks, OwnedInv
    <2> QED BY <2>1
  <1> QED BY <1>1, <1>2, <1>3 DEF RawBooks, OwnedInv

LEMMA SameRawBooks ==
    ASSUME RawBooks, UNCHANGED <<raws, rawBytes>>, rawHeld' \in [Thread -> SUBSET RawId],
           NEW id, Claims(id, 0), UNCHANGED faults
    PROVE  RawBooks'
  <1>1. Raws' = Raws
    BY DEF Raws
  <1>2. \A j \in RawId : Known(j)' = Known(j)
    BY DEF Claims
  <1>3. ASSUME NEW j \in RawId
        PROVE  raws'[j].owners = Known(j)' + faults'.strays[j]
    <2>1. raws[j].owners = Known(j) + faults.strays[j]
      BY DEF RawBooks, OwnedInv
    <2> QED BY <1>2, <2>1
  <1> QED BY <1>1, <1>3 DEF RawBooks, OwnedInv

(* A finish leaves an owner of id that no row will release. *)
Strays(id) == faults' = [faults EXCEPT !.strays[id] = @ + 1]

(* add_raw, where one more owner becomes known or goes astray. *)
LEMMA AddRawBooks ==
    ASSUME RawBooks, NEW id \in RawId, AddRaw(id), rawHeld' \in [Thread -> SUBSET RawId],
           NEW n \in 0..1, Claims(id, n), IF n = 1 THEN UNCHANGED faults ELSE Strays(id)
    PROVE  RawBooks'
  <1> DEFINE e == [charged |-> TRUE, owners |-> raws[id].owners + 1]
  <1>1. /\ raws[id].owners \in Int /\ raws[id].owners = Known(id) + faults.strays[id]
        /\ raws[id].charged \in BOOLEAN /\ faults \in FaultT /\ faults.strays[id] \in Nat
    BY DEF RawBooks, OwnedInv, RawT, FaultT
  <1>2. raws' = [raws EXCEPT ![id] = e] /\ e \in RawT /\ e.charged /\ e.owners = raws[id].owners + 1
    BY <1>1 DEF AddRaw, RawT
  <1> HIDE DEF e
  <1>3. Known(id) \in Nat /\ Known(id)' = Known(id) + n
    BY DEF Claims
  <1>9. /\ faults' \in FaultT /\ faults'.strays[id] = faults.strays[id] + 1 - n
        /\ \A j \in RawId \ {id} : faults'.strays[j] = faults.strays[j]
    <2>1. CASE n = 1
      BY <1>1, <2>1
    <2>2. CASE n = 0
      <3>1. faults' = [faults EXCEPT !.strays[id] = @ + 1]
        BY <2>2 DEF Strays
      <3> QED BY <1>1, <2>2, <3>1 DEF FaultT
    <2> QED BY <2>1, <2>2
  <1>4. e.owners = Known(id)' + faults'.strays[id] /\ (e.owners # 0 => e.charged)
    BY <1>1, <1>2, <1>3, <1>9
  <1>5. \A j \in RawId \ {id} : Known(j)' = Known(j)
    BY DEF Claims
  <1>6. OwnedInv'
    BY <1>2, <1>4, <1>5, <1>9, OwnersMove
  <1>7. rawBytes' = rawBytes + RawSize[KeyOf(id)]
                      - (IF raws[id].charged THEN RawSize[KeyOf(id)] ELSE 0)
    <2>1. rawBytes \in Nat
      BY RawsAreSizes, RawIdFinite, WorthNat DEF RawBooks
    <2> QED BY <2>1, RawSizes DEF AddRaw
  <1>8. rawBytes' = Worth(Raws, RawId)'
    BY <1>2, <1>7, RawsMove
  <1> QED BY <1>6, <1>8 DEF RawBooks

(* release_raw, where one owner less is known. *)
LEMMA ReleaseRawBooks ==
    ASSUME RawBooks, NEW id \in RawId, ReleaseRaw(id), rawHeld' \in [Thread -> SUBSET RawId],
           Claims(id, -1), UNCHANGED faults
    PROVE  RawBooks'
  <1> DEFINE gone == raws[id].owners = 1 /\ ~Alive(id)
  <1>1. /\ raws[id] \in RawT /\ raws[id].owners \in Int
        /\ raws[id].owners = Known(id) + faults.strays[id]
        /\ faults \in FaultT /\ faults.strays[id] \in Nat
    BY DEF RawBooks, OwnedInv, RawT, FaultT
  <1>2. /\ Known(id) \in Nat /\ Known(id)' \in Nat /\ Known(id)' = Known(id) - 1
        /\ \A j \in RawId \ {id} : Known(j)' = Known(j)
    BY DEF Claims
  <1>3. raws[id].owners >= 1 /\ raws[id].charged
    BY <1>1, <1>2 DEF RawBooks, OwnedInv
  <1>4. id # NoRaw
    BY ResidencyAssumption
  <1>5. rawBytes \in Nat
    BY RawsAreSizes, RawIdFinite, WorthNat DEF RawBooks
  <1>6. CASE gone
    <2>1. raws' = [raws EXCEPT ![id] = Uncharged] /\ rawBytes' = rawBytes - RawSize[KeyOf(id)]
      BY <1>4, <1>6 DEF ReleaseRaw
    <2>2. Uncharged \in RawT /\ ~Uncharged.charged /\ Uncharged.owners = 0
      BY DEF Uncharged, RawT
    <2>3. Uncharged.owners = Known(id)' + faults'.strays[id]
      BY <1>1, <1>2, <1>6, <2>2
    <2>4. \A j \in RawId \ {id} : Known(j)' = Known(j)
      BY <1>2
    <2>5. OwnedInv'
      BY <1>1, <2>1, <2>2, <2>3, <2>4, OwnersMove
    <2>6. rawBytes' = rawBytes + 0 - RawSize[KeyOf(id)]
      BY <1>5, <2>1, RawSizes
    <2>7. rawBytes' = Worth(Raws, RawId)'
      BY <1>3, <2>1, <2>2, <2>6, RawsMove
    <2> QED BY <2>5, <2>7 DEF RawBooks
  <1>7. CASE ~gone
    <2> DEFINE n == raws[id].owners - 1
               e == [raws[id] EXCEPT !.owners = n]
    <2>1. raws' = [raws EXCEPT ![id] = e] /\ rawBytes' = rawBytes
      BY <1>4, <1>7 DEF ReleaseRaw
    <2>2. e \in RawT /\ e.charged = raws[id].charged /\ e.owners = n
      BY <1>1 DEF RawT
    <2> HIDE DEF e
    <2>3. e.owners = Known(id)' + faults'.strays[id] /\ (e.owners # 0 => e.charged)
      BY <1>1, <1>2, <1>3, <2>2
    <2>4. \A j \in RawId \ {id} : Known(j)' = Known(j)
      BY <1>2
    <2>5. OwnedInv'
      BY <1>1, <2>1, <2>2, <2>3, <2>4, OwnersMove
    <2>6. rawBytes' = rawBytes + RawSize[KeyOf(id)] - RawSize[KeyOf(id)]
      BY <1>5, <2>1, RawSizes
    <2>7. rawBytes' = Worth(Raws, RawId)'
      BY <1>3, <2>1, <2>2, <2>6, RawsMove
    <2> QED BY <2>5, <2>7 DEF RawBooks
  <1> QED BY <1>6, <1>7

(* prune takes charges that no known owner has. *)
LEMMA PruneBooks ==
    ASSUME RawBooks, NEW ids, ids \subseteq RawId, Prune(ids), rawHeld' \in [Thread -> SUBSET RawId],
           NEW i, Claims(i, 0), UNCHANGED faults
    PROVE  RawBooks'
  <1> DEFINE dead == {id \in ids : raws[id].charged /\ raws[id].owners = 0 /\ ~Alive(id)}
             size(id) == RawSize[KeyOf(id)]
             f == Raws
             g == Raws'
  <1>1. /\ raws' = [id \in RawId |-> IF id \in dead THEN Uncharged ELSE raws[id]]
        /\ rawBytes' = rawBytes - Sum(size, dead)
    BY DEF Prune
  <1>2. dead \in SUBSET RawId /\ \A id \in dead : raws[id].charged /\ raws[id].owners = 0
    OBVIOUS
  <1>3. Sum(size, dead) = Worth(f, dead)
    BY <1>2 DEF Sum, Worth, Units, Raws
  <1>4. Uncharged \in RawT /\ ~Uncharged.charged /\ Uncharged.owners = 0
    BY DEF Uncharged, RawT
  <1> HIDE DEF dead
  <1>5. /\ \A id \in RawId : f[id] \in Nat
        /\ \A id \in RawId : g[id] = IF id \in dead THEN 0 ELSE f[id]
    BY <1>1, <1>2, <1>4, RawsAreSizes DEF Raws
  <1>6. rawBytes = Worth(f, RawId)
    BY DEF RawBooks
  <1>7. Worth(Raws, RawId)' = Worth(g, RawId)
    BY DEF Worth, Units
  <1> HIDE DEF f, g
  <1>8. Worth(g, RawId) = Worth(f, RawId) - Worth(f, dead)
    BY <1>2, <1>5, RawIdFinite, WorthEmptied
  <1>9. rawBytes' = Worth(Raws, RawId)'
    BY <1>1, <1>3, <1>6, <1>7, <1>8
  <1>10. \A j \in RawId : Known(j) \in Nat /\ Known(j)' = Known(j)
    BY DEF Claims
  <1>11. raws' \in [RawId -> RawT]
    BY <1>1, <1>4 DEF RawBooks, OwnedInv
  <1>12. ASSUME NEW j \in RawId
         PROVE  /\ raws'[j].owners = Known(j)' + faults'.strays[j]
                /\ raws'[j].owners # 0 => raws'[j].charged
    <2>1. /\ raws[j].owners = Known(j) + faults.strays[j] /\ faults.strays[j] \in Nat
          /\ raws[j].owners # 0 => raws[j].charged
      BY DEF RawBooks, OwnedInv, FaultT
    <2>2. raws'[j] = IF j \in dead THEN Uncharged ELSE raws[j]
      BY <1>1
    <2>3. CASE j \in dead
      <3>1. raws[j].owners = 0 /\ Known(j) \in Nat /\ Known(j)' = Known(j)
        BY <1>2, <1>10, <2>3
      <3>2. Known(j)' = 0 /\ faults'.strays[j] = 0
        BY <2>1, <3>1
      <3> QED BY <1>4, <2>2, <2>3, <3>2
    <2>4. CASE j \notin dead
      BY <1>10, <2>1, <2>2, <2>4
    <2> QED BY <2>3, <2>4
  <1> QED BY <1>9, <1>11, <1>12 DEF RawBooks, OwnedInv

(* A step of t that changes the row and the slot of k. *)
LEMMA StoreStep ==
    ASSUME Inv, StoreInv, NEW k, NEW t \in Thread, OtherRows(k), OtherThreads(t),
           \A j \in Key \ {k} : SameSlot(j),
           k \in Key => (ChargedRow(k) /\ Stored(k) /\ Ticketing(k))',
           \A u \in Thread : held'[u] \subseteq held[u] \cup {k},
           \A u \in Thread : k \in held'[u] => rows'[k].body # 0,
           pc'[t] \notin {"shed", "settle", "raw", "fail"},
           \A u \in Thread \ {t} : Retires(u) /\ loc[u].victim = k => rows'[k].retiring,
           \A u \in Thread \ {t} : pc[u] \in {"raw", "fail"} /\ loc[u].key = k => SameSlot(k),
           Leaving(t)'
    PROVE  StoreInv'
  <1>1. ASSUME NEW j \in Key
        PROVE  (ChargedRow(j) /\ Stored(j) /\ Ticketing(j))'
    <2>1. CASE j = k
      BY <2>1
    <2>2. CASE j # k
      BY <2>2 DEF StoreInv, OtherRows, SameSlot, ChargedRow, Stored, Ticketing
    <2> QED BY <2>1, <2>2
  <1>2. ASSUME NEW u \in Thread, NEW j \in held'[u]
        PROVE  rows'[j].body # 0
    <2>1. CASE j # k
      <3>1. j \in held[u] /\ j \in Key
        BY <2>1 DEF Inv, TypedInv
      <3> QED BY <2>1, <3>1 DEF StoreInv, OtherRows
    <2>2. CASE j = k
      BY <2>2
    <2> QED BY <2>1, <2>2
  <1>3. \A u \in Thread : Retires(u)' => u # t /\ Retires(u) /\ loc'[u] = loc[u]
    BY DEF Retires, OtherThreads
  <1>4. ASSUME NEW u \in Thread, Retires(u)'
        PROVE  rows'[loc'[u].victim].retiring
    <2>1. u # t /\ Retires(u) /\ loc'[u] = loc[u]
      BY <1>3, <1>4
    <2>2. loc[u].victim \in Key
      BY <2>1, VictimTyped
    <2> QED BY <2>1, <2>2 DEF StoreInv, OtherRows
  <1>5. ASSUME NEW a \in Thread, NEW u \in Thread, Retires(a)', Retires(u)',
               loc'[a].victim = loc'[u].victim
        PROVE  a = u
    BY <1>3, <1>5 DEF StoreInv
  <1>6. ASSUME NEW u \in Thread
        PROVE  Snapped(u)'
    <2>1. SUFFICES ASSUME pc'[u] \in {"raw", "fail"}, loc'[u].snap = "Hot"
                   PROVE  /\ slot'[loc'[u].key].phase = "Hot"
                          /\ pc'[u] = "fail" => loc'[u].raw = slot'[loc'[u].key].raw
      BY DEF Snapped
    <2>2. u # t /\ pc'[u] = pc[u] /\ loc'[u] = loc[u]
      BY <2>1 DEF OtherThreads
    <2>3. loc[u].key \in Key
      BY <2>1, <2>2, SnapTyped
    <2>4. SameSlot(loc[u].key)
      BY <2>1, <2>2, <2>3
    <2> QED BY <2>1, <2>2, <2>4 DEF StoreInv, Snapped, SameSlot
  <1>7. \A u \in Thread : Leaving(u)'
    BY DEF StoreInv, Leaving, OtherThreads
  <1> QED BY <1>1, <1>2, <1>4, <1>5, <1>6, <1>7 DEF StoreInv

LEMMA BooksSplit ==
    /\ LedgerInv <=> bodyBytes = Worth(Bodies, Key) + Worth(Gone, Thread) /\ RawBooks
    /\ LedgerInv' <=> bodyBytes' = Worth(Bodies, Key)' + Worth(Gone, Thread)' /\ RawBooks'
  BY DEF LedgerInv, RawBooks

LEMMA BooksTyped ==
    ASSUME Inv, BooksInv
    PROVE  /\ bodyBytes \in Nat /\ rawBytes \in Nat
           /\ raws \in [RawId -> RawT] /\ rawHeld \in [Thread -> SUBSET RawId]
  <1>1. IsFiniteSet(Key) /\ IsFiniteSet(Thread) /\ IsFiniteSet(RawId)
    BY ResidencyAssumption, RawIdFinite
  <1>2. (\A k \in Key : Bodies[k] \in Nat) /\ \A t \in Thread : Gone[t] \in Nat
    BY DEF Bodies, Gone, Inv, TypedInv, RowT, Local
  <1>3. Worth(Bodies, Key) \in Nat /\ Worth(Gone, Thread) \in Nat /\ Worth(Raws, RawId) \in Nat
    BY <1>1, <1>2, RawsAreSizes, WorthNat
  <1> QED BY <1>3 DEF BooksInv, LedgerInv, OwnedInv

(* A thread that retires owes no destruction; no thread holds its version  *)
(* once the body is shed.                                                  *)
LEMMA RetiringRow ==
    ASSUME Inv, StoreInv, NEW t \in Thread, Retires(t)
    PROVE  LET v == loc[t].victim
           IN  /\ v \in Key /\ rows[v].retiring /\ rows[v].body # 0 /\ rows[v].calls = 0
               /\ rows[v].present /\ rows[v].raw \in RawId
               /\ \/ slot[v].phase = "Hot" /\ slot[v].raw = rows[v].raw
                  \/ slot[v].phase = "Cold"
               /\ loc[t].gone = 0
               /\ \A u \in Thread \ {t} : Retires(u) => loc[u].victim # v
               /\ \A u \in Thread : pc[u] \in {"raw", "fail"} => loc[u].key # v
  <1> DEFINE v == loc[t].victim
  <1>1. v \in Key
    BY VictimTyped
  <1>2. rows[v].retiring /\ rows[v].body # 0 /\ rows[v].calls = 0
    BY <1>1 DEF StoreInv, Ticketing
  <1>3. /\ rows[v].present /\ rows[v].raw # NoRaw
        /\ \/ slot[v].phase = "Hot" /\ slot[v].raw = rows[v].raw
           \/ slot[v].phase = "Cold"
    BY <1>1, <1>2 DEF StoreInv, ChargedRow
  <1>4. rows[v].raw \in RawId
    BY <1>1, <1>3 DEF Inv, TypedInv, RowT
  <1>5. loc[t].gone = 0
    BY DEF StoreInv, Leaving, Retires
  <1>6. \A u \in Thread \ {t} : Retires(u) => loc[u].victim # v
    BY DEF StoreInv
  <1>7. \A u \in Thread : pc[u] \in {"raw", "fail"} => loc[u].key # v
    BY <1>2, NoCallRetiring
  <1> QED BY <1>1, <1>2, <1>3, <1>4, <1>5, <1>6, <1>7

LEMMA SettleBooks ==
    ASSUME Inv, BooksInv, Inv', NEW t \in Thread, Settle(t)
    PROVE  BooksInv'
  <1>0. PICK v : v = loc[t].victim
    OBVIOUS
  <1> DEFINE cold == slot[v].phase = "Cold"
             id == rows[v].raw
  <1>1. /\ pc[t] = "settle" /\ Retires(t) /\ pc'[t] = "collect"
        /\ UNCHANGED <<held, rawHeld, faults>>
    BY DEF Settle, Retires, Goto, clientVars, Inv, TypedInv
  <1>2. /\ v \in Key /\ rows[v].retiring /\ rows[v].body # 0 /\ rows[v].calls = 0
        /\ rows[v].present /\ id \in RawId
        /\ \/ slot[v].phase = "Hot" /\ slot[v].raw = id
           \/ slot[v].phase = "Cold"
        /\ loc[t].gone = 0
        /\ \A u \in Thread \ {t} : Retires(u) => loc[u].victim # v
        /\ \A u \in Thread : pc[u] \in {"raw", "fail"} => loc[u].key # v
    BY <1>0, <1>1, RetiringRow DEF BooksInv
  <1>3. OtherRows(v) /\ OtherThreads(t)
    BY <1>0, <1>1, <1>2 DEF Settle, Goto, OtherRows, OtherThreads, Inv, TypedInv
  <1>4. /\ rows'[v].retiring = FALSE /\ rows'[v].body = IF cold THEN 0 ELSE rows[v].body
        /\ rows'[v].raw = id /\ rows'[v].present
    BY <1>0, <1>2, ZenonT(30) DEF Settle, Inv, TypedInv, RowT
  <1>5. \A j \in Key : SameSlot(j)
    BY <1>0, <1>2, SMTT(30) DEF Settle, SameSlot, Inv, TypedInv, Slot
  <1>6. loc'[t].gone = 0
    BY <1>0, <1>2 DEF Settle, Inv, TypedInv, Local
  <1>7. \A u \in Thread : cold => v \notin held[u]
    BY <1>2 DEF Inv, Used, UsesBody
  <1>8. NoRaw \notin RawId
    BY ResidencyAssumption
  <1>9. StoreInv'
    <2>3. slot'[v].phase = slot[v].phase /\ slot'[v].raw = slot[v].raw
      BY <1>2, <1>5 DEF SameSlot
    <2>4. ChargedRow(v)'
      BY <1>2, <1>4, <1>8, <2>3 DEF ChargedRow
    <2>5. Stored(v)'
      BY <1>2, <1>8, <2>3 DEF Stored
    <2>6. Ticketing(v)'
      BY <1>4 DEF Ticketing
    <2>1. (ChargedRow(v) /\ Stored(v) /\ Ticketing(v))'
      BY <2>4, <2>5, <2>6
    <2>2. \A u \in Thread : v \in held'[u] => rows'[v].body # 0
      BY <1>1, <1>2, <1>4, <1>7
    <2>7. Leaving(t)'
      BY <1>6 DEF Leaving
    <2>8. /\ StoreInv /\ pc'[t] \notin {"shed", "settle", "raw", "fail"}
          /\ \A u \in Thread : held'[u] \subseteq held[u] \cup {v}
          /\ \A u \in Thread \ {t} : Retires(u) /\ loc[u].victim = v => rows'[v].retiring
          /\ \A u \in Thread \ {t} : pc[u] \in {"raw", "fail"} /\ loc[u].key = v => SameSlot(v)
      BY <1>1, <1>2 DEF BooksInv
    <2>9. \A j \in Key \ {v} : SameSlot(j)
      BY <1>5
    <2> QED BY <1>3, <2>1, <2>2, <2>7, <2>8, <2>9, StoreStep
  <1>10. bodyBytes' = bodyBytes + rows'[v].body - rows[v].body + loc'[t].gone - loc[t].gone
    <2>1. bodyBytes \in Nat /\ rows[v].body \in Nat
      BY <1>2, BooksTyped DEF Inv, TypedInv, RowT
    <2>2. bodyBytes' = bodyBytes - IF cold THEN rows[v].body ELSE 0
      BY <1>0 DEF Settle
    <2>3. loc'[t].gone = 0 /\ loc[t].gone = 0
      BY <1>2, <1>6
    <2>4. CASE cold
      <3>1. bodyBytes' = bodyBytes - rows[v].body /\ rows'[v].body = 0
        BY <1>4, <2>2, <2>4
      <3> QED BY <2>1, <2>3, <3>1
    <2>5. CASE ~cold
      <3>1. bodyBytes' = bodyBytes - 0 /\ rows'[v].body = rows[v].body
        BY <1>4, <2>2, <2>5
      <3> QED BY <2>1, <2>3, <3>1
    <2> QED BY <2>4, <2>5
  <1>11. bodyBytes' = Worth(Bodies, Key)' + Worth(Gone, Thread)'
    BY <1>2, <1>3, <1>10, BodiesMove DEF BooksInv
  <1>12. ASSUME NEW j
         PROVE  Known(j) \in Nat /\ Known(j)' \in Nat
                /\ Known(j)' = Known(j) + Weight(v \in RowOwners(j)') - Weight(v \in RowOwners(j))
    <2>1. PinOwners(j)' = PinOwners(j) /\ t \notin GoneOwners(j) /\ t \notin GoneOwners(j)'
      BY <1>1, <1>2, <1>6 DEF PinOwners, GoneOwners
    <2>2. /\ Known(j) \in Nat /\ Known(j)' \in Nat
          /\ Known(j)' = Known(j) + KnownShift(v, t, j)
      BY <1>1, <1>3, KnownMoves
    <2> QED BY <2>1, <2>2 DEF KnownShift, Weight
  <1>13. RawBooks'
    <2>1. RawBooks /\ rawHeld' \in [Thread -> SUBSET RawId]
      BY <1>1, BooksTyped, BooksSplit DEF BooksInv
    <2>2. CASE cold
      <3>1. ReleaseRaw(id)
        BY <1>0, <2>2 DEF Settle
      <3>2. Claims(id, -1)
        BY <1>2, <1>4, <1>12, <2>2 DEF Claims, RowOwners, Weight
      <3> QED BY <1>1, <1>2, <2>1, <3>1, <3>2, ReleaseRawBooks
    <2>3. CASE ~cold
      <3>1. UNCHANGED <<raws, rawBytes>>
        BY <1>0, <2>3 DEF Settle, ReleaseRaw
      <3>2. Claims(id, 0)
        BY <1>2, <1>4, <1>12, <2>3 DEF Claims, RowOwners, Weight
      <3> QED BY <1>1, <2>1, <3>1, <3>2, SameRawBooks
    <2> QED BY <2>2, <2>3
  <1> QED BY <1>9, <1>11, <1>13, BooksSplit DEF BooksInv

LEMMA StoreStays ==
    ASSUME Inv, StoreInv, NEW t \in Thread, OtherThreads(t), UNCHANGED <<rows, slot, held>>,
           pc'[t] \notin {"shed", "settle", "raw", "fail"}, Leaving(t)'
    PROVE  StoreInv'
  <1>1. NoKey \notin Key
    BY ResidencyAssumption
  <1>2. OtherRows(NoKey) /\ \A j \in Key : SameSlot(j)
    BY DEF OtherRows, SameSlot
  <1>3. \A u \in Thread : NoKey \notin held'[u] /\ loc[u].victim = NoKey => ~Retires(u)
    BY <1>1, VictimTyped DEF Inv, TypedInv
  <1>4. \A u \in Thread : pc[u] \in {"raw", "fail"} => loc[u].key # NoKey
    BY <1>1, SnapTyped
  <1>5. \A u \in Thread : NoKey \notin held'[u]
    BY <1>1 DEF Inv, TypedInv
  <1> QED BY <1>1, <1>2, <1>3, <1>4, <1>5, StoreStep

LEMMA BodiesStill ==
    ASSUME LedgerInv, UNCHANGED <<rows, bodyBytes>>, \A u \in Thread : loc'[u].gone = loc[u].gone
    PROVE  bodyBytes' = Worth(Bodies, Key)' + Worth(Gone, Thread)'
  <1>1. Bodies' = Bodies /\ Gone' = Gone
    BY DEF Bodies, Gone
  <1> QED BY <1>1 DEF LedgerInv

LEMMA CollectBooks ==
    ASSUME Inv, BooksInv, Inv', NEW t \in Thread, Collect(t)
    PROVE  BooksInv'
  <1>0. PICK v : v = loc[t].victim
    OBVIOUS
  <1>1. /\ pc[t] = "collect" /\ pc'[t] = "drop"
        /\ UNCHANGED <<held, rawHeld, raws, rawBytes, bodyBytes, faults>>
    BY DEF Collect, Goto, clientVars, Inv, TypedInv
  <1>2. v \in Key
    BY <1>0, <1>1, LocalRecord DEF Place, Trims, Local
  <1>3. rows[v].refs = 0 /\ rows[v].calls = 0 /\ ~rows[v].retiring
    BY <1>0 DEF Collect, Collectable
  <1>4. \A u \in Thread : ~Refers(u, v) /\ v \notin held[u]
    BY <1>2, <1>3, Unreferenced
  <1>5. OtherRows(v) /\ OtherThreads(t)
    BY <1>0, <1>2 DEF Collect, Goto, OtherRows, OtherThreads, Inv, TypedInv
  <1>6. /\ rows'[v] = Absent /\ slot'[v] = NewSlot
        /\ \A j \in Key \ {v} : slot'[j] = slot[j]
    BY <1>0, <1>2 DEF Collect, Inv, TypedInv
  <1>7. loc'[t].gone = rows[v].body /\ loc'[t].goneRaw = rows[v].raw
    <2> DEFINE m == [loc[t] EXCEPT !.raw = slot[v].raw]
               n == [m EXCEPT !.gone = rows[v].body]
               l == [n EXCEPT !.goneRaw = rows[v].raw]
    <2>1. loc' = [loc EXCEPT ![t] = l]
      BY <1>0 DEF Collect
    <2>2. DOMAIN n = DOMAIN loc[t] /\ n.gone = rows[v].body
      BY LocalRecord DEF Local
    <2>3. "goneRaw" \in DOMAIN loc[t] /\ "gone" \in DOMAIN loc[t]
      BY LocalRecord DEF Local
    <2> HIDE DEF n
    <2>4. l.gone = rows[v].body /\ l.goneRaw = rows[v].raw
      BY <2>2, <2>3
    <2> HIDE DEF l
    <2> QED BY <2>1, <2>4 DEF Inv, TypedInv
  <1>8. loc[t].gone = 0
    BY <1>1 DEF BooksInv, StoreInv, Leaving
  <1>9. Absent.body = 0 /\ ~Absent.retiring /\ NewSlot.phase = "Cold"
    BY DEF Absent, NewSlot
  <1>10. StoreInv'
    <2>1. (ChargedRow(v) /\ Stored(v) /\ Ticketing(v))'
      BY <1>6, <1>9 DEF ChargedRow, Stored, Ticketing
    <2>2. ASSUME NEW u \in Thread, pc[u] \in {"raw", "fail"}
          PROVE  loc[u].key # v
      <3>1. loc[u].prep = "failed"
        BY <2>2, SnapTyped
      <3> QED BY <1>4, <3>1 DEF Refers, RefersAt, Calling
    <2>3. \A u \in Thread \ {t} : Retires(u) /\ loc[u].victim = v => rows'[v].retiring
      BY <1>3 DEF BooksInv, StoreInv
    <2>4. Leaving(t)' /\ StoreInv
      BY <1>1 DEF Leaving, BooksInv
    <2>5. \A j \in Key \ {v} : SameSlot(j)
      BY <1>6 DEF SameSlot
    <2> QED BY <1>1, <1>4, <1>5, <2>1, <2>2, <2>3, <2>4, <2>5, StoreStep
  <1>11. bodyBytes' = bodyBytes + rows'[v].body - rows[v].body + loc'[t].gone - loc[t].gone
    <2>1. bodyBytes \in Nat /\ rows[v].body \in Nat
      BY <1>2, BooksTyped DEF Inv, TypedInv, RowT
    <2> QED BY <1>1, <1>6, <1>7, <1>8, <1>9, <2>1
  <1>12. bodyBytes' = Worth(Bodies, Key)' + Worth(Gone, Thread)'
    BY <1>2, <1>5, <1>11, BodiesMove DEF BooksInv
  <1>13. ASSUME NEW j
         PROVE  Known(j) \in Nat /\ Known(j)' \in Nat /\ Known(j)' = Known(j)
    <2>1. /\ PinOwners(j)' = PinOwners(j) /\ t \notin GoneOwners(j) /\ v \notin RowOwners(j)'
          /\ t \in GoneOwners(j)' <=> v \in RowOwners(j)
      BY <1>1, <1>2, <1>6, <1>7, <1>8, <1>9 DEF PinOwners, GoneOwners, RowOwners
    <2>2. /\ Known(j) \in Nat /\ Known(j)' \in Nat
          /\ Known(j)' = Known(j) + KnownShift(v, t, j)
      BY <1>1, <1>5, KnownMoves
    <2> QED BY <2>1, <2>2 DEF KnownShift, Weight
  <1>14. RawBooks'
    <2>1. RawBooks /\ rawHeld' \in [Thread -> SUBSET RawId]
      BY <1>1, BooksTyped, BooksSplit DEF BooksInv
    <2>2. Claims(v, 0)
      BY <1>13 DEF Claims
    <2> QED BY <1>1, <2>1, <2>2, SameRawBooks
  <1> QED BY <1>10, <1>12, <1>14, BooksSplit DEF BooksInv

LEMMA ReleaseDetachedBooks ==
    ASSUME Inv, BooksInv, Inv', NEW t \in Thread, ReleaseDetached(t)
    PROVE  BooksInv'
  <1>0. PICK v, id : v = loc[t].victim /\ id = loc[t].goneRaw
    OBVIOUS
  <1>1. /\ pc[t] = "destroyed" /\ pc'[t] \in {"select", "unowe", "admit"}
        /\ UNCHANGED <<rows, slot, held, rawHeld, faults>>
    BY DEF ReleaseDetached, Collected, Goto, clientVars, Inv, TypedInv
  <1>2. v \in Key /\ id \in RawId \cup {NoRaw} /\ loc[t].gone \in Nat
    BY <1>0, <1>1, LocalRecord DEF Place, Trims, Local
  <1>3. OtherRows(v) /\ OtherThreads(t)
    BY <1>1 DEF ReleaseDetached, Collected, Goto, OtherRows, OtherThreads, Inv, TypedInv
  <1>4. loc'[t].gone = 0
    <2> DEFINE m == [loc[t] EXCEPT !.gone = 0]
               l == [m EXCEPT !.goneRaw = NoRaw]
    <2>1. loc' = [loc EXCEPT ![t] = l]
      BY DEF ReleaseDetached
    <2>2. l.gone = 0
      BY LocalRecord DEF Local
    <2> HIDE DEF l
    <2> QED BY <2>1, <2>2 DEF Inv, TypedInv
  <1>5. StoreInv'
    BY <1>1, <1>3, <1>4, StoreStays DEF BooksInv, Leaving
  <1>6. bodyBytes' = bodyBytes + rows'[v].body - rows[v].body + loc'[t].gone - loc[t].gone
    <2>1. bodyBytes \in Nat /\ rows[v].body \in Nat
      BY <1>2, BooksTyped DEF Inv, TypedInv, RowT
    <2> QED BY <1>1, <1>2, <1>4, <2>1 DEF ReleaseDetached
  <1>7. bodyBytes' = Worth(Bodies, Key)' + Worth(Gone, Thread)'
    BY <1>2, <1>3, <1>6, BodiesMove DEF BooksInv
  <1>8. ASSUME NEW j
         PROVE  Known(j) \in Nat /\ Known(j)' \in Nat
                /\ Known(j)' = Known(j) - Weight(j = id /\ loc[t].gone # 0)
    <2>1. /\ PinOwners(j)' = PinOwners(j) /\ RowOwners(j)' = RowOwners(j)
          /\ t \in GoneOwners(j) <=> j = id /\ loc[t].gone # 0
          /\ t \notin GoneOwners(j)'
      BY <1>0, <1>1, <1>4 DEF PinOwners, GoneOwners, RowOwners
    <2>2. /\ Known(j) \in Nat /\ Known(j)' \in Nat
          /\ Known(j)' = Known(j) + KnownShift(v, t, j)
      BY <1>1, <1>3, KnownMoves
    <2> QED BY <2>1, <2>2 DEF KnownShift, Weight
  <1>9. RawBooks /\ rawHeld' \in [Thread -> SUBSET RawId]
    BY <1>1, BooksTyped, BooksSplit DEF BooksInv
  <1>10. loc[t].gone = 0 \/ id = NoRaw => Claims(id, 0)
    BY <1>8, ResidencyAssumption DEF Claims, Weight
  <1>11. RawBooks'
    <2>1. CASE loc[t].gone # 0 /\ id # NoRaw
      <3>1. ReleaseRaw(id) /\ id \in RawId
        BY <1>0, <1>2, <2>1 DEF ReleaseDetached
      <3>2. Claims(id, -1)
        BY <1>8, <2>1 DEF Claims, Weight
      <3> QED BY <1>1, <1>9, <3>1, <3>2, ReleaseRawBooks
    <2>2. CASE loc[t].gone # 0 /\ id = NoRaw
      <3>1. UNCHANGED <<raws, rawBytes>>
        BY <1>0, <2>2 DEF ReleaseDetached, ReleaseRaw
      <3> QED BY <1>1, <1>9, <1>10, <2>2, <3>1, SameRawBooks
    <2>3. CASE loc[t].gone = 0
      <3>1. Prune({id} \ {NoRaw}) /\ {id} \ {NoRaw} \subseteq RawId
        BY <1>0, <1>2, <2>3 DEF ReleaseDetached
      <3> QED BY <1>1, <1>9, <1>10, <2>3, <3>1, PruneBooks
    <2> QED BY <2>1, <2>2, <2>3
  <1> QED BY <1>5, <1>7, <1>11, BooksSplit DEF BooksInv

-----------------------------------------------------------------------------
(* Raw pins *)

LEMMA DropRawBooks ==
    ASSUME Inv, BooksInv, NEW t \in Thread, NEW id \in RawId, DropRaw(t, id)
    PROVE  BooksInv'
  <1> DEFINE l == [NoCall EXCEPT !.goneRaw = id]
  <1>1. /\ pc[t] = "idle" /\ pc'[t] = "unraw" /\ loc'[t] = l
        /\ UNCHANGED <<rows, slot, held, raws, rawBytes, bodyBytes, faults>>
        /\ OtherThreads(t)
    BY DEF DropRaw, Start, Goto, ledgerVars, OtherThreads, Inv, TypedInv
  <1>2. loc[t].gone = 0 /\ l.gone = 0 /\ l.goneRaw = id
    BY <1>1, IdleIsNoCall DEF NoCall
  <1>3. /\ id \in rawHeld[t] /\ id \notin rawHeld'[t]
        /\ \A j \in RawId \ {id} : j \in rawHeld'[t] <=> j \in rawHeld[t]
        /\ \A u \in Thread \ {t} : rawHeld'[u] = rawHeld[u]
        /\ rawHeld' \in [Thread -> SUBSET RawId]
    BY BooksTyped DEF DropRaw
  <1> HIDE DEF l
  <1>4. StoreInv'
    BY <1>1, <1>2, StoreStays DEF BooksInv, Leaving
  <1>5. bodyBytes' = Worth(Bodies, Key)' + Worth(Gone, Thread)'
    BY <1>1, <1>2, BodiesStill DEF BooksInv, OtherThreads
  <1>6. ASSUME NEW j \in RawId
        PROVE  Known(j) \in Nat /\ Known(j)' \in Nat /\ Known(j)' = Known(j)
    <2>1. /\ RowOwners(j)' = RowOwners(j) /\ t \notin GoneOwners(j)
          /\ t \in PinOwners(j) => (j # id <=> t \in PinOwners(j)')
          /\ t \notin PinOwners(j) => t \notin PinOwners(j)' /\ j # id
          /\ t \in GoneOwners(j)' <=> j = id
      BY <1>1, <1>2, <1>3 DEF PinOwners, GoneOwners, RowOwners
    <2>2. OtherRows(NoKey)
      BY <1>1 DEF OtherRows
    <2>3. /\ Known(j) \in Nat /\ Known(j)' \in Nat
          /\ Known(j)' = Known(j) + KnownShift(NoKey, t, j)
      BY <1>1, <1>3, <2>2, KnownMoves
    <2> QED BY <2>1, <2>3 DEF KnownShift, Weight
  <1>7. Claims(id, 0) /\ RawBooks
    BY <1>6, BooksSplit DEF Claims, BooksInv
  <1>8. RawBooks'
    BY <1>1, <1>3, <1>7, SameRawBooks
  <1> QED BY <1>4, <1>5, <1>8, BooksSplit DEF BooksInv

LEMMA DropRawLedgerBooks ==
    ASSUME Inv, BooksInv, NEW t \in Thread, DropRawLedger(t)
    PROVE  BooksInv'
  <1>0. PICK id : id = loc[t].goneRaw
    OBVIOUS
  <1> DEFINE m == [loc[t] EXCEPT !.goneRaw = NoRaw]
  <1>1. /\ pc[t] = "unraw" /\ pc'[t] = "select" /\ loc'[t] = Trimming(m, "idle")
        /\ UNCHANGED <<rows, slot, held, rawHeld, bodyBytes, faults>>
        /\ OtherThreads(t)
    BY DEF DropRawLedger, Goto, clientVars, OtherThreads, Inv, TypedInv
  <1>2. loc[t].gone = 0
    BY <1>1 DEF BooksInv, StoreInv, Leaving
  <1>3. m \in Local /\ m.gone = 0 /\ id \in RawId \cup {NoRaw}
    BY <1>0, <1>2, LocalRecord DEF Local
  <1> HIDE DEF m
  <1>4. loc'[t].gone = 0
    BY <1>1, <1>3, TrimmingGone
  <1>5. StoreInv'
    BY <1>1, <1>4, StoreStays DEF BooksInv, Leaving
  <1>6. bodyBytes' = Worth(Bodies, Key)' + Worth(Gone, Thread)'
    BY <1>1, <1>2, <1>4, BodiesStill DEF BooksInv, OtherThreads
  <1>7. ASSUME NEW j
        PROVE  Known(j) \in Nat /\ Known(j)' \in Nat /\ Known(j)' = Known(j) - Weight(j = id)
    <2>1. /\ PinOwners(j)' = PinOwners(j) /\ RowOwners(j)' = RowOwners(j)
          /\ t \in GoneOwners(j) <=> j = id
          /\ t \notin GoneOwners(j)'
      BY <1>0, <1>1, <1>4 DEF PinOwners, GoneOwners, RowOwners
    <2>2. OtherRows(NoKey)
      BY <1>1 DEF OtherRows
    <2>3. /\ Known(j) \in Nat /\ Known(j)' \in Nat
          /\ Known(j)' = Known(j) + KnownShift(NoKey, t, j)
      BY <1>1, <2>2, KnownMoves
    <2> QED BY <2>1, <2>3 DEF KnownShift, Weight
  <1>8. RawBooks /\ rawHeld' \in [Thread -> SUBSET RawId]
    BY <1>1, BooksTyped, BooksSplit DEF BooksInv
  <1>9. RawBooks'
    <2>1. CASE id # NoRaw
      <3>1. ReleaseRaw(id) /\ id \in RawId
        BY <1>0, <1>3, <2>1 DEF DropRawLedger
      <3>2. Claims(id, -1)
        BY <1>7, <2>1 DEF Claims, Weight
      <3> QED BY <1>1, <1>8, <3>1, <3>2, ReleaseRawBooks
    <2>2. CASE id = NoRaw
      <3>1. UNCHANGED <<raws, rawBytes>>
        BY <1>0, <2>2 DEF DropRawLedger, ReleaseRaw
      <3>2. Claims(id, 0)
        BY <1>7, <2>2, ResidencyAssumption DEF Claims, Weight
      <3> QED BY <1>1, <1>8, <3>1, <3>2, SameRawBooks
    <2> QED BY <2>1, <2>2
  <1> QED BY <1>5, <1>6, <1>9, BooksSplit DEF BooksInv

(* The storage of a pinned body has an owner. *)
LEMMA PinnedOwned ==
    ASSUME Inv, BooksInv, NEW t \in Thread, NEW k \in held[t]
    PROVE  /\ k \in Key /\ slot[k].raw \in RawId
           /\ raws[slot[k].raw].owners >= 1 /\ raws[slot[k].raw].charged
  <1> DEFINE id == slot[k].raw
  <1>1. k \in Key
    BY DEF Inv, TypedInv
  <1>2. slot[k].phase = "Hot"
    BY <1>1 DEF Inv, Used, UsesBody
  <1>3. rows[k].body # 0 /\ rows[k].raw = id /\ rows[k].raw # NoRaw
    BY <1>1, <1>2 DEF BooksInv, StoreInv, ChargedRow
  <1>4. id \in RawId
    BY <1>1, <1>3 DEF Inv, TypedInv, RowT
  <1>5. IsFiniteSet(RowOwners(id)) /\ k \in RowOwners(id)
    <2>1. IsFiniteSet(Key)
      BY ResidencyAssumption
    <2>2. RowOwners(id) \subseteq Key
      BY DEF RowOwners
    <2> QED BY <1>1, <1>3, <2>1, <2>2, FS_Subset DEF RowOwners
  <1>6. Cardinality(RowOwners(id)) \in Nat /\ Cardinality(RowOwners(id)) # 0
    BY <1>5, FS_CardinalityType, FS_EmptySet
  <1>7. Cardinality(PinOwners(id)) \in Nat /\ Cardinality(GoneOwners(id)) \in Nat
    BY CountZero DEF PinOwners, GoneOwners
  <1>8. raws[id].owners >= Known(id) /\ raws[id].owners \in Int
    <2>1. /\ raws[id].owners = Known(id) + faults.strays[id] /\ faults.strays[id] \in Nat
          /\ raws[id].owners \in Int
      BY <1>4 DEF BooksInv, LedgerInv, OwnedInv, RawT, FaultT
    <2>2. Known(id) \in Nat
      BY <1>6, <1>7 DEF Known
    <2> QED BY <2>1, <2>2
  <1>9. raws[id].owners >= 1
    BY <1>6, <1>7, <1>8 DEF Known
  <1> QED BY <1>1, <1>4, <1>9 DEF BooksInv, LedgerInv, OwnedInv

LEMMA TakeRawBooks ==
    ASSUME Inv, BooksInv, NEW t \in Thread, NEW k \in Key, TakeRaw(t, k)
    PROVE  BooksInv'
  <1>0. PICK id : id = slot[k].raw
    OBVIOUS
  <1> DEFINE n == raws[id].owners + 1
             e == [raws[id] EXCEPT !.owners = n]
  <1>1. /\ pc[t] = "idle" /\ k \in held[t]
        /\ UNCHANGED <<rows, slot, held, pc, loc, bodyBytes, rawBytes, faults>>
    BY DEF TakeRaw
  <1>2. id \in RawId /\ raws[id].owners >= 1 /\ raws[id].charged /\ raws[id] \in RawT
    BY <1>0, <1>1, PinnedOwned, BooksTyped
  <1>3. /\ rawHeld'[t] = rawHeld[t] \cup {id} /\ id \notin rawHeld[t]
        /\ \A u \in Thread \ {t} : rawHeld'[u] = rawHeld[u]
        /\ rawHeld' \in [Thread -> SUBSET RawId]
    BY <1>0, <1>2, BooksTyped DEF TakeRaw
  <1>4. raws' = [raws EXCEPT ![id] = e]
    BY <1>0 DEF TakeRaw
  <1>5. e \in RawT /\ e.charged /\ e.owners = raws[id].owners + 1 /\ raws[id].owners \in Int
    BY <1>2 DEF RawT
  <1> HIDE DEF e, n
  <1>6. StoreInv'
    BY <1>1, StoreStays DEF BooksInv, StoreInv, Leaving, OtherThreads
  <1>7. bodyBytes' = Worth(Bodies, Key)' + Worth(Gone, Thread)'
    BY <1>1, BodiesStill DEF BooksInv
  <1>8. ASSUME NEW j
        PROVE  Known(j) \in Nat /\ Known(j)' \in Nat /\ Known(j)' = Known(j) + Weight(j = id)
    <2>1. /\ RowOwners(j)' = RowOwners(j) /\ GoneOwners(j)' = GoneOwners(j)
          /\ t \in PinOwners(j)' <=> j = id \/ t \in PinOwners(j)
          /\ j = id => t \notin PinOwners(j)
      BY <1>1, <1>3 DEF PinOwners, GoneOwners, RowOwners
    <2>2. OtherRows(NoKey) /\ OtherThreads(t)
      BY <1>1 DEF OtherRows, OtherThreads
    <2>3. /\ Known(j) \in Nat /\ Known(j)' \in Nat
          /\ Known(j)' = Known(j) + KnownShift(NoKey, t, j)
      BY <1>3, <2>2, KnownMoves
    <2> QED BY <2>1, <2>3 DEF KnownShift, Weight
  <1>9. RawBooks
    BY BooksSplit DEF BooksInv
  <1>10. rawBytes' = Worth(Raws, RawId)'
    <2>1. rawBytes \in Nat /\ RawSize[KeyOf(id)] \in Nat
      BY <1>2, BooksTyped, RawSizes
    <2>2. rawBytes' = rawBytes + (IF e.charged THEN RawSize[KeyOf(id)] ELSE 0)
                               - (IF raws[id].charged THEN RawSize[KeyOf(id)] ELSE 0)
      BY <1>1, <1>2, <1>5, <2>1
    <2> QED BY <1>2, <1>4, <1>5, <1>9, <2>2, RawsMove
  <1>11. OwnedInv'
    <2>1. e.owners = Known(id)' + faults'.strays[id]
      <3>1. raws[id].owners = Known(id) + faults.strays[id] /\ faults.strays[id] \in Nat
        BY <1>2, <1>9 DEF RawBooks, OwnedInv, FaultT
      <3>2. Known(id) \in Nat /\ Known(id)' = Known(id) + 1
        BY <1>8 DEF Weight
      <3> QED BY <1>1, <1>5, <3>1, <3>2
    <2>2. \A j \in RawId \ {id} : Known(j)' = Known(j)
      <3>1. ASSUME NEW j \in RawId \ {id}
            PROVE  Known(j)' = Known(j)
        BY <1>8 DEF Weight
      <3> QED BY <3>1
    <2>3. faults' \in FaultT
      BY <1>1, <1>9 DEF RawBooks, OwnedInv
    <2> QED BY <1>1, <1>2, <1>3, <1>4, <1>5, <1>9, <2>1, <2>2, <2>3, OwnersMove
  <1> QED BY <1>6, <1>7, <1>10, <1>11, BooksSplit DEF BooksInv, RawBooks

LEMMA CensusBooks ==
    ASSUME Inv, BooksInv, Census
    PROVE  BooksInv'
  <1>1. UNCHANGED <<rows, slot, pc, loc, held, rawHeld, bodyBytes, faults>> /\ Prune(RawId)
    BY DEF Census, clientVars
  <1>2. StoreInv'
    BY <1>1 DEF BooksInv, StoreInv, ChargedRow, Stored, Ticketing, Retires, Snapped, Leaving
  <1>3. bodyBytes' = Worth(Bodies, Key)' + Worth(Gone, Thread)'
    BY <1>1, BodiesStill DEF BooksInv
  <1>4. ASSUME NEW j
        PROVE  Known(j) \in Nat /\ Known(j)' \in Nat /\ Known(j)' = Known(j)
    <2>1. OtherRows(NoKey) /\ OtherThreads(NoThread) /\ NoKey \notin Key /\ NoThread \notin Thread
      BY <1>1, ResidencyAssumption DEF OtherRows, OtherThreads
    <2>2. /\ Known(j) \in Nat /\ Known(j)' \in Nat
          /\ Known(j)' = Known(j) + KnownShift(NoKey, NoThread, j)
      BY <1>1, <2>1, KnownMoves
    <2>3. KnownShift(NoKey, NoThread, j) = 0
      BY <2>1 DEF KnownShift, Weight, RowOwners, PinOwners, GoneOwners
    <2> QED BY <2>2, <2>3
  <1>5. RawBooks /\ rawHeld' \in [Thread -> SUBSET RawId] /\ Claims(NoRaw, 0)
    BY <1>1, <1>4, BooksTyped, BooksSplit DEF BooksInv, Claims
  <1>6. RawBooks'
    BY <1>1, <1>5, PruneBooks
  <1> QED BY <1>2, <1>3, <1>6, BooksSplit DEF BooksInv

-----------------------------------------------------------------------------
(* Call::finish *)

(* A thread that finishes with the body: its slot stays hot, and its call  *)
(* keeps its version from being retired.                                   *)
LEMMA HotCaller ==
    ASSUME Inv, BooksInv, NEW t \in Thread, pc[t] \in {"resolve", "overrun"}, loc[t].prep = "ready"
    PROVE  LET k == loc[t].key
           IN  /\ k \in Key /\ slot[k].phase = "Hot" /\ slot[k].raw \in RawId
               /\ rows[k].present /\ ~rows[k].retiring /\ rows[k].body \in Nat
               /\ loc[t].gone = 0
  <1> DEFINE k == loc[t].key
  <1>1. k \in Key /\ loc[t].hasBody
    BY LocalRecord DEF Place, Aim, Trims, Local
  <1>2. slot[k].phase = "Hot"
    BY <1>1 DEF Inv, Used, UsesBody
  <1>3. slot[k].raw \in RawId
    BY <1>1, <1>2 DEF BooksInv, StoreInv, Stored, Inv, TypedInv, Slot
  <1>4. InCall(t, k) /\ Refers(t, k)
    BY DEF InCall, Refers, RefersAt, Calling
  <1>5. rows[k].calls >= 1 /\ rows[k].calls \in Int /\ rows[k].body \in Nat /\ rows[k].present
    BY <1>1, <1>4, CallCounts, InLedger DEF Inv, TypedInv, RowT
  <1>6. ~rows[k].retiring
    BY <1>1, <1>5 DEF BooksInv, StoreInv, Ticketing
  <1>7. loc[t].gone = 0
    BY DEF BooksInv, StoreInv, Leaving
  <1> QED BY <1>1, <1>2, <1>3, <1>5, <1>6, <1>7

(* What the finish does to the row. *)
LEMMA FinishHotRow ==
    ASSUME Inv, NEW t \in Thread, NEW k \in Key, loc[t].key = k, NEW n \in {0, 1}, FinishHot(t, n)
    PROVE  /\ OtherRows(k)
           /\ rows'[k].raw = IF rows[k].body = 0 THEN slot[k].raw ELSE rows[k].raw
           /\ rows'[k].body = IF rows[k].body = 0 THEN TreeSize[k] ELSE rows[k].body
           /\ rows'[k].retiring = rows[k].retiring /\ rows'[k].present = rows[k].present
  <1> DEFINE a == IF rows[k].body = 0 THEN slot[k].raw ELSE rows[k].raw
             b == IF rows[k].body = 0 THEN TreeSize[k] ELSE rows[k].body
             w == IF rows[k].calls = 1 THEN NoPermit ELSE rows[k].wave
             r1 == [rows[k] EXCEPT !.raw = a]
             r2 == [r1 EXCEPT !.body = b]
             r == [r2 EXCEPT !.calls = rows[k].calls - 1, !.pins = rows[k].pins + n,
                             !.refs = rows[k].refs + n, !.wave = w]
  <1>1. rows[k] \in RowT
    BY DEF Inv, TypedInv
  <1>2. rows' = [rows EXCEPT ![k] = r]
    BY <1>1, ZenonT(30) DEF FinishHot, RowT
  <1> HIDE DEF a, b, w
  <1>3. /\ r2.raw = a /\ r2.body = b /\ r2.retiring = rows[k].retiring
        /\ r2.present = rows[k].present
    BY <1>1 DEF RowT
  <1> HIDE DEF r2
  <1>4. r.raw = r2.raw /\ r.body = r2.body /\ r.retiring = r2.retiring /\ r.present = r2.present
    OBVIOUS
  <1> HIDE DEF r
  <1>5. rows'[k] = r /\ OtherRows(k)
    BY <1>2 DEF OtherRows, Inv, TypedInv
  <1> QED BY <1>3, <1>4, <1>5 DEF a, b

(* The finish of a call that records a body, or finds it recorded.         *)
LEMMA RecordedBooks ==
    ASSUME Inv, BooksInv, Inv', NEW t \in Thread, NEW k \in Key, OtherThreads(t), OtherRows(k),
           NEW id, id \in RawId \cup {NoRaw}, UNCHANGED <<slot, rawHeld>>,
           NEW b, rows[k].body = 0 \/ b = 0,
           rows'[k].body = rows[k].body + b,
           b # 0 => /\ rows'[k].raw = id /\ AddRaw(id) /\ id # NoRaw
                    /\ slot[k].phase = "Hot" /\ slot[k].raw = id /\ UNCHANGED faults,
           b = 0 => /\ rows'[k].raw = rows[k].raw \/ rows[k].body = 0
                    /\ \/ UNCHANGED <<raws, rawBytes, faults>>
                       \/ AddRaw(id) /\ id # NoRaw /\ Strays(id),
           b \in Nat, bodyBytes' = bodyBytes + b,
           rows'[k].retiring = rows[k].retiring, ~rows[k].retiring,
           rows[k].present, rows'[k].present,
           loc[t].gone = 0, loc'[t].gone = 0, pc[t] # "unraw", pc'[t] \in {"call", "body"},
           \A u \in Thread : held'[u] \subseteq held[u] \cup {k},
           \A u \in Thread : k \in held'[u] => rows'[k].body # 0
    PROVE  BooksInv'
  <1>1. rows[k].body \in Nat
    BY DEF Inv, TypedInv, RowT
  <1>2. StoreInv'
    <2>1. ChargedRow(k)'
      <3>1. CASE b # 0
        BY <3>1 DEF ChargedRow
      <3>2. CASE b = 0
        <4>1. ChargedRow(k) /\ rows'[k].body = rows[k].body
          BY <1>1, <3>2 DEF BooksInv, StoreInv
        <4> QED BY <3>2, <4>1 DEF ChargedRow
      <3> QED BY <3>1, <3>2
    <2>2. Stored(k)'
      BY DEF BooksInv, StoreInv, Stored
    <2>3. Ticketing(k)'
      BY DEF Ticketing
    <2>4. (\A j \in Key : SameSlot(j)) /\ Leaving(t)'
      BY DEF SameSlot, Leaving
    <2>5. \A u \in Thread \ {t} : Retires(u) /\ loc[u].victim = k => rows'[k].retiring
      BY DEF BooksInv, StoreInv
    <2>6. (ChargedRow(k) /\ Stored(k) /\ Ticketing(k))'
      BY <2>1, <2>2, <2>3
    <2> QED BY <2>4, <2>5, <2>6, StoreStep DEF BooksInv
  <1>3. bodyBytes' = bodyBytes + rows'[k].body - rows[k].body + loc'[t].gone - loc[t].gone
    <2>1. bodyBytes \in Nat
      BY BooksTyped
    <2> QED BY <1>1, <2>1
  <1>4. bodyBytes' = Worth(Bodies, Key)' + Worth(Gone, Thread)'
    BY <1>3, BodiesMove DEF BooksInv
  <1>5. ASSUME NEW j
        PROVE  Known(j) \in Nat /\ Known(j)' \in Nat /\ Known(j)' = Known(j) + Weight(b # 0 /\ j = id)
    <2>1. /\ PinOwners(j)' = PinOwners(j) /\ t \notin GoneOwners(j) /\ t \notin GoneOwners(j)'
      BY DEF PinOwners, GoneOwners
    <2>2. Weight(k \in RowOwners(j)') - Weight(k \in RowOwners(j)) = Weight(b # 0 /\ j = id)
      <3>1. CASE b # 0
        <4>1. k \notin RowOwners(j) /\ (k \in RowOwners(j)' <=> j = id)
          BY <1>1, <3>1 DEF RowOwners
        <4> QED BY <3>1, <4>1 DEF Weight
      <3>2. CASE b = 0
        <4>1. k \in RowOwners(j)' <=> k \in RowOwners(j)
          BY <1>1, <3>2 DEF RowOwners
        <4> QED BY <3>2, <4>1 DEF Weight
      <3> QED BY <3>1, <3>2
    <2>3. /\ Known(j) \in Nat /\ Known(j)' \in Nat
          /\ Known(j)' = Known(j) + KnownShift(k, t, j)
      BY KnownMoves
    <2> QED BY <2>1, <2>2, <2>3 DEF KnownShift, Weight
  <1>6. RawBooks /\ rawHeld' \in [Thread -> SUBSET RawId]
    BY BooksTyped, BooksSplit DEF BooksInv
  <1>7. RawBooks'
    <2>1. CASE AddRaw(id) /\ id # NoRaw /\ IF b # 0 THEN UNCHANGED faults ELSE Strays(id)
      <3>1. Claims(id, Weight(b # 0))
        BY <1>5 DEF Claims, Weight
      <3>2. /\ Weight(b # 0) \in 0..1 /\ id \in RawId
            /\ IF Weight(b # 0) = 1 THEN UNCHANGED faults ELSE Strays(id)
        BY <2>1 DEF Weight
      <3> QED BY <1>6, <2>1, <3>1, <3>2, AddRawBooks
    <2>2. CASE b = 0 /\ UNCHANGED <<raws, rawBytes, faults>>
      <3>1. Claims(id, 0)
        BY <1>5, <2>2 DEF Claims, Weight
      <3> QED BY <1>6, <2>2, <3>1, SameRawBooks
    <2> QED BY <2>1, <2>2
  <1> QED BY <1>2, <1>4, <1>7, BooksSplit DEF BooksInv

LEMMA FinishHotBooks ==
    ASSUME Inv, BooksInv, Inv', NEW t \in Thread, NEW n \in {0, 1}, FinishHot(t, n),
           pc[t] \in {"resolve", "overrun"}, loc[t].prep = "ready",
           OtherThreads(t), loc'[t].gone = 0, pc'[t] \in {"call", "body"},
           UNCHANGED <<rawHeld, faults>>,
           \A u \in Thread : held'[u] \subseteq held[u] \cup {loc[t].key}
    PROVE  BooksInv'
  <1>0. PICK k, id : k = loc[t].key /\ id = slot[k].raw
    OBVIOUS
  <1>1. /\ k \in Key /\ slot[k].phase = "Hot" /\ id \in RawId
        /\ rows[k].present /\ ~rows[k].retiring /\ rows[k].body \in Nat
        /\ loc[t].gone = 0
    BY <1>0, HotCaller
  <1>2. /\ OtherRows(k)
        /\ rows'[k].raw = IF rows[k].body = 0 THEN id ELSE rows[k].raw
        /\ rows'[k].body = IF rows[k].body = 0 THEN TreeSize[k] ELSE rows[k].body
        /\ rows'[k].retiring = rows[k].retiring /\ rows'[k].present = rows[k].present
    BY <1>0, <1>1, FinishHotRow
  <1>3. TreeSize[k] \in Nat /\ TreeSize[k] # 0 /\ NoRaw \notin RawId
    BY <1>1, ResidencyAssumption
  <1>4. /\ UNCHANGED slot
        /\ bodyBytes' = bodyBytes + IF rows[k].body = 0 THEN TreeSize[k] ELSE 0
        /\ IF rows[k].body = 0 THEN AddRaw(id) ELSE UNCHANGED <<raws, rawBytes, canon>>
    BY <1>0 DEF FinishHot
  <1>5. PICK b : b = IF rows[k].body = 0 THEN TreeSize[k] ELSE 0
    OBVIOUS
  <1>6. /\ b \in Nat /\ rows'[k].body = rows[k].body + b /\ rows'[k].body # 0
        /\ rows[k].body = 0 \/ b = 0
        /\ bodyBytes' = bodyBytes + b
        /\ b # 0 => /\ rows'[k].raw = id /\ AddRaw(id) /\ id # NoRaw
                    /\ slot[k].phase = "Hot" /\ slot[k].raw = id /\ UNCHANGED faults
        /\ b = 0 => rows'[k].raw = rows[k].raw /\ UNCHANGED <<raws, rawBytes, faults>>
    BY <1>0, <1>1, <1>2, <1>3, <1>4, <1>5
  <1>7. \A u \in Thread : held'[u] \subseteq held[u] \cup {k}
    BY <1>0
  <1>8. /\ id \in RawId \cup {NoRaw} /\ UNCHANGED <<slot, rawHeld>> /\ pc[t] # "unraw"
        /\ rows'[k].retiring = rows[k].retiring /\ rows'[k].present
    BY <1>1, <1>2, <1>4
  <1>9. /\ b = 0 => /\ rows'[k].raw = rows[k].raw \/ rows[k].body = 0
                    /\ \/ UNCHANGED <<raws, rawBytes, faults>>
                       \/ AddRaw(id) /\ id # NoRaw /\ Strays(id)
        /\ \A u \in Thread : k \in held'[u] => rows'[k].body # 0
    BY <1>6
  <1> HIDE DEF OtherThreads, OtherRows
  <1> QED BY <1>1, <1>2, <1>6, <1>7, <1>8, <1>9, RecordedBooks

LEMMA FinishPinBooks ==
    ASSUME Inv, BooksInv, Inv', NEW t \in Thread, FinishPin(t) \/ FinishOverrun(t)
    PROVE  BooksInv'
  <1>1. pc[t] \in {"resolve", "overrun"} /\ loc[t].prep = "ready"
    BY LocalRecord DEF FinishPin, FinishOverrun, Resolving, Place
  <1>2. loc[t].key \in Key /\ loc[t].gone = 0
    BY <1>1, HotCaller
  <1>3. /\ OtherThreads(t) /\ pc'[t] \in {"call", "body"} /\ UNCHANGED rawHeld
        /\ \A u \in Thread : held'[u] \subseteq held[u] \cup {loc[t].key}
    BY DEF FinishPin, FinishOverrun, Goto, OtherThreads, clientVars, Inv, TypedInv
  <1>4. loc'[t].gone = 0
    BY <1>2, LocalRecord DEF FinishPin, FinishOverrun, Inv, TypedInv, Local
  <1>5. \E n \in {0, 1} : FinishHot(t, n)
    BY DEF FinishPin, FinishOverrun
  <1>6. UNCHANGED faults
    BY <1>5 DEF FinishHot
  <1> QED BY <1>1, <1>3, <1>4, <1>5, <1>6, FinishHotBooks

LEMMA FinishFailBooks ==
    ASSUME Inv, BooksInv, Inv', NEW t \in Thread, FinishFail(t)
    PROVE  BooksInv'
  <1>0. PICK k, id : k = loc[t].key /\ id = loc[t].raw
    OBVIOUS
  <1>1. PICK first, b : /\ first = (id # NoRaw /\ rows[k].body = 0)
                        /\ b = IF first /\ loc[t].snap = "Hot" THEN TreeSize[k] ELSE 0
    OBVIOUS
  <1>2. pc[t] = "fail" /\ pc'[t] = "call" /\ UNCHANGED <<slot, held, rawHeld>> /\ OtherThreads(t)
    BY DEF FinishFail, Goto, OtherThreads, clientVars, Inv, TypedInv
  <1>3. k \in Key /\ loc[t].prep = "failed" /\ ~rows[k].retiring
    BY <1>0, <1>2, SnapTyped, NoCallRetiring DEF BooksInv
  <1>4. /\ rows[k] \in RowT /\ rows[k].body \in Nat /\ loc[t] \in Local
        /\ id \in RawId \cup {NoRaw}
    BY <1>0, <1>3, LocalRecord DEF Inv, TypedInv, RowT, Local
  <1>5. rows[k].present /\ loc[t].gone = 0
    <2>1. Refers(t, k)
      BY <1>0, <1>3 DEF Refers, RefersAt, Calling
    <2> QED BY <1>2, <1>3, <2>1, InLedger DEF BooksInv, StoreInv, Leaving
  <1>6. TreeSize[k] \in Nat /\ TreeSize[k] # 0
    BY <1>3, ResidencyAssumption
  <1>7. loc'[t].gone = 0
    <2> DEFINE f == IF loc[t].res = NoPermit THEN "idle" ELSE "holding"
               l == [loc[t] EXCEPT !.raw = NoRaw, !.prep = "done", !.fin = f]
    <2>1. loc' = [loc EXCEPT ![t] = l]
      BY <1>4 DEF FinishFail, Local
    <2> HIDE DEF f
    <2>2. l.gone = 0
      BY <1>4, <1>5 DEF Local
    <2> HIDE DEF l
    <2> QED BY <2>1, <2>2 DEF Inv, TypedInv
  <1>8. /\ OtherRows(k) /\ rows'[k].raw = (IF first THEN id ELSE rows[k].raw)
        /\ rows'[k].body = rows[k].body + b /\ rows'[k].retiring = rows[k].retiring
        /\ rows'[k].present = rows[k].present
    <2> DEFINE a == IF first THEN id ELSE rows[k].raw
               c == rows[k].body + b
               w == IF rows[k].calls = 1 THEN NoPermit ELSE rows[k].wave
               r1 == [rows[k] EXCEPT !.raw = a]
               r2 == [r1 EXCEPT !.body = c]
               r == [r2 EXCEPT !.calls = rows[k].calls - 1, !.wave = w]
    <2>1. rows' = [rows EXCEPT ![k] = r]
      BY <1>0, <1>1, <1>4 DEF FinishFail, RowT
    <2> HIDE DEF a, c, w
    <2>2. /\ r2.raw = a /\ r2.body = c /\ r2.retiring = rows[k].retiring
          /\ r2.present = rows[k].present
      BY <1>4 DEF RowT
    <2> HIDE DEF r2
    <2>3. r.raw = r2.raw /\ r.body = r2.body /\ r.retiring = r2.retiring /\ r.present = r2.present
      OBVIOUS
    <2> HIDE DEF r
    <2>4. rows'[k] = r /\ OtherRows(k)
      BY <1>3, <2>1 DEF OtherRows, Inv, TypedInv
    <2> QED BY <2>2, <2>3, <2>4 DEF a, c
  <1>9. /\ bodyBytes' = bodyBytes + b
        /\ IF first THEN AddRaw(id) ELSE UNCHANGED <<raws, rawBytes, canon>>
        /\ IF first /\ b = 0 THEN Strays(id) ELSE UNCHANGED faults
    BY <1>0, <1>1 DEF FinishFail, Strays
  <1>10. b # 0 => first /\ slot[k].phase = "Hot" /\ slot[k].raw = id
    BY <1>0, <1>1, <1>2 DEF BooksInv, StoreInv, Snapped
  <1>11. /\ b \in Nat /\ (rows[k].body = 0 \/ b = 0)
         /\ b # 0 => /\ rows'[k].raw = id /\ AddRaw(id) /\ id # NoRaw
                     /\ slot[k].phase = "Hot" /\ slot[k].raw = id /\ UNCHANGED faults
         /\ b = 0 => /\ rows'[k].raw = rows[k].raw \/ rows[k].body = 0
                     /\ \/ UNCHANGED <<raws, rawBytes, faults>>
                        \/ AddRaw(id) /\ id # NoRaw /\ Strays(id)
    BY <1>1, <1>6, <1>8, <1>9, <1>10
  <1>12. \A u \in Thread : k \in held'[u] => rows'[k].body # 0
    <2>1. \A u \in Thread : k \in held[u] => rows[k].body # 0
      BY DEF BooksInv, StoreInv
    <2> QED BY <1>2, <1>4, <1>8, <1>11, <2>1
  <1>13. \A u \in Thread : held'[u] \subseteq held[u] \cup {k}
    BY <1>2
  <1> QED BY <1>2, <1>3, <1>4, <1>5, <1>7, <1>8, <1>9, <1>11, <1>12, <1>13, RecordedBooks

-----------------------------------------------------------------------------
(* Until a load fails, no caller is left to record a failure: one that saw *)
(* its slot Loading finds the load going on, or done, and a revision left  *)
(* to count its read.  So no owner has gone astray.                        *)

Provides(t) ==
    LET s == slot[loc[t].key]
    IN  mutex = t /\ s.phase # "Cold" /\ (loc[t].access = "Read" => s.revision # MaxRevision)
UnfailedInv ==
    faults.loads = 0 =>
        /\ \A id \in RawId : faults.strays[id] = 0
        /\ \A t \in Thread : loc[t].prep # "failed" /\ (pc[t] = "prepare" => Provides(t))

(* A step of t that neither fails a call nor begins to prepare one. *)
Departs(t) == \E p : p # "prepare" /\ pc' = [pc EXCEPT ![t] = p]
Unfailing(l, m) == l.prep = "failed" => m.prep = "failed"
Fares(t) == Departs(t) /\ \E l : loc' = [loc EXCEPT ![t] = l] /\ Unfailing(l, loc[t])
Warm(k) == /\ slot'[k].revision = slot[k].revision
           /\ slot[k].phase # "Cold" => slot'[k].phase # "Cold"

LEMMA FaresWarm ==
    ASSUME Inv, UnfailedInv, NEW t \in Thread, Fares(t), UNCHANGED <<mutex, faults>>,
           \A u \in Thread \ {t} : pc[u] = "prepare" => Warm(loc[u].key)
    PROVE  UnfailedInv'
  <1>1. PICK p, l : /\ p # "prepare" /\ pc' = [pc EXCEPT ![t] = p]
                    /\ loc' = [loc EXCEPT ![t] = l] /\ Unfailing(l, loc[t])
    BY DEF Fares, Departs
  <1>2. pc'[t] = p /\ loc'[t] = l /\ \A u \in Thread \ {t} : pc'[u] = pc[u] /\ loc'[u] = loc[u]
    BY <1>1 DEF Inv, TypedInv
  <1> SUFFICES ASSUME faults.loads = 0
               PROVE  \A u \in Thread : /\ loc'[u].prep # "failed"
                                        /\ pc'[u] = "prepare" => Provides(u)'
    BY DEF UnfailedInv
  <1>3. loc'[t].prep # "failed" /\ pc'[t] # "prepare"
    BY <1>1, <1>2 DEF Unfailing, UnfailedInv
  <1>4. ASSUME NEW u \in Thread \ {t}
        PROVE  loc'[u].prep # "failed" /\ (pc'[u] = "prepare" => Provides(u)')
    <2>1. loc[u].prep # "failed" /\ (pc[u] = "prepare" => Provides(u) /\ Warm(loc[u].key))
      BY DEF UnfailedInv
    <2>2. pc'[u] = pc[u] /\ loc'[u] = loc[u] /\ mutex' = mutex
      BY <1>2
    <2> QED BY <2>1, <2>2 DEF Provides, Warm
  <1> QED BY <1>3, <1>4 DEF UnfailedInv

LEMMA FaresKeeps ==
    ASSUME Inv, UnfailedInv, NEW t \in Thread, Fares(t), UNCHANGED <<slot, mutex, faults>>
    PROVE  UnfailedInv'
  <1>1. \A k : Warm(k)
    BY DEF Warm
  <1> QED BY <1>1, FaresWarm

LEMMA SameFares ==
    ASSUME Inv, NEW t \in Thread, Departs(t), UNCHANGED loc
    PROVE  Fares(t)
  <1>1. loc' = [loc EXCEPT ![t] = loc[t]]
    BY DEF Inv, TypedInv
  <1> QED BY <1>1 DEF Fares, Unfailing

LEMMA RecordFares ==
    ASSUME NEW t, Departs(t), NEW l, loc' = [loc EXCEPT ![t] = l],
           l.prep \in {loc[t].prep, "none", "done"}
    PROVE  Fares(t)
  BY DEF Fares, Unfailing

LEMMA TrimmingPrep ==
    ASSUME NEW m \in Local, NEW a
    PROVE  Trimming(m, a).prep = m.prep
  BY DEF Trimming, Local

LEMMA DroppedPrep ==
    ASSUME NEW m \in Local
    PROVE  [m EXCEPT !.hasBody = FALSE] \in Local /\ [m EXCEPT !.hasBody = FALSE].prep = m.prep
  <1> DEFINE l == [m EXCEPT !.hasBody = FALSE]
  <1>1. l \in Local
    BY DEF Local
  <1>2. l.prep = m.prep
    BY DEF Local
  <1> QED BY <1>1, <1>2

LEMMA AttemptPrep ==
    ASSUME NEW m
    PROVE  Attempt(m).prep = "none"
  BY DEF Attempt, NoCall

LEMMA RestFares ==
    ASSUME NEW t, Rest(t)
    PROVE  Fares(t)
  <1>1. Departs(t) /\ loc' = [loc EXCEPT ![t] = NoCall] /\ NoCall.prep = "none"
    BY DEF Rest, Goto, Departs, NoCall
  <1> QED BY <1>1, RecordFares

LEMMA AnsweredFares ==
    ASSUME Inv, NEW t \in Thread, NEW a, Departs(t),
           loc' = [loc EXCEPT ![t] = [loc[t] EXCEPT !.answer = a]]
    PROVE  Fares(t)
  <1>1. [loc[t] EXCEPT !.answer = a].prep = loc[t].prep
    BY LocalRecord DEF Local
  <1> QED BY <1>1, RecordFares

LEMMA AnswerFares ==
    ASSUME Inv, NEW t \in Thread, NEW a, Answer(t, a)
    PROVE  Fares(t)
  <1>1. CASE loc[t].key = NoKey
    BY <1>1, RestFares DEF Answer
  <1>2. CASE loc[t].key # NoKey
    <2>1. loc' = [loc EXCEPT ![t] = [loc[t] EXCEPT !.answer = a]] /\ Departs(t)
      BY <1>2 DEF Answer, Goto, Departs
    <2> QED BY <2>1, AnsweredFares
  <1> QED BY <1>1, <1>2

LEMMA BeginFares ==
    ASSUME Inv, NEW t \in Thread,
           \/ BeginRetiring(t) \/ BeginExhausted(t) \/ BeginStale(t)
           \/ BeginSettling(t) \/ BeginAdmission(t)
    PROVE  Fares(t) /\ UNCHANGED <<slot, mutex, faults>>
  <1>1. CASE BeginRetiring(t) \/ BeginExhausted(t) \/ BeginSettling(t)
    <2>1. PICK a : RefuseBegin(t, a)
      BY <1>1 DEF BeginRetiring, BeginExhausted, BeginSettling
    <2> DEFINE p == IF loc[t].spare # NoPermit THEN "spare" ELSE "answer"
    <2>2. loc' = [loc EXCEPT ![t] = [loc[t] EXCEPT !.answer = a]] /\ pc' = [pc EXCEPT ![t] = p]
      BY <2>1 DEF RefuseBegin, Goto
    <2>3. p # "prepare"
      OBVIOUS
    <2> HIDE DEF p
    <2> QED BY <2>1, <2>2, <2>3, AnsweredFares DEF RefuseBegin, Departs
  <1>2. CASE BeginStale(t)
    <2>1. Departs(t) /\ UNCHANGED <<slot, mutex, faults, loc>>
      BY <1>2 DEF BeginStale, Goto, Departs
    <2> QED BY <2>1, SameFares
  <1>3. CASE BeginAdmission(t)
    <2> DEFINE m == [loc[t] EXCEPT !.need = Declared(loc[t].key)]
               n == [m EXCEPT !.rev = slot[loc[t].key].revision]
    <2>1. loc' = [loc EXCEPT ![t] = n] /\ Departs(t) /\ UNCHANGED <<slot, mutex, faults>>
      BY <1>3 DEF BeginAdmission, Goto, Departs
    <2>2. n.prep = loc[t].prep
      BY LocalRecord DEF Local
    <2> HIDE DEF n
    <2> QED BY <2>1, <2>2, RecordFares
  <1> QED BY <1>1, <1>2, <1>3

LEMMA DropSpareFares ==
    ASSUME Inv, NEW t \in Thread, DropSpare(t)
    PROVE  Fares(t) /\ UNCHANGED <<slot, mutex, faults>>
  <1> DEFINE l == [loc[t] EXCEPT !.spare = NoPermit]
             a == IF loc[t].prep # "none" THEN "resolve"
                  ELSE IF loc[t].answer # "none" THEN "answer" ELSE "begin"
  <1>1. loc' = [loc EXCEPT ![t] = Trimming(l, a)] /\ Departs(t) /\ UNCHANGED <<slot, mutex, faults>>
    BY DEF DropSpare, Goto, Departs
  <1> HIDE DEF a
  <1>2. l \in Local /\ l.prep = loc[t].prep
    BY LocalRecord DEF Local
  <1> HIDE DEF l
  <1>3. Trimming(l, a).prep = loc[t].prep
    BY <1>2, TrimmingPrep
  <1> QED BY <1>1, <1>3, RecordFares

LEMMA AdmitFares ==
    ASSUME Inv, NEW t \in Thread, AdmitStep(t)
    PROVE  Fares(t) /\ UNCHANGED <<slot, mutex, faults>>
  <1>1. CASE \/ AdmitRetiring(t) \/ AdmitPaused(t) \/ AdmitKeptOut(t)
             \/ AdmitRefusedOversized(t) \/ AdmitOccupied(t)
    <2>1. PICK a : Refused(t, a)
      BY <1>1 DEF AdmitRetiring, AdmitPaused, AdmitKeptOut, AdmitRefusedOversized, AdmitOccupied
    <2> QED BY <2>1, AnswerFares DEF Refused
  <1>2. CASE AdmitJoin(t)
    <2> DEFINE l == [loc[t] EXCEPT !.spare = rows[loc[t].key].wave]
    <2>1. loc' = [loc EXCEPT ![t] = l] /\ Departs(t) /\ UNCHANGED <<slot, mutex, faults>>
      BY <1>2 DEF AdmitJoin, Goto, Departs
    <2>2. l.prep = loc[t].prep
      BY LocalRecord DEF Local
    <2> HIDE DEF l
    <2> QED BY <2>1, <2>2, RecordFares
  <1>3. CASE AdmitHot(t)
    <2>1. Departs(t) /\ UNCHANGED <<slot, mutex, faults, loc>>
      BY <1>3 DEF AdmitHot, Goto, Departs
    <2> QED BY <2>1, SameFares
  <1>4. CASE AdmitOpen(t)
    <2> DEFINE q == CHOOSE p \in PermitId \ Live : TRUE
    <2>1. Departs(t) /\ UNCHANGED <<slot, mutex, faults>>
      BY <1>4 DEF AdmitOpen, Goto, Departs
    <2>2. CASE loc[t].key = NoKey
      <3> DEFINE l == [loc[t] EXCEPT !.res = q]
      <3>1. loc' = [loc EXCEPT ![t] = l]
        BY <1>4, <2>2 DEF AdmitOpen
      <3>2. l.prep = loc[t].prep
        BY LocalRecord DEF Local
      <3> HIDE DEF l
      <3> QED BY <2>1, <3>1, <3>2, RecordFares
    <2>3. CASE loc[t].key # NoKey
      <3> DEFINE l == [loc[t] EXCEPT !.spare = q]
      <3>1. loc' = [loc EXCEPT ![t] = l]
        BY <1>4, <2>3 DEF AdmitOpen
      <3>2. l.prep = loc[t].prep
        BY LocalRecord DEF Local
      <3> HIDE DEF l
      <3> QED BY <2>1, <3>1, <3>2, RecordFares
    <2> QED BY <2>2, <2>3
  <1>5. CASE AdmitReclaim(t)
    <2> DEFINE l == [loc[t] EXCEPT !.mode = "admit"]
    <2>1. loc' = [loc EXCEPT ![t] = l] /\ Departs(t) /\ UNCHANGED <<slot, mutex, faults>>
      BY <1>5 DEF AdmitReclaim, Goto, Departs
    <2>2. l.prep = loc[t].prep
      BY LocalRecord DEF Local
    <2> HIDE DEF l
    <2> QED BY <2>1, <2>2, RecordFares
  <1>6. CASE Unowe(t)
    <2>1. UNCHANGED <<slot, mutex, faults>>
      BY <1>6 DEF Unowe
    <2>2. CASE loc[t].key = NoKey
      BY <1>6, <2>1, <2>2, RestFares DEF Unowe
    <2>3. CASE loc[t].key # NoKey
      <3> DEFINE l == [loc[t] EXCEPT !.mode = "trim"]
      <3>1. loc' = [loc EXCEPT ![t] = l] /\ Departs(t)
        BY <1>6, <2>3 DEF Unowe, Goto, Departs
      <3>2. l.prep = loc[t].prep
        BY LocalRecord DEF Local
      <3> HIDE DEF l
      <3> QED BY <2>1, <3>1, <3>2, RecordFares
    <2> QED BY <2>2, <2>3
  <1> QED BY <1>1, <1>2, <1>3, <1>4, <1>5, <1>6 DEF AdmitStep

-----------------------------------------------------------------------------
(* Retirement leaves the slot of a version that is called alone.           *)

LEMMA CollectedDeparts ==
    ASSUME NEW t, Collected(t)
    PROVE  Departs(t)
  <1> DEFINE p == IF loc[t].mode = "trim" THEN "select"
                  ELSE IF loc[t].answer = "Busy" THEN "unowe" ELSE "admit"
  <1>1. pc' = [pc EXCEPT ![t] = p]
    BY DEF Collected, Goto
  <1>2. p # "prepare"
    OBVIOUS
  <1> HIDE DEF p
  <1> QED BY <1>1, <1>2 DEF Departs

LEMMA ResumeFares ==
    ASSUME Inv, NEW t \in Thread, Resume(t)
    PROVE  Fares(t)
  <1>1. CASE loc[t].after = "idle"
    BY <1>1, RestFares DEF Resume
  <1>2. CASE loc[t].after = "begin"
    <2>1. loc' = [loc EXCEPT ![t] = Attempt(loc[t])] /\ Departs(t)
      BY <1>2 DEF Resume, Goto, Departs
    <2> QED BY <2>1, AttemptPrep, RecordFares
  <1>3. CASE loc[t].after \notin {"idle", "begin"}
    <2> DEFINE l == [loc[t] EXCEPT !.after = "idle"]
    <2>1. loc' = [loc EXCEPT ![t] = l] /\ pc' = [pc EXCEPT ![t] = loc[t].after]
      BY <1>3 DEF Resume, Goto
    <2>2. loc[t].after # "prepare"
      BY LocalRecord DEF Place
    <2>3. l.prep = loc[t].prep
      BY LocalRecord DEF Local
    <2> HIDE DEF l
    <2> QED BY <2>1, <2>2, <2>3, RecordFares DEF Departs
  <1> QED BY <1>1, <1>2, <1>3

LEMMA SlotLooks ==
    ASSUME Inv, NEW v, NEW s, slot' = [slot EXCEPT ![v] = s],
           s.phase = slot[v].phase, s.revision = slot[v].revision
    PROVE  \A k \in Key : Warm(k)
  BY DEF Warm, Inv, TypedInv

(* A thread that is about to prepare calls a version of the table. *)
LEMMA PreparingCalls ==
    ASSUME Inv, NEW u \in Thread, pc[u] = "prepare"
    PROVE  /\ loc[u].key \in Key /\ rows[loc[u].key].calls >= 1
           /\ Refers(u, loc[u].key)
  <1>1. loc[u].key \in Key
    BY LocalRecord DEF Place, Aim, Trims, Local
  <1>2. InCall(u, loc[u].key) /\ Refers(u, loc[u].key)
    BY DEF InCall, Refers, RefersAt
  <1> QED BY <1>1, <1>2, CallCounts

LEMMA ShedUnfailed ==
    ASSUME Inv, StoreInv, UnfailedInv, NEW t \in Thread, Shed(t)
    PROVE  UnfailedInv'
  <1>1. Departs(t) /\ UNCHANGED <<loc, mutex, faults>> /\ Retires(t)
    BY DEF Shed, Goto, Departs, Retires
  <1>2. Fares(t)
    BY <1>1, SameFares
  <1>3. ASSUME NEW u \in Thread, pc[u] = "prepare"
        PROVE  Warm(loc[u].key)
    <2>1. loc[u].key \in Key /\ rows[loc[u].key].calls >= 1
      BY <1>3, PreparingCalls
    <2>2. loc[t].victim \in Key /\ rows[loc[t].victim].calls = 0
      BY <1>1, VictimTyped DEF StoreInv, Ticketing
    <2>3. loc[u].key # loc[t].victim
      BY <2>1, <2>2
    <2>4. slot'[loc[u].key] = slot[loc[u].key]
      BY <2>1, <2>3 DEF Shed, Inv, TypedInv
    <2> QED BY <2>4 DEF Warm
  <1> QED BY <1>1, <1>2, <1>3, FaresWarm

LEMMA SettleUnfailed ==
    ASSUME Inv, UnfailedInv, NEW t \in Thread, Settle(t)
    PROVE  UnfailedInv'
  <1>0. PICK v : v = loc[t].victim
    OBVIOUS
  <1>1. Departs(t) /\ UNCHANGED <<mutex, faults>> /\ Retires(t)
    BY DEF Settle, Goto, Departs, Retires
  <1>2. v \in Key
    BY <1>0, <1>1, VictimTyped
  <1>3. Fares(t)
    <2>1. CASE UNCHANGED loc
      BY <1>1, <2>1, SameFares
    <2>2. CASE ~UNCHANGED loc
      <3>1. loc' = [loc EXCEPT ![t] = [loc[t] EXCEPT !.answer = "Busy"]]
        BY <2>2 DEF Settle
      <3> QED BY <1>1, <3>1, AnsweredFares
    <2> QED BY <2>1, <2>2
  <1>4. \A k \in Key : Warm(k)
    <2>1. CASE UNCHANGED slot
      BY <2>1 DEF Warm
    <2>2. CASE ~UNCHANGED slot
      <3> DEFINE s == [slot[v] EXCEPT !.lastRaw = NoRaw]
      <3>1. slot' = [slot EXCEPT ![v] = s]
        BY <1>0, <2>2 DEF Settle
      <3>2. s.phase = slot[v].phase /\ s.revision = slot[v].revision
        BY <1>2 DEF Inv, TypedInv, Slot
      <3> HIDE DEF s
      <3> QED BY <3>1, <3>2, SlotLooks
    <2> QED BY <2>1, <2>2
  <1>5. \A u \in Thread \ {t} : pc[u] = "prepare" => Warm(loc[u].key)
    BY <1>4, PreparingCalls
  <1> QED BY <1>1, <1>3, <1>5, FaresWarm

LEMMA CollectUnfailed ==
    ASSUME Inv, UnfailedInv, NEW t \in Thread, Collect(t)
    PROVE  UnfailedInv'
  <1>0. PICK v : v = loc[t].victim
    OBVIOUS
  <1>1. /\ Departs(t) /\ UNCHANGED <<mutex, faults>> /\ pc[t] = "collect"
        /\ slot' = [slot EXCEPT ![v] = NewSlot] /\ rows[v].refs = 0
    BY <1>0 DEF Collect, Collectable, Goto, Departs
  <1>2. v \in Key
    BY <1>0, <1>1, LocalRecord DEF Place, Trims, Local
  <1>3. Fares(t)
    <2> DEFINE m == [loc[t] EXCEPT !.raw = slot[v].raw]
               n == [m EXCEPT !.gone = rows[v].body]
               l == [n EXCEPT !.goneRaw = rows[v].raw]
    <2>1. loc' = [loc EXCEPT ![t] = l]
      BY <1>0 DEF Collect
    <2>2. l.prep = loc[t].prep
      BY LocalRecord DEF Local
    <2> HIDE DEF l
    <2> QED BY <1>1, <2>1, <2>2, RecordFares
  <1>4. ASSUME NEW u \in Thread, pc[u] = "prepare"
        PROVE  Warm(loc[u].key)
    <2>1. loc[u].key \in Key /\ Refers(u, loc[u].key)
      BY <1>4, PreparingCalls
    <2>2. ~Refers(u, v)
      BY <1>1, <1>2, Unreferenced
    <2>3. slot'[loc[u].key] = slot[loc[u].key]
      BY <1>1, <2>1, <2>2 DEF Inv, TypedInv
    <2> QED BY <2>3 DEF Warm
  <1> QED BY <1>1, <1>3, <1>4, FaresWarm

LEMMA RetireUnfailed ==
    ASSUME Inv, StoreInv, UnfailedInv, NEW t \in Thread, RetireStep(t)
    PROVE  UnfailedInv'
  <1>0. loc[t] \in Local
    BY LocalRecord
  <1>1. CASE SelectVictim(t)
    <2>1. PICK v : loc' = [loc EXCEPT ![t].victim = v, ![t].vrev = slot[v].revision]
      BY <1>1 DEF SelectVictim
    <2> DEFINE m == [loc[t] EXCEPT !.victim = v]
               l == [m EXCEPT !.vrev = slot[v].revision]
    <2>2. loc' = [loc EXCEPT ![t] = l]
      BY <2>1
    <2>3. l.prep = loc[t].prep
      BY <1>0 DEF Local
    <2> HIDE DEF l
    <2>4. Departs(t) /\ UNCHANGED <<slot, mutex, faults>>
      BY <1>1 DEF SelectVictim, Goto, Departs
    <2> QED BY <2>2, <2>3, <2>4, RecordFares, FaresKeeps
  <1>2. CASE SelectNone(t)
    <2>1. Fares(t)
      BY <1>2, AnswerFares, ResumeFares DEF SelectNone
    <2> QED BY <1>2, <2>1, FaresKeeps DEF SelectNone
  <1>3. CASE CollectNothing(t)
    <2>1. Departs(t) /\ UNCHANGED <<loc, slot, mutex, faults>>
      BY <1>3, CollectedDeparts DEF CollectNothing
    <2> QED BY <2>1, SameFares, FaresKeeps
  <1>4. CASE DropRow(t)
    <2> DEFINE l == [loc[t] EXCEPT !.raw = NoRaw]
    <2>1. loc' = [loc EXCEPT ![t] = l] /\ Departs(t) /\ UNCHANGED <<slot, mutex, faults>>
      BY <1>4 DEF DropRow, Goto, Departs
    <2>2. l.prep = loc[t].prep
      BY <1>0 DEF Local
    <2> HIDE DEF l
    <2> QED BY <2>1, <2>2, RecordFares, FaresKeeps
  <1>5. CASE ReleaseDetached(t)
    <2> DEFINE m == [loc[t] EXCEPT !.gone = 0]
               l == [m EXCEPT !.goneRaw = NoRaw]
    <2>1. loc' = [loc EXCEPT ![t] = l] /\ Departs(t) /\ UNCHANGED <<slot, mutex, faults>>
      BY <1>5, CollectedDeparts DEF ReleaseDetached
    <2>2. l.prep = loc[t].prep
      BY <1>0 DEF Local
    <2> HIDE DEF l
    <2> QED BY <2>1, <2>2, RecordFares, FaresKeeps
  <1> QED BY <1>1, <1>2, <1>3, <1>4, <1>5, ShedUnfailed, SettleUnfailed, CollectUnfailed
          DEF RetireStep

-----------------------------------------------------------------------------
(* Entering a call with a revision left.                                   *)

LEMMA FaresAlone ==
    ASSUME Inv, UnfailedInv, NEW t \in Thread, Fares(t), UNCHANGED faults,
           \A u \in Thread \ {t} : pc[u] # "prepare"
    PROVE  UnfailedInv'
  <1>1. PICK p, l : /\ p # "prepare" /\ pc' = [pc EXCEPT ![t] = p]
                    /\ loc' = [loc EXCEPT ![t] = l] /\ Unfailing(l, loc[t])
    BY DEF Fares, Departs
  <1>2. pc'[t] = p /\ loc'[t] = l /\ \A u \in Thread \ {t} : pc'[u] = pc[u] /\ loc'[u] = loc[u]
    BY <1>1 DEF Inv, TypedInv
  <1>3. \A u \in Thread : pc'[u] # "prepare"
    BY <1>1, <1>2
  <1>4. faults.loads = 0 => \A u \in Thread : loc'[u].prep # "failed"
    BY <1>1, <1>2 DEF Unfailing, UnfailedInv
  <1> QED BY <1>3, <1>4 DEF UnfailedInv

LEMMA PrepareFares ==
    ASSUME Inv, NEW t \in Thread, NEW m \in Local, NEW s \in Slot, Prepare(t, m, s),
           m.access = "Read" \/ s.phase = "Cold" => s.revision # MaxRevision
    PROVE  /\ Departs(t)
           /\ \E l : loc' = [loc EXCEPT ![t] = l] /\ l.prep # "failed"
  <1> DEFINE bumps == m.access = "Read" \/ s.phase = "Cold"
             spent == bumps /\ s.revision = MaxRevision
             reuse == IF s.lastRaw # NoRaw /\ Alive(s.lastRaw) THEN s.lastRaw ELSE NoRaw
             cold  == s.phase = "Cold" /\ ~spent
             a == IF spent THEN "failed" ELSE Outcome(s)
             b == s.phase = "Hot" /\ ~spent
             c == IF cold THEN reuse ELSE NoRaw
             h == [m EXCEPT !.prep = a]
             i == [h EXCEPT !.hasBody = b]
             l == [i EXCEPT !.raw = c]
             p == IF m.spare # NoPermit THEN "spare" ELSE "resolve"
  <1>1. loc' = [loc EXCEPT ![t] = l] /\ pc' = [pc EXCEPT ![t] = p]
    BY DEF Prepare, Goto
  <1>2. p # "prepare"
    OBVIOUS
  <1>3. a # "failed"
    BY DEF Outcome
  <1> HIDE DEF p, a, b, c
  <1>4. h.prep = a
    BY DEF Local
  <1> HIDE DEF h
  <1>5. l.prep = h.prep
    OBVIOUS
  <1> HIDE DEF l
  <1> QED BY <1>1, <1>2, <1>3, <1>4, <1>5 DEF Departs

LEMMA PrepareJoinUnfailed ==
    ASSUME Inv, UnfailedInv, NEW t \in Thread, PrepareJoin(t)
    PROVE  UnfailedInv'
  <1> SUFFICES ASSUME faults.loads = 0
               PROVE  UnfailedInv'
    BY DEF UnfailedInv, PrepareJoin
  <1>1. pc[t] = "prepare" /\ Prepare(t, loc[t], slot[loc[t].key]) /\ UNCHANGED faults
    BY DEF PrepareJoin
  <1>2. loc[t] \in Local /\ slot[loc[t].key] \in Slot
    BY <1>1, LocalRecord, PreparingCalls DEF Inv, TypedInv
  <1>3. Provides(t)
    BY <1>1 DEF UnfailedInv
  <1>4. Departs(t) /\ \E l : loc' = [loc EXCEPT ![t] = l] /\ l.prep # "failed"
    BY <1>1, <1>2, <1>3, PrepareFares DEF Provides
  <1>5. Fares(t)
    BY <1>4 DEF Fares, Unfailing
  <1>6. \A u \in Thread \ {t} : pc[u] # "prepare"
    BY <1>3 DEF UnfailedInv, Provides
  <1> QED BY <1>1, <1>5, <1>6, FaresAlone

LEMMA EnterUnfailed ==
    ASSUME Inv, UnfailedInv, NEW t \in Thread, Enter(t)
    PROVE  UnfailedInv'
  <1> SUFFICES ASSUME faults.loads = 0
               PROVE  UnfailedInv'
    BY DEF UnfailedInv, Enter
  <1> DEFINE k == loc[t].key
             opens == NeedsWave(k)
             res == IF opens THEN loc[t].spare ELSE rows[k].wave
             sp == IF opens THEN NoPermit ELSE loc[t].spare
             l0 == [loc[t] EXCEPT !.res = res]
             l == [l0 EXCEPT !.spare = sp]
             x == IF opens THEN Reusable(k) ELSE slot[k].lastRaw
             s == [slot[k] EXCEPT !.lastRaw = x]
  <1>1. /\ pc[t] = "begin" /\ ~WouldExhaust(k, loc[t].access) /\ mutex = NoThread
        /\ UNCHANGED faults
    BY DEF Enter, Startable, Beginning, Unlocked
  <1>2. loc[t] \in Local /\ k \in Key
    <2>1. loc[t] \in Local /\ k # NoKey
      BY <1>1, LocalRecord DEF Place, Aim, Trims
    <2> QED BY <2>1 DEF Local
  <1>3. rows[k] \in RowT /\ slot[k] \in Slot /\ x \in RawId \cup {NoRaw}
    BY <1>2 DEF Inv, TypedInv, Reusable, Slot
  <1>4. res \in PermitId \cup {NoPermit} /\ sp \in PermitId \cup {NoPermit}
    BY <1>2, <1>3 DEF Local, RowT
  <1>5. s \in Slot /\ s.phase = slot[k].phase /\ s.revision = slot[k].revision
    BY <1>3 DEF Slot
  <1>6. \/ /\ slot[k].phase = "Loading"
           /\ loc' = [loc EXCEPT ![t] = l] /\ pc' = [pc EXCEPT ![t] = "prepare"]
           /\ mutex' = t /\ UNCHANGED slot
        \/ slot[k].phase # "Loading" /\ Prepare(t, l, s)
    BY DEF Enter, Goto
  <1>7. \A u \in Thread : pc[u] # "prepare"
    BY <1>1, ResidencyAssumption DEF UnfailedInv, Provides
  <1>8. loc[t].access = "Read" \/ slot[k].phase = "Cold" => slot[k].revision # MaxRevision
    BY <1>1 DEF WouldExhaust
  <1> HIDE DEF x, s, res, sp
  <1>9. l0 \in Local /\ l0.key = k /\ l0.access = loc[t].access /\ l0.prep = loc[t].prep
    BY <1>2, <1>4 DEF Local
  <1> HIDE DEF l0
  <1>10. l \in Local /\ l.key = k /\ l.access = loc[t].access /\ l.prep = loc[t].prep
    BY <1>4, <1>9 DEF Local
  <1> HIDE DEF l
  <1>11. CASE /\ slot[k].phase = "Loading"
              /\ loc' = [loc EXCEPT ![t] = l] /\ pc' = [pc EXCEPT ![t] = "prepare"]
              /\ mutex' = t /\ UNCHANGED slot
    <2>1. loc'[t] = l /\ \A u \in Thread \ {t} : pc'[u] = pc[u] /\ loc'[u] = loc[u]
      BY <1>11 DEF Inv, TypedInv
    <2>2. \A u \in Thread : loc'[u].prep # "failed"
      BY <1>10, <2>1 DEF UnfailedInv
    <2>3. Provides(t)'
      BY <1>8, <1>10, <1>11, <2>1 DEF Provides
    <2>4. \A u \in Thread \ {t} : pc'[u] # "prepare"
      BY <1>7, <2>1
    <2> QED BY <1>1, <2>2, <2>3, <2>4 DEF UnfailedInv
  <1>12. CASE slot[k].phase # "Loading" /\ Prepare(t, l, s)
    <2>1. Departs(t) /\ \E m : loc' = [loc EXCEPT ![t] = m] /\ m.prep # "failed"
      BY <1>5, <1>8, <1>10, <1>12, PrepareFares
    <2>2. Fares(t)
      BY <2>1 DEF Fares, Unfailing
    <2> QED BY <1>1, <1>7, <2>2, FaresAlone
  <1> QED BY <1>6, <1>11, <1>12

-----------------------------------------------------------------------------
(* What a call comes to, and what a thread starts.                         *)

LEMMA LoadOkUnfailed ==
    ASSUME Inv, UnfailedInv, NEW t \in Thread, LoadOk(t)
    PROVE  UnfailedInv'
  <1> SUFFICES ASSUME faults.loads = 0
               PROVE  \A u \in Thread : /\ loc'[u].prep # "failed"
                                        /\ pc'[u] = "prepare" => Provides(u)'
    BY DEF UnfailedInv, LoadOk
  <1>1. /\ UNCHANGED <<pc, mutex, faults>> /\ pc[t] = "resolve" /\ loc[t].prep = "load"
    BY DEF LoadOk, Resolving
  <1>2. loc[t].key \in Key
    BY <1>1, LocalRecord DEF Place, Aim, Trims, Local
  <1>3. \A k \in Key : /\ slot'[k].revision = slot[k].revision
                       /\ slot[k].phase # "Cold" => slot'[k].phase # "Cold"
    <2>1. PICK id : slot' = [slot EXCEPT ![loc[t].key] =
                               [@ EXCEPT !.phase = "Hot", !.raw = id, !.lastRaw = id]]
      BY DEF LoadOk
    <2> DEFINE a == [slot[loc[t].key] EXCEPT !.phase = "Hot"]
               b == [a EXCEPT !.raw = id]
               c == [b EXCEPT !.lastRaw = id]
    <2>2. slot' = [slot EXCEPT ![loc[t].key] = c]
      BY <2>1
    <2>3. c.phase = "Hot" /\ c.revision = slot[loc[t].key].revision
      BY <1>2 DEF Inv, TypedInv, Slot
    <2> HIDE DEF c
    <2> QED BY <1>2, <2>2, <2>3 DEF Inv, TypedInv
  <1>4. ASSUME NEW u \in Thread
        PROVE  /\ loc'[u].prep \in {loc[u].prep, "ready"}
               /\ loc'[u].key = loc[u].key /\ loc'[u].access = loc[u].access
    <2> DEFINE a == [loc[u] EXCEPT !.prep = "ready"]
               b == [a EXCEPT !.hasBody = TRUE]
               c == [b EXCEPT !.raw = NoRaw]
    <2>1. loc'[u] = loc[u] \/ loc'[u] = c
      BY DEF LoadOk
    <2>2. c.prep = "ready" /\ c.key = loc[u].key /\ c.access = loc[u].access
      BY LocalRecord DEF Local
    <2> HIDE DEF c
    <2> QED BY <2>1, <2>2
  <1>5. \A u \in Thread : pc[u] = "prepare" => Provides(u) /\ loc[u].key \in Key
    BY PreparingCalls DEF UnfailedInv
  <1> QED BY <1>1, <1>3, <1>4, <1>5 DEF UnfailedInv, Provides

LEMMA CallUnfailed ==
    ASSUME Inv, UnfailedInv, faults \in FaultT, NEW t \in Thread, CallStep(t)
    PROVE  UnfailedInv'
  <1>10. CASE LoadFail(t)
    <2>1. faults' = [faults EXCEPT !.loads = @ + 1]
      BY <1>10 DEF LoadFail
    <2>2. faults'.loads # 0
      BY <2>1 DEF FaultT
    <2> QED BY <2>2 DEF UnfailedInv
  <1>11. CASE faults.loads # 0 /\ ~LoadFail(t)
    <2>1. faults'.loads = faults.loads
      <3>1. CASE FinishFail(t)
        <4>1. faults' = faults \/ \E id : faults' = [faults EXCEPT !.strays[id] = @ + 1]
          BY <3>1 DEF FinishFail
        <4> QED BY <4>1 DEF FaultT
      <3>2. CASE ~FinishFail(t)
        BY <1>11, <3>2 DEF CallStep, LoadOk, Learn, FinishPin, FinishOverrun, FinishHot, DropBody,
           FailSnapshot, FailRaw, DropCall, DropMember, DropHolding, UnpinLedger, DropRawLedger
      <3> QED BY <3>1, <3>2
    <2> QED BY <1>11, <2>1 DEF UnfailedInv
  <1> SUFFICES ASSUME faults.loads = 0, ~LoadFail(t)
               PROVE  UnfailedInv'
    BY <1>10, <1>11
  <1>0. loc[t] \in Local
    BY LocalRecord
  <1>1. ~FailSnapshot(t) /\ ~FailRaw(t) /\ ~FinishFail(t)
    <2>1. pc[t] \notin {"raw", "fail"} /\ loc[t].prep # "failed"
      BY SnapTyped DEF UnfailedInv
    <2>3. FailSnapshot(t) => loc[t].prep = "failed"
      BY DEF FailSnapshot, Resolving
    <2>4. FailRaw(t) => pc[t] = "raw"
      BY DEF FailRaw
    <2>5. FinishFail(t) => pc[t] = "fail"
      BY DEF FinishFail
    <2> QED BY <2>1, <2>3, <2>4, <2>5
  <1>2. CASE Learn(t)
    <2>1. Departs(t) /\ UNCHANGED <<loc, slot, mutex, faults>>
      BY <1>2 DEF Learn, Goto, Departs
    <2> QED BY <2>1, SameFares, FaresKeeps
  <1>3. CASE FinishPin(t)
    <2> DEFINE a == [loc[t] EXCEPT !.hasBody = FALSE]
               b == [a EXCEPT !.prep = "done"]
               c == [b EXCEPT !.fin = "idle"]
    <2>1. loc' = [loc EXCEPT ![t] = c] /\ Departs(t) /\ UNCHANGED <<slot, mutex, faults>>
      BY <1>3 DEF FinishPin, FinishHot, Goto, Departs
    <2>2. c.prep = "done"
      BY <1>0 DEF Local
    <2> HIDE DEF c
    <2> QED BY <2>1, <2>2, RecordFares, FaresKeeps
  <1>4. CASE FinishOverrun(t)
    <2> DEFINE x == IF loc[t].again THEN "answer" ELSE "begin"
               y == IF loc[t].again THEN "PeakExceeded" ELSE "none"
               a == [loc[t] EXCEPT !.prep = "done"]
               b == [a EXCEPT !.fin = x]
               c == [b EXCEPT !.answer = y]
               d == [c EXCEPT !.again = TRUE]
    <2>1. loc' = [loc EXCEPT ![t] = d]
      BY <1>4 DEF FinishOverrun
    <2>2. Departs(t) /\ UNCHANGED <<slot, mutex, faults>>
      BY <1>4 DEF FinishOverrun, FinishHot, Goto, Departs
    <2> HIDE DEF x, y
    <2>3. a.prep = "done"
      BY <1>0 DEF Local
    <2> HIDE DEF a
    <2>4. d.prep = "done"
      BY <2>3
    <2> HIDE DEF d
    <2> QED BY <2>1, <2>2, <2>4, RecordFares, FaresKeeps
  <1>5. CASE DropBody(t) \/ DropHolding(t) \/ UnpinLedger(t) \/ DropRawLedger(t)
    <2>1. Departs(t) /\ UNCHANGED <<slot, mutex, faults>>
      BY <1>5 DEF DropBody, DropHolding, UnpinLedger, DropRawLedger, Goto, Departs
    <2>2. PICK l, a : /\ loc' = [loc EXCEPT ![t] = Trimming(l, a)]
                      /\ l \in {loc[t], [loc[t] EXCEPT !.hasBody = FALSE],
                                [loc[t] EXCEPT !.res = NoPermit],
                                [loc[t] EXCEPT !.goneRaw = NoRaw]}
      BY <1>5 DEF DropBody, DropHolding, UnpinLedger, DropRawLedger
    <2>3. l \in Local /\ l.prep = loc[t].prep
      <3>1. /\ [loc[t] EXCEPT !.hasBody = FALSE] \in Local
            /\ [loc[t] EXCEPT !.hasBody = FALSE].prep = loc[t].prep
        BY <1>0, DroppedPrep
      <3>2. /\ [loc[t] EXCEPT !.res = NoPermit] \in Local
            /\ [loc[t] EXCEPT !.res = NoPermit].prep = loc[t].prep
        BY <1>0 DEF Local
      <3>3. /\ [loc[t] EXCEPT !.goneRaw = NoRaw] \in Local
            /\ [loc[t] EXCEPT !.goneRaw = NoRaw].prep = loc[t].prep
        BY <1>0 DEF Local
      <3> QED BY <1>0, <2>2, <3>1, <3>2, <3>3
    <2> QED BY <2>1, <2>2, <2>3, TrimmingPrep, RecordFares, FaresKeeps
  <1>6. CASE DropCall(t)
    <2>1. Departs(t) /\ UNCHANGED <<slot, mutex, faults>>
      BY <1>6 DEF DropCall, Goto, Departs
    <2>2. PICK l : /\ loc' = [loc EXCEPT ![t] = Trimming(l, "member")]
                   /\ l = loc[t] \/ l = [loc[t] EXCEPT !.res = NoPermit]
      BY <1>6 DEF DropCall
    <2>3. l \in Local /\ l.prep = loc[t].prep
      BY <1>0, <2>2 DEF Local
    <2> QED BY <2>1, <2>2, <2>3, TrimmingPrep, RecordFares, FaresKeeps
  <1>7. CASE DropMember(t)
    <2> DEFINE l == [loc[t] EXCEPT !.victim = loc[t].key]
    <2>1. Departs(t) /\ UNCHANGED <<slot, mutex, faults>>
      BY <1>7 DEF DropMember, Goto, Departs
    <2>2. loc' = [loc EXCEPT ![t] = Trimming(l, loc[t].fin)]
      BY <1>7 DEF DropMember
    <2>3. l \in Local /\ l.prep = loc[t].prep
      BY <1>0 DEF Local
    <2> HIDE DEF l
    <2> QED BY <2>1, <2>2, <2>3, TrimmingPrep, RecordFares, FaresKeeps
  <1> QED BY <1>1, <1>2, <1>3, <1>4, <1>5, <1>6, <1>7, LoadOkUnfailed DEF CallStep

LEMMA LeaseUnfailed ==
    ASSUME Inv, UnfailedInv, NEW t \in Thread, LeaseStep(t)
    PROVE  UnfailedInv'
  <1>1. CASE Leave(t)
    BY <1>1, RestFares, FaresKeeps DEF Leave
  <1>2. CASE Poll(t) \/ Unpause(t) \/ RetryPause(t)
    <2>1. PICK l : Again(t, l)
      BY <1>2 DEF Poll, Unpause, RetryPause
    <2>2. PICK m : loc' = [loc EXCEPT ![t] = Attempt(m)]
      BY <2>1 DEF Again
    <2>3. Departs(t) /\ UNCHANGED <<slot, mutex, faults>>
      BY <2>1 DEF Again, Goto, Departs
    <2> QED BY <2>2, <2>3, AttemptPrep, RecordFares, FaresKeeps
  <1> QED BY <1>1, <1>2 DEF LeaseStep

LEMMA StillUnfailed ==
    ASSUME Inv, UnfailedInv, UNCHANGED <<slot, mutex, pc, faults>>,
           \A u \in Thread : /\ loc'[u].prep = loc[u].prep /\ loc'[u].key = loc[u].key
                             /\ loc'[u].access = loc[u].access
    PROVE  UnfailedInv'
  BY DEF UnfailedInv, Provides

LEMMA StartUnfailed ==
    ASSUME Inv, UnfailedInv, NEW t \in Thread, NEW l, NEW p, Start(t, l, p),
           p # "prepare", l.prep = "none", UNCHANGED <<slot, mutex, faults>>
    PROVE  UnfailedInv'
  <1>1. Departs(t) /\ loc' = [loc EXCEPT ![t] = l]
    BY DEF Start, Goto, Departs
  <1> QED BY <1>1, RecordFares, FaresKeeps

LEMMA ClientUnfailed ==
    ASSUME Inv, UnfailedInv, NEW t \in Thread, ClientStart(t) \/ HostStart(t)
    PROVE  UnfailedInv'
  <1>1. CASE \E k \in Key : TakeRaw(t, k)
    <2>1. UNCHANGED <<slot, mutex, pc, loc, faults>>
      BY <1>1 DEF TakeRaw
    <2> QED BY <2>1, StillUnfailed
  <1>2. ASSUME NEW k \in Key, NEW a \in Accesses, Lease(t, k, a)
        PROVE  UnfailedInv'
    <2>1. [NoCall EXCEPT !.key = k, !.access = a].prep = "none"
      BY DEF NoCall
    <2> QED BY <1>2, <2>1, StartUnfailed DEF Lease
  <1>3. ASSUME NEW k \in Key, Unpin(t, k) \/ DropGeneration(t, k)
        PROVE  UnfailedInv'
    <2>1. [NoCall EXCEPT !.key = k].prep = "none"
      BY DEF NoCall
    <2> QED BY <1>3, <2>1, StartUnfailed DEF Unpin, DropGeneration
  <1>4. ASSUME NEW id \in RawId, DropRaw(t, id)
        PROVE  UnfailedInv'
    <2>1. [NoCall EXCEPT !.goneRaw = id].prep = "none"
      BY DEF NoCall
    <2> QED BY <1>4, <2>1, StartUnfailed DEF DropRaw
  <1>5. ASSUME NEW b \in StageSizes, Reserve(t, b)
        PROVE  UnfailedInv'
    <2>1. [NoCall EXCEPT !.need = b].prep = "none"
      BY DEF NoCall
    <2> QED BY <1>5, <2>1, StartUnfailed DEF Reserve
  <1>6. CASE \/ \E k \in Key : Retain(t, k)
             \/ \E l \in Limits : SetLimit(t, l)
             \/ \E f \in Floors : SetFloor(t, f)
    <2>1. Start(t, NoCall, "select") /\ UNCHANGED <<slot, mutex, faults>>
      BY <1>6 DEF Retain, SetLimit, SetFloor
    <2>2. NoCall.prep = "none"
      BY DEF NoCall
    <2> QED BY <2>1, <2>2, StartUnfailed
  <1> QED BY <1>1, <1>2, <1>3, <1>4, <1>5, <1>6 DEF ClientStart, HostStart

LEMMA PassageUnfailed ==
    ASSUME Inv, UnfailedInv, Passage
    PROVE  UnfailedInv'
  <1>1. CASE \E t \in Thread : PatienceEnds(t)
    <2>1. PICK t \in Thread : PatienceEnds(t)
      BY <1>1
    <2> DEFINE l == [loc[t] EXCEPT !.patience = "over"]
    <2>2. loc' = [loc EXCEPT ![t] = l] /\ UNCHANGED <<slot, mutex, pc, faults>>
      BY <2>1 DEF PatienceEnds
    <2>3. l.prep = loc[t].prep /\ l.key = loc[t].key /\ l.access = loc[t].access
      BY LocalRecord DEF Local
    <2> HIDE DEF l
    <2>4. loc'[t] = l /\ \A u \in Thread \ {t} : loc'[u] = loc[u]
      BY <2>2 DEF Inv, TypedInv
    <2> QED BY <2>2, <2>3, <2>4, StillUnfailed
  <1>2. CASE WaitingExpires \/ (\E k \in Key : OwedExpires(k)) \/ Census
    <2>1. UNCHANGED <<slot, mutex, pc, loc, faults>>
      BY <1>2 DEF WaitingExpires, OwedExpires, Census
    <2> QED BY <2>1, StillUnfailed
  <1> QED BY <1>1, <1>2 DEF Passage

LEMMA NextUnfailed ==
    ASSUME Inv, BooksInv, UnfailedInv, [Next]_allVars
    PROVE  UnfailedInv'
  <1> StoreInv /\ faults \in FaultT
    BY DEF BooksInv, LedgerInv, OwnedInv
  <1>1. ASSUME NEW t \in Thread, Step(t)
        PROVE  UnfailedInv'
    <2>1. CASE BeginStep(t)
      BY <2>1, BeginFares, DropSpareFares, FaresKeeps, EnterUnfailed, PrepareJoinUnfailed
         DEF BeginStep
    <2>2. CASE AdmitStep(t)
      BY <2>2, AdmitFares, FaresKeeps
    <2> QED BY <1>1, <2>1, <2>2, RetireUnfailed, CallUnfailed, LeaseUnfailed DEF Step
  <1>2. CASE UNCHANGED allVars
    <2>1. UNCHANGED <<slot, mutex, pc, loc, faults>>
      BY <1>2 DEF allVars, vars
    <2> QED BY <2>1, StillUnfailed
  <1> QED BY <1>1, <1>2, PassageUnfailed, ClientUnfailed DEF Next

LEMMA InitUnfailed == Init => UnfailedInv
  BY DEF Init, UnfailedInv, NoCall

-----------------------------------------------------------------------------
(* The ledger in every step *)

LEMMA StepBooks ==
    ASSUME Inv, BooksInv, Inv', NEW t \in Thread, Step(t)
    PROVE  BooksInv'
  <1>1. CASE BeginStep(t)
    BY <1>1, BeginBooks, EnterBooks, PrepareJoinBooks, DropSpareBooks DEF BeginStep
  <1>2. CASE AdmitStep(t)
    BY <1>2, AdmitStepBooks
  <1>3. CASE RetireStep(t)
    BY <1>3, SelectVictimBooks, RetireCalmBooks, ShedBooks, SettleBooks, CollectBooks,
       ReleaseDetachedBooks DEF RetireStep
  <1>4. CASE CallStep(t)
    BY <1>4, LoadBooks, CallCalmBooks, FinishPinBooks, FailReadBooks, FinishFailBooks,
       DropRawLedgerBooks DEF CallStep
  <1>5. CASE LeaseStep(t)
    BY <1>5, LeaseBooks
  <1> QED BY <1>1, <1>2, <1>3, <1>4, <1>5 DEF Step

LEMMA ClientBooks ==
    ASSUME Inv, BooksInv, NEW t \in Thread, ClientStart(t)
    PROVE  BooksInv'
  BY UnpinBooks, TakeRawBooks, LeaseStartBooks, DropRawBooks DEF ClientStart

LEMMA PassageBooks ==
    ASSUME Inv, BooksInv, Passage
    PROVE  BooksInv'
  <1>1. CASE \E t \in Thread : PatienceEnds(t)
    BY <1>1, PatienceBooks
  <1>2. CASE WaitingExpires \/ \E k \in Key : OwedExpires(k)
    BY <1>2, StillBooks DEF WaitingExpires, OwedExpires, clientVars
  <1>3. CASE Census
    BY <1>3, CensusBooks
  <1> QED BY <1>1, <1>2, <1>3 DEF Passage

LEMMA NextBooks ==
    ASSUME Inv, BooksInv, [Next]_allVars
    PROVE  BooksInv'
  <1>1. Inv'
    BY NextKeeps
  <1>2. CASE UNCHANGED allVars
    BY <1>2, StillBooks DEF allVars, vars, ledgerVars
  <1>3. CASE Passage
    BY <1>3, PassageBooks
  <1>4. ASSUME NEW t \in Thread, Step(t) \/ ClientStart(t) \/ HostStart(t)
        PROVE  BooksInv'
    BY <1>1, <1>4, StepBooks, ClientBooks, HostBooks
  <1> QED BY <1>2, <1>3, <1>4 DEF Next

LEMMA InitBooks == Init => BooksInv
  <1> SUFFICES ASSUME Init
               PROVE  BooksInv
    OBVIOUS
  <1>1. \A k \in Key : rows[k].body = 0 /\ ~rows[k].retiring /\ slot[k].phase = "Cold"
    BY DEF Init, NewRow, Absent, NewSlot
  <1>2. \A t \in Thread : /\ pc[t] = "idle" /\ held[t] = {} /\ rawHeld[t] = {}
                          /\ loc[t].gone = 0
    BY DEF Init, NoCall
  <1>3. \A id \in RawId : ~raws[id].charged /\ raws[id].owners = 0 /\ raws[id] \in RawT
    BY DEF Init, Uncharged, RawT
  <1>4. StoreInv
    BY <1>1, <1>2 DEF StoreInv, ChargedRow, Stored, Ticketing, Retires, Snapped, Leaving
  <1>5. bodyBytes = Worth(Bodies, Key) + Worth(Gone, Thread)
    <2>1. Worth(Bodies, Key) = 0 /\ Worth(Gone, Thread) = 0
      BY <1>1, <1>2, WorthNothing DEF Bodies, Gone
    <2> QED BY <2>1 DEF Init
  <1>6. rawBytes = Worth(Raws, RawId)
    <2>1. Worth(Raws, RawId) = 0
      BY <1>3, WorthNothing DEF Raws
    <2> QED BY <2>1 DEF Init
  <1>7. ASSUME NEW id \in RawId
        PROVE  Known(id) = 0
    <2>1. RowOwners(id) = {} /\ PinOwners(id) = {} /\ GoneOwners(id) = {}
      BY <1>1, <1>2 DEF RowOwners, PinOwners, GoneOwners
    <2> QED BY <2>1, FS_EmptySet DEF Known
  <1>8. OwnedInv
    BY <1>3, <1>7 DEF OwnedInv, Init, FaultT
  <1> QED BY <1>4, <1>5, <1>6, <1>8 DEF BooksInv, LedgerInv

(* The charges hold from the first state on. *)
THEOREM BooksHold == Spec => [](Inv /\ BooksInv /\ ReservedInv /\ UnfailedInv)
  <1> DEFINE G == Inv /\ BooksInv /\ ReservedInv /\ UnfailedInv
  <1>1. Init => G
    BY InitInv, InitBooks, InitReserves, InitUnfailed
  <1>2. G /\ [Next]_allVars => G'
    BY NextKeeps, NextBooks, NextReserves, NextUnfailed DEF BooksInv
  <1> QED BY <1>1, <1>2, PTL DEF Spec

LEMMA BooksBalance ==
    ASSUME BooksInv, ReservedInv
    PROVE  Accounts
  <1> DEFINE body(k) == rows[k].body
             gone(t) == loc[t].gone
             raw(id) == RawSize[KeyOf(id)]
             bytes(p) == permits[p].bytes
             charged == {id \in RawId : raws[id].charged}
  <1>1. Sum(body, Key) = Worth(Bodies, Key) /\ Sum(gone, Thread) = Worth(Gone, Thread)
    BY DEF Sum, Worth, Units, Bodies, Gone
  <1>2. UNION {{x} \X (1 .. raw(x)) : x \in charged} = Units(Raws, RawId)
    <2>1. 1 .. 0 = {}
      OBVIOUS
    <2> QED BY <2>1 DEF Units, Raws
  <1>3. Sum(raw, charged) = Worth(Raws, RawId)
    BY <1>2 DEF Sum, Worth
  <1>4. UNION {{x} \X (1 .. bytes(x)) : x \in Live} = Units(Bytes, PermitId)
    <2>1. 1 .. 0 = {}
      OBVIOUS
    <2> QED BY <2>1 DEF Units, Bytes, Live, ReservedInv
  <1>5. Sum(bytes, Live) = Worth(Bytes, PermitId)
    BY <1>4 DEF Sum, Worth
  <1> QED BY <1>1, <1>3, <1>5 DEF Accounts, BooksInv, LedgerInv, ReservedInv

(* The running sums of the ledger are the charges they stand for, in       *)
(* every state: no charge is lost, doubled or left behind.                 *)
THEOREM AccountsHolds == Spec => []Accounts
  <1>1. Inv /\ BooksInv /\ ReservedInv => Accounts
    BY BooksBalance
  <1> QED BY <1>1, BooksHold, PTL

(* Whichever loads fail, every owner the raw table counts is a charged     *)
(* row, a raw pin, one of the two on its way out, or an owner that the     *)
(* finish of a failed call left without a charge (ledger.rs finish_call,   *)
(* add_raw, release_raw): none is lost, and none is counted twice.  Before *)
(* the first failure there are no owners of the last kind.                 *)
THEOREM OwnersCountedHolds == Spec => []OwnersCounted
  <1>1. BooksInv /\ UnfailedInv => OwnersCounted
    <2>1. ASSUME BooksInv, NEW id \in RawId
          PROVE  raws[id].owners = Known(id) + faults.strays[id]
      BY <2>1 DEF BooksInv, LedgerInv, OwnedInv
    <2> QED BY <2>1 DEF UnfailedInv, OwnersCounted, Known, RowOwners, PinOwners, GoneOwners
  <1> QED BY <1>1, BooksHold, PTL

-----------------------------------------------------------------------------
(* The recency list and what the host keeps                                *)

(* Unlinking one version leaves every other one listed. *)
LEMMA Unlinked ==
    ASSUME NEW list \in Seq(Key), NEW k
    PROVE  /\ Unlink(list, k) \in Seq(Key)
           /\ \A j : j # k /\ Listed(list, j) => Listed(Unlink(list, k), j)
  <1>1. CASE ~Listed(list, k)
    BY <1>1 DEF Unlink
  <1>2. CASE Listed(list, k)
    <2> DEFINE i == CHOOSE j \in 1..Len(list) : list[j] = k
               a == SubSeq(list, 1, i - 1)
               b == SubSeq(list, i + 1, Len(list))
    <2>1. i \in 1..Len(list) /\ list[i] = k
      BY <1>2 DEF Listed
    <2>2. Unlink(list, k) = a \o b
      BY <1>2 DEF Unlink
    <2> HIDE DEF i
    <2>3. Len(list) \in Nat /\ i \in Nat /\ i >= 1 /\ i <= Len(list)
      BY <2>1
    <2>4. a \in Seq(Key) /\ Len(a) = i - 1 /\ \A j \in 1..(i - 1) : a[j] = list[j]
      BY <2>3
    <2>5. /\ b \in Seq(Key) /\ Len(b) = Len(list) - i
          /\ \A j \in 1..(Len(list) - i) : b[j] = list[i + j]
      BY <2>3
    <2> HIDE DEF a, b
    <2>6. /\ a \o b \in Seq(Key) /\ Len(a \o b) = Len(list) - 1
          /\ \A j \in 1..(i - 1) : (a \o b)[j] = list[j]
          /\ \A j \in i..(Len(list) - 1) : (a \o b)[j] = list[j + 1]
      <3>1. Len(a) \in Nat /\ Len(b) \in Nat
        BY <2>3, <2>4, <2>5
      <3>2. a \in Seq(Key) /\ b \in Seq(Key)
        BY <2>4, <2>5
      <3>3. a \o b \in Seq(Key) /\ Len(a \o b) = Len(a) + Len(b)
        BY <3>2, ConcatProperties
      <3>4. \A j \in 1..(Len(a) + Len(b)) :
                (a \o b)[j] = IF j <= Len(a) THEN a[j] ELSE b[j - Len(a)]
        BY <3>2, ConcatProperties
      <3>5. ASSUME NEW j \in 1..(i - 1)
            PROVE  (a \o b)[j] = list[j]
        <4>1. j \in 1..(Len(a) + Len(b)) /\ j <= Len(a)
          BY <2>3, <2>4, <2>5
        <4> QED BY <2>4, <3>4, <4>1
      <3>6. ASSUME NEW j \in i..(Len(list) - 1)
            PROVE  (a \o b)[j] = list[j + 1]
        <4>1. j \in 1..(Len(a) + Len(b)) /\ ~(j <= Len(a))
          BY <2>3, <2>4, <2>5
        <4>2. (a \o b)[j] = b[j - Len(a)]
          BY <3>4, <4>1
        <4>3. j - Len(a) \in 1..(Len(list) - i) /\ i + (j - Len(a)) = j + 1
          BY <2>3, <2>4
        <4> QED BY <2>5, <4>2, <4>3
      <3>7. Len(a) + Len(b) = Len(list) - 1
        BY <2>3, <2>4, <2>5
      <3> QED BY <3>3, <3>5, <3>6, <3>7
    <2>7. ASSUME NEW j, j # k, Listed(list, j)
          PROVE  Listed(a \o b, j)
      <3>1. PICK n \in 1..Len(list) : list[n] = j
        BY <2>7 DEF Listed
      <3>2. CASE n < i
        <4>1. n \in 1..Len(a \o b) /\ (a \o b)[n] = j
          BY <2>3, <2>6, <3>1, <3>2
        <4> QED BY <4>1 DEF Listed
      <3>3. CASE n > i
        <4>1. n - 1 \in 1..Len(a \o b) /\ n - 1 \in i..(Len(list) - 1) /\ n - 1 + 1 = n
          BY <2>3, <2>6, <3>1, <3>3
        <4>2. (a \o b)[n - 1] = j
          BY <2>6, <3>1, <4>1
        <4> QED BY <4>1, <4>2 DEF Listed
      <3>4. n # i
        BY <2>1, <2>7, <3>1
      <3> QED BY <2>3, <3>1, <3>2, <3>3, <3>4
    <2> QED BY <2>2, <2>6, <2>7
  <1> QED BY <1>1, <1>2

LEMMA Linked ==
    ASSUME NEW list \in Seq(Key), NEW k \in Key, NEW access
    PROVE  /\ Link(list, k, access) \in Seq(Key) /\ Listed(Link(list, k, access), k)
           /\ \A j : Listed(list, j) => Listed(Link(list, k, access), j)
  <1>1. CASE access = "Read"
    <2> DEFINE u == Unlink(list, k)
    <2>1. u \in Seq(Key) /\ \A j : j # k /\ Listed(list, j) => Listed(u, j)
      BY Unlinked
    <2>2. Link(list, k, access) = Append(u, k)
      BY <1>1 DEF Link
    <2> HIDE DEF u
    <2>3. /\ Append(u, k) \in Seq(Key) /\ Len(u) \in Nat /\ Len(Append(u, k)) = Len(u) + 1
          /\ Append(u, k)[Len(u) + 1] = k
          /\ \A n \in 1..Len(u) : Append(u, k)[n] = u[n]
      BY <2>1
    <2>4. Listed(Append(u, k), k)
      BY <2>3 DEF Listed
    <2>5. ASSUME NEW j, Listed(u, j)
          PROVE  Listed(Append(u, k), j)
      <3>1. PICK n \in 1..Len(u) : u[n] = j
        BY <2>5 DEF Listed
      <3>2. n \in 1..Len(Append(u, k)) /\ Append(u, k)[n] = j
        BY <2>3, <3>1
      <3> QED BY <3>2 DEF Listed
    <2> QED BY <2>1, <2>2, <2>3, <2>4, <2>5
  <1>2. CASE access # "Read" /\ Listed(list, k)
    BY <1>2 DEF Link
  <1>3. CASE access # "Read" /\ ~Listed(list, k)
    <2> DEFINE u == <<k>> \o list
    <2>1. Link(list, k, access) = u
      BY <1>3 DEF Link
    <2>2. /\ u \in Seq(Key) /\ Len(list) \in Nat /\ Len(u) = Len(list) + 1 /\ u[1] = k
          /\ \A n \in 1..Len(list) : u[n + 1] = list[n]
      OBVIOUS
    <2> HIDE DEF u
    <2>3. Listed(u, k)
      BY <2>2 DEF Listed
    <2>4. ASSUME NEW j, Listed(list, j)
          PROVE  Listed(u, j)
      <3>1. PICK n \in 1..Len(list) : list[n] = j
        BY <2>4 DEF Listed
      <3>2. n + 1 \in 1..Len(u) /\ u[n + 1] = j
        BY <2>2, <3>1
      <3> QED BY <3>2 DEF Listed
    <2> QED BY <2>1, <2>2, <2>3, <2>4
  <1> QED BY <1>1, <1>2, <1>3

(* A charged body that nobody retires is in the recency list, and a called *)
(* version too: a trim or an admission finds it there whenever it is idle, *)
(* whatever calls and retirements relinked it (ledger.rs link, unlink).    *)
Findable ==
    \A k \in Key : rows[k].calls # 0 \/ (rows[k].body # 0 /\ ~rows[k].retiring)
                      => Listed(lru, k)

(* A version that a trim or an admission has to find in the recency list.  *)
Wanted(r) == r.calls # 0 \/ (r.body # 0 /\ ~r.retiring)
ListedInv == lru \in Seq(Key) /\ Findable

LEMMA SameListing ==
    ASSUME ListedInv, lru' = lru, \A k \in Key : Wanted(rows'[k]) => Wanted(rows[k])
    PROVE  ListedInv'
  BY DEF ListedInv, Findable, Wanted

LEMMA StillListed ==
    ASSUME ListedInv, UNCHANGED <<rows, lru>>
    PROVE  ListedInv'
  BY SameListing

(* What the recency list does not read of a row. *)
LEMMA UnreadByList ==
    ASSUME TypedInv, NEW k, NEW x,
           \/ rows' = [rows EXCEPT ![k].wave = x]
           \/ rows' = [rows EXCEPT ![k].refs = x]
           \/ rows' = [rows EXCEPT ![k].pins = x]
    PROVE  \A j \in Key : Wanted(rows'[j]) => Wanted(rows[j])
  <1> SUFFICES ASSUME NEW j \in Key
               PROVE  Wanted(rows'[j]) => Wanted(rows[j])
    OBVIOUS
  <1>1. rows \in [Key -> RowT] /\ rows[j] \in RowT
    BY DEF TypedInv
  <1>2. /\ rows'[j].calls = rows[j].calls /\ rows'[j].body = rows[j].body
        /\ rows'[j].retiring = rows[j].retiring
    BY <1>1 DEF RowT
  <1> QED BY <1>2 DEF Wanted

LEMMA ReleasedListed ==
    ASSUME ListedInv, TypedInv, NEW p, ReleasePermit(p), UNCHANGED lru
    PROVE  ListedInv'
  <1> DEFINE k == permits[p].member
  <1>1. CASE rows' = rows
    BY <1>1, StillListed
  <1>2. CASE rows' = [rows EXCEPT ![k].wave = NoPermit]
    <2>1. \A j \in Key : Wanted(rows'[j]) => Wanted(rows[j])
      BY <1>2, UnreadByList
    <2> QED BY <2>1, SameListing
  <1> QED BY <1>1, <1>2 DEF ReleasePermit

LEMMA BeginListed ==
    ASSUME Inv, ListedInv, NEW t \in Thread,
           \/ BeginRetiring(t) \/ BeginExhausted(t) \/ BeginStale(t) \/ BeginSettling(t)
           \/ BeginAdmission(t) \/ PrepareJoin(t)
    PROVE  ListedInv'
  <1>1. UNCHANGED <<rows, lru>>
    BY DEF BeginRetiring, BeginExhausted, BeginStale, BeginSettling, BeginAdmission, PrepareJoin,
           RefuseBegin, ledgerVars
  <1> QED BY <1>1, StillListed

LEMMA EnterListed ==
    ASSUME Inv, ListedInv, NEW t \in Thread, Enter(t)
    PROVE  ListedInv'
  <1> DEFINE k == loc[t].key
             x == IF NeedsWave(k) THEN loc[t].spare ELSE rows[k].wave
  <1>1. rows \in [Key -> RowT] /\ lru \in Seq(Key)
    BY DEF Inv, TypedInv, ListedInv
  <1>2. k \in Key
    <2>1. pc[t] = "begin" /\ Place(pc[t], loc[t]) /\ loc[t] \in Local
      BY DEF Enter, Startable, Beginning, Inv, Placed, TypedInv
    <2> QED BY <2>1 DEF Place, Aim, Trims, Local
  <1>3. /\ rows' = [rows EXCEPT ![k].calls = @ + 1, ![k].refs = @ + 1, ![k].wave = x]
        /\ lru' = Link(lru, k, loc[t].access)
    BY DEF Enter
  <1> HIDE DEF k, x
  <1>4. /\ lru' \in Seq(Key) /\ Listed(lru', k)
        /\ \A j : Listed(lru, j) => Listed(lru', j)
    BY <1>1, <1>2, <1>3, Linked
  <1>5. \A j \in Key : j # k => rows'[j] = rows[j]
    BY <1>1, <1>3
  <1> QED BY <1>4, <1>5 DEF ListedInv, Findable

LEMMA DropSpareListed ==
    ASSUME Inv, ListedInv, NEW t \in Thread, DropSpare(t) \/ DropHolding(t) \/ DropCall(t)
    PROVE  ListedInv'
  <1>1. lru' = lru /\ (rows' = rows \/ \E p : ReleasePermit(p))
    BY DEF DropSpare, DropHolding, DropCall
  <1>2. TypedInv
    BY DEF Inv
  <1> QED BY <1>1, <1>2, ReleasedListed, StillListed

LEMMA AdmitListed ==
    ASSUME Inv, ListedInv, NEW t \in Thread, AdmitStep(t)
    PROVE  ListedInv'
  <1>1. CASE AdmitOpen(t)
    <2> DEFINE k == loc[t].key
               p == CHOOSE q \in PermitId \ Live : TRUE
    <2>1. lru' = lru /\ (rows' = rows \/ rows' = [rows EXCEPT ![k].wave = p])
      BY <1>1 DEF AdmitOpen
    <2> HIDE DEF k, p
    <2>2. CASE rows' = rows
      BY <2>1, <2>2, StillListed
    <2>3. CASE rows' = [rows EXCEPT ![k].wave = p]
      <3>1. TypedInv
        BY DEF Inv
      <3>2. \A j \in Key : Wanted(rows'[j]) => Wanted(rows[j])
        BY <2>3, <3>1, UnreadByList
      <3> QED BY <2>1, <3>2, SameListing
    <2> QED BY <2>1, <2>2, <2>3
  <1>2. CASE ~AdmitOpen(t)
    <2>1. UNCHANGED <<rows, lru>>
      BY <1>2 DEF AdmitStep, AdmitRetiring, AdmitJoin, AdmitHot, AdmitPaused, AdmitKeptOut,
         AdmitRefusedOversized, AdmitOccupied, AdmitReclaim, Unowe, Refused
    <2> QED BY <2>1, StillListed
  <1> QED BY <1>1, <1>2

LEMMA SelectVictimListed ==
    ASSUME Inv, ListedInv, NEW t \in Thread, SelectVictim(t)
    PROVE  ListedInv'
  <1>1. PICK v \in Victims(loc[t].mode) :
            rows' = [rows EXCEPT ![v].retiring = TRUE] /\ lru' = Unlink(lru, v)
    BY DEF SelectVictim
  <1>2. v \in Key /\ Idle(v)
    BY <1>1 DEF Victims, Oldest, Ticketed
  <1>3. rows \in [Key -> RowT] /\ rows[v] \in RowT /\ lru \in Seq(Key)
    BY <1>2 DEF Inv, TypedInv, ListedInv
  <1>4. lru' \in Seq(Key) /\ \A j : j # v /\ Listed(lru, j) => Listed(lru', j)
    BY <1>1, <1>3, Unlinked
  <1>5. rows'[v].calls = 0 /\ rows'[v].retiring = TRUE
    BY <1>1, <1>2, <1>3 DEF RowT, Idle
  <1>6. \A j \in Key : j # v => rows'[j] = rows[j]
    BY <1>1, <1>3
  <1> QED BY <1>4, <1>5, <1>6 DEF ListedInv, Findable

LEMMA RetireListed ==
    ASSUME Inv, ListedInv, NEW t \in Thread,
           \/ SelectNone(t) \/ Shed(t) \/ CollectNothing(t) \/ DropRow(t) \/ ReleaseDetached(t)
    PROVE  ListedInv'
  <1>1. UNCHANGED <<rows, lru>>
    BY DEF SelectNone, Shed, CollectNothing, DropRow, ReleaseDetached, ledgerVars
  <1> QED BY <1>1, StillListed

LEMMA SettleListed ==
    ASSUME Inv, ListedInv, NEW t \in Thread, Settle(t)
    PROVE  ListedInv'
  <1>1. PICK v : v = loc[t].victim
    OBVIOUS
  <1>2. v \in Key
    <2>1. pc[t] = "settle" /\ Place(pc[t], loc[t]) /\ loc[t] \in Local
      BY DEF Settle, Inv, Placed, TypedInv
    <2> QED BY <1>1, <2>1 DEF Place, Trims, Local
  <1>3. rows \in [Key -> RowT] /\ rows[v] \in RowT /\ lru \in Seq(Key)
    BY <1>2 DEF Inv, TypedInv, ListedInv
  <1>4. \A j \in Key : j # v => rows'[j] = rows[j]
    BY <1>1, <1>3 DEF Settle
  <1>5. CASE slot[v].phase = "Cold"
    <2>1. /\ rows' = [rows EXCEPT ![v].retiring = FALSE, ![v].body = 0, ![v].forced = FALSE]
          /\ lru' = lru
      BY <1>1, <1>5 DEF Settle
    <2>2. rows'[v].calls = rows[v].calls /\ rows'[v].body = 0
      BY <1>2, <1>3, <2>1 DEF RowT
    <2>3. \A j \in Key : Wanted(rows'[j]) => Wanted(rows[j])
      BY <1>4, <2>2 DEF Wanted
    <2> QED BY <2>1, <2>3, SameListing
  <1>6. CASE slot[v].phase # "Cold"
    <2>1. lru' = Link(lru, v, "Scan")
      BY <1>1, <1>6 DEF Settle
    <2>2. /\ lru' \in Seq(Key) /\ Listed(lru', v)
          /\ \A j : Listed(lru, j) => Listed(lru', j)
      BY <1>2, <1>3, <2>1, Linked
    <2> QED BY <1>4, <2>2 DEF ListedInv, Findable
  <1> QED BY <1>5, <1>6

LEMMA CollectListed ==
    ASSUME Inv, ListedInv, NEW t \in Thread, Collect(t)
    PROVE  ListedInv'
  <1>1. PICK v : v = loc[t].victim
    OBVIOUS
  <1>2. v \in Key
    <2>1. pc[t] = "collect" /\ Place(pc[t], loc[t]) /\ loc[t] \in Local
      BY DEF Collect, Inv, Placed, TypedInv
    <2> QED BY <1>1, <2>1 DEF Place, Trims, Local
  <1>3. rows \in [Key -> RowT] /\ lru \in Seq(Key)
    BY DEF Inv, TypedInv, ListedInv
  <1>4. rows' = [rows EXCEPT ![v] = Absent] /\ lru' = Unlink(lru, v)
    BY <1>1 DEF Collect
  <1>5. lru' \in Seq(Key) /\ \A j : j # v /\ Listed(lru, j) => Listed(lru', j)
    BY <1>3, <1>4, Unlinked
  <1>6. rows'[v].calls = 0 /\ rows'[v].body = 0 /\ \A j \in Key : j # v => rows'[j] = rows[j]
    BY <1>2, <1>3, <1>4 DEF Absent
  <1> QED BY <1>5, <1>6 DEF ListedInv, Findable

LEMMA LearnListed ==
    ASSUME Inv, ListedInv, NEW t \in Thread, Learn(t)
    PROVE  ListedInv'
  <1> DEFINE k == loc[t].key
             n == Max({rows[k].learned, Observed(k)})
  <1>1. rows \in [Key -> RowT] /\ lru' = lru
    BY DEF Inv, TypedInv, Learn
  <1>2. rows' = [rows EXCEPT ![k].learned = n, ![k].forced = TRUE]
    BY DEF Learn
  <1> HIDE DEF k, n
  <1>3. \A j \in Key : /\ rows'[j].calls = rows[j].calls /\ rows'[j].body = rows[j].body
                       /\ rows'[j].retiring = rows[j].retiring
    BY <1>1, <1>2 DEF RowT
  <1>4. \A j \in Key : Wanted(rows'[j]) => Wanted(rows[j])
    BY <1>3 DEF Wanted
  <1> QED BY <1>1, <1>4, SameListing

(* A finishing caller's version is listed by its own call. *)
LEMMA CallerListed ==
    ASSUME Inv, ListedInv, NEW t \in Thread, Calling(loc[t])
    PROVE  loc[t].key \in Key => /\ rows[loc[t].key].calls >= 1
                                 /\ Wanted(rows[loc[t].key]) /\ Listed(lru, loc[t].key)
  <1> SUFFICES ASSUME loc[t].key \in Key
               PROVE  /\ rows[loc[t].key].calls >= 1
                      /\ Wanted(rows[loc[t].key]) /\ Listed(lru, loc[t].key)
    OBVIOUS
  <1>1. InCall(t, loc[t].key)
    BY DEF InCall, Calling
  <1>2. rows[loc[t].key].calls >= 1 /\ rows[loc[t].key].calls \in Int
    BY <1>1, CallCounts DEF Inv, TypedInv, RowT
  <1> QED BY <1>2 DEF ListedInv, Findable, Wanted

LEMMA FinishHotListed ==
    ASSUME Inv, ListedInv, NEW t \in Thread, FinishPin(t) \/ FinishOverrun(t)
    PROVE  ListedInv'
  <1>1. PICK k : k = loc[t].key
    OBVIOUS
  <1>2. Calling(loc[t]) /\ k \in Key
    BY <1>1, LocalRecord DEF FinishPin, FinishOverrun, Resolving, Place, Aim, Trims, Calling, Local
  <1>3. Listed(lru, k)
    BY <1>1, <1>2, CallerListed
  <1>4. rows \in [Key -> RowT] /\ lru' = lru
    BY DEF Inv, TypedInv, FinishPin, FinishOverrun, FinishHot
  <1>5. \A j \in Key : j # k => rows'[j] = rows[j]
    BY <1>1, <1>4 DEF FinishPin, FinishOverrun, FinishHot
  <1> QED BY <1>3, <1>4, <1>5 DEF ListedInv, Findable

LEMMA FinishFailListed ==
    ASSUME Inv, ListedInv, NEW t \in Thread, FinishFail(t)
    PROVE  ListedInv'
  <1>1. PICK k : k = loc[t].key
    OBVIOUS
  <1>2. Calling(loc[t]) /\ k \in Key
    BY <1>1, LocalRecord DEF FinishFail, Place, Aim, Trims, Calling, Local
  <1>3. Listed(lru, k)
    BY <1>1, <1>2, CallerListed
  <1>4. rows \in [Key -> RowT] /\ rows[k] \in RowT /\ lru \in Seq(Key)
    BY <1>2 DEF Inv, TypedInv, ListedInv
  <1> DEFINE first == loc[t].raw # NoRaw /\ rows[k].body = 0
             body == IF first /\ loc[t].snap = "Hot" THEN TreeSize[k] ELSE 0
             last == rows[k].calls = 1
             cold == last /\ rows[k].body + body = 0
             r == IF first THEN loc[t].raw ELSE rows[k].raw
             w == IF last THEN NoPermit ELSE rows[k].wave
  <1>5. /\ rows' = [rows EXCEPT ![k].raw = r, ![k].body = @ + body, ![k].calls = @ - 1,
                                ![k].wave = w]
        /\ lru' = IF cold THEN Unlink(lru, k) ELSE lru
    BY <1>1 DEF FinishFail
  <1> HIDE DEF first, body, r, w
  <1>6. /\ rows'[k].calls = rows[k].calls - 1 /\ rows'[k].body = rows[k].body + body
        /\ \A j \in Key : j # k => rows'[j] = rows[j]
    BY <1>2, <1>4, <1>5 DEF RowT
  <1>7. CASE cold
    <2>1. lru' \in Seq(Key) /\ \A j : j # k /\ Listed(lru, j) => Listed(lru', j)
      BY <1>4, <1>5, <1>7, Unlinked
    <2>2. rows'[k].calls = 0 /\ rows'[k].body = 0
      BY <1>6, <1>7
    <2> QED BY <1>6, <2>1, <2>2 DEF ListedInv, Findable
  <1>8. CASE ~cold
    <2>1. lru' = lru
      BY <1>5, <1>8
    <2> QED BY <1>3, <1>4, <1>6, <2>1 DEF ListedInv, Findable
  <1> QED BY <1>7, <1>8

LEMMA CallListed ==
    ASSUME Inv, ListedInv, NEW t \in Thread,
           \/ LoadOk(t) \/ LoadFail(t) \/ DropBody(t) \/ FailSnapshot(t) \/ FailRaw(t)
           \/ DropRawLedger(t)
    PROVE  ListedInv'
  <1>1. UNCHANGED <<rows, lru>>
    BY DEF LoadOk, LoadFail, DropBody, FailSnapshot, FailRaw, DropRawLedger, ledgerVars
  <1> QED BY <1>1, StillListed

LEMMA UncountedListed ==
    ASSUME Inv, ListedInv, NEW t \in Thread, DropMember(t) \/ UnpinLedger(t)
    PROVE  ListedInv'
  <1>1. TypedInv /\ lru' = lru
    BY DEF Inv, DropMember, UnpinLedger
  <1>2. \/ \E k, x : rows' = [rows EXCEPT ![k].refs = x]
        \/ \E k, x : rows' = [rows EXCEPT ![k].pins = x]
    BY DEF DropMember, UnpinLedger
  <1>3. \A j \in Key : Wanted(rows'[j]) => Wanted(rows[j])
    BY <1>1, <1>2, UnreadByList
  <1> QED BY <1>1, <1>3, SameListing

LEMMA RetainListed ==
    ASSUME Inv, ListedInv, NEW t \in Thread, NEW k \in Key, Retain(t, k)
    PROVE  ListedInv'
  <1>1. TypedInv /\ lru' = lru /\ rows \in [Key -> RowT]
    BY DEF Inv, TypedInv, Retain
  <1>2. CASE rows[k].present
    <2>1. \E x : rows' = [rows EXCEPT ![k].refs = x]
      BY <1>2 DEF Retain
    <2>2. \A j \in Key : Wanted(rows'[j]) => Wanted(rows[j])
      BY <1>1, <2>1, UnreadByList
    <2> QED BY <1>1, <2>2, SameListing
  <1>3. CASE ~rows[k].present
    <2>1. rows' = [rows EXCEPT ![k] = NewRow]
      BY <1>3 DEF Retain
    <2>2. /\ rows'[k].calls = 0 /\ rows'[k].body = 0
          /\ \A j \in Key : j # k => rows'[j] = rows[j]
      BY <1>1, <2>1 DEF NewRow, Absent
    <2>3. \A j \in Key : Wanted(rows'[j]) => Wanted(rows[j])
      BY <2>2 DEF Wanted
    <2> QED BY <1>1, <2>3, SameListing
  <1> QED BY <1>2, <1>3

LEMMA NextListed ==
    ASSUME Inv, ListedInv, [Next]_allVars
    PROVE  ListedInv'
  <1>1. CASE UNCHANGED allVars
    BY <1>1, StillListed DEF allVars, vars, ledgerVars
  <1>2. CASE Passage
    <2>1. UNCHANGED <<rows, lru>>
      BY <1>2 DEF Passage, PatienceEnds, WaitingExpires, OwedExpires, Census, ledgerVars
    <2> QED BY <2>1, StillListed
  <1>3. ASSUME NEW t \in Thread, Step(t)
        PROVE  ListedInv'
    <2>1. CASE BeginStep(t)
      BY <2>1, BeginListed, EnterListed, DropSpareListed DEF BeginStep
    <2>2. CASE AdmitStep(t)
      BY <2>2, AdmitListed
    <2>3. CASE RetireStep(t)
      BY <2>3, SelectVictimListed, RetireListed, SettleListed, CollectListed DEF RetireStep
    <2>4. CASE CallStep(t)
      BY <2>4, LearnListed, FinishHotListed, FinishFailListed, CallListed, UncountedListed,
         DropSpareListed DEF CallStep
    <2>5. CASE LeaseStep(t)
      <3>1. UNCHANGED <<rows, lru>>
        BY <2>5 DEF LeaseStep, Poll, Unpause, RetryPause, Leave, Again, ledgerVars
      <3> QED BY <3>1, StillListed
    <2> QED BY <1>3, <2>1, <2>2, <2>3, <2>4, <2>5 DEF Step
  <1>4. ASSUME NEW t \in Thread, ClientStart(t)
        PROVE  ListedInv'
    <2>1. UNCHANGED <<rows, lru>>
      BY <1>4 DEF ClientStart, Unpin, TakeRaw, Lease, DropRaw, ledgerVars
    <2> QED BY <2>1, StillListed
  <1>5. ASSUME NEW t \in Thread, HostStart(t)
        PROVE  ListedInv'
    <2>1. CASE \E k \in Key : Retain(t, k)
      BY <2>1, RetainListed
    <2>2. CASE ~\E k \in Key : Retain(t, k)
      <3>1. UNCHANGED <<rows, lru>>
        BY <1>5, <2>2 DEF HostStart, Reserve, DropGeneration, SetLimit, SetFloor, ledgerVars
      <3> QED BY <3>1, StillListed
    <2> QED BY <2>1, <2>2
  <1> QED BY <1>1, <1>2, <1>3, <1>4, <1>5 DEF Next

LEMMA InitListed == Init => ListedInv
  <1>1. <<>> \in Seq(Key)
    OBVIOUS
  <1>2. Init => \A k \in Key : rows[k].calls = 0 /\ rows[k].body = 0
    <2>1. NewRow.calls = 0 /\ NewRow.body = 0
      BY DEF NewRow, Absent
    <2> QED BY <2>1 DEF Init
  <1>3. Init => lru = <<>>
    BY DEF Init
  <1> QED BY <1>1, <1>2, <1>3 DEF ListedInv, Findable

(* A version that a trim or an admission has to find is in the recency     *)
(* list, whatever calls, retirements and failures relinked it.             *)
THEOREM FindableHolds == Spec => []Findable
  <1>1. Init => Inv /\ ListedInv
    BY InitInv, InitListed
  <1>2. Inv /\ ListedInv /\ [Next]_allVars => (Inv /\ ListedInv)'
    BY NextKeeps, NextListed
  <1>3. ListedInv => Findable
    BY DEF ListedInv
  <1> QED BY <1>1, <1>2, <1>3, PTL DEF Spec

-----------------------------------------------------------------------------
(* What is left of the types                                               *)

FlagsInv ==
    /\ transient \in Key \cup {NoKey} /\ waiting \in Key \cup {NoKey} /\ owed \subseteq Key
    /\ limit \in Limits /\ floor \in Floors
    /\ mutex \in Thread \cup {NoThread}
    /\ generation \subseteq Key
    /\ faults \in [loads: 0..MaxFaults, strays: [RawId -> Nat]]

flagVars == <<transient, waiting, owed, limit, floor, mutex, generation, faults>>

LEMMA HolderTyped ==
    ASSUME FlagsInv
    PROVE  Holder \in Key \cup {NoKey}
  BY DEF Holder, FlagsInv

LEMMA ClearedTyped ==
    ASSUME ClearTransient \/ UNCHANGED transient, FlagsInv
    PROVE  transient' \in Key \cup {NoKey}
  BY DEF ClearTransient, FlagsInv

LEMMA BeginFlags ==
    ASSUME Inv, FlagsInv, NEW t \in Thread, BeginStep(t)
    PROVE  FlagsInv'
  <1>1. transient' \in Key \cup {NoKey}
    <2>1. ClearTransient \/ UNCHANGED transient
      BY DEF BeginStep, BeginRetiring, BeginExhausted, BeginStale, BeginSettling, BeginAdmission,
             Enter, PrepareJoin, DropSpare, RefuseBegin, ledgerVars
    <2> QED BY <2>1, ClearedTyped
  <1>2. UNCHANGED <<waiting, owed, limit, floor, generation, faults>>
    BY DEF BeginStep, BeginRetiring, BeginExhausted, BeginStale, BeginSettling, BeginAdmission,
           Enter, PrepareJoin, DropSpare, RefuseBegin, ledgerVars, hostVars
  <1>3. mutex' \in Thread \cup {NoThread}
    BY DEF BeginStep, BeginRetiring, BeginExhausted, BeginStale, BeginSettling, BeginAdmission,
           Enter, PrepareJoin, DropSpare, RefuseBegin, FlagsInv
  <1> QED BY <1>1, <1>2, <1>3 DEF FlagsInv

LEMMA AdmitFlags ==
    ASSUME Inv, FlagsInv, NEW t \in Thread, AdmitStep(t)
    PROVE  FlagsInv'
  <1>1. loc[t].key \in Key \cup {NoKey}
    BY DEF Inv, TypedInv, Local
  <1>2. transient' \in Key \cup {NoKey}
    <2>1. transient' \in {transient, Holder, loc[t].key}
      BY DEF AdmitStep, AdmitRetiring, AdmitJoin, AdmitHot, AdmitPaused, AdmitKeptOut,
             AdmitRefusedOversized, AdmitOccupied, AdmitOpen, AdmitReclaim, Unowe, Refused
    <2> QED BY <1>1, <2>1, HolderTyped DEF FlagsInv
  <1>3. waiting' \in {waiting, NoKey, loc[t].key}
    BY DEF AdmitStep, AdmitRetiring, AdmitJoin, AdmitHot, AdmitPaused, AdmitKeptOut,
           AdmitRefusedOversized, AdmitOccupied, AdmitOpen, AdmitReclaim, Unowe, Refused
  <1>4. owed' \subseteq Key
    <2>1. \/ owed' \subseteq owed
          \/ owed' = owed \cup {loc[t].key} /\ loc[t].key # NoKey
      BY DEF AdmitStep, AdmitRetiring, AdmitJoin, AdmitHot, AdmitPaused, AdmitKeptOut,
             AdmitRefusedOversized, AdmitOccupied, AdmitOpen, AdmitReclaim, Unowe, Refused
    <2> QED BY <1>1, <2>1 DEF FlagsInv
  <1>5. UNCHANGED <<limit, floor, generation, mutex, faults>>
    BY DEF AdmitStep, AdmitRetiring, AdmitJoin, AdmitHot, AdmitPaused, AdmitKeptOut,
           AdmitRefusedOversized, AdmitOccupied, AdmitOpen, AdmitReclaim, Unowe, Refused, hostVars
  <1> QED BY <1>1, <1>2, <1>3, <1>4, <1>5 DEF FlagsInv

LEMMA RetireFlags ==
    ASSUME Inv, FlagsInv, NEW t \in Thread, RetireStep(t)
    PROVE  FlagsInv'
  <1>1. /\ transient' = Holder \/ ClearTransient \/ UNCHANGED transient
        /\ waiting' = waiting /\ owed' = owed
    BY DEF RetireStep, SelectVictim, SelectNone, Shed, Settle, CollectNothing, Collect, DropRow,
           ReleaseDetached, ledgerVars
  <1>2. UNCHANGED <<limit, floor, generation, mutex, faults>>
    BY DEF RetireStep, SelectVictim, SelectNone, Shed, Settle, CollectNothing, Collect, DropRow,
           ReleaseDetached, hostVars
  <1>3. transient' \in Key \cup {NoKey}
    BY <1>1, HolderTyped, ClearedTyped
  <1> QED BY <1>1, <1>2, <1>3 DEF FlagsInv

LEMMA CallFlags ==
    ASSUME Inv, FlagsInv, NEW t \in Thread, CallStep(t)
    PROVE  FlagsInv'
  <1>1. (ClearTransient \/ UNCHANGED transient) /\ waiting' = waiting /\ owed' = owed
    BY DEF CallStep, LoadOk, LoadFail, Learn, FinishPin, FinishOverrun, FinishHot, DropBody,
           FailSnapshot, FailRaw, FinishFail, DropCall, DropMember, DropHolding, UnpinLedger,
           DropRawLedger, ledgerVars
  <1>2. UNCHANGED <<limit, floor, generation, mutex>>
    BY DEF CallStep, LoadOk, LoadFail, Learn, FinishPin, FinishOverrun, FinishHot, DropBody,
           FailSnapshot, FailRaw, FinishFail, DropCall, DropMember, DropHolding, UnpinLedger,
           DropRawLedger, hostVars
  <1>3. \/ faults' = faults
        \/ faults.loads < MaxFaults /\ faults' = [faults EXCEPT !.loads = @ + 1]
        \/ \E id : faults' = [faults EXCEPT !.strays[id] = @ + 1]
    BY DEF CallStep, LoadOk, LoadFail, Learn, FinishPin, FinishOverrun, FinishHot, DropBody,
           FailSnapshot, FailRaw, FinishFail, DropCall, DropMember, DropHolding, UnpinLedger,
           DropRawLedger
  <1>4. faults' \in [loads: 0..MaxFaults, strays: [RawId -> Nat]]
    BY <1>3, BoundsAssumption DEF FlagsInv
  <1>5. transient' \in Key \cup {NoKey}
    BY <1>1, ClearedTyped
  <1> QED BY <1>1, <1>2, <1>4, <1>5 DEF FlagsInv

LEMMA HostFlags ==
    ASSUME Inv, FlagsInv, NEW t \in Thread, HostStart(t)
    PROVE  FlagsInv'
  <1>1. /\ ClearTransient \/ UNCHANGED transient
        /\ UNCHANGED <<waiting, owed, mutex, faults>>
    BY DEF HostStart, Reserve, DropGeneration, Retain, SetLimit, SetFloor, ledgerVars
  <1>2. limit' \in Limits /\ floor' \in Floors /\ generation' \subseteq Key
    BY DEF HostStart, Reserve, DropGeneration, Retain, SetLimit, SetFloor, hostVars, FlagsInv
  <1>3. transient' \in Key \cup {NoKey}
    BY <1>1, ClearedTyped
  <1> QED BY <1>1, <1>2, <1>3 DEF FlagsInv

LEMMA NextFlags ==
    ASSUME Inv, FlagsInv, [Next]_allVars
    PROVE  FlagsInv'
  <1>1. CASE UNCHANGED allVars
    BY <1>1 DEF allVars, vars, ledgerVars, hostVars, FlagsInv
  <1>2. CASE Passage
    <2>1. /\ ClearTransient \/ UNCHANGED transient
          /\ UNCHANGED <<limit, floor, generation, mutex, faults>>
          /\ waiting' \in {waiting, NoKey} /\ owed' \subseteq owed
      BY <1>2 DEF Passage, PatienceEnds, WaitingExpires, OwedExpires, Census, ledgerVars, hostVars
    <2>2. transient' \in Key \cup {NoKey}
      BY <2>1, ClearedTyped
    <2> QED BY <2>1, <2>2 DEF FlagsInv
  <1>3. ASSUME NEW t \in Thread, LeaseStep(t) \/ ClientStart(t)
        PROVE  FlagsInv'
    <2>1. UNCHANGED flagVars
      BY <1>3 DEF LeaseStep, Poll, Unpause, RetryPause, Leave, Again, ClientStart, Unpin, TakeRaw,
         Lease, DropRaw, ledgerVars, hostVars, flagVars
    <2> QED BY <2>1 DEF FlagsInv, flagVars
  <1>4. ASSUME NEW t \in Thread, Step(t) \/ ClientStart(t) \/ HostStart(t)
        PROVE  FlagsInv'
    BY <1>3, <1>4, BeginFlags, AdmitFlags, RetireFlags, CallFlags, HostFlags DEF Step
  <1> QED BY <1>1, <1>2, <1>4 DEF Next

LEMMA InitFlags == Init => FlagsInv
  BY BoundsAssumption DEF Init, FlagsInv

LEMMA TypesFollow ==
    ASSUME Inv, BooksInv, ReservedInv, ListedInv, FlagsInv
    PROVE  TypeOK
  <1>1. \A k \in Key : /\ rows[k].refs \in Nat /\ rows[k].calls \in Nat /\ rows[k].pins \in Nat
    <2> SUFFICES ASSUME NEW k \in Key
                 PROVE  /\ rows[k].refs \in Nat /\ rows[k].calls \in Nat /\ rows[k].pins \in Nat
      OBVIOUS
    <2>1. /\ Cardinality(Callers(k)) \in Nat /\ Cardinality(Referrers(k)) \in Nat
          /\ Cardinality(Holders(k)) \in Nat /\ Cardinality(Unpinners(k)) \in Nat
      BY CountZero DEF Callers, Referrers, Holders, Unpinners
    <2>2. rows[k].calls \in Nat /\ rows[k].pins \in Nat
      BY <2>1 DEF Inv, LeasesCounted, Callers, Holders, Unpinners
    <2>3. rows[k].refs \in Nat
      BY <2>1 DEF Inv, RefsCounted
    <2> QED BY <2>2, <2>3
  <1>2. rows \in [Key -> Row]
    <2>1. \A k \in Key : rows[k] \in Row
      BY <1>1 DEF Inv, TypedInv, RowT, Row
    <2> QED BY <2>1 DEF Inv, TypedInv
  <1>3. \A p \in PermitId : permits[p].refs \in Nat
    BY RefsNatural DEF Inv
  <1>4. permits \in [PermitId -> Permit]
    <2>1. \A p \in PermitId : permits[p] \in Permit
      BY <1>3 DEF Inv, TypedInv, PermitT, Permit, ReservedInv
    <2> QED BY <2>1 DEF Inv, TypedInv
  <1>5. raws \in [RawId -> [charged: BOOLEAN, owners: Nat]]
    <2>1. ASSUME NEW id \in RawId
          PROVE  raws[id].owners \in Nat
      <3>1. IsFiniteSet(RowOwners(id)) /\ IsFiniteSet(PinOwners(id)) /\ IsFiniteSet(GoneOwners(id))
        BY FS_Subset, ResidencyAssumption DEF RowOwners, PinOwners, GoneOwners
      <3>2. Known(id) \in Nat
        BY <3>1, FS_CardinalityType DEF Known
      <3>3. raws[id].owners = Known(id) + faults.strays[id] /\ faults.strays[id] \in Nat
        BY DEF BooksInv, LedgerInv, OwnedInv, FaultT
      <3> QED BY <3>2, <3>3
    <2>2. \A id \in RawId : raws[id] \in [charged: BOOLEAN, owners: Nat]
      BY <2>1 DEF BooksInv, LedgerInv, OwnedInv, RawT
    <2> QED BY <2>2 DEF BooksInv, LedgerInv, OwnedInv
  <1>6. bodyBytes \in Nat
    <2>1. \A k \in Key : Bodies[k] \in Nat
      BY DEF Bodies, Inv, TypedInv, RowT
    <2>2. \A t \in Thread : Gone[t] \in Nat
      BY DEF Gone, Inv, TypedInv, Local
    <2>3. Worth(Bodies, Key) \in Nat /\ Worth(Gone, Thread) \in Nat
      BY <2>1, <2>2, WorthNat, ResidencyAssumption
    <2> QED BY <2>3 DEF BooksInv, LedgerInv
  <1>7. rawBytes \in Nat
    <2>1. \A id \in RawId : Raws[id] \in Nat
      BY ResidencyAssumption DEF Raws, RawId, KeyOf
    <2>2. Worth(Raws, RawId) \in Nat
      BY <2>1, WorthNat, RawIdFinite
    <2> QED BY <2>2 DEF BooksInv, LedgerInv
  <1>8. reservedBytes \in Nat
    <2>1. \A p \in PermitId : Bytes[p] \in Nat
      BY DEF Bytes, ReservedInv
    <2>2. Worth(Bytes, PermitId) \in Nat
      BY <2>1, WorthNat, ResidencyAssumption
    <2> QED BY <2>2 DEF ReservedInv
  <1>9. /\ lru \in Seq(Key) /\ canon \in [Key -> RawId \cup {NoRaw}] /\ slot \in [Key -> Slot]
        /\ pc \in [Thread -> Point] /\ loc \in [Thread -> Local]
        /\ held \in [Thread -> SUBSET Key] /\ rawHeld \in [Thread -> SUBSET RawId]
    BY DEF ListedInv, Inv, TypedInv, BooksInv, LedgerInv, OwnedInv
  <1> QED BY <1>2, <1>4, <1>5, <1>6, <1>7, <1>8, <1>9 DEF TypeOK, FlagsInv

(* Every variable keeps its type: no counter of the ledger, no reference   *)
(* and no running sum ever falls below zero, and no step leaves the list   *)
(* of places it may stand in.                                              *)
THEOREM TypeOKHolds == Spec => []TypeOK
  <1> DEFINE G == Inv /\ BooksInv /\ ReservedInv /\ UnfailedInv /\ ListedInv /\ FlagsInv
  <1>1. Init => G
    BY InitInv, InitBooks, InitReserves, InitUnfailed, InitListed, InitFlags
  <1>2. G /\ [Next]_allVars => G'
    BY NextKeeps, NextBooks, NextReserves, NextUnfailed, NextListed, NextFlags DEF BooksInv
  <1>3. G => TypeOK
    BY TypesFollow
  <1> QED BY <1>1, <1>2, <1>3, PTL DEF Spec
=============================================================================
