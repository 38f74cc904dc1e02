---------------------------- MODULE OverrunProofs ----------------------------
(***************************************************************************)
(* What an overrun leaves, for every finite set of versions, threads and   *)
(* reservation identities, and all sizes.                                  *)
(*                                                                         *)
(* A load whose body turns out larger than its reservation declared        *)
(* teaches the row what it needs and is tried once more (Learn,            *)
(* FinishOverrun).  RetryInv follows that lesson: the version of a retry   *)
(* stays in the catalog, so its row is not forgotten; a reservation of a   *)
(* retry declares what was observed, since begin neither enters a call nor *)
(* admits beside a load declared for less.  So the retry does not overrun. *)
(*                                                                         *)
(* And what a trim leaves.  RestInv: while something is over the limit and *)
(* could be taken, or an overrun's body lies unused, some thread stands    *)
(* where it will trim before it rests (TrimOwed).  A trim ends only when   *)
(* its selection finds nothing, which is nothing left, and a retirement it *)
(* began succeeds: the ticket taken at the selection still holds when the  *)
(* shed checks it (TicketInv), since a slot marked as retiring is found by *)
(* nobody else.                                                            *)
(***************************************************************************)
EXTENDS LedgerProofs, WellFoundedInduction

-----------------------------------------------------------------------------
(* What an overrun teaches is not forgotten                                *)

(* A row whose body no call uses has no join hint.                         *)
Hinted(k) == rows[k].calls = 0 /\ rows[k].body # 0 => rows[k].wave = NoPermit

(* A lease in its retry, or about to have one, keeps its version in the    *)
(* catalog, and the row knows the size observed.                           *)
Remembers(t) ==
    loc[t].again \/ pc[t] = "overrun" =>
        /\ loc[t].key \in Key /\ loc[t].key \in generation
        /\ rows[loc[t].key].learned >= Observed(loc[t].key)

(* The reservation of a retry declares that much. *)
Provided(t) ==
    loc[t].again /\ InCall(t, loc[t].key) /\ loc[t].res # NoPermit
        => permits[loc[t].res].peak >= Observed(loc[t].key)
Once(t) == (pc[t] = "overrun" => ~loc[t].again) /\ loc[t].answer # "PeakExceeded"

RetryInv ==
    /\ \A k \in Key : Hinted(k)
    /\ \A t \in Thread : Remembers(t) /\ Provided(t) /\ Once(t)

(* A step that declares no live reservation anew, forgets nothing of a     *)
(* retained version and begins no overrun and no retry.                    *)
PeaksStay ==
    \A q \in PermitId : permits[q].refs # 0 /\ permits'[q].refs # 0
                          => permits'[q].peak = permits[q].peak
RowsRemember ==
    \A k \in Key : /\ k \in generation => rows'[k].learned = rows[k].learned
                   /\ Hinted(k) => Hinted(k)'
Steady(u) ==
    /\ loc'[u].answer = "PeakExceeded" => loc[u].answer = "PeakExceeded"
    /\ loc'[u].again => loc[u].again /\ loc'[u].key = loc[u].key
    /\ pc'[u] = "overrun" => pc[u] = "overrun" /\ loc'[u] = loc[u]
    /\ loc'[u].again /\ InCall(u, loc[u].key)' /\ loc'[u].res # NoPermit
         => InCall(u, loc[u].key) /\ loc'[u].res = loc[u].res

LEMMA PeakStays ==
    ASSUME Inv, Inv', PeaksStay, NEW u \in Thread, loc'[u].res = loc[u].res, loc[u].res # NoPermit
    PROVE  permits'[loc'[u].res].peak = permits[loc[u].res].peak
  <1>1. loc[u].res \in PermitId
    BY DEF Inv, TypedInv, Local
  <1>2. permits[loc[u].res].refs # 0
    BY <1>1, NamedLive DEF Inv, TypedInv
  <1>3. permits'[loc[u].res].refs # 0
    BY <1>1, NamedAfter DEF Inv, TypedInv
  <1> QED BY <1>1, <1>2, <1>3 DEF PeaksStay

(* A version observed no larger than its row says, or as its row said.     *)
Recalls(k) == rows'[k].learned = rows[k].learned \/ rows'[k].learned >= Observed(k)

LEMMA ThreadKeeps ==
    ASSUME Inv, Inv', RetryInv, PeaksStay, NEW u \in Thread, Steady(u),
           \A k \in Key : k \in generation => Recalls(k),
           loc[u].key \in generation => loc[u].key \in generation'
    PROVE  Remembers(u)' /\ Provided(u)' /\ Once(u)'
  <1>2. Remembers(u)'
    <2>1. SUFFICES ASSUME loc'[u].again \/ pc'[u] = "overrun"
                   PROVE  /\ loc'[u].key \in Key /\ loc'[u].key \in generation'
                          /\ rows'[loc'[u].key].learned >= Observed(loc'[u].key)
      BY DEF Remembers, Observed
    <2>2. (loc[u].again \/ pc[u] = "overrun") /\ loc'[u].key = loc[u].key
      BY <2>1 DEF Steady
    <2>3. /\ loc[u].key \in Key /\ loc[u].key \in generation
          /\ rows[loc[u].key].learned >= Observed(loc[u].key)
      BY <2>2 DEF RetryInv, Remembers
    <2>4. Recalls(loc[u].key)
      BY <2>3
    <2> QED BY <2>2, <2>3, <2>4 DEF Recalls
  <1>3. Provided(u)'
    <2>1. SUFFICES ASSUME loc'[u].again, InCall(u, loc[u].key)', loc'[u].res # NoPermit,
                          loc'[u].key = loc[u].key
                   PROVE  permits'[loc'[u].res].peak >= Observed(loc[u].key)
      BY DEF Provided, Steady, Observed, InCall
    <2>2. InCall(u, loc[u].key) /\ loc'[u].res = loc[u].res /\ loc[u].again
      BY <2>1 DEF Steady
    <2> QED BY <2>1, <2>2, PeakStays DEF RetryInv, Provided
  <1>4. Once(u)'
    BY DEF Once, Steady, RetryInv
  <1> QED BY <1>2, <1>3, <1>4

LEMMA SteadyKeeps ==
    ASSUME Inv, Inv', RetryInv, PeaksStay, RowsRemember, \A u \in Thread : Steady(u),
           \A u \in Thread : loc[u].key \in generation => loc[u].key \in generation'
    PROVE  RetryInv'
  <1>1. \A k \in Key : Hinted(k)'
    BY DEF RetryInv, RowsRemember
  <1>2. \A k \in Key : k \in generation => Recalls(k)
    BY DEF RowsRemember, Recalls
  <1>3. \A u \in Thread : Remembers(u)' /\ Provided(u)' /\ Once(u)'
    BY <1>2, ThreadKeeps
  <1> QED BY <1>1, <1>3 DEF RetryInv

(* A record that begins no overrun and no retry. *)
Follows(l, m) ==
    /\ l.answer = "PeakExceeded" => m.answer = "PeakExceeded"
    /\ l.again => m.again /\ l.key = m.key
    /\ l.again /\ Calling(l) /\ l.res # NoPermit => Calling(m) /\ l.res = m.res
Proceeds(t) == \E p : p \notin {"overrun", "prepare"} /\ pc' = [pc EXCEPT ![t] = p]
Advances(t) == Proceeds(t) /\ \E l : loc' = [loc EXCEPT ![t] = l] /\ Follows(l, loc[t])

LEMMA AdvanceSteady ==
    ASSUME Inv, NEW t \in Thread, Advances(t)
    PROVE  \A u \in Thread : Steady(u)
  <1>1. PICK p, l : /\ p \notin {"overrun", "prepare"} /\ pc' = [pc EXCEPT ![t] = p]
                    /\ loc' = [loc EXCEPT ![t] = l] /\ Follows(l, loc[t])
    BY DEF Advances, Proceeds
  <1>2. pc'[t] = p /\ loc'[t] = l /\ \A u \in Thread \ {t} : pc'[u] = pc[u] /\ loc'[u] = loc[u]
    BY <1>1 DEF Inv, TypedInv
  <1>3. Steady(t)
    <2>1. l.answer = "PeakExceeded" => loc[t].answer = "PeakExceeded"
      BY <1>1 DEF Follows
    <2>2. l.again => loc[t].again /\ l.key = loc[t].key
      BY <1>1 DEF Follows
    <2>3. l.again /\ InCall(t, loc[t].key)' /\ l.res # NoPermit
            => InCall(t, loc[t].key) /\ l.res = loc[t].res
      BY <1>1, <1>2 DEF Follows, InCall, Calling
    <2> QED BY <1>1, <1>2, <2>1, <2>2, <2>3 DEF Steady
  <1>4. ASSUME NEW u \in Thread \ {t}
        PROVE  Steady(u)
    <2>1. pc'[u] = pc[u] /\ loc'[u] = loc[u]
      BY <1>2
    <2> QED BY <2>1 DEF Steady, InCall
  <1> QED BY <1>3, <1>4

LEMMA FollowsSame == ASSUME NEW l PROVE Follows(l, l)
  BY DEF Follows

LEMMA FollowsNone == ASSUME NEW m PROVE Follows(NoCall, m)
  BY DEF Follows, NoCall

LEMMA FollowsAttempt ==
    ASSUME NEW l, NEW m, l.again => m.again /\ l.key = m.key
    PROVE  Follows(Attempt(l), m)
  <1>1. /\ Attempt(l).answer = "none" /\ Attempt(l).prep = "none"
        /\ Attempt(l).again = l.again /\ Attempt(l).key = l.key
    BY DEF Attempt, NoCall
  <1> QED BY <1>1 DEF Follows, Calling

LEMMA FollowsTrimming ==
    ASSUME NEW m \in Local, NEW a, NEW n, Follows(m, n)
    PROVE  Follows(Trimming(m, a), n)
  <1>1. /\ Trimming(m, a).answer = m.answer /\ Trimming(m, a).prep = m.prep
        /\ Trimming(m, a).again = m.again /\ Trimming(m, a).key = m.key
        /\ Trimming(m, a).res = m.res
    BY DEF Trimming, Local
  <1> QED BY <1>1 DEF Follows, Calling

(* A step of t that leaves the tables to what retries read of them. *)
LEMMA StillRemembers ==
    ASSUME UNCHANGED rows
    PROVE  RowsRemember
  BY DEF RowsRemember, Hinted

LEMMA AdvanceKeeps ==
    ASSUME Inv, Inv', RetryInv, NEW t \in Thread, Advances(t), PeaksStay, RowsRemember,
           UNCHANGED generation
    PROVE  RetryInv'
  BY AdvanceSteady, SteadyKeeps

LEMMA QuietAdvance ==
    ASSUME Inv, Inv', RetryInv, NEW t \in Thread, Advances(t), UNCHANGED <<rows, permits, generation>>
    PROVE  RetryInv'
  <1>1. PeaksStay
    BY DEF PeaksStay
  <1> QED BY <1>1, StillRemembers, AdvanceKeeps

LEMMA ReleasePeaks ==
    ASSUME Inv, NEW p, ReleasePermit(p)
    PROVE  PeaksStay /\ RowsRemember
  <1>1. p \in PermitId /\ permits[p] \in PermitT
    BY DEF ReleasePermit, Live, Inv, TypedInv
  <1>2. PeaksStay
    <2>1. CASE permits[p].refs = 1
      <3>1. permits' = [permits EXCEPT ![p] = Unissued]
        BY <2>1 DEF ReleasePermit
      <3>2. Unissued.refs = 0
        BY DEF Unissued
      <3>3. permits'[p].refs = 0 /\ \A q \in PermitId \ {p} : permits'[q] = permits[q]
        BY <1>1, <3>1, <3>2 DEF Inv, TypedInv
      <3> QED BY <3>3 DEF PeaksStay
    <2>2. CASE permits[p].refs # 1
      <3> DEFINE e == [permits[p] EXCEPT !.refs = permits[p].refs - 1]
      <3>1. permits' = [permits EXCEPT ![p] = e]
        BY <2>2 DEF ReleasePermit
      <3>2. e.peak = permits[p].peak
        BY <1>1 DEF PermitT
      <3> HIDE DEF e
      <3>3. permits'[p] = e /\ \A q \in PermitId \ {p} : permits'[q] = permits[q]
        BY <1>1, <3>1 DEF Inv, TypedInv
      <3> QED BY <3>2, <3>3 DEF PeaksStay
    <2> QED BY <2>1, <2>2
  <1>3. RowsRemember
    <2>1. CASE rows' = rows
      BY <2>1, StillRemembers
    <2>2. CASE rows' # rows
      <3>1. PICK k : rows' = [rows EXCEPT ![k].wave = NoPermit]
        BY <2>2 DEF ReleasePermit
      <3>2. \A j \in Key : /\ rows'[j].learned = rows[j].learned
                           /\ rows'[j].calls = rows[j].calls /\ rows'[j].body = rows[j].body
                           /\ rows'[j].wave \in {rows[j].wave, NoPermit}
        BY <3>1 DEF Inv, TypedInv, RowT
      <3> QED BY <3>2 DEF RowsRemember, Hinted
    <2> QED BY <2>1, <2>2
  <1> QED BY <1>2, <1>3

LEMMA ClonePeaks ==
    ASSUME Inv, NEW p, permits' = [permits EXCEPT ![p].refs = @ + 1]
    PROVE  PeaksStay
  BY DEF PeaksStay, Inv, TypedInv, PermitT

LEMMA SettlePeaks ==
    ASSUME Inv, NEW p \in PermitId \cup {NoPermit}, NEW hot, NEW k, SettleWave(p, hot, k)
    PROVE  PeaksStay
  <1>1. CASE UNCHANGED permits
    BY <1>1 DEF PeaksStay
  <1>2. CASE ~UNCHANGED permits
    <2>1. PICK part : permits' = [permits EXCEPT ![p].settled = TRUE, ![p].bytes = @ - part]
      BY <1>2 DEF SettleWave
    <2> DEFINE e1 == [permits[p] EXCEPT !.settled = TRUE]
               e == [e1 EXCEPT !.bytes = @ - part]
    <2>2. p \in PermitId
      BY <1>2 DEF SettleWave
    <2>3. permits[p] \in PermitT /\ permits' = [permits EXCEPT ![p] = e]
      BY <2>1, <2>2 DEF Inv, TypedInv, PermitT
    <2>4. e.peak = permits[p].peak
      BY <2>3 DEF PermitT
    <2> HIDE DEF e
    <2>5. permits'[p] = e /\ \A q \in PermitId \ {p} : permits'[q] = permits[q]
      BY <2>2, <2>3 DEF Inv, TypedInv
    <2> QED BY <2>4, <2>5 DEF PeaksStay
  <1> QED BY <1>1, <1>2

-----------------------------------------------------------------------------
(* begin_past and admit_turn *)

LEMMA FollowsAnswer ==
    ASSUME NEW m \in Local, NEW a, a # "PeakExceeded"
    PROVE  Follows([m EXCEPT !.answer = a], m)
  <1> DEFINE l == [m EXCEPT !.answer = a]
  <1>1. l.answer = a /\ l.again = m.again /\ l.key = m.key /\ l.prep = m.prep /\ l.res = m.res
    BY DEF Local
  <1> HIDE DEF l
  <1>2. Follows(l, m)
    BY <1>1 DEF Follows, Calling
  <1> QED BY <1>2 DEF l

(* A record that keeps what retries read of it. *)
LEMMA FollowsLike ==
    ASSUME NEW l, NEW m, l.answer = m.answer, l.again = m.again, l.key = m.key,
           l.prep = m.prep \/ ~Calling(l), l.res \in {m.res, NoPermit}
    PROVE  Follows(l, m)
  BY DEF Follows, Calling

LEMMA RefuseRetry ==
    ASSUME Inv, Inv', RetryInv, NEW t \in Thread, NEW a, a # "PeakExceeded", RefuseBegin(t, a)
    PROVE  RetryInv'
  <1>1. Proceeds(t)
    <2> DEFINE p == IF loc[t].spare # NoPermit THEN "spare" ELSE "answer"
    <2>1. pc' = [pc EXCEPT ![t] = p]
      BY DEF RefuseBegin, Goto
    <2>2. p \notin {"overrun", "prepare"}
      OBVIOUS
    <2> HIDE DEF p
    <2> QED BY <2>1, <2>2 DEF Proceeds
  <1>2. loc' = [loc EXCEPT ![t] = [loc[t] EXCEPT !.answer = a]]
    BY DEF RefuseBegin
  <1>3. Follows([loc[t] EXCEPT !.answer = a], loc[t])
    BY LocalRecord, FollowsAnswer
  <1> QED BY <1>1, <1>2, <1>3, QuietAdvance DEF Advances, RefuseBegin, ledgerVars, hostVars

LEMMA SameAdvances ==
    ASSUME Inv, NEW t \in Thread, Proceeds(t), UNCHANGED loc
    PROVE  Advances(t)
  <1>1. loc' = [loc EXCEPT ![t] = loc[t]]
    BY DEF Inv, TypedInv
  <1> QED BY <1>1, FollowsSame DEF Advances

LEMMA BeginRetry ==
    ASSUME Inv, Inv', RetryInv, NEW t \in Thread,
           \/ BeginRetiring(t) \/ BeginExhausted(t) \/ BeginStale(t)
           \/ BeginSettling(t) \/ BeginAdmission(t)
    PROVE  RetryInv'
  <1>1. CASE BeginRetiring(t) \/ BeginExhausted(t) \/ BeginSettling(t)
    BY <1>1, RefuseRetry DEF BeginRetiring, BeginExhausted, BeginSettling
  <1>2. CASE BeginStale(t)
    <2>1. Advances(t)
      BY <1>2, SameAdvances DEF BeginStale, Goto, Proceeds
    <2> QED BY <1>2, <2>1, QuietAdvance DEF BeginStale, ledgerVars, hostVars
  <1>3. CASE BeginAdmission(t)
    <2> DEFINE m == [loc[t] EXCEPT !.need = Declared(loc[t].key)]
               n == [m EXCEPT !.rev = slot[loc[t].key].revision]
    <2>1. loc' = [loc EXCEPT ![t] = n] /\ Proceeds(t)
      BY <1>3 DEF BeginAdmission, Goto, Proceeds
    <2>2. /\ n.answer = loc[t].answer /\ n.again = loc[t].again /\ n.key = loc[t].key
          /\ n.prep = loc[t].prep /\ n.res = loc[t].res
      BY LocalRecord DEF Local
    <2> HIDE DEF n
    <2>3. Advances(t)
      BY <2>1, <2>2, FollowsLike DEF Advances
    <2> QED BY <1>3, <2>3, QuietAdvance DEF BeginAdmission, ledgerVars, hostVars
  <1> QED BY <1>1, <1>2, <1>3

LEMMA RestAdvances ==
    ASSUME NEW t, Rest(t)
    PROVE  Advances(t)
  BY FollowsNone DEF Rest, Goto, Advances, Proceeds

LEMMA AnswerAdvances ==
    ASSUME Inv, NEW t \in Thread, NEW a, a # "PeakExceeded", Answer(t, a)
    PROVE  Advances(t)
  <1>1. CASE loc[t].key = NoKey
    BY <1>1, RestAdvances DEF Answer
  <1>2. CASE loc[t].key # NoKey
    <2>1. loc' = [loc EXCEPT ![t] = [loc[t] EXCEPT !.answer = a]] /\ Proceeds(t)
      BY <1>2 DEF Answer, Goto, Proceeds
    <2>2. Follows([loc[t] EXCEPT !.answer = a], loc[t])
      BY LocalRecord, FollowsAnswer
    <2> QED BY <2>1, <2>2 DEF Advances
  <1> QED BY <1>1, <1>2

LEMMA AdmitOpenRetry ==
    ASSUME Inv, Inv', RetryInv, NEW t \in Thread, AdmitOpen(t)
    PROVE  RetryInv'
  <1>0. PICK p : p = CHOOSE q \in PermitId \ Live : TRUE
    OBVIOUS
  <1>1. PICK k, e : /\ k = loc[t].key /\ p \in PermitId \ Live
                    /\ permits' = [permits EXCEPT ![p] = e]
                    /\ rows' = (IF k = NoKey THEN rows ELSE [rows EXCEPT ![k].wave = p])
    BY <1>0 DEF AdmitOpen
  <1>2. k # NoKey => rows[k].body = 0
    BY <1>1 DEF AdmitOpen, Turn, Contends
  <1>3. PeaksStay
    <2>1. permits[p].refs = 0 /\ \A q \in PermitId \ {p} : permits'[q] = permits[q]
      BY <1>1 DEF Live, Inv, TypedInv
    <2> QED BY <2>1 DEF PeaksStay
  <1>4. RowsRemember
    <2>1. CASE k = NoKey
      BY <1>1, <2>1, StillRemembers
    <2>2. CASE k # NoKey
      <3>1. \A j \in Key : /\ rows'[j].learned = rows[j].learned
                           /\ rows'[j].calls = rows[j].calls /\ rows'[j].body = rows[j].body
                           /\ j # k => rows'[j].wave = rows[j].wave
        BY <1>1, <2>2 DEF Inv, TypedInv, RowT
      <3> QED BY <1>2, <2>2, <3>1 DEF RowsRemember, Hinted
    <2> QED BY <2>1, <2>2
  <1>5. Advances(t)
    <2>1. Proceeds(t) /\ pc[t] = "admit"
      BY DEF AdmitOpen, Turn, Contends, Admitting, Goto, Proceeds
    <2>2. loc[t] \in Local /\ loc[t].prep = "none"
      BY <2>1, LocalRecord DEF Place
    <2>3. CASE k = NoKey
      <3> DEFINE l == [loc[t] EXCEPT !.res = p]
      <3>1. loc' = [loc EXCEPT ![t] = l]
        BY <1>0, <1>1, <2>3 DEF AdmitOpen
      <3>2. /\ l.answer = loc[t].answer /\ l.again = loc[t].again /\ l.key = loc[t].key
            /\ l.prep = "none"
        BY <2>2 DEF Local
      <3> HIDE DEF l
      <3> QED BY <2>1, <3>1, <3>2 DEF Advances, Follows, Calling
    <2>4. CASE k # NoKey
      <3> DEFINE l == [loc[t] EXCEPT !.spare = p]
      <3>1. loc' = [loc EXCEPT ![t] = l]
        BY <1>0, <1>1, <2>4 DEF AdmitOpen
      <3>2. /\ l.answer = loc[t].answer /\ l.again = loc[t].again /\ l.key = loc[t].key
            /\ l.prep = "none"
        BY <2>2 DEF Local
      <3> HIDE DEF l
      <3> QED BY <2>1, <3>1, <3>2 DEF Advances, Follows, Calling
    <2> QED BY <2>3, <2>4
  <1> QED BY <1>3, <1>4, <1>5, AdvanceKeeps DEF AdmitOpen, hostVars

LEMMA AdmitRetry ==
    ASSUME Inv, Inv', RetryInv, NEW t \in Thread, AdmitStep(t)
    PROVE  RetryInv'
  <1>1. CASE \/ AdmitRetiring(t) \/ AdmitPaused(t) \/ AdmitKeptOut(t)
             \/ AdmitRefusedOversized(t) \/ AdmitOccupied(t)
    <2>1. \E a : a # "PeakExceeded" /\ Refused(t, a)
      <3>1. CASE AdmitRetiring(t)
        BY <3>1 DEF AdmitRetiring
      <3>2. CASE AdmitPaused(t)
        BY <3>2 DEF AdmitPaused
      <3>3. CASE AdmitKeptOut(t)
        BY <3>3 DEF AdmitKeptOut
      <3>4. CASE AdmitRefusedOversized(t)
        BY <3>4 DEF AdmitRefusedOversized
      <3>5. CASE AdmitOccupied(t)
        BY <3>5 DEF AdmitOccupied
      <3> QED BY <1>1, <3>1, <3>2, <3>3, <3>4, <3>5
    <2>2. Advances(t) /\ UNCHANGED <<rows, permits, generation>>
      BY <2>1, AnswerAdvances DEF Refused, hostVars
    <2> QED BY <2>2, QuietAdvance
  <1>2. CASE AdmitJoin(t)
    <2> DEFINE l == [loc[t] EXCEPT !.spare = rows[loc[t].key].wave]
    <2>1. loc' = [loc EXCEPT ![t] = l] /\ Proceeds(t)
      BY <1>2 DEF AdmitJoin, Goto, Proceeds
    <2>2. /\ l.answer = loc[t].answer /\ l.again = loc[t].again /\ l.key = loc[t].key
          /\ l.prep = loc[t].prep /\ l.res = loc[t].res
      BY LocalRecord DEF Local
    <2> HIDE DEF l
    <2>3. Advances(t)
      BY <2>1, <2>2, FollowsLike DEF Advances
    <2> QED BY <1>2, <2>3, ClonePeaks, StillRemembers, AdvanceKeeps DEF AdmitJoin, hostVars
  <1>3. CASE AdmitHot(t)
    <2>1. Advances(t)
      BY <1>3, SameAdvances DEF AdmitHot, Goto, Proceeds
    <2> QED BY <1>3, <2>1, QuietAdvance DEF AdmitHot, hostVars
  <1>4. CASE AdmitOpen(t)
    BY <1>4, AdmitOpenRetry
  <1>5. CASE AdmitReclaim(t)
    <2> DEFINE l == [loc[t] EXCEPT !.mode = "admit"]
    <2>1. loc' = [loc EXCEPT ![t] = l] /\ Proceeds(t)
      BY <1>5 DEF AdmitReclaim, Goto, Proceeds
    <2>2. /\ l.answer = loc[t].answer /\ l.again = loc[t].again /\ l.key = loc[t].key
          /\ l.prep = loc[t].prep /\ l.res = loc[t].res
      BY LocalRecord DEF Local
    <2> HIDE DEF l
    <2>3. Advances(t)
      BY <2>1, <2>2, FollowsLike DEF Advances
    <2> QED BY <1>5, <2>3, QuietAdvance DEF AdmitReclaim, hostVars
  <1>6. CASE Unowe(t)
    <2>1. Advances(t)
      <3>1. CASE loc[t].key = NoKey
        BY <1>6, <3>1, RestAdvances DEF Unowe
      <3>2. CASE loc[t].key # NoKey
        <4> DEFINE l == [loc[t] EXCEPT !.mode = "trim"]
        <4>1. loc' = [loc EXCEPT ![t] = l] /\ Proceeds(t)
          BY <1>6, <3>2 DEF Unowe, Goto, Proceeds
        <4>2. /\ l.answer = loc[t].answer /\ l.again = loc[t].again /\ l.key = loc[t].key
              /\ l.prep = loc[t].prep /\ l.res = loc[t].res
          BY LocalRecord DEF Local
        <4> HIDE DEF l
        <4> QED BY <4>1, <4>2, FollowsLike DEF Advances
      <3> QED BY <3>1, <3>2
    <2> QED BY <1>6, <2>1, QuietAdvance DEF Unowe, hostVars
  <1> QED BY <1>1, <1>2, <1>3, <1>4, <1>5, <1>6 DEF AdmitStep

-----------------------------------------------------------------------------
(* Retirement, and what a lease does with an answer                        *)

LEMMA ResumeAdvances ==
    ASSUME Inv, NEW t \in Thread, Resume(t)
    PROVE  Advances(t)
  <1>1. CASE loc[t].after = "idle"
    BY <1>1, RestAdvances DEF Resume
  <1>2. CASE loc[t].after = "begin"
    <2>1. loc' = [loc EXCEPT ![t] = Attempt(loc[t])] /\ Proceeds(t)
      BY <1>2 DEF Resume, Goto, Proceeds
    <2> QED BY <2>1, FollowsAttempt DEF Advances
  <1>3. CASE loc[t].after \notin {"idle", "begin"}
    <2> DEFINE l == [loc[t] EXCEPT !.after = "idle"]
    <2>1. loc' = [loc EXCEPT ![t] = l] /\ pc' = [pc EXCEPT ![t] = loc[t].after]
      BY <1>3 DEF Resume, Goto
    <2>2. loc[t].after \notin {"overrun", "prepare"}
      BY LocalRecord DEF Place
    <2>3. /\ l.answer = loc[t].answer /\ l.again = loc[t].again /\ l.key = loc[t].key
          /\ l.prep = loc[t].prep /\ l.res = loc[t].res
      BY LocalRecord DEF Local
    <2> HIDE DEF l
    <2> QED BY <2>1, <2>2, <2>3, FollowsLike DEF Advances, Proceeds
  <1> QED BY <1>1, <1>2, <1>3

LEMMA CollectedProceeds ==
    ASSUME NEW t, Collected(t)
    PROVE  Proceeds(t)
  <1> DEFINE p == IF loc[t].mode = "trim" THEN "select"
                  ELSE IF loc[t].answer = "Busy" THEN "unowe" ELSE "admit"
  <1>1. pc' = [pc EXCEPT ![t] = p]
    BY DEF Collected, Goto
  <1>2. p \notin {"overrun", "prepare"}
    OBVIOUS
  <1> HIDE DEF p
  <1> QED BY <1>1, <1>2 DEF Proceeds

(* A row of which no size learned, call, body or hint moves. *)
LEMMA RowsAlike ==
    ASSUME \A j \in Key : /\ rows'[j].learned = rows[j].learned
                          /\ rows'[j].calls = rows[j].calls
                          /\ rows'[j].wave = rows[j].wave
                          /\ rows'[j].body \in {rows[j].body, 0}
    PROVE  RowsRemember
  BY DEF RowsRemember, Hinted

LEMMA SettleRetry ==
    ASSUME Inv, Inv', RetryInv, NEW t \in Thread, Settle(t)
    PROVE  RetryInv'
  <1>1. PICK v, cold : v = loc[t].victim /\ cold = (slot[v].phase = "Cold")
    OBVIOUS
  <1>2. Proceeds(t) /\ PeaksStay /\ UNCHANGED generation /\ pc[t] = "settle"
    BY DEF Settle, Goto, Proceeds, PeaksStay, hostVars
  <1>3. v \in Key /\ rows[v] \in RowT
    BY <1>1, <1>2, VictimTyped DEF Retires, Inv, TypedInv
  <1>4. RowsRemember
    <2> DEFINE b == IF cold THEN 0 ELSE rows[v].body
               f == IF cold THEN FALSE ELSE rows[v].forced
               r1 == [rows[v] EXCEPT !.retiring = FALSE]
               r2 == [r1 EXCEPT !.body = b]
               r == [r2 EXCEPT !.forced = f]
    <2>1. rows' = [rows EXCEPT ![v] = r]
      BY <1>1, <1>3 DEF Settle, RowT
    <2> HIDE DEF b, f
    <2>2. /\ r.learned = rows[v].learned /\ r.calls = rows[v].calls
          /\ r.wave = rows[v].wave /\ r.body = b
      BY <1>3 DEF RowT
    <2> HIDE DEF r
    <2>3. rows'[v] = r /\ \A j \in Key \ {v} : rows'[j] = rows[j]
      BY <1>3, <2>1 DEF Inv, TypedInv
    <2>4. b \in {rows[v].body, 0}
      BY DEF b
    <2> QED BY <2>2, <2>3, <2>4, RowsAlike
  <1>5. Advances(t)
    <2>1. CASE cold
      <3>1. loc' = loc
        BY <1>1, <2>1 DEF Settle
      <3> QED BY <1>2, <3>1, SameAdvances
    <2>2. CASE ~cold
      <3>1. loc' = [loc EXCEPT ![t] = [loc[t] EXCEPT !.answer = "Busy"]]
        BY <1>1, <2>2 DEF Settle
      <3>2. Follows([loc[t] EXCEPT !.answer = "Busy"], loc[t])
        BY LocalRecord, FollowsAnswer
      <3> QED BY <1>2, <3>1, <3>2 DEF Advances
    <2> QED BY <2>1, <2>2
  <1> QED BY <1>2, <1>4, <1>5, AdvanceKeeps

LEMMA CollectRetry ==
    ASSUME Inv, Inv', RetryInv, NEW t \in Thread, Collect(t)
    PROVE  RetryInv'
  <1>1. PICK v : v = loc[t].victim
    OBVIOUS
  <1>2. /\ pc[t] = "collect" /\ rows[v].refs = 0 /\ rows' = [rows EXCEPT ![v] = Absent]
        /\ Proceeds(t) /\ UNCHANGED <<permits, generation>>
    BY <1>1 DEF Collect, Collectable, Goto, Proceeds, hostVars
  <1>3. v \in Key
    BY <1>1, <1>2, LocalRecord DEF Place, Trims, Local
  <1>4. v \notin generation
    BY <1>2, <1>3, Unreferenced
  <1>5. RowsRemember
    <2>1. rows'[v] = Absent /\ \A j \in Key \ {v} : rows'[j] = rows[j]
      BY <1>2, <1>3 DEF Inv, TypedInv
    <2>2. Absent.body = 0
      BY DEF Absent
    <2> QED BY <1>4, <2>1, <2>2 DEF RowsRemember, Hinted
  <1>6. Advances(t)
    <2> DEFINE l1 == [loc[t] EXCEPT !.raw = slot[v].raw]
               l2 == [l1 EXCEPT !.gone = rows[v].body]
               l == [l2 EXCEPT !.goneRaw = rows[v].raw]
    <2>1. loc' = [loc EXCEPT ![t] = l]
      BY <1>1 DEF Collect
    <2>2. /\ l.answer = loc[t].answer /\ l.again = loc[t].again /\ l.key = loc[t].key
          /\ l.prep = loc[t].prep /\ l.res = loc[t].res
      BY LocalRecord DEF Local
    <2> HIDE DEF l
    <2> QED BY <1>2, <2>1, <2>2, FollowsLike DEF Advances
  <1>7. PeaksStay
    BY <1>2 DEF PeaksStay
  <1> QED BY <1>2, <1>5, <1>6, <1>7, AdvanceKeeps

LEMMA RetireRetry ==
    ASSUME Inv, Inv', RetryInv, NEW t \in Thread, RetireStep(t)
    PROVE  RetryInv'
  <1>0. loc[t] \in Local
    BY LocalRecord
  <1>1. CASE SelectVictim(t)
    <2>1. PICK v \in Victims(loc[t].mode) :
            /\ rows' = [rows EXCEPT ![v].retiring = TRUE]
            /\ loc' = [loc EXCEPT ![t].victim = v, ![t].vrev = slot[v].revision]
      BY <1>1 DEF SelectVictim
    <2>2. v \in Key
      BY VictimsAreVersions
    <2> DEFINE l1 == [loc[t] EXCEPT !.victim = v]
               l == [l1 EXCEPT !.vrev = slot[v].revision]
    <2>3. loc' = [loc EXCEPT ![t] = l]
      BY <2>1 DEF Inv, TypedInv
    <2>4. /\ l.answer = loc[t].answer /\ l.again = loc[t].again /\ l.key = loc[t].key
          /\ l.prep = loc[t].prep /\ l.res = loc[t].res
      BY <1>0 DEF Local
    <2> HIDE DEF l
    <2>5. Proceeds(t) /\ UNCHANGED generation /\ PeaksStay
      BY <1>1 DEF SelectVictim, Goto, Proceeds, hostVars, PeaksStay
    <2>6. RowsRemember
      <3>1. \A j \in Key : /\ rows'[j].learned = rows[j].learned
                           /\ rows'[j].calls = rows[j].calls
                           /\ rows'[j].wave = rows[j].wave
                           /\ rows'[j].body = rows[j].body
        BY <2>1, <2>2 DEF Inv, TypedInv, RowT
      <3> QED BY <3>1, RowsAlike
    <2>7. Advances(t)
      BY <2>3, <2>4, <2>5, FollowsLike DEF Advances
    <2> QED BY <2>5, <2>6, <2>7, AdvanceKeeps
  <1>2. CASE SelectNone(t)
    <2>1. Advances(t)
      BY <1>2, AnswerAdvances, ResumeAdvances DEF SelectNone
    <2> QED BY <1>2, <2>1, QuietAdvance DEF SelectNone, hostVars
  <1>3. CASE Shed(t)
    <2>1. Advances(t)
      BY <1>3, SameAdvances DEF Shed, Goto, Proceeds
    <2> QED BY <1>3, <2>1, QuietAdvance DEF Shed, ledgerVars, hostVars
  <1>4. CASE CollectNothing(t)
    <2>1. Advances(t)
      BY <1>4, SameAdvances, CollectedProceeds DEF CollectNothing
    <2> QED BY <1>4, <2>1, QuietAdvance DEF CollectNothing, ledgerVars, hostVars
  <1>5. CASE DropRow(t)
    <2> DEFINE l == [loc[t] EXCEPT !.raw = NoRaw]
    <2>1. loc' = [loc EXCEPT ![t] = l] /\ Proceeds(t)
      BY <1>5 DEF DropRow, Goto, Proceeds
    <2>2. /\ l.answer = loc[t].answer /\ l.again = loc[t].again /\ l.key = loc[t].key
          /\ l.prep = loc[t].prep /\ l.res = loc[t].res
      BY <1>0 DEF Local
    <2> HIDE DEF l
    <2>3. Advances(t)
      BY <2>1, <2>2, FollowsLike DEF Advances
    <2> QED BY <1>5, <2>3, QuietAdvance DEF DropRow, ledgerVars, hostVars
  <1>6. CASE ReleaseDetached(t)
    <2> DEFINE l1 == [loc[t] EXCEPT !.gone = 0]
               l == [l1 EXCEPT !.goneRaw = NoRaw]
    <2>1. loc' = [loc EXCEPT ![t] = l] /\ Proceeds(t)
      BY <1>6, CollectedProceeds DEF ReleaseDetached
    <2>2. /\ l.answer = loc[t].answer /\ l.again = loc[t].again /\ l.key = loc[t].key
          /\ l.prep = loc[t].prep /\ l.res = loc[t].res
      BY <1>0 DEF Local
    <2> HIDE DEF l
    <2>3. Advances(t)
      BY <2>1, <2>2, FollowsLike DEF Advances
    <2> QED BY <1>6, <2>3, QuietAdvance DEF ReleaseDetached, hostVars
  <1> QED BY <1>1, <1>2, <1>3, <1>4, <1>5, <1>6, SettleRetry, CollectRetry DEF RetireStep

LEMMA AgainRetry ==
    ASSUME Inv, Inv', RetryInv, NEW t \in Thread, NEW m \in Local, Again(t, m)
    PROVE  RetryInv'
  <1> DEFINE n == [m EXCEPT !.again = FALSE]
  <1>1. loc' = [loc EXCEPT ![t] = Attempt(n)] /\ Proceeds(t)
    BY DEF Again, Goto, Proceeds
  <1>2. ~n.again
    BY DEF Local
  <1> HIDE DEF n
  <1>3. Advances(t)
    BY <1>1, <1>2, FollowsAttempt DEF Advances
  <1> QED BY <1>3, QuietAdvance DEF Again, ledgerVars, hostVars

LEMMA LeaseRetry ==
    ASSUME Inv, Inv', RetryInv, NEW t \in Thread, LeaseStep(t)
    PROVE  RetryInv'
  <1>1. loc[t] \in Local
    BY LocalRecord
  <1>2. CASE Poll(t)
    <2>1. [loc[t] EXCEPT !.patience = "running"] \in Local
      BY <1>1 DEF Local
    <2> QED BY <1>2, <2>1, AgainRetry DEF Poll
  <1>3. CASE Unpause(t)
    <2>1. [loc[t] EXCEPT !.unpaused = TRUE] \in Local
      BY <1>1 DEF Local
    <2> QED BY <1>3, <2>1, AgainRetry DEF Unpause
  <1>4. CASE RetryPause(t)
    <2>1. loc[t].tries + 1 \in 0..MaxTries
      BY <1>1, <1>4, BoundsAssumption DEF Local, RetryPause
    <2>2. [loc[t] EXCEPT !.tries = @ + 1] \in Local
      BY <1>1, <2>1 DEF Local
    <2> QED BY <1>4, <2>2, AgainRetry DEF RetryPause
  <1>5. CASE Leave(t)
    BY <1>5, RestAdvances, QuietAdvance DEF Leave, ledgerVars, hostVars
  <1> QED BY <1>2, <1>3, <1>4, <1>5 DEF LeaseStep

-----------------------------------------------------------------------------
(* Drops, and what a failed call reads                                     *)

LEMMA FollowsFresh ==
    ASSUME NEW l, NEW m, l.answer = "none", ~l.again
    PROVE  Follows(l, m)
  BY DEF Follows

LEMMA TrimProceeds ==
    ASSUME NEW t, Goto(t, "select") \/ Goto(t, "collect")
    PROVE  Proceeds(t)
  BY DEF Goto, Proceeds

LEMMA DropSpareRetry ==
    ASSUME Inv, Inv', RetryInv, NEW t \in Thread, DropSpare(t)
    PROVE  RetryInv'
  <1> DEFINE l == [loc[t] EXCEPT !.spare = NoPermit]
             a == IF loc[t].prep # "none" THEN "resolve"
                  ELSE IF loc[t].answer # "none" THEN "answer" ELSE "begin"
  <1>1. loc' = [loc EXCEPT ![t] = Trimming(l, a)] /\ Proceeds(t) /\ UNCHANGED generation
    BY TrimProceeds DEF DropSpare, hostVars
  <1> HIDE DEF a
  <1>2. /\ l \in Local /\ l.answer = loc[t].answer /\ l.again = loc[t].again
        /\ l.key = loc[t].key /\ l.prep = loc[t].prep /\ l.res = loc[t].res
    BY LocalRecord DEF Local
  <1> HIDE DEF l
  <1>3. Advances(t)
    BY <1>1, <1>2, FollowsLike, FollowsTrimming DEF Advances
  <1>4. PeaksStay /\ RowsRemember
    BY ReleasePeaks DEF DropSpare
  <1> QED BY <1>1, <1>3, <1>4, AdvanceKeeps

LEMMA DropBodyRetry ==
    ASSUME Inv, Inv', RetryInv, NEW t \in Thread, DropBody(t)
    PROVE  RetryInv'
  <1> DEFINE l == [loc[t] EXCEPT !.hasBody = FALSE]
  <1>1. loc' = [loc EXCEPT ![t] = Trimming(l, "call")] /\ Proceeds(t)
    BY TrimProceeds DEF DropBody
  <1>2. /\ l \in Local /\ l.answer = loc[t].answer /\ l.again = loc[t].again
        /\ l.key = loc[t].key /\ l.prep = loc[t].prep /\ l.res = loc[t].res
    <2>1. loc[t] \in Local
      BY LocalRecord
    <2>2. l \in Local
      BY <2>1 DEF Local
    <2>3. /\ l.answer = loc[t].answer /\ l.key = loc[t].key /\ l.prep = loc[t].prep
          /\ l.res = loc[t].res
      BY <2>1 DEF Local
    <2>4. l.again = loc[t].again
      BY <2>1 DEF Local
    <2> QED BY <2>2, <2>3, <2>4
  <1> HIDE DEF l
  <1>3. Advances(t)
    BY <1>1, <1>2, FollowsLike, FollowsTrimming DEF Advances
  <1> QED BY <1>3, QuietAdvance DEF DropBody, ledgerVars, hostVars

LEMMA FailReadRetry ==
    ASSUME Inv, Inv', RetryInv, NEW t \in Thread, FailSnapshot(t) \/ FailRaw(t)
    PROVE  RetryInv'
  <1>1. CASE FailSnapshot(t)
    <2> DEFINE l == [loc[t] EXCEPT !.snap = slot[loc[t].key].phase]
    <2>1. loc' = [loc EXCEPT ![t] = l] /\ Proceeds(t)
      BY <1>1 DEF FailSnapshot, Goto, Proceeds
    <2>2. /\ l.answer = loc[t].answer /\ l.again = loc[t].again
          /\ l.key = loc[t].key /\ l.prep = loc[t].prep /\ l.res = loc[t].res
      BY LocalRecord DEF Local
    <2> HIDE DEF l
    <2>3. Advances(t)
      BY <2>1, <2>2, FollowsLike DEF Advances
    <2> QED BY <1>1, <2>3, QuietAdvance DEF FailSnapshot, ledgerVars, hostVars
  <1>2. CASE FailRaw(t)
    <2> DEFINE l == [loc[t] EXCEPT !.raw = slot[loc[t].key].raw]
    <2>1. loc' = [loc EXCEPT ![t] = l] /\ Proceeds(t)
      BY <1>2 DEF FailRaw, Goto, Proceeds
    <2>2. /\ l.answer = loc[t].answer /\ l.again = loc[t].again
          /\ l.key = loc[t].key /\ l.prep = loc[t].prep /\ l.res = loc[t].res
      BY LocalRecord DEF Local
    <2> HIDE DEF l
    <2>3. Advances(t)
      BY <2>1, <2>2, FollowsLike DEF Advances
    <2> QED BY <1>2, <2>3, QuietAdvance DEF FailRaw, ledgerVars, hostVars
  <1> QED BY <1>1, <1>2

(* What a call or an error held goes; the rest of the record stays. *)
LEMMA ResDropped ==
    ASSUME Inv, NEW t \in Thread, NEW a, Proceeds(t),
           loc' = [loc EXCEPT ![t] = Trimming([loc[t] EXCEPT !.res = NoPermit], a)]
    PROVE  Advances(t)
  <1> DEFINE l == [loc[t] EXCEPT !.res = NoPermit]
  <1>1. /\ l \in Local /\ l.answer = loc[t].answer /\ l.again = loc[t].again
        /\ l.key = loc[t].key /\ l.prep = loc[t].prep /\ l.res = NoPermit
    BY LocalRecord DEF Local
  <1>2. loc' = [loc EXCEPT ![t] = Trimming(l, a)]
    OBVIOUS
  <1> HIDE DEF l
  <1> QED BY <1>1, <1>2, FollowsLike, FollowsTrimming DEF Advances

LEMMA DropCallRetry ==
    ASSUME Inv, Inv', RetryInv, NEW t \in Thread, DropCall(t) \/ DropHolding(t)
    PROVE  RetryInv'
  <1>1. Proceeds(t) /\ UNCHANGED generation
    BY TrimProceeds DEF DropCall, DropHolding, hostVars
  <1>2. CASE DropHolding(t)
    <2>1. Advances(t)
      BY <1>1, <1>2, ResDropped DEF DropHolding
    <2> QED BY <1>1, <1>2, <2>1, ReleasePeaks, AdvanceKeeps DEF DropHolding
  <1>3. CASE DropCall(t)
    <2>1. CASE loc[t].fin = "holding" \/ loc[t].res = NoPermit
      <3>1. loc' = [loc EXCEPT ![t] = Trimming(loc[t], "member")] /\ UNCHANGED <<rows, permits>>
        BY <1>3, <2>1 DEF DropCall
      <3>2. Advances(t)
        BY <1>1, <3>1, LocalRecord, FollowsSame, FollowsTrimming DEF Advances
      <3> QED BY <1>1, <3>1, <3>2, QuietAdvance
    <2>2. CASE ~(loc[t].fin = "holding" \/ loc[t].res = NoPermit)
      <3>1. /\ loc' = [loc EXCEPT ![t] = Trimming([loc[t] EXCEPT !.res = NoPermit], "member")]
            /\ ReleasePermit(loc[t].res)
        BY <1>3, <2>2 DEF DropCall
      <3> QED BY <1>1, <3>1, ResDropped, ReleasePeaks, AdvanceKeeps
    <2> QED BY <2>1, <2>2
  <1> QED BY <1>2, <1>3

(* A row of which a count of references or pins moves. *)
LEMMA RowCounts ==
    ASSUME Inv, NEW k \in Key, NEW r, rows' = [rows EXCEPT ![k] = r],
           r.learned = rows[k].learned, r.calls = rows[k].calls,
           r.wave = rows[k].wave, r.body = rows[k].body
    PROVE  RowsRemember
  <1>1. rows'[k] = r /\ \A j \in Key \ {k} : rows'[j] = rows[j]
    BY DEF Inv, TypedInv
  <1> QED BY <1>1, RowsAlike

LEMMA DropMemberRetry ==
    ASSUME Inv, Inv', RetryInv, NEW t \in Thread, DropMember(t)
    PROVE  RetryInv'
  <1>0. PICK k : k = loc[t].key
    OBVIOUS
  <1>1. pc[t] = "member" /\ Proceeds(t) /\ UNCHANGED <<permits, generation>>
    BY TrimProceeds DEF DropMember, hostVars
  <1>2. k \in Key /\ rows[k] \in RowT
    <2>1. loc[t] \in Local /\ k # NoKey
      BY <1>0, <1>1, LocalRecord DEF Place, Aim, Trims
    <2> QED BY <1>0, <2>1 DEF Local, Inv, TypedInv
  <1>3. RowsRemember
    <2> DEFINE r == [rows[k] EXCEPT !.refs = rows[k].refs - 1]
    <2>1. rows' = [rows EXCEPT ![k] = r]
      BY <1>0 DEF DropMember
    <2>2. /\ r.learned = rows[k].learned /\ r.calls = rows[k].calls
          /\ r.wave = rows[k].wave /\ r.body = rows[k].body
      BY <1>2 DEF RowT
    <2> HIDE DEF r
    <2> QED BY <1>2, <2>1, <2>2, RowCounts
  <1>4. Advances(t)
    <2> DEFINE l == [loc[t] EXCEPT !.victim = k]
    <2>1. loc' = [loc EXCEPT ![t] = Trimming(l, loc[t].fin)]
      BY <1>0, LocalRecord DEF DropMember, Local
    <2>2. /\ l \in Local /\ l.answer = loc[t].answer /\ l.again = loc[t].again
          /\ l.key = loc[t].key /\ l.prep = loc[t].prep /\ l.res = loc[t].res
      BY <1>2, LocalRecord DEF Local
    <2> HIDE DEF l
    <2>3. Follows(l, loc[t])
      BY <2>2, FollowsLike
    <2>4. Follows(Trimming(l, loc[t].fin), loc[t])
      BY <2>2, <2>3, FollowsTrimming
    <2> QED BY <1>1, <2>1, <2>4 DEF Advances
  <1>5. PeaksStay
    BY <1>1 DEF PeaksStay
  <1> QED BY <1>1, <1>3, <1>4, <1>5, AdvanceKeeps

LEMMA UnpinLedgerRetry ==
    ASSUME Inv, Inv', RetryInv, NEW t \in Thread, UnpinLedger(t)
    PROVE  RetryInv'
  <1>0. PICK k : k = loc[t].key
    OBVIOUS
  <1>1. pc[t] = "unpin" /\ Proceeds(t) /\ UNCHANGED <<permits, generation>>
    BY TrimProceeds DEF UnpinLedger, hostVars
  <1>2. k \in Key /\ rows[k] \in RowT
    <2>1. loc[t] \in Local /\ k # NoKey
      BY <1>0, <1>1, LocalRecord DEF Place, Aim, Trims
    <2> QED BY <1>0, <2>1 DEF Local, Inv, TypedInv
  <1>3. RowsRemember
    <2> DEFINE r == [rows[k] EXCEPT !.pins = rows[k].pins - 1]
    <2>1. rows' = [rows EXCEPT ![k] = r]
      BY <1>0 DEF UnpinLedger
    <2>2. /\ r.learned = rows[k].learned /\ r.calls = rows[k].calls
          /\ r.wave = rows[k].wave /\ r.body = rows[k].body
      BY <1>2 DEF RowT
    <2> HIDE DEF r
    <2> QED BY <1>2, <2>1, <2>2, RowCounts
  <1>4. Advances(t)
    <2>1. loc' = [loc EXCEPT ![t] = Trimming(loc[t], "member")]
      BY DEF UnpinLedger
    <2> QED BY <1>1, <2>1, LocalRecord, FollowsSame, FollowsTrimming DEF Advances
  <1>5. PeaksStay
    BY <1>1 DEF PeaksStay
  <1> QED BY <1>1, <1>3, <1>4, <1>5, AdvanceKeeps

LEMMA DropRawLedgerRetry ==
    ASSUME Inv, Inv', RetryInv, NEW t \in Thread, DropRawLedger(t)
    PROVE  RetryInv'
  <1> DEFINE l == [loc[t] EXCEPT !.goneRaw = NoRaw]
  <1>1. loc' = [loc EXCEPT ![t] = Trimming(l, "idle")] /\ Proceeds(t)
    BY TrimProceeds DEF DropRawLedger
  <1>2. /\ l \in Local /\ l.answer = loc[t].answer /\ l.again = loc[t].again
        /\ l.key = loc[t].key /\ l.prep = loc[t].prep /\ l.res = loc[t].res
    BY LocalRecord DEF Local
  <1> HIDE DEF l
  <1>3. Advances(t)
    BY <1>1, <1>2, FollowsLike, FollowsTrimming DEF Advances
  <1> QED BY <1>3, QuietAdvance DEF DropRawLedger, hostVars

-----------------------------------------------------------------------------
(* What an idle thread starts                                              *)

LEMMA StartAdvances ==
    ASSUME Inv, NEW t \in Thread, NEW l, NEW p, Start(t, l, p),
           p \notin {"overrun", "prepare"}, l.answer = "none", ~l.again
    PROVE  Advances(t)
  BY FollowsFresh DEF Start, Goto, Advances, Proceeds

LEMMA ClientRetry ==
    ASSUME Inv, Inv', RetryInv, NEW t \in Thread, ClientStart(t)
    PROVE  RetryInv'
  <1>1. ASSUME NEW k \in Key, Unpin(t, k)
        PROVE  RetryInv'
    <2> DEFINE l == [NoCall EXCEPT !.key = k]
    <2>1. Start(t, l, "unpin") /\ l.answer = "none" /\ ~l.again
      BY <1>1 DEF Unpin, NoCall
    <2> HIDE DEF l
    <2>2. Advances(t)
      BY <2>1, StartAdvances
    <2> QED BY <1>1, <2>2, QuietAdvance DEF Unpin, ledgerVars, hostVars
  <1>2. ASSUME NEW k \in Key, TakeRaw(t, k)
        PROVE  RetryInv'
    <2>1. pc[t] = "idle" /\ UNCHANGED <<rows, permits, generation, pc, loc>>
      BY <1>2 DEF TakeRaw, hostVars
    <2>2. Advances(t)
      <3>1. pc' = [pc EXCEPT ![t] = "idle"]
        BY <2>1 DEF Inv, TypedInv
      <3> QED BY <2>1, <3>1, SameAdvances DEF Proceeds
    <2> QED BY <2>1, <2>2, QuietAdvance
  <1>3. ASSUME NEW k \in Key, NEW a \in Accesses, Lease(t, k, a)
        PROVE  RetryInv'
    <2> DEFINE l == [NoCall EXCEPT !.key = k, !.access = a]
    <2>1. Start(t, l, "begin") /\ l.answer = "none" /\ ~l.again
      BY <1>3 DEF Lease, NoCall
    <2> HIDE DEF l
    <2>2. Advances(t)
      BY <2>1, StartAdvances
    <2> QED BY <1>3, <2>2, QuietAdvance DEF Lease, ledgerVars, hostVars
  <1>4. ASSUME NEW id \in RawId, DropRaw(t, id)
        PROVE  RetryInv'
    <2> DEFINE l == [NoCall EXCEPT !.goneRaw = id]
    <2>1. Start(t, l, "unraw") /\ l.answer = "none" /\ ~l.again
      BY <1>4 DEF DropRaw, NoCall
    <2> HIDE DEF l
    <2>2. Advances(t)
      BY <2>1, StartAdvances
    <2> QED BY <1>4, <2>2, QuietAdvance DEF DropRaw, ledgerVars, hostVars
  <1> QED BY <1>1, <1>2, <1>3, <1>4 DEF ClientStart

LEMMA NoCallFresh == NoCall.answer = "none" /\ ~NoCall.again
  BY DEF NoCall

LEMMA RetainRetry ==
    ASSUME Inv, Inv', RetryInv, NEW t \in Thread, NEW k \in Key, Retain(t, k)
    PROVE  RetryInv'
  <1>1. Advances(t)
    BY NoCallFresh, StartAdvances DEF Retain
  <1>2. k \notin generation /\ generation' = generation \cup {k} /\ UNCHANGED permits
    BY DEF Retain
  <1>3. rows[k] \in RowT
    BY DEF Inv, TypedInv
  <1>4. RowsRemember
    <2>1. CASE rows[k].present
      <3> DEFINE r == [rows[k] EXCEPT !.refs = rows[k].refs + 1]
      <3>1. rows' = [rows EXCEPT ![k] = r]
        BY <2>1 DEF Retain
      <3>2. /\ r.learned = rows[k].learned /\ r.calls = rows[k].calls
            /\ r.wave = rows[k].wave /\ r.body = rows[k].body
        BY <1>3 DEF RowT
      <3> HIDE DEF r
      <3> QED BY <3>1, <3>2, RowCounts
    <2>2. CASE ~rows[k].present
      <3>1. rows'[k] = NewRow /\ \A j \in Key \ {k} : rows'[j] = rows[j]
        BY <2>2 DEF Retain, Inv, TypedInv
      <3>2. NewRow.wave = NoPermit
        BY DEF NewRow, Absent
      <3> QED BY <1>2, <3>1, <3>2 DEF RowsRemember, Hinted
    <2> QED BY <2>1, <2>2
  <1>5. PeaksStay
    BY <1>2 DEF PeaksStay
  <1>6. \A u \in Thread : Steady(u)
    BY <1>1, AdvanceSteady
  <1>7. \A u \in Thread : loc[u].key \in generation => loc[u].key \in generation'
    BY <1>2
  <1> QED BY <1>4, <1>5, <1>6, <1>7, SteadyKeeps

LEMMA DropGenerationRetry ==
    ASSUME Inv, Inv', RetryInv, NEW t \in Thread, NEW k \in Key, DropGeneration(t, k)
    PROVE  RetryInv'
  <1> DEFINE l == [NoCall EXCEPT !.key = k]
  <1>1. Start(t, l, "member") /\ l.answer = "none" /\ ~l.again
    BY DEF DropGeneration, NoCall
  <1> HIDE DEF l
  <1>2. Advances(t)
    BY <1>1, StartAdvances
  <1>3. /\ generation' = generation \ {k} /\ (\A u \in Thread : loc[u].key # k)
        /\ UNCHANGED <<rows, permits>>
    BY DEF DropGeneration, ledgerVars
  <1>4. \A u \in Thread : Steady(u)
    BY <1>2, AdvanceSteady
  <1>5. PeaksStay /\ RowsRemember
    BY <1>3, StillRemembers DEF PeaksStay
  <1>6. \A u \in Thread : loc[u].key \in generation => loc[u].key \in generation'
    BY <1>3
  <1> QED BY <1>4, <1>5, <1>6, SteadyKeeps

LEMMA HostRetry ==
    ASSUME Inv, Inv', RetryInv, NEW t \in Thread, HostStart(t)
    PROVE  RetryInv'
  <1>1. ASSUME NEW b \in StageSizes, Reserve(t, b)
        PROVE  RetryInv'
    <2> DEFINE l == [NoCall EXCEPT !.need = b]
    <2>1. Start(t, l, "admit") /\ l.answer = "none" /\ ~l.again
      BY <1>1 DEF Reserve, NoCall
    <2> HIDE DEF l
    <2>2. Advances(t)
      BY <2>1, StartAdvances
    <2> QED BY <1>1, <2>2, QuietAdvance DEF Reserve, ledgerVars, hostVars
  <1>2. ASSUME NEW n, SetLimit(t, n) \/ SetFloor(t, n)
        PROVE  RetryInv'
    <2>1. Advances(t)
      BY <1>2, NoCallFresh, StartAdvances DEF SetLimit, SetFloor
    <2> QED BY <1>2, <2>1, QuietAdvance DEF SetLimit, SetFloor, ledgerVars
  <1> QED BY <1>1, <1>2, RetainRetry, DropGenerationRetry DEF HostStart

LEMMA PassageRetry ==
    ASSUME Inv, Inv', RetryInv, Passage \/ UNCHANGED allVars
    PROVE  RetryInv'
  <1>1. ASSUME NEW t \in Thread, PatienceEnds(t)
        PROVE  RetryInv'
    <2> DEFINE l == [loc[t] EXCEPT !.patience = "over"]
    <2>1. /\ loc' = [loc EXCEPT ![t] = l] /\ UNCHANGED <<rows, permits, generation, pc>>
      BY <1>1 DEF PatienceEnds, ledgerVars, hostVars
    <2>2. /\ l.answer = loc[t].answer /\ l.again = loc[t].again
          /\ l.key = loc[t].key /\ l.prep = loc[t].prep /\ l.res = loc[t].res
      BY LocalRecord DEF Local
    <2> HIDE DEF l
    <2>4. loc'[t] = l /\ \A u \in Thread \ {t} : loc'[u] = loc[u]
      BY <2>1 DEF Inv, TypedInv
    <2>5. ASSUME NEW u \in Thread
          PROVE  /\ loc'[u].answer = loc[u].answer /\ loc'[u].again = loc[u].again
                 /\ loc'[u].key = loc[u].key /\ loc'[u].prep = loc[u].prep
                 /\ loc'[u].res = loc[u].res
      BY <2>2, <2>4
    <2>6. \A u \in Thread : Remembers(u)' /\ Provided(u)' /\ Once(u)'
      BY <2>1, <2>5 DEF RetryInv, Remembers, Provided, Once, Observed, InCall
    <2> QED BY <2>1, <2>6 DEF RetryInv, Hinted
  <1>2. CASE WaitingExpires \/ (\E k \in Key : OwedExpires(k)) \/ Census \/ UNCHANGED allVars
    <2>1. UNCHANGED <<rows, permits, generation, pc, loc>>
      BY <1>2 DEF WaitingExpires, OwedExpires, Census, allVars, vars, ledgerVars, hostVars
    <2> QED BY <2>1 DEF RetryInv, Hinted, Remembers, Provided, Once, Observed, InCall
  <1> QED BY <1>1, <1>2 DEF Passage

-----------------------------------------------------------------------------
(* Entering a call                                                         *)

(* Resident::prepare keeps what the retry of a lease carries. *)
LEMMA PrepareCarries ==
    ASSUME Inv, NEW t \in Thread, NEW m \in Local, NEW s \in Slot, Prepare(t, m, s)
    PROVE  /\ \E p \in {"spare", "resolve"} : pc' = [pc EXCEPT ![t] = p]
           /\ \A u \in Thread \ {t} : loc'[u] = loc[u]
           /\ loc'[t].again = m.again /\ loc'[t].key = m.key /\ loc'[t].res = m.res
           /\ loc'[t].answer = m.answer
  <1> DEFINE bumps == m.access = "Read" \/ s.phase = "Cold"
             spent == bumps /\ s.revision = MaxRevision
             reuse == IF s.lastRaw # NoRaw /\ Alive(s.lastRaw) THEN s.lastRaw ELSE NoRaw
             cold  == s.phase = "Cold" /\ ~spent
             a == IF spent THEN "failed" ELSE Outcome(s)
             b == s.phase = "Hot" /\ ~spent
             c == IF cold THEN reuse ELSE NoRaw
             h == [m EXCEPT !.prep = a]
             i == [h EXCEPT !.hasBody = b]
             l == [i EXCEPT !.raw = c]
             p == IF m.spare # NoPermit THEN "spare" ELSE "resolve"
  <1>1. loc' = [loc EXCEPT ![t] = l] /\ pc' = [pc EXCEPT ![t] = p]
    BY DEF Prepare, Goto
  <1>2. p \in {"spare", "resolve"}
    OBVIOUS
  <1> HIDE DEF p, a, b, c
  <1>3. h.again = m.again /\ h.key = m.key /\ h.res = m.res /\ h.answer = m.answer
    BY DEF Local
  <1> HIDE DEF h
  <1>4. i.again = m.again /\ i.key = m.key /\ i.res = m.res /\ i.answer = m.answer
    BY <1>3
  <1> HIDE DEF i
  <1>5. l.again = m.again /\ l.key = m.key /\ l.res = m.res /\ l.answer = m.answer
    BY <1>4
  <1> HIDE DEF l
  <1>6. loc'[t] = l /\ \A u \in Thread \ {t} : loc'[u] = loc[u]
    BY <1>1 DEF Inv, TypedInv
  <1> QED BY <1>1, <1>2, <1>5, <1>6

LEMMA PrepareJoinRetry ==
    ASSUME Inv, Inv', RetryInv, NEW t \in Thread, PrepareJoin(t)
    PROVE  RetryInv'
  <1>1. /\ pc[t] = "prepare" /\ Prepare(t, loc[t], slot[loc[t].key])
        /\ UNCHANGED <<rows, permits, generation>>
    BY DEF PrepareJoin, ledgerVars, hostVars
  <1>2. loc[t] \in Local /\ loc[t].key # NoKey
    BY <1>1, LocalRecord DEF Place, Aim, Trims
  <1>3. slot[loc[t].key] \in Slot
    BY <1>2 DEF Local, Inv, TypedInv
  <1>4. /\ \E p \in {"spare", "resolve"} : pc' = [pc EXCEPT ![t] = p]
        /\ \A u \in Thread \ {t} : loc'[u] = loc[u]
        /\ loc'[t].again = loc[t].again /\ loc'[t].key = loc[t].key
        /\ loc'[t].res = loc[t].res /\ loc'[t].answer = loc[t].answer
    BY <1>1, <1>2, <1>3, PrepareCarries
  <1>5. pc'[t] \in {"spare", "resolve"} /\ \A u \in Thread \ {t} : pc'[u] = pc[u]
    BY <1>4 DEF Inv, TypedInv
  <1>6. \A u \in Thread : Steady(u)
    <2>1. InCall(t, loc[t].key)
      BY <1>1 DEF InCall
    <2>2. Steady(t)
      BY <1>4, <1>5, <2>1 DEF Steady
    <2>3. ASSUME NEW u \in Thread \ {t}
          PROVE  Steady(u)
      <3>1. pc'[u] = pc[u] /\ loc'[u] = loc[u]
        BY <1>4, <1>5
      <3> QED BY <3>1 DEF Steady, InCall
    <2> QED BY <2>2, <2>3
  <1>7. PeaksStay /\ RowsRemember
    BY <1>1, StillRemembers DEF PeaksStay
  <1> QED BY <1>1, <1>6, <1>7, SteadyKeeps

(* The reservation a call enters with declares what its version learned:   *)
(* its own, or the one whose hint the row keeps.                           *)
LEMMA DeclaredEnough ==
    ASSUME Inv, RetryInv, NEW t \in Thread, NEW k \in Key, k = loc[t].key, ~UnderDeclared(k),
           NEW q \in PermitId, loc[t].again,
           IF NeedsWave(k) THEN q = loc[t].spare ELSE q = rows[k].wave
    PROVE  permits[q].peak >= Observed(k)
  <1>1. rows[k] \in RowT /\ permits[q] \in PermitT
    BY DEF Inv, TypedInv
  <1>2. rows[k].learned >= Observed(k) /\ Observed(k) \in Nat /\ rows[k].learned \in Nat
    BY <1>1, ResidencyAssumption DEF RetryInv, Remembers, Observed, RowT
  <1>3. ~(permits[q].peak < Declared(k))
    <2>1. CASE NeedsWave(k)
      <3>1. permits[q].refs # 0
        BY <2>1, NamedLive DEF Inv, TypedInv
      <3>2. permits[q].member = k
        BY <2>1, ResidencyAssumption DEF Inv, Belongs
      <3> QED BY <2>1, <3>1, <3>2 DEF UnderDeclared, NeedsWave, Live
    <2>2. CASE ~NeedsWave(k)
      <3>1. rows[k].wave # NoPermit
        BY <2>2, ResidencyAssumption
      <3>2. rows[k].calls # 0
        BY <2>2, <3>1 DEF NeedsWave, RetryInv, Hinted
      <3> QED BY <2>2, <3>1, <3>2 DEF UnderDeclared
    <2> QED BY <2>1, <2>2
  <1>4. permits[q].peak \in Nat /\ LoadPeak[k] \in Nat
    BY <1>1, ResidencyAssumption DEF PermitT
  <1> QED BY <1>2, <1>3, <1>4 DEF Declared

LEMMA EnterRetry ==
    ASSUME Inv, Inv', RetryInv, NEW t \in Thread, Enter(t)
    PROVE  RetryInv'
  <1> DEFINE k == loc[t].key
             opens == NeedsWave(k)
             res == IF opens THEN loc[t].spare ELSE rows[k].wave
             sp == IF opens THEN NoPermit ELSE loc[t].spare
             l0 == [loc[t] EXCEPT !.res = res]
             l == [l0 EXCEPT !.spare = sp]
             r == [rows[k] EXCEPT !.calls = rows[k].calls + 1, !.refs = rows[k].refs + 1, !.wave = res]
             x == IF opens THEN Reusable(k) ELSE slot[k].lastRaw
             s == [slot[k] EXCEPT !.lastRaw = x]
  <1>1. pc[t] = "begin" /\ ~UnderDeclared(k) /\ UNCHANGED generation
    BY DEF Enter, Startable, Beginning, hostVars
  <1>2. loc[t] \in Local /\ k \in Key
    <2>1. loc[t] \in Local /\ k # NoKey
      BY <1>1, LocalRecord DEF Place, Aim, Trims
    <2> QED BY <2>1 DEF Local
  <1>3. rows[k] \in RowT /\ slot[k] \in Slot /\ x \in RawId \cup {NoRaw}
    BY <1>2 DEF Inv, TypedInv, Reusable, Slot
  <1>4. res \in PermitId \cup {NoPermit} /\ sp \in PermitId \cup {NoPermit}
    BY <1>2, <1>3 DEF Local, RowT
  <1>5. rows' = [rows EXCEPT ![k] = r]
    BY <1>2 DEF Enter, RowT, Inv, TypedInv
  <1>6. permits' = permits \/ permits' = [permits EXCEPT ![res].refs = @ + 1]
    BY DEF Enter
  <1>7. s \in Slot
    BY <1>3 DEF Slot
  <1>8. \/ loc' = [loc EXCEPT ![t] = l] /\ pc' = [pc EXCEPT ![t] = "prepare"]
        \/ Prepare(t, l, s)
    BY DEF Enter, Goto
  <1>9. loc[t].again /\ res # NoPermit => permits[res].peak >= Observed(k)
    <2>1. ASSUME loc[t].again, res # NoPermit
          PROVE  permits[res].peak >= Observed(k)
      <3>1. res \in PermitId
        BY <1>4, <2>1
      <3> QED BY <1>1, <1>2, <2>1, <3>1, DeclaredEnough
    <2> QED BY <2>1
  <1> HIDE DEF x, s
  <1>10. /\ l0 \in Local /\ l0.again = loc[t].again /\ l0.key = k /\ l0.res = res
         /\ l0.answer = loc[t].answer
    BY <1>2, <1>4 DEF Local
  <1> HIDE DEF l0
  <1>11. /\ l \in Local /\ l.again = loc[t].again /\ l.key = k /\ l.res = res
         /\ l.answer = loc[t].answer
    BY <1>4, <1>10 DEF Local
  <1> HIDE DEF l
  <1>12. /\ pc'[t] # "overrun" /\ \A u \in Thread \ {t} : pc'[u] = pc[u] /\ loc'[u] = loc[u]
         /\ loc'[t].again = loc[t].again /\ loc'[t].key = k /\ loc'[t].res = res
         /\ loc'[t].answer = loc[t].answer
    <2>1. CASE loc' = [loc EXCEPT ![t] = l] /\ pc' = [pc EXCEPT ![t] = "prepare"]
      BY <1>11, <2>1 DEF Inv, TypedInv
    <2>2. CASE Prepare(t, l, s)
      <3>1. /\ \E p \in {"spare", "resolve"} : pc' = [pc EXCEPT ![t] = p]
            /\ \A u \in Thread \ {t} : loc'[u] = loc[u]
            /\ loc'[t].again = l.again /\ loc'[t].key = l.key /\ loc'[t].res = l.res
            /\ loc'[t].answer = l.answer
        BY <1>7, <1>11, <2>2, PrepareCarries
      <3>2. pc'[t] \in {"spare", "resolve"} /\ \A u \in Thread \ {t} : pc'[u] = pc[u]
        BY <3>1 DEF Inv, TypedInv
      <3> QED BY <1>11, <3>1, <3>2
    <2> QED BY <1>8, <2>1, <2>2
  <1>13. PeaksStay
    BY <1>6, ClonePeaks DEF PeaksStay
  <1>14. /\ r.learned = rows[k].learned /\ r.calls = rows[k].calls + 1
    BY <1>3, <1>4 DEF RowT
  <1> HIDE DEF r
  <1>15. rows'[k] = r /\ \A j \in Key \ {k} : rows'[j] = rows[j]
    BY <1>2, <1>5 DEF Inv, TypedInv
  <1>16. \A j \in Key : Hinted(j)'
    <2>1. rows[k].calls + 1 # 0
      <3>1. rows[k].calls = Cardinality(Callers(k))
        BY <1>2 DEF Inv, LeasesCounted, Callers
      <3>2. Cardinality(Callers(k)) \in Nat
        BY CountZero DEF Callers
      <3> QED BY <3>1, <3>2
    <2> QED BY <1>14, <1>15, <2>1 DEF RetryInv, Hinted
  <1>17. \A j \in Key : j \in generation => Recalls(j)
    BY <1>14, <1>15 DEF Recalls
  <1>18. ASSUME NEW u \in Thread \ {t}
         PROVE  Remembers(u)' /\ Provided(u)' /\ Once(u)'
    <2>1. Steady(u)
      <3>1. pc'[u] = pc[u] /\ loc'[u] = loc[u]
        BY <1>12
      <3> QED BY <3>1 DEF Steady, InCall
    <2> QED BY <1>1, <1>13, <1>17, <2>1, ThreadKeeps
  <1>19. Remembers(t)'
    <2>1. Remembers(t) /\ pc[t] # "overrun"
      BY <1>1 DEF RetryInv
    <2>2. rows'[k].learned = rows[k].learned
      BY <1>14, <1>15
    <2> QED BY <1>1, <1>12, <2>1, <2>2 DEF Remembers, Observed
  <1>20. Provided(t)'
    <2>1. res # NoPermit => permits'[res].peak = permits[res].peak
      BY <1>4, <1>6 DEF Inv, TypedInv, PermitT
    <2> HIDE DEF res
    <2> QED BY <1>9, <1>12, <2>1 DEF Provided, Observed
  <1>21. Once(t)'
    BY <1>12 DEF RetryInv, Once
  <1> QED BY <1>16, <1>18, <1>19, <1>20, <1>21 DEF RetryInv

-----------------------------------------------------------------------------
(* Loads, and what a call leaves                                           *)

LEMMA LoadRetry ==
    ASSUME Inv, Inv', RetryInv, NEW t \in Thread, LoadOk(t) \/ LoadFail(t)
    PROVE  RetryInv'
  <1>1. /\ pc[t] = "resolve" /\ loc[t].prep = "load"
        /\ UNCHANGED <<rows, permits, generation, pc>>
    BY DEF LoadOk, LoadFail, Resolving, ledgerVars, hostVars
  <1>2. PICK a, b : \A u \in Thread :
          loc'[u] = IF u = t \/ u \in Waiters(loc[t].key)
                    THEN [loc[u] EXCEPT !.prep = a, !.hasBody = b, !.raw = NoRaw] ELSE loc[u]
    <2>1. CASE LoadOk(t)
      BY <2>1 DEF LoadOk
    <2>2. CASE LoadFail(t)
      <3>1. ASSUME NEW u \in Thread, u = t \/ u \in Waiters(loc[t].key)
            PROVE  loc'[u] = [loc[u] EXCEPT !.prep = "failed", !.hasBody = FALSE, !.raw = NoRaw]
        <4>1. ~loc[u].hasBody /\ pc[u] # "body"
          BY <1>1, <3>1, LocalRecord DEF Place, Waiters, Aim, Trims
        <4>2. loc[u] \in Local
          BY LocalRecord
        <4>3. loc[u].hasBody = FALSE
          BY <4>1, <4>2 DEF Local
        <4>4. loc[u] = [loc[u] EXCEPT !.hasBody = FALSE]
          BY <4>2, <4>3 DEF Local
        <4>5. loc'[u] = [loc[u] EXCEPT !.prep = "failed", !.raw = NoRaw]
          BY <2>2, <3>1 DEF LoadFail
        <4> QED BY <4>2, <4>3, <4>4, <4>5, ZenonT(30) DEF Local
      <3> QED BY <2>2, <3>1 DEF LoadFail
    <2> QED BY <2>1, <2>2
  <1>3. ASSUME NEW u \in Thread
        PROVE  Steady(u)
    <2>1. CASE u = t \/ u \in Waiters(loc[t].key)
      <3> DEFINE l == [loc[u] EXCEPT !.prep = a, !.hasBody = b, !.raw = NoRaw]
      <3>1. loc'[u] = l
        BY <1>2, <2>1
      <3>2. l.answer = loc[u].answer /\ l.again = loc[u].again /\ l.key = loc[u].key
            /\ l.res = loc[u].res
        OBVIOUS
      <3>3. loc[u].prep \in {"load", "wait"}
        BY <1>1, <2>1 DEF Waiters
      <3>4. InCall(u, loc[u].key) /\ pc[u] # "overrun"
        BY <3>3, LocalRecord DEF InCall, Place
      <3> HIDE DEF l
      <3> QED BY <1>1, <3>1, <3>2, <3>4 DEF Steady
    <2>2. CASE ~(u = t \/ u \in Waiters(loc[t].key))
      BY <1>1, <1>2, <2>2 DEF Steady, InCall
    <2> QED BY <2>1, <2>2
  <1>4. PeaksStay /\ RowsRemember
    BY <1>1, StillRemembers DEF PeaksStay
  <1> QED BY <1>1, <1>3, <1>4, SteadyKeeps

LEMMA LearnRetry ==
    ASSUME Inv, Inv', RetryInv, NEW t \in Thread, Learn(t)
    PROVE  RetryInv'
  <1>0. PICK k, m : k = loc[t].key /\ m = Max({rows[k].learned, Observed(k)})
    OBVIOUS
  <1>1. /\ pc[t] = "resolve" /\ loc[t].prep = "ready" /\ Overran(t)
        /\ UNCHANGED <<permits, generation, loc>>
    BY DEF Learn, Resolving, hostVars
  <1>2. loc[t] \in Local /\ Place(pc[t], loc[t])
    BY LocalRecord
  <1>3. k \in Key /\ rows[k] \in RowT
    <2>1. k # NoKey
      BY <1>0, <1>1, <1>2 DEF Place, Aim, Trims
    <2> QED BY <1>0, <1>2, <2>1 DEF Local, Inv, TypedInv
  <1>4. Observed(k) \in Nat /\ rows[k].learned \in Nat
    BY <1>3, ResidencyAssumption DEF Observed, RowT
  <1>5. m >= Observed(k)
    <2>1. \E x \in {rows[k].learned, Observed(k)} :
            \A y \in {rows[k].learned, Observed(k)} : x >= y
      BY <1>4
    <2> QED BY <1>0, <2>1 DEF Max
  <1>6. rows'[k].learned = m /\ \A j \in Key : /\ j # k => rows'[j] = rows[j]
                                               /\ rows'[j].calls = rows[j].calls
                                               /\ rows'[j].wave = rows[j].wave
                                               /\ rows'[j].body = rows[j].body
    <2> DEFINE r1 == [rows[k] EXCEPT !.learned = m]
               r == [r1 EXCEPT !.forced = TRUE]
    <2>1. rows' = [rows EXCEPT ![k] = r]
      BY <1>0, <1>3 DEF Learn, RowT
    <2>2. /\ r.learned = m /\ r.calls = rows[k].calls /\ r.wave = rows[k].wave
          /\ r.body = rows[k].body
      BY <1>3 DEF RowT
    <2> HIDE DEF r
    <2>3. rows'[k] = r /\ \A j \in Key \ {k} : rows'[j] = rows[j]
      BY <1>3, <2>1 DEF Inv, TypedInv
    <2> QED BY <2>2, <2>3
  <1>7. pc'[t] = "overrun" /\ \A u \in Thread \ {t} : pc'[u] = pc[u]
    BY DEF Learn, Goto, Inv, TypedInv
  <1>8. ~loc[t].again
    <2>1. SUFFICES ASSUME loc[t].again
                   PROVE  FALSE
      OBVIOUS
    <2>2. InCall(t, k) /\ loc[t].res # NoPermit
      BY <1>0, <1>1 DEF InCall, Overran
    <2>3. permits[loc[t].res].peak >= Observed(k)
      BY <1>0, <2>1, <2>2 DEF RetryInv, Provided
    <2>4. permits[loc[t].res].peak \in Nat
      BY <1>2, <2>2 DEF Local, Inv, TypedInv, PermitT
    <2> QED BY <1>0, <1>1, <1>4, <2>3, <2>4 DEF Overran
  <1>9. k \in generation
    <2>1. ~Ends(pc[t], loc[t]) /\ k # NoKey
      BY <1>1, <1>3, ResidencyAssumption DEF Ends
    <2> QED BY <1>0, <2>1 DEF Inv, Entitled
  <1>10. PeaksStay
    BY <1>1 DEF PeaksStay
  <1>11. \A j \in Key : Recalls(j)
    BY <1>5, <1>6 DEF Recalls
  <1>12. ASSUME NEW u \in Thread \ {t}
         PROVE  Remembers(u)' /\ Provided(u)' /\ Once(u)'
    <2>1. Steady(u)
      BY <1>1, <1>7 DEF Steady, InCall
    <2> QED BY <1>1, <1>10, <1>11, <2>1, ThreadKeeps
  <1>13. Remembers(t)'
    BY <1>0, <1>1, <1>3, <1>5, <1>6, <1>9 DEF Remembers, Observed
  <1>14. Provided(t)'
    BY <1>1, <1>8 DEF Provided
  <1>15. Once(t)'
    BY <1>1, <1>8 DEF Once, RetryInv
  <1>16. \A j \in Key : Hinted(j)'
    BY <1>6 DEF Hinted, RetryInv
  <1> QED BY <1>12, <1>13, <1>14, <1>15, <1>16 DEF RetryInv

(* A row whose last call takes its join hint along. *)
LEMMA LeftHinted ==
    ASSUME Inv, RetryInv, NEW k \in Key, OtherRows(k), rows'[k].learned = rows[k].learned,
           rows'[k].calls = rows[k].calls - 1,
           rows'[k].wave = IF rows[k].calls = 1 THEN NoPermit ELSE rows[k].wave
    PROVE  RowsRemember /\ \A j \in Key : Recalls(j)
  <1>1. rows[k].calls \in Int
    BY DEF Inv, TypedInv, RowT
  <1>2. rows'[k].calls = 0 => rows'[k].wave = NoPermit
    BY <1>1
  <1> QED BY <1>2 DEF OtherRows, RowsRemember, Recalls, Hinted

LEMMA FinishHotRetry ==
    ASSUME Inv, RetryInv, NEW t \in Thread, NEW k \in Key, loc[t].key = k,
           NEW n \in {0, 1}, FinishHot(t, n)
    PROVE  /\ RowsRemember /\ PeaksStay /\ \A j \in Key : Recalls(j)
           /\ UNCHANGED generation
  <1> DEFINE a == IF rows[k].body = 0 THEN slot[k].raw ELSE rows[k].raw
             b == IF rows[k].body = 0 THEN TreeSize[k] ELSE rows[k].body
             w == IF rows[k].calls = 1 THEN NoPermit ELSE rows[k].wave
             c == rows[k].calls - 1
             r1 == [rows[k] EXCEPT !.raw = a]
             r2 == [r1 EXCEPT !.body = b]
             r3 == [r2 EXCEPT !.calls = c]
             r4 == [r3 EXCEPT !.pins = rows[k].pins + n, !.refs = rows[k].refs + n]
             r == [r4 EXCEPT !.wave = w]
  <1>1. rows[k] \in RowT
    BY DEF Inv, TypedInv
  <1>2. rows' = [rows EXCEPT ![k] = r]
    BY <1>1, ZenonT(30) DEF FinishHot, RowT
  <1> HIDE DEF a, b, w, c
  <1>3. r2.learned = rows[k].learned /\ DOMAIN r2 = DOMAIN rows[k]
    BY <1>1 DEF RowT
  <1>3a. {"calls", "wave"} \subseteq DOMAIN rows[k]
    BY <1>1 DEF RowT
  <1> HIDE DEF r2
  <1>4. r3.learned = r2.learned /\ r3.calls = c /\ DOMAIN r3 = DOMAIN r2
    BY <1>3, <1>3a
  <1> HIDE DEF r3
  <1>5. r4.learned = r3.learned /\ r4.calls = r3.calls /\ DOMAIN r4 = DOMAIN r3
    OBVIOUS
  <1> HIDE DEF r4
  <1>6. r.learned = r4.learned /\ r.calls = r4.calls /\ r.wave = w
    BY <1>3, <1>3a, <1>4, <1>5
  <1> HIDE DEF r
  <1>7. rows'[k] = r /\ OtherRows(k)
    BY <1>2 DEF OtherRows, Inv, TypedInv
  <1>8. RowsRemember /\ \A j \in Key : Recalls(j)
    BY <1>3, <1>4, <1>5, <1>6, <1>7, LeftHinted DEF c, w
  <1>9. loc[t].res \in PermitId \cup {NoPermit}
    BY LocalRecord DEF Local
  <1>10. PeaksStay
    BY <1>9, SettlePeaks DEF FinishHot
  <1> QED BY <1>8, <1>10 DEF FinishHot, hostVars

LEMMA FinishPinRetry ==
    ASSUME Inv, Inv', RetryInv, NEW t \in Thread, FinishPin(t)
    PROVE  RetryInv'
  <1>1. pc[t] = "resolve" /\ FinishHot(t, 1) /\ Proceeds(t)
    BY DEF FinishPin, Resolving, Goto, Proceeds
  <1>2. loc[t].key \in Key
    BY <1>1, LocalRecord DEF Place, Aim, Trims, Local
  <1>3. RowsRemember /\ PeaksStay /\ UNCHANGED generation
    BY <1>1, <1>2, FinishHotRetry
  <1>4. Advances(t)
    <2> DEFINE l1 == [loc[t] EXCEPT !.hasBody = FALSE]
               l2 == [l1 EXCEPT !.prep = "done"]
               l == [l2 EXCEPT !.fin = "idle"]
    <2>1. loc' = [loc EXCEPT ![t] = l]
      BY DEF FinishPin
    <2>2. /\ l.answer = loc[t].answer /\ l.again = loc[t].again /\ l.key = loc[t].key
          /\ l.res = loc[t].res
      OBVIOUS
    <2>3. l.prep = "done"
      BY LocalRecord DEF Local
    <2> HIDE DEF l
    <2>4. ~Calling(l)
      BY <2>3 DEF Calling
    <2> QED BY <1>1, <2>1, <2>2, <2>4, FollowsLike DEF Advances
  <1> QED BY <1>3, <1>4, AdvanceKeeps

(* The second overrun would be answered here; the first one begins the one *)
(* retry, which finds the version as large as its row says.                *)
LEMMA FinishOverrunRetry ==
    ASSUME Inv, Inv', RetryInv, NEW t \in Thread, FinishOverrun(t)
    PROVE  RetryInv'
  <1>0. PICK k : k = loc[t].key
    OBVIOUS
  <1>1. pc[t] = "overrun" /\ FinishHot(t, 0)
    BY DEF FinishOverrun
  <1>2. /\ ~loc[t].again /\ k \in Key /\ k \in generation
        /\ rows[k].learned >= Observed(k)
    BY <1>0, <1>1 DEF RetryInv, Once, Remembers
  <1>3. /\ RowsRemember /\ PeaksStay /\ UNCHANGED generation /\ \A j \in Key : Recalls(j)
    BY <1>0, <1>1, <1>2, FinishHotRetry
  <1>4. pc'[t] = "body" /\ \A u \in Thread \ {t} : pc'[u] = pc[u] /\ loc'[u] = loc[u]
    BY DEF FinishOverrun, Goto, Inv, TypedInv
  <1>5. loc'[t].key = k /\ loc'[t].prep = "done" /\ loc'[t].answer = "none"
    <2> DEFINE l1 == [loc[t] EXCEPT !.prep = "done"]
               l2 == [l1 EXCEPT !.fin = "begin"]
               l3 == [l2 EXCEPT !.answer = "none"]
               l == [l3 EXCEPT !.again = TRUE]
    <2>1. loc' = [loc EXCEPT ![t] = l]
      BY <1>2 DEF FinishOverrun
    <2>2. l.key = k /\ l.prep = "done" /\ l.answer = "none"
      BY <1>0, LocalRecord DEF Local
    <2> HIDE DEF l
    <2> QED BY <2>1, <2>2 DEF Inv, TypedInv
  <1>6. ASSUME NEW u \in Thread \ {t}
        PROVE  Remembers(u)' /\ Provided(u)' /\ Once(u)'
    <2>1. Steady(u)
      BY <1>4 DEF Steady, InCall
    <2> QED BY <1>3, <2>1, ThreadKeeps
  <1>7. Remembers(t)'
    <2>1. rows'[k].learned = rows[k].learned
      BY <1>2, <1>3 DEF RowsRemember
    <2> QED BY <1>2, <1>3, <1>5, <2>1 DEF Remembers, Observed
  <1>8. Provided(t)' /\ Once(t)'
    BY <1>4, <1>5 DEF Provided, Once, InCall
  <1>9. \A j \in Key : Hinted(j)'
    BY <1>3 DEF RetryInv, RowsRemember
  <1> QED BY <1>6, <1>7, <1>8, <1>9 DEF RetryInv

LEMMA FinishFailRetry ==
    ASSUME Inv, Inv', RetryInv, NEW t \in Thread, FinishFail(t)
    PROVE  RetryInv'
  <1>0. PICK k, first, b :
          /\ k = loc[t].key /\ first = (loc[t].raw # NoRaw /\ rows[k].body = 0)
          /\ b = IF first /\ loc[t].snap = "Hot" THEN TreeSize[k] ELSE 0
    OBVIOUS
  <1>1. pc[t] = "fail" /\ Proceeds(t) /\ UNCHANGED generation
    BY DEF FinishFail, Goto, Proceeds, hostVars
  <1>2. k \in Key /\ rows[k] \in RowT
    BY <1>0, <1>1, SnapTyped DEF Inv, TypedInv
  <1>3. RowsRemember
    <2> DEFINE a == IF first THEN loc[t].raw ELSE rows[k].raw
               c == rows[k].calls - 1
               w == IF rows[k].calls = 1 THEN NoPermit ELSE rows[k].wave
               d == rows[k].body + b
               r1 == [rows[k] EXCEPT !.raw = a]
               r2 == [r1 EXCEPT !.body = d]
               r3 == [r2 EXCEPT !.calls = c]
               r == [r3 EXCEPT !.wave = w]
    <2>1. rows' = [rows EXCEPT ![k] = r]
      BY <1>0, <1>2 DEF FinishFail, RowT
    <2> HIDE DEF a, c, w, d
    <2>2. r2.learned = rows[k].learned /\ DOMAIN r2 = DOMAIN rows[k]
          /\ {"calls", "wave"} \subseteq DOMAIN rows[k]
      BY <1>2 DEF RowT
    <2> HIDE DEF r2
    <2>3. r3.learned = r2.learned /\ r3.calls = c /\ DOMAIN r3 = DOMAIN r2
      BY <2>2
    <2> HIDE DEF r3
    <2>4. r.learned = r3.learned /\ r.calls = r3.calls /\ r.wave = w
      BY <2>2, <2>3
    <2> HIDE DEF r
    <2>5. rows'[k] = r /\ OtherRows(k)
      BY <1>2, <2>1 DEF OtherRows, Inv, TypedInv
    <2> QED BY <1>2, <2>2, <2>3, <2>4, <2>5, LeftHinted DEF c, w
  <1>4. PeaksStay
    <2>1. loc[t].res \in PermitId \cup {NoPermit}
      BY LocalRecord DEF Local
    <2>2. UNCHANGED permits \/ SettleWave(loc[t].res, loc[t].snap = "Hot", k)
      BY <1>0 DEF FinishFail
    <2> QED BY <2>1, <2>2, SettlePeaks DEF PeaksStay
  <1>5. Advances(t)
    <2> DEFINE f == IF loc[t].res = NoPermit THEN "idle" ELSE "holding"
               l1 == [loc[t] EXCEPT !.raw = NoRaw]
               l2 == [l1 EXCEPT !.prep = "done"]
               l == [l2 EXCEPT !.fin = f]
    <2>1. loc' = [loc EXCEPT ![t] = l]
      BY DEF FinishFail
    <2> HIDE DEF f
    <2>2. /\ l.answer = loc[t].answer /\ l.again = loc[t].again /\ l.key = loc[t].key
          /\ l.res = loc[t].res
      OBVIOUS
    <2>3. l.prep = "done"
      BY LocalRecord DEF Local
    <2> HIDE DEF l
    <2>4. ~Calling(l)
      BY <2>3 DEF Calling
    <2> QED BY <1>1, <2>1, <2>2, <2>4, FollowsLike DEF Advances
  <1> QED BY <1>1, <1>3, <1>4, <1>5, AdvanceKeeps

-----------------------------------------------------------------------------
(* Retries in every step *)

LEMMA StepRetry ==
    ASSUME Inv, Inv', RetryInv, NEW t \in Thread, Step(t)
    PROVE  RetryInv'
  <1>1. CASE BeginStep(t)
    BY <1>1, BeginRetry, EnterRetry, PrepareJoinRetry, DropSpareRetry DEF BeginStep
  <1>2. CASE AdmitStep(t)
    BY <1>2, AdmitRetry
  <1>3. CASE RetireStep(t)
    BY <1>3, RetireRetry
  <1>4. CASE CallStep(t)
    BY <1>4, LoadRetry, LearnRetry, FinishPinRetry, FinishOverrunRetry, FinishFailRetry,
       DropBodyRetry, FailReadRetry, DropCallRetry, DropMemberRetry, UnpinLedgerRetry,
       DropRawLedgerRetry DEF CallStep
  <1>5. CASE LeaseStep(t)
    BY <1>5, LeaseRetry
  <1> QED BY <1>1, <1>2, <1>3, <1>4, <1>5 DEF Step

LEMMA NextRetry ==
    ASSUME Inv, RetryInv, [Next]_allVars
    PROVE  RetryInv'
  <1>1. Inv'
    BY NextKeeps
  <1>2. CASE Passage \/ UNCHANGED allVars
    BY <1>1, <1>2, PassageRetry
  <1>3. ASSUME NEW t \in Thread, Step(t) \/ ClientStart(t) \/ HostStart(t)
        PROVE  RetryInv'
    BY <1>1, <1>3, StepRetry, ClientRetry, HostRetry
  <1> QED BY <1>2, <1>3 DEF Next

LEMMA InitRetry == Init => RetryInv
  <1> SUFFICES ASSUME Init
               PROVE  RetryInv
    OBVIOUS
  <1>1. \A k \in Key : rows[k].body = 0
    BY DEF Init, NewRow, Absent
  <1>2. \A t \in Thread : pc[t] = "idle" /\ ~loc[t].again /\ loc[t].answer = "none"
    BY DEF Init, NoCall
  <1> QED BY <1>1, <1>2 DEF RetryInv, Hinted, Remembers, Provided, Once

(* What an overrun taught about a version is not forgotten before the one  *)
(* retry of its lease is over, though rows of dropped versions are         *)
(* forgotten; and no load that the retry joins or finishes was declared    *)
(* below it.  So the retry of pin never meets a second overrun.            *)
THEOREM NoSecondOverrunHolds == Spec => []NoSecondOverrun
  <1>1. Init => Inv /\ RetryInv
    BY InitInv, InitRetry
  <1>2. (Inv /\ RetryInv) /\ [Next]_allVars => (Inv /\ RetryInv)'
    BY NextKeeps, NextRetry
  <1>3. RetryInv => NoSecondOverrun
    BY DEF RetryInv, Once, NoSecondOverrun
  <1> QED BY <1>1, <1>2, <1>3, PTL DEF Spec

-----------------------------------------------------------------------------
(* What a trim owes                                                        *)

(* Where a thread stands that will trim before it rests: in a trim, or     *)
(* with something to release that ends in one.                             *)
Owes(p, l) ==
    \/ p \in {"overrun", "body", "call", "member", "holding", "unpin", "unraw"}
    \/ p \in Trims /\ l.mode = "trim"
Bound(t) == Owes(pc[t], loc[t])

(* What a trim has to take: an idle body above the limit, and the body of  *)
(* an overrun that nobody uses.                                            *)
Spent(k) == rows[k].forced /\ ~rows[k].retiring /\ rows[k].pins = 0 /\ rows[k].calls = 0
Left == (Over /\ Reclaimable # {}) \/ \E k \in Key : Spent(k)
TrimOwed == Left => \E t \in Thread : Bound(t)

(* Who retires a version, and that the retirement will succeed: its ticket *)
(* still holds when the shed checks it.                                    *)
Retired(k) == rows[k].retiring => \E t \in Thread : Retires(t) /\ loc[t].victim = k
Ticket(t) ==
    /\ pc[t] = "shed" => TicketHolds(t)
    /\ pc[t] = "settle" => slot[loc[t].victim].phase = "Cold"
Forced(k) ==
    rows[k].forced => rows[k].body # 0 \/ \E t \in Thread : pc[t] = "overrun" /\ loc[t].key = k

TicketInv == (\A k \in Key : Retired(k) /\ Forced(k)) /\ \A t \in Thread : Ticket(t)
RestInv == TicketInv /\ TrimOwed

Grounds == Inv /\ BooksInv /\ ReservedInv /\ ListedInv /\ FlagsInv

(* A version whose retirement is under way keeps its slot to itself.       *)
TicketKept(k) ==
    /\ slot'[k].phase = slot[k].phase /\ slot'[k].revision = slot[k].revision
    /\ Unshared(k) => Unshared(k)'
Undisturbed ==
    /\ \A u \in Thread : Retires(u) \/ Retires(u)' =>
         pc'[u] = pc[u] /\ loc'[u].victim = loc[u].victim /\ loc'[u].vrev = loc[u].vrev
    /\ \A k \in Key : /\ rows'[k].retiring = rows[k].retiring
                      /\ rows[k].retiring => TicketKept(k)

LEMMA TicketStays ==
    ASSUME Inv, StoreInv, TicketInv, NEW u \in Thread, Retires(u)', pc'[u] = pc[u],
           loc'[u].victim = loc[u].victim, loc'[u].vrev = loc[u].vrev,
           TicketKept(loc[u].victim)
    PROVE  Ticket(u)'
  <1> DEFINE v == loc[u].victim
  <1>1. TicketKept(v) /\ Ticket(u)
    BY DEF TicketInv
  <1> HIDE DEF v
  <1> QED BY <1>1 DEF Ticket, TicketHolds, TicketKept, v

LEMMA UndisturbedKeeps ==
    ASSUME Inv, StoreInv, TicketInv, Undisturbed, \A k \in Key : Forced(k)'
    PROVE  TicketInv'
  <1>1. ASSUME NEW k \in Key
        PROVE  Retired(k)'
    <2> SUFFICES ASSUME rows'[k].retiring
                 PROVE  \E u \in Thread : Retires(u)' /\ loc'[u].victim = k
      BY DEF Retired
    <2>1. PICK u \in Thread : Retires(u) /\ loc[u].victim = k
      BY DEF TicketInv, Retired, Undisturbed
    <2> QED BY <2>1 DEF Undisturbed, Retires
  <1>2. ASSUME NEW u \in Thread
        PROVE  Ticket(u)'
    <2> SUFFICES ASSUME Retires(u)'
                 PROVE  Ticket(u)'
      BY DEF Ticket, Retires
    <2>1. /\ pc'[u] = pc[u] /\ loc'[u].victim = loc[u].victim /\ loc'[u].vrev = loc[u].vrev
          /\ Retires(u)
      BY DEF Undisturbed, Retires
    <2>2. loc[u].victim \in Key /\ rows[loc[u].victim].retiring
      BY <2>1, VictimTyped DEF StoreInv
    <2> QED BY <2>1, <2>2, TicketStays DEF Undisturbed
  <1> QED BY <1>1, <1>2 DEF TicketInv

(* A step of one thread that starts and ends no retirement and shares the  *)
(* body of no version that is being retired.                               *)
Shares(m, l) == m.hasBody => (l.hasBody /\ m.key = l.key) \/ ~rows[m.key].retiring
Uses(t) ==
    \E p, m : /\ p \notin {"shed", "settle"} /\ pc[t] \notin {"shed", "settle"}
              /\ pc' = [pc EXCEPT ![t] = p] /\ loc' = [loc EXCEPT ![t] = m]
              /\ Shares(m, loc[t])
Pins == \A u \in Thread : \A k \in held'[u] : k \in held[u] \/ ~rows[k].retiring
SlotRests(k) ==
    rows[k].retiring => slot'[k].phase = slot[k].phase /\ slot'[k].revision = slot[k].revision

LEMMA UsesUndisturbed ==
    ASSUME Inv, NEW t \in Thread, Uses(t), Pins,
           \A k \in Key : rows'[k].retiring = rows[k].retiring /\ SlotRests(k)
    PROVE  /\ Undisturbed
           /\ \A u \in Thread \ {t} : pc'[u] = pc[u] /\ loc'[u] = loc[u]
  <1>1. PICK p, m : /\ p \notin {"shed", "settle"} /\ pc[t] \notin {"shed", "settle"}
                    /\ pc' = [pc EXCEPT ![t] = p] /\ loc' = [loc EXCEPT ![t] = m]
                    /\ Shares(m, loc[t])
    BY DEF Uses
  <1>2. pc'[t] = p /\ loc'[t] = m /\ \A u \in Thread \ {t} : pc'[u] = pc[u] /\ loc'[u] = loc[u]
    BY <1>1 DEF Inv, TypedInv
  <1>3. \A u \in Thread : Retires(u) \/ Retires(u)' => u # t
    BY <1>1, <1>2 DEF Retires
  <1>4. ASSUME NEW k \in Key, Unshared(k), rows[k].retiring
        PROVE  Unshared(k)'
    <2> SUFFICES ASSUME NEW u \in Thread, k \in held'[u] \/ (loc'[u].key = k /\ loc'[u].hasBody)
                 PROVE  FALSE
      BY DEF Unshared, UsesBody
    <2>1. k \notin held[u] /\ ~(loc[u].key = k /\ loc[u].hasBody)
      BY <1>4 DEF Unshared, UsesBody
    <2>2. k \notin held'[u]
      BY <1>4, <2>1 DEF Pins
    <2> QED BY <1>1, <1>2, <1>4, <2>1, <2>2 DEF Shares
  <1>5. \A k \in Key : rows[k].retiring => TicketKept(k)
    BY <1>4 DEF TicketKept, SlotRests
  <1>6. Undisturbed
    BY <1>2, <1>3, <1>5 DEF Undisturbed
  <1> QED BY <1>2, <1>6

RowRests(k) ==
    /\ rows'[k].retiring = rows[k].retiring
    /\ rows'[k].forced => rows[k].forced /\ (rows[k].body # 0 => rows'[k].body # 0)
LEMMA UsesTickets ==
    ASSUME Inv, StoreInv, TicketInv, NEW t \in Thread, Uses(t), pc[t] # "overrun", Pins,
           \A k \in Key : RowRests(k) /\ SlotRests(k)
    PROVE  TicketInv'
  <1>1. /\ Undisturbed
        /\ \A u \in Thread \ {t} : pc'[u] = pc[u] /\ loc'[u] = loc[u]
    BY UsesUndisturbed DEF RowRests
  <1>2. ASSUME NEW k \in Key
        PROVE  Forced(k)'
    <2> SUFFICES ASSUME rows'[k].forced, rows'[k].body = 0
                 PROVE  \E u \in Thread : pc'[u] = "overrun" /\ loc'[u].key = k
      BY DEF Forced
    <2>1. PICK u \in Thread : pc[u] = "overrun" /\ loc[u].key = k
      BY DEF TicketInv, Forced, RowRests
    <2> QED BY <1>1, <2>1
  <1> QED BY <1>1, <1>2, UndisturbedKeeps

(* A step after which its thread owes a trim.                              *)
LEMMA BoundRests ==
    ASSUME TicketInv', NEW t \in Thread, Bound(t)'
    PROVE  RestInv'
  BY DEF RestInv, TrimOwed

LEMMA BoundUses ==
    ASSUME Inv, StoreInv, RestInv, NEW t \in Thread, Uses(t), pc[t] # "overrun", Pins,
           \A k \in Key : RowRests(k) /\ SlotRests(k), Bound(t)'
    PROVE  RestInv'
  BY UsesTickets, BoundRests DEF RestInv

(* A step that leaves no more to take, and whose thread owed nothing.      *)
RowUsed(k) ==
    /\ rows'[k].retiring = rows[k].retiring
    /\ rows'[k].forced => rows[k].forced
    /\ rows'[k].body # 0 <=> rows[k].body # 0
    /\ rows'[k].calls = 0 => rows[k].calls = 0
    /\ rows'[k].pins = 0 => rows[k].pins = 0

LEMMA LeftShrinks ==
    ASSUME \A k \in Key : RowUsed(k), Over' => Over
    PROVE  Left' => Left
  <1>1. Reclaimable' \subseteq Reclaimable
    BY DEF Reclaimable, Idle, RowUsed
  <1>2. \A k \in Key : Spent(k)' => Spent(k)
    BY DEF Spent, RowUsed
  <1> QED BY <1>1, <1>2 DEF Left

LEMMA QuietRests ==
    ASSUME RestInv, TicketInv', Left' => Left, NEW t \in Thread, ~Bound(t),
           \A u \in Thread \ {t} : pc'[u] = pc[u] /\ loc'[u] = loc[u]
    PROVE  RestInv'
  BY DEF RestInv, TrimOwed, Bound

LEMMA QuietUses ==
    ASSUME Inv, StoreInv, RestInv, NEW t \in Thread, Uses(t), Pins, ~Bound(t),
           \A k \in Key : RowUsed(k) /\ SlotRests(k), Over' => Over
    PROVE  RestInv'
  <1>1. pc[t] # "overrun"
    BY DEF Bound, Owes
  <1>2. TicketInv'
    BY <1>1, UsesTickets DEF RowUsed, RowRests, RestInv
  <1>3. \A u \in Thread \ {t} : pc'[u] = pc[u] /\ loc'[u] = loc[u]
    BY UsesUndisturbed DEF RowUsed
  <1> QED BY <1>2, <1>3, LeftShrinks, QuietRests

sums == <<limit, floor, rawBytes, bodyBytes, reservedBytes>>
LEMMA SameOver ==
    ASSUME UNCHANGED sums
    PROVE  Over' <=> Over
  BY DEF sums, Over, Total

LEMMA UntouchedRows ==
    ASSUME UNCHANGED <<rows, slot, held>>
    PROVE  Pins /\ \A k \in Key : RowUsed(k) /\ RowRests(k) /\ SlotRests(k)
  BY DEF Pins, RowUsed, RowRests, SlotRests

(* A step that moves only its thread. *)
LEMMA StillQuiet ==
    ASSUME Inv, StoreInv, RestInv, NEW t \in Thread, Uses(t), ~Bound(t),
           UNCHANGED <<rows, slot, held, sums>>
    PROVE  RestInv'
  BY UntouchedRows, SameOver, QuietUses
LEMMA StillBound ==
    ASSUME Inv, StoreInv, RestInv, NEW t \in Thread, Uses(t), pc[t] # "overrun", Bound(t)',
           UNCHANGED <<rows, slot, held>>
    PROVE  RestInv'
  BY UntouchedRows, BoundUses

-----------------------------------------------------------------------------
(* Beginnings and admissions                                               *)

LEMMA SharesNone == ASSUME NEW l PROVE Shares(NoCall, l)
  BY DEF Shares, NoCall
LEMMA SharesAttempt == ASSUME NEW m, NEW l PROVE Shares(Attempt(m), l)
  BY DEF Shares, Attempt, NoCall
LEMMA SharesSame ==
    ASSUME NEW m, NEW l, m.hasBody => l.hasBody, m.key = l.key
    PROVE  Shares(m, l)
  BY DEF Shares

LEMMA RefuseBeginRests ==
    ASSUME Inv, StoreInv, RestInv, NEW t \in Thread, pc[t] = "begin", NEW a, RefuseBegin(t, a)
    PROVE  RestInv'
  <1> DEFINE m == [loc[t] EXCEPT !.answer = a]
             p == IF loc[t].spare # NoPermit THEN "spare" ELSE "answer"
  <1>1. loc' = [loc EXCEPT ![t] = m] /\ pc' = [pc EXCEPT ![t] = p] /\ p \in {"spare", "answer"}
    BY DEF RefuseBegin, Goto
  <1>2. Shares(m, loc[t])
    <2>1. m.hasBody = loc[t].hasBody /\ m.key = loc[t].key
      BY LocalRecord DEF Local
    <2> QED BY <2>1, SharesSame
  <1> HIDE DEF m, p
  <1>3. Uses(t) /\ ~Bound(t)
    BY <1>1, <1>2 DEF Uses, Bound, Owes, Trims
  <1>4. UNCHANGED <<rows, slot, held, sums>>
    BY DEF RefuseBegin, ledgerVars, hostVars, clientVars, sums
  <1> QED BY <1>3, <1>4, StillQuiet

LEMMA BeginRests ==
    ASSUME Inv, StoreInv, RestInv, NEW t \in Thread,
           \/ BeginRetiring(t) \/ BeginExhausted(t) \/ BeginStale(t)
           \/ BeginSettling(t) \/ BeginAdmission(t)
    PROVE  RestInv'
  <1>1. pc[t] = "begin"
    BY DEF BeginRetiring, BeginExhausted, BeginStale, BeginSettling, BeginAdmission, Startable,
           Beginning
  <1>2. ~Bound(t)
    BY <1>1 DEF Bound, Owes, Trims
  <1>3. CASE BeginRetiring(t) \/ BeginExhausted(t) \/ BeginSettling(t)
    BY <1>1, <1>3, RefuseBeginRests DEF BeginRetiring, BeginExhausted, BeginSettling
  <1>4. CASE BeginStale(t)
    <2>1. pc' = [pc EXCEPT ![t] = "spare"] /\ loc' = [loc EXCEPT ![t] = loc[t]]
      BY <1>4 DEF BeginStale, Goto, Inv, TypedInv
    <2>2. Uses(t)
      BY <1>1, <2>1, SharesSame DEF Uses
    <2> QED BY <1>2, <1>4, <2>2, StillQuiet DEF BeginStale, ledgerVars, hostVars, clientVars, sums
  <1>5. CASE BeginAdmission(t)
    <2> DEFINE m == [loc[t] EXCEPT !.need = Declared(loc[t].key),
                                   !.rev = slot[loc[t].key].revision]
    <2>1. pc' = [pc EXCEPT ![t] = "admit"] /\ loc' = [loc EXCEPT ![t] = m]
      BY <1>5 DEF BeginAdmission, Goto
    <2>2. m.hasBody = loc[t].hasBody /\ m.key = loc[t].key
      BY LocalRecord DEF Local
    <2> HIDE DEF m
    <2>3. Uses(t)
      BY <1>1, <2>1, <2>2, SharesSame DEF Uses
    <2> QED BY <1>2, <1>5, <2>3, StillQuiet
            DEF BeginAdmission, ledgerVars, hostVars, clientVars, sums
  <1> QED BY <1>3, <1>4, <1>5

LEMMA AnswerUses ==
    ASSUME Inv, NEW t \in Thread, pc[t] \notin {"shed", "settle"}, NEW a, Answer(t, a)
    PROVE  Uses(t)
  <1>1. CASE loc[t].key = NoKey
    BY <1>1, SharesNone DEF Answer, Rest, Goto, Uses
  <1>2. CASE loc[t].key # NoKey
    <2> DEFINE m == [loc[t] EXCEPT !.answer = a]
               p == IF a = "Paused" THEN "answer" ELSE "unowe"
    <2>1. loc' = [loc EXCEPT ![t] = m] /\ pc' = [pc EXCEPT ![t] = p] /\ p \in {"answer", "unowe"}
      BY <1>2 DEF Answer, Goto
    <2>2. m.hasBody = loc[t].hasBody /\ m.key = loc[t].key
      BY LocalRecord DEF Local
    <2> HIDE DEF m, p
    <2> QED BY <2>1, <2>2, SharesSame DEF Uses
  <1> QED BY <1>1, <1>2

LEMMA RefusedRests ==
    ASSUME Inv, StoreInv, RestInv, NEW t \in Thread, pc[t] = "admit", NEW a, Refused(t, a)
    PROVE  RestInv'
  <1>1. Uses(t) /\ ~Bound(t)
    BY AnswerUses DEF Refused, Bound, Owes, Trims
  <1> QED BY <1>1, StillQuiet DEF Refused, hostVars, clientVars, sums

(* What is admitted past the limit is admitted when nothing is reclaimable.*)
LEMMA AdmitOpenRests ==
    ASSUME Inv, StoreInv, TypeOK, RestInv, NEW t \in Thread, AdmitOpen(t)
    PROVE  RestInv'
  <1> DEFINE k == loc[t].key
             b == loc[t].need
             q == CHOOSE i \in PermitId \ Live : TRUE
  <1>1. /\ pc[t] = "admit" /\ Opens(t) /\ reservedBytes' = reservedBytes + b
        /\ rows' = IF k = NoKey THEN rows ELSE [rows EXCEPT ![k].wave = q]
        /\ UNCHANGED <<rawBytes, bodyBytes, limit, floor, slot, held>>
    BY DEF AdmitOpen, Turn, Contends, Admitting, hostVars, clientVars
  <1>2. /\ k = NoKey => pc' = [pc EXCEPT ![t] = "holding"]
                        /\ loc' = [loc EXCEPT ![t] = [loc[t] EXCEPT !.res = q]]
        /\ k # NoKey => pc' = [pc EXCEPT ![t] = "unowe"]
                        /\ loc' = [loc EXCEPT ![t] = [loc[t] EXCEPT !.spare = q]]
    BY DEF AdmitOpen, Goto
  <1>3. k \in Key \cup {NoKey} /\ \A j \in Key : rows[j] \in RowT
    BY LocalRecord DEF Local, Inv, TypedInv
  <1> HIDE DEF q
  <1>4. Uses(t)
    <2> DEFINE m == [loc[t] EXCEPT !.res = q]
               n == [loc[t] EXCEPT !.spare = q]
    <2>1. Shares(m, loc[t]) /\ Shares(n, loc[t])
      <3>1. m.hasBody = loc[t].hasBody /\ m.key = loc[t].key
        BY LocalRecord DEF Local
      <3>2. n.hasBody = loc[t].hasBody /\ n.key = loc[t].key
        BY LocalRecord DEF Local
      <3> QED BY <3>1, <3>2, SharesSame
    <2>2. /\ k = NoKey => pc' = [pc EXCEPT ![t] = "holding"] /\ loc' = [loc EXCEPT ![t] = m]
          /\ k # NoKey => pc' = [pc EXCEPT ![t] = "unowe"] /\ loc' = [loc EXCEPT ![t] = n]
      BY <1>2
    <2> HIDE DEF m, n
    <2>3. CASE k = NoKey
      BY <1>1, <2>1, <2>2, <2>3 DEF Uses
    <2>4. CASE k # NoKey
      BY <1>1, <2>1, <2>2, <2>4 DEF Uses
    <2> QED BY <2>3, <2>4
  <1>5. \A j \in Key : /\ rows'[j].retiring = rows[j].retiring /\ rows'[j].forced = rows[j].forced
                       /\ rows'[j].body = rows[j].body /\ rows'[j].calls = rows[j].calls
                       /\ rows'[j].pins = rows[j].pins
    BY <1>1, <1>3 DEF Inv, TypedInv, RowT
  <1>6. Pins /\ \A j \in Key : RowUsed(j) /\ RowRests(j) /\ SlotRests(j)
    BY <1>1, <1>5 DEF Pins, RowUsed, RowRests, SlotRests
  <1>7. TicketInv'
    BY <1>1, <1>4, <1>6, UsesTickets DEF RestInv
  <1>8. CASE k = NoKey
    <2>1. pc'[t] = "holding"
      BY <1>2, <1>8 DEF Inv, TypedInv
    <2> QED BY <1>7, <2>1, BoundRests DEF Bound, Owes
  <1>9. CASE k # NoKey
    <2>1. ~Bound(t) /\ \A u \in Thread \ {t} : pc'[u] = pc[u] /\ loc'[u] = loc[u]
      BY <1>1, <1>2, <1>9 DEF Bound, Owes, Trims, Inv, TypedInv
    <2>2. Reclaimable' = Reclaimable /\ \A j \in Key : Spent(j)' => Spent(j)
      BY <1>5 DEF Reclaimable, Idle, Spent
    <2>3. Over' => Reclaimable = {}
      <3>1. CASE Fits(b)
        <4>1. ~Over'
          <5>1. Total' = floor + rawBytes + bodyBytes + (reservedBytes + b)
            BY <1>1 DEF Total
          <5>2. limit = 0 \/ Total + b <= limit
            BY <3>1 DEF Fits
          <5>3. /\ floor \in Int /\ rawBytes \in Int /\ bodyBytes \in Int /\ reservedBytes \in Int
                /\ b \in Int /\ limit \in Int
            <6>1. b \in Int
              BY LocalRecord DEF Local
            <6> QED BY <6>1, BoundsAssumption DEF TypeOK
          <5> QED BY <1>1, <5>1, <5>2, <5>3 DEF Over, Total
        <4> QED BY <4>1
      <3>2. CASE ~Fits(b)
        BY <1>1, <3>2 DEF Opens
      <3> QED BY <3>1, <3>2
    <2>4. Left' => Left
      BY <2>2, <2>3 DEF Left
    <2> QED BY <1>7, <2>1, <2>4, QuietRests
  <1> QED BY <1>8, <1>9

-----------------------------------------------------------------------------
(* A trim that finds nothing                                               *)

(* The oldest of some listed versions is found. *)
LEMMA OldestFound ==
    ASSUME NEW S, NEW k \in S, lru \in Seq(Key), Listed(lru, k)
    PROVE  Oldest(S) # {}
  <1> DEFINE R == {e \in Nat \X Nat : e[1] < e[2]}
             I == {i \in 1..Len(lru) : lru[i] \in S}
  <1>1. IsWellFoundedOn(R, Nat)
    BY NatLessThanWellFounded DEF OpToRel
  <1>2. I \subseteq Nat /\ I # {}
    BY DEF Listed
  <1>3. PICK i \in I : \A j \in I : <<j, i>> \notin R
    <2> HIDE DEF R, I
    <2> QED BY <1>1, <1>2, WFMin
  <1>4. ASSUME NEW j \in 1..(i - 1)
        PROVE  lru[j] \notin S
    <2>1. Len(lru) \in Nat /\ i \in 1..Len(lru)
      BY <1>3
    <2>2. j \in 1..Len(lru) /\ j \in Nat /\ i \in Nat /\ j < i
      BY <2>1
    <2>3. <<j, i>> \in R
      BY <2>2
    <2> QED BY <1>3, <2>2, <2>3
  <1>5. i \in 1..Len(lru) /\ lru[i] \in S
    BY <1>3
  <1>6. lru[i] \in Oldest(S)
    BY <1>4, <1>5 DEF Oldest
  <1> QED BY <1>6

LEMMA TicketedTaken ==
    ASSUME ListedInv, NEW mode, NEW k \in Key, Ticketed(k), Over \/ rows[k].forced
    PROVE  Victims(mode) # {}
  <1> DEFINE F == {j \in Key : rows[j].forced /\ Ticketed(j)}
             L == {j \in Key : Ticketed(j)
                                 /\ (Over \/ mode = "admit" \/ (limit # 0 /\ Holder = j))}
  <1>1. CASE F # {}
    BY <1>1 DEF Victims
  <1>2. CASE F = {}
    <2>1. Over /\ k \in L
      BY <1>2
    <2>2. lru \in Seq(Key) /\ Listed(lru, k)
      BY DEF ListedInv, Findable, Ticketed, Idle
    <2>3. Oldest(L) # {}
      <3> HIDE DEF L
      <3> QED BY <2>1, <2>2, OldestFound
    <2>4. Victims(mode) = Oldest(L)
      BY <1>2, <2>1 DEF Victims
    <2> QED BY <2>3, <2>4
  <1> QED BY <1>1, <1>2

(* An idle body that has no ticket is one a thread has just overrun with.  *)
LEMMA IdleShared ==
    ASSUME Inv, StoreInv, NEW k \in Key, Idle(k), ~Ticketed(k)
    PROVE  \E u \in Thread : pc[u] = "body"
  <1>1. slot[k].phase = "Hot"
    BY DEF StoreInv, ChargedRow, Idle
  <1>2. PICK u \in Thread : k \in held[u] \/ (loc[u].key = k /\ loc[u].hasBody)
    BY <1>1 DEF Ticketed, Unshared, UsesBody
  <1>3. k \notin held[u]
    <2> SUFFICES ASSUME k \in held[u]
                 PROVE  FALSE
      OBVIOUS
    <2>1. Holders(k) # {}
      BY DEF Holders
    <2>2. /\ Cardinality(Holders(k)) \in Nat \ {0} /\ Cardinality(Unpinners(k)) \in Nat
      BY <2>1, CountZero DEF Holders, Unpinners
    <2>3. rows[k].pins = Cardinality(Holders(k)) + Cardinality(Unpinners(k))
      BY DEF Inv, LeasesCounted, Holders, Unpinners
    <2> QED BY <2>2, <2>3 DEF Idle
  <1>4. ~InCall(u, k)
    BY CallCounts DEF Idle
  <1>5. loc[u].prep # "ready"
    BY <1>2, <1>3, <1>4 DEF InCall
  <1>6. pc[u] = "body"
    BY <1>2, <1>3, <1>5, LocalRecord, ZenonT(30) DEF Place
  <1> QED BY <1>6

(* What is left has a ticket, or a thread that owes a trim.                *)
LEMMA NothingTaken ==
    ASSUME Inv, StoreInv, ListedInv, RestInv, NEW t \in Thread, pc[t] = "select",
           NEW mode, Victims(mode) = {}, Left
    PROVE  \E u \in Thread \ {t} : Bound(u)
  <1>1. ASSUME NEW k \in Key, Idle(k), Over \/ rows[k].forced
        PROVE  \E u \in Thread \ {t} : Bound(u)
    <2>1. ~Ticketed(k)
      BY <1>1, TicketedTaken
    <2>2. PICK u \in Thread : pc[u] = "body"
      BY <1>1, <2>1, IdleShared
    <2> QED BY <2>2 DEF Bound, Owes
  <1>2. CASE Over /\ Reclaimable # {}
    BY <1>1, <1>2 DEF Reclaimable
  <1>3. ASSUME NEW k \in Key, Spent(k)
        PROVE  \E u \in Thread \ {t} : Bound(u)
    <2>1. CASE rows[k].body # 0
      BY <1>1, <1>3, <2>1 DEF Spent, Idle
    <2>2. CASE rows[k].body = 0
      <3>1. PICK u \in Thread : pc[u] = "overrun" /\ loc[u].key = k
        BY <1>3, <2>2 DEF Spent, RestInv, TicketInv, Forced
      <3> QED BY <3>1 DEF Bound, Owes
    <2> QED BY <2>1, <2>2
  <1> QED BY <1>2, <1>3 DEF Left

LEMMA ResumeRests ==
    ASSUME Inv, StoreInv, ListedInv, RestInv, NEW t \in Thread, pc[t] = "select",
           loc[t].mode = "trim", Victims("trim") = {}, Resume(t),
           UNCHANGED <<rows, slot, held, sums>>
    PROVE  RestInv'
  <1>1. \E p, m : /\ p \notin {"shed", "settle"} /\ Shares(m, loc[t])
                  /\ pc' = [pc EXCEPT ![t] = p] /\ loc' = [loc EXCEPT ![t] = m]
    <2>1. CASE loc[t].after = "idle"
      BY <2>1, SharesNone DEF Resume, Rest, Goto
    <2>2. CASE loc[t].after = "begin"
      BY <2>2, SharesAttempt DEF Resume, Goto
    <2>3. CASE loc[t].after \notin {"idle", "begin"}
      <3> DEFINE m == [loc[t] EXCEPT !.after = "idle"]
                 p == loc[t].after
      <3>1. loc' = [loc EXCEPT ![t] = m] /\ pc' = [pc EXCEPT ![t] = p]
        BY <2>3 DEF Resume, Goto
      <3>2. p \notin {"shed", "settle"}
        BY LocalRecord DEF Place
      <3>3. m.hasBody = loc[t].hasBody /\ m.key = loc[t].key
        BY LocalRecord DEF Local
      <3> HIDE DEF m, p
      <3> QED BY <3>1, <3>2, <3>3, SharesSame
    <2> QED BY <2>1, <2>2, <2>3
  <1>2. Uses(t)
    BY <1>1 DEF Uses
  <1>3. Pins /\ \A k \in Key : RowUsed(k) /\ RowRests(k) /\ SlotRests(k)
    BY UntouchedRows
  <1>4. TicketInv'
    BY <1>2, <1>3, UsesTickets DEF RestInv
  <1>5. \A u \in Thread \ {t} : pc'[u] = pc[u] /\ loc'[u] = loc[u]
    BY <1>2, <1>3, UsesUndisturbed DEF RowUsed
  <1>6. Left' => Left
    BY <1>3, SameOver, LeftShrinks
  <1>7. Left' => \E u \in Thread : Bound(u)'
    BY <1>5, <1>6, NothingTaken DEF Bound
  <1> QED BY <1>4, <1>7 DEF RestInv, TrimOwed


LEMMA AdmitRests ==
    ASSUME Inv, StoreInv, TypeOK, RestInv, NEW t \in Thread, AdmitStep(t)
    PROVE  RestInv'
  <1>1. pc[t] \in {"admit", "unowe"} /\ ~Bound(t)
    BY DEF AdmitStep, AdmitRetiring, AdmitJoin, AdmitHot, AdmitPaused, AdmitKeptOut,
           AdmitRefusedOversized, AdmitOccupied, AdmitOpen, AdmitReclaim, Unowe, Turn, Contends,
           Admitting, Bound, Owes, Trims
  <1>2. CASE \/ AdmitRetiring(t) \/ AdmitPaused(t) \/ AdmitKeptOut(t)
             \/ AdmitRefusedOversized(t) \/ AdmitOccupied(t)
    BY <1>2, RefusedRests DEF AdmitRetiring, AdmitPaused, AdmitKeptOut, AdmitRefusedOversized,
           AdmitOccupied, Turn, Contends, Admitting
  <1>3. CASE AdmitJoin(t)
    <2> DEFINE m == [loc[t] EXCEPT !.spare = rows[loc[t].key].wave]
    <2>1. loc' = [loc EXCEPT ![t] = m] /\ pc' = [pc EXCEPT ![t] = "unowe"]
      BY <1>3 DEF AdmitJoin, Goto
    <2>2. m.hasBody = loc[t].hasBody /\ m.key = loc[t].key
      BY LocalRecord DEF Local
    <2> HIDE DEF m
    <2>3. Uses(t)
      BY <1>1, <2>1, <2>2, SharesSame DEF Uses
    <2> QED BY <1>1, <1>3, <2>3, StillQuiet DEF AdmitJoin, hostVars, clientVars, sums
  <1>4. CASE AdmitHot(t)
    <2>1. loc' = [loc EXCEPT ![t] = loc[t]] /\ pc' = [pc EXCEPT ![t] = "unowe"]
      BY <1>4 DEF AdmitHot, Goto, Inv, TypedInv
    <2>2. Uses(t)
      BY <1>1, <2>1, SharesSame DEF Uses
    <2> QED BY <1>1, <1>4, <2>2, StillQuiet DEF AdmitHot, hostVars, clientVars, sums
  <1>5. CASE AdmitOpen(t)
    BY <1>5, AdmitOpenRests
  <1>6. CASE AdmitReclaim(t)
    <2> DEFINE m == [loc[t] EXCEPT !.mode = "admit"]
    <2>1. loc' = [loc EXCEPT ![t] = m] /\ pc' = [pc EXCEPT ![t] = "select"]
      BY <1>6 DEF AdmitReclaim, Goto
    <2>2. m.hasBody = loc[t].hasBody /\ m.key = loc[t].key
      BY LocalRecord DEF Local
    <2> HIDE DEF m
    <2>3. Uses(t)
      BY <1>1, <2>1, <2>2, SharesSame DEF Uses
    <2> QED BY <1>1, <1>6, <2>3, StillQuiet DEF AdmitReclaim, hostVars, clientVars, sums
  <1>7. CASE Unowe(t)
    <2>1. Uses(t)
      <3>1. CASE loc[t].key = NoKey
        BY <1>1, <1>7, <3>1, SharesNone DEF Unowe, Rest, Goto, Uses
      <3>2. CASE loc[t].key # NoKey
        <4> DEFINE m == [loc[t] EXCEPT !.mode = "trim"]
                   p == IF loc[t].answer = "none" THEN "begin" ELSE "answer"
        <4>1. /\ loc' = [loc EXCEPT ![t] = m] /\ pc' = [pc EXCEPT ![t] = p]
              /\ p \in {"begin", "answer"}
          BY <1>7, <3>2 DEF Unowe, Goto
        <4>2. m.hasBody = loc[t].hasBody /\ m.key = loc[t].key
          BY LocalRecord DEF Local
        <4> HIDE DEF m, p
        <4> QED BY <1>1, <4>1, <4>2, SharesSame DEF Uses
      <3> QED BY <3>1, <3>2
    <2> QED BY <1>1, <1>7, <2>1, StillQuiet DEF Unowe, hostVars, clientVars, sums
  <1> QED BY <1>2, <1>3, <1>4, <1>5, <1>6, <1>7 DEF AdmitStep

-----------------------------------------------------------------------------
(* Calls begin                                                             *)

(* No call of a version that is being retired. *)
LEMMA CalledRests ==
    ASSUME Inv, StoreInv, NEW t \in Thread, NEW k \in Key, InCall(t, k)
    PROVE  ~rows[k].retiring
  BY CallCounts DEF StoreInv, Ticketing

LEMMA PreparedRests ==
    ASSUME Inv, StoreInv, RestInv, NEW t \in Thread, pc[t] \in {"begin", "prepare"},
           NEW m \in Local, NEW k \in Key, m.key = k, ~rows[k].retiring,
           NEW s \in Slot, s.phase = slot[k].phase, Prepare(t, m, s),
           \A j \in Key : RowUsed(j), held' = held, UNCHANGED sums
    PROVE  RestInv'
  <1>1. PICK p \in Point, l \in Local : Steps(t, p, l) /\ Prepared(t, k, p, l)
    BY PrepareOutcome
  <1>2. p \notin {"shed", "settle"} /\ l.key = k
    BY <1>1 DEF Prepared
  <1>3. Uses(t)
    BY <1>1, <1>2 DEF Uses, Shares, Steps
  <1>4. Pins /\ \A j \in Key : SlotRests(j)
    BY <1>1 DEF Pins, SlotRests, Prepared
  <1>5. ~Bound(t)
    BY DEF Bound, Owes, Trims
  <1> QED BY <1>3, <1>4, <1>5, SameOver, QuietUses

LEMMA PrepareJoinRests ==
    ASSUME Inv, StoreInv, RestInv, NEW t \in Thread, PrepareJoin(t)
    PROVE  RestInv'
  <1> DEFINE k == loc[t].key
  <1>1. pc[t] = "prepare" /\ Prepare(t, loc[t], slot[k]) /\ UNCHANGED <<rows, held, sums>>
    BY DEF PrepareJoin, ledgerVars, hostVars, clientVars, sums
  <1>2. loc[t] \in Local /\ k # NoKey
    BY <1>1, LocalRecord DEF Place, Aim, Trims
  <1>3. k \in Key
    BY <1>2 DEF Local
  <1>4. slot[k] \in Slot
    BY <1>3 DEF Inv, TypedInv
  <1>5. ~rows[k].retiring
    BY <1>1, <1>3, CalledRests DEF InCall
  <1>6. \A j \in Key : RowUsed(j)
    BY <1>1 DEF RowUsed
  <1> QED BY <1>1, <1>2, <1>3, <1>4, <1>5, <1>6, PreparedRests

LEMMA EnterRests ==
    ASSUME Inv, StoreInv, TypeOK, RestInv, NEW t \in Thread, Enter(t)
    PROVE  RestInv'
  <1> DEFINE k == loc[t].key
             opens == NeedsWave(k)
             res == IF opens THEN loc[t].spare ELSE rows[k].wave
             l0 == [loc[t] EXCEPT !.res = res]
             l == [l0 EXCEPT !.spare = IF opens THEN NoPermit ELSE loc[t].spare]
             r0 == [rows[k] EXCEPT !.calls = rows[k].calls + 1]
             r == [r0 EXCEPT !.refs = rows[k].refs + 1, !.wave = res]
             s == [slot[k] EXCEPT !.lastRaw = IF opens THEN Reusable(k) ELSE slot[k].lastRaw]
  <1>1. /\ pc[t] = "begin" /\ ~rows[k].retiring /\ held' = held /\ UNCHANGED sums
        /\ rows' = [rows EXCEPT ![k] = r]
    BY DEF Enter, Startable, Beginning, hostVars, clientVars, sums
  <1>2. \/ slot[k].phase = "Loading" /\ loc' = [loc EXCEPT ![t] = l]
             /\ pc' = [pc EXCEPT ![t] = "prepare"] /\ slot' = slot
        \/ Prepare(t, l, s)
    BY DEF Enter, Goto
  <1>3. loc[t] \in Local /\ k # NoKey
    BY <1>1, LocalRecord DEF Place, Aim, Trims
  <1>4. k \in Key
    BY <1>3 DEF Local
  <1>5. rows[k] \in Row /\ rows[k] \in RowT /\ slot[k] \in Slot
    BY <1>4 DEF Inv, TypedInv, TypeOK
  <1>6. res \in PermitId \cup {NoPermit}
    BY <1>3, <1>5 DEF Local, RowT
  <1>7. l0 \in Local /\ l0.key = k /\ l0.hasBody = loc[t].hasBody
    <2> HIDE DEF res
    <2> QED BY <1>3, <1>6 DEF Local
  <1>8. l \in Local /\ l.key = k /\ l.hasBody = loc[t].hasBody
    <2> HIDE DEF l0
    <2>1. loc[t].spare \in PermitId \cup {NoPermit}
      BY <1>3 DEF Local
    <2> HIDE DEF opens
    <2> QED BY <1>7, <2>1 DEF Local
  <1>9. s \in Slot /\ s.phase = slot[k].phase
    <2> DEFINE x == IF opens THEN Reusable(k) ELSE slot[k].lastRaw
    <2>1. x \in RawId \cup {NoRaw}
      BY <1>4, <1>5 DEF Reusable, Slot, Inv, TypedInv
    <2>2. s = [slot[k] EXCEPT !.lastRaw = x]
      OBVIOUS
    <2> HIDE DEF s, x, k
    <2>3. s.phase = slot[k].phase
      BY <1>5, <2>2 DEF Slot
    <2>4. s \in Slot
      BY <1>5, <2>1, <2>2 DEF Slot
    <2> QED BY <2>3, <2>4
  <1>10. \A j \in Key : RowUsed(j)
    <2> HIDE DEF res
    <2>1. /\ r.retiring = rows[k].retiring /\ r.forced = rows[k].forced /\ r.body = rows[k].body
          /\ r.pins = rows[k].pins
      BY <1>5 DEF RowT
    <2>2. r.calls = rows[k].calls + 1 /\ rows[k].calls \in Nat
      BY <1>5 DEF Row
    <2> HIDE DEF r
    <2>3. rows'[k] = r /\ \A j \in Key \ {k} : rows'[j] = rows[j]
      BY <1>1, <1>4 DEF Inv, TypedInv
    <2>4. RowUsed(k)
      BY <2>1, <2>2, <2>3 DEF RowUsed
    <2>5. \A j \in Key \ {k} : RowUsed(j)
      BY <2>3 DEF RowUsed
    <2> QED BY <2>4, <2>5
  <1> HIDE DEF l, s, r
  <1>11. CASE loc' = [loc EXCEPT ![t] = l] /\ pc' = [pc EXCEPT ![t] = "prepare"] /\ slot' = slot
    <2>1. Uses(t)
      BY <1>1, <1>8, <1>11, SharesSame DEF Uses
    <2>2. Pins /\ ~Bound(t) /\ \A j \in Key : SlotRests(j)
      BY <1>1, <1>11 DEF Pins, Bound, Owes, Trims, SlotRests
    <2> QED BY <1>1, <1>10, <2>1, <2>2, SameOver, QuietUses
  <1>12. CASE Prepare(t, l, s)
    BY <1>1, <1>4, <1>8, <1>9, <1>10, <1>12, PreparedRests
  <1> QED BY <1>2, <1>11, <1>12

-----------------------------------------------------------------------------
(* Drops start a trim                                                      *)

(* A step that starts a trim of its thread. *)
LEMMA TrimRests ==
    ASSUME Inv, StoreInv, RestInv, NEW t \in Thread, pc[t] \notin {"shed", "settle", "overrun"},
           NEW m \in Local, Shares(m, loc[t]), NEW a \in Point, NEW p \in {"select", "collect"},
           loc' = [loc EXCEPT ![t] = Trimming(m, a)], pc' = [pc EXCEPT ![t] = p],
           UNCHANGED <<slot, held>>, \A k \in Key : RowRests(k)
    PROVE  RestInv'
  <1>1. /\ Trimming(m, a).hasBody = m.hasBody /\ Trimming(m, a).key = m.key
        /\ Trimming(m, a).mode = "trim"
    BY TrimmingFields
  <1>2. Uses(t)
    BY <1>1 DEF Uses, Shares
  <1>3. pc'[t] = p /\ loc'[t] = Trimming(m, a)
    BY DEF Inv, TypedInv
  <1>4. Bound(t)'
    BY <1>1, <1>3 DEF Bound, Owes, Trims
  <1>5. Pins /\ \A k \in Key : SlotRests(k)
    BY DEF Pins, SlotRests
  <1> QED BY <1>2, <1>4, <1>5, BoundUses

(* A row of which only what a trim does not read moves. *)
LEMMA RowTouched ==
    ASSUME Inv, NEW k \in Key, NEW r, rows' = [rows EXCEPT ![k] = r],
           r.retiring = rows[k].retiring, r.forced = rows[k].forced,
           rows[k].body # 0 => r.body # 0
    PROVE  \A j \in Key : RowRests(j)
  <1>1. rows'[k] = r /\ \A j \in Key \ {k} : rows'[j] = rows[j]
    BY DEF Inv, TypedInv
  <1>2. RowRests(k)
    BY <1>1 DEF RowRests
  <1>3. \A j \in Key \ {k} : RowRests(j)
    BY <1>1 DEF RowRests
  <1> QED BY <1>2, <1>3

(* Reservation::drop changes a row by its join hint only. *)
LEMMA ReleasedRests ==
    ASSUME Inv, NEW p, ReleasePermit(p)
    PROVE  \A k \in Key : RowRests(k)
  <1>1. CASE rows' = rows
    BY <1>1 DEF RowRests
  <1>2. CASE rows' # rows
    <2>1. PICK k : rows' = [rows EXCEPT ![k].wave = NoPermit]
      BY <1>2 DEF ReleasePermit
    <2> DEFINE r == [rows[k] EXCEPT !.wave = NoPermit]
    <2>2. rows' = [rows EXCEPT ![k] = r]
      BY <2>1
    <2>3. k \in Key
      BY <1>2, <2>2 DEF Inv, TypedInv
    <2>4. r.retiring = rows[k].retiring /\ r.forced = rows[k].forced /\ r.body = rows[k].body
      BY <2>3 DEF Inv, TypedInv, RowT
    <2> HIDE DEF r
    <2> QED BY <2>2, <2>3, <2>4, RowTouched
  <1> QED BY <1>1, <1>2

LEMMA ReleaseRests ==
    ASSUME Inv, StoreInv, RestInv, NEW t \in Thread,
           DropSpare(t) \/ DropHolding(t) \/ DropCall(t)
    PROVE  RestInv'
  <1>0. loc[t] \in Local
    BY DEF Inv, TypedInv
  <1> DEFINE a == IF loc[t].prep # "none" THEN "resolve"
                  ELSE IF loc[t].answer # "none" THEN "answer" ELSE "begin"
             m == [loc[t] EXCEPT !.spare = NoPermit]
             n == [loc[t] EXCEPT !.res = NoPermit]
  <1>1. /\ pc[t] \notin {"shed", "settle", "overrun"}
        /\ pc' = [pc EXCEPT ![t] = "select"]
        /\ UNCHANGED <<slot, held>>
    BY DEF DropSpare, DropHolding, DropCall, Goto, clientVars
  <1>2. \/ loc' = [loc EXCEPT ![t] = Trimming(m, a)]
        \/ loc' = [loc EXCEPT ![t] = Trimming(n, "idle")]
        \/ loc' = [loc EXCEPT ![t] = Trimming(n, "member")]
        \/ loc' = [loc EXCEPT ![t] = Trimming(loc[t], "member")]
    BY DEF DropSpare, DropHolding, DropCall
  <1>3. m \in Local /\ n \in Local
    BY <1>0 DEF Local
  <1>4. Shares(m, loc[t])
    <2>1. m.hasBody = loc[t].hasBody /\ m.key = loc[t].key
      BY <1>0 DEF Local
    <2> QED BY <2>1, SharesSame
  <1>5. Shares(n, loc[t]) /\ Shares(loc[t], loc[t])
    <2>1. n.hasBody = loc[t].hasBody /\ n.key = loc[t].key
      BY <1>0 DEF Local
    <2> QED BY <2>1, SharesSame
  <1>6. a \in Point /\ "idle" \in Point /\ "member" \in Point
    BY DEF Point
  <1>7. \A k \in Key : RowRests(k)
    <2>1. CASE rows' = rows
      BY <2>1 DEF RowRests
    <2>2. CASE \E p : ReleasePermit(p)
      BY <2>2, ReleasedRests
    <2> QED BY <2>1, <2>2 DEF DropSpare, DropHolding, DropCall
  <1> HIDE DEF a, m, n
  <1> QED BY <1>0, <1>1, <1>2, <1>3, <1>4, <1>5, <1>6, <1>7, TrimRests

LEMMA UncountRests ==
    ASSUME Inv, StoreInv, RestInv, NEW t \in Thread,
           DropBody(t) \/ DropMember(t) \/ UnpinLedger(t) \/ DropRawLedger(t)
    PROVE  RestInv'
  <1>0. loc[t] \in Local
    BY DEF Inv, TypedInv
  <1>1. CASE DropBody(t)
    <2> DEFINE m == [loc[t] EXCEPT !.hasBody = FALSE]
    <2>1. /\ loc' = [loc EXCEPT ![t] = Trimming(m, "call")]
          /\ pc[t] = "body" /\ pc' = [pc EXCEPT ![t] = "select"] /\ UNCHANGED <<rows, slot, held>>
      BY <1>1 DEF DropBody, Goto, ledgerVars, clientVars
    <2>2. m \in Local
      BY <1>0 DEF Local
    <2>3. Shares(m, loc[t])
      BY <1>0 DEF Local, Shares
    <2>4. "call" \in Point
      BY DEF Point
    <2> HIDE DEF m
    <2> QED BY <2>1, <2>2, <2>3, <2>4, TrimRests, UntouchedRows
  <1>2. CASE DropMember(t)
    <2> DEFINE k == loc[t].key
               m == [loc[t] EXCEPT !.victim = k]
               r == [rows[k] EXCEPT !.refs = rows[k].refs - 1]
               a == loc[t].fin
    <2>1. /\ loc' = [loc EXCEPT ![t] = Trimming(m, a)]
          /\ pc[t] = "member" /\ pc' = [pc EXCEPT ![t] = "collect"]
          /\ UNCHANGED <<slot, held>> /\ rows' = [rows EXCEPT ![k] = r]
      BY <1>2 DEF DropMember, Goto, clientVars
    <2>2. k \in Key
      BY <2>1, LocalRecord DEF Place, Aim, Trims, Local
    <2>3. m \in Local
      BY <1>0 DEF Local
    <2>4. m.hasBody = loc[t].hasBody /\ m.key = loc[t].key
      BY <1>0 DEF Local
    <2>5. a \in Point
      BY <1>0 DEF Local
    <2>6. r.retiring = rows[k].retiring /\ r.forced = rows[k].forced /\ r.body = rows[k].body
      BY <2>2 DEF Inv, TypedInv, RowT
    <2> HIDE DEF m, r, a
    <2>7. Shares(m, loc[t])
      BY <2>4, SharesSame
    <2> QED BY <2>1, <2>2, <2>3, <2>5, <2>6, <2>7, TrimRests, RowTouched
  <1>3. CASE UnpinLedger(t)
    <2> DEFINE k == loc[t].key
               r == [rows[k] EXCEPT !.pins = rows[k].pins - 1]
    <2>1. /\ loc' = [loc EXCEPT ![t] = Trimming(loc[t], "member")]
          /\ pc[t] = "unpin" /\ pc' = [pc EXCEPT ![t] = "select"]
          /\ UNCHANGED <<slot, held>> /\ rows' = [rows EXCEPT ![k] = r]
      BY <1>3 DEF UnpinLedger, Goto, clientVars
    <2>2. k \in Key
      BY <2>1, LocalRecord DEF Place, Aim, Trims, Local
    <2>3. r.retiring = rows[k].retiring /\ r.forced = rows[k].forced /\ r.body = rows[k].body
      BY <2>2 DEF Inv, TypedInv, RowT
    <2>4. "member" \in Point /\ Shares(loc[t], loc[t])
      BY SharesSame DEF Point
    <2> HIDE DEF r
    <2> QED BY <1>0, <2>1, <2>2, <2>3, <2>4, TrimRests, RowTouched
  <1>4. CASE DropRawLedger(t)
    <2> DEFINE m == [loc[t] EXCEPT !.goneRaw = NoRaw]
    <2>1. /\ loc' = [loc EXCEPT ![t] = Trimming(m, "idle")]
          /\ pc[t] = "unraw" /\ pc' = [pc EXCEPT ![t] = "select"] /\ UNCHANGED <<rows, slot, held>>
      BY <1>4 DEF DropRawLedger, Goto, clientVars
    <2>2. m \in Local
      BY <1>0 DEF Local
    <2>3. m.hasBody = loc[t].hasBody /\ m.key = loc[t].key
      BY <1>0 DEF Local
    <2>4. "idle" \in Point
      BY DEF Point
    <2> HIDE DEF m
    <2>5. Shares(m, loc[t])
      BY <2>3, SharesSame
    <2> QED BY <2>1, <2>2, <2>4, <2>5, TrimRests, UntouchedRows
  <1> QED BY <1>1, <1>2, <1>3, <1>4

-----------------------------------------------------------------------------
(* Failed finishes, and finishes that pin                                  *)

LEMMA FailReadRests ==
    ASSUME Inv, StoreInv, RestInv, NEW t \in Thread, FailSnapshot(t) \/ FailRaw(t)
    PROVE  RestInv'
  <1>0. loc[t] \in Local
    BY DEF Inv, TypedInv
  <1>1. ~Bound(t) /\ pc[t] \in {"resolve", "raw"}
    BY DEF FailSnapshot, FailRaw, Resolving, Bound, Owes, Trims
  <1>2. CASE FailSnapshot(t)
    <2> DEFINE m == [loc[t] EXCEPT !.snap = slot[loc[t].key].phase]
    <2>1. loc' = [loc EXCEPT ![t] = m] /\ pc' = [pc EXCEPT ![t] = "raw"]
      BY <1>2 DEF FailSnapshot, Goto
    <2>2. m.hasBody = loc[t].hasBody /\ m.key = loc[t].key
      BY <1>0 DEF Local
    <2> HIDE DEF m
    <2>3. Uses(t)
      BY <1>1, <2>1, <2>2, SharesSame DEF Uses
    <2> QED BY <1>1, <1>2, <2>3, StillQuiet
            DEF FailSnapshot, ledgerVars, hostVars, clientVars, sums
  <1>3. CASE FailRaw(t)
    <2> DEFINE k == loc[t].key
               m == [loc[t] EXCEPT !.raw = slot[k].raw]
               s == [slot[k] EXCEPT !.lastRaw = NoRaw]
    <2>1. /\ loc' = [loc EXCEPT ![t] = m] /\ pc' = [pc EXCEPT ![t] = "fail"]
          /\ slot' = [slot EXCEPT ![k] = s] \/ slot' = slot
      BY <1>3 DEF FailRaw, Goto
    <2>2. m.hasBody = loc[t].hasBody /\ m.key = loc[t].key
      BY <1>0 DEF Local
    <2> HIDE DEF m
    <2>3. Uses(t)
      BY <1>1, <2>1, <2>2, SharesSame DEF Uses
    <2>4. \A j \in Key : SlotRests(j)
      <3>1. \A j \in Key : slot[j] \in Slot
        BY DEF Inv, TypedInv
      <3>2. CASE k \in Key
        <4>1. s.phase = slot[k].phase /\ s.revision = slot[k].revision
          BY <3>1, <3>2 DEF Slot
        <4> HIDE DEF s
        <4> QED BY <2>1, <4>1 DEF SlotRests, Inv, TypedInv
      <3>3. CASE k \notin Key
        BY <2>1, <3>3 DEF SlotRests, Inv, TypedInv
      <3> QED BY <3>2, <3>3
    <2>5. UNCHANGED <<rows, held, sums>>
      BY <1>3 DEF FailRaw, ledgerVars, hostVars, clientVars, sums
    <2>6. Pins /\ \A j \in Key : RowUsed(j)
      BY <2>5 DEF Pins, RowUsed
    <2> QED BY <1>1, <2>3, <2>4, <2>5, <2>6, SameOver, QuietUses
  <1> QED BY <1>2, <1>3

(* What a finish with the body leaves of a row for a trim to read.         *)
LEMMA FinishHotRests ==
    ASSUME Inv, NEW t \in Thread, NEW k \in Key, loc[t].key = k, NEW n \in {0, 1}, FinishHot(t, n)
    PROVE  /\ OtherRows(k) /\ rows'[k].body # 0
           /\ \A j \in Key : RowRests(j)
  <1> DEFINE a == IF rows[k].body = 0 THEN slot[k].raw ELSE rows[k].raw
             b == IF rows[k].body = 0 THEN TreeSize[k] ELSE rows[k].body
             w == IF rows[k].calls = 1 THEN NoPermit ELSE rows[k].wave
             r1 == [rows[k] EXCEPT !.raw = a]
             r2 == [r1 EXCEPT !.body = b]
             r == [r2 EXCEPT !.calls = rows[k].calls - 1, !.pins = rows[k].pins + n,
                             !.refs = rows[k].refs + n, !.wave = w]
  <1>1. rows[k] \in RowT
    BY DEF Inv, TypedInv
  <1>2. rows' = [rows EXCEPT ![k] = r]
    BY <1>1, ZenonT(30) DEF FinishHot, RowT
  <1>3. b # 0
    BY ResidencyAssumption
  <1> HIDE DEF a, b, w
  <1>4. r2.body = b /\ r2.retiring = rows[k].retiring /\ r2.forced = rows[k].forced
    BY <1>1 DEF RowT
  <1> HIDE DEF r2
  <1>5. r.body = r2.body /\ r.retiring = r2.retiring /\ r.forced = r2.forced
    OBVIOUS
  <1> HIDE DEF r
  <1>6. \A j \in Key : RowRests(j)
    BY <1>2, <1>3, <1>4, <1>5, RowTouched
  <1>7. rows'[k].body # 0 /\ OtherRows(k)
    BY <1>2, <1>3, <1>4, <1>5 DEF OtherRows, Inv, TypedInv
  <1> QED BY <1>6, <1>7

(* The caller's version is in the ledger, and nobody retires it. *)
LEMMA CallerRests ==
    ASSUME Inv, StoreInv, NEW t \in Thread, pc[t] \in {"resolve", "overrun", "fail"}
    PROVE  loc[t].key \in Key /\ ~rows[loc[t].key].retiring /\ loc[t] \in Local
  <1>1. loc[t] \in Local /\ loc[t].key \in Key /\ Calling(loc[t])
    BY LocalRecord DEF Place, Aim, Trims, Local
  <1>2. InCall(t, loc[t].key)
    BY <1>1 DEF InCall, Calling
  <1> QED BY <1>1, <1>2, CalledRests

LEMMA FinishPinRests ==
    ASSUME Inv, StoreInv, RestInv, NEW t \in Thread, FinishPin(t)
    PROVE  RestInv'
  <1> DEFINE k == loc[t].key
             m == [loc[t] EXCEPT !.hasBody = FALSE, !.prep = "done", !.fin = "idle"]
  <1>1. /\ pc[t] = "resolve" /\ FinishHot(t, 1) /\ held' = [held EXCEPT ![t] = @ \cup {k}]
        /\ loc' = [loc EXCEPT ![t] = m] /\ pc' = [pc EXCEPT ![t] = "call"]
    BY DEF FinishPin, Resolving, Goto
  <1>2. k \in Key /\ ~rows[k].retiring /\ loc[t] \in Local
    BY <1>1, CallerRests
  <1>3. m.hasBody = FALSE
    BY <1>2 DEF Local
  <1> HIDE DEF m
  <1>4. Uses(t)
    BY <1>1, <1>3 DEF Uses, Shares
  <1>5. \A j \in Key : RowRests(j)
    BY <1>1, <1>2, FinishHotRests
  <1>6. \A j \in Key : SlotRests(j)
    BY <1>1 DEF FinishHot, SlotRests
  <1>7. Pins
    BY <1>1, <1>2 DEF Pins, Inv, TypedInv
  <1>8. Bound(t)'
    BY <1>1 DEF Bound, Owes, Inv, TypedInv
  <1> QED BY <1>1, <1>4, <1>5, <1>6, <1>7, <1>8, BoundUses

LEMMA FinishFailRests ==
    ASSUME Inv, StoreInv, RestInv, NEW t \in Thread, FinishFail(t)
    PROVE  RestInv'
  <1> DEFINE k == loc[t].key
             id == loc[t].raw
             first == id # NoRaw /\ rows[k].body = 0
             b == IF first /\ loc[t].snap = "Hot" THEN TreeSize[k] ELSE 0
             a == IF first THEN id ELSE rows[k].raw
             c == rows[k].body + b
             w == IF rows[k].calls = 1 THEN NoPermit ELSE rows[k].wave
             r1 == [rows[k] EXCEPT !.raw = a]
             r2 == [r1 EXCEPT !.body = c]
             r == [r2 EXCEPT !.calls = rows[k].calls - 1, !.wave = w]
             f == IF loc[t].res = NoPermit THEN "idle" ELSE "holding"
             m == [loc[t] EXCEPT !.raw = NoRaw, !.prep = "done", !.fin = f]
  <1>1. pc[t] = "fail" /\ pc' = [pc EXCEPT ![t] = "call"] /\ UNCHANGED <<slot, held>>
    BY DEF FinishFail, Goto, clientVars
  <1>2. k \in Key /\ ~rows[k].retiring /\ loc[t] \in Local /\ rows[k] \in RowT
    BY <1>1, CallerRests DEF Inv, TypedInv
  <1>3. rows' = [rows EXCEPT ![k] = r]
    BY <1>2, ZenonT(30) DEF FinishFail, RowT
  <1>4. loc' = [loc EXCEPT ![t] = m]
    BY <1>2 DEF FinishFail, Local
  <1>5. rows[k].body \in Nat /\ (rows[k].body # 0 => c = rows[k].body)
    BY <1>2 DEF RowT
  <1>6. m.hasBody = loc[t].hasBody /\ m.key = loc[t].key
    <2> HIDE DEF f
    <2> QED BY <1>2 DEF Local
  <1> HIDE DEF a, c, w, m
  <1>7. r2.body = c /\ r2.retiring = rows[k].retiring /\ r2.forced = rows[k].forced
    BY <1>2 DEF RowT
  <1> HIDE DEF r2
  <1>8. r.body = r2.body /\ r.retiring = r2.retiring /\ r.forced = r2.forced
    OBVIOUS
  <1> HIDE DEF r
  <1>9. \A j \in Key : RowRests(j)
    BY <1>2, <1>3, <1>5, <1>7, <1>8, RowTouched
  <1>10. Uses(t)
    BY <1>1, <1>4, <1>6, SharesSame DEF Uses
  <1>11. Pins /\ \A j \in Key : SlotRests(j)
    BY <1>1 DEF Pins, SlotRests
  <1>12. Bound(t)'
    BY <1>1 DEF Bound, Owes, Inv, TypedInv
  <1> QED BY <1>1, <1>9, <1>10, <1>11, <1>12, BoundUses

-----------------------------------------------------------------------------
(* Overruns                                                                *)

LEMMA LearnRests ==
    ASSUME Inv, StoreInv, RestInv, NEW t \in Thread, Learn(t)
    PROVE  RestInv'
  <1> DEFINE k == loc[t].key
             r0 == [rows[k] EXCEPT !.learned = Max({rows[k].learned, Observed(k)})]
             r == [r0 EXCEPT !.forced = TRUE]
  <1>1. /\ pc[t] = "resolve" /\ pc' = [pc EXCEPT ![t] = "overrun"]
        /\ rows' = [rows EXCEPT ![k] = r] /\ UNCHANGED <<slot, held, loc>>
    BY DEF Learn, Resolving, Goto, clientVars
  <1>2. k \in Key /\ rows[k] \in RowT
    BY <1>1, CallerRests DEF Inv, TypedInv
  <1>3. r.retiring = rows[k].retiring /\ r.body = rows[k].body
    BY <1>2 DEF RowT
  <1> HIDE DEF r
  <1>4. rows'[k] = r /\ (\A j \in Key \ {k} : rows'[j] = rows[j]) /\ pc'[t] = "overrun"
    BY <1>1, <1>2 DEF Inv, TypedInv
  <1>5. loc' = [loc EXCEPT ![t] = loc[t]]
    BY <1>1 DEF Inv, TypedInv
  <1>6. Uses(t)
    BY <1>1, <1>5, SharesSame DEF Uses
  <1>7. Pins /\ \A j \in Key : rows'[j].retiring = rows[j].retiring /\ SlotRests(j)
    BY <1>1, <1>3, <1>4 DEF Pins, SlotRests
  <1>8. Undisturbed /\ \A u \in Thread \ {t} : pc'[u] = pc[u]
    BY <1>6, <1>7, UsesUndisturbed
  <1>9. ASSUME NEW j \in Key
        PROVE  Forced(j)'
    <2>1. CASE j = k
      BY <1>1, <1>4, <2>1 DEF Forced
    <2>2. CASE j # k
      <3> SUFFICES ASSUME rows'[j].forced, rows'[j].body = 0
                   PROVE  \E u \in Thread : pc'[u] = "overrun" /\ loc'[u].key = j
        BY DEF Forced
      <3>1. PICK u \in Thread : pc[u] = "overrun" /\ loc[u].key = j
        BY <1>4, <2>2 DEF RestInv, TicketInv, Forced
      <3> QED BY <1>1, <1>8, <3>1
    <2> QED BY <2>1, <2>2
  <1>10. TicketInv'
    BY <1>8, <1>9, UndisturbedKeeps DEF RestInv
  <1>11. Bound(t)'
    BY <1>4 DEF Bound, Owes
  <1> QED BY <1>10, <1>11, BoundRests

LEMMA FinishOverrunRests ==
    ASSUME Inv, StoreInv, RestInv, NEW t \in Thread, FinishOverrun(t)
    PROVE  RestInv'
  <1> DEFINE k == loc[t].key
             f == IF loc[t].again THEN "answer" ELSE "begin"
             a == IF loc[t].again THEN "PeakExceeded" ELSE "none"
             m == [loc[t] EXCEPT !.prep = "done", !.fin = f, !.answer = a, !.again = TRUE]
  <1>1. /\ pc[t] = "overrun" /\ pc' = [pc EXCEPT ![t] = "body"] /\ FinishHot(t, 0)
        /\ UNCHANGED <<slot, held>>
    BY DEF FinishOverrun, Goto, clientVars, FinishHot
  <1>2. k \in Key /\ loc[t] \in Local
    BY <1>1, CallerRests
  <1>3. loc' = [loc EXCEPT ![t] = m]
    BY <1>2 DEF FinishOverrun, Local
  <1>4. m.hasBody = loc[t].hasBody /\ m.key = loc[t].key
    <2> HIDE DEF a, f
    <2> QED BY <1>2 DEF Local
  <1> HIDE DEF m
  <1>5. /\ rows'[k].body # 0 /\ OtherRows(k)
        /\ \A j \in Key : RowRests(j)
    BY <1>1, <1>2, FinishHotRests
  <1>6. Uses(t)
    BY <1>1, <1>3, <1>4, SharesSame DEF Uses
  <1>7. Pins /\ \A j \in Key : SlotRests(j)
    BY <1>1 DEF Pins, SlotRests
  <1>8. Undisturbed /\ \A u \in Thread \ {t} : pc'[u] = pc[u] /\ loc'[u] = loc[u]
    BY <1>5, <1>6, <1>7, UsesUndisturbed DEF RowRests
  <1>9. ASSUME NEW j \in Key
        PROVE  Forced(j)'
    <2>1. CASE j = k
      BY <1>5, <2>1 DEF Forced
    <2>2. CASE j # k
      <3> SUFFICES ASSUME rows'[j].forced, rows'[j].body = 0
                   PROVE  \E u \in Thread : pc'[u] = "overrun" /\ loc'[u].key = j
        BY DEF Forced
      <3>1. PICK u \in Thread : pc[u] = "overrun" /\ loc[u].key = j
        BY <1>5, <2>2 DEF RestInv, TicketInv, Forced, OtherRows
      <3> QED BY <1>8, <2>2, <3>1
    <2> QED BY <2>1, <2>2
  <1>10. TicketInv'
    BY <1>8, <1>9, UndisturbedKeeps DEF RestInv
  <1>11. Bound(t)'
    BY <1>1 DEF Bound, Owes, Inv, TypedInv
  <1> QED BY <1>10, <1>11, BoundRests

-----------------------------------------------------------------------------
(* Steps in which every thread stands where it stood                       *)

LEMMA PassedRests ==
    ASSUME Inv, StoreInv, RestInv, UNCHANGED <<rows, pc, held>>, Over' => Over,
           \A u \in Thread : /\ loc'[u].key = loc[u].key /\ loc'[u].mode = loc[u].mode
                             /\ loc'[u].victim = loc[u].victim /\ loc'[u].vrev = loc[u].vrev
                             /\ Shares(loc'[u], loc[u]),
           \A k \in Key : SlotRests(k)
    PROVE  RestInv'
  <1>1. ASSUME NEW k \in Key, rows[k].retiring
        PROVE  TicketKept(k)
    <2>1. ASSUME Unshared(k), NEW u \in Thread
          PROVE  ~UsesBody(u, k)'
      BY <1>1, <2>1 DEF Unshared, UsesBody, Shares
    <2>2. Unshared(k) => Unshared(k)'
      BY <2>1 DEF Unshared
    <2> QED BY <1>1, <2>2 DEF TicketKept, SlotRests
  <1>2. Undisturbed
    BY <1>1 DEF Undisturbed
  <1>3. \A k \in Key : Forced(k)'
    BY DEF RestInv, TicketInv, Forced
  <1>4. TicketInv'
    BY <1>2, <1>3, UndisturbedKeeps DEF RestInv
  <1>5. Left' => Left
    BY LeftShrinks DEF RowUsed
  <1>6. \A u \in Thread : Bound(u)' <=> Bound(u)
    BY DEF Bound, Owes
  <1> QED BY <1>4, <1>5, <1>6 DEF RestInv, TrimOwed

LEMMA LoadRests ==
    ASSUME Inv, StoreInv, RestInv, NEW t \in Thread, LoadOk(t) \/ LoadFail(t)
    PROVE  RestInv'
  <1>0. PICK k : k = loc[t].key
    OBVIOUS
  <1>1. pc[t] = "resolve" /\ UNCHANGED <<rows, pc, held, sums>>
    BY DEF LoadOk, LoadFail, Resolving, ledgerVars, hostVars, clientVars, sums
  <1>2. k \in Key /\ ~rows[k].retiring
    BY <1>0, <1>1, CallerRests
  <1>3. \A u \in Thread : loc[u] \in Local
    BY DEF Inv, TypedInv
  <1>4. \A j \in Key \ {k} : slot'[j] = slot[j]
    BY <1>0 DEF LoadOk, LoadFail, Inv, TypedInv
  <1>5. \A j \in Key : SlotRests(j)
    BY <1>2, <1>4 DEF SlotRests
  <1>6. ASSUME NEW u \in Thread
        PROVE  /\ loc'[u].key = loc[u].key /\ loc'[u].mode = loc[u].mode
               /\ loc'[u].victim = loc[u].victim /\ loc'[u].vrev = loc[u].vrev
               /\ loc'[u] = loc[u] \/ loc'[u].key = k
    <2> DEFINE l == [loc[u] EXCEPT !.prep = "ready", !.hasBody = TRUE, !.raw = NoRaw]
               m == [loc[u] EXCEPT !.prep = "failed", !.raw = NoRaw]
    <2>1. loc'[u] = loc[u] \/ (loc[u].key = k /\ loc'[u] \in {l, m})
      BY <1>0 DEF LoadOk, LoadFail, Waiters
    <2>2. /\ l.key = loc[u].key /\ l.mode = loc[u].mode
          /\ l.victim = loc[u].victim /\ l.vrev = loc[u].vrev
      BY <1>3 DEF Local
    <2>3. /\ m.key = loc[u].key /\ m.mode = loc[u].mode
          /\ m.victim = loc[u].victim /\ m.vrev = loc[u].vrev
      BY <1>3 DEF Local
    <2> HIDE DEF l, m
    <2> QED BY <2>1, <2>2, <2>3
  <1>7. \A u \in Thread : Shares(loc'[u], loc[u])
    BY <1>2, <1>6 DEF Shares
  <1> QED BY <1>1, <1>5, <1>6, <1>7, SameOver, PassedRests

LEMMA PatienceRests ==
    ASSUME Inv, StoreInv, RestInv, NEW t \in Thread, PatienceEnds(t)
    PROVE  RestInv'
  <1> DEFINE m == [loc[t] EXCEPT !.patience = "over"]
  <1>1. loc' = [loc EXCEPT ![t] = m] /\ UNCHANGED <<rows, pc, held, slot, sums>>
    BY DEF PatienceEnds, ledgerVars, hostVars, clientVars, sums
  <1>2. /\ m.key = loc[t].key /\ m.mode = loc[t].mode /\ m.victim = loc[t].victim
        /\ m.vrev = loc[t].vrev
    BY LocalRecord DEF Local
  <1>3. m.hasBody = loc[t].hasBody
    BY LocalRecord DEF Local
  <1> HIDE DEF m
  <1>4. loc'[t] = m /\ \A u \in Thread \ {t} : loc'[u] = loc[u]
    BY <1>1 DEF Inv, TypedInv
  <1>5. \A u \in Thread : /\ loc'[u].key = loc[u].key /\ loc'[u].mode = loc[u].mode
                          /\ loc'[u].victim = loc[u].victim /\ loc'[u].vrev = loc[u].vrev
                          /\ Shares(loc'[u], loc[u])
    BY <1>2, <1>3, <1>4 DEF Shares
  <1>6. \A k \in Key : SlotRests(k)
    BY <1>1 DEF SlotRests
  <1> QED BY <1>1, <1>5, <1>6, SameOver, PassedRests

(* A step of the ledger alone, that frees some of the total. *)
LEMMA FreedRests ==
    ASSUME Inv, StoreInv, RestInv, UNCHANGED <<rows, pc, loc, held, slot>>, Over' => Over
    PROVE  RestInv'
  <1>1. \A u \in Thread : Shares(loc'[u], loc[u])
    BY DEF Shares
  <1>2. \A k \in Key : SlotRests(k)
    BY DEF SlotRests
  <1> QED BY <1>1, <1>2, PassedRests

(* Pruning and releasing raw storage never charges more. *)
LEMMA PruneFrees ==
    ASSUME TypeOK, NEW ids, ids \subseteq RawId, Prune(ids)
    PROVE  rawBytes' \in Int /\ rawBytes' <= rawBytes
  <1> DEFINE dead == {id \in ids : raws[id].charged /\ raws[id].owners = 0 /\ ~Alive(id)}
             size(id) == RawSize[KeyOf(id)]
             f == [id \in RawId |-> RawSize[KeyOf(id)]]
  <1>1. dead \in SUBSET RawId /\ rawBytes' = rawBytes - Sum(size, dead)
    BY DEF Prune
  <1> HIDE DEF dead
  <1>2. Sum(size, dead) = Worth(f, dead)
    BY <1>1 DEF Sum, Worth, Units
  <1>3. IsFiniteSet(dead) /\ \A id \in dead : f[id] \in Nat
    BY <1>1, RawIdFinite, RawSizes, FS_Subset
  <1>4. Worth(f, dead) \in Nat
    <2> HIDE DEF f
    <2> QED BY <1>3, WorthNat
  <1> QED BY <1>1, <1>2, <1>4 DEF TypeOK
LEMMA ReleaseFrees ==
    ASSUME TypeOK, NEW id \in RawId \cup {NoRaw}, ReleaseRaw(id)
    PROVE  rawBytes' \in Int /\ rawBytes' <= rawBytes
  <1>1. rawBytes' = rawBytes \/ (id # NoRaw /\ rawBytes' = rawBytes - RawSize[KeyOf(id)])
    BY DEF ReleaseRaw
  <1>2. id # NoRaw => RawSize[KeyOf(id)] \in Nat
    BY RawSizes
  <1> QED BY <1>1, <1>2 DEF TypeOK
LEMMA LessOver ==
    ASSUME TypeOK, rawBytes' \in Int, rawBytes' <= rawBytes,
           bodyBytes' \in Int, bodyBytes' <= bodyBytes, UNCHANGED <<limit, floor, reservedBytes>>
    PROVE  Over' => Over
  <1>1. /\ floor \in Int /\ limit \in Int /\ rawBytes \in Int /\ bodyBytes \in Int
        /\ reservedBytes \in Int
    BY BoundsAssumption DEF TypeOK
  <1>0. floor' = floor /\ limit' = limit /\ reservedBytes' = reservedBytes
    OBVIOUS
  <1>2. Total' <= Total
    <2>1. ASSUME NEW a \in Int, NEW b \in Int, NEW c \in Int, NEW d \in Int, NEW e \in Int,
                 NEW f \in Int, b <= c, d <= e
          PROVE  a + b + d + f <= a + c + e + f
      BY <2>1
    <2>2. Total' = floor + rawBytes' + bodyBytes' + reservedBytes
      BY <1>0 DEF Total
    <2>3. Total = floor + rawBytes + bodyBytes + reservedBytes
      BY DEF Total
    <2> QED BY <1>1, <2>1, <2>2, <2>3
  <1>3. Total \in Int /\ Total' \in Int
    BY <1>0, <1>1 DEF Total
  <1> HIDE DEF Total
  <1> QED BY <1>0, <1>1, <1>2, <1>3 DEF Over

LEMMA PassageRests ==
    ASSUME Inv, StoreInv, TypeOK, RestInv, Passage
    PROVE  RestInv'
  <1>1. ASSUME NEW t \in Thread, PatienceEnds(t)
        PROVE  RestInv'
    BY <1>1, PatienceRests
  <1>2. CASE WaitingExpires \/ \E k \in Key : OwedExpires(k)
    <2>1. UNCHANGED <<rows, pc, loc, held, slot, sums>>
      BY <1>2 DEF WaitingExpires, OwedExpires, hostVars, clientVars, sums
    <2> QED BY <2>1, SameOver, FreedRests
  <1>3. CASE Census
    <2>1. /\ Prune(RawId) /\ UNCHANGED <<rows, pc, loc, held, slot>>
          /\ UNCHANGED <<limit, floor, bodyBytes, reservedBytes>>
      BY <1>3 DEF Census, hostVars, clientVars
    <2>2. rawBytes' \in Int /\ rawBytes' <= rawBytes
      BY <2>1, PruneFrees
    <2>3. bodyBytes' \in Int /\ bodyBytes' <= bodyBytes
      BY <2>1 DEF TypeOK
    <2>4. Over' => Over
      BY <2>1, <2>2, <2>3, LessOver
    <2> QED BY <2>1, <2>4, FreedRests
  <1> QED BY <1>1, <1>2, <1>3 DEF Passage

-----------------------------------------------------------------------------
(* Leases and starts                                                       *)

LEMMA LeaseRests ==
    ASSUME Inv, StoreInv, RestInv, NEW t \in Thread, LeaseStep(t)
    PROVE  RestInv'
  <1>1. pc[t] = "answer"
    BY DEF LeaseStep, Poll, Unpause, RetryPause, Leave, Answered
  <1>2. ~Bound(t)
    BY <1>1 DEF Bound, Owes, Trims
  <1>3. ASSUME NEW m, Again(t, m)
        PROVE  RestInv'
    <2>1. Uses(t)
      BY <1>1, <1>3, SharesAttempt DEF Again, Goto, Uses
    <2> QED BY <1>2, <1>3, <2>1, StillQuiet DEF Again, ledgerVars, hostVars, clientVars, sums
  <1>4. CASE Leave(t)
    <2>1. Uses(t)
      BY <1>1, <1>4, SharesNone DEF Leave, Rest, Goto, Uses
    <2> QED BY <1>2, <1>4, <2>1, StillQuiet DEF Leave, ledgerVars, hostVars, clientVars, sums
  <1> QED BY <1>3, <1>4 DEF LeaseStep, Poll, Unpause, RetryPause

LEMMA StartUses ==
    ASSUME Inv, NEW t \in Thread, NEW l, NEW p, Start(t, l, p), p \notin {"shed", "settle"},
           l.hasBody = FALSE
    PROVE  Uses(t) /\ pc[t] = "idle" /\ ~Bound(t) /\ pc'[t] = p /\ loc'[t] = l
  <1>1. /\ pc[t] = "idle" /\ loc' = [loc EXCEPT ![t] = l] /\ pc' = [pc EXCEPT ![t] = p]
    BY DEF Start, Goto
  <1>2. Uses(t)
    BY <1>1 DEF Uses, Shares
  <1>3. ~Bound(t)
    BY <1>1 DEF Bound, Owes, Trims
  <1>4. pc'[t] = p /\ loc'[t] = l
    BY <1>1 DEF Inv, TypedInv
  <1> QED BY <1>1, <1>2, <1>3, <1>4

LEMMA ClientRests ==
    ASSUME Inv, StoreInv, RestInv, NEW t \in Thread, ClientStart(t)
    PROVE  RestInv'
  <1>1. ASSUME NEW k \in Key, Unpin(t, k)
        PROVE  RestInv'
    <2> DEFINE l == [NoCall EXCEPT !.key = k]
    <2>1. Start(t, l, "unpin") /\ UNCHANGED <<rows, slot>> /\ held' = [held EXCEPT ![t] = @ \ {k}]
      BY <1>1 DEF Unpin, ledgerVars
    <2>2. l.hasBody = FALSE
      BY DEF NoCall
    <2> HIDE DEF l
    <2>3. Uses(t) /\ pc[t] = "idle" /\ pc'[t] = "unpin"
      BY <2>1, <2>2, StartUses
    <2>4. Bound(t)'
      BY <2>3 DEF Bound, Owes
    <2>5. Pins
      BY <2>1 DEF Pins, Inv, TypedInv
    <2>6. \A j \in Key : RowRests(j) /\ SlotRests(j)
      BY <2>1 DEF RowRests, SlotRests
    <2> QED BY <2>3, <2>4, <2>5, <2>6, BoundUses
  <1>2. ASSUME NEW k \in Key, TakeRaw(t, k)
        PROVE  RestInv'
    <2>1. UNCHANGED <<rows, pc, loc, held, slot, sums>>
      BY <1>2 DEF TakeRaw, hostVars, sums
    <2> QED BY <2>1, SameOver, FreedRests
  <1>3. ASSUME NEW k \in Key, NEW a \in Accesses, Lease(t, k, a)
        PROVE  RestInv'
    <2> DEFINE l == [NoCall EXCEPT !.key = k, !.access = a]
    <2>1. Start(t, l, "begin") /\ UNCHANGED <<rows, slot, held, sums>>
      BY <1>3 DEF Lease, ledgerVars, hostVars, clientVars, sums
    <2>2. l.hasBody = FALSE
      BY DEF NoCall
    <2> HIDE DEF l
    <2>3. Uses(t) /\ ~Bound(t)
      BY <2>1, <2>2, StartUses
    <2> QED BY <2>1, <2>3, StillQuiet
  <1>4. ASSUME NEW id \in RawId, DropRaw(t, id)
        PROVE  RestInv'
    <2> DEFINE l == [NoCall EXCEPT !.goneRaw = id]
    <2>1. Start(t, l, "unraw") /\ UNCHANGED <<rows, slot, held>>
      BY <1>4 DEF DropRaw, ledgerVars
    <2>2. l.hasBody = FALSE
      BY DEF NoCall
    <2> HIDE DEF l
    <2>3. Uses(t) /\ pc[t] = "idle" /\ pc'[t] = "unraw"
      BY <2>1, <2>2, StartUses
    <2>4. Bound(t)'
      BY <2>3 DEF Bound, Owes
    <2> QED BY <2>1, <2>3, <2>4, StillBound
  <1> QED BY <1>1, <1>2, <1>3, <1>4 DEF ClientStart

LEMMA HostRests ==
    ASSUME Inv, StoreInv, RestInv, NEW t \in Thread, HostStart(t)
    PROVE  RestInv'
  <1>1. ASSUME NEW b \in StageSizes, Reserve(t, b)
        PROVE  RestInv'
    <2> DEFINE l == [NoCall EXCEPT !.need = b]
    <2>1. Start(t, l, "admit") /\ UNCHANGED <<rows, slot, held, sums>>
      BY <1>1 DEF Reserve, ledgerVars, hostVars, clientVars, sums
    <2>2. l.hasBody = FALSE
      BY DEF NoCall
    <2> HIDE DEF l
    <2>3. Uses(t) /\ ~Bound(t)
      BY <2>1, <2>2, StartUses
    <2> QED BY <2>1, <2>3, StillQuiet
  <1>2. ASSUME NEW k \in Key, DropGeneration(t, k)
        PROVE  RestInv'
    <2> DEFINE l == [NoCall EXCEPT !.key = k]
    <2>1. Start(t, l, "member") /\ UNCHANGED <<rows, slot, held>>
      BY <1>2 DEF DropGeneration, ledgerVars, clientVars
    <2>2. l.hasBody = FALSE
      BY DEF NoCall
    <2> HIDE DEF l
    <2>3. Uses(t) /\ pc[t] = "idle" /\ pc'[t] = "member"
      BY <2>1, <2>2, StartUses
    <2>4. Bound(t)'
      BY <2>3 DEF Bound, Owes
    <2> QED BY <2>1, <2>3, <2>4, StillBound
  <1>3. ASSUME Start(t, NoCall, "select"), UNCHANGED <<slot, held>>, \A k \in Key : RowRests(k)
        PROVE  RestInv'
    <2>0. NoCall.hasBody = FALSE /\ "select" \notin {"shed", "settle"}
      BY NoCallFields
    <2>1. /\ Uses(t) /\ pc[t] = "idle" /\ pc'[t] = "select" /\ loc'[t] = NoCall
      <3> PICK l : l = NoCall
        OBVIOUS
      <3> QED BY <1>3, <2>0, StartUses
    <2>2. Bound(t)'
      BY <2>1, NoCallFields DEF Bound, Owes, Trims
    <2>3. Pins /\ \A k \in Key : SlotRests(k)
      BY <1>3 DEF Pins, SlotRests
    <2> QED BY <1>3, <2>1, <2>2, <2>3, BoundUses
  <1>4. ASSUME NEW k \in Key, Retain(t, k)
        PROVE  RestInv'
    <2>1. Start(t, NoCall, "select") /\ UNCHANGED <<slot, held>>
      BY <1>4 DEF Retain, clientVars
    <2>2. CASE rows[k].present
      <3> DEFINE r == [rows[k] EXCEPT !.refs = rows[k].refs + 1]
      <3>1. rows' = [rows EXCEPT ![k] = r]
        BY <1>4, <2>2 DEF Retain
      <3>2. r.retiring = rows[k].retiring /\ r.forced = rows[k].forced /\ r.body = rows[k].body
        BY DEF Inv, TypedInv, RowT
      <3> HIDE DEF r
      <3> QED BY <1>3, <2>1, <3>1, <3>2, RowTouched
    <2>3. CASE ~rows[k].present
      <3>1. rows' = [rows EXCEPT ![k] = NewRow]
        BY <1>4, <2>3 DEF Retain
      <3>2. NewRow.retiring = FALSE /\ NewRow.forced = FALSE
        BY DEF NewRow, Absent
      <3>3. rows[k].body = 0
        BY <2>3 DEF StoreInv, ChargedRow
      <3>4. rows[k].retiring = FALSE
        BY <3>3 DEF StoreInv, Ticketing, Inv, TypedInv, RowT
      <3>5. rows'[k] = NewRow /\ \A j \in Key \ {k} : rows'[j] = rows[j]
        BY <3>1 DEF Inv, TypedInv
      <3>6. \A j \in Key : RowRests(j)
        BY <3>2, <3>3, <3>4, <3>5 DEF RowRests
      <3> QED BY <1>3, <2>1, <3>6
    <2> QED BY <2>2, <2>3
  <1>5. ASSUME NEW n, SetLimit(t, n) \/ SetFloor(t, n)
        PROVE  RestInv'
    <2>1. Start(t, NoCall, "select") /\ UNCHANGED <<rows, slot, held>>
      BY <1>5 DEF SetLimit, SetFloor, ledgerVars, clientVars
    <2> QED BY <1>3, <2>1, UntouchedRows
  <1> QED BY <1>1, <1>2, <1>4, <1>5 DEF HostStart

-----------------------------------------------------------------------------
(* Retirements                                                             *)

LEMMA VictimsTicketed ==
    ASSUME NEW mode, NEW v \in Victims(mode)
    PROVE  Ticketed(v)
  <1> DEFINE F == {k \in Key : rows[k].forced /\ Ticketed(k)}
             L == {k \in Key : Ticketed(k)
                                 /\ (Over \/ mode = "admit" \/ (limit # 0 /\ Holder = k))}
  <1>1. v \in F \/ v \in Oldest(L)
    BY DEF Victims
  <1>2. Oldest(L) \subseteq L
    <2> HIDE DEF L
    <2> QED BY DEF Oldest
  <1> QED BY <1>1, <1>2

(* The threads that retire, and the versions they retire, but one.         *)
LEMMA OthersTicketed ==
    ASSUME Inv, StoreInv, TicketInv, NEW t \in Thread, NEW v,
           \A u \in Thread \ {t} : pc'[u] = pc[u] /\ loc'[u] = loc[u],
           \A u \in Thread \ {t} : Retires(u) => loc[u].victim # v,
           loc'[t].key = loc[t].key, loc'[t].hasBody => loc[t].hasBody,
           held' = held, \A k \in Key \ {v} : slot'[k] = slot[k]
    PROVE  \A u \in Thread \ {t} : Ticket(u)'
  <1> SUFFICES ASSUME NEW u \in Thread \ {t}, Retires(u)'
               PROVE  Ticket(u)'
    BY DEF Ticket, Retires
  <1>1. Retires(u) /\ loc[u].victim \in Key \ {v}
    BY VictimTyped DEF Retires
  <1>2. Unshared(loc[u].victim) => Unshared(loc[u].victim)'
    BY DEF Unshared, UsesBody
  <1>3. TicketKept(loc[u].victim)
    BY <1>1, <1>2 DEF TicketKept
  <1> QED BY <1>3, TicketStays

LEMMA SelectVictimRests ==
    ASSUME Inv, StoreInv, RestInv, NEW t \in Thread, SelectVictim(t)
    PROVE  RestInv'
  <1>1. PICK v \in Victims(loc[t].mode) :
          /\ rows' = [rows EXCEPT ![v].retiring = TRUE]
          /\ loc' = [loc EXCEPT ![t].victim = v, ![t].vrev = slot[v].revision]
    BY DEF SelectVictim
  <1>2. v \in Key /\ Ticketed(v)
    BY VictimsTicketed, VictimsAreVersions
  <1>3. rows[v] \in RowT /\ loc[t] \in Local
    BY <1>2 DEF Inv, TypedInv
  <1>4. /\ pc[t] = "select" /\ pc' = [pc EXCEPT ![t] = "shed"]
        /\ UNCHANGED <<slot, held, sums>>
    BY DEF SelectVictim, Goto, hostVars, clientVars, sums
  <1> DEFINE r == [rows[v] EXCEPT !.retiring = TRUE]
             m0 == [loc[t] EXCEPT !.victim = v]
             m == [m0 EXCEPT !.vrev = slot[v].revision]
  <1>5. rows'[v] = r /\ \A k \in Key \ {v} : rows'[k] = rows[k]
    BY <1>1, <1>2 DEF Inv, TypedInv
  <1>6. loc' = [loc EXCEPT ![t] = m]
    BY <1>1, <1>3 DEF Local, Inv, TypedInv
  <1>7. /\ r.retiring = TRUE /\ r.body = rows[v].body /\ r.forced = rows[v].forced
        /\ r.calls = rows[v].calls /\ r.pins = rows[v].pins
    BY <1>3 DEF RowT
  <1>8. /\ m0.victim = v /\ m0.key = loc[t].key /\ m0.mode = loc[t].mode
        /\ m0.hasBody = loc[t].hasBody
    BY <1>3 DEF Local
  <1>9. m.victim = v /\ m.vrev = slot[v].revision
    BY <1>3 DEF Local
  <1>10. m.key = m0.key /\ m.mode = m0.mode /\ m.hasBody = m0.hasBody
    <2> HIDE DEF m0
    <2> QED OBVIOUS
  <1> HIDE DEF r, m0, m
  <1>11. /\ pc'[t] = "shed" /\ loc'[t] = m
         /\ \A u \in Thread \ {t} : pc'[u] = pc[u] /\ loc'[u] = loc[u]
    BY <1>4, <1>6 DEF Inv, TypedInv
  <1>12. ~rows[v].retiring
    BY <1>2 DEF Ticketed, Idle
  <1>13. \A u \in Thread \ {t} : Retires(u) => loc[u].victim # v
    BY <1>12 DEF StoreInv
  <1>14. \A u \in Thread \ {t} : Ticket(u)'
    BY <1>4, <1>8, <1>10, <1>11, <1>13, OthersTicketed DEF RestInv
  <1>15. Ticket(t)'
    <2>1. Unshared(v)'
      BY <1>2, <1>4, <1>8, <1>10, <1>11 DEF Ticketed, Unshared, UsesBody
    <2> QED BY <1>2, <1>4, <1>9, <1>11, <2>1 DEF Ticket, TicketHolds, Ticketed
  <1>16. ASSUME NEW k \in Key
         PROVE  Retired(k)'
    <2>1. CASE k = v
      BY <1>9, <1>11, <2>1 DEF Retired, Retires
    <2>2. CASE k # v
      <3>1. rows[k].retiring => \E u \in Thread : Retires(u) /\ loc[u].victim = k
        BY DEF RestInv, TicketInv, Retired
      <3>2. ASSUME NEW u \in Thread, Retires(u)
            PROVE  u # t
        BY <1>4, <3>2 DEF Retires
      <3> QED BY <1>5, <1>11, <2>2, <3>1, <3>2 DEF Retired, Retires
    <2> QED BY <2>1, <2>2
  <1>17. ASSUME NEW k \in Key
         PROVE  Forced(k)'
    <2>1. rows'[k].forced = rows[k].forced /\ rows'[k].body = rows[k].body
      BY <1>5, <1>7
    <2>2. ASSUME NEW u \in Thread, pc[u] = "overrun"
          PROVE  u # t
      BY <1>4, <2>2
    <2>3. Forced(k)
      BY DEF RestInv, TicketInv
    <2>4. \A u \in Thread : pc[u] = "overrun" => pc'[u] = "overrun" /\ loc'[u] = loc[u]
      BY <1>11, <2>2
    <2> QED BY <2>1, <2>3, <2>4, ZenonT(30) DEF Forced
  <1>18. TicketInv'
    BY <1>14, <1>15, <1>16, <1>17 DEF TicketInv
  <1>19. CASE loc[t].mode = "trim"
    <2>1. Bound(t)'
      BY <1>8, <1>10, <1>11, <1>19 DEF Bound, Owes, Trims
    <2> QED BY <1>18, <2>1, BoundRests
  <1>20. CASE loc[t].mode # "trim"
    <2>1. ~Bound(t)
      BY <1>4, <1>20 DEF Bound, Owes, Trims
    <2>2. Reclaimable' \subseteq Reclaimable
      BY <1>5, <1>7 DEF Reclaimable, Idle
    <2>3. \A k \in Key : Spent(k)' => Spent(k)
      BY <1>5, <1>7 DEF Spent
    <2>4. Over' <=> Over
      BY <1>4, SameOver
    <2>5. Left' => Left
      BY <2>2, <2>3, <2>4 DEF Left
    <2> QED BY <1>11, <1>18, <2>1, <2>5, QuietRests
  <1> QED BY <1>19, <1>20

LEMMA SelectNoneRests ==
    ASSUME Inv, StoreInv, ListedInv, RestInv, NEW t \in Thread, SelectNone(t)
    PROVE  RestInv'
  <1>1. pc[t] = "select" /\ Victims(loc[t].mode) = {} /\ UNCHANGED <<rows, slot, held, sums>>
    BY DEF SelectNone, hostVars, clientVars, sums
  <1>2. CASE loc[t].mode = "admit"
    <2>1. Answer(t, "Busy")
      BY <1>2 DEF SelectNone
    <2>2. Uses(t)
      BY <1>1, <2>1, AnswerUses
    <2>3. ~Bound(t)
      BY <1>1, <1>2 DEF Bound, Owes, Trims
    <2> QED BY <1>1, <2>2, <2>3, StillQuiet
  <1>3. CASE loc[t].mode # "admit"
    <2>1. loc[t].mode = "trim"
      BY <1>3, LocalRecord DEF Place
    <2>2. Resume(t)
      BY <1>3 DEF SelectNone
    <2> QED BY <1>1, <2>1, <2>2, ResumeRests
  <1> QED BY <1>2, <1>3

LEMMA ShedRests ==
    ASSUME Inv, StoreInv, RestInv, NEW t \in Thread, Shed(t)
    PROVE  RestInv'
  <1> DEFINE v == loc[t].victim
             s == [slot[v] EXCEPT !.phase = "Cold", !.raw = NoRaw]
  <1>1. /\ pc[t] = "shed" /\ pc' = [pc EXCEPT ![t] = "settle"]
        /\ UNCHANGED <<rows, held, loc, sums>>
    BY DEF Shed, Goto, ledgerVars, hostVars, clientVars, sums
  <1>2. Retires(t)
    BY <1>1 DEF Retires
  <1>3. v \in Key /\ slot[v] \in Slot
    BY <1>2, VictimTyped DEF Inv, TypedInv
  <1>4. TicketHolds(t)
    BY <1>1 DEF RestInv, TicketInv, Ticket
  <1>5. slot' = [slot EXCEPT ![v] = s]
    BY <1>4 DEF Shed
  <1>6. s.phase = "Cold"
    BY <1>3 DEF Slot
  <1> HIDE DEF s
  <1>7. /\ slot'[v] = s /\ (\A k \in Key \ {v} : slot'[k] = slot[k])
        /\ pc'[t] = "settle" /\ \A u \in Thread \ {t} : pc'[u] = pc[u]
    BY <1>1, <1>3, <1>5 DEF Inv, TypedInv
  <1>8. \A u \in Thread \ {t} : Retires(u) => loc[u].victim # v
    BY <1>2 DEF StoreInv
  <1>9. \A u \in Thread \ {t} : Ticket(u)'
    BY <1>1, <1>7, <1>8, OthersTicketed DEF RestInv
  <1>10. Ticket(t)'
    BY <1>1, <1>6, <1>7 DEF Ticket
  <1>11. \A u \in Thread : Retires(u)' <=> Retires(u)
    BY <1>2, <1>7 DEF Retires
  <1>12. \A k \in Key : Retired(k)'
    BY <1>1, <1>11 DEF Retired, RestInv, TicketInv
  <1>13. \A u \in Thread : pc'[u] = "overrun" <=> pc[u] = "overrun"
    BY <1>1, <1>7
  <1>14. \A k \in Key : Forced(k)'
    BY <1>1, <1>13 DEF Forced, RestInv, TicketInv
  <1>15. \A u \in Thread : Bound(u)' <=> Bound(u)
    BY <1>1, <1>7 DEF Bound, Owes, Trims
  <1>16. Left' => Left
    BY <1>1, SameOver, LeftShrinks DEF RowUsed
  <1> QED BY <1>9, <1>10, <1>12, <1>14, <1>15, <1>16 DEF RestInv, TicketInv, TrimOwed

-----------------------------------------------------------------------------
(* Charges leave                                                           *)

LEMMA SettleRests ==
    ASSUME Inv, StoreInv, TypeOK, RestInv, NEW t \in Thread, Settle(t)
    PROVE  RestInv'
  <1> DEFINE v == loc[t].victim
             r0 == [rows[v] EXCEPT !.retiring = FALSE]
             r1 == [r0 EXCEPT !.body = 0]
             r == [r1 EXCEPT !.forced = FALSE]
             s == [slot[v] EXCEPT !.lastRaw = NoRaw]
  <1>1. /\ pc[t] = "settle" /\ pc' = [pc EXCEPT ![t] = "collect"]
        /\ UNCHANGED <<held, limit, floor, reservedBytes>>
    BY DEF Settle, Goto, hostVars, clientVars
  <1>2. Retires(t)
    BY <1>1 DEF Retires
  <1>3. v \in Key /\ slot[v] \in Slot /\ rows[v] \in RowT /\ rows[v].body \in Nat
    BY <1>2, VictimTyped DEF Inv, TypedInv, RowT
  <1>4. slot[v].phase = "Cold"
    BY <1>1 DEF RestInv, TicketInv, Ticket
  <1>5. /\ rows' = [rows EXCEPT ![v] = r] /\ slot' = [slot EXCEPT ![v] = s]
        /\ loc' = loc /\ bodyBytes' = bodyBytes - rows[v].body /\ ReleaseRaw(rows[v].raw)
    BY <1>3, <1>4 DEF Settle, RowT
  <1>6. r.retiring = FALSE /\ r.body = 0 /\ r.forced = FALSE
    BY <1>3 DEF RowT
  <1>7. s.phase = slot[v].phase
    BY <1>3 DEF Slot
  <1> HIDE DEF r0, r1, r, s
  <1>8. /\ rows'[v] = r /\ \A k \in Key \ {v} : rows'[k] = rows[k]
        /\ slot'[v] = s /\ \A k \in Key \ {v} : slot'[k] = slot[k]
        /\ pc'[t] = "collect" /\ \A u \in Thread \ {t} : pc'[u] = pc[u]
    BY <1>1, <1>3, <1>5 DEF Inv, TypedInv
  <1>9. \A u \in Thread \ {t} : Retires(u) => loc[u].victim # v
    BY <1>2 DEF StoreInv
  <1>10. \A u \in Thread \ {t} : Ticket(u)'
    BY <1>1, <1>5, <1>8, <1>9, OthersTicketed DEF RestInv
  <1>11. Ticket(t)'
    BY <1>8 DEF Ticket
  <1>12. ASSUME NEW k \in Key
         PROVE  Retired(k)'
    <2>1. CASE k = v
      BY <1>6, <1>8, <2>1 DEF Retired
    <2>2. CASE k # v
      <3>1. rows[k].retiring => \E u \in Thread : Retires(u) /\ loc[u].victim = k
        BY DEF RestInv, TicketInv, Retired
      <3> QED BY <1>5, <1>8, <2>2, <3>1 DEF Retired, Retires
    <2> QED BY <2>1, <2>2
  <1>13. \A u \in Thread : pc[u] = "overrun" => pc'[u] = "overrun"
    BY <1>1, <1>8
  <1>14. ASSUME NEW k \in Key
         PROVE  Forced(k)'
    <2>1. CASE k = v
      BY <1>6, <1>8, <2>1 DEF Forced
    <2>2. CASE k # v
      <3>1. Forced(k)
        BY DEF RestInv, TicketInv
      <3> QED BY <1>5, <1>8, <1>13, <2>2, <3>1 DEF Forced
    <2> QED BY <2>1, <2>2
  <1>15. TicketInv'
    BY <1>10, <1>11, <1>12, <1>14 DEF TicketInv
  <1>16. \A u \in Thread : Bound(u)' <=> Bound(u)
    BY <1>1, <1>5, <1>8 DEF Bound, Owes, Trims
  <1>17. Reclaimable' \subseteq Reclaimable
    BY <1>6, <1>8 DEF Reclaimable, Idle
  <1>18. \A k \in Key : Spent(k)' => Spent(k)
    BY <1>6, <1>8 DEF Spent
  <1>19. Over' => Over
    <2>1. rawBytes' \in Int /\ rawBytes' <= rawBytes
      BY <1>3, <1>5, ReleaseFrees DEF RowT
    <2>2. bodyBytes' \in Int /\ bodyBytes' <= bodyBytes
      BY <1>3, <1>5 DEF TypeOK
    <2> QED BY <1>1, <2>1, <2>2, LessOver
  <1>20. Left' => Left
    BY <1>17, <1>18, <1>19 DEF Left
  <1> QED BY <1>15, <1>16, <1>20 DEF RestInv, TrimOwed

(* Where a collection goes: the trim goes on, or the admission does.       *)
LEMMA CollectedTo ==
    ASSUME Inv, NEW t \in Thread, Collected(t)
    PROVE  \E p \in {"select", "unowe", "admit"} :
             pc' = [pc EXCEPT ![t] = p] /\ (loc[t].mode = "trim" => p = "select")
  BY DEF Collected, Goto

LEMMA CollectNothingRests ==
    ASSUME Inv, StoreInv, RestInv, NEW t \in Thread, CollectNothing(t) \/ DropRow(t)
    PROVE  RestInv'
  <1> DEFINE m == [loc[t] EXCEPT !.raw = NoRaw]
  <1>1. pc[t] \in {"collect", "drop"} /\ UNCHANGED <<rows, slot, held, sums>>
    BY DEF CollectNothing, DropRow, ledgerVars, hostVars, clientVars, sums
  <1>2. /\ m.hasBody = loc[t].hasBody /\ m.key = loc[t].key
    BY LocalRecord DEF Local
  <1>3. m.mode = loc[t].mode
    BY LocalRecord DEF Local
  <1>4. PICK p \in {"select", "unowe", "admit", "destroyed"} :
          pc' = [pc EXCEPT ![t] = p] /\ (loc[t].mode = "trim" => p \in Trims)
    BY CollectedTo DEF CollectNothing, DropRow, Goto, Trims
  <1>5. PICK l \in {loc[t], m} : loc' = [loc EXCEPT ![t] = l]
    BY DEF CollectNothing, DropRow, Inv, TypedInv
  <1> HIDE DEF m
  <1>6. l.hasBody = loc[t].hasBody /\ l.key = loc[t].key /\ l.mode = loc[t].mode
    BY <1>2, <1>3
  <1>7. Uses(t)
    <2>1. Shares(l, loc[t])
      BY <1>6, SharesSame
    <2> QED BY <1>1, <1>4, <1>5, <2>1 DEF Uses
  <1>8. CASE loc[t].mode = "trim"
    <2>1. Bound(t)'
      BY <1>4, <1>5, <1>6, <1>8 DEF Bound, Owes, Inv, TypedInv
    <2> QED BY <1>1, <1>7, <2>1, StillBound
  <1>9. CASE loc[t].mode # "trim"
    <2>1. ~Bound(t)
      BY <1>1, <1>9 DEF Bound, Owes, Trims
    <2> QED BY <1>1, <1>7, <2>1, StillQuiet
  <1> QED BY <1>8, <1>9

(* The row that leaves is of no interest to a trim. *)
LEMMA CollectRests ==
    ASSUME Inv, StoreInv, RestInv, NEW t \in Thread, Collect(t)
    PROVE  RestInv'
  <1> DEFINE v == loc[t].victim
             m0 == [loc[t] EXCEPT !.raw = slot[v].raw]
             m1 == [m0 EXCEPT !.gone = rows[v].body]
             m == [m1 EXCEPT !.goneRaw = rows[v].raw]
  <1>1. /\ pc[t] = "collect" /\ pc' = [pc EXCEPT ![t] = "drop"] /\ UNCHANGED <<held, sums>>
        /\ rows' = [rows EXCEPT ![v] = Absent] /\ slot' = [slot EXCEPT ![v] = NewSlot]
        /\ ~rows[v].retiring
    BY DEF Collect, Collectable, Goto, hostVars, clientVars, sums
  <1>2. loc' = [loc EXCEPT ![t] = m]
    BY LocalRecord DEF Collect, Local
  <1>3. v \in Key /\ rows[v] \in RowT
    <2>1. v # NoKey
      BY <1>1, LocalRecord DEF Place, Trims
    <2> QED BY <2>1, LocalRecord DEF Local, Inv, TypedInv
  <1>4. m0.hasBody = loc[t].hasBody /\ m0.key = loc[t].key
    BY LocalRecord DEF Local
  <1>5. m0.mode = loc[t].mode
    BY LocalRecord DEF Local
  <1> HIDE DEF m0
  <1>6. m.hasBody = m0.hasBody /\ m.key = m0.key /\ m.mode = m0.mode
    OBVIOUS
  <1> HIDE DEF m1, m
  <1>7. Uses(t)
    BY <1>1, <1>2, <1>4, <1>6, SharesSame DEF Uses
  <1>8. /\ rows'[v] = Absent /\ \A k \in Key \ {v} : rows'[k] = rows[k] /\ slot'[k] = slot[k]
        /\ pc'[t] = "drop" /\ loc'[t] = m
    BY <1>1, <1>2, <1>3 DEF Inv, TypedInv
  <1>9. Absent.retiring = FALSE /\ Absent.forced = FALSE /\ Absent.body = 0
    BY DEF Absent
  <1>10. rows[v].retiring = FALSE
    BY <1>1, <1>3 DEF RowT
  <1>11. \A k \in Key : RowRests(k) /\ SlotRests(k)
    BY <1>8, <1>9, <1>10 DEF RowRests, SlotRests
  <1>12. Pins
    BY <1>1 DEF Pins
  <1>13. TicketInv' /\ \A u \in Thread \ {t} : pc'[u] = pc[u] /\ loc'[u] = loc[u]
    BY <1>1, <1>7, <1>11, <1>12, UsesTickets, UsesUndisturbed DEF RestInv, RowRests
  <1>14. CASE loc[t].mode = "trim"
    <2>1. Bound(t)'
      BY <1>5, <1>6, <1>8, <1>14 DEF Bound, Owes, Trims
    <2> QED BY <1>13, <2>1, BoundRests
  <1>15. CASE loc[t].mode # "trim"
    <2>1. ~Bound(t)
      BY <1>1, <1>15 DEF Bound, Owes, Trims
    <2>2. Reclaimable' \subseteq Reclaimable
      BY <1>8, <1>9 DEF Reclaimable, Idle
    <2>3. \A k \in Key : Spent(k)' => Spent(k)
      BY <1>8, <1>9 DEF Spent
    <2>4. Left' => Left
      BY <1>1, <2>2, <2>3, SameOver DEF Left
    <2> QED BY <1>13, <2>1, <2>4, QuietRests
  <1> QED BY <1>14, <1>15

LEMMA ReleaseDetachedRests ==
    ASSUME Inv, StoreInv, TypeOK, RestInv, NEW t \in Thread, ReleaseDetached(t)
    PROVE  RestInv'
  <1> DEFINE m == [loc[t] EXCEPT !.gone = 0, !.goneRaw = NoRaw]
  <1>1. /\ pc[t] = "destroyed" /\ UNCHANGED <<rows, slot, held>>
        /\ UNCHANGED <<limit, floor, reservedBytes>>
        /\ bodyBytes' = bodyBytes - loc[t].gone
        /\ \/ ReleaseRaw(loc[t].goneRaw)
           \/ Prune({loc[t].goneRaw} \ {NoRaw})
    BY DEF ReleaseDetached, hostVars, clientVars
  <1>2. loc' = [loc EXCEPT ![t] = m]
    BY LocalRecord DEF ReleaseDetached, Local
  <1>3. PICK p \in {"select", "unowe", "admit"} :
          pc' = [pc EXCEPT ![t] = p] /\ (loc[t].mode = "trim" => p = "select")
    BY CollectedTo DEF ReleaseDetached
  <1>4. m.hasBody = loc[t].hasBody /\ m.key = loc[t].key
    BY LocalRecord DEF Local
  <1>5. m.mode = loc[t].mode
    BY LocalRecord DEF Local
  <1> HIDE DEF m
  <1>6. Uses(t)
    <2>1. Shares(m, loc[t])
      BY <1>4, SharesSame
    <2> QED BY <1>1, <1>2, <1>3, <2>1 DEF Uses
  <1>7. CASE loc[t].mode = "trim"
    <2>1. Bound(t)'
      BY <1>2, <1>3, <1>5, <1>7 DEF Bound, Owes, Trims, Inv, TypedInv
    <2> QED BY <1>1, <1>6, <2>1, StillBound
  <1>8. CASE loc[t].mode # "trim"
    <2>1. ~Bound(t)
      BY <1>1, <1>8 DEF Bound, Owes, Trims
    <2>2. loc[t].goneRaw \in RawId \cup {NoRaw} /\ loc[t].gone \in Nat
      BY LocalRecord DEF Local
    <2>3. rawBytes' \in Int /\ rawBytes' <= rawBytes
      <3>1. {loc[t].goneRaw} \ {NoRaw} \subseteq RawId
        BY <2>2
      <3> QED BY <1>1, <2>2, <3>1, ReleaseFrees, PruneFrees
    <2>4. bodyBytes' \in Int /\ bodyBytes' <= bodyBytes
      BY <1>1, <2>2 DEF TypeOK
    <2>5. Over' => Over
      BY <1>1, <2>3, <2>4, LessOver
    <2> QED BY <1>1, <1>6, <2>1, <2>5, UntouchedRows, QuietUses
  <1> QED BY <1>7, <1>8

-----------------------------------------------------------------------------
(* Every step                                                              *)

LEMMA NextRests ==
    ASSUME Inv, BooksInv, ReservedInv, ListedInv, FlagsInv, RestInv, [Next]_allVars
    PROVE  RestInv'
  <1>1. TypeOK /\ StoreInv
    BY TypesFollow DEF BooksInv
  <1>2. ASSUME NEW t \in Thread, BeginStep(t)
        PROVE  RestInv'
    BY <1>1, <1>2, BeginRests, EnterRests, PrepareJoinRests, ReleaseRests DEF BeginStep
  <1>3. ASSUME NEW t \in Thread, AdmitStep(t)
        PROVE  RestInv'
    BY <1>1, <1>3, AdmitRests
  <1>4. ASSUME NEW t \in Thread, RetireStep(t)
        PROVE  RestInv'
    BY <1>1, <1>4, SelectVictimRests, SelectNoneRests, ShedRests, SettleRests,
       CollectNothingRests, CollectRests, ReleaseDetachedRests DEF RetireStep
  <1>5. ASSUME NEW t \in Thread, CallStep(t)
        PROVE  RestInv'
    BY <1>1, <1>5, LoadRests, LearnRests, FinishPinRests, FinishOverrunRests, UncountRests,
       FailReadRests, FinishFailRests, ReleaseRests DEF CallStep
  <1>6. ASSUME NEW t \in Thread, LeaseStep(t) \/ ClientStart(t) \/ HostStart(t)
        PROVE  RestInv'
    BY <1>1, <1>6, LeaseRests, ClientRests, HostRests
  <1>7. CASE Passage
    BY <1>1, <1>7, PassageRests
  <1>8. CASE UNCHANGED allVars
    <2>1. UNCHANGED <<rows, pc, loc, held, slot, sums>>
      BY <1>8 DEF allVars, vars, ledgerVars, hostVars, sums
    <2> QED BY <1>1, <2>1, SameOver, FreedRests
  <1> QED BY <1>2, <1>3, <1>4, <1>5, <1>6, <1>7, <1>8 DEF Next, Step

LEMMA InitRests == Init => RestInv
  <1> SUFFICES ASSUME Init
               PROVE  RestInv
    OBVIOUS
  <1>1. NewRow.retiring = FALSE /\ NewRow.forced = FALSE /\ NewRow.body = 0
    BY DEF NewRow, Absent
  <1>2. /\ \A k \in Key : ~rows[k].retiring /\ ~rows[k].forced /\ rows[k].body = 0
        /\ \A t \in Thread : pc[t] = "idle"
    BY <1>1 DEF Init
  <1>3. TicketInv
    BY <1>2 DEF TicketInv, Retired, Forced, Ticket
  <1>4. ~Left
    BY <1>2 DEF Left, Reclaimable, Idle, Spent
  <1> QED BY <1>3, <1>4 DEF RestInv, TrimOwed

(* Between operations nobody owes a trim, so nothing is left for one.      *)
LEMMA RestTrimmed ==
    ASSUME Inv, StoreInv, RestInv
    PROVE  TrimmedAtRest
  <1> SUFFICES ASSUME AtRest
               PROVE  (Over => Reclaimable = {}) /\ \A k \in Key : rows[k].forced => rows[k].pins # 0
    BY DEF TrimmedAtRest
  <1>1. \A t \in Thread : pc[t] = "idle" /\ loc[t] = NoCall
    BY IdleIsNoCall DEF AtRest
  <1>2. ~Left
    BY <1>1 DEF RestInv, TrimOwed, Bound, Owes, Trims
  <1>3. ASSUME NEW k \in Key, rows[k].forced, rows[k].pins = 0
        PROVE  FALSE
    <2>1. ~rows[k].retiring
      BY <1>1 DEF RestInv, TicketInv, Retired, Retires
    <2>2. Callers(k) = {}
      BY <1>1, NoCallFields DEF Callers, InCall
    <2>3. rows[k].calls = 0
      <3>1. Cardinality(Callers(k)) = 0
        BY <2>2, FS_EmptySet
      <3> QED BY <3>1 DEF Inv, LeasesCounted, Callers
    <2> QED BY <1>2, <1>3, <2>1, <2>3 DEF Left, Spent
  <1> QED BY <1>2, <1>3 DEF Left

(* Once every thread is between operations, nothing sheddable is left      *)
(* above the limit and no overrun's body is left at all: every drop, every *)
(* overrun and every change of the limit trims until nothing is left, or   *)
(* leaves the rest to a thread that will (controller.rs trim, ledger.rs    *)
(* shed_one_with).                                                         *)
THEOREM TrimmedAtRestHolds == Spec => []TrimmedAtRest
  <1> DEFINE G == /\ Inv /\ BooksInv /\ ReservedInv /\ UnfailedInv
                  /\ ListedInv /\ FlagsInv /\ RestInv
  <1>1. Init => G
    BY InitRests, InitFlags, InitListed, InitUnfailed, InitBooks, InitReserves, InitInv
  <1>2. G /\ [Next]_allVars => G'
    BY NextRests, NextFlags, NextListed, NextUnfailed, NextBooks, NextReserves, NextKeeps
       DEF BooksInv
  <1>3. G => TrimmedAtRest
    BY RestTrimmed DEF BooksInv
  <1> QED BY <1>1, <1>2, <1>3, PTL DEF Spec
=============================================================================
