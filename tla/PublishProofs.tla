---------------------------- MODULE PublishProofs ----------------------------
(***************************************************************************)
(* For any number of transactions, destinations, faults and crashes: a     *)
(* decided intent always has its recovery images (ImagesBacked), and what  *)
(* a transaction relied on reading is not written by another one while it  *)
(* holds its reservation (PremisesStand).                                  *)
(*                                                                         *)
(* Where transactions make different edits, one that is settled is on all  *)
(* of its destinations or on none (AllOrNothing), and an acknowledged one  *)
(* stays (AckedKept).  A rename, a restore and a roll forward of one       *)
(* transaction only add or take away its own edit, since each is done over *)
(* bytes known to be the old or the new ones of that transaction.  So      *)
(* where another transaction's edit lies never changes, and where its own  *)
(* lies is told by its thread's place and its intent: a mixture has a      *)
(* decided intent.                                                         *)
(*                                                                         *)
(* While no file operation fails, publication and recovery implement the   *)
(* atomic store: decided transactions lie apart, and every destination of  *)
(* one holds its old or its new bytes.  What the store holds there is the  *)
(* old bytes until the first rename under Forward, or the finalization     *)
(* under Restore, makes it the new ones: that step is the commit.  Every   *)
(* other step of publication and every step of recovery leaves the store.  *)
(***************************************************************************)
EXTENDS Publish, TLAPS

Stopped == Ended \cup {"idle"}

Shape ==
    /\ DOMAIN images = Txn /\ DOMAIN intent = Txn /\ DOMAIN pc = Txn /\ DOMAIN plan = Txn
    /\ found \subseteq Txn
    /\ \A t \in Txn : plan[t].policy \in {"Restore", "Forward"}

(* Images precede the intent: a thread about to write its intent has       *)
(* stored them all, and one that has not planned or is past reclaiming has *)
(* no decided intent.                                                      *)
ThreadBacked(t) ==
    /\ intent[t] = "decided" => Dests(t) \subseteq images[t]
    /\ pc[t] \in {"create", "write"} => Dests(t) \subseteq images[t]
    /\ pc[t] \in {"idle", "clear"} => intent[t] # "decided"

(* Recovery runs alone, and clears images after their intent. *)
RecoveryAlone == mode # "open" => \A t \in Txn : pc[t] \in Stopped
RecoveryOrder ==
    /\ at # "next" => mode = "recover" /\ cur \in Txn
    /\ at = "clear" => intent[cur] # "decided"

BackedInv == Shape /\ RecoveryAlone /\ RecoveryOrder /\ \A t \in Txn : ThreadBacked(t)

USE DEF Stopped, Ended, Dests

-----------------------------------------------------------------------------
(* ImagesBacked *)

LEMMA InitBacked == Init => BackedInv
  BY DEF Init, BackedInv, Shape, RecoveryAlone, RecoveryOrder, ThreadBacked, NoPlan

(* Steps of a publishing thread. *)
LEMMA PublishingBacked ==
  ASSUME BackedInv, NEW t \in Txn, Stage(t) \/ Publishing(t)
  PROVE  BackedInv'
<1> USE DEF BackedInv, Shape, RecoveryAlone, RecoveryOrder, ThreadBacked, files, memory,
            recovery, Goto, Return
<1>1. CASE Stage(t)
  BY <1>1, PublishAssumption DEF Stage
<1>2. CASE Reserve(t) \/ Reverify(t)
  BY <1>2 DEF Reserve, Reverify
<1>3. CASE StoreImages(t)
  BY <1>3 DEF StoreImages
<1>4. CASE CreateIntent(t) \/ WriteIntent(t) \/ SyncIntent(t)
  BY <1>4 DEF CreateIntent, WriteIntent, SyncIntent
<1>5. CASE RefuseIo(t) \/ CommitUnknown(t) \/ ReclaimFails(t)
  BY <1>5 DEF RefuseIo, CommitUnknown, ReclaimFails
<1>6. CASE Rename(t) \/ Apply(t) \/ Finalize(t)
  BY <1>6 DEF Rename, Apply, Finalize
<1>7. CASE ReclaimIntent(t) \/ ReclaimImages(t)
  BY <1>7 DEF ReclaimIntent, ReclaimImages
<1> QED
  BY <1>1, <1>2, <1>3, <1>4, <1>5, <1>6, <1>7 DEF Publishing

(* Process death and the steps of recovery. *)
LEMMA RecoveryBacked ==
  ASSUME BackedInv, Crash \/ Recover
  PROVE  BackedInv'
<1> USE DEF BackedInv, Shape, RecoveryAlone, RecoveryOrder, ThreadBacked, files, memory,
            recovery, Recovering, NextIntent
<1>1. CASE Crash
  BY <1>1 DEF Crash
<1>2. CASE Scan \/ Open
  BY <1>2 DEF Scan, Open, Recorded
<1>3. CASE RecoverOne
  BY <1>3 DEF RecoverOne, Outcome
<1>4. CASE Quarantine \/ RecoveryFails
  BY <1>4 DEF Quarantine, RecoveryFails
<1>5. CASE RestoreMember \/ ForwardMember
  BY <1>5 DEF RestoreMember, ForwardMember, PutBack
<1>6. CASE FinalizeRecovered \/ ReclaimRecovered
  BY <1>6 DEF FinalizeRecovered, ReclaimRecovered
<1>7. CASE ClearRecovered
  BY <1>7 DEF ClearRecovered
<1> QED
  BY <1>1, <1>2, <1>3, <1>4, <1>5, <1>6, <1>7 DEF Recover

(* Whatever moment the process dies at, a decided intent on disk has its   *)
(* images beside it (intent.rs store_images before create_decided, and     *)
(* reclaim's order).                                                       *)
THEOREM ImagesBackedHolds == Spec => []ImagesBacked
<1>1. BackedInv /\ [Next]_vars => BackedInv'
  <2> SUFFICES ASSUME BackedInv, [Next]_vars PROVE BackedInv'
    OBVIOUS
  <2>1. CASE UNCHANGED vars
    BY <2>1 DEF BackedInv, Shape, RecoveryAlone, RecoveryOrder, ThreadBacked, vars, files,
                memory, recovery
  <2> QED
    BY <2>1, PublishingBacked, RecoveryBacked DEF Next
<1>2. BackedInv => ImagesBacked
  BY DEF BackedInv, ThreadBacked, ImagesBacked
<1> QED
  BY InitBacked, <1>1, <1>2, PTL DEF Spec

-----------------------------------------------------------------------------
(* PremisesStand *)

Clash(t, u) == Conflict(plan[t].reads, Writes(t), plan[u].reads, Writes(u))

(* Reservations are held from the acquisition to the return of publish,    *)
(* those held together do not conflict, and a thread renames only its own  *)
(* temps.                                                                  *)
ApartInv ==
    /\ DOMAIN pc = Txn /\ DOMAIN plan = Txn /\ DOMAIN staged = Txn /\ DOMAIN disk = Path
    /\ held = {t \in Txn : pc[t] \notin Stopped \cup {"reserve"}}
    /\ RecoveryAlone
    /\ \A t \in Txn : staged[t] \subseteq Dests(t) /\ plan[t].reads \subseteq Premises
    /\ \A t, u \in held : t # u => ~Clash(t, u)

(* The algebra is symmetric (publish.rs Region::conflicts). *)
LEMMA ConflictSymmetric ==
  ASSUME NEW rs, NEW ws, NEW us, NEW vs, Conflict(rs, ws, us, vs)
  PROVE  Conflict(us, vs, rs, ws)
  BY DEF Conflict, Intersect

(* A write of a path a premise covers intersects the premise               *)
(* (publish.rs spatial_intersect).                                         *)
LEMMA CoveredIntersects ==
  ASSUME NEW r \in Premises, NEW p \in Footprint(r) \cap Path
  PROVE  Intersect(r, File(p))
<1>1. CASE r.extent = "root"
  BY <1>1 DEF Intersect, Meets
<1>2. CASE r.extent = "folder"
  BY <1>2, PremisesAssumption DEF Intersect, Meets, File, Footprint, UnderOrEq
<1>3. CASE r.extent = "file"
  BY <1>3 DEF Intersect, Meets, File, Footprint
<1>4. CASE r.extent = "absence"
  BY <1>4 DEF Intersect, Meets, File, Footprint
<1> QED
  BY <1>1, <1>2, <1>3, <1>4, PremisesAssumption

LEMMA InitApart == Init => ApartInv
  BY DEF Init, ApartInv, RecoveryAlone, NoPlan

LEMMA NextApart ==
  ASSUME ApartInv, [Next]_vars
  PROVE  ApartInv'
<1> USE DEF ApartInv, RecoveryAlone, Clash, Writes, files, memory, recovery, Goto, Return
<1>1. ASSUME NEW t \in Txn, Stage(t) PROVE ApartInv'
  <2>1. t \notin held /\ held' = held
    BY <1>1 DEF Stage
  <2>2. \A u \in Txn : u # t => plan'[u] = plan[u] /\ staged'[u] = staged[u] /\ pc'[u] = pc[u]
    BY <1>1 DEF Stage
  <2>3. plan'[t].reads \subseteq Premises /\ staged'[t] = plan'[t].dests /\ pc'[t] = "reserve"
    BY <1>1 DEF Stage
  <2>4. \A u, v \in held : u # v => ~Clash(u, v)'
    <3> SUFFICES ASSUME NEW u \in held, NEW v \in held, u # v
                 PROVE  ~Clash(u, v)'
      OBVIOUS
    <3>1. plan'[u] = plan[u] /\ plan'[v] = plan[v]
      BY <2>1, <2>2
    <3> QED
      BY <3>1
  <2>5. \A u \in Txn : staged'[u] \subseteq plan'[u].dests /\ plan'[u].reads \subseteq Premises
    BY <2>2, <2>3
  <2>6. DOMAIN pc' = Txn /\ DOMAIN plan' = Txn /\ DOMAIN staged' = Txn /\ disk' = disk
    BY <1>1 DEF Stage
  <2>7. held' = {u \in Txn : pc'[u] \notin Stopped \cup {"reserve"}}
    BY <2>1, <2>2, <2>3
  <2>8. mode' = "open"
    BY <1>1 DEF Stage
  <2> QED
    BY <2>1, <2>4, <2>5, <2>6, <2>7, <2>8
<1>2. ASSUME NEW t \in Txn, Reserve(t) PROVE ApartInv'
  <2>1. held' = held \cup {t} /\ t \notin held /\ plan' = plan /\ UNCHANGED <<files, mode>>
    BY <1>2 DEF Reserve
  <2>2. \A u \in held : ~Clash(t, u) /\ ~Clash(u, t)
    BY <1>2, ConflictSymmetric DEF Reserve
  <2>3. \A u, v \in held' : u # v => ~Clash(u, v)'
    BY <2>1, <2>2
  <2>4. pc' = [pc EXCEPT ![t] = "reverify"] /\ mode' = "open"
    BY <1>2 DEF Reserve
  <2>5. held' = {u \in Txn : pc'[u] \notin Stopped \cup {"reserve"}}
    BY <2>1, <2>4
  <2> QED
    BY <2>1, <2>3, <2>4, <2>5
<1>3. ASSUME NEW t \in Txn, Reverify(t) PROVE ApartInv'
  BY <1>3 DEF Reverify
<1>4. ASSUME NEW t \in Txn, StoreImages(t) \/ CreateIntent(t) \/ WriteIntent(t) \/ SyncIntent(t)
      PROVE  ApartInv'
  BY <1>4 DEF StoreImages, CreateIntent, WriteIntent, SyncIntent
<1>5. ASSUME NEW t \in Txn, RefuseIo(t) \/ CommitUnknown(t) \/ ReclaimFails(t)
      PROVE  ApartInv'
  BY <1>5 DEF RefuseIo, CommitUnknown, ReclaimFails
<1>6. ASSUME NEW t \in Txn, Rename(t) PROVE ApartInv'
  BY <1>6 DEF Rename
<1>7. ASSUME NEW t \in Txn, Apply(t) \/ Finalize(t) PROVE ApartInv'
  BY <1>7 DEF Apply, Finalize
<1>8. ASSUME NEW t \in Txn, ReclaimIntent(t) \/ ReclaimImages(t) PROVE ApartInv'
  BY <1>8 DEF ReclaimIntent, ReclaimImages
<1>9. CASE Crash
  BY <1>9 DEF Crash
<1>10. CASE Recover
  BY <1>10 DEF Recover, Recovering, NextIntent, Scan, RecoverOne, Quarantine, RestoreMember,
     ForwardMember, PutBack, FinalizeRecovered, ReclaimRecovered, ClearRecovered,
     RecoveryFails, Open
<1>11. CASE UNCHANGED vars
  BY <1>11 DEF vars
<1> QED
  BY <1>1, <1>2, <1>3, <1>4, <1>5, <1>6, <1>7, <1>8, <1>9, <1>10, <1>11 DEF Next, Publishing

(* Only a rename writes a destination while reservations are held. *)
LEMMA OnlyRenames ==
  ASSUME ApartInv, [Next]_vars, held # {}
  PROVE  UNCHANGED disk \/ \E t \in Txn : Rename(t)
<1> USE DEF files, memory, recovery
<1>1. CASE Recover
  BY <1>1 DEF ApartInv, RecoveryAlone, Recover, Recovering, NextIntent, Scan, RecoverOne,
     Quarantine, RestoreMember, ForwardMember, PutBack, FinalizeRecovered, ReclaimRecovered,
     ClearRecovered, RecoveryFails, Open
<1>2. CASE Crash \/ UNCHANGED vars
  BY <1>2 DEF Crash, vars
<1>3. ASSUME NEW t \in Txn, Stage(t) \/ Publishing(t)
      PROVE  UNCHANGED disk \/ Rename(t)
  BY <1>3 DEF Publishing, Stage, Reserve, Reverify, StoreImages, CreateIntent, WriteIntent,
     SyncIntent, RefuseIo, Apply, Finalize, CommitUnknown, ReclaimIntent, ReclaimImages,
     ReclaimFails
<1> QED
  BY <1>1, <1>2, <1>3 DEF Next

(* No step of another transaction writes what a reserved one relied on     *)
(* (publish.rs ReservationTable::reserve over R and W).                    *)
THEOREM PremisesStandHolds == Spec => PremisesStand
<1>1. ASSUME ApartInv, [Next]_vars
      PROVE  Undisturbed
  <2> SUFFICES ASSUME NEW t \in held \cap held', NEW r \in plan[t].reads,
                      NEW p \in (Footprint(r) \cap Path) \ Dests(t),
                      NEW u \in Txn, Rename(u)
               PROVE  disk'[p] = disk[p]
    BY <1>1, OnlyRenames DEF Undisturbed
  <2>1. u \in held /\ staged[u] \subseteq Dests(u) /\ r \in Premises
    BY <1>1 DEF ApartInv, Rename
  <2>2. p \notin Dests(u)
    <3>1. SUFFICES ASSUME p \in Dests(u) PROVE FALSE
      OBVIOUS
    <3>2. u # t
      BY <3>1
    <3>3. Intersect(r, File(p)) /\ File(p) \in Writes(u)
      BY <2>1, <3>1, CoveredIntersects DEF Writes
    <3> QED
      BY <1>1, <2>1, <3>2, <3>3 DEF ApartInv, Clash, Conflict
  <2> QED
    BY <1>1, <2>1, <2>2 DEF ApartInv, Rename
<1>2. ApartInv /\ [Next]_vars => ApartInv'
  BY NextApart
<1>3. ApartInv /\ [Next]_vars => [Undisturbed]_vars
  BY <1>1
<1> QED
  BY InitApart, <1>2, <1>3, PTL DEF Spec, PremisesStand

-----------------------------------------------------------------------------
(* Settled transactions *)

(* Every transaction makes an edit of its own. *)
DistinctEdits == \A t, u \in Txn : EditOf[t] = EditOf[u] => t = u

Bytes == Seq({EditOf[t] : t \in Txn})

Has(t, p) == Contains(disk[p], EditOf[t])
Everywhere(t) == \A p \in Dests(t) : Has(t, p)
Nowhere(t) == \A p \in Path : ~Has(t, p)

Files ==
    /\ disk \in [Path -> Bytes]
    /\ staged \in [Txn -> SUBSET Path]
    /\ DOMAIN pc = Txn /\ DOMAIN intent = Txn /\ DOMAIN plan = Txn
    /\ \A t \in Txn : /\ plan[t].old \in [Path -> Bytes] /\ Dests(t) \subseteq Path
                     /\ plan[t].policy \in {"Restore", "Forward"}
    /\ found \subseteq Txn

(* What t replaces does not hold its edit, and it lands on its own         *)
(* destinations only.                                                      *)
OwnEdits(t) ==
    /\ \A p \in Path : ~Contains(Old(t, p), EditOf[t])
    /\ \A p \in Path \ Dests(t) : ~Has(t, p)

Early == {"idle", "reserve", "reverify", "images", "create", "write", "sync", "conflict", "io"}
Verified == {"images", "create", "write", "sync", "rename"}

(* Where t's edit is, by the place of its thread. *)
Placed(t) ==
    /\ pc[t] \in Early => Nowhere(t)
    /\ pc[t] \in {"reserve", "reverify", "images", "create", "write", "sync"} => staged[t] = Dests(t)
    /\ pc[t] \in Verified => \A p \in staged[t] : disk[p] = Old(t, p)
    /\ pc[t] = "rename" => \A p \in Dests(t) \ staged[t] : Has(t, p)
    /\ pc[t] \in {"apply", "finalize", "reclaim", "clear", "acked"} => Everywhere(t)

(* And by its intent. *)
Decided(t) ==
    /\ pc[t] \in {"idle", "reserve", "reverify", "images", "create", "conflict"} => intent[t] = "none"
    /\ pc[t] # "idle" => Dests(t) # {}
    /\ pc[t] \in {"sync", "rename", "apply", "finalize"} => intent[t] = "decided"
    /\ pc[t] \in {"reclaim", "clear", "acked"} => intent[t] # "decided"
    /\ intent[t] = "applied" => Everywhere(t)
    /\ intent[t] # "decided" => Everywhere(t) \/ Nowhere(t)

(* Recovery puts back or rolls forward over old and new bytes only, and a  *)
(* transaction whose thread saw the decision. *)
Recovers ==
    /\ mode # "recover" => found = {}
    /\ at # "next" => mode = "recover" /\ cur \in found
    /\ done \subseteq Path /\ (at = "next" => done = {})
    /\ \A t \in found : intent[t] \in {"decided", "applied"} \/ (t = cur /\ at = "clear")
    /\ at \in {"Restore", "Forward", "finalize"} =>
           /\ intent[cur] = "decided" /\ pc[cur] \in {"unknown", "dead"}
           /\ \A p \in Dests(cur) : disk[p] \in {Old(cur, p), New(cur, p)}
    /\ at = "Restore" => \A p \in done : disk[p] = Old(cur, p)
    /\ at = "Forward" => \A p \in done : disk[p] = New(cur, p)
    /\ at = "finalize" => Everywhere(cur)
    /\ at = "reclaim" => Everywhere(cur) \/ Nowhere(cur)

Kept(t) == OwnEdits(t) /\ Placed(t) /\ Decided(t)
DurableInv == Files /\ Recovers /\ \A t \in Txn : Kept(t)

USE DEF Dests, Stopped, Ended, Early, Verified

-----------------------------------------------------------------------------
(* Edits and bytes *)

(* New bytes hold the edit that made them, and otherwise what the old ones *)
(* held.                                                                   *)
LEMMA AppendHolds ==
  ASSUME DistinctEdits, NEW s \in Bytes, NEW t \in Txn
  PROVE  /\ Append(s, EditOf[t]) \in Bytes
         /\ Contains(Append(s, EditOf[t]), EditOf[t])
         /\ \A u \in Txn \ {t} : Contains(Append(s, EditOf[t]), EditOf[u]) <=> Contains(s, EditOf[u])
<1> DEFINE a == Append(s, EditOf[t])
<1>1. a \in Bytes /\ Len(a) = Len(s) + 1 /\ Len(s) \in Nat
  BY DEF Bytes
<1>2. a[Len(s) + 1] = EditOf[t] /\ \A i \in 1..Len(s) : a[i] = s[i]
  BY DEF Bytes
<1>3. Len(s) + 1 \in 1..Len(a)
  BY <1>1
<1>4. Contains(a, EditOf[t])
  BY <1>2, <1>3 DEF Contains
<1>5. ASSUME NEW u \in Txn \ {t} PROVE Contains(a, EditOf[u]) <=> Contains(s, EditOf[u])
  <2>1. EditOf[u] # EditOf[t]
    BY <1>5 DEF DistinctEdits
  <2>2. \A i \in 1..Len(a) : i \in 1..Len(s) \/ i = Len(s) + 1
    BY <1>1
  <2>3. 1..Len(s) \subseteq 1..Len(a)
    BY <1>1
  <2> QED
    BY <1>2, <2>1, <2>2, <2>3 DEF Contains
<1> QED
  BY <1>1, <1>4, <1>5

(* Transactions that hold reservations together write apart.               *)
LEMMA WritesApart ==
  ASSUME ApartInv, NEW t \in held, NEW u \in held, t # u
  PROVE  Dests(t) \cap Dests(u) = {}
<1>1. SUFFICES ASSUME NEW p \in Dests(t), p \in Dests(u) PROVE FALSE
  OBVIOUS
<1>2. File(p) \in Writes(t) /\ File(p) \in Writes(u)
  BY <1>1 DEF Writes
<1>3. Intersect(File(p), File(p))
  BY DEF Intersect, Meets, File
<1> QED
  BY <1>2, <1>3 DEF ApartInv, Clash, Conflict

(* What a step leaves alone about one transaction. *)
LEMMA Untouched ==
  ASSUME NEW t \in Txn, Files, Kept(t),
         plan'[t] = plan[t], pc'[t] = pc[t], intent'[t] = intent[t], staged'[t] = staged[t],
         \A p \in Path : Has(t, p)' <=> Has(t, p),
         pc[t] \in Verified => \A p \in staged[t] : disk'[p] = disk[p]
  PROVE  Kept(t)'
<1>1. Dests(t) \subseteq Path /\ staged[t] \subseteq Path /\ Dests(t)' = Dests(t)
  BY DEF Files
<1>2. OwnEdits(t)'
  BY <1>1 DEF Kept, OwnEdits, Old
<1>3. (Everywhere(t)' <=> Everywhere(t)) /\ (Nowhere(t)' <=> Nowhere(t))
  BY <1>1 DEF Everywhere, Nowhere
<1>4. Placed(t)'
  BY <1>1, <1>3 DEF Kept, Placed, Old
<1>5. Decided(t)'
  BY <1>1, <1>3 DEF Kept, Decided
<1> QED
  BY <1>2, <1>4, <1>5 DEF Kept

(* A file that goes between the old and the new bytes of one transaction   *)
(* tells the others nothing.                                               *)
LEMMA OthersSee ==
  ASSUME DistinctEdits, Files, NEW u \in Txn, NEW p \in Path,
         disk[p] \in {Old(u, p), New(u, p)},
         NEW b \in {Old(u, p), New(u, p)}, disk' = [disk EXCEPT ![p] = b],
         OwnEdits(u)
  PROVE  /\ disk' \in [Path -> Bytes]
         /\ \A t \in Txn \ {u}, q \in Path : Has(t, q)' <=> Has(t, q)
         /\ Contains(b, EditOf[u]) <=> b = New(u, p)
<1>1. Old(u, p) \in Bytes
  BY DEF Files, Old
<1>2. /\ New(u, p) \in Bytes /\ Contains(New(u, p), EditOf[u])
      /\ \A t \in Txn \ {u} : Contains(New(u, p), EditOf[t]) <=> Contains(Old(u, p), EditOf[t])
  BY <1>1, AppendHolds DEF New
<1>3. disk' \in [Path -> Bytes]
  BY <1>1, <1>2 DEF Files
<1>4. ASSUME NEW t \in Txn \ {u}, NEW q \in Path PROVE Has(t, q)' <=> Has(t, q)
  <2>1. CASE q = p
    BY <2>1, <1>2 DEF Has, Files
  <2>2. CASE q # p
    BY <2>2 DEF Has, Files
  <2> QED
    BY <2>1, <2>2
<1>5. ~Contains(Old(u, p), EditOf[u])
  BY DEF OwnEdits
<1> QED
  BY <1>2, <1>3, <1>4, <1>5

-----------------------------------------------------------------------------
(* Steps of a publishing thread *)

LEMMA InitDurable == Init => DurableInv
<1> SUFFICES ASSUME Init PROVE DurableInv
  OBVIOUS
<1>1. <<>> \in Bytes /\ \A e : ~Contains(<<>>, e)
  BY DEF Bytes, Contains
<1>2. disk = [p \in Path |-> <<>>] /\ \A t \in Txn, p \in Path : ~Has(t, p) /\ ~Contains(Old(t, p), EditOf[t])
  BY <1>1 DEF Init, Has, Old, NoPlan
<1>3. Files
  BY <1>1 DEF Init, Files, NoPlan
<1>4. Recovers
  BY DEF Init, Recovers
<1>5. \A t \in Txn : Kept(t)
  BY <1>2, PublishAssumption DEF Init, Kept, OwnEdits, Placed, Decided, Nowhere, NoPlan
<1> QED
  BY <1>3, <1>4, <1>5 DEF DurableInv

(* Recovery has nothing in hand while a thread publishes. *)
LEMMA NothingInHand ==
  ASSUME DurableInv, ApartInv, NEW t \in Txn, pc[t] \notin Stopped
  PROVE  mode = "open" /\ at = "next" /\ found = {} /\ done = {}
  BY DEF DurableInv, Recovers, ApartInv, RecoveryAlone

(* A step of t that renames nothing. *)
LEMMA FilesStay ==
  ASSUME DurableInv, NEW t \in Txn, disk' = disk, staged' = staged, plan' = plan,
         mode' = mode, UNCHANGED recovery, at = "next", found = {},
         DOMAIN pc' = Txn, DOMAIN intent' = Txn,
         \A u \in Txn \ {t} : pc'[u] = pc[u] /\ intent'[u] = intent[u],
         Kept(t)'
  PROVE  DurableInv'
<1>1. Files' /\ Recovers'
  BY DEF DurableInv, Files, Recovers, recovery
<1>2. ASSUME NEW u \in Txn, u # t PROVE Kept(u)'
  BY <1>2, Untouched DEF DurableInv, Has
<1> QED
  BY <1>1, <1>2 DEF DurableInv

LEMMA ThreadDurable ==
  ASSUME DurableInv, ApartInv, NEW t \in Txn,
         \/ Reserve(t) \/ Reverify(t) \/ StoreImages(t) \/ CreateIntent(t) \/ WriteIntent(t)
         \/ SyncIntent(t) \/ RefuseIo(t) \/ Apply(t) \/ Finalize(t) \/ CommitUnknown(t)
         \/ ReclaimIntent(t) \/ ReclaimImages(t) \/ ReclaimFails(t)
  PROVE  DurableInv'
<1> USE DEF files, memory, recovery, Goto, Return
<1>1. /\ disk' = disk /\ staged' = staged /\ plan' = plan /\ mode' = mode /\ UNCHANGED recovery
      /\ DOMAIN pc' = Txn /\ DOMAIN intent' = Txn
      /\ \A u \in Txn \ {t} : pc'[u] = pc[u] /\ intent'[u] = intent[u]
  BY DEF Reserve, Reverify, StoreImages, CreateIntent, WriteIntent, SyncIntent, RefuseIo, Apply,
         Finalize, CommitUnknown, ReclaimIntent, ReclaimImages, ReclaimFails, DurableInv, Files
<1>2. at = "next" /\ found = {}
  BY NothingInHand DEF Reserve, Reverify, StoreImages, CreateIntent, WriteIntent, SyncIntent,
         RefuseIo, Apply, Finalize, CommitUnknown, ReclaimIntent, ReclaimImages, ReclaimFails
<1>3. /\ OwnEdits(t)' <=> OwnEdits(t)
      /\ Everywhere(t)' <=> Everywhere(t)
      /\ Nowhere(t)' <=> Nowhere(t)
  BY <1>1 DEF OwnEdits, Everywhere, Nowhere, Has, Old
<1>4. Kept(t) /\ DOMAIN pc = Txn /\ DOMAIN intent = Txn
  BY DEF DurableInv, Files
<1>5. Placed(t)'
  <2> USE <1>1, <1>3, <1>4 DEF Kept, Placed, Old
  <2>1. CASE Reserve(t)
    BY <2>1 DEF Reserve
  <2>2. CASE Reverify(t)
    BY <2>2 DEF Reverify, UnchangedSince
  <2>3. CASE StoreImages(t) \/ CreateIntent(t) \/ WriteIntent(t) \/ SyncIntent(t)
    BY <2>3 DEF StoreImages, CreateIntent, WriteIntent, SyncIntent
  <2>4. CASE RefuseIo(t) \/ CommitUnknown(t) \/ ReclaimFails(t)
    BY <2>4 DEF RefuseIo, CommitUnknown, ReclaimFails
  <2>5. CASE Apply(t) \/ Finalize(t) \/ ReclaimIntent(t) \/ ReclaimImages(t)
    BY <2>5 DEF Apply, Finalize, ReclaimIntent, ReclaimImages
  <2> QED
    BY <2>1, <2>2, <2>3, <2>4, <2>5
<1>6. Decided(t)'
  <2> USE <1>1, <1>3, <1>4 DEF Kept, Placed, Decided
  <2>1. CASE Reserve(t) \/ Reverify(t)
    BY <2>1 DEF Reserve, Reverify
  <2>3. CASE StoreImages(t) \/ CreateIntent(t) \/ WriteIntent(t) \/ SyncIntent(t)
    BY <2>3 DEF StoreImages, CreateIntent, WriteIntent, SyncIntent
  <2>4. CASE RefuseIo(t) \/ CommitUnknown(t) \/ ReclaimFails(t)
    BY <2>4 DEF RefuseIo, CommitUnknown, ReclaimFails
  <2>5. CASE Apply(t) \/ Finalize(t) \/ ReclaimIntent(t) \/ ReclaimImages(t)
    BY <2>5 DEF Apply, Finalize, ReclaimIntent, ReclaimImages
  <2> QED
    BY <2>1, <2>3, <2>4, <2>5
<1> QED
  BY <1>1, <1>2, <1>3, <1>4, <1>5, <1>6, FilesStay DEF Kept

(* The plan is made over bytes that do not hold the edit. *)
LEMMA StageDurable ==
  ASSUME DurableInv, ApartInv, NEW t \in Txn, Stage(t)
  PROVE  DurableInv'
<1> USE DEF recovery, Goto
<1>1. PICK W \in (SUBSET Path) \ {{}}, R \in SUBSET Premises, policy \in Policies :
        /\ plan' = [plan EXCEPT ![t] = [dests |-> W, old |-> disk, reads |-> R, policy |-> policy]]
        /\ staged' = [staged EXCEPT ![t] = W]
  BY DEF Stage
<1>2. mode = "open" /\ mode' = mode /\ pc[t] = "idle" /\ pc' = [pc EXCEPT ![t] = "reserve"]
  BY DEF Stage
<1>3. UNCHANGED <<disk, intent, found, cur, at, done>>
  BY DEF Stage
<1>4. /\ plan'[t].dests = W /\ plan'[t].old = disk /\ plan'[t].policy \in {"Restore", "Forward"}
      /\ staged'[t] = W /\ pc'[t] = "reserve" /\ W \subseteq Path /\ W # {}
  BY <1>1, <1>2, PublishAssumption DEF DurableInv, Files
<1>5. \A u \in Txn \ {t} : plan'[u] = plan[u] /\ staged'[u] = staged[u] /\ pc'[u] = pc[u]
  BY <1>1, <1>2 DEF DurableInv, Files
<1>6. Files'
  BY <1>1, <1>2, <1>3, <1>4, <1>5 DEF DurableInv, Files
<1>7. at = "next" /\ found = {} /\ done = {}
  BY <1>2 DEF DurableInv, Recovers
<1>8. Recovers'
  BY <1>2, <1>3, <1>7 DEF Recovers
<1>9. Nowhere(t) /\ Nowhere(t)'
  BY <1>2, <1>3 DEF DurableInv, Kept, Placed, Nowhere, Has
<1>10. Kept(t)'
  BY <1>2, <1>3, <1>4, <1>9 DEF DurableInv, Kept, OwnEdits, Placed, Decided, Nowhere, Old, Has
<1>11. ASSUME NEW u \in Txn, u # t PROVE Kept(u)'
  BY <1>3, <1>5, <1>11, Untouched DEF DurableInv, Has
<1> QED
  BY <1>6, <1>8, <1>10, <1>11 DEF DurableInv

(* A rename replaces bytes the plan was made from. *)
LEMMA RenameDurable ==
  ASSUME DistinctEdits, DurableInv, ApartInv, NEW t \in Txn, Rename(t)
  PROVE  DurableInv'
<1> USE DEF files, memory, recovery, Goto
<1>1. PICK p \in staged[t] : /\ disk' = [disk EXCEPT ![p] = New(t, p)]
                             /\ staged' = [staged EXCEPT ![t] = @ \ {p}]
  BY DEF Rename
<1>2. /\ pc[t] = "rename" /\ pc' = [pc EXCEPT ![t] = IF staged'[t] = {} THEN "apply" ELSE "rename"]
      /\ UNCHANGED <<intent, plan, held, mode, recovery>>
  BY DEF Rename
<1>3. Files /\ Kept(t) /\ OwnEdits(t) /\ Placed(t) /\ Decided(t)
  BY DEF DurableInv, Kept
<1>4. p \in Path /\ p \in Dests(t) /\ disk[p] = Old(t, p) /\ staged[t] \subseteq Dests(t)
  BY <1>2, <1>3 DEF Files, Placed, ApartInv
<1>5. /\ disk' \in [Path -> Bytes]
      /\ \A u \in Txn \ {t}, q \in Path : Has(u, q)' <=> Has(u, q)
      /\ Contains(New(t, p), EditOf[t])
  BY <1>1, <1>3, <1>4, OthersSee
<1>6. /\ disk'[p] = New(t, p) /\ \A q \in Path \ {p} : disk'[q] = disk[q]
      /\ staged'[t] = staged[t] \ {p} /\ pc'[t] = IF staged'[t] = {} THEN "apply" ELSE "rename"
  BY <1>1, <1>2, <1>3, <1>4 DEF Files
<1>7. \A u \in Txn \ {t} : staged'[u] = staged[u] /\ pc'[u] = pc[u]
  BY <1>1, <1>2, <1>3 DEF Files
<1>8. Files'
  BY <1>1, <1>2, <1>3, <1>5, <1>6, <1>7 DEF Files
<1>9. Recovers'
  BY <1>2, NothingInHand DEF Recovers
<1>10. Kept(t)'
  <2>1. Has(t, p)' /\ \A q \in Path \ {p} : Has(t, q)' <=> Has(t, q)
    BY <1>5, <1>6 DEF Has
  <2>2. OwnEdits(t)'
    BY <1>2, <1>3, <1>4, <2>1 DEF OwnEdits, Old
  <2>3. \A q \in Dests(t) \ staged'[t] : Has(t, q)'
    BY <1>2, <1>3, <1>4, <1>6, <2>1 DEF Placed, Files
  <2>4. staged'[t] = {} => Everywhere(t)'
    BY <1>2, <2>3 DEF Everywhere
  <2>5. Placed(t)'
    <3>1. pc'[t] = "rename" => \A q \in staged'[t] : disk'[q] = Old(t, q)
      BY <1>2, <1>3, <1>6 DEF Placed, Files
    <3> QED
      BY <1>2, <1>6, <2>3, <2>4, <3>1 DEF Placed, Old
  <2>6. Decided(t)'
    BY <1>2, <1>3, <1>6 DEF Decided
  <2> QED
    BY <2>2, <2>5, <2>6 DEF Kept
<1>11. ASSUME NEW u \in Txn, u # t PROVE Kept(u)'
  <2>1. pc[u] \in Verified => p \notin staged[u]
    <3>1. SUFFICES ASSUME pc[u] \in Verified, p \in staged[u] PROVE FALSE
      OBVIOUS
    <3>2. u \in held /\ t \in held /\ p \in Dests(u)
      BY <1>2, <3>1 DEF ApartInv
    <3> QED
      BY <1>4, <1>11, <3>2, WritesApart
  <2>2. pc[u] \in Verified => \A q \in staged[u] : disk'[q] = disk[q]
    BY <1>3, <1>6, <2>1 DEF Files
  <2> QED
    BY <1>2, <1>3, <1>5, <1>7, <1>11, <2>2, Untouched DEF DurableInv
<1> QED
  BY <1>8, <1>9, <1>10, <1>11 DEF DurableInv

-----------------------------------------------------------------------------
(* Process death and the steps of recovery *)

(* A step that touches no destination and no intent. *)
LEMMA NoFileMoves ==
  ASSUME DurableInv, UNCHANGED <<disk, staged, intent, plan>>, DOMAIN pc' = Txn,
         \A t \in Txn : pc'[t] = pc[t] \/ (pc[t] # "idle" /\ pc'[t] = "dead"),
         found' \subseteq Txn, Recovers'
  PROVE  DurableInv'
<1>1. Files'
  BY DEF DurableInv, Files
<1>2. ASSUME NEW t \in Txn, pc'[t] = pc[t] PROVE Kept(t)'
  BY <1>2, Untouched DEF DurableInv, Has
<1>3. ASSUME NEW t \in Txn, pc[t] # "idle", pc'[t] = "dead" PROVE Kept(t)'
  <2>1. Kept(t)
    BY DEF DurableInv
  <2>2. (Everywhere(t)' <=> Everywhere(t)) /\ (Nowhere(t)' <=> Nowhere(t)) /\ (OwnEdits(t)' <=> OwnEdits(t))
    BY DEF Everywhere, Nowhere, OwnEdits, Has, Old
  <2> QED
    BY <1>3, <2>1, <2>2 DEF Kept, Placed, Decided
<1> QED
  BY <1>1, <1>2, <1>3 DEF DurableInv

LEMMA CrashDurable ==
  ASSUME DurableInv, Crash
  PROVE  DurableInv'
<1>1. UNCHANGED <<disk, staged, intent, plan>> /\ found' = {}
  BY DEF Crash, files
<1>2. DOMAIN pc' = Txn /\ \A t \in Txn : pc'[t] = pc[t] \/ (pc[t] # "idle" /\ pc'[t] = "dead")
  BY DEF Crash
<1>3. Recovers'
  BY DEF Crash, Recovers
<1> QED
  BY <1>1, <1>2, <1>3, NoFileMoves

LEMMA ScanDurable ==
  ASSUME DurableInv, Scan \/ Open \/ Quarantine \/ RecoveryFails \/ ClearRecovered
  PROVE  DurableInv'
<1> USE DEF files, memory, Recovering, NextIntent
<1>1. UNCHANGED <<disk, staged, intent, plan, pc>> /\ found' \subseteq Txn
  BY DEF Scan, Open, Quarantine, RecoveryFails, ClearRecovered, recovery, Recorded, DurableInv, Files
<1>2. Recovers'
  <2> USE DEF DurableInv, Recovers
  <2>1. CASE Scan
    BY <2>1 DEF Scan, Recorded
  <2>2. CASE Open
    BY <2>2 DEF Open, recovery
  <2>3. CASE Quarantine \/ ClearRecovered
    BY <2>3 DEF Quarantine, ClearRecovered
  <2>4. CASE RecoveryFails
    BY <2>4 DEF RecoveryFails
  <2> QED
    BY <2>1, <2>2, <2>3, <2>4
<1> QED
  BY <1>1, <1>2, NoFileMoves DEF DurableInv, Files

(* A mixture recovery acts on is of old and new bytes only, and its thread *)
(* had the decision behind it.                                             *)
LEMMA RecoverOneDurable ==
  ASSUME DistinctEdits, DurableInv, ApartInv, RecoverOne
  PROVE  DurableInv'
<1> USE DEF files, memory, Recovering
<1>1. PICK t \in found : cur' = t /\ at' = Outcome(t)
  BY DEF RecoverOne
<1>2. /\ mode = "recover" /\ at = "next" /\ done = {}
      /\ UNCHANGED <<disk, staged, intent, plan, pc, found, done, mode>>
  BY DEF RecoverOne, DurableInv, Recovers
<1>3. t \in Txn /\ Kept(t) /\ Files /\ intent[t] \in {"decided", "applied"}
  BY <1>1, <1>2 DEF DurableInv, Files, Recovers
<1>4. /\ pc[t] \in Stopped /\ pc[t] # "idle" /\ Dests(t) # {} /\ Dests(t) \subseteq Path
  BY <1>2, <1>3 DEF ApartInv, RecoveryAlone, Kept, Decided, Files
<1>5. /\ "Neither" \notin Classes(t) => \A p \in Dests(t) : disk[p] \in {Old(t, p), New(t, p)}
      /\ Classes(t) = {"Old"} <=> Dests(t) # {} /\ \A p \in Dests(t) : disk[p] = Old(t, p)
  BY DEF Class, Classes
<1>6. \A p \in Dests(t) : disk[p] = New(t, p) => Has(t, p)
  <2> SUFFICES ASSUME NEW p \in Dests(t) PROVE Contains(New(t, p), EditOf[t])
    BY DEF Has
  <2>1. Old(t, p) \in Bytes
    BY <1>3, <1>4 DEF Files, Old
  <2> QED
    BY <1>3, <2>1, AppendHolds DEF New
<1>7. ASSUME at' \in {"Restore", "Forward"}
      PROVE  /\ intent[t] = "decided" /\ pc[t] \in {"unknown", "dead"}
             /\ \A p \in Dests(t) : disk[p] \in {Old(t, p), New(t, p)}
  <2>1. intent[t] = "decided" /\ "Neither" \notin Classes(t) /\ Classes(t) # {"Old"}
    BY <1>1, <1>3, <1>7 DEF Outcome
  <2>2. \A p \in Dests(t) : disk[p] \in {Old(t, p), New(t, p)}
    BY <1>5, <2>1
  <2>3. PICK p \in Dests(t) : disk[p] # Old(t, p)
    BY <1>4, <1>5, <2>1
  <2>4. ~Nowhere(t)
    BY <1>4, <1>6, <2>2, <2>3 DEF Nowhere
  <2>5. pc[t] \notin Early /\ pc[t] # "acked"
    BY <1>3, <2>1, <2>4 DEF Kept, Placed, Decided
  <2> QED
    BY <1>4, <2>1, <2>2, <2>5
<1>8. ASSUME at' = "reclaim" PROVE Everywhere(t) \/ Nowhere(t)
  <2>1. CASE intent[t] = "applied"
    BY <1>3, <2>1 DEF Kept, Decided
  <2>2. CASE intent[t] = "decided"
    <3>1. plan[t].policy # "reclaim"
      BY <1>3 DEF Files
    <3>2. Classes(t) = {"Old"}
      BY <1>1, <1>8, <2>2, <3>1 DEF Outcome
    <3>3. \A p \in Dests(t) : disk[p] = Old(t, p)
      BY <1>5, <3>2
    <3> QED
      BY <1>3, <1>4, <3>3 DEF Kept, OwnEdits, Nowhere, Has
  <2> QED
    BY <1>3, <2>1, <2>2
<1>9. at' \in {"quarantine", "reclaim", "Restore", "Forward"}
  BY <1>1, <1>3 DEF Outcome, Files
<1>10. Recovers'
  <2>1. (Everywhere(t)' <=> Everywhere(t)) /\ (Nowhere(t)' <=> Nowhere(t))
    BY <1>2 DEF Everywhere, Nowhere, Has
  <2>2. at' = "reclaim" => (Everywhere(t) \/ Nowhere(t))'
    BY <1>8, <2>1
  <2>3. \A u \in found : intent[u] \in {"decided", "applied"}
    BY <1>2 DEF DurableInv, Recovers
  <2> QED
    BY <1>1, <1>2, <1>7, <1>9, <2>2, <2>3 DEF Recovers, Old, New
<1> QED
  BY <1>2, <1>3, <1>10, NoFileMoves DEF DurableInv, Files

(* Putting back, and rolling forward. *)
LEMMA PutBackDurable ==
  ASSUME DistinctEdits, DurableInv, ApartInv, RestoreMember \/ ForwardMember
  PROVE  DurableInv'
<1> USE DEF memory, Recovering
<1> DEFINE Image(p) == IF at = "Restore" THEN Old(cur, p) ELSE New(cur, p)
<1>1. PICK p \in Dests(cur) \ done : disk' = [disk EXCEPT ![p] = Image(p)] /\ done' = done \cup {p}
  BY DEF RestoreMember, ForwardMember, PutBack
<1>2. /\ mode = "recover" /\ UNCHANGED <<staged, intent, plan, pc, mode, found, cur>>
      /\ \/ at = "Restore" /\ at' = IF done' = Dests(cur) THEN "reclaim" ELSE at
         \/ at = "Forward" /\ at' = IF done' = Dests(cur) THEN "finalize" ELSE at
  BY DEF RestoreMember, ForwardMember, PutBack
<1>3. Files /\ cur \in Txn /\ cur \in found /\ OwnEdits(cur) /\ Kept(cur)
  BY <1>2 DEF DurableInv, Files, Recovers, Kept
<1>4. /\ intent[cur] = "decided" /\ pc[cur] \in {"unknown", "dead"}
      /\ \A q \in Dests(cur) : disk[q] \in {Old(cur, q), New(cur, q)}
      /\ at = "Restore" => \A q \in done : disk[q] = Old(cur, q)
      /\ at = "Forward" => \A q \in done : disk[q] = New(cur, q)
  BY <1>2 DEF DurableInv, Recovers
<1>5. p \in Path /\ Dests(cur) \subseteq Path /\ DOMAIN disk = Path /\ done \subseteq Path
  BY <1>1, <1>3 DEF Files, DurableInv, Recovers
<1>6. /\ disk' \in [Path -> Bytes]
      /\ \A t \in Txn \ {cur}, q \in Path : Has(t, q)' <=> Has(t, q)
  BY <1>1, <1>3, <1>4, <1>5, OthersSee
<1>7. disk'[p] = Image(p) /\ \A q \in Path \ {p} : disk'[q] = disk[q]
  BY <1>1, <1>5
<1>8. Files'
  BY <1>2, <1>3, <1>6 DEF Files
<1>9. \A q \in Dests(cur) : disk'[q] \in {Old(cur, q), New(cur, q)}
  BY <1>4, <1>5, <1>7
<1>10. /\ at = "Restore" => \A q \in done' : disk'[q] = Old(cur, q)
       /\ at = "Forward" => \A q \in done' : disk'[q] = New(cur, q)
  BY <1>1, <1>4, <1>5, <1>7
<1>11. ASSUME at' = "reclaim" PROVE Nowhere(cur)'
  <2>1. \A q \in Dests(cur) : disk'[q] = Old(cur, q)
    BY <1>2, <1>5, <1>10, <1>11
  <2>2. \A q \in Path \ Dests(cur) : disk'[q] = disk[q]
    BY <1>1, <1>7
  <2> QED
    BY <1>2, <1>3, <1>5, <2>1, <2>2 DEF Nowhere, Has, OwnEdits
<1>12. ASSUME at' = "finalize" PROVE Everywhere(cur)'
  <2>1. ASSUME NEW q \in Dests(cur) PROVE Contains(disk'[q], EditOf[cur])
    <3>1. disk'[q] = New(cur, q)
      BY <1>2, <1>5, <1>10, <1>12
    <3>2. Old(cur, q) \in Bytes
      BY <1>3, <1>5 DEF Files, Old
    <3> QED
      BY <1>3, <3>1, <3>2, AppendHolds DEF New
  <2> QED
    BY <1>2, <2>1 DEF Everywhere, Has
<1>13. Recovers'
  <2>1. \A t \in found : intent[t] \in {"decided", "applied"}
    BY <1>2 DEF DurableInv, Recovers
  <2>2. done' \subseteq Path
    BY <1>1, <1>5
  <2> QED
    BY <1>2, <1>3, <1>4, <1>9, <1>10, <1>11, <1>12, <2>1, <2>2 DEF Recovers, Old, New
<1>14. Kept(cur)'
  <2>1. OwnEdits(cur)'
    BY <1>1, <1>2, <1>3, <1>7 DEF OwnEdits, Has, Old
  <2> QED
    BY <1>2, <1>3, <1>4, <2>1 DEF Kept, Placed, Decided
<1>15. ASSUME NEW t \in Txn, t # cur PROVE Kept(t)'
  <2>1. pc[t] \notin Verified
    BY <1>2 DEF ApartInv, RecoveryAlone
  <2> QED
    BY <1>2, <1>3, <1>6, <1>15, <2>1, Untouched DEF DurableInv
<1> QED
  BY <1>2, <1>8, <1>13, <1>14, <1>15 DEF DurableInv

(* The intent goes only when its transaction is everywhere or nowhere. *)
LEMMA IntentMoves ==
  ASSUME DurableInv, ApartInv, FinalizeRecovered \/ ReclaimRecovered
  PROVE  DurableInv'
<1> USE DEF memory, Recovering
<1>1. /\ mode = "recover" /\ UNCHANGED <<disk, staged, plan, pc, mode, found, cur, done>>
      /\ \/ at = "finalize" /\ at' = "reclaim" /\ intent' = [intent EXCEPT ![cur] = "applied"]
         \/ at = "reclaim" /\ at' = "clear" /\ intent' = [intent EXCEPT ![cur] = "none"]
  BY DEF FinalizeRecovered, ReclaimRecovered
<1>2. Files /\ Recovers /\ cur \in Txn /\ cur \in found /\ Kept(cur)
  BY <1>1 DEF DurableInv, Files, Recovers
<1>3. /\ Everywhere(cur)' <=> Everywhere(cur)
      /\ Nowhere(cur)' <=> Nowhere(cur)
      /\ OwnEdits(cur)' <=> OwnEdits(cur)
  BY <1>1 DEF Everywhere, Nowhere, OwnEdits, Has, Old
<1>4. /\ at = "finalize" => Everywhere(cur) /\ pc[cur] \in {"unknown", "dead"}
      /\ at = "reclaim" => Everywhere(cur) \/ Nowhere(cur)
  BY <1>2 DEF Recovers
<1>5. Files'
  BY <1>1, <1>2 DEF Files
<1>6. Recovers'
  BY <1>1, <1>2, <1>3, <1>4 DEF Recovers, Files
<1>7. Kept(cur)'
  <2>1. pc[cur] \in Stopped
    BY <1>1, <1>2 DEF ApartInv, RecoveryAlone
  <2>2. Placed(cur)'
    BY <1>1, <1>2, <1>3, <2>1 DEF Kept, Placed
  <2>3. intent'[cur] = IF at = "finalize" THEN "applied" ELSE "none"
    BY <1>1, <1>2 DEF Files
  <2>4. Decided(cur)'
    BY <1>1, <1>2, <1>3, <1>4, <2>1, <2>3 DEF Kept, Decided
  <2> QED
    BY <1>2, <1>3, <2>2, <2>4 DEF Kept
<1>8. ASSUME NEW t \in Txn, t # cur PROVE Kept(t)'
  BY <1>1, <1>2, <1>8, Untouched DEF DurableInv, Files, Has
<1> QED
  BY <1>1, <1>5, <1>6, <1>7, <1>8 DEF DurableInv

LEMMA NextDurable ==
  ASSUME DistinctEdits, DurableInv, ApartInv, [Next]_vars
  PROVE  DurableInv'
<1>1. CASE UNCHANGED vars
  <2>1. UNCHANGED <<disk, staged, intent, plan, pc, mode, found, cur, at, done>>
    BY <1>1 DEF vars, files, memory, recovery
  <2>2. Recovers'
    BY <2>1 DEF DurableInv, Recovers, Everywhere, Nowhere, Has, Old, New
  <2> QED
    BY <2>1, <2>2, NoFileMoves DEF DurableInv, Files
<1>2. CASE Crash
  BY <1>2, CrashDurable
<1>3. CASE Recover
  BY <1>3, ScanDurable, RecoverOneDurable, PutBackDurable, IntentMoves DEF Recover
<1>4. ASSUME NEW t \in Txn, Stage(t) \/ Publishing(t) PROVE DurableInv'
  BY <1>4, StageDurable, RenameDurable, ThreadDurable DEF Publishing
<1> QED
  BY <1>1, <1>2, <1>3, <1>4 DEF Next

-----------------------------------------------------------------------------
(* Publication and recovery leave no silent mixture: a transaction that is *)
(* over, with no intent left on disk, is on all of its destinations or on  *)
(* none (publish.rs recover).                                              *)
THEOREM AllOrNothingHolds == DistinctEdits => (Spec => []AllOrNothing)
<1> SUFFICES ASSUME DistinctEdits PROVE Spec => []AllOrNothing
  OBVIOUS
<1>1. Init => DurableInv /\ ApartInv
  BY InitDurable, InitApart
<1>2. DurableInv /\ ApartInv /\ [Next]_vars => DurableInv' /\ ApartInv'
  BY NextDurable, NextApart
<1>3. DurableInv => AllOrNothing
  <2> SUFFICES ASSUME DurableInv, NEW t \in Txn, Settled(t)
               PROVE  {p \in Dests(t) : Contains(disk[p], EditOf[t])} \in {{}, Dests(t)}
    BY DEF AllOrNothing
  <2>1. Everywhere(t) \/ Nowhere(t)
    BY DEF Settled, DurableInv, Kept, Decided
  <2>2. Dests(t) \subseteq Path
    BY DEF DurableInv, Files
  <2> QED
    BY <2>1, <2>2 DEF Everywhere, Nowhere, Has
<1> QED
  BY <1>1, <1>2, <1>3, PTL DEF Spec

(* No destination of an acknowledged transaction goes back to the bytes it *)
(* replaced, after any crash and any recovery (publish.rs finalize before  *)
(* the receipt).                                                           *)
THEOREM AckedKeptHolds == DistinctEdits => (Spec => []AckedKept)
<1> SUFFICES ASSUME DistinctEdits PROVE Spec => []AckedKept
  OBVIOUS
<1>1. Init => DurableInv /\ ApartInv
  BY InitDurable, InitApart
<1>2. DurableInv /\ ApartInv /\ [Next]_vars => DurableInv' /\ ApartInv'
  BY NextDurable, NextApart
<1>3. DurableInv => AckedKept
  BY DEF DurableInv, Files, Kept, OwnEdits, Placed, Everywhere, Has, AckedKept
<1> QED
  BY <1>1, <1>2, <1>3, PTL DEF Spec

-----------------------------------------------------------------------------
(* The refinement of the atomic store                                      *)

Opened == {t \in Txn : intent[t] = "decided"}
AllOld(t) == \A p \in Dests(t) : disk[p] = Old(t, p)
Between(t) == \A p \in Dests(t) : disk[p] \in {Old(t, p), New(t, p)}

(* A decided transaction is under way, or in recovery's hands. *)
Underway(t) ==
    /\ mode = "open" => pc[t] \in {"sync", "rename", "apply", "finalize"}
    /\ mode = "recover" => t \in found
    /\ Between(t)

(* Recovery restores what has no effect yet, and rolls forward what has. *)
Heads ==
    /\ at # "quarantine"
    /\ at = "Restore" => plan[cur].policy = "Restore"
    /\ at \in {"Forward", "finalize"} => Effective(cur)
    /\ at = "reclaim" /\ intent[cur] = "decided" => AllOld(cur)
    /\ at = "clear" => intent[cur] # "decided"

Faultless ==
    /\ faults = 0
    /\ \A t \in Opened : Underway(t)
    /\ \A t, u \in Opened : t # u => Dests(t) \cap Dests(u) = {}
    /\ Heads

StoreInv == DurableInv /\ ApartInv /\ Faultless

USE DEF Dests, Stopped, Ended, Early, Verified, Opened

-----------------------------------------------------------------------------
(* Without faults a decided transaction is never left behind. *)

LEMMA InitFaultless == Init => Faultless
  BY DEF Init, Faultless, Heads

(* A step that neither writes a file nor decides. *)
LEMMA StillUnderway ==
  ASSUME StoreInv, disk' = disk, faults' = faults, Opened' \subseteq Opened,
         \A t \in Opened' : /\ plan'[t] = plan[t]
                            /\ mode' = "open" => pc'[t] \in {"sync", "rename", "apply", "finalize"}
                            /\ mode' = "recover" => t \in found',
         Heads'
  PROVE  Faultless'
<1>1. \A t \in Opened' : Between(t) /\ plan'[t] = plan[t]
  BY DEF StoreInv, Faultless, Underway
<1>2. \A t \in Opened' : Between(t)'
  BY <1>1 DEF Between, Old, New
<1>3. \A t \in Opened' : Underway(t)'
  BY <1>2 DEF Underway
<1>4. \A t, u \in Opened' : t # u => plan'[t].dests \cap plan'[u].dests = {}
  BY DEF StoreInv, Faultless
<1> QED
  BY <1>3, <1>4 DEF StoreInv, Faultless

LEMMA ThreadFaultless ==
  ASSUME StoreInv, MaxFaults = 0, NEW t \in Txn,
         \/ Stage(t) \/ Reserve(t) \/ Reverify(t) \/ StoreImages(t) \/ CreateIntent(t)
         \/ SyncIntent(t) \/ RefuseIo(t) \/ Apply(t) \/ Finalize(t) \/ CommitUnknown(t)
         \/ ReclaimIntent(t) \/ ReclaimImages(t) \/ ReclaimFails(t)
  PROVE  Faultless' /\ (pc'[t] = "acked" /\ pc[t] # "acked" => ReclaimImages(t))
<1> USE DEF files, memory, recovery, Goto, Return
<1>1. ~Fault
  BY DEF StoreInv, Faultless, Fault
<1>2. disk' = disk /\ faults' = faults /\ mode' = mode /\ mode = "open" /\ UNCHANGED recovery
  BY <1>1, NothingInHand DEF Stage, Reserve, Reverify, StoreImages, CreateIntent, SyncIntent,
         RefuseIo, Apply, Finalize, CommitUnknown, ReclaimIntent, ReclaimImages, ReclaimFails,
         StoreInv
<1>3. at = "next"
  BY <1>2 DEF StoreInv, DurableInv, Recovers
<1>4. Heads'
  BY <1>2, <1>3 DEF Heads
<1>5. \A u \in Txn \ {t} : plan'[u] = plan[u] /\ pc'[u] = pc[u] /\ intent'[u] = intent[u]
  BY DEF Stage, Reserve, Reverify, StoreImages, CreateIntent, SyncIntent, RefuseIo, Apply,
         Finalize, CommitUnknown, ReclaimIntent, ReclaimImages, ReclaimFails,
         StoreInv, DurableInv, Files
<1>6. intent'[t] = "decided" =>
        /\ intent[t] = "decided" /\ plan'[t] = plan[t]
        /\ pc'[t] \in {"sync", "rename", "apply", "finalize"}
  <2> USE <1>1 DEF StoreInv, DurableInv, Files, Kept, Decided, Faultless, Underway
  <2>1. CASE Stage(t) \/ Reserve(t) \/ Reverify(t) \/ StoreImages(t)
    BY <2>1 DEF Stage, Reserve, Reverify, StoreImages
  <2>2. CASE CreateIntent(t) \/ SyncIntent(t) \/ Apply(t) \/ Finalize(t)
    BY <2>2 DEF CreateIntent, SyncIntent, Apply, Finalize
  <2>3. CASE RefuseIo(t) \/ CommitUnknown(t) \/ ReclaimFails(t)
    BY <2>3 DEF RefuseIo, CommitUnknown, ReclaimFails
  <2>4. CASE ReclaimIntent(t) \/ ReclaimImages(t)
    BY <2>4 DEF ReclaimIntent, ReclaimImages
  <2> QED
    BY <2>1, <2>2, <2>3, <2>4
<1>7. \A u \in Opened : pc[u] \in {"sync", "rename", "apply", "finalize"}
  BY <1>2 DEF StoreInv, Faultless, Underway
<1>8. Faultless'
  BY <1>2, <1>4, <1>5, <1>6, <1>7, StillUnderway
<1>9. pc'[t] = "acked" /\ pc[t] # "acked" => ReclaimImages(t)
  BY <1>1 DEF Stage, Reserve, Reverify, StoreImages, CreateIntent, SyncIntent, RefuseIo, Apply,
         Finalize, CommitUnknown, ReclaimIntent, ReclaimFails, StoreInv, DurableInv, Files
<1> QED
  BY <1>8, <1>9

(* Decided transactions are reserved, and so apart from one that decides   *)
(* or renames.                                                             *)
LEMMA OpenedApart ==
  ASSUME StoreInv, mode = "open", NEW t \in Txn, pc[t] \in Verified, NEW u \in Opened, u # t
  PROVE  Dests(t) \cap Dests(u) = {}
<1>1. t \in held /\ u \in held /\ ApartInv
  BY DEF StoreInv, Faultless, Underway, ApartInv
<1> QED
  BY <1>1, WritesApart

LEMMA DecideFaultless ==
  ASSUME StoreInv, NEW t \in Txn, WriteIntent(t)
  PROVE  Faultless' /\ Opened' = Opened \cup {t} /\ t \notin Opened /\ AllOld(t)
<1> USE DEF memory, recovery, Goto
<1>1. /\ UNCHANGED <<disk, plan, faults, mode, found, cur, at, done>> /\ pc[t] = "write"
      /\ pc' = [pc EXCEPT ![t] = "sync"] /\ intent' = [intent EXCEPT ![t] = "decided"]
  BY DEF WriteIntent
<1>2. mode = "open" /\ at = "next"
  BY <1>1, NothingInHand DEF StoreInv
<1>3. DOMAIN pc = Txn /\ DOMAIN intent = Txn
  BY DEF StoreInv, DurableInv, Files
<1>4. t \notin Opened /\ Opened' = Opened \cup {t}
  BY <1>1, <1>2, <1>3 DEF StoreInv, Faultless, Underway
<1>5. AllOld(t)
  BY <1>1 DEF StoreInv, DurableInv, Kept, Placed, AllOld
<1>6. ASSUME NEW u \in Opened' PROVE Underway(u)'
  <2>1. Between(u)
    BY <1>4, <1>5, <1>6 DEF AllOld, Between, StoreInv, Faultless, Underway
  <2>2. Between(u)'
    BY <1>1, <2>1 DEF Between, Old, New
  <2>3. pc'[u] \in {"sync", "rename", "apply", "finalize"}
    BY <1>1, <1>2, <1>3, <1>4, <1>6 DEF StoreInv, Faultless, Underway
  <2> QED
    BY <1>1, <1>2, <2>2, <2>3 DEF Underway
<1>7. \A u, v \in Opened' : u # v => Dests(u) \cap Dests(v) = {}
  <2>1. \A u \in Opened : Dests(t) \cap Dests(u) = {}
    BY <1>1, <1>2, <1>4, OpenedApart
  <2> QED
    BY <1>4, <2>1 DEF StoreInv, Faultless
<1>8. Heads'
  BY <1>1, <1>2 DEF Heads
<1> QED
  BY <1>1, <1>4, <1>5, <1>6, <1>7, <1>8 DEF Faultless, StoreInv

(* A rename of t, and a restore or a roll forward of t, moves a file of t  *)
(* alone, and among its two bytes.                                         *)
LEMMA MoveFaultless ==
  ASSUME StoreInv, NEW t \in Opened, NEW p \in Dests(t), NEW b \in {Old(t, p), New(t, p)},
         disk' = [disk EXCEPT ![p] = b], UNCHANGED <<intent, plan, faults, mode, found>>,
         mode = "open" => pc'[t] \in {"rename", "apply"},
         \A u \in Opened \ {t} : pc'[u] = pc[u],
         Heads'
  PROVE  /\ Faultless'
         /\ \A q \in Path \ {p} : disk'[q] = disk[q]
         /\ disk'[p] = b
         /\ \A u \in Opened \ {t} : \A q \in Dests(u) : disk'[q] = disk[q]
<1>1. p \in Path /\ DOMAIN disk = Path /\ \A u \in Txn : Dests(u) \subseteq Path
  BY DEF StoreInv, DurableInv, Files
<1>2. disk'[p] = b /\ \A q \in Path \ {p} : disk'[q] = disk[q]
  BY <1>1
<1>3. \A u \in Opened \ {t} : p \notin Dests(u)
  BY DEF StoreInv, Faultless
<1>4. \A u \in Opened \ {t} : \A q \in Dests(u) : disk'[q] = disk[q]
  BY <1>1, <1>2, <1>3
<1>5. ASSUME NEW u \in Opened PROVE Underway(u)'
  <2>1. Underway(u)
    BY DEF StoreInv, Faultless
  <2>2. ASSUME NEW q \in Dests(u) PROVE disk'[q] \in {Old(u, q), New(u, q)}
    <3>1. disk[q] \in {Old(u, q), New(u, q)}
      BY <2>1 DEF Underway, Between
    <3>2. CASE q # p
      BY <1>1, <1>2, <3>1, <3>2
    <3>3. CASE q = p
      BY <1>2, <1>3, <2>2, <3>3
    <3> QED
      BY <3>2, <3>3
  <2>3. Between(u)'
    BY <2>2 DEF Between, Old, New
  <2> QED
    BY <2>1, <2>3 DEF Underway
<1>6. \A u, v \in Opened' : u # v => plan'[u].dests \cap plan'[v].dests = {}
  BY DEF StoreInv, Faultless
<1>7. Faultless'
  BY <1>5, <1>6 DEF Faultless, StoreInv
<1> QED
  BY <1>2, <1>4, <1>7

LEMMA RenameFaultless ==
  ASSUME StoreInv, NEW t \in Txn, Rename(t)
  PROVE  /\ t \in Opened /\ Faultless' /\ UNCHANGED <<intent, plan>>
         /\ \E p \in Dests(t) : disk[p] = Old(t, p) /\ disk'[p] = New(t, p)
         /\ \A q \in Path \ Dests(t) : disk'[q] = disk[q]
         /\ \A u \in Opened \ {t} : \A q \in Dests(u) : disk'[q] = disk[q]
<1> USE DEF memory, recovery, Goto
<1>1. PICK p \in staged[t] : disk' = [disk EXCEPT ![p] = New(t, p)]
  BY DEF Rename
<1>2. /\ UNCHANGED <<intent, plan, faults, mode, found, cur, at>> /\ pc[t] = "rename"
      /\ pc' = [pc EXCEPT ![t] = IF staged'[t] = {} THEN "apply" ELSE "rename"]
  BY DEF Rename
<1>3. t \in Opened /\ p \in Dests(t) /\ disk[p] = Old(t, p) /\ DOMAIN pc = Txn
  BY <1>2 DEF StoreInv, ApartInv, DurableInv, Files, Kept, Decided, Placed
<1>4. Heads'
  BY <1>2, NothingInHand DEF StoreInv, Heads
<1>5. pc'[t] \in {"rename", "apply"} /\ \A u \in Opened \ {t} : pc'[u] = pc[u]
  BY <1>2, <1>3
<1>6. /\ Faultless' /\ disk'[p] = New(t, p)
      /\ \A q \in Path \ {p} : disk'[q] = disk[q]
      /\ \A u \in Opened \ {t} : \A q \in Dests(u) : disk'[q] = disk[q]
  BY <1>1, <1>2, <1>3, <1>4, <1>5, MoveFaultless
<1> QED
  BY <1>2, <1>3, <1>6

LEMMA PutBackFaultless ==
  ASSUME StoreInv, RestoreMember \/ ForwardMember
  PROVE  /\ cur \in Opened /\ Faultless' /\ UNCHANGED <<intent, plan, pc>>
         /\ Effective(cur)' <=> Effective(cur)
         /\ \A q \in Path \ Dests(cur) : disk'[q] = disk[q]
         /\ \A u \in Opened \ {cur} : \A q \in Dests(u) : disk'[q] = disk[q]
<1> USE DEF memory, Recovering
<1> DEFINE Image(p) == IF at = "Restore" THEN Old(cur, p) ELSE New(cur, p)
<1>1. PICK p \in Dests(cur) \ done : disk' = [disk EXCEPT ![p] = Image(p)] /\ done' = done \cup {p}
  BY DEF RestoreMember, ForwardMember, PutBack
<1>2. /\ mode = "recover" /\ UNCHANGED <<intent, plan, pc, mode, faults, found, cur>>
      /\ \/ at = "Restore" /\ at' = IF done' = Dests(cur) THEN "reclaim" ELSE at
         \/ at = "Forward" /\ at' = IF done' = Dests(cur) THEN "finalize" ELSE at
  BY DEF RestoreMember, ForwardMember, PutBack
<1>3. /\ intent[cur] = "decided" /\ cur \in Txn
      /\ at = "Restore" => \A q \in done : disk[q] = Old(cur, q)
      /\ at = "Restore" => plan[cur].policy = "Restore"
      /\ at = "Forward" => Effective(cur)
      /\ Dests(cur) \subseteq Path /\ DOMAIN disk = Path /\ done \subseteq Path
  BY <1>2 DEF StoreInv, Faultless, Heads, DurableInv, Recovers, Files
<1>4. disk'[p] = Image(p) /\ \A q \in Path \ {p} : disk'[q] = disk[q]
  BY <1>1, <1>3
<1>5. Effective(cur)' <=> Effective(cur)
  <2>1. CASE at = "Restore"
    BY <1>2, <1>3, <2>1 DEF Effective
  <2>2. CASE at = "Forward"
    <3>1. PICK q \in Dests(cur) : disk[q] = New(cur, q)
      BY <1>3, <2>2 DEF Effective
    <3>2. disk'[q] = New(cur, q)
      BY <1>3, <1>4, <2>2, <3>1
    <3> QED
      BY <1>2, <1>3, <2>2, <3>1, <3>2 DEF Effective, New, Old
  <2> QED
    BY <1>2, <2>1, <2>2
<1>6. at' = "reclaim" => AllOld(cur)'
  <2>1. ASSUME at' = "reclaim", NEW q \in Dests(cur) PROVE disk'[q] = Old(cur, q)
    BY <1>1, <1>2, <1>3, <1>4, <2>1
  <2> QED
    BY <1>2, <2>1 DEF AllOld, Old
<1>7. Heads'
  BY <1>2, <1>3, <1>5, <1>6 DEF Heads
<1>8. /\ Faultless' /\ \A q \in Path \ {p} : disk'[q] = disk[q]
      /\ \A u \in Opened \ {cur} : \A q \in Dests(u) : disk'[q] = disk[q]
  BY <1>1, <1>2, <1>3, <1>7, MoveFaultless
<1> QED
  BY <1>2, <1>3, <1>5, <1>8

(* Every destination recovery meets is old or new. *)
LEMMA RecoverOneFaultless ==
  ASSUME StoreInv, RecoverOne
  PROVE  Faultless'
<1> USE DEF files, memory, Recovering
<1>1. PICK t \in found : cur' = t /\ at' = Outcome(t)
  BY DEF RecoverOne
<1>2. UNCHANGED <<disk, plan, faults, intent, pc, mode, found>> /\ at = "next"
  BY DEF RecoverOne
<1>3. t \in Txn /\ intent[t] \in {"decided", "applied"} /\ plan[t].policy \in {"Restore", "Forward"}
  BY <1>1, <1>2 DEF StoreInv, DurableInv, Files, Recovers
<1>4. ASSUME intent[t] = "decided"
      PROVE  /\ at' \in {"reclaim", plan[t].policy}
             /\ at' = "reclaim" => AllOld(t)
             /\ at' = "Forward" => \E p \in Dests(t) : disk[p] = New(t, p)
  <2>1. Between(t) /\ Dests(t) # {}
    BY <1>3, <1>4 DEF StoreInv, Faultless, Underway, DurableInv, Kept, Decided
  <2>2. "Neither" \notin Classes(t)
    BY <2>1 DEF Between, Classes, Class
  <2>3. Classes(t) = {"Old"} <=> AllOld(t)
    BY <2>1 DEF AllOld, Classes, Class
  <2>4. at' = IF AllOld(t) THEN "reclaim" ELSE plan[t].policy
    BY <1>1, <1>4, <2>2, <2>3 DEF Outcome
  <2> QED
    BY <1>3, <2>1, <2>4 DEF AllOld, Between
<1>5. intent[t] = "applied" => at' = "reclaim"
  BY <1>1 DEF Outcome
<1>6. Heads'
  BY <1>1, <1>2, <1>3, <1>4, <1>5 DEF Heads, AllOld, Effective, Old, New
<1> QED
  BY <1>2, <1>6, StillUnderway DEF StoreInv, Faultless, Underway

LEMMA RecoveryFaultless ==
  ASSUME StoreInv, MaxFaults = 0,
         Crash \/ Scan \/ Open \/ Quarantine \/ RecoveryFails \/ ClearRecovered
  PROVE  Faultless' /\ UNCHANGED <<disk, plan, intent>>
<1> USE DEF files, memory, recovery, Recovering, NextIntent
<1>1. ~Fault /\ at # "quarantine"
  BY DEF StoreInv, Faultless, Heads, Fault
<1>2. UNCHANGED <<disk, plan, intent, faults>>
  BY <1>1 DEF Crash, Scan, Open, Quarantine, RecoveryFails, ClearRecovered
<1>3. Heads'
  <2>1. mode' # "recover" \/ at' = "next" => at' = "next"
    BY <1>1 DEF Crash, Scan, Open, Quarantine, RecoveryFails, ClearRecovered, StoreInv,
                DurableInv, Recovers
  <2>2. at' = "next"
    BY <1>1, <2>1 DEF Crash, Scan, Open, Quarantine, RecoveryFails, ClearRecovered, StoreInv,
                DurableInv, Recovers
  <2> QED
    BY <2>2 DEF Heads
<1>4. ASSUME NEW t \in Opened
      PROVE  /\ mode' = "open" => pc'[t] \in {"sync", "rename", "apply", "finalize"}
             /\ mode' = "recover" => t \in found'
  <2>1. Underway(t) /\ t \in Txn
    BY DEF StoreInv, Faultless
  <2>2. CASE Crash
    BY <2>2 DEF Crash
  <2>3. CASE Scan
    BY <1>1, <2>1, <2>3 DEF Scan, Recorded
  <2>4. CASE Open
    BY <2>1, <2>4 DEF Open, Underway
  <2>5. CASE ClearRecovered
    <3>1. t # cur
      BY <2>5 DEF ClearRecovered, StoreInv, Faultless, Heads
    <3> QED
      BY <2>1, <2>5, <3>1 DEF ClearRecovered, Underway
  <2> QED
    BY <1>1, <2>2, <2>3, <2>4, <2>5 DEF Quarantine, RecoveryFails
<1> QED
  BY <1>2, <1>3, <1>4, StillUnderway

(* An intent that recovery ends had all new bytes, or all old ones. *)
LEMMA EndFaultless ==
  ASSUME DistinctEdits, StoreInv, FinalizeRecovered \/ ReclaimRecovered
  PROVE  /\ Faultless' /\ UNCHANGED <<disk, plan, pc>> /\ Opened' = Opened \ {cur}
         /\ cur \in Opened => \A p \in Dests(cur) :
                disk[p] = IF Effective(cur) THEN New(cur, p) ELSE Old(cur, p)
<1> USE DEF memory, Recovering
<1>1. /\ mode = "recover" /\ UNCHANGED <<disk, plan, pc, mode, found, cur, faults>>
      /\ \/ at = "finalize" /\ at' = "reclaim" /\ intent' = [intent EXCEPT ![cur] = "applied"]
         \/ at = "reclaim" /\ at' = "clear" /\ intent' = [intent EXCEPT ![cur] = "none"]
  BY DEF FinalizeRecovered, ReclaimRecovered
<1>2. cur \in Txn /\ DOMAIN intent = Txn
  BY <1>1 DEF StoreInv, DurableInv, Files, Recovers
<1>3. Opened' = Opened \ {cur} /\ intent'[cur] # "decided" /\ \A t \in Opened' : intent[t] = intent'[t]
  BY <1>1, <1>2
<1>4. Heads'
  BY <1>1, <1>3 DEF Heads
<1>5. Faultless'
  BY <1>1, <1>3, <1>4, StillUnderway DEF StoreInv, Faultless, Underway
<1>6. ASSUME NEW p \in Path PROVE Old(cur, p) # New(cur, p) /\ ~Contains(Old(cur, p), EditOf[cur])
  <2>1. Old(cur, p) \in Bytes /\ ~Contains(Old(cur, p), EditOf[cur])
    BY <1>2 DEF StoreInv, DurableInv, Files, Old, Kept, OwnEdits
  <2> QED
    BY <1>2, <2>1, AppendHolds DEF New
<1>7. Dests(cur) \subseteq Path
  BY <1>2 DEF StoreInv, DurableInv, Files
<1>8. ASSUME cur \in Opened, NEW p \in Dests(cur)
      PROVE  disk[p] = IF Effective(cur) THEN New(cur, p) ELSE Old(cur, p)
  <2>1. CASE at = "finalize"
    <3>1. Effective(cur) /\ Has(cur, p) /\ disk[p] \in {Old(cur, p), New(cur, p)}
      BY <1>8, <2>1 DEF StoreInv, Faultless, Heads, Underway, Between, DurableInv, Recovers, Everywhere
    <3> QED
      BY <1>6, <1>7, <1>8, <3>1 DEF Has
  <2>2. CASE at = "reclaim"
    <3>1. \A q \in Dests(cur) : disk[q] = Old(cur, q)
      BY <1>8, <2>2 DEF StoreInv, Faultless, Heads, AllOld
    <3>2. ~Effective(cur)
      BY <1>6, <1>7, <3>1 DEF Effective
    <3> QED
      BY <1>8, <3>1, <3>2
  <2> QED
    BY <1>1, <2>1, <2>2
<1> QED
  BY <1>1, <1>3, <1>5, <1>8

LEMMA NextStore ==
  ASSUME DistinctEdits, MaxFaults = 0, StoreInv, [Next]_vars
  PROVE  StoreInv'
<1>1. DurableInv' /\ ApartInv'
  BY NextDurable, NextApart DEF StoreInv
<1>2. Faultless'
  <2>1. CASE UNCHANGED vars
    BY <2>1 DEF vars, files, memory, recovery, StoreInv, Faultless, Underway, Between, Heads,
                Effective, AllOld, Old, New
  <2>2. CASE Recover
    BY <2>2, RecoverOneFaultless, PutBackFaultless, RecoveryFaultless, EndFaultless DEF Recover
  <2>3. ASSUME NEW t \in Txn, Stage(t) \/ Publishing(t) PROVE Faultless'
    BY <2>3, ThreadFaultless, DecideFaultless, RenameFaultless DEF Publishing
  <2> QED
    BY <2>1, <2>2, <2>3, RecoveryFaultless DEF Next
<1> QED
  BY <1>1, <1>2 DEF StoreInv

-----------------------------------------------------------------------------
(* What the store holds *)

Shown(t, p) == IF Effective(t) THEN New(t, p) ELSE Old(t, p)
Clear(p) == \A t \in Opened : p \notin Dests(t)
Reading ==
    /\ \A t \in Opened : \A p \in Dests(t) : Stored(p) = Shown(t, p)
    /\ \A p \in Path : Clear(p) => Stored(p) = disk[p]

LEMMA Reads == StoreInv => Reading
<1> SUFFICES ASSUME StoreInv PROVE Reading
  OBVIOUS
<1>1. ASSUME NEW t \in Opened, NEW p \in Dests(t) PROVE Stored(p) = Shown(t, p)
  <2>1. {u \in Txn : intent[u] = "decided" /\ p \in Dests(u)} = {t}
    BY <1>1 DEF StoreInv, Faultless
  <2>2. (CHOOSE u \in {t} : TRUE) = t
    OBVIOUS
  <2> QED
    BY <2>1, <2>2 DEF Stored, Shown
<1>2. ASSUME NEW p \in Path, Clear(p) PROVE Stored(p) = disk[p]
  BY <1>2 DEF Stored, Clear
<1> QED
  BY <1>1, <1>2 DEF Reading

(* A transaction's edit is in the store where it is on disk, but for the   *)
(* destinations of its own that are still open.                            *)
LEMMA StoreSees ==
  ASSUME DistinctEdits, StoreInv, NEW t \in Txn, NEW p \in Path, t \in Opened => p \notin Dests(t)
  PROVE  Contains(Stored(p), EditOf[t]) <=> Has(t, p)
<1>1. CASE Clear(p)
  BY <1>1, Reads DEF Reading, Has
<1>2. ASSUME NEW u \in Opened, p \in Dests(u) PROVE Contains(Stored(p), EditOf[t]) <=> Has(t, p)
  <2>1. u # t /\ Old(u, p) \in Bytes
    BY <1>2 DEF StoreInv, DurableInv, Files, Old
  <2>2. Contains(New(u, p), EditOf[t]) <=> Contains(Old(u, p), EditOf[t])
    BY <2>1, AppendHolds DEF New
  <2>3. disk[p] \in {Old(u, p), New(u, p)}
    BY <1>2 DEF StoreInv, Faultless, Underway, Between
  <2>4. Stored(p) \in {Old(u, p), New(u, p)}
    BY <1>2, Reads DEF Reading, Shown
  <2> QED
    BY <2>2, <2>3, <2>4 DEF Has
<1> QED
  BY <1>1, <1>2 DEF Clear

LEMMA ReadsNext == StoreInv' => Reading'
  BY Reads, PTL

(* The store is left alone where the open transactions show what they      *)
(* showed and the rest of the disk stays.                                  *)
LEMMA StoreStays ==
  ASSUME StoreInv, StoreInv', NEW P, P \subseteq Path,
         \A t \in Opened \cup Opened' : plan'[t] = plan[t],
         \A t \in Opened \cup Opened' : Dests(t) \cap P # {} =>
             t \in Opened /\ t \in Opened' /\ (Effective(t)' <=> Effective(t)),
         \A p \in P : Clear(p) => disk'[p] = disk[p]
  PROVE  \A p \in P : Stored(p)' = Stored(p)
<1> USE Reads, ReadsNext
<1>1. ASSUME NEW p \in P, Clear(p) PROVE Stored(p)' = Stored(p)
  <2>1. Clear(p)'
    BY <1>1 DEF Clear
  <2> QED
    BY <1>1, <2>1 DEF Reading
<1>2. ASSUME NEW p \in P, NEW t \in Opened, p \in Dests(t) PROVE Stored(p)' = Stored(p)
  <2>1. Shown(t, p)' = Shown(t, p)
    BY <1>2 DEF Shown, Old, New
  <2>2. Stored(p)' = Shown(t, p)'
    BY <1>2 DEF Reading
  <2> QED
    BY <1>2, <2>1, <2>2 DEF Reading
<1> QED
  BY <1>1, <1>2 DEF Clear

LEMMA FilesStayStore ==
  ASSUME StoreInv, StoreInv', disk' = disk, Opened' = Opened, \A t \in Opened : plan'[t] = plan[t]
  PROVE  \A p \in Path : Stored(p)' = Stored(p)
<1>1. \A t \in Opened : Effective(t)' <=> Effective(t)
  BY DEF Effective, New, Old
<1> QED
  BY <1>1, StoreStays

(* A transaction that opens or closes moves only its own destinations.     *)
LEMMA Turns ==
  ASSUME StoreInv, StoreInv', NEW t \in Txn, UNCHANGED <<disk, plan>>,
         \/ t \notin Opened /\ Opened' = Opened \cup {t}
         \/ t \in Opened /\ Opened' = Opened \ {t}
  PROVE  /\ \A p \in Path \ Dests(t) : Stored(p)' = Stored(p)
         /\ t \in Opened => \A p \in Dests(t) : Stored(p) = Shown(t, p) /\ Stored(p)' = disk[p]
         /\ t \notin Opened => \A p \in Dests(t) : Stored(p) = disk[p] /\ Stored(p)' = Shown(t, p)
<1>1. \A u \in Opened \cup Opened' : Effective(u)' <=> Effective(u)
  BY DEF Effective, New, Old
<1>2. \A p \in Path \ Dests(t) : Stored(p)' = Stored(p)
  BY <1>1, StoreStays
<1>3. Dests(t) \subseteq Path /\ \A p : Shown(t, p)' = Shown(t, p)
  BY <1>1 DEF StoreInv, DurableInv, Files, Shown, Old, New, Effective
<1>4. ASSUME t \in Opened, NEW p \in Dests(t) PROVE Stored(p) = Shown(t, p) /\ Stored(p)' = disk[p]
  <2>1. Clear(p)'
    BY <1>4 DEF Clear, StoreInv, Faultless
  <2> QED
    BY <1>3, <1>4, <2>1, Reads, ReadsNext DEF Reading
<1>5. ASSUME t \notin Opened, NEW p \in Dests(t) PROVE Stored(p) = disk[p] /\ Stored(p)' = Shown(t, p)
  <2>1. t \in Opened' /\ Clear(p)
    BY <1>5 DEF Clear, StoreInv, Faultless
  <2>2. Stored(p)' = Shown(t, p)'
    BY <1>5, <2>1, ReadsNext DEF Reading
  <2> QED
    BY <1>3, <1>5, <2>1, <2>2, Reads DEF Reading
<1> QED
  BY <1>2, <1>4, <1>5

-----------------------------------------------------------------------------
(* Every step is a step of the store, or leaves it *)

Acked == {t \in Txn : pc[t] = "acked"}
Simulates == [Atomic!Next]_<<[p \in Path |-> Stored(p)], Acked>>

LEMMA Stutters ==
  ASSUME \A p \in Path : Stored(p)' = Stored(p), Acked' = Acked
  PROVE  Simulates
<1>1. [p \in Path |-> Stored(p)]' = [p \in Path |-> Stored(p)]
  OBVIOUS
<1> QED
  BY <1>1 DEF Simulates

LEMMA Commits ==
  ASSUME NEW t \in Txn, Dests(t) \subseteq Path, Acked' = Acked,
         \A p \in Path : ~Contains(Stored(p), EditOf[t]),
         \A p \in Dests(t) : Stored(p)' = Append(Stored(p), EditOf[t]),
         \A p \in Path \ Dests(t) : Stored(p)' = Stored(p)
  PROVE  Simulates
<1>1. t \notin Atomic!Committed
  BY DEF Atomic!Committed, Atomic!Contains, Contains
<1>2. [p \in Path |-> Stored(p)]' =
        [p \in Path |-> IF p \in Dests(t) THEN Append([q \in Path |-> Stored(q)][p], EditOf[t])
                        ELSE [q \in Path |-> Stored(q)][p]]
  OBVIOUS
<1>3. Atomic!Commit(t)
  BY <1>1, <1>2 DEF Atomic!Commit, Acked
<1> QED
  BY <1>3 DEF Simulates, Atomic!Next

(* What an open transaction would write, it has not written. *)
LEMMA Unseen ==
  ASSUME DistinctEdits, StoreInv, NEW t \in Opened, ~Effective(t)
  PROVE  \A p \in Path : ~Contains(Stored(p), EditOf[t])
<1>1. OwnEdits(t)
  BY DEF StoreInv, DurableInv, Kept
<1>2. ASSUME NEW p \in Dests(t), p \in Path PROVE ~Contains(Stored(p), EditOf[t])
  <2>1. Stored(p) = Old(t, p)
    BY <1>2, Reads DEF Reading, Shown
  <2> QED
    BY <1>1, <1>2, <2>1 DEF OwnEdits
<1>3. ASSUME NEW p \in Path \ Dests(t) PROVE ~Contains(Stored(p), EditOf[t])
  BY <1>1, <1>3, StoreSees DEF OwnEdits
<1> QED
  BY <1>2, <1>3

(* Under Forward the first rename commits. *)
LEMMA RenameSimulates ==
  ASSUME DistinctEdits, StoreInv, StoreInv', NEW t \in Txn, Rename(t)
  PROVE  Simulates
<1>1. /\ t \in Opened /\ UNCHANGED <<intent, plan>>
      /\ \A q \in Path \ Dests(t) : disk'[q] = disk[q]
      /\ \A u \in Opened \ {t} : \A q \in Dests(u) : disk'[q] = disk[q]
  BY RenameFaultless
<1>2. PICK p \in Dests(t) : disk[p] = Old(t, p) /\ disk'[p] = New(t, p)
  BY RenameFaultless
<1>3. Acked' = Acked
  BY DEF Acked, Rename, Goto, StoreInv, DurableInv, Files
<1>4. Dests(t) \subseteq Path /\ \A u \in Opened \ {t} : Dests(u) \cap Dests(t) = {}
  BY <1>1 DEF StoreInv, DurableInv, Files, Faultless
<1>5. \A u \in Opened \ {t} : Effective(u)' <=> Effective(u)
  BY <1>1 DEF Effective, New, Old
<1>6. Effective(t)' <=> plan[t].policy = "Forward"
  BY <1>1, <1>2 DEF Effective, New, Old
<1>7. CASE Effective(t) \/ plan[t].policy # "Forward"
  <2>1. Effective(t)' <=> Effective(t)
    BY <1>6, <1>7 DEF Effective
  <2>2. \A q \in Path : Clear(q) => disk'[q] = disk[q]
    BY <1>1 DEF Clear
  <2>3. \A q \in Path : Stored(q)' = Stored(q)
    BY <1>1, <1>5, <2>1, <2>2, StoreStays
  <2> QED
    BY <1>3, <2>3, Stutters
<1>8. CASE ~Effective(t) /\ plan[t].policy = "Forward"
  <2>1. \A q \in Path \ Dests(t) : Stored(q)' = Stored(q)
    BY <1>1, <1>5, StoreStays
  <2>2. ASSUME NEW q \in Dests(t) PROVE Stored(q)' = Append(Stored(q), EditOf[t])
    <3>1. Stored(q) = Old(t, q)
      BY <1>1, <1>8, Reads DEF Reading, Shown
    <3>2. Stored(q)' = Shown(t, q)'
      BY <1>1, ReadsNext DEF Reading
    <3>3. Shown(t, q)' = New(t, q)
      BY <1>1, <1>6, <1>8 DEF Shown, New, Old
    <3> QED
      BY <3>1, <3>2, <3>3 DEF New
  <2> QED
    BY <1>1, <1>3, <1>4, <1>8, <2>1, <2>2, Unseen, Commits
<1> QED
  BY <1>7, <1>8

(* Under Restore the finalization does. *)
LEMMA FinalizeSimulates ==
  ASSUME DistinctEdits, StoreInv, StoreInv', NEW t \in Txn, Finalize(t)
  PROVE  Simulates
<1>1. /\ UNCHANGED <<disk, plan>> /\ pc[t] = "finalize" /\ intent[t] = "decided"
      /\ Opened' = Opened \ {t} /\ Acked' = Acked
  BY DEF Finalize, Goto, memory, Acked, StoreInv, DurableInv, Files, Kept, Decided
<1>2. t \in Opened /\ Dests(t) \subseteq Path /\ Dests(t) # {}
  BY <1>1 DEF StoreInv, DurableInv, Files, Kept, Decided
<1>3. ASSUME NEW p \in Dests(t) PROVE disk[p] = New(t, p)
  <2>1. Has(t, p) /\ ~Contains(Old(t, p), EditOf[t])
    BY <1>1, <1>2, <1>3 DEF StoreInv, DurableInv, Kept, Placed, Everywhere, OwnEdits
  <2>2. disk[p] \in {Old(t, p), New(t, p)}
    BY <1>2, <1>3 DEF StoreInv, Faultless, Underway, Between
  <2> QED
    BY <2>1, <2>2 DEF Has
<1>4. Effective(t) <=> plan[t].policy = "Forward"
  BY <1>2, <1>3 DEF Effective
<1>5. /\ \A p \in Path \ Dests(t) : Stored(p)' = Stored(p)
      /\ \A p \in Dests(t) : Stored(p) = Shown(t, p) /\ Stored(p)' = New(t, p)
  BY <1>1, <1>2, <1>3, Turns
<1>6. CASE Effective(t)
  BY <1>1, <1>5, <1>6, Stutters DEF Shown
<1>7. CASE ~Effective(t)
  <2>1. \A p \in Dests(t) : Stored(p)' = Append(Stored(p), EditOf[t])
    BY <1>5, <1>7 DEF Shown, New
  <2> QED
    BY <1>1, <1>2, <1>5, <1>7, <2>1, Unseen, Commits
<1> QED
  BY <1>6, <1>7

(* The last step of a publication acknowledges what the store has. *)
LEMMA ReclaimSimulates ==
  ASSUME DistinctEdits, StoreInv, StoreInv', NEW t \in Txn, ReclaimImages(t)
  PROVE  Simulates
<1>1. /\ UNCHANGED <<disk, plan, intent>> /\ pc[t] = "clear"
      /\ Acked' = Acked \cup {t}
  BY DEF ReclaimImages, Return, Goto, Acked, StoreInv, DurableInv, Files
<1>2. \A p \in Path : Stored(p)' = Stored(p)
  BY <1>1, FilesStayStore
<1>3. PICK p \in Dests(t) : Has(t, p) /\ p \in Path
  BY <1>1 DEF StoreInv, DurableInv, Files, Kept, Placed, Decided, Everywhere
<1>4. t \notin Opened
  BY <1>1 DEF StoreInv, DurableInv, Kept, Decided
<1>5. Contains(Stored(p), EditOf[t])
  BY <1>3, <1>4, StoreSees
<1>6. t \in Atomic!Committed
  BY <1>3, <1>5 DEF Atomic!Committed, Atomic!Contains, Contains
<1>7. [q \in Path |-> Stored(q)]' = [q \in Path |-> Stored(q)]
  BY <1>2
<1>8. Atomic!Acknowledge(t)
  BY <1>1, <1>6, <1>7 DEF Atomic!Acknowledge, Acked
<1> QED
  BY <1>8 DEF Simulates, Atomic!Next

(* The other steps of a thread. *)
LEMMA ThreadSimulates ==
  ASSUME DistinctEdits, MaxFaults = 0, StoreInv, StoreInv', NEW t \in Txn,
         Stage(t) \/ Publishing(t)
  PROVE  Simulates
<1> USE DEF files, memory, recovery, Goto, Return
<1>1. CASE Rename(t) \/ Finalize(t) \/ ReclaimImages(t)
  BY <1>1, RenameSimulates, FinalizeSimulates, ReclaimSimulates
<1>2. CASE WriteIntent(t)
  <2>1. /\ UNCHANGED <<disk, plan>> /\ Opened' = Opened \cup {t} /\ t \notin Opened /\ AllOld(t)
        /\ Acked' = Acked
    BY <1>2, DecideFaultless DEF WriteIntent, Acked, StoreInv, DurableInv, Files
  <2>2. ASSUME NEW p \in Dests(t) PROVE Old(t, p) # New(t, p) /\ disk[p] = Old(t, p)
    <3>1. Old(t, p) \in Bytes /\ ~Contains(Old(t, p), EditOf[t])
      BY <2>2 DEF StoreInv, DurableInv, Files, Old, Kept, OwnEdits
    <3> QED
      BY <2>1, <2>2, <3>1, AppendHolds DEF New, AllOld
  <2>3. ~Effective(t)
    BY <2>2 DEF Effective
  <2>4. \A p \in Path : Stored(p)' = Stored(p)
    BY <2>1, <2>2, <2>3, Turns DEF Shown
  <2> QED
    BY <2>1, <2>4, Stutters
<1>3. CASE \/ Stage(t) \/ Reserve(t) \/ Reverify(t) \/ StoreImages(t) \/ CreateIntent(t)
           \/ SyncIntent(t) \/ RefuseIo(t) \/ Apply(t) \/ CommitUnknown(t) \/ ReclaimIntent(t)
           \/ ReclaimFails(t)
  <2>1. ~Fault
    BY DEF StoreInv, Faultless, Fault
  <2>2. disk' = disk
    BY <1>3, <2>1 DEF Stage, Reserve, Reverify, StoreImages, CreateIntent, SyncIntent,
         RefuseIo, Apply, CommitUnknown, ReclaimIntent, ReclaimFails
  <2>3. Opened' = Opened /\ \A u \in Opened : plan'[u] = plan[u]
    BY <1>3, <2>1 DEF Stage, Reserve, Reverify, StoreImages, CreateIntent, SyncIntent,
         RefuseIo, Apply, CommitUnknown, ReclaimIntent, ReclaimFails, StoreInv, DurableInv,
         Files, Kept, Decided
  <2>4. Acked' = Acked
    BY <1>3, <2>1 DEF Stage, Reserve, Reverify, StoreImages, CreateIntent, SyncIntent,
         RefuseIo, Apply, CommitUnknown, ReclaimIntent, ReclaimFails, Acked, StoreInv,
         DurableInv, Files
  <2> QED
    BY <2>2, <2>3, <2>4, FilesStayStore, Stutters
<1> QED
  BY <1>1, <1>2, <1>3 DEF Publishing

(* A crash leaves the store, and so does every step of recovery. *)
LEMMA RecoverySimulates ==
  ASSUME DistinctEdits, MaxFaults = 0, StoreInv, StoreInv', Crash \/ Recover
  PROVE  Simulates
<1>1. Acked' = Acked
  BY DEF Acked, Crash, Recover, Scan, RecoverOne, Quarantine, RestoreMember, ForwardMember,
     PutBack, FinalizeRecovered, ReclaimRecovered, ClearRecovered, RecoveryFails, Open, memory,
     recovery
<1>2. CASE RestoreMember \/ ForwardMember
  <2>1. /\ cur \in Opened /\ UNCHANGED <<intent, plan, pc>>
        /\ Effective(cur)' <=> Effective(cur)
        /\ \A q \in Path \ Dests(cur) : disk'[q] = disk[q]
        /\ \A u \in Opened \ {cur} : \A q \in Dests(u) : disk'[q] = disk[q]
    BY <1>2, PutBackFaultless
  <2>2. \A u \in Opened \ {cur} : Effective(u)' <=> Effective(u)
    BY <2>1 DEF Effective, New, Old
  <2>3. \A u \in Opened : Effective(u)' <=> Effective(u)
    <3>1. cur' = cur
      BY <1>2 DEF RestoreMember, ForwardMember, PutBack
    <3> QED
      BY <2>1, <2>2, <3>1
  <2>4. \A p \in Path : Clear(p) => disk'[p] = disk[p]
    BY <2>1 DEF Clear
  <2>5. \A p \in Path : Stored(p)' = Stored(p)
    BY <2>1, <2>3, <2>4, StoreStays
  <2> QED
    BY <1>1, <2>5, Stutters
<1>3. CASE FinalizeRecovered \/ ReclaimRecovered
  <2>1. /\ UNCHANGED <<disk, plan>> /\ Opened' = Opened \ {cur}
        /\ cur \in Opened => \A p \in Dests(cur) : disk[p] = Shown(cur, p)
    BY <1>3, EndFaultless DEF Shown
  <2>2. CASE cur \in Opened
    <3>1. \A p \in Path : Stored(p)' = Stored(p)
      BY <2>1, <2>2, Turns
    <3> QED
      BY <1>1, <3>1, Stutters
  <2>3. CASE cur \notin Opened
    <3>1. Opened' = Opened
      BY <2>1, <2>3
    <3> QED
      BY <1>1, <2>1, <3>1, FilesStayStore, Stutters
  <2> QED
    BY <2>2, <2>3
<1>4. CASE Crash \/ Scan \/ Open \/ Quarantine \/ RecoveryFails \/ ClearRecovered \/ RecoverOne
  <2>1. UNCHANGED <<disk, plan, intent>>
    BY <1>4, RecoveryFaultless DEF RecoverOne, files, memory
  <2> QED
    BY <1>1, <2>1, FilesStayStore, Stutters
<1> QED
  BY <1>2, <1>3, <1>4 DEF Recover

(* Without I/O errors publication implements the atomic store, whatever    *)
(* crashes and recoveries interrupt it: a transaction appears on all of    *)
(* its destinations in one step, over what is there, is never taken back,  *)
(* and is acknowledged after that (publish.rs publish and recover).        *)
THEOREM PublishRefines ==
  DistinctEdits /\ MaxFaults = 0 => (Spec => ImplementsAtomicStore)
<1> SUFFICES ASSUME DistinctEdits, MaxFaults = 0 PROVE Spec => ImplementsAtomicStore
  OBVIOUS
<1>1. Init => StoreInv
  BY InitDurable, InitApart, InitFaultless DEF StoreInv
<1>2. StoreInv /\ [Next]_vars => StoreInv'
  BY NextStore
<1>3. Init => Atomic!Init
  <2> SUFFICES ASSUME Init PROVE Atomic!Init
    OBVIOUS
  <2>1. \A p \in Path : Stored(p) = <<>>
    BY DEF Init, Stored
  <2>2. {t \in Txn : pc[t] = "acked"} = {}
    BY DEF Init
  <2> QED
    BY <2>1, <2>2 DEF Atomic!Init
<1>4. StoreInv /\ StoreInv' /\ [Next]_vars =>
        [Atomic!Next]_<<[p \in Path |-> Stored(p)], {t \in Txn : pc[t] = "acked"}>>
  <2> SUFFICES ASSUME StoreInv, StoreInv', [Next]_vars PROVE Simulates
    BY DEF Simulates, Acked
  <2>1. CASE UNCHANGED vars
    <3>1. UNCHANGED <<disk, plan, intent, pc>>
      BY <2>1 DEF vars, files, memory
    <3>2. Acked' = Acked
      BY <3>1 DEF Acked
    <3> QED
      BY <3>1, <3>2, FilesStayStore, Stutters
  <2> QED
    BY <2>1, ThreadSimulates, RecoverySimulates DEF Next
<1> QED
  BY <1>1, <1>2, <1>3, <1>4, PTL DEF Spec, ImplementsAtomicStore, Atomic!Spec
=============================================================================
