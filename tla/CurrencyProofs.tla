--------------------------- MODULE CurrencyProofs ---------------------------
(***************************************************************************)
(* For any members, askers, queue and dirty set, and any number of edits,  *)
(* questions and faults: a leaf behind the disk is owed by somebody, a     *)
(* vouched answer carries every edit made before its question was put, and *)
(* it is folded under the membership that its own config leaf names.       *)
(*                                                                         *)
(* The argument follows what is owed.  An edit is told by the kernel's     *)
(* queue, then by the dirty set, then by a take in hand, unless a loss     *)
(* that nobody has absorbed stands for it.  A question's own edits are     *)
(* ahead of every sentinel that can answer it, so that once it is sighted  *)
(* they have left the queue; once it is vouched only a loss may owe them.  *)
(* A full pass is held to the same rules over what it has read so far.     *)
(***************************************************************************)
EXTENDS Currency, TLAPS

Events == {Edited(f) : f \in Member} \cup {Sentinel(n) : n \in Nat} \cup {Overflow}

(* An event tells f; a sentinel answers the question n. *)
Tells(e, f) == e \in {Edited(f), Overflow}
Answers(e, n) == e[1] = "cookie" /\ e[2] >= n

Told(f) == \E i \in 1 .. Len(stream) : Tells(stream[i], f)
Ahead(f, n) ==
    /\ feed.seen < n
    /\ \E i \in 1 .. Len(stream) :
         Tells(stream[i], f) /\ \A j \in 1 .. i - 1 : ~Answers(stream[j], n)

Unabsorbed == feed.losses > memo.acked
InHand(f) == f \in feed.dirty \/ \E b \in Asker : f \in ask[b].taken

Passing == {"rebase", "sweep"}
Working == {"config", "apply"} \cup Passing

Feeds == [dirty : SUBSET Member, doubt : Rung, losses : Nat, minted : Nat, seen : Nat,
          holdoff : BOOLEAN]
Memos == [base : BOOLEAN, fold : [Member -> Nat], law : Nat, acked : Nat]
Questions == [pc : Pc, since : [Member -> Nat], serial : Nat, seen : BOOLEAN,
              taken : SUBSET Member, collapse : BOOLEAN, at : Nat, law : Nat,
              read : [Member -> Nat], left : SUBSET Member, wrote : Member, put : Nat]
Shapes ==
    /\ disk \in [Member -> Nat] /\ stream \in Seq(Events) /\ stray \subseteq Member \cup {Law}
    /\ feed \in Feeds /\ memo \in Memos /\ ask \in [Asker -> Questions]

(* The clocks: losses are absorbed after they are counted, sentinels are   *)
(* seen after they are minted, nothing is newer than the disk.             *)
Dated(a) ==
    /\ ask[a].at <= feed.losses /\ ask[a].serial <= feed.minted
    /\ \A f \in Member : ask[a].since[f] <= disk[f]
    /\ ask[a].pc = "overlay" => ask[a].put <= disk[ask[a].wrote]
Clocks ==
    /\ memo.acked <= feed.losses
    /\ feed.doubt # "none" => feed.dirty = {}
    /\ feed.seen <= feed.minted
    /\ \A i \in 1 .. Len(stream) : ~Answers(stream[i], feed.minted + 1)
    /\ \A a \in Asker : Dated(a)

(* One asker works on the memo, and only it has taken anything. *)
Mutex ==
    \A a \in Asker : /\ ask[a].pc \in Working => lock = a
                     /\ ask[a].taken # {} => ask[a].pc \in {"config", "apply"}

(* A leaf of the memo behind the disk is owed, and so is one that a pass   *)
(* has read, should it land.                                               *)
FoldOwed ==
    memo.base => \A f \in Member \ stray :
        memo.fold[f] < disk[f] => InHand(f) \/ Told(f) \/ Unabsorbed
PassOwed(b) ==
    ask[b].pc \in Passing => \A f \in Member \ (stray \cup ask[b].left) :
        ask[b].read[f] < disk[f] => f \in feed.dirty \/ Told(f) \/ feed.losses > ask[b].at

(* Who owes a question the edits it is behind. *)
Asked(a) == ask[a].pc \in {"mint", "wait"}
            \/ (ask[a].seen /\ ask[a].pc \in {"ready", "config", "apply", "vouch"})
Owes(a, f) ==
    \/ Asked(a) /\ ask[a].pc \in {"mint", "wait"} /\ (InHand(f) \/ Ahead(f, ask[a].serial))
    \/ ask[a].pc = "ready" /\ InHand(f)
    \/ ask[a].pc \in {"config", "apply"} /\ f \in ask[a].taken
Fresh(a) ==
    memo.base /\ Asked(a) => \A f \in Member \ stray :
        memo.fold[f] < ask[a].since[f] => Owes(a, f) \/ Unabsorbed
FreshPass(a, b) ==
    ask[b].pc \in Passing /\ Asked(a) => \A f \in Member \ (stray \cup ask[b].left) :
        ask[b].read[f] < ask[a].since[f] => Owes(a, f) \/ feed.losses > ask[b].at

Owed ==
    /\ FoldOwed
    /\ \A b \in Asker : PassOwed(b)
    /\ \A a \in Asker : Fresh(a) /\ \A b \in Asker : FreshPass(a, b)

IInv == Shapes /\ Clocks /\ Mutex /\ Owed

USE CurrencyAssumption DEF Passing, Working

-----------------------------------------------------------------------------
(* The queue *)

LEMMA EventKinds ==
  /\ \A f \in Member : Edited(f) \in Events /\ \A n \in Nat : ~Answers(Edited(f), n)
  /\ Overflow \in Events /\ \A n \in Nat : ~Answers(Overflow, n)
  /\ \A m \in Nat : Sentinel(m) \in Events /\ \A n \in Nat : Answers(Sentinel(m), n) <=> m >= n
  /\ \A f \in Member, m \in Nat : ~Tells(Sentinel(m), f)
  /\ \A e \in Events : \/ \E f \in Member : e = Edited(f)
                       \/ \E m \in Nat : e = Sentinel(m)
                       \/ e = Overflow
  BY DEF Events, Edited, Sentinel, Overflow, Answers, Tells

(* The kernel appends, drops, or leaves its marker. *)
LEMMA Raised ==
  ASSUME stream \in Seq(Events), NEW e \in Events, stream' = Raise(e)
  PROVE  /\ stream' \in Seq(Events)
         /\ Len(stream') \in Nat /\ Len(stream') >= Len(stream)
         /\ \A i \in 1 .. Len(stream) : stream'[i] = stream[i]
         /\ \A i \in 1 .. Len(stream') : i > Len(stream) => stream'[i] \in {e, Overflow}
         /\ \E i \in 1 .. Len(stream') : stream'[i] \in {e, Overflow}
<1>1. CASE stream' = stream
  <2>1. Len(stream) >= StreamCap /\ stream[Len(stream)] = Overflow /\ Len(stream) \in Nat
    BY <1>1 DEF Raise
  <2>2. Len(stream) \in 1 .. Len(stream)
    BY <2>1
  <2> QED
    BY <1>1, <2>1, <2>2
<1>2. ASSUME NEW x \in {e, Overflow}, stream' = Append(stream, x) PROVE
         /\ stream' \in Seq(Events) /\ Len(stream') = Len(stream) + 1
         /\ \A i \in 1 .. Len(stream) : stream'[i] = stream[i]
         /\ stream'[Len(stream) + 1] = x
  BY <1>2, EventKinds
<1>3. Len(stream) \in Nat
  OBVIOUS
<1>4. stream' = stream \/ stream' = Append(stream, e) \/ stream' = Append(stream, Overflow)
  BY DEF Raise
<1>5. ASSUME NEW x \in {e, Overflow}, stream' = Append(stream, x)
      PROVE  /\ \A i \in 1 .. Len(stream') : i > Len(stream) => stream'[i] \in {e, Overflow}
             /\ Len(stream) + 1 \in 1 .. Len(stream')
  <2>1. Len(stream') = Len(stream) + 1 /\ stream'[Len(stream) + 1] = x
    BY <1>2, <1>5
  <2>2. \A i \in 1 .. Len(stream') : i > Len(stream) => i = Len(stream) + 1
    BY <1>3, <2>1
  <2> QED
    BY <1>3, <2>1, <2>2
<1>6. ASSUME NEW x \in {e, Overflow}, stream' = Append(stream, x)
      PROVE  \E i \in 1 .. Len(stream') : stream'[i] \in {e, Overflow}
  BY <1>2, <1>5, <1>6
<1> QED
  BY <1>1, <1>2, <1>3, <1>4, <1>5, <1>6

LEMMA RaiseKeeps ==
  ASSUME stream \in Seq(Events), NEW e \in Events, stream' = Raise(e), feed'.seen = feed.seen,
         NEW f \in Member
  PROVE  /\ Told(f) => Told(f)'
         /\ \A n \in Nat : Ahead(f, n) => Ahead(f, n)'
         /\ e = Edited(f) => Told(f)'
<1> USE Raised
<1>1. \A i \in 1 .. Len(stream) : i \in 1 .. Len(stream')
  <2>1. Len(stream) \in Nat
    OBVIOUS
  <2> QED
    BY <2>1
<1>2. Told(f) => Told(f)'
  BY <1>1 DEF Told
<1>3. e = Edited(f) => Told(f)'
  BY DEF Told, Tells
<1>4. ASSUME NEW n \in Nat, Ahead(f, n) PROVE Ahead(f, n)'
  <2>1. PICK i \in 1 .. Len(stream) : Tells(stream[i], f) /\ \A j \in 1 .. i - 1 : ~Answers(stream[j], n)
    BY <1>4 DEF Ahead
  <2>2. \A j \in 1 .. i - 1 : j \in 1 .. Len(stream)
    <3>1. Len(stream) \in Nat
      OBVIOUS
    <3> QED
      BY <3>1
  <2>3. i \in 1 .. Len(stream') /\ Tells(stream'[i], f) /\ \A j \in 1 .. i - 1 : ~Answers(stream'[j], n)
    BY <1>1, <2>1, <2>2
  <2> QED
    BY <1>4, <2>3 DEF Ahead
<1> QED
  BY <1>2, <1>3, <1>4

(* The feed takes events in order. *)
LEMMA Shortened ==
  ASSUME stream \in Seq(Events), stream # <<>>, stream' = Tail(stream)
  PROVE  /\ stream' \in Seq(Events) /\ Head(stream) \in Events /\ Head(stream) = stream[1]
         /\ \A i \in 1 .. Len(stream') : i + 1 \in 1 .. Len(stream) /\ stream'[i] = stream[i + 1]
         /\ \A i \in 1 .. Len(stream) : i # 1 => i - 1 \in 1 .. Len(stream') /\ stream'[i - 1] = stream[i]
<1>1. Len(stream) \in Nat /\ Len(stream) >= 1 /\ Len(stream') = Len(stream) - 1
  OBVIOUS
<1>2. \A i \in 1 .. Len(stream') : stream'[i] = stream[i + 1]
  OBVIOUS
<1>3. stream' \in Seq(Events) /\ Head(stream) \in Events /\ Head(stream) = stream[1]
  OBVIOUS
<1>4. \A i \in 1 .. Len(stream) : i # 1 => i - 1 \in 1 .. Len(stream') /\ stream'[i - 1] = stream[i]
  <2> SUFFICES ASSUME NEW i \in 1 .. Len(stream), i # 1
               PROVE  i - 1 \in 1 .. Len(stream') /\ stream'[i - 1] = stream[i]
    OBVIOUS
  <2>1. i - 1 \in 1 .. Len(stream') /\ (i - 1) + 1 = i
    BY <1>1
  <2> QED
    BY <1>2, <2>1
<1>5. \A i \in 1 .. Len(stream') : i + 1 \in 1 .. Len(stream)
  BY <1>1
<1> QED
  BY <1>2, <1>3, <1>4, <1>5

LEMMA TailKeeps ==
  ASSUME stream \in Seq(Events), stream # <<>>, stream' = Tail(stream), NEW f \in Member,
         ~Tells(Head(stream), f)
  PROVE  /\ Told(f) => Told(f)'
         /\ \A n \in Nat : Ahead(f, n) => ~Answers(Head(stream), n)
         /\ \A n \in Nat : Ahead(f, n) /\ feed'.seen < n => Ahead(f, n)'
<1> USE Shortened
<1>1. Told(f) => Told(f)'
  BY DEF Told
<1>2. ASSUME NEW n \in Nat, Ahead(f, n)
      PROVE  ~Answers(Head(stream), n) /\ (feed'.seen < n => Ahead(f, n)')
  <2>1. PICK i \in 1 .. Len(stream) : Tells(stream[i], f) /\ \A j \in 1 .. i - 1 : ~Answers(stream[j], n)
    BY <1>2 DEF Ahead
  <2>2. i # 1 /\ i \in Nat
    BY <2>1
  <2>3. 1 \in 1 .. i - 1
    BY <2>2
  <2>4. ~Answers(Head(stream), n)
    BY <2>1, <2>3
  <2>5. i - 1 \in 1 .. Len(stream') /\ Tells(stream'[i - 1], f)
    BY <2>1, <2>2
  <2>6. \A j \in 1 .. (i - 1) - 1 : j + 1 \in 1 .. i - 1 /\ j \in 1 .. Len(stream')
    BY <2>2, <2>5
  <2>7. \A j \in 1 .. (i - 1) - 1 : ~Answers(stream'[j], n)
    BY <2>1, <2>6
  <2> QED
    BY <2>4, <2>5, <2>7 DEF Ahead
<1> QED
  BY <1>1, <1>2

-----------------------------------------------------------------------------
(* What carries over a step.  S are members a step brings up to the disk,   *)
(* X the askers whose own obligations are shown apart.                      *)

Spared(S) == Member \ (stray' \cup S)
DiskTold(f) == disk'[f] = disk[f] \/ Told(f)'
CarriesFold(f) ==
    /\ f \notin stray /\ memo'.fold[f] >= memo.fold[f] /\ DiskTold(f)
    /\ InHand(f) \/ Told(f) => InHand(f)' \/ Told(f)'
CarriesAsk(a, S) ==
    Asked(a)' => /\ Asked(a) /\ ask'[a].since = ask[a].since
                 /\ \A f \in Spared(S) : Owes(a, f) => Owes(a, f)'
CarriesPass(b) ==
    ask'[b].pc \in Passing =>
        /\ ask[b].pc \in Passing /\ ask'[b].at = ask[b].at
        /\ ask'[b].read = ask[b].read /\ ask'[b].left = ask[b].left
        /\ \A f \in Spared({}) : /\ f \notin stray /\ DiskTold(f)
                                 /\ f \in feed.dirty \/ Told(f) => f \in feed'.dirty \/ Told(f)'
Own(a) == PassOwed(a) /\ Fresh(a) /\ \A c \in Asker : FreshPass(a, c) /\ FreshPass(c, a)

LEMMA Carry ==
  ASSUME Shapes, Shapes', Clocks', Owed, NEW X \in SUBSET Asker, NEW S \in SUBSET Member,
         feed'.losses = feed.losses, memo'.base => memo.base, memo'.acked = memo.acked,
         \A f \in S : memo'.fold[f] >= disk'[f],
         S # {} => \A b \in Asker : ask'[b].pc \notin Passing,
         \A f \in Spared(S) : CarriesFold(f),
         \A a \in Asker \ X : CarriesAsk(a, S) /\ CarriesPass(a),
         \A a \in X : Own(a)'
  PROVE  Owed'
<1>1. \A f \in Member \ stray' : f \in Spared(S) \/ (f \in S /\ memo'.fold[f] >= disk'[f])
  BY DEF Spared
<1>2. FoldOwed'
  <2> SUFFICES ASSUME memo'.base, NEW f \in Member \ stray', memo'.fold[f] < disk'[f]
               PROVE  InHand(f)' \/ Told(f)' \/ Unabsorbed'
    BY DEF FoldOwed
  <2>1. f \in Spared(S)
    BY <1>1 DEF Shapes, Memos
  <2>2. CarriesFold(f)
    BY <2>1
  <2>3. CASE disk'[f] = disk[f]
    <3>1. f \in Member \ stray /\ memo.fold[f] < disk[f]
      BY <2>2, <2>3 DEF CarriesFold, Shapes, Memos
    <3>2. InHand(f) \/ Told(f) \/ Unabsorbed
      BY <3>1 DEF Owed, FoldOwed
    <3> QED
      BY <2>2, <3>2 DEF CarriesFold, Unabsorbed
  <2> QED
    BY <2>2, <2>3 DEF CarriesFold, DiskTold
<1>3. \A a \in Asker : Fresh(a)'
  <2> SUFFICES ASSUME NEW a \in Asker \ X, memo'.base, Asked(a)', NEW f \in Member \ stray',
                      memo'.fold[f] < ask'[a].since[f]
               PROVE  Owes(a, f)' \/ Unabsorbed'
    BY DEF Own, Fresh
  <2>0. CarriesAsk(a, S)
    OBVIOUS
  <2>1. ask'[a].since[f] <= disk'[f] /\ ask'[a].since[f] \in Nat /\ disk'[f] \in Nat /\ memo'.fold[f] \in Nat
        /\ memo.fold[f] \in Nat
    BY DEF Clocks, Dated, Shapes, Memos, Questions
  <2>2. f \in Spared(S)
    BY <1>1, <2>1
  <2>3. f \in Member \ stray /\ memo.fold[f] < ask[a].since[f] /\ Asked(a)
    <3>1. CarriesFold(f)
      BY <2>2
    <3>2. ask'[a].since = ask[a].since /\ Asked(a)
      BY <2>0 DEF CarriesAsk
    <3> QED
      BY <2>1, <3>1, <3>2 DEF CarriesFold
  <2>4. Owes(a, f) \/ Unabsorbed
    BY <2>3 DEF Owed, Fresh
  <2> QED
    BY <2>0, <2>2, <2>4 DEF CarriesAsk, Unabsorbed
<1>4. \A b \in Asker : PassOwed(b)'
  <2> SUFFICES ASSUME NEW b \in Asker \ X, ask'[b].pc \in Passing,
                      NEW f \in Member \ (stray' \cup ask'[b].left), ask'[b].read[f] < disk'[f]
               PROVE  f \in feed'.dirty \/ Told(f)' \/ feed'.losses > ask'[b].at
    BY DEF Own, PassOwed
  <2>1. CarriesPass(b) /\ f \in Spared({})
    BY DEF Spared
  <2>2. CASE disk'[f] = disk[f]
    <3>1. f \in feed.dirty \/ Told(f) \/ feed.losses > ask[b].at
      BY <2>1, <2>2 DEF CarriesPass, Owed, PassOwed
    <3> QED
      BY <2>1, <3>1 DEF CarriesPass
  <2> QED
    BY <2>1, <2>2 DEF CarriesPass, DiskTold
<1>5. \A a, b \in Asker : FreshPass(a, b)'
  <2> SUFFICES ASSUME NEW a \in Asker \ X, NEW b \in Asker \ X, ask'[b].pc \in Passing, Asked(a)',
                      NEW f \in Member \ (stray' \cup ask'[b].left), ask'[b].read[f] < ask'[a].since[f]
               PROVE  Owes(a, f)' \/ feed'.losses > ask'[b].at
    BY DEF Own, FreshPass
  <2>1. CarriesPass(b) /\ CarriesAsk(a, S) /\ f \in Spared({}) /\ f \in Spared(S)
    BY DEF Spared
  <2>2. Owes(a, f) \/ feed.losses > ask[b].at
    BY <2>1 DEF CarriesPass, CarriesAsk, Owed, FreshPass
  <2> QED
    BY <2>1, <2>2 DEF CarriesPass, CarriesAsk
<1> QED
  BY <1>2, <1>3, <1>4, <1>5 DEF Owed

(* A loss that nobody has absorbed owes everything. *)
LEMMA Grown ==
  ASSUME feed'.losses > memo'.acked, \A b \in Asker : ask'[b].pc \in Passing => feed'.losses > ask'[b].at
  PROVE  Owed'
  BY DEF Owed, FoldOwed, PassOwed, Fresh, FreshPass, Unabsorbed

(* A cold memo that no pass is about to replace answers nothing. *)
LEMMA ColdOwes ==
  ASSUME ~memo'.base, \A b \in Asker : ask'[b].pc \notin Passing
  PROVE  Owed'
  BY DEF Owed, FoldOwed, PassOwed, Fresh, FreshPass

(* An asker that has put no question, or whose pass has read nothing. *)
LEMMA OwesNothing ==
  ASSUME NEW a \in Asker, ~Asked(a)', ask'[a].pc \in Passing => ask'[a].left = Member
  PROVE  Own(a)'
  BY DEF Own, PassOwed, Fresh, FreshPass

LEMMA Alone ==
  ASSUME Mutex, NEW a \in Asker, lock \in {Free, a}
  PROVE  \A c \in Asker : c # a => ask[c].pc \notin Working /\ ask[c].taken = {}
  BY DEF Mutex, Free

(* An asker that stands still keeps its dates. *)
LEMMA StillDated ==
  ASSUME IInv, NEW a \in Asker, ask'[a] = ask[a],
         disk' \in [Member -> Nat], \A f \in Member : disk'[f] >= disk[f],
         feed' \in Feeds, feed'.losses >= feed.losses, feed'.minted >= feed.minted
  PROVE  Dated(a)'
<1>1. ask[a] \in Questions /\ feed \in Feeds /\ disk \in [Member -> Nat]
  BY DEF IInv, Shapes
<1>2. Dated(a)
  BY DEF IInv, Clocks
<1>3. ask[a].at <= feed'.losses /\ ask[a].serial <= feed'.minted
  BY <1>1, <1>2 DEF Dated, Questions, Feeds
<1>4. \A f \in Member : ask[a].since[f] <= disk'[f]
  BY <1>1, <1>2 DEF Dated, Questions
<1>5. ask[a].pc = "overlay" => ask[a].put <= disk'[ask[a].wrote]
  <2>1. ask[a].put \in Nat /\ ask[a].wrote \in Member
    BY <1>1 DEF Questions
  <2>2. disk[ask[a].wrote] \in Nat /\ disk'[ask[a].wrote] \in Nat /\ disk'[ask[a].wrote] >= disk[ask[a].wrote]
    BY <1>1, <2>1
  <2> QED
    BY <1>2, <2>1, <2>2 DEF Dated
<1> QED
  BY <1>3, <1>4, <1>5 DEF Dated

(* One asker moves. *)
LEMMA Moves ==
  ASSUME IInv, NEW a \in Asker, NEW q \in Questions, ask' = [ask EXCEPT ![a] = q],
         disk' \in [Member -> Nat], \A f \in Member : disk'[f] >= disk[f],
         feed' \in Feeds, feed'.losses >= feed.losses, feed'.minted >= feed.minted,
         q.at <= feed'.losses, q.serial <= feed'.minted,
         \A f \in Member : q.since[f] <= disk'[f],
         q.pc = "overlay" => q.put <= disk'[q.wrote],
         q.pc \in Working => lock' = a,
         q.taken # {} => q.pc \in {"config", "apply"},
         lock' = lock \/ lock \in {Free, a}
  PROVE  /\ ask' \in [Asker -> Questions] /\ ask'[a] = q
         /\ \A c \in Asker : c # a => ask'[c] = ask[c]
         /\ \A c \in Asker : Dated(c)'
         /\ Mutex'
<1>1. ask' \in [Asker -> Questions] /\ ask'[a] = q /\ \A c \in Asker : c # a => ask'[c] = ask[c]
  BY DEF IInv, Shapes
<1>2. ASSUME NEW c \in Asker PROVE Dated(c)'
  <2>1. CASE c = a
    BY <1>1, <2>1 DEF Dated
  <2>2. CASE c # a
    BY <1>1, <2>2, StillDated DEF IInv, Shapes
  <2> QED
    BY <2>1, <2>2
<1>3. Mutex'
  <2>1. ASSUME NEW c \in Asker, c # a PROVE (ask'[c].pc \in Working => lock' = c)
                                           /\ (ask'[c].taken # {} => ask'[c].pc \in {"config", "apply"})
    <3>1. ask[c].pc \in Working => lock = c
      BY DEF IInv, Mutex
    <3>2. ask[c].taken # {} => ask[c].pc \in {"config", "apply"}
      BY DEF IInv, Mutex
    <3>3. ask[c].pc \in Working => lock' = c
      <4>0. Mutex
        BY DEF IInv
      <4>1. lock \in {Free, a} => ask[c].pc \notin Working
        BY <2>1, <4>0, Alone
      <4> QED
        BY <3>1, <4>1
    <3> QED
      BY <1>1, <2>1, <3>2, <3>3
  <2> QED
    BY <1>1, <2>1 DEF Mutex
<1> QED
  BY <1>1, <1>2, <1>3

(* An obligation is kept by an asker that stands still while what tells f  *)
(* only moves closer.                                                      *)
LEMMA OwesKept ==
  ASSUME NEW a \in Asker, NEW f \in Member, ask'[a] = ask[a], InHand(f) => InHand(f)',
         Ahead(f, ask[a].serial) => Ahead(f, ask[a].serial)' \/ InHand(f)'
  PROVE  Owes(a, f) => Owes(a, f)'
  BY DEF Owes, Asked, Ahead

(* A pass's obligations are kept while its asker stands still. *)
LEMMA PassKept ==
  ASSUME NEW b \in Asker, ask'[b] = ask[b], stray \subseteq stray',
         \A f \in Spared({}) : /\ DiskTold(f)
                               /\ f \in feed.dirty \/ Told(f) => f \in feed'.dirty \/ Told(f)'
  PROVE  CarriesPass(b)
  BY DEF CarriesPass, Spared

-----------------------------------------------------------------------------
(* The disk and the feed *)

LEMMA Written ==
  ASSUME IInv, NEW f \in Member, Write(f), feed' = feed
  PROVE  /\ disk' \in [Member -> Nat] /\ disk'[f] = disk[f] + 1
         /\ \A g \in Member : disk'[g] >= disk[g]
         /\ stream' \in Seq(Events)
         /\ \A i \in 1 .. Len(stream') : ~Answers(stream'[i], feed.minted + 1)
         /\ stray \subseteq stray' /\ stray' \subseteq Member \cup {Law}
         /\ \A g \in Member : /\ DiskTold(g) /\ (Told(g) => Told(g)')
                              /\ \A n \in Nat : Ahead(g, n) => Ahead(g, n)'
<1>1. /\ stream \in Seq(Events) /\ Edited(f) \in Events /\ stream' = Raise(Edited(f))
      /\ disk \in [Member -> Nat] /\ feed.minted + 1 \in Nat
  BY EventKinds DEF IInv, Shapes, Feeds, Write
<1>2. /\ disk' \in [Member -> Nat] /\ disk'[f] = disk[f] + 1
      /\ \A g \in Member : disk'[g] >= disk[g]
      /\ \A g \in Member : g # f => disk'[g] = disk[g]
  BY <1>1 DEF Write
<1>3. \A i \in 1 .. Len(stream') : ~Answers(stream'[i], feed.minted + 1)
  <2> SUFFICES ASSUME NEW i \in 1 .. Len(stream') PROVE ~Answers(stream'[i], feed.minted + 1)
    OBVIOUS
  <2>1. Len(stream) \in Nat /\ Len(stream') \in Nat
    BY <1>1, Raised
  <2>2. CASE i \in 1 .. Len(stream)
    BY <1>1, <2>2, Raised DEF IInv, Clocks
  <2>3. CASE i > Len(stream)
    <3>1. stream'[i] \in {Edited(f), Overflow}
      BY <1>1, <2>3, Raised
    <3> QED
      BY <1>1, <3>1, EventKinds
  <2> QED
    BY <2>1, <2>2, <2>3
<1>4. stray \subseteq stray' /\ stray' \subseteq Member \cup {Law}
  BY DEF Write, IInv, Shapes
<1>5. \A g \in Member : /\ DiskTold(g) /\ (Told(g) => Told(g)')
                        /\ \A n \in Nat : Ahead(g, n) => Ahead(g, n)'
  <2> SUFFICES ASSUME NEW g \in Member
               PROVE  /\ DiskTold(g) /\ (Told(g) => Told(g)')
                      /\ \A n \in Nat : Ahead(g, n) => Ahead(g, n)'
    OBVIOUS
  <2>1. /\ Told(g) => Told(g)'
        /\ \A n \in Nat : Ahead(g, n) => Ahead(g, n)'
        /\ Edited(f) = Edited(g) => Told(g)'
    BY <1>1, RaiseKeeps
  <2> QED
    BY <1>2, <2>1 DEF DiskTold
<1>6. stream' \in Seq(Events)
  BY <1>1, Raised
<1> QED
  BY <1>2, <1>3, <1>4, <1>5, <1>6

LEMMA EditKeeps ==
  ASSUME IInv, NEW f \in Member, Edit(f)
  PROVE  IInv'
<1>1. Write(f) /\ feed' = feed /\ memo' = memo /\ lock' = lock /\ ask' = ask
  BY DEF Edit
<1>2. Shapes'
  BY <1>1, Written DEF IInv, Shapes
<1>3. Clocks'
  <2>0. /\ disk' \in [Member -> Nat] /\ \A g \in Member : disk'[g] >= disk[g]
        /\ feed' \in Feeds /\ feed'.losses >= feed.losses /\ feed'.minted >= feed.minted
    BY <1>1, Written DEF Shapes, IInv, Feeds
  <2>1. \A a \in Asker : Dated(a)'
    BY <1>1, <2>0, StillDated
  <2>2. \A i \in 1 .. Len(stream') : ~Answers(stream'[i], feed.minted + 1)
    BY <1>1, Written
  <2> QED
    BY <1>1, <2>1, <2>2 DEF IInv, Clocks
<1>4. Mutex'
  BY <1>1 DEF IInv, Mutex
<1>5. Owed'
  <2>1. \A g \in Spared({}) : CarriesFold(g)
    <3> SUFFICES ASSUME NEW g \in Spared({}) PROVE CarriesFold(g)
      OBVIOUS
    <3>1. g \in Member /\ g \notin stray /\ DiskTold(g) /\ (Told(g) => Told(g)')
      BY <1>1, Written DEF Spared
    <3>2. memo'.fold[g] >= memo.fold[g]
      BY <1>1, <3>1 DEF IInv, Shapes, Memos
    <3>3. InHand(g) => InHand(g)'
      BY <1>1 DEF InHand
    <3> QED
      BY <3>1, <3>2, <3>3 DEF CarriesFold
  <2>2. \A a \in Asker : CarriesPass(a)
    BY <1>1, Written, PassKept DEF Spared
  <2>3. \A a \in Asker : CarriesAsk(a, {})
    <3> SUFFICES ASSUME NEW a \in Asker, Asked(a)' PROVE CarriesAsk(a, {})
      BY DEF CarriesAsk
    <3>1. ASSUME NEW g \in Member PROVE Owes(a, g) => Owes(a, g)'
      <4>1. InHand(g) => InHand(g)'
        BY <1>1 DEF InHand
      <4>2. ask[a].serial \in Nat
        BY DEF IInv, Shapes, Questions
      <4>3. Ahead(g, ask[a].serial) => Ahead(g, ask[a].serial)'
        <5>1. \A n \in Nat : Ahead(g, n) => Ahead(g, n)'
          BY <1>1, Written
        <5>2. ask'[a].serial = ask[a].serial
          BY <1>1
        <5> QED
          BY <4>2, <5>1, <5>2 DEF Ahead
      <4> QED
        BY <1>1, <4>1, <4>3, OwesKept
    <3>2. Asked(a)
      BY <1>1 DEF Asked
    <3> QED
      BY <1>1, <3>1, <3>2 DEF CarriesAsk, Spared
  <2> QED
    <3>1. /\ {} \in SUBSET Asker /\ {} \in SUBSET Member /\ Shapes /\ Owed
          /\ feed'.losses = feed.losses /\ (memo'.base => memo.base) /\ memo'.acked = memo.acked
      BY <1>1 DEF IInv
    <3> QED
      BY <1>2, <1>3, <2>1, <2>2, <2>3, <3>1, Carry
<1> QED
  BY <1>2, <1>3, <1>4, <1>5 DEF IInv

(* What the feed does on its own leaves the memo and the askers alone. *)
LEMMA FeedMoves ==
  ASSUME IInv, UNCHANGED <<disk, memo, lock, ask>>,
         feed' \in Feeds, feed'.losses >= feed.losses, feed'.minted = feed.minted,
         feed'.seen <= feed.minted, feed'.doubt # "none" => feed'.dirty = {},
         stream' \in Seq(Events), \A i \in 1 .. Len(stream') : ~Answers(stream'[i], feed.minted + 1),
         stray' \subseteq Member \cup {Law},
         \/ feed'.losses > feed.losses
         \/ /\ feed'.losses = feed.losses /\ stray \subseteq stray'
            /\ \A g \in Member \ stray' :
                 /\ g \in feed.dirty \/ Told(g) => g \in feed'.dirty \/ Told(g)'
                 /\ InHand(g) => InHand(g)'
                 /\ \A n \in Nat : Ahead(g, n) => Ahead(g, n)' \/ InHand(g)'
  PROVE  IInv'
<1>1. Shapes'
  BY DEF IInv, Shapes
<1>2. Clocks'
  <2>1. disk' \in [Member -> Nat] /\ \A g \in Member : disk'[g] >= disk[g]
    BY <1>1 DEF Shapes
  <2>2. \A a \in Asker : Dated(a)'
    BY <2>1, StillDated, SMTT(30) DEF IInv, Shapes, Feeds
  <2>3. memo'.acked <= feed'.losses
    BY DEF IInv, Clocks, Shapes, Memos, Feeds
  <2> QED
    BY <2>2, <2>3 DEF Clocks
<1>3. Mutex'
  BY DEF IInv, Mutex
<1>4. Owed'
  <2>1. CASE feed'.losses > feed.losses
    <3>1. feed'.losses > memo'.acked
      BY <2>1 DEF IInv, Clocks, Shapes, Memos, Feeds
    <3>2. ASSUME NEW b \in Asker PROVE feed'.losses > ask'[b].at
      <4>1. ask[b].at <= feed.losses /\ ask[b].at \in Nat
        BY DEF IInv, Clocks, Dated, Shapes, Questions
      <4> QED
        BY <2>1, <4>1 DEF IInv, Shapes, Feeds
    <3> QED
      BY <3>1, <3>2, Grown
  <2>2. CASE ~(feed'.losses > feed.losses)
    <3>1. /\ feed'.losses = feed.losses /\ stray \subseteq stray'
          /\ \A g \in Member \ stray' :
                 /\ g \in feed.dirty \/ Told(g) => g \in feed'.dirty \/ Told(g)'
                 /\ InHand(g) => InHand(g)'
                 /\ \A n \in Nat : Ahead(g, n) => Ahead(g, n)' \/ InHand(g)'
      BY <2>2
    <3>2. \A g \in Member : DiskTold(g)
      BY DEF DiskTold
    <3>3. \A g \in Spared({}) : CarriesFold(g)
      <4> SUFFICES ASSUME NEW g \in Spared({}) PROVE CarriesFold(g)
        OBVIOUS
      <4>1. g \in Member \ stray' /\ g \notin stray
        BY <3>1 DEF Spared
      <4>2. memo'.fold[g] >= memo.fold[g]
        BY <4>1 DEF IInv, Shapes, Memos
      <4>3. g \in feed'.dirty => InHand(g)'
        BY DEF InHand
      <4> QED
        BY <3>1, <3>2, <4>1, <4>2, <4>3 DEF CarriesFold
    <3>4. \A a \in Asker : CarriesPass(a)
      <4>1. \A g \in Spared({}) : /\ DiskTold(g)
                                  /\ g \in feed.dirty \/ Told(g) => g \in feed'.dirty \/ Told(g)'
        BY <3>1, <3>2 DEF Spared
      <4> QED
        BY <3>1, <4>1, PassKept
    <3>5. \A a \in Asker : CarriesAsk(a, {})
      <4> SUFFICES ASSUME NEW a \in Asker, Asked(a)' PROVE CarriesAsk(a, {})
        BY DEF CarriesAsk
      <4>1. ASSUME NEW g \in Spared({}) PROVE Owes(a, g) => Owes(a, g)'
        <5>1. g \in Member \ stray'
          BY DEF Spared
        <5>2. ask[a].serial \in Nat
          BY DEF IInv, Shapes, Questions
        <5>3. Ahead(g, ask[a].serial) => Ahead(g, ask[a].serial)' \/ InHand(g)'
          <6>1. Ahead(g, ask[a].serial) => InHand(g)' \/ (feed'.seen < ask[a].serial /\ \E i \in 1 .. Len(stream') :
                   Tells(stream'[i], g) /\ \A j \in 1 .. i - 1 : ~Answers(stream'[j], ask[a].serial))
            BY <3>1, <5>1, <5>2 DEF Ahead
          <6> QED
            BY <6>1 DEF Ahead
        <5> QED
          BY <3>1, <5>1, <5>3, OwesKept
      <4>2. Asked(a)
        BY DEF Asked
      <4> QED
        BY <4>1, <4>2 DEF CarriesAsk
    <3>6. /\ {} \in SUBSET Asker /\ {} \in SUBSET Member /\ Shapes /\ Owed
          /\ feed'.losses = feed.losses /\ (memo'.base => memo.base) /\ memo'.acked = memo.acked
      BY <3>1 DEF IInv
    <3> QED
      BY <1>1, <1>2, <3>3, <3>4, <3>5, <3>6, Carry
  <2> QED
    BY <2>1, <2>2
<1> QED
  BY <1>1, <1>2, <1>3, <1>4 DEF IInv

LEMMA Collapsed ==
  ASSUME NEW s \in Feeds, NEW rung \in {"sweep", "rebase"}
  PROVE  /\ Collapse(s, rung) \in Feeds /\ Collapse(s, rung).losses > s.losses
         /\ Collapse(s, rung).dirty = {}
         /\ Collapse(s, rung).minted = s.minted /\ Collapse(s, rung).seen = s.seen
<1>1. Higher(s.doubt, rung) \in Rung
  BY DEF Higher, Rung
<1>2. s.losses \in Nat /\ s.minted \in Nat /\ s.seen \in Nat /\ s.holdoff \in BOOLEAN
  BY DEF Feeds
<1>3. Collapse(s, rung).losses = s.losses + 1 /\ Collapse(s, rung).dirty = {}
      /\ Collapse(s, rung).minted = s.minted /\ Collapse(s, rung).seen = s.seen
  BY DEF Collapse, Feeds
<1>4. Collapse(s, rung) \in Feeds
  <2>1. \A r \in Rung, n \in Nat : [s EXCEPT !.doubt = r, !.dirty = {}, !.losses = n] \in Feeds
    BY DEF Feeds
  <2>2. s.losses + 1 \in Nat
    BY <1>2
  <2> QED
    BY <1>1, <2>1, <2>2 DEF Collapse
<1> QED
  BY <1>2, <1>3, <1>4

LEMMA Inserted ==
  ASSUME feed \in Feeds, feed.doubt # "none" => feed.dirty = {}, NEW f \in Member, feed' = Insert(feed, f)
  PROVE  /\ feed' \in Feeds /\ feed'.minted = feed.minted /\ feed'.seen = feed.seen
         /\ feed'.doubt # "none" => feed'.dirty = {}
         /\ \/ feed'.losses > feed.losses
            \/ /\ feed'.losses = feed.losses /\ feed.dirty \subseteq feed'.dirty
               /\ feed.doubt = "none" => f \in feed'.dirty
<1>1. CASE feed.doubt # "none"
  BY <1>1 DEF Insert
<1>2. CASE feed.doubt = "none"
  <2> DEFINE more == [feed EXCEPT !.dirty = @ \cup {f}]
  <2>1. more \in Feeds /\ more.losses = feed.losses /\ more.minted = feed.minted /\ more.seen = feed.seen
        /\ feed.dirty \subseteq more.dirty /\ f \in more.dirty /\ more.doubt = "none"
    BY <1>2 DEF Feeds
  <2>2. feed' \in {more, Collapse(more, "sweep")}
    BY <1>2 DEF Insert
  <2> HIDE DEF more
  <2>3. CASE feed' = Collapse(more, "sweep")
    BY <2>1, <2>3, Collapsed
  <2>4. CASE feed' = more
    BY <2>1, <2>4
  <2> QED
    BY <2>2, <2>3, <2>4
<1> QED
  BY <1>1, <1>2

LEMMA DeliverKeeps ==
  ASSUME IInv, Deliver
  PROVE  IInv'
<1> DEFINE e == Head(stream)
<1>1. /\ stream \in Seq(Events) /\ stream # <<>> /\ stream' = Tail(stream) /\ feed' = Handled(e)
      /\ UNCHANGED <<disk, memo, lock, ask>> /\ stray' = stray \cup Swallowed(e)
      /\ feed \in Feeds /\ (feed.doubt # "none" => feed.dirty = {})
  BY DEF Deliver, IInv, Shapes, Clocks
<1>2. /\ stream' \in Seq(Events) /\ e \in Events /\ e = stream[1] /\ 1 \in 1 .. Len(stream)
      /\ \A i \in 1 .. Len(stream') : i + 1 \in 1 .. Len(stream) /\ stream'[i] = stream[i + 1]
  <2>1. Len(stream) \in Nat /\ Len(stream) >= 1
    BY <1>1
  <2> QED
    BY <1>1, <2>1, Shortened
<1>3. \A i \in 1 .. Len(stream') : ~Answers(stream'[i], feed.minted + 1)
  BY <1>2 DEF IInv, Clocks
<1>4. ~Answers(e, feed.minted + 1) /\ feed.seen <= feed.minted
  BY <1>2 DEF IInv, Clocks
<1>5. stray' \subseteq Member \cup {Law} /\ stray \subseteq stray'
  <2>1. Swallowed(e) \subseteq Member
    <3>1. ASSUME NEW f \in Member, e = Edited(f) PROVE e[2] = f
      BY <3>1 DEF Edited
    <3>2. ASSUME NEW n \in Nat, e = Sentinel(n) PROVE e[1] # "edit"
      BY <3>2 DEF Sentinel
    <3>3. e = Overflow => e[1] # "edit"
      BY DEF Overflow
    <3> QED
      BY <1>2, <3>1, <3>2, <3>3, EventKinds DEF Swallowed
  <2> QED
    BY <1>1, <2>1 DEF IInv, Shapes
<1>6. \A g \in Member : InHand(g) <=> g \in feed.dirty \/ \E b \in Asker : g \in ask[b].taken
  BY DEF InHand
<1>7. \A g \in Member : InHand(g)' <=> g \in feed'.dirty \/ \E b \in Asker : g \in ask[b].taken
  BY <1>1 DEF InHand
<1> HIDE DEF e
<1>8. CASE \E f \in Member : e = Edited(f)
  <2> PICK f \in Member : e = Edited(f)
    BY <1>8
  <2>1. feed' = Insert(feed, f) /\ e[1] = "edit" /\ e[2] = f
    BY <1>1 DEF Handled, Edited
  <2>2. /\ feed' \in Feeds /\ feed'.minted = feed.minted /\ feed'.seen = feed.seen
        /\ feed'.doubt # "none" => feed'.dirty = {}
        /\ \/ feed'.losses > feed.losses
           \/ /\ feed'.losses = feed.losses /\ feed.dirty \subseteq feed'.dirty
              /\ feed.doubt = "none" => f \in feed'.dirty
    BY <1>1, <2>1, Inserted
  <2>3. \A g \in Member : g # f => ~Tells(e, g)
    BY DEF Tells, Edited, Overflow
  <2>4. \A g \in Member : g # f => /\ Told(g) => Told(g)'
                                   /\ \A n \in Nat : Ahead(g, n) => Ahead(g, n)'
    <3> SUFFICES ASSUME NEW g \in Member, g # f
                 PROVE  (Told(g) => Told(g)') /\ \A n \in Nat : Ahead(g, n) => Ahead(g, n)'
      OBVIOUS
    <3>1. /\ Told(g) => Told(g)'
          /\ \A n \in Nat : Ahead(g, n) /\ feed'.seen < n => Ahead(g, n)'
      BY <1>1, <2>3, TailKeeps DEF e
    <3>2. \A n \in Nat : Ahead(g, n) => feed'.seen < n
      BY <2>2 DEF Ahead
    <3> QED
      BY <3>1, <3>2
  <2>5. CASE feed'.losses > feed.losses
    BY <1>1, <1>2, <1>3, <1>4, <1>5, <2>2, <2>5, FeedMoves DEF Feeds
  <2>6. CASE feed'.losses = feed.losses /\ feed.dirty \subseteq feed'.dirty /\ (feed.doubt = "none" \/ f \in stray')
    <3>1. \A g \in Member \ stray' : g = f => g \in feed'.dirty
      BY <2>2, <2>6 DEF Feeds
    <3>2. \A g \in Member \ stray' :
            /\ g \in feed.dirty \/ Told(g) => g \in feed'.dirty \/ Told(g)'
            /\ InHand(g) => InHand(g)'
            /\ \A n \in Nat : Ahead(g, n) => Ahead(g, n)' \/ InHand(g)'
      BY <1>6, <1>7, <2>4, <2>6, <3>1
    <3> QED
      BY <1>1, <1>2, <1>3, <1>4, <1>5, <2>2, <2>6, <3>2, FeedMoves DEF Feeds
  <2>7. CASE feed.doubt # "none" /\ f \notin stray'
    <3>1. feed' = feed
      BY <2>1, <2>7 DEF Insert
    <3>2. ~(feed.losses <= memo.acked) /\ \A a \in Asker : ask[a].pc \in Passing => ~(ask[a].at >= feed.losses)
      BY <1>1, <2>1, <2>7 DEF Swallowed
    <3>3. Shapes' /\ Mutex'
      BY <1>1, <1>2, <1>5, <3>1 DEF IInv, Shapes, Mutex
    <3>4. Clocks'
      <4>1. \A a \in Asker : Dated(a)'
        BY <1>1, <3>1 DEF IInv, Clocks, Dated
      <4> QED
        BY <1>1, <1>3, <3>1, <4>1 DEF IInv, Clocks
    <3>5. feed'.losses > memo'.acked /\ \A b \in Asker : ask'[b].pc \in Passing => feed'.losses > ask'[b].at
      <4>1. feed.losses \in Nat /\ memo.acked \in Nat /\ \A b \in Asker : ask[b].at \in Nat
        BY DEF IInv, Shapes, Feeds, Memos, Questions
      <4>2. feed.losses > memo.acked /\ \A b \in Asker : ask[b].pc \in Passing => feed.losses > ask[b].at
        BY <3>2, <4>1
      <4> QED
        BY <1>1, <3>1, <4>2
    <3> QED
      BY <3>3, <3>4, <3>5, Grown DEF IInv
  <2> QED
    BY <2>2, <2>5, <2>6, <2>7
<1>9. CASE \E m \in Nat : e = Sentinel(m)
  <2> PICK m \in Nat : e = Sentinel(m)
    BY <1>9
  <2>1. feed' = [feed EXCEPT !.seen = IF m > @ THEN m ELSE @] /\ m <= feed.minted
    <3>1. feed.minted + 1 \in Nat /\ feed.minted \in Nat
      BY <1>1 DEF Feeds
    <3>2. ~(m >= feed.minted + 1)
      BY <1>4, <3>1, EventKinds
    <3> QED
      BY <1>1, <3>1, <3>2 DEF Handled, Sentinel
  <2>2. /\ feed' \in Feeds /\ feed'.losses = feed.losses /\ feed'.minted = feed.minted
        /\ feed'.seen <= feed.minted /\ feed'.dirty = feed.dirty /\ feed'.doubt = feed.doubt
        /\ feed'.seen \in {feed.seen, m}
    BY <1>1, <1>4, <2>1 DEF Feeds
  <2>3. ASSUME NEW g \in Member
        PROVE  (Told(g) => Told(g)') /\ \A n \in Nat : Ahead(g, n) => Ahead(g, n)'
    <3>1. ~Tells(e, g)
      BY EventKinds
    <3>2. /\ Told(g) => Told(g)'
          /\ \A n \in Nat : Ahead(g, n) => ~Answers(e, n)
          /\ \A n \in Nat : Ahead(g, n) /\ feed'.seen < n => Ahead(g, n)'
      BY <1>1, <3>1, TailKeeps DEF e
    <3>3. \A n \in Nat : Ahead(g, n) => feed'.seen < n
      BY <2>2, <3>2, EventKinds DEF Ahead
    <3> QED
      BY <3>2, <3>3
  <2> QED
    BY <1>1, <1>2, <1>3, <1>5, <1>6, <1>7, <2>2, <2>3, FeedMoves DEF Feeds
<1>10. CASE e = Overflow
  <2>1. feed' = Collapse(feed, "sweep")
    BY <1>1, <1>10 DEF Handled, Overflow
  <2>2. /\ feed' \in Feeds /\ feed'.losses > feed.losses /\ feed'.dirty = {}
        /\ feed'.minted = feed.minted /\ feed'.seen = feed.seen
    BY <1>1, <2>1, Collapsed
  <2> QED
    BY <1>1, <1>2, <1>3, <1>4, <1>5, <2>2, FeedMoves DEF Feeds
<1> QED
  BY <1>2, <1>8, <1>9, <1>10, EventKinds

LEMMA FeedStepsKeep ==
  ASSUME IInv, \/ WatchErrs \/ HoldoffElapses
               \/ \E f \in Member : Hint(f)
               \/ \E rung \in {"sweep", "rebase"} : Rescan(rung)
  PROVE  IInv'
<1>0. /\ feed \in Feeds /\ feed.seen <= feed.minted /\ (feed.doubt # "none" => feed.dirty = {})
      /\ stream \in Seq(Events) /\ stray \subseteq Member \cup {Law}
      /\ \A i \in 1 .. Len(stream) : ~Answers(stream[i], feed.minted + 1)
  BY DEF IInv, Shapes, Clocks
<1>1. CASE WatchErrs
  <2>1. feed' = Collapse(feed, "sweep") /\ stream' = Tail(stream) /\ stream # <<>>
        /\ UNCHANGED <<disk, memo, lock, ask, stray>>
    BY <1>1 DEF WatchErrs
  <2>2. /\ feed' \in Feeds /\ feed'.losses > feed.losses /\ feed'.dirty = {}
        /\ feed'.minted = feed.minted /\ feed'.seen = feed.seen
    BY <1>0, <2>1, Collapsed
  <2>3. stream' \in Seq(Events) /\ \A i \in 1 .. Len(stream') : ~Answers(stream'[i], feed.minted + 1)
    BY <1>0, <2>1, Shortened
  <2> QED
    BY <1>0, <2>1, <2>2, <2>3, FeedMoves DEF Feeds
<1>2. CASE HoldoffElapses
  <2>1. feed' = [feed EXCEPT !.holdoff = FALSE] /\ UNCHANGED <<disk, stream, memo, lock, ask, stray>>
    BY <1>2 DEF HoldoffElapses
  <2>2. feed' \in Feeds /\ feed'.losses = feed.losses /\ feed'.minted = feed.minted /\ feed'.seen = feed.seen
        /\ feed'.dirty = feed.dirty /\ feed'.doubt = feed.doubt
    BY <1>0, <2>1 DEF Feeds
  <2>3. \A g \in Member : /\ g \in feed.dirty \/ Told(g) => g \in feed'.dirty \/ Told(g)'
                          /\ InHand(g) => InHand(g)'
                          /\ \A n \in Nat : Ahead(g, n) => Ahead(g, n)' \/ InHand(g)'
    BY <2>1, <2>2 DEF Told, InHand, Ahead
  <2> QED
    BY <1>0, <2>1, <2>2, <2>3, FeedMoves DEF Feeds
<1>3. ASSUME NEW f \in Member, Hint(f) PROVE IInv'
  <2>1. feed' = Insert(feed, f) /\ UNCHANGED <<disk, stream, memo, lock, ask, stray>>
    BY <1>3 DEF Hint
  <2>2. /\ feed' \in Feeds /\ feed'.minted = feed.minted /\ feed'.seen = feed.seen
        /\ feed'.doubt # "none" => feed'.dirty = {}
        /\ \/ feed'.losses > feed.losses
           \/ feed'.losses = feed.losses /\ feed.dirty \subseteq feed'.dirty
    BY <1>0, <2>1, Inserted
  <2>3. feed.dirty \subseteq feed'.dirty =>
          \A g \in Member : /\ g \in feed.dirty \/ Told(g) => g \in feed'.dirty \/ Told(g)'
                            /\ InHand(g) => InHand(g)'
                            /\ \A n \in Nat : Ahead(g, n) => Ahead(g, n)' \/ InHand(g)'
    BY <2>1, <2>2 DEF Told, InHand, Ahead
  <2> QED
    BY <1>0, <2>1, <2>2, <2>3, FeedMoves DEF Feeds
<1>4. ASSUME NEW rung \in {"sweep", "rebase"}, Rescan(rung) PROVE IInv'
  <2>1. feed' = Collapse(feed, rung) /\ UNCHANGED <<disk, stream, memo, lock, ask, stray>>
    BY <1>4 DEF Rescan
  <2>2. /\ feed' \in Feeds /\ feed'.losses > feed.losses /\ feed'.dirty = {}
        /\ feed'.minted = feed.minted /\ feed'.seen = feed.seen
    BY <1>0, <2>1, Collapsed
  <2> QED
    BY <1>0, <2>1, <2>2, FeedMoves DEF Feeds
<1> QED
  BY <1>1, <1>2, <1>3, <1>4

-----------------------------------------------------------------------------
(* The askers *)

(* A step of one asker that leaves the disk and the memo as they were. *)
LEMMA Turn ==
  ASSUME IInv, NEW a \in Asker, NEW q \in Questions, ask' = [ask EXCEPT ![a] = q],
         UNCHANGED <<disk, memo, stray>>,
         feed' \in Feeds, feed'.losses = feed.losses, feed'.minted >= feed.minted,
         feed'.seen <= feed'.minted, feed'.doubt # "none" => feed'.dirty = {},
         stream' \in Seq(Events), \A i \in 1 .. Len(stream') : ~Answers(stream'[i], feed'.minted + 1),
         q.at <= feed.losses, q.serial <= feed'.minted, \A f \in Member : q.since[f] <= disk[f],
         q.pc = "overlay" => q.put <= disk[q.wrote],
         q.pc \in Working => lock' = a, q.taken # {} => q.pc \in {"config", "apply"},
         lock' = lock \/ lock \in {Free, a},
         \A g \in Member : /\ Told(g) => Told(g)'
                           /\ InHand(g) => InHand(g)'
                           /\ \A n \in Nat : Ahead(g, n) => Ahead(g, n)',
         \A c \in Asker : c # a /\ ask[c].pc \in Passing => feed.dirty \subseteq feed'.dirty,
         Own(a)' \/ (CarriesAsk(a, {}) /\ CarriesPass(a))
  PROVE  IInv'
<1>1. /\ disk' \in [Member -> Nat] /\ \A f \in Member : disk'[f] >= disk[f]
      /\ feed'.losses >= feed.losses /\ q.at <= feed'.losses
      /\ \A f \in Member : q.since[f] <= disk'[f]
      /\ q.pc = "overlay" => q.put <= disk'[q.wrote]
  BY DEF IInv, Shapes, Feeds
<1>2. /\ ask' \in [Asker -> Questions] /\ \A c \in Asker : c # a => ask'[c] = ask[c]
      /\ \A c \in Asker : Dated(c)'
      /\ Mutex'
  BY <1>1, Moves
<1>3. Shapes'
  BY <1>2 DEF IInv, Shapes
<1>4. Clocks'
  BY <1>2 DEF IInv, Clocks
<1>5. \A g \in Spared({}) : g \in Member /\ g \notin stray /\ DiskTold(g) /\ CarriesFold(g)
  <2> SUFFICES ASSUME NEW g \in Spared({})
               PROVE  g \in Member /\ g \notin stray /\ DiskTold(g) /\ CarriesFold(g)
    OBVIOUS
  <2>1. g \in Member /\ g \notin stray /\ DiskTold(g)
    BY DEF Spared, DiskTold
  <2>2. memo'.fold[g] >= memo.fold[g]
    BY <2>1 DEF IInv, Shapes, Memos
  <2> QED
    BY <2>1, <2>2 DEF CarriesFold
<1>6. ASSUME NEW c \in Asker \ {a} PROVE CarriesAsk(c, {}) /\ CarriesPass(c)
  <2>1. ask'[c] = ask[c] /\ ask[c].serial \in Nat
    BY <1>2 DEF IInv, Shapes, Questions
  <2>2. ASSUME NEW g \in Spared({}) PROVE Owes(c, g) => Owes(c, g)'
    <3>1. g \in Member
      BY DEF Spared
    <3>2. Ahead(g, ask[c].serial) => Ahead(g, ask[c].serial)'
      <4>1. Ahead(g, ask[c].serial) => feed'.seen < ask[c].serial /\ \E i \in 1 .. Len(stream') :
                   Tells(stream'[i], g) /\ \A j \in 1 .. i - 1 : ~Answers(stream'[j], ask[c].serial)
        BY <2>1, <3>1 DEF Ahead
      <4> QED
        BY <2>1, <4>1 DEF Ahead
    <3> QED
      BY <2>1, <3>1, <3>2, OwesKept
  <2>3. CarriesAsk(c, {})
    BY <2>1, <2>2 DEF CarriesAsk, Asked
  <2>4. CarriesPass(c)
    BY <1>5, <2>1, PassKept DEF CarriesPass, DiskTold
  <2> QED
    BY <2>3, <2>4
<1>7. Owed'
  <2>1. /\ {} \in SUBSET Asker /\ {a} \in SUBSET Asker /\ {} \in SUBSET Member /\ Shapes /\ Owed
        /\ (memo'.base => memo.base) /\ memo'.acked = memo.acked
    BY DEF IInv
  <2>2. CASE Own(a)'
    <3>1. \A b \in {a} : Own(b)'
      BY <2>2 DEF Own
    <3> QED
      BY <1>3, <1>4, <1>5, <1>6, <2>1, <3>1, Carry, ZenonT(30)
  <2>3. CASE CarriesAsk(a, {}) /\ CarriesPass(a)
    <3>1. \A c \in Asker \ {} : CarriesAsk(c, {}) /\ CarriesPass(c)
      BY <1>6, <2>3
    <3> QED
      BY <1>3, <1>4, <1>5, <2>1, <3>1, Carry
  <2> QED
    BY <2>2, <2>3
<1> QED
  BY <1>2, <1>3, <1>4, <1>7 DEF IInv

(* An asker that owes nothing and is owed nothing: at rest, at its write,  *)
(* going to the memo with no sentinel seen, or at the start of a pass.     *)
Restful(q) ==
    /\ q \in Questions /\ q.seen = FALSE /\ q.taken = {} /\ q.serial = 0
    /\ q.at <= feed.losses /\ (\A f \in Member : q.since[f] <= disk[f])
    /\ q.pc \notin {"mint", "wait", "overlay"} /\ (q.pc \in Passing => q.left = Member)

LEMMA PcSet ==
  ASSUME NEW q \in Questions, NEW p \in Pc
  PROVE  /\ [q EXCEPT !.pc = p] \in Questions /\ [q EXCEPT !.pc = p].pc = p
         /\ [q EXCEPT !.pc = p].seen = q.seen /\ [q EXCEPT !.pc = p].taken = q.taken
         /\ [q EXCEPT !.pc = p].serial = q.serial /\ [q EXCEPT !.pc = p].at = q.at
         /\ [q EXCEPT !.pc = p].since = q.since /\ [q EXCEPT !.pc = p].read = q.read
         /\ [q EXCEPT !.pc = p].left = q.left
  BY DEF Questions

LEMMA IdleRestful ==
  ASSUME IInv
  PROVE  /\ \A p \in {"idle", "ready", "vouch", "write"} : Restful([Idle EXCEPT !.pc = p])
         /\ Idle = [Idle EXCEPT !.pc = "idle"] /\ Restful(Idle)
         /\ Restful([Idle EXCEPT !.pc = "ready", !.since = disk])
         /\ Restful([[Idle EXCEPT !.collapse = TRUE] EXCEPT !.pc = "vouch"])
         /\ \A p \in Passing : Restful(Pass(p)) /\ Pass(p).pc = p
<1>1. /\ disk \in [Member -> Nat] /\ feed.losses \in Nat /\ disk[Config] \in Nat
      /\ Blank \in [Member -> Nat] /\ \A f \in Member : Blank[f] <= disk[f] /\ disk[f] <= disk[f]
  BY DEF IInv, Shapes, Feeds, Blank
<1>2. Config \in Member
  OBVIOUS
<1>3. /\ Idle \in Questions /\ Idle.seen = FALSE /\ Idle.taken = {} /\ Idle.serial = 0 /\ Idle.at = 0
      /\ Idle.since = Blank /\ Idle.pc = "idle"
  <2>1. "idle" \in Pc /\ {} \in SUBSET Member
    BY DEF Pc
  <2> QED
    BY <1>1, <1>2, <2>1 DEF Idle, Questions
<1>4. Idle = [Idle EXCEPT !.pc = "idle"]
  BY <1>3 DEF Questions
<1>5. "idle" \in Pc /\ "ready" \in Pc /\ "vouch" \in Pc /\ "write" \in Pc
  BY DEF Pc
<1>6. \A p \in {"idle", "ready", "vouch", "write"} : Restful([Idle EXCEPT !.pc = p])
  BY <1>1, <1>3, <1>5, PcSet DEF Restful
<1>7. Restful([Idle EXCEPT !.pc = "ready", !.since = disk])
  <2> DEFINE q == [Idle EXCEPT !.since = disk]
  <2>1. [Idle EXCEPT !.pc = "ready", !.since = disk] = [q EXCEPT !.pc = "ready"]
    BY <1>3 DEF Questions
  <2>2. /\ q \in Questions /\ q.seen = FALSE /\ q.taken = {} /\ q.serial = 0 /\ q.at = 0
        /\ q.since = disk
    BY <1>1, <1>3 DEF Questions
  <2> HIDE DEF q
  <2>3. Restful([q EXCEPT !.pc = "ready"])
    BY <1>1, <1>5, <2>2, PcSet DEF Restful
  <2> QED
    BY <2>1, <2>3
<1>8. Restful([[Idle EXCEPT !.collapse = TRUE] EXCEPT !.pc = "vouch"])
  <2> DEFINE q == [Idle EXCEPT !.collapse = TRUE]
  <2>1. /\ q \in Questions /\ q.seen = FALSE /\ q.taken = {} /\ q.serial = 0 /\ q.at = 0
        /\ q.since = Blank
    BY <1>3 DEF Questions
  <2> HIDE DEF q
  <2>2. Restful([q EXCEPT !.pc = "vouch"])
    BY <1>1, <1>5, <2>1, PcSet DEF Restful
  <2> QED
    BY <2>2 DEF q
<1>9. \A p \in Passing : Restful(Pass(p)) /\ Pass(p).pc = p
  <2> SUFFICES ASSUME NEW p \in Passing PROVE Restful(Pass(p)) /\ Pass(p).pc = p
    OBVIOUS
  <2>1. /\ Pass(p).pc = p /\ Pass(p).at = feed.losses /\ Pass(p).left = Member /\ Pass(p).seen = FALSE
        /\ Pass(p).taken = {} /\ Pass(p).serial = 0 /\ Pass(p).since = Blank
    BY <1>3 DEF Pass, Questions
  <2>2. Pass(p) \in Questions
    BY <1>1, <1>3 DEF Pass, Questions, Pc
  <2> QED
    BY <1>1, <2>1, <2>2 DEF Restful
<1>10. Restful(Idle)
  BY <1>4, <1>6
<1> QED
  BY <1>4, <1>6, <1>7, <1>8, <1>9, <1>10

LEMMA Still ==
  ASSUME IInv, NEW a \in Asker, NEW q \in Questions, ask' = [ask EXCEPT ![a] = q],
         ask[a].taken \subseteq q.taken, stream' = stream, feed'.seen = feed.seen, feed'.dirty = feed.dirty,
         NEW g \in Member
  PROVE  /\ Told(g) => Told(g)'
         /\ InHand(g) => InHand(g)'
         /\ \A n \in Nat : Ahead(g, n) => Ahead(g, n)'
<1>1. ask'[a] = q /\ \A c \in Asker : c # a => ask'[c] = ask[c]
  BY DEF IInv, Shapes
<1>2. \A c \in Asker : ask[c].taken \subseteq ask'[c].taken
  BY <1>1
<1> QED
  BY <1>2 DEF Told, InHand, Ahead

LEMMA Rests ==
  ASSUME IInv, NEW a \in Asker, NEW q, Restful(q), ask' = [ask EXCEPT ![a] = q],
         UNCHANGED <<disk, stream, feed, memo, stray>>, ask[a].taken = {},
         q.pc \in Working => lock' = a, lock' = lock \/ lock \in {Free, a}
  PROVE  IInv'
<1>1. /\ q \in Questions /\ q.seen = FALSE /\ q.taken = {} /\ q.serial = 0
      /\ q.at <= feed.losses /\ (\A f \in Member : q.since[f] <= disk[f])
      /\ q.pc \notin {"mint", "wait", "overlay"} /\ (q.pc \in Passing => q.left = Member)
  BY DEF Restful
<1>2. ask'[a] = q
  BY DEF IInv, Shapes
<1>3. Own(a)'
  <2>1. ~Asked(a)'
    BY <1>1, <1>2 DEF Asked
  <2>2. ask'[a].pc \in Passing => ask'[a].left = Member
    BY <1>1, <1>2
  <2> QED
    BY <2>1, <2>2, OwesNothing
<1>4. /\ feed' \in Feeds /\ feed'.losses = feed.losses /\ feed'.minted >= feed.minted
      /\ feed'.seen <= feed'.minted /\ (feed'.doubt # "none" => feed'.dirty = {})
      /\ stream' \in Seq(Events) /\ \A i \in 1 .. Len(stream') : ~Answers(stream'[i], feed'.minted + 1)
      /\ q.serial <= feed'.minted
  BY <1>1 DEF IInv, Shapes, Clocks, Feeds
<1>5. \A g \in Member : /\ Told(g) => Told(g)'
                        /\ InHand(g) => InHand(g)'
                        /\ \A n \in Nat : Ahead(g, n) => Ahead(g, n)'
  BY <1>1, Still
<1> QED
  BY <1>1, <1>3, <1>4, <1>5, Turn

RestStep(a) ==
    /\ UNCHANGED <<disk, stream, feed, memo, stray>> /\ ask[a].taken = {}
    /\ lock' = lock \/ lock \in {Free, a}
    /\ \E q : /\ Restful(q) /\ ask' = [ask EXCEPT ![a] = q]
              /\ q.pc \in Working => lock' = a

LEMMA RestStepKeeps ==
  ASSUME IInv, NEW a \in Asker, RestStep(a)
  PROVE  IInv'
<1>1. PICK q : Restful(q) /\ ask' = [ask EXCEPT ![a] = q] /\ (q.pc \in Working => lock' = a)
  BY DEF RestStep
<1>2. UNCHANGED <<disk, stream, feed, memo, stray>> /\ ask[a].taken = {} /\ (lock' = lock \/ lock \in {Free, a})
  BY DEF RestStep
<1> QED
  BY <1>1, <1>2, Rests

LEMMA RestsAt ==
  ASSUME IInv, NEW a \in Asker, NEW p \in {"idle", "ready", "vouch", "write"}, ask' = [ask EXCEPT ![a] = [Idle EXCEPT !.pc = p]]
  PROVE  \E q : Restful(q) /\ ask' = [ask EXCEPT ![a] = q] /\ (q.pc \in Working => lock' = a)
<1> DEFINE q == [Idle EXCEPT !.pc = p]
<1>1. Restful(q)
  BY IdleRestful
<1>2. q.pc = p
  BY DEF Idle
<1> QED
  BY <1>1, <1>2

LEMMA GoesIdle ==
  ASSUME IInv, NEW a \in Asker, ask' = [ask EXCEPT ![a] = Idle]
  PROVE  \E q : Restful(q) /\ ask' = [ask EXCEPT ![a] = q] /\ (q.pc \in Working => lock' = a)
  BY IdleRestful, RestsAt

LEMMA AnsweredNo ==
  ASSUME IInv, NEW a \in Asker, Answered(a, FALSE)
  PROVE  \E q : Restful(q) /\ ask' = [ask EXCEPT ![a] = q] /\ (q.pc \in Working => lock' = a)
<1>1. CASE a \in Detector
  BY <1>1, GoesIdle DEF Answered
<1>2. CASE a \notin Detector
  <2>1. [Idle EXCEPT !.pc = "ready", !.seen = FALSE, !.since = Blank] = [Idle EXCEPT !.pc = "ready"]
    <3>1. Idle \in Questions
      BY IdleRestful DEF Restful
    <3>2. Idle.seen = FALSE /\ Idle.since = Blank
      BY DEF Idle
    <3> QED
      BY <3>1, <3>2 DEF Questions
  <2> QED
    BY <1>2, <2>1, RestsAt DEF Answered
<1> QED
  BY <1>1, <1>2

LEMMA AppliedDry ==
  ASSUME IInv, NEW a \in Asker, Applied(a, [Idle EXCEPT !.collapse = TRUE])
  PROVE  \E q : Restful(q) /\ ask' = [ask EXCEPT ![a] = q] /\ (q.pc \in Working => lock' = a)
<1>1. CASE a \in Borrower
  BY <1>1, GoesIdle DEF Applied
<1>2. CASE a \notin Borrower
  <2> DEFINE q == [[Idle EXCEPT !.collapse = TRUE] EXCEPT !.pc = "vouch"]
  <2>1. Restful(q)
    BY IdleRestful
  <2>2. q.pc = "vouch"
    BY DEF Idle
  <2>3. ask' = [ask EXCEPT ![a] = q]
    BY <1>2 DEF Applied
  <2> QED
    BY <2>1, <2>2, <2>3
<1> QED
  BY <1>1, <1>2

LEMMA TakenEmpty ==
  ASSUME IInv, NEW a \in Asker, ask[a].pc \notin {"config", "apply"}
  PROVE  ask[a].taken = {}
  BY DEF IInv, Mutex

LEMMA HolderOf ==
  ASSUME IInv, NEW a \in Asker, ask[a].pc \in Working
  PROVE  lock = a
  BY DEF IInv, Mutex

LEMMA RestSteps ==
  ASSUME IInv, NEW a \in Asker
  PROVE  /\ Borrow(a) \/ Doubted(a) \/ LockTimesOut(a) => RestStep(a)
         /\ Vouch(a) => RestStep(a)
<1>1. CASE Borrow(a)
  BY <1>1, RestsAt, TakenEmpty DEF Borrow, RestStep
<1>2. CASE Doubted(a)
  BY <1>2, AnsweredNo, TakenEmpty DEF Doubted, RestStep
<1>3. CASE LockTimesOut(a)
  BY <1>3, GoesIdle, TakenEmpty DEF LockTimesOut, RestStep
<1>4. CASE Vouch(a)
  <2>1. UNCHANGED <<disk, stream, feed, memo, stray>> /\ ask[a].taken = {} /\ lock \in {Free, a}
    BY <1>4, TakenEmpty DEF Vouch
  <2>2. CASE Served(a)
    BY <2>1, <2>2, GoesIdle, RestsAt DEF Served, RestStep
  <2>3. CASE lock' = a /\ ask' = [ask EXCEPT ![a] = Pass("sweep")]
    <3>1. Restful(Pass("sweep"))
      BY IdleRestful
    <3> QED
      BY <2>1, <2>3, <3>1 DEF RestStep
  <2> QED
    BY <1>4, <2>2, <2>3 DEF Vouch
<1> QED
  BY <1>1, <1>2, <1>3, <1>4

LEMMA GrowsAtRest ==
  ASSUME IInv, NEW a \in Asker, UNCHANGED <<disk, stream, memo, stray>>,
         feed' \in Feeds, feed'.losses > feed.losses, feed'.minted = feed.minted, feed'.seen = feed.seen,
         feed'.doubt # "none" => feed'.dirty = {}, lock' = lock \/ lock \in {Free, a},
         \E q : Restful(q) /\ ask' = [ask EXCEPT ![a] = q] /\ (q.pc \in Working => lock' = a)
  PROVE  IInv'
<1>1. PICK q : Restful(q) /\ ask' = [ask EXCEPT ![a] = q] /\ (q.pc \in Working => lock' = a)
  OBVIOUS
<1>2. /\ disk' \in [Member -> Nat] /\ \A f \in Member : disk'[f] >= disk[f]
      /\ feed'.losses >= feed.losses /\ feed'.minted >= feed.minted
  BY DEF IInv, Shapes, Feeds
<1>3. /\ q \in Questions /\ q.taken = {} /\ q.at <= feed'.losses /\ q.serial <= feed'.minted
      /\ (\A f \in Member : q.since[f] <= disk'[f]) /\ q.pc # "overlay"
  <2>1. /\ q \in Questions /\ q.taken = {} /\ q.at <= feed.losses /\ q.serial = 0
        /\ (\A f \in Member : q.since[f] <= disk[f]) /\ q.pc # "overlay"
    BY <1>1 DEF Restful
  <2>2. q.at \in Nat /\ feed.losses \in Nat /\ feed'.losses \in Nat /\ feed'.minted \in Nat
    BY <2>1 DEF Questions, IInv, Shapes, Feeds
  <2> QED
    BY <2>1, <2>2
<1>4. /\ ask' \in [Asker -> Questions] /\ \A c \in Asker : Dated(c)'
      /\ Mutex'
  BY <1>1, <1>2, <1>3, Moves
<1>5. Shapes'
  BY <1>4 DEF IInv, Shapes
<1>6. feed'.losses > memo'.acked
  BY DEF IInv, Clocks, Shapes, Memos, Feeds
<1>7. ASSUME NEW b \in Asker PROVE feed'.losses > ask'[b].at
  <2>1. /\ ask[b].at \in Nat /\ ask[b].at <= feed.losses /\ feed.losses \in Nat /\ feed'.losses \in Nat
        /\ q.at \in Nat /\ q.at <= feed.losses
    BY <1>1 DEF Restful, IInv, Clocks, Dated, Shapes, Questions, Feeds
  <2>2. ask'[b].at \in {ask[b].at, q.at}
    BY <1>1 DEF IInv, Shapes
  <2> QED
    BY <2>1, <2>2
<1>8. Clocks'
  BY <1>4, <1>6, <1>5 DEF IInv, Clocks, Shapes, Feeds, Memos
<1>9. Owed'
  BY <1>6, <1>7, Grown
<1> QED
  BY <1>4, <1>5, <1>8, <1>9 DEF IInv

LEMMA AskKeeps ==
  ASSUME IInv, NEW a \in Asker, Ask(a)
  PROVE  IInv'
<1>0. ask[a].pc = "idle" /\ UNCHANGED <<disk, stream, memo, lock, stray>> /\ ask[a].taken = {}
  BY TakenEmpty DEF Ask
<1>1. CASE feed.doubt # "none" \/ feed.holdoff
  <2>1. \E q : Restful(q) /\ ask' = [ask EXCEPT ![a] = q] /\ (q.pc \in Working => lock' = a)
    <3>1. CASE a \in Detector
      BY <1>1, <3>1, GoesIdle DEF Ask
    <3>2. CASE a \notin Detector
      <4> DEFINE q == [Idle EXCEPT !.pc = "ready", !.since = disk]
      <4>1. ask' = [ask EXCEPT ![a] = q]
        BY <1>1, <3>2 DEF Ask
      <4>2. Restful(q)
        BY IdleRestful
      <4>3. q.pc = "ready"
        BY DEF Idle
      <4> QED
        BY <4>1, <4>2, <4>3
    <3> QED
      BY <3>1, <3>2
  <2>2. feed' = feed
    BY <1>1 DEF Ask
  <2>3. RestStep(a)
    BY <1>0, <2>1, <2>2 DEF RestStep
  <2> QED
    BY <2>3, RestStepKeeps
<1>2. CASE ~(feed.doubt # "none" \/ feed.holdoff)
  <2>0. PICK n \in Nat : n = feed.minted + 1
    BY DEF IInv, Shapes, Feeds
  <2> DEFINE q == [Idle EXCEPT !.pc = "mint", !.since = disk, !.serial = n]
  <2>1. feed' = [feed EXCEPT !.minted = n] /\ ask' = [ask EXCEPT ![a] = q]
    BY <1>2, <2>0 DEF Ask
  <2>2. /\ feed \in Feeds /\ n \in Nat /\ disk \in [Member -> Nat] /\ feed.seen <= feed.minted
        /\ feed.minted \in Nat /\ feed.seen \in Nat /\ feed.losses \in Nat
        /\ stream \in Seq(Events) /\ \A i \in 1 .. Len(stream) : ~Answers(stream[i], n)
    BY <2>0 DEF IInv, Shapes, Clocks, Feeds
  <2>3. /\ feed' \in Feeds /\ feed'.losses = feed.losses /\ feed'.minted = n /\ feed'.seen = feed.seen
        /\ feed'.dirty = feed.dirty /\ feed'.doubt = feed.doubt
    BY <2>1, <2>2 DEF Feeds
  <2>4. /\ q \in Questions /\ q.pc = "mint" /\ q.since = disk /\ q.serial = n /\ q.taken = {} /\ q.at = 0
    <3>1. Idle \in Questions /\ "mint" \in Pc
      BY IdleRestful DEF Restful, Pc
    <3>2. Idle.taken = {} /\ Idle.at = 0
      BY DEF Idle
    <3> QED
      BY <2>2, <3>1, <3>2 DEF Questions
  <2> HIDE DEF q
  <2>5. ask'[a] = q /\ \A c \in Asker : c # a => ask'[c] = ask[c]
    BY <2>1 DEF IInv, Shapes
  <2>6. \A i \in 1 .. Len(stream') : ~Answers(stream'[i], feed'.minted + 1)
    <3> SUFFICES ASSUME NEW i \in 1 .. Len(stream) PROVE ~Answers(stream[i], n + 1)
      BY <1>0, <2>3
    <3>1. stream[i] \in Events /\ ~Answers(stream[i], n) /\ n + 1 \in Nat
      BY <2>2
    <3>2. ASSUME NEW m \in Nat, stream[i] = Sentinel(m) PROVE ~Answers(stream[i], n + 1)
      <4>1. ~(m >= n)
        BY <2>2, <3>1, <3>2, EventKinds
      <4>2. ~(m >= n + 1)
        BY <2>2, <4>1
      <4> QED
        BY <3>1, <3>2, <4>2, EventKinds
    <3> QED
      BY <3>1, <3>2, EventKinds
  <2>7. ASSUME NEW g \in Member
        PROVE  /\ Told(g) => Told(g)'
               /\ InHand(g) => InHand(g)'
               /\ \A m \in Nat : Ahead(g, m) => Ahead(g, m)'
    BY <1>0, <2>1, <2>3, <2>4, Still
  <2>8. ASSUME NEW g \in Member, InHand(g) \/ Told(g) PROVE Owes(a, g)'
    <3>1. Told(g) => Ahead(g, n)'
      <4>1. Told(g) => \E i \in 1 .. Len(stream) : Tells(stream[i], g) /\ \A j \in 1 .. i - 1 : ~Answers(stream[j], n)
        <5>1. \A i \in 1 .. Len(stream) : \A j \in 1 .. i - 1 : j \in 1 .. Len(stream)
          <6>1. Len(stream) \in Nat
            BY <2>2
          <6> QED
            BY <6>1
        <5> QED
          BY <2>2, <5>1 DEF Told
      <4>2. feed'.seen < n
        BY <2>0, <2>2, <2>3
      <4> QED
        BY <1>0, <4>1, <4>2 DEF Ahead
    <3>2. InHand(g)' \/ Ahead(g, n)'
      BY <2>7, <2>8, <3>1
    <3>3. ask'[a].pc = "mint" /\ ask'[a].serial = n
      BY <2>4, <2>5
    <3> QED
      BY <3>2, <3>3 DEF Owes, Asked, Ahead
  <2>9. Own(a)'
    <3>1. PassOwed(a)' /\ \A c \in Asker : FreshPass(c, a)'
      BY <2>4, <2>5 DEF PassOwed, FreshPass
    <3>2. Fresh(a)'
      <4> SUFFICES ASSUME memo.base, NEW f \in Member \ stray, memo.fold[f] < disk[f]
                   PROVE  Owes(a, f)' \/ Unabsorbed'
        BY <1>0, <2>4, <2>5 DEF Fresh
      <4>1. InHand(f) \/ Told(f) \/ Unabsorbed
        BY DEF IInv, Owed, FoldOwed
      <4> QED
        BY <1>0, <2>3, <2>8, <4>1 DEF Unabsorbed
    <3>3. ASSUME NEW c \in Asker PROVE FreshPass(a, c)'
      <4>1. CASE c = a
        BY <3>1, <4>1
      <4>2. CASE c # a
        <5> SUFFICES ASSUME ask[c].pc \in Passing, NEW f \in Member \ (stray \cup ask[c].left), ask[c].read[f] < disk[f]
                     PROVE  Owes(a, f)' \/ feed'.losses > ask[c].at
          BY <1>0, <2>4, <2>5, <4>2 DEF FreshPass
        <5>1. f \in feed.dirty \/ Told(f) \/ feed.losses > ask[c].at
          BY DEF IInv, Owed, PassOwed
        <5>2. f \in feed.dirty => InHand(f)
          BY DEF InHand
        <5> QED
          BY <2>3, <2>8, <5>1, <5>2
      <4> QED
        BY <4>1, <4>2
    <3> QED
      BY <3>1, <3>2, <3>3 DEF Own
  <2>10. /\ feed'.minted >= feed.minted /\ feed'.seen <= feed'.minted /\ (feed'.doubt # "none" => feed'.dirty = {})
         /\ q.at <= feed.losses /\ q.serial <= feed'.minted /\ \A f \in Member : q.since[f] <= disk[f]
         /\ stream' \in Seq(Events)
    BY <1>0, <1>2, <2>0, <2>2, <2>3, <2>4
  <2> QED
    BY <1>0, <2>1, <2>3, <2>4, <2>6, <2>7, <2>9, <2>10, Turn
<1> QED
  BY <1>1, <1>2

LEMMA WriteSentinelKeeps ==
  ASSUME IInv, NEW a \in Asker, WriteSentinel(a)
  PROVE  IInv'
<1>0. ask[a].pc = "mint" /\ UNCHANGED <<disk, feed, memo, lock, stray>> /\ ask[a].taken = {}
  BY TakenEmpty DEF WriteSentinel
<1>1. CASE Answered(a, FALSE) /\ stream' = stream
  <2>1. RestStep(a)
    BY <1>0, <1>1, AnsweredNo DEF RestStep
  <2> QED
    BY <2>1, RestStepKeeps
<1>2. CASE stream' = Raise(Sentinel(ask[a].serial)) /\ Goto(a, "wait")
  <2> DEFINE q == [ask[a] EXCEPT !.pc = "wait"]
  <2>1. ask' = [ask EXCEPT ![a] = q]
    BY <1>2 DEF Goto, IInv, Shapes
  <2>2. /\ ask[a] \in Questions /\ feed \in Feeds /\ stream \in Seq(Events) /\ Dated(a)
        /\ feed.seen <= feed.minted /\ (feed.doubt # "none" => feed.dirty = {})
        /\ \A i \in 1 .. Len(stream) : ~Answers(stream[i], feed.minted + 1)
    BY DEF IInv, Shapes, Clocks
  <2>3. "wait" \in Pc
    BY DEF Pc
  <2>4. /\ q \in Questions /\ q.pc = "wait" /\ q.taken = {} /\ q.at = ask[a].at /\ q.serial = ask[a].serial
        /\ q.since = ask[a].since
    BY <1>0, <2>2, <2>3, PcSet
  <2> HIDE DEF q
  <2>5. ask'[a] = q
    BY <2>1 DEF IInv, Shapes
  <2>6. /\ Sentinel(ask[a].serial) \in Events /\ ask[a].serial \in Nat /\ feed.minted \in Nat
        /\ ask[a].serial <= feed.minted /\ feed.minted + 1 \in Nat
    BY <2>2, EventKinds, SMTT(30) DEF Questions, Dated, Feeds
  <2>7. stream' \in Seq(Events) /\ \A i \in 1 .. Len(stream') : ~Answers(stream'[i], feed'.minted + 1)
    <3>1. stream' \in Seq(Events) /\ Len(stream') \in Nat /\ Len(stream) \in Nat
      BY <1>2, <2>2, <2>6, Raised
    <3> SUFFICES ASSUME NEW i \in 1 .. Len(stream') PROVE ~Answers(stream'[i], feed.minted + 1)
      BY <1>0, <3>1
    <3>2. CASE i \in 1 .. Len(stream)
      BY <1>2, <2>2, <2>6, <3>2, Raised
    <3>3. CASE i > Len(stream)
      <4>1. stream'[i] \in {Sentinel(ask[a].serial), Overflow}
        BY <1>2, <2>2, <2>6, <3>3, Raised
      <4>2. ~(ask[a].serial >= feed.minted + 1)
        BY <2>6
      <4> QED
        BY <2>6, <4>1, <4>2, EventKinds
    <3> QED
      BY <3>1, <3>2, <3>3
  <2>8. ASSUME NEW g \in Member
        PROVE  /\ Told(g) => Told(g)'
               /\ InHand(g) => InHand(g)'
               /\ \A m \in Nat : Ahead(g, m) => Ahead(g, m)'
    <3>1. /\ Told(g) => Told(g)'
          /\ \A m \in Nat : Ahead(g, m) => Ahead(g, m)'
      BY <1>0, <1>2, <2>2, <2>6, RaiseKeeps
    <3>2. \A c \in Asker : ask[c].taken \subseteq ask'[c].taken
      BY <1>0, <2>1 DEF IInv, Shapes
    <3> QED
      BY <1>0, <3>1, <3>2 DEF InHand
  <2>9. CarriesAsk(a, {}) /\ CarriesPass(a)
    <3>1. ASSUME NEW g \in Spared({}), Owes(a, g) PROVE Owes(a, g)'
      <4>1. g \in Member
        BY DEF Spared
      <4>2. InHand(g) \/ Ahead(g, ask[a].serial)
        BY <1>0, <3>1 DEF Owes
      <4>3. InHand(g)' \/ (feed'.seen < ask[a].serial /\ \E i \in 1 .. Len(stream') :
                   Tells(stream'[i], g) /\ \A j \in 1 .. i - 1 : ~Answers(stream'[j], ask[a].serial))
        BY <2>6, <2>8, <4>1, <4>2 DEF Ahead
      <4> QED
        BY <2>4, <2>5, <4>3 DEF Owes, Asked, Ahead
    <3> QED
      BY <1>0, <2>4, <2>5, <3>1 DEF CarriesAsk, CarriesPass, Asked
  <2>10. /\ feed' \in Feeds /\ feed'.losses = feed.losses /\ feed'.minted >= feed.minted
         /\ feed'.seen <= feed'.minted /\ (feed'.doubt # "none" => feed'.dirty = {})
         /\ q.at <= feed.losses /\ q.serial <= feed'.minted /\ (\A f \in Member : q.since[f] <= disk[f])
         /\ q.pc \notin Working /\ q.pc # "overlay" /\ feed'.dirty = feed.dirty
    BY <1>0, <2>2, <2>4, <2>6 DEF Dated
  <2> QED
    BY <1>0, <2>1, <2>4, <2>7, <2>8, <2>9, <2>10, Turn
<1> QED
  BY <1>1, <1>2 DEF WriteSentinel

LEMMA SightedKeeps ==
  ASSUME IInv, NEW a \in Asker, Sighted(a)
  PROVE  IInv'
<1> DEFINE q == [Idle EXCEPT !.pc = "ready", !.seen = TRUE, !.since = ask[a].since]
<1>1. /\ ask[a].pc = "wait" /\ feed.seen >= ask[a].serial /\ feed' = [feed EXCEPT !.holdoff = FALSE]
      /\ ask' = [ask EXCEPT ![a] = q] /\ UNCHANGED <<disk, stream, memo, lock, stray>> /\ ask[a].taken = {}
  BY TakenEmpty DEF Sighted, Answered
<1>2. /\ ask[a] \in Questions /\ feed \in Feeds /\ Dated(a) /\ stream \in Seq(Events)
      /\ feed.seen <= feed.minted /\ (feed.doubt # "none" => feed.dirty = {})
      /\ \A i \in 1 .. Len(stream) : ~Answers(stream[i], feed.minted + 1)
  BY DEF IInv, Shapes, Clocks
<1>3. /\ q \in Questions /\ q.pc = "ready" /\ q.since = ask[a].since /\ q.serial = 0 /\ q.taken = {} /\ q.at = 0
  <2>1. Idle \in Questions /\ "ready" \in Pc /\ ask[a].since \in [Member -> Nat]
    BY <1>2, IdleRestful DEF Restful, Pc, Questions
  <2>2. Idle.taken = {} /\ Idle.at = 0 /\ Idle.serial = 0
    BY DEF Idle
  <2> QED
    BY <2>1, <2>2 DEF Questions
<1> HIDE DEF q
<1>4. ask'[a] = q
  BY <1>1 DEF IInv, Shapes
<1>5. /\ feed' \in Feeds /\ feed'.losses = feed.losses /\ feed'.minted = feed.minted /\ feed'.seen = feed.seen
      /\ feed'.dirty = feed.dirty /\ feed'.doubt = feed.doubt
  BY <1>1, <1>2 DEF Feeds
<1>6. ASSUME NEW g \in Member
      PROVE  /\ Told(g) => Told(g)'
             /\ InHand(g) => InHand(g)'
             /\ \A m \in Nat : Ahead(g, m) => Ahead(g, m)'
  BY <1>1, <1>3, <1>5, Still
<1>7. CarriesAsk(a, {}) /\ CarriesPass(a)
  <2>1. ASSUME NEW g \in Spared({}), Owes(a, g) PROVE Owes(a, g)'
    <3>1. InHand(g) \/ Ahead(g, ask[a].serial)
      BY <1>1, <2>1 DEF Owes
    <3>2. ~Ahead(g, ask[a].serial)
      <4>1. ~(feed.seen < ask[a].serial)
        BY <1>1, <1>2 DEF Feeds, Questions
      <4> QED
        BY <4>1 DEF Ahead
    <3>3. InHand(g)'
      BY <1>6, <3>1, <3>2 DEF Spared
    <3> QED
      BY <1>3, <1>4, <3>3 DEF Owes
  <2> QED
    BY <1>1, <1>3, <1>4, <2>1 DEF CarriesAsk, CarriesPass, Asked
<1>8. /\ feed'.minted >= feed.minted /\ feed'.seen <= feed'.minted /\ (feed'.doubt # "none" => feed'.dirty = {})
      /\ q.at <= feed.losses /\ q.serial <= feed'.minted /\ (\A f \in Member : q.since[f] <= disk[f])
      /\ \A i \in 1 .. Len(stream') : ~Answers(stream'[i], feed'.minted + 1)
  BY <1>1, <1>2, <1>3, <1>5 DEF Feeds, Dated
<1> QED
  BY <1>1, <1>2, <1>3, <1>5, <1>6, <1>7, <1>8, Turn

LEMMA TimesOutKeeps ==
  ASSUME IInv, NEW a \in Asker, TimesOut(a)
  PROVE  IInv'
<1>0. /\ ask[a].pc = "wait" /\ UNCHANGED <<disk, stream, memo, lock, stray>> /\ ask[a].taken = {}
      /\ \E q : Restful(q) /\ ask' = [ask EXCEPT ![a] = q] /\ (q.pc \in Working => lock' = a)
  BY TakenEmpty, AnsweredNo DEF TimesOut
<1>1. CASE a \in Detector
  <2>1. feed' = feed
    BY <1>1 DEF TimesOut
  <2>2. RestStep(a)
    BY <1>0, <2>1 DEF RestStep
  <2> QED
    BY <2>2, RestStepKeeps
<1>2. CASE a \notin Detector
  <2> DEFINE s == Collapse(feed, "sweep")
  <2>1. feed' = [s EXCEPT !.holdoff = TRUE]
    BY <1>2 DEF TimesOut
  <2>2. s \in Feeds /\ s.losses > feed.losses /\ s.dirty = {} /\ s.minted = feed.minted /\ s.seen = feed.seen
    BY Collapsed DEF IInv, Shapes
  <2> HIDE DEF s
  <2>3. /\ feed' \in Feeds /\ feed'.losses > feed.losses /\ feed'.dirty = {}
        /\ feed'.minted = feed.minted /\ feed'.seen = feed.seen
    BY <2>1, <2>2 DEF Feeds
  <2> QED
    BY <1>0, <2>3, GrowsAtRest
<1> QED
  BY <1>1, <1>2

LEMMA TakeKeeps ==
  ASSUME IInv, NEW a \in Asker, Take(a)
  PROVE  IInv'
<1>1. /\ ask[a].pc = "ready" /\ lock = Free /\ feed' = Taken /\ UNCHANGED <<disk, stream, memo, stray>>
      /\ ask[a].taken = {}
  BY TakenEmpty DEF Take
<1>2. /\ ask[a] \in Questions /\ feed \in Feeds /\ Dated(a) /\ stream \in Seq(Events) /\ ask \in [Asker -> Questions]
      /\ feed.seen <= feed.minted /\ (feed.doubt # "none" => feed.dirty = {})
      /\ \A i \in 1 .. Len(stream) : ~Answers(stream[i], feed.minted + 1)
  BY DEF IInv, Shapes, Clocks
<1>3. /\ feed' \in Feeds /\ feed'.losses = feed.losses /\ feed'.minted = feed.minted /\ feed'.seen = feed.seen
      /\ feed'.dirty = {} /\ feed'.doubt = "none"
  BY <1>1, <1>2 DEF Taken, Feeds, Rung
<1>4. /\ \A c \in Asker : ask[c].pc \notin Passing /\ ask[c].taken = {}
      /\ \A g \in Member : InHand(g) <=> g \in feed.dirty
  <2>1. \A c \in Asker : c # a => ask[c].pc \notin Working /\ ask[c].taken = {}
    BY <1>1, Alone DEF IInv
  <2> QED
    BY <1>1, <2>1 DEF InHand
<1>5. /\ feed'.minted >= feed.minted /\ feed'.seen <= feed'.minted /\ (feed'.doubt # "none" => feed'.dirty = {})
      /\ stream' \in Seq(Events) /\ \A i \in 1 .. Len(stream') : ~Answers(stream'[i], feed'.minted + 1)
      /\ \A c \in Asker : c # a /\ ask[c].pc \in Passing => feed.dirty \subseteq feed'.dirty
      /\ lock' = lock \/ lock \in {Free, a}
  BY <1>1, <1>2, <1>3, <1>4 DEF Feeds
<1>6. \A g \in Member : (Told(g) => Told(g)') /\ \A n \in Nat : Ahead(g, n) => Ahead(g, n)'
  BY <1>1, <1>3 DEF Told, Ahead
<1>7. ASSUME feed.dirty = {}, NEW q, Restful(q), ask' = [ask EXCEPT ![a] = q], q.pc \in Working => lock' = a
      PROVE  IInv'
  <2>1. /\ q \in Questions /\ q.seen = FALSE /\ q.taken = {} /\ q.serial = 0
        /\ q.at <= feed.losses /\ (\A f \in Member : q.since[f] <= disk[f])
        /\ q.pc \notin {"mint", "wait", "overlay"} /\ (q.pc \in Passing => q.left = Member)
    BY <1>7 DEF Restful
  <2>2. ask'[a] = q
    BY <1>2, <1>7
  <2>3. Own(a)'
    <3>1. ~Asked(a)'
      BY <2>1, <2>2 DEF Asked
    <3>2. ask'[a].pc \in Passing => ask'[a].left = Member
      BY <2>1, <2>2
    <3> QED
      BY <3>1, <3>2, OwesNothing
  <2>4. \A g \in Member : InHand(g) => InHand(g)'
    BY <1>4, <1>7
  <2>5. q.serial <= feed'.minted
    BY <1>3, <2>1 DEF Feeds
  <2> QED
    BY <1>1, <1>3, <1>5, <1>6, <1>7, <2>1, <2>3, <2>4, <2>5, Turn
<1>8. CASE feed.doubt = "sweep"
  <2>1. Applied(a, [Idle EXCEPT !.collapse = TRUE]) /\ feed.dirty = {}
    BY <1>2, <1>8 DEF Take
  <2>2. \E q : Restful(q) /\ ask' = [ask EXCEPT ![a] = q] /\ (q.pc \in Working => lock' = a)
    BY <2>1, AppliedDry
  <2> QED
    BY <1>7, <2>1, <2>2
<1>9. CASE feed.doubt = "rebase"
  <2>1. lock' = a /\ ask' = [ask EXCEPT ![a] = Pass("rebase")] /\ feed.dirty = {}
    BY <1>2, <1>9 DEF Take
  <2>2. Restful(Pass("rebase"))
    BY IdleRestful
  <2> QED
    BY <1>7, <2>1, <2>2
<1>10. CASE feed.doubt = "none" /\ feed.dirty = {}
  <2>1. Applied(a, ask[a])
    BY <1>10 DEF Take
  <2>2. CASE a \in Borrower
    <3>1. \E q : Restful(q) /\ ask' = [ask EXCEPT ![a] = q] /\ (q.pc \in Working => lock' = a)
      BY <2>1, <2>2, GoesIdle DEF Applied
    <3> QED
      BY <1>7, <1>10, <3>1
  <2>3. CASE a \notin Borrower
    <3> DEFINE q == [ask[a] EXCEPT !.pc = "vouch"]
    <3>1. ask' = [ask EXCEPT ![a] = q]
      BY <2>1, <2>3 DEF Applied
    <3>2. "vouch" \in Pc
      BY DEF Pc
    <3>3. /\ q \in Questions /\ q.pc = "vouch" /\ q.taken = {} /\ q.at = ask[a].at /\ q.serial = ask[a].serial
          /\ q.since = ask[a].since /\ q.seen = ask[a].seen
      BY <1>1, <1>2, <3>2, PcSet
    <3> HIDE DEF q
    <3>4. ask'[a] = q
      BY <1>2, <3>1
    <3>5. CarriesAsk(a, {}) /\ CarriesPass(a)
      <4>1. \A g \in Member : ~Owes(a, g)
        BY <1>1, <1>4, <1>10 DEF Owes
      <4>2. \A g \in Spared({}) : Owes(a, g) => Owes(a, g)'
        BY <4>1 DEF Spared
      <4> QED
        BY <1>1, <3>3, <3>4, <4>2 DEF CarriesAsk, CarriesPass, Asked
    <3>6. \A g \in Member : InHand(g) => InHand(g)'
      BY <1>4, <1>10
    <3>7. q.at <= feed.losses /\ q.serial <= feed'.minted /\ (\A f \in Member : q.since[f] <= disk[f])
      BY <1>2, <1>3, <3>3 DEF Dated
    <3> QED
      BY <1>1, <1>3, <1>5, <1>6, <3>1, <3>3, <3>5, <3>6, <3>7, Turn
  <2> QED
    BY <2>2, <2>3
<1>11. CASE feed.doubt = "none" /\ feed.dirty # {}
  <2> DEFINE p == IF Config \in feed.dirty THEN "config" ELSE "apply"
             q == [ask[a] EXCEPT !.taken = feed.dirty, !.pc = p]
  <2>1. lock' = a /\ ask' = [ask EXCEPT ![a] = q]
    BY <1>2, <1>11 DEF Take
  <2>2. p \in {"config", "apply"} /\ p \in Pc
    BY DEF Pc
  <2> HIDE DEF p
  <2>3. /\ q \in Questions /\ q.pc = p /\ q.taken = feed.dirty /\ q.at = ask[a].at /\ q.serial = ask[a].serial
        /\ q.since = ask[a].since /\ q.seen = ask[a].seen
    BY <1>2, <2>2 DEF Questions, Feeds
  <2> HIDE DEF q
  <2>4. ask'[a] = q
    BY <1>2, <2>1
  <2>5. \A g \in Member : g \in feed.dirty => g \in ask'[a].taken /\ InHand(g)'
    BY <2>3, <2>4 DEF InHand
  <2>6. CarriesAsk(a, {}) /\ CarriesPass(a)
    <3>1. ASSUME NEW g \in Spared({}), Owes(a, g) PROVE Owes(a, g)'
      <4>1. g \in feed.dirty
        BY <1>1, <1>4, <3>1 DEF Owes, Spared
      <4> QED
        BY <2>2, <2>3, <2>4, <4>1 DEF Owes
    <3> QED
      BY <1>1, <2>2, <2>3, <2>4, <3>1 DEF CarriesAsk, CarriesPass, Asked
  <2>7. q.at <= feed.losses /\ q.serial <= feed'.minted /\ (\A f \in Member : q.since[f] <= disk[f])
    BY <1>2, <1>3, <2>3 DEF Dated
  <2>8. \A g \in Member : InHand(g) => InHand(g)'
    BY <1>4, <2>5
  <2> QED
    BY <1>1, <1>3, <1>5, <1>6, <2>1, <2>2, <2>3, <2>6, <2>7, <2>8, Turn
<1> QED
  BY <1>2, <1>8, <1>9, <1>10, <1>11 DEF Feeds, Rung

LEMMA JudgeConfigKeeps ==
  ASSUME IInv, NEW a \in Asker, JudgeConfig(a)
  PROVE  IInv'
<1>1. /\ ask[a].pc = "config" /\ UNCHANGED <<disk, stream, memo, stray>> /\ lock = a
  BY HolderOf DEF JudgeConfig
<1>2. /\ ask[a] \in Questions /\ feed \in Feeds /\ Dated(a) /\ stream \in Seq(Events)
      /\ feed.seen <= feed.minted /\ (feed.doubt # "none" => feed.dirty = {})
      /\ \A i \in 1 .. Len(stream) : ~Answers(stream[i], feed.minted + 1)
  BY DEF IInv, Shapes, Clocks
<1>3. CASE Goto(a, "apply") /\ UNCHANGED <<feed, lock>>
  <2> DEFINE q == [ask[a] EXCEPT !.pc = "apply"]
  <2>1. ask' = [ask EXCEPT ![a] = q]
    BY <1>3 DEF Goto, IInv, Shapes
  <2>2. "apply" \in Pc
    BY DEF Pc
  <2>3. /\ q \in Questions /\ q.pc = "apply" /\ q.taken = ask[a].taken /\ q.at = ask[a].at
        /\ q.serial = ask[a].serial /\ q.since = ask[a].since /\ q.seen = ask[a].seen
    BY <1>2, <2>2, PcSet
  <2> HIDE DEF q
  <2>4. ask'[a] = q
    BY <2>1 DEF IInv, Shapes
  <2>5. \A g \in Member : /\ Told(g) => Told(g)'
                          /\ InHand(g) => InHand(g)'
                          /\ \A m \in Nat : Ahead(g, m) => Ahead(g, m)'
    BY <1>1, <1>3, <2>1, <2>3, Still
  <2>6. CarriesAsk(a, {}) /\ CarriesPass(a)
    <3>1. ASSUME NEW g \in Spared({}), Owes(a, g) PROVE Owes(a, g)'
      BY <1>1, <2>3, <2>4, <3>1 DEF Owes
    <3> QED
      BY <1>1, <2>3, <2>4, <3>1 DEF CarriesAsk, CarriesPass, Asked
  <2>7. /\ q.at <= feed.losses /\ q.serial <= feed'.minted /\ (\A f \in Member : q.since[f] <= disk[f])
        /\ feed'.minted >= feed.minted
    BY <1>2, <1>3, <2>3 DEF Dated, Feeds
  <2> QED
    BY <1>1, <1>2, <1>3, <2>1, <2>3, <2>5, <2>6, <2>7, Turn
<1>4. CASE feed' = Foreign(feed) /\ Applied(a, [Idle EXCEPT !.collapse = TRUE])
  <2>1. /\ feed' \in Feeds /\ feed'.losses > feed.losses /\ feed'.minted = feed.minted /\ feed'.seen = feed.seen
        /\ feed'.dirty = feed.dirty /\ feed'.doubt = feed.doubt
    BY <1>2, <1>4, SMTT(30) DEF Foreign, Feeds
  <2>2. \E q : Restful(q) /\ ask' = [ask EXCEPT ![a] = q] /\ (q.pc \in Working => lock' = a)
    BY <1>4, AppliedDry
  <2> QED
    BY <1>1, <1>2, <2>1, <2>2, GrowsAtRest
<1> QED
  BY <1>3, <1>4 DEF JudgeConfig

LEMMA ReadOneKeeps ==
  ASSUME IInv, NEW a \in Asker, NEW f \in Member, ReadOne(a, f)
  PROVE  IInv'
<1> DEFINE q == [ask[a] EXCEPT !.read[f] = disk[f], !.left = @ \ {f}]
<1>1. /\ ask[a].pc \in Passing /\ f \in ask[a].left /\ lock = a /\ ask[a].taken = {}
      /\ UNCHANGED <<disk, stream, feed, memo, lock, stray>>
  BY HolderOf, TakenEmpty DEF ReadOne
<1>2. /\ ask[a] \in Questions /\ feed \in Feeds /\ Dated(a) /\ stream \in Seq(Events) /\ disk \in [Member -> Nat]
      /\ feed.seen <= feed.minted /\ (feed.doubt # "none" => feed.dirty = {})
      /\ \A i \in 1 .. Len(stream) : ~Answers(stream[i], feed.minted + 1)
  BY DEF IInv, Shapes, Clocks
<1>3. ask' = [ask EXCEPT ![a] = q]
  BY DEF ReadOne, IInv, Shapes
<1>4. /\ q \in Questions /\ q.pc = ask[a].pc /\ q.taken = {} /\ q.at = ask[a].at /\ q.serial = ask[a].serial
      /\ q.since = ask[a].since /\ q.left = ask[a].left \ {f} /\ q.read[f] = disk[f]
      /\ \A g \in Member : g # f => q.read[g] = ask[a].read[g]
  BY <1>1, <1>2 DEF Questions
<1> HIDE DEF q
<1>5. ask'[a] = q /\ \A c \in Asker : c # a => ask'[c] = ask[c]
  BY <1>3 DEF IInv, Shapes
<1>6. \A g \in Member : /\ Told(g) => Told(g)'
                        /\ InHand(g) => InHand(g)'
                        /\ \A m \in Nat : Ahead(g, m) => Ahead(g, m)'
  BY <1>1, <1>3, <1>4, Still
<1>7. \A c \in Asker : ~Asked(a)' /\ (FreshPass(a, c)' /\ Fresh(a)')
  BY <1>1, <1>4, <1>5 DEF Asked, FreshPass, Fresh
<1>8. PassOwed(a)'
  <2> SUFFICES ASSUME NEW g \in Member \ (stray \cup q.left), q.read[g] < disk[g]
               PROVE  g \in feed'.dirty \/ Told(g)' \/ feed'.losses > q.at
    BY <1>1, <1>5 DEF PassOwed
  <2>1. g # f
    BY <1>2, <1>4
  <2>2. g \in feed.dirty \/ Told(g) \/ feed.losses > ask[a].at
    BY <1>1, <1>4, <2>1 DEF IInv, Owed, PassOwed
  <2> QED
    BY <1>1, <1>4, <1>6, <2>2
<1>9. ASSUME NEW c \in Asker PROVE FreshPass(c, a)'
  <2>1. CASE c = a
    BY <1>7, <2>1
  <2>2. CASE c # a
    <3> SUFFICES ASSUME Asked(c), NEW g \in Member \ (stray \cup q.left), q.read[g] < ask[c].since[g]
                 PROVE  Owes(c, g)' \/ feed'.losses > q.at
      BY <1>1, <1>5, <2>2 DEF FreshPass, Asked
    <3>1. g # f
      <4>1. ask[c].since[f] <= disk[f] /\ ask[c].since[f] \in Nat
        BY DEF IInv, Clocks, Dated, Shapes, Questions
      <4> QED
        BY <1>2, <1>4, <4>1
    <3>2. Owes(c, g) \/ feed.losses > ask[a].at
      BY <1>1, <1>4, <3>1 DEF IInv, Owed, FreshPass
    <3>3. Owes(c, g) => Owes(c, g)'
      <4>1. Ahead(g, ask[c].serial) => Ahead(g, ask[c].serial)'
        BY <1>1, <1>5, <2>2 DEF Ahead
      <4> QED
        BY <1>5, <1>6, <2>2, <4>1, OwesKept
    <3> QED
      BY <1>1, <1>4, <3>2, <3>3
  <2> QED
    BY <2>1, <2>2
<1>10. Own(a)'
  BY <1>7, <1>8, <1>9 DEF Own
<1>11. /\ feed'.minted >= feed.minted
       /\ q.at <= feed.losses /\ q.serial <= feed'.minted /\ (\A g \in Member : q.since[g] <= disk[g])
  BY <1>1, <1>2, <1>4 DEF Feeds, Dated
<1> QED
  BY <1>1, <1>2, <1>3, <1>4, <1>6, <1>10, <1>11, Turn

LEMMA ApplyOneKeeps ==
  ASSUME IInv, NEW a \in Asker, NEW f \in Member, ApplyOne(a, f)
  PROVE  IInv'
<1>1. /\ ask[a].pc = "apply" /\ f \in ask[a].taken /\ lock = a /\ UNCHANGED <<disk, stream, feed>>
  BY HolderOf DEF ApplyOne
<1>2. /\ ask[a] \in Questions /\ ask \in [Asker -> Questions] /\ feed \in Feeds /\ memo \in Memos /\ Dated(a)
      /\ stream \in Seq(Events) /\ disk \in [Member -> Nat] /\ stray \subseteq Member \cup {Law}
      /\ memo.acked <= feed.losses
  BY DEF IInv, Shapes, Clocks
<1>3. \A c \in Asker : c # a => ask[c].pc \notin Passing /\ ask[c].taken = {}
  BY <1>1, Alone DEF IInv
(* Whatever becomes of the take, the asker goes on or rests. *)
<1>4. ASSUME memo' \in Memos, memo'.acked <= feed.losses, stray' \subseteq Member \cup {Law},
             NEW q \in Questions, ask' = [ask EXCEPT ![a] = q], q.pc \in {"idle", "vouch", "apply"},
             q.at <= feed.losses, q.serial <= feed.minted, \A g \in Member : q.since[g] <= disk[g],
             q.pc = "apply" => lock' = a, q.taken # {} => q.pc = "apply"
      PROVE  /\ Shapes' /\ Clocks' /\ Mutex' /\ ask'[a] = q
             /\ \A c \in Asker : (c # a => ask'[c] = ask[c]) /\ ask'[c].pc \notin Passing
  <2>1. /\ disk' \in [Member -> Nat] /\ \A g \in Member : disk'[g] >= disk[g]
        /\ feed' \in Feeds /\ feed'.losses >= feed.losses /\ feed'.minted >= feed.minted
        /\ q.at <= feed'.losses /\ q.serial <= feed'.minted /\ \A g \in Member : q.since[g] <= disk'[g]
        /\ q.pc # "overlay" /\ (q.pc \in Working => lock' = a) /\ (q.taken # {} => q.pc \in {"config", "apply"})
    BY <1>1, <1>2, <1>4 DEF Feeds
  <2>2. /\ ask' \in [Asker -> Questions] /\ ask'[a] = q /\ \A c \in Asker : c # a => ask'[c] = ask[c]
        /\ \A c \in Asker : Dated(c)'
        /\ Mutex'
    BY <1>1, <1>4, <2>1, Moves
  <2>3. Shapes' /\ Clocks'
    BY <1>1, <1>4, <2>2 DEF IInv, Shapes, Clocks
  <2> QED
    BY <1>3, <1>4, <2>2, <2>3
<1> DEFINE dry == [Idle EXCEPT !.collapse = TRUE]
           spent1 == [ask[a] EXCEPT !.taken = {}]
(* A memo that ends cold owes nothing. *)
<1>5. ASSUME ~memo'.base, memo' \in Memos, memo'.acked <= feed.losses, stray' \subseteq Member \cup {Law},
             NEW q \in Questions, ask' = [ask EXCEPT ![a] = q], q.pc \in {"idle", "vouch", "apply"},
             q.at <= feed.losses, q.serial <= feed.minted, \A g \in Member : q.since[g] <= disk[g],
             q.pc # "apply", q.taken = {}
      PROVE  IInv'
  <2>1. /\ Shapes' /\ Clocks' /\ Mutex'
        /\ \A c \in Asker : ask'[c].pc \notin Passing
    BY <1>4, <1>5
  <2> QED
    BY <1>5, <2>1, ColdOwes DEF IInv
<1>6. CASE memo' = Cold(0) /\ stray' = {} /\ Applied(a, dry)
  <2>1. PICK q : Restful(q) /\ ask' = [ask EXCEPT ![a] = q] /\ q.pc \in {"idle", "vouch"}
    <3>1. CASE a \in Borrower
      <4>1. Restful(Idle) /\ Idle.pc = "idle"
        BY IdleRestful DEF Idle
      <4> QED
        BY <1>6, <3>1, <4>1 DEF Applied
    <3>2. CASE a \notin Borrower
      <4>1. Restful([dry EXCEPT !.pc = "vouch"])
        BY IdleRestful
      <4>2. [dry EXCEPT !.pc = "vouch"].pc = "vouch"
        BY DEF Idle
      <4> QED
        BY <1>6, <3>2, <4>1, <4>2 DEF Applied
    <3> QED
      BY <3>1, <3>2
  <2>2. /\ q \in Questions /\ q.taken = {} /\ q.serial = 0 /\ q.at <= feed.losses
        /\ (\A g \in Member : q.since[g] <= disk[g])
    BY <2>1 DEF Restful
  <2>3. ~memo'.base /\ memo' \in Memos /\ memo'.acked <= feed.losses /\ 0 <= feed.minted
    BY <1>2, <1>6 DEF Cold, Memos, Blank, Feeds
  <2> QED
    BY <1>5, <1>6, <2>1, <2>2, <2>3
<1> HIDE DEF dry
<1>7. /\ spent1 \in Questions /\ spent1.pc = "apply" /\ spent1.taken = {} /\ spent1.at = ask[a].at
      /\ spent1.serial = ask[a].serial /\ spent1.since = ask[a].since /\ spent1.seen = ask[a].seen
  BY <1>1, <1>2 DEF Questions
<1> HIDE DEF spent1
<1>8. ASSUME Applied(a, spent1)
      PROVE  \E q \in Questions :
               /\ ask' = [ask EXCEPT ![a] = q] /\ q.pc \in {"idle", "vouch"} /\ q.taken = {}
               /\ q.at <= feed.losses /\ q.serial <= feed.minted /\ (\A g \in Member : q.since[g] <= disk[g])
               /\ q.seen => ask[a].seen /\ q.since = ask[a].since
  <2>1. CASE a \in Borrower
    <3>1. Restful(Idle) /\ Idle.pc = "idle" /\ Idle.seen = FALSE
      BY IdleRestful DEF Idle
    <3>2. Idle.serial <= feed.minted
      BY <1>2, <3>1 DEF Restful, Feeds
    <3> QED
      BY <1>8, <2>1, <3>1, <3>2 DEF Applied, Restful
  <2>2. CASE a \notin Borrower
    <3> DEFINE q == [spent1 EXCEPT !.pc = "vouch"]
    <3>1. "vouch" \in Pc
      BY DEF Pc
    <3>2. /\ q \in Questions /\ q.pc = "vouch" /\ q.taken = {} /\ q.at = ask[a].at
          /\ q.serial = ask[a].serial /\ q.since = ask[a].since /\ q.seen = ask[a].seen
      BY <1>7, <3>1, PcSet
    <3>3. ask' = [ask EXCEPT ![a] = q]
      BY <1>8, <2>2 DEF Applied
    <3> HIDE DEF q
    <3> QED
      BY <1>2, <3>2, <3>3 DEF Dated
  <2> QED
    BY <2>1, <2>2
<1>9. CASE ~memo.base /\ UNCHANGED <<memo, stray>> /\ Applied(a, spent1)
  <2>1. PICK q \in Questions :
               /\ ask' = [ask EXCEPT ![a] = q] /\ q.pc \in {"idle", "vouch"} /\ q.taken = {}
               /\ q.at <= feed.losses /\ q.serial <= feed.minted /\ (\A g \in Member : q.since[g] <= disk[g])
    BY <1>8, <1>9
  <2> QED
    BY <1>2, <1>5, <1>9, <2>1
<1>10. CASE /\ memo.base /\ memo' = [memo EXCEPT !.fold[f] = disk[f]] /\ stray' = stray \ {f}
            /\ LET left == ask[a].taken \ {f} IN
               IF left = {} THEN Applied(a, spent1)
               ELSE ask' = [ask EXCEPT ![a].taken = left] /\ UNCHANGED lock
  <2> DEFINE left == ask[a].taken \ {f}
  <2>1. PICK q \in Questions :
               /\ ask' = [ask EXCEPT ![a] = q] /\ q.pc \in {"idle", "vouch", "apply"} /\ q.taken = left
               /\ q.at <= feed.losses /\ q.serial <= feed.minted /\ (\A g \in Member : q.since[g] <= disk[g])
               /\ (q.seen => ask[a].seen /\ q.since = ask[a].since)
               /\ (left # {} => q.pc = "apply") /\ (left = {} => q.pc # "apply") /\ (q.pc = "apply" => lock' = a)
    <3>1. CASE left = {}
      <4>1. Applied(a, spent1)
        BY <1>10, <3>1
      <4> QED
        BY <1>8, <3>1, <4>1
    <3>2. CASE left # {}
      <4> DEFINE q == [ask[a] EXCEPT !.taken = left]
      <4>1. ask' = [ask EXCEPT ![a] = q] /\ lock' = a
        BY <1>1, <1>2, <1>10, <3>2
      <4>2. /\ q \in Questions /\ q.pc = "apply" /\ q.taken = left /\ q.at = ask[a].at
            /\ q.serial = ask[a].serial /\ q.since = ask[a].since /\ q.seen = ask[a].seen
        BY <1>1, <1>2 DEF Questions
      <4> HIDE DEF q
      <4> QED
        BY <1>2, <3>2, <4>1, <4>2 DEF Dated
    <3> QED
      BY <3>1, <3>2
  <2>2. /\ memo' \in Memos /\ memo'.acked = memo.acked /\ memo'.fold[f] = disk[f] /\ memo'.base
        /\ \A g \in Member : g # f => memo'.fold[g] = memo.fold[g]
        /\ \A g \in Member : memo.fold[g] \in Nat
    BY <1>2, <1>10 DEF Memos
  <2>3. stray' \subseteq Member \cup {Law} /\ memo'.acked <= feed.losses
    BY <1>2, <1>10, <2>2
  <2> HIDE DEF left
  <2>4. /\ Shapes' /\ Clocks' /\ Mutex' /\ ask'[a] = q
        /\ \A c \in Asker : (c # a => ask'[c] = ask[c]) /\ ask'[c].pc \notin Passing
    BY <1>4, <2>1, <2>2, <2>3
  <2>5. \A g \in Spared({f}) : g \in Member /\ g # f /\ g \notin stray /\ (g \in ask[a].taken => g \in left)
    BY <1>10 DEF Spared, left
  <2>6. ASSUME NEW g \in Spared({f})
        PROVE  /\ InHand(g) => InHand(g)'
               /\ Told(g) => Told(g)'
               /\ \A c \in Asker : Owes(c, g) => Owes(c, g)'
    <3>1. InHand(g) => InHand(g)'
      BY <1>1, <2>1, <2>4, <2>5 DEF InHand
    <3>2. (Told(g) => Told(g)') /\ \A n \in Nat : Ahead(g, n) => feed'.seen < n /\ \E i \in 1 .. Len(stream') :
                   Tells(stream'[i], g) /\ \A j \in 1 .. i - 1 : ~Answers(stream'[j], n)
      BY <1>1 DEF Told, Ahead
    <3>3. ASSUME NEW c \in Asker, Owes(c, g) PROVE Owes(c, g)'
      <4>1. CASE c = a
        <5>1. g \in left
          BY <1>1, <2>5, <3>3, <4>1 DEF Owes
        <5>2. ask'[a].pc = "apply" /\ g \in ask'[a].taken
          BY <2>1, <2>4, <5>1
        <5> QED
          BY <4>1, <5>2 DEF Owes
      <4>2. CASE c # a
        <5>1. ask'[c] = ask[c] /\ ask[c].serial \in Nat
          BY <1>2, <2>4, <4>2 DEF Questions
        <5>2. Ahead(g, ask[c].serial) => Ahead(g, ask[c].serial)'
          BY <3>2, <5>1 DEF Ahead
        <5> QED
          BY <2>5, <3>1, <3>3, <5>1, <5>2, OwesKept
      <4> QED
        BY <4>1, <4>2
    <3> QED
      BY <3>1, <3>2, <3>3
  <2>7. \A g \in Spared({f}) : CarriesFold(g)
    BY <1>1, <2>2, <2>5, <2>6 DEF CarriesFold, DiskTold
  <2>8. \A c \in Asker : CarriesAsk(c, {f}) /\ CarriesPass(c)
    <3> SUFFICES ASSUME NEW c \in Asker PROVE CarriesAsk(c, {f})
      BY <2>4 DEF CarriesPass
    <3>1. Asked(c)' => Asked(c) /\ ask'[c].since = ask[c].since
      <4>1. CASE c = a
        BY <1>1, <2>1, <2>4, <4>1 DEF Asked
      <4>2. CASE c # a
        BY <2>4, <4>2 DEF Asked
      <4> QED
        BY <4>1, <4>2
    <3> QED
      BY <2>6, <3>1 DEF CarriesAsk
  <2>9. /\ {} \in SUBSET Asker /\ {f} \in SUBSET Member /\ Shapes /\ Owed
        /\ feed'.losses = feed.losses /\ (memo'.base => memo.base)
        /\ \A g \in {f} : memo'.fold[g] >= disk'[g]
    BY <1>1, <1>2, <1>10, <2>2 DEF IInv
  <2>10. Owed'
    BY <2>2, <2>4, <2>7, <2>8, <2>9, Carry
  <2> QED
    BY <2>4, <2>10 DEF IInv
<1> QED
  BY <1>6, <1>9, <1>10 DEF ApplyOne, dry, spent1

(* A pass lands: what it has read becomes the memo. *)
LEMMA Lands ==
  ASSUME IInv, NEW a \in Asker, ask[a].pc \in Passing, ask[a].left = {},
         memo' = Observed(ask[a]), stray' = Unread(ask[a]), UNCHANGED <<disk, stream, feed>>,
         \E q : Restful(q) /\ ask' = [ask EXCEPT ![a] = q] /\ q.pc \notin Working
  PROVE  IInv'
<1>1. PICK q : Restful(q) /\ ask' = [ask EXCEPT ![a] = q] /\ q.pc \notin Working
  OBVIOUS
<1>2. lock = a /\ \A c \in Asker : c # a => ask[c].pc \notin Passing /\ ask[c].taken = {}
  <2>1. lock = a /\ Mutex
    BY HolderOf DEF IInv
  <2> QED
    BY <2>1, Alone
<1>3. /\ q \in Questions /\ q.taken = {} /\ q.serial <= feed.minted /\ q.at <= feed.losses /\ q.seen = FALSE
      /\ (\A f \in Member : q.since[f] <= disk[f]) /\ q.pc \notin {"mint", "wait", "overlay"}
  <2>1. feed.minted \in Nat
    BY DEF IInv, Shapes, Feeds
  <2> QED
    BY <1>1, <2>1 DEF Restful
<1>4. /\ disk' \in [Member -> Nat] /\ \A f \in Member : disk'[f] >= disk[f] /\ disk[f] \in Nat
      /\ feed' \in Feeds /\ feed'.losses >= feed.losses /\ feed'.minted >= feed.minted
  BY DEF IInv, Shapes, Feeds
<1>5. /\ ask' \in [Asker -> Questions] /\ ask'[a] = q /\ \A c \in Asker : c # a => ask'[c] = ask[c]
      /\ \A c \in Asker : Dated(c)'
      /\ Mutex'
  BY <1>1, <1>2, <1>3, <1>4, Moves
<1>6. /\ ask[a] \in Questions /\ Dated(a) /\ stray \subseteq Member \cup {Law}
      /\ ask[a].taken = {}
  BY TakenEmpty DEF IInv, Shapes, Clocks
<1>7. /\ memo' \in Memos /\ memo'.fold = ask[a].read /\ memo'.acked = ask[a].at
  BY <1>6 DEF Observed, Memos, Questions
<1>8. stray' \subseteq Member \cup {Law}
  BY <1>6 DEF Unread
<1>9. Shapes'
  BY <1>5, <1>7, <1>8 DEF IInv, Shapes
<1>10. Clocks'
  BY <1>5, <1>6, <1>7 DEF IInv, Clocks, Dated
<1>11. \A f \in Member \ stray' : ask[a].read[f] < disk[f] => f \notin stray
  BY DEF Unread, Law
<1>12. \A f \in Member : /\ InHand(f) => InHand(f)'
                         /\ Told(f) => Told(f)'
                         /\ \A c \in Asker : c # a /\ Owes(c, f) => Owes(c, f)'
  <2> SUFFICES ASSUME NEW f \in Member
               PROVE  /\ InHand(f) => InHand(f)'
                      /\ Told(f) => Told(f)'
                      /\ \A c \in Asker : c # a /\ Owes(c, f) => Owes(c, f)'
    OBVIOUS
  <2>1. (Told(f) => Told(f)') /\ (InHand(f) => InHand(f)')
    <3>1. \A c \in Asker : ask[c].taken \subseteq ask'[c].taken
      BY <1>5, <1>6
    <3> QED
      BY <3>1 DEF Told, InHand
  <2>2. ASSUME NEW c \in Asker, c # a PROVE Owes(c, f) => Owes(c, f)'
    <3>1. Ahead(f, ask[c].serial) => Ahead(f, ask[c].serial)'
      BY <1>5, <2>2 DEF Ahead
    <3> QED
      BY <1>5, <2>1, <2>2, <3>1, OwesKept
  <2> QED
    BY <2>1, <2>2
<1>13. \A c \in Asker : ask'[c].pc \notin Passing
  BY <1>1, <1>2, <1>5
<1>14. FoldOwed'
  <2> SUFFICES ASSUME NEW f \in Member \ stray', ask[a].read[f] < disk[f]
               PROVE  InHand(f)' \/ Told(f)' \/ Unabsorbed'
    BY <1>7 DEF FoldOwed
  <2>1. f \in feed.dirty \/ Told(f) \/ feed.losses > ask[a].at
    BY <1>11 DEF IInv, Owed, PassOwed
  <2> QED
    BY <1>7, <1>12, <2>1 DEF InHand, Unabsorbed
<1>15. ASSUME NEW c \in Asker PROVE Fresh(c)'
  <2>1. CASE c = a
    BY <1>3, <1>5, <2>1 DEF Fresh, Asked
  <2>2. CASE c # a
    <3> SUFFICES ASSUME Asked(c), NEW f \in Member \ stray', ask[a].read[f] < ask[c].since[f]
                 PROVE  Owes(c, f)' \/ Unabsorbed'
      BY <1>5, <1>7, <2>2 DEF Fresh, Asked
    <3>1. ask[c].since[f] <= disk[f] /\ ask[c].since[f] \in Nat /\ ask[a].read[f] \in Nat
      BY <1>6 DEF IInv, Clocks, Dated, Shapes, Questions
    <3>2. f \notin stray
      BY <1>4, <1>11, <3>1
    <3>3. Owes(c, f) \/ feed.losses > ask[a].at
      BY <3>2 DEF IInv, Owed, FreshPass
    <3> QED
      BY <1>7, <1>12, <2>2, <3>3 DEF Unabsorbed
  <2> QED
    BY <2>1, <2>2
<1>16. Owed'
  BY <1>13, <1>14, <1>15 DEF Owed, PassOwed, FreshPass
<1> QED
  BY <1>5, <1>9, <1>10, <1>16 DEF IInv

LEMMA PassEnds ==
  ASSUME IInv, NEW a \in Asker, Rebaselined(a) \/ FloorEnds(a)
  PROVE  IInv'
<1>1. /\ ask[a].pc \in Passing /\ lock = a /\ ask[a].taken = {} /\ UNCHANGED <<disk, stream, feed>>
  BY HolderOf, TakenEmpty DEF Rebaselined, FloorEnds
<1>2. \E q : Restful(q) /\ ask' = [ask EXCEPT ![a] = q] /\ q.pc \notin Working
  <2>1. CASE Rebaselined(a)
    <3>1. CASE a \in Borrower
      <4>1. Restful(Idle) /\ Idle.pc = "idle"
        BY IdleRestful DEF Idle
      <4> QED
        BY <2>1, <3>1, <4>1 DEF Rebaselined, Applied
    <3>2. CASE a \notin Borrower
      <4> DEFINE q == [[Idle EXCEPT !.collapse = TRUE] EXCEPT !.pc = "vouch"]
      <4>1. Restful(q)
        BY IdleRestful
      <4>2. q.pc = "vouch"
        BY DEF Idle
      <4>3. ask' = [ask EXCEPT ![a] = q]
        BY <2>1, <3>2 DEF Rebaselined, Applied
      <4> QED
        BY <4>1, <4>2, <4>3
    <3> QED
      BY <3>1, <3>2
  <2>2. CASE FloorEnds(a)
    <3>1. Restful(Idle) /\ Idle.pc = "idle"
      BY IdleRestful DEF Idle
    <3> DEFINE q == [Idle EXCEPT !.pc = "write"]
    <3>2. Restful(q)
      BY IdleRestful
    <3>3. q.pc = "write"
      BY DEF Idle
    <3>4. ask' = [ask EXCEPT ![a] = q] \/ ask' = [ask EXCEPT ![a] = Idle]
      BY <2>2 DEF FloorEnds, Served
    <3> QED
      BY <3>1, <3>2, <3>3, <3>4
  <2> QED
    BY <2>1, <2>2
<1>3. CASE UNCHANGED <<memo, stray>>
  <2>1. RestStep(a)
    BY <1>1, <1>2, <1>3 DEF RestStep
  <2> QED
    BY <2>1, RestStepKeeps
<1>4. CASE ask[a].left = {} /\ memo' = Observed(ask[a]) /\ stray' = Unread(ask[a])
  BY <1>1, <1>2, <1>4, Lands
<1> QED
  BY <1>3, <1>4 DEF Rebaselined, FloorEnds

LEMMA DoorWritesKeeps ==
  ASSUME IInv, NEW a \in Asker, NEW f \in Member, DoorWrites(a, f)
  PROVE  IInv'
<1>1. ask[a].pc = "write" /\ UNCHANGED <<feed, memo, lock>> /\ ask[a].taken = {}
  BY TakenEmpty DEF DoorWrites
<1>2. CASE ask' = [ask EXCEPT ![a] = Idle] /\ UNCHANGED <<disk, stream, stray>>
  <2>1. RestStep(a)
    BY <1>1, <1>2, GoesIdle DEF RestStep
  <2> QED
    BY <2>1, RestStepKeeps
<1>3. CASE Write(f) /\ ask' = [ask EXCEPT ![a].pc = "overlay", ![a].wrote = f, ![a].put = disk[f] + 1]
  <2> DEFINE q == [ask[a] EXCEPT !.pc = "overlay", !.wrote = f, !.put = disk[f] + 1]
  <2>1. ask' = [ask EXCEPT ![a] = q]
    BY <1>3 DEF IInv, Shapes
  <2>2. /\ ask[a] \in Questions /\ Dated(a) /\ disk[f] + 1 \in Nat /\ feed \in Feeds /\ "overlay" \in Pc
    BY DEF IInv, Shapes, Clocks, Pc
  <2>3. /\ q \in Questions /\ q.pc = "overlay" /\ q.taken = {} /\ q.at = ask[a].at /\ q.serial = ask[a].serial
        /\ q.since = ask[a].since /\ q.wrote = f /\ q.put = disk[f] + 1
    BY <1>1, <2>2 DEF Questions
  <2> HIDE DEF q
  <2>4. /\ disk' \in [Member -> Nat] /\ disk'[f] = disk[f] + 1
        /\ \A g \in Member : disk'[g] >= disk[g]
        /\ stream' \in Seq(Events)
        /\ \A i \in 1 .. Len(stream') : ~Answers(stream'[i], feed.minted + 1)
        /\ stray \subseteq stray' /\ stray' \subseteq Member \cup {Law}
    BY <1>1, <1>3, Written
  <2>5. \A g \in Member : /\ DiskTold(g) /\ (Told(g) => Told(g)')
                          /\ \A n \in Nat : Ahead(g, n) => Ahead(g, n)'
    BY <1>1, <1>3, Written
  <2>6. /\ feed' \in Feeds /\ feed'.losses >= feed.losses /\ feed'.minted >= feed.minted
        /\ q.at <= feed'.losses /\ q.serial <= feed'.minted
        /\ (\A g \in Member : q.since[g] <= disk'[g]) /\ q.put <= disk'[q.wrote]
    <3>1. \A g \in Member : ask[a].since[g] <= disk'[g]
      <4> SUFFICES ASSUME NEW g \in Member PROVE ask[a].since[g] <= disk'[g]
        OBVIOUS
      <4>1. ask[a].since[g] \in Nat /\ disk[g] \in Nat /\ disk'[g] \in Nat /\ disk'[g] >= disk[g] /\ ask[a].since[g] <= disk[g]
        BY <2>2, <2>4 DEF Questions, Dated, IInv, Shapes
      <4> QED
        BY <4>1
    <3>2. disk'[f] <= disk'[f]
      BY <2>4
    <3> QED
      BY <1>1, <2>2, <2>3, <2>4, <3>1, <3>2 DEF Feeds, Dated
  <2>7. /\ ask' \in [Asker -> Questions] /\ ask'[a] = q /\ \A c \in Asker : c # a => ask'[c] = ask[c]
        /\ \A c \in Asker : Dated(c)'
        /\ Mutex'
    BY <1>1, <2>1, <2>3, <2>4, <2>6, Moves
  <2>8. Shapes' /\ Clocks'
    BY <1>1, <2>4, <2>7 DEF IInv, Shapes, Clocks
  <2>9. \A g \in Member : InHand(g) => InHand(g)'
    BY <1>1, <2>3, <2>7 DEF InHand
  <2>10. \A g \in Spared({}) : CarriesFold(g)
    <3> SUFFICES ASSUME NEW g \in Spared({}) PROVE CarriesFold(g)
      OBVIOUS
    <3>1. g \in Member /\ g \notin stray /\ memo'.fold[g] >= memo.fold[g]
      BY <1>1, <2>4 DEF Spared, IInv, Shapes, Memos
    <3> QED
      BY <2>5, <2>9, <3>1 DEF CarriesFold
  <2>11. ASSUME NEW c \in Asker \ {a} PROVE CarriesAsk(c, {}) /\ CarriesPass(c)
    <3>1. ask'[c] = ask[c] /\ ask[c].serial \in Nat
      BY <2>7 DEF IInv, Shapes, Questions
    <3>2. ASSUME NEW g \in Spared({}) PROVE Owes(c, g) => Owes(c, g)'
      <4>1. g \in Member
        BY DEF Spared
      <4>2. Ahead(g, ask[c].serial) => Ahead(g, ask[c].serial)'
        <5>1. \A n \in Nat : Ahead(g, n) => feed'.seen < n /\ \E i \in 1 .. Len(stream') :
                   Tells(stream'[i], g) /\ \A j \in 1 .. i - 1 : ~Answers(stream'[j], n)
          BY <2>5, <4>1 DEF Ahead
        <5> QED
          BY <3>1, <5>1 DEF Ahead
      <4> QED
        BY <2>9, <3>1, <4>1, <4>2, OwesKept
    <3>3. CarriesAsk(c, {})
      BY <3>1, <3>2 DEF CarriesAsk, Asked
    <3>4. CarriesPass(c)
      BY <1>1, <2>4, <2>5, <3>1, PassKept DEF Spared
    <3> QED
      BY <3>3, <3>4
  <2>12. \A c \in {a} : Own(c)'
    <3>1. ~Asked(a)' /\ ask'[a].pc \notin Passing
      BY <2>3, <2>7 DEF Asked
    <3>2. Own(a)'
      BY <3>1, OwesNothing
    <3> QED
      BY <3>2 DEF Own
  <2>13. /\ {a} \in SUBSET Asker /\ {} \in SUBSET Member /\ Shapes /\ Owed
         /\ feed'.losses = feed.losses /\ (memo'.base => memo.base) /\ memo'.acked = memo.acked
    BY <1>1 DEF IInv
  <2>14. Owed'
    BY <2>8, <2>10, <2>11, <2>12, <2>13, Carry
  <2> QED
    BY <2>7, <2>8, <2>14 DEF IInv
<1> QED
  BY <1>2, <1>3 DEF DoorWrites

LEMMA OverlayKeeps ==
  ASSUME IInv, NEW a \in Asker, Overlay(a)
  PROVE  IInv'
<1>1. /\ ask[a].pc = "overlay" /\ lock = Free /\ UNCHANGED <<disk, stream, feed, lock>>
      /\ ask' = [ask EXCEPT ![a] = Idle] /\ ask[a].taken = {}
  BY TakenEmpty DEF Overlay
<1>2. CASE ~memo.base
  <2>1. RestStep(a)
    BY <1>1, <1>2, GoesIdle DEF RestStep, Overlay
  <2> QED
    BY <2>1, RestStepKeeps
<1>3. CASE memo.base
  <2> DEFINE f == ask[a].wrote
             put == ask[a].put
             S == IF disk[f] = put THEN {f} ELSE {}
             rest == IF f = Config THEN stray \ {Law} ELSE stray
  <2>1. /\ memo' = Overlaid(f, put)
        /\ stray' = CASE disk[f] = put -> rest \ {f}
                      [] memo.fold[f] > put -> rest \cup {f}
                      [] OTHER -> rest
    BY <1>3 DEF Overlay
  <2>2. /\ f \in Member /\ put \in Nat /\ memo \in Memos /\ disk \in [Member -> Nat] /\ feed \in Feeds
        /\ stray \subseteq Member \cup {Law} /\ memo.acked <= feed.losses /\ ask \in [Asker -> Questions]
    BY DEF IInv, Shapes, Clocks, Questions
  <2> HIDE DEF f, put
  <2>3. /\ memo' \in Memos /\ memo'.acked = memo.acked /\ memo'.fold[f] = put
        /\ \A g \in Member : memo.fold[g] \in Nat /\ (g # f => memo'.fold[g] = memo.fold[g])
    BY <2>1, <2>2 DEF Overlaid, Memos
  <2>4. /\ stray' \subseteq Member \cup {Law}
        /\ \A g \in Member \ stray' : g # f => g \notin stray
        /\ f \notin stray' /\ disk[f] # put => f \notin stray /\ ~(memo.fold[f] > put)
    BY <2>1, <2>2 DEF Law
  <2>5. /\ Restful(Idle) /\ Idle.pc = "idle" /\ Idle.seen = FALSE
    BY IdleRestful DEF Idle
  <2>6. /\ Idle \in Questions /\ Idle.taken = {} /\ Idle.serial <= feed'.minted /\ Idle.at <= feed'.losses
        /\ (\A g \in Member : Idle.since[g] <= disk'[g])
        /\ disk' \in [Member -> Nat] /\ (\A g \in Member : disk'[g] >= disk[g])
        /\ feed' \in Feeds /\ feed'.losses >= feed.losses /\ feed'.minted >= feed.minted
    BY <1>1, <2>2, <2>5 DEF Restful, Feeds
  <2>7. /\ ask' \in [Asker -> Questions] /\ ask'[a] = Idle /\ \A c \in Asker : c # a => ask'[c] = ask[c]
        /\ \A c \in Asker : Dated(c)'
        /\ Mutex'
    BY <1>1, <2>5, <2>6, Moves
  <2>8. Shapes' /\ Clocks'
    BY <1>1, <2>2, <2>3, <2>4, <2>7 DEF IInv, Shapes, Clocks
  <2>9. \A c \in Asker : ask'[c].pc \notin Passing
    <3>1. \A c \in Asker : c # a => ask[c].pc \notin Passing
      BY <1>1, Alone DEF IInv
    <3> QED
      BY <2>5, <2>7, <3>1
  <2>10. \A g \in Spared(S) : g \in Member /\ g \notin stray /\ memo'.fold[g] >= memo.fold[g]
    <3> SUFFICES ASSUME NEW g \in Spared(S)
                 PROVE  g \in Member /\ g \notin stray /\ memo'.fold[g] >= memo.fold[g]
      OBVIOUS
    <3>1. g \in Member \ stray' /\ (g = f => disk[f] # put)
      BY DEF Spared
    <3>2. CASE g = f
      BY <2>2, <2>3, <2>4, <3>1, <3>2
    <3>3. CASE g # f
      BY <2>3, <2>4, <3>1, <3>3
    <3> QED
      BY <3>2, <3>3
  <2>11. S \in SUBSET Member /\ \A g \in S : memo'.fold[g] >= disk'[g]
    BY <1>1, <2>2, <2>3
  <2> HIDE DEF S
  <2>12. ASSUME NEW g \in Spared(S)
         PROVE  /\ InHand(g) => InHand(g)'
                /\ Told(g) => Told(g)'
                /\ \A c \in Asker : c # a /\ Owes(c, g) => Owes(c, g)'
    <3>1. (Told(g) => Told(g)') /\ (InHand(g) => InHand(g)')
      <4>1. \A c \in Asker : ask[c].taken \subseteq ask'[c].taken
        BY <1>1, <2>7
      <4> QED
        BY <1>1, <4>1 DEF Told, InHand
    <3>2. ASSUME NEW c \in Asker, c # a PROVE Owes(c, g) => Owes(c, g)'
      <4>1. Ahead(g, ask[c].serial) => Ahead(g, ask[c].serial)'
        BY <1>1, <2>7, <3>2 DEF Ahead
      <4> QED
        BY <2>7, <2>10, <3>1, <3>2, <4>1, OwesKept
    <3> QED
      BY <3>1, <3>2
  <2>13. \A g \in Spared(S) : CarriesFold(g)
    BY <1>1, <2>10, <2>12 DEF CarriesFold, DiskTold
  <2>14. \A c \in Asker \ {a} : CarriesAsk(c, S) /\ CarriesPass(c)
    BY <2>7, <2>9, <2>12 DEF CarriesAsk, CarriesPass, Asked
  <2>15. \A c \in {a} : Own(c)'
    <3>1. ~Asked(a)' /\ ask'[a].pc \notin Passing
      BY <2>5, <2>7, <2>9 DEF Asked
    <3>2. Own(a)'
      BY <3>1, OwesNothing
    <3> QED
      BY <3>2 DEF Own
  <2>16. /\ {a} \in SUBSET Asker /\ Shapes /\ Owed
         /\ feed'.losses = feed.losses /\ (memo'.base => memo.base) /\ memo'.acked = memo.acked
    BY <1>1, <1>3, <2>3 DEF IInv
  <2>17. Owed'
    BY <2>8, <2>9, <2>11, <2>13, <2>14, <2>15, <2>16, Carry
  <2> QED
    BY <2>7, <2>8, <2>17 DEF IInv
<1> QED
  BY <1>2, <1>3

-----------------------------------------------------------------------------
(* The invariant *)

LEMMA InitOwes == Init => IInv
<1> SUFFICES ASSUME Init PROVE IInv
  OBVIOUS
<1>1. /\ Blank \in [Member -> Nat] /\ disk = Blank /\ stream = <<>> /\ stray = {}
      /\ feed = [dirty |-> {}, doubt |-> "none", losses |-> 0, minted |-> 0, seen |-> 0, holdoff |-> FALSE]
      /\ memo = [base |-> TRUE, fold |-> Blank, law |-> 0, acked |-> 0]
      /\ ask = [a \in Asker |-> Idle] /\ Len(stream) = 0
  BY DEF Init, Cold, Blank
<1>2. /\ Idle \in Questions /\ Idle.pc = "idle" /\ Idle.taken = {} /\ Idle.at = 0 /\ Idle.serial = 0
      /\ Idle.since = Blank /\ Idle.seen = FALSE
  <2>1. "idle" \in Pc /\ Config \in Member
    BY DEF Pc
  <2> QED
    BY <1>1, <2>1 DEF Idle, Questions
<1>3. feed \in Feeds /\ memo \in Memos
  BY <1>1 DEF Feeds, Memos, Rung
<1>4. Shapes
  BY <1>1, <1>2, <1>3 DEF Shapes
<1>5. Clocks
  BY <1>1, <1>2 DEF Clocks, Dated, Blank
<1>6. Mutex
  BY <1>1, <1>2 DEF Mutex
<1>7. Owed
  BY <1>1, <1>2 DEF Owed, FoldOwed, PassOwed, Fresh, FreshPass, Asked, Blank
<1> QED
  BY <1>4, <1>5, <1>6, <1>7 DEF IInv

LEMMA StepOwes == IInv /\ [Next]_vars => IInv'
<1> SUFFICES ASSUME IInv, [Next]_vars PROVE IInv'
  OBVIOUS
<1>1. ASSUME NEW f \in Member, Edit(f) PROVE IInv'
  BY <1>1, EditKeeps
<1>2. CASE Deliver
  BY <1>2, DeliverKeeps
<1>3. CASE \/ WatchErrs \/ HoldoffElapses \/ \E f \in Member : Hint(f)
           \/ \E rung \in {"sweep", "rebase"} : Rescan(rung)
  BY <1>3, FeedStepsKeep
<1>4. ASSUME NEW a \in Asker, Ask(a) \/ WriteSentinel(a) \/ Sighted(a) \/ TimesOut(a) PROVE IInv'
  BY <1>4, AskKeeps, WriteSentinelKeeps, SightedKeeps, TimesOutKeeps
<1>5. ASSUME NEW a \in Asker, Borrow(a) \/ Doubted(a) \/ LockTimesOut(a) \/ Vouch(a) PROVE IInv'
  BY <1>5, RestSteps, RestStepKeeps
<1>6. ASSUME NEW a \in Asker, Take(a) \/ JudgeConfig(a) \/ Rebaselined(a) \/ FloorEnds(a) \/ Overlay(a)
      PROVE  IInv'
  BY <1>6, TakeKeeps, JudgeConfigKeeps, PassEnds, OverlayKeeps
<1>7. ASSUME NEW a \in Asker, NEW f \in Member, ApplyOne(a, f) \/ ReadOne(a, f) \/ DoorWrites(a, f)
      PROVE  IInv'
  BY <1>7, ApplyOneKeeps, ReadOneKeeps, DoorWritesKeeps
<1>8. CASE UNCHANGED vars
  BY <1>8 DEF vars, IInv, Shapes, Clocks, Dated, Mutex, Owed, FoldOwed, PassOwed, Fresh, FreshPass, Asked, Owes,
              InHand, Told, Ahead, Unabsorbed
<1> QED
  BY <1>1, <1>2, <1>3, <1>4, <1>5, <1>6, <1>7, <1>8 DEF Next

LEMMA IInvHolds == Spec => []IInv
  BY InitOwes, StepOwes, PTL DEF Spec

-----------------------------------------------------------------------------

(* However edits, events, questions and passes interleave, a leaf the memo *)
(* holds behind the disk is owed by the kernel's queue, the dirty set, a   *)
(* take in hand, an open doubt or an unabsorbed loss.                      *)
THEOREM StaleIsOwedHolds == Spec => []StaleIsOwed
<1>1. IInv => StaleIsOwed
  <2> SUFFICES ASSUME IInv, memo.base, feed.losses <= memo.acked,
                      NEW f \in Member \ stray, memo.fold[f] < disk[f]
               PROVE  \/ f \in feed.dirty
                      \/ \E a \in Asker : f \in ask[a].taken
                      \/ \E i \in 1 .. Len(stream) : stream[i] \in {Edited(f), Overflow}
    BY DEF StaleIsOwed
  <2>1. InHand(f) \/ Told(f) \/ Unabsorbed
    BY DEF IInv, Owed, FoldOwed
  <2>2. ~Unabsorbed
    BY DEF Unabsorbed, IInv, Shapes, Feeds, Memos
  <2> QED
    BY <2>1, <2>2 DEF InHand, Told, Tells
<1> QED
  BY <1>1, IInvHolds, PTL

(* An answer vouched from memory carries every edit made before its        *)
(* question was put, the stray leaves apart.                               *)
THEOREM VouchedCurrentHolds == Spec => []VouchedCurrent
<1>1. IInv => VouchedCurrent
  <2> SUFFICES ASSUME IInv, NEW a \in Asker, ask[a].pc = "vouch", Vouches(a), NEW f \in Member \ stray
               PROVE  memo.fold[f] >= ask[a].since[f]
    BY DEF VouchedCurrent
  <2>1. Asked(a) /\ memo.base /\ ~Owes(a, f)
    BY DEF Asked, Vouches, Owes
  <2>2. ~Unabsorbed
    BY DEF Vouches, Unabsorbed, IInv, Shapes, Feeds, Memos
  <2>3. ~(memo.fold[f] < ask[a].since[f])
    BY <2>1, <2>2 DEF IInv, Owed, Fresh
  <2> QED
    BY <2>3, SMTT(30) DEF IInv, Shapes, Memos, Questions
<1> QED
  BY <1>1, IInvHolds, PTL

-----------------------------------------------------------------------------
(* The membership *)

(* The memo's membership is its config leaf's, unless it strays; a take    *)
(* judged an echo finds the config as it is already folded.                *)
LawKept == memo.base /\ Law \notin stray => memo.law = memo.fold[Config]
Echoes(a) == ask[a].pc = "apply" /\ Config \in ask[a].taken
EchoKept == \A a \in Asker : Echoes(a) /\ memo.base /\ Law \notin stray => memo.fold[Config] = disk[Config]
LawInv == LawKept /\ EchoKept

LEMMA LawCarried ==
  ASSUME LawInv, memo' = memo, Law \in stray => Law \in stray',
         \A c \in Asker : Echoes(c)' => \/ memo.base /\ Law \notin stray' => memo'.fold[Config] = disk'[Config]
                                        \/ Echoes(c) /\ disk'[Config] = disk[Config]
  PROVE  LawInv'
  BY DEF LawInv, LawKept, EchoKept

LEMMA NotToApply ==
  /\ Idle.pc = "idle" /\ \A p : [Idle EXCEPT !.pc = p].pc = p
  /\ \A p, x, y : [Idle EXCEPT !.pc = p, !.seen = x, !.since = y].pc = p
  /\ \A p : [[Idle EXCEPT !.collapse = TRUE] EXCEPT !.pc = p].pc = p
  /\ \A p : Pass(p).pc = p
  BY DEF Idle, Pass

(* A step of one asker that does not lead to an apply. *)
LEMMA LawWaits ==
  ASSUME IInv, LawInv, UNCHANGED <<disk, memo, stray>>, NEW a \in Asker, NEW q, ask' = [ask EXCEPT ![a] = q],
         q.pc # "apply"
  PROVE  LawInv'
<1>1. \A c \in Asker : Echoes(c)' => Echoes(c)
  BY DEF IInv, Shapes, Echoes
<1> QED
  BY <1>1, LawCarried

LEMMA LawWritten ==
  ASSUME IInv, LawInv, NEW f \in Member, Write(f), memo' = memo,
         \A c \in Asker : Echoes(c)' => Echoes(c)
  PROVE  LawInv'
<1>1. Law \in stray => Law \in stray'
  BY DEF Write
<1>2. f # Config => disk'[Config] = disk[Config]
  BY DEF Write, IInv, Shapes
<1>3. f = Config /\ (\E c \in Asker : Echoes(c)) => Law \in stray'
  BY DEF Write, Echoes
<1> QED
  BY <1>1, <1>2, <1>3, LawCarried

LEMMA LawLands ==
  ASSUME IInv, NEW a \in Asker, ask[a].pc \in Passing, memo' = Observed(ask[a]), stray' = Unread(ask[a]),
         NEW q, ask' = [ask EXCEPT ![a] = q], q.pc # "apply"
  PROVE  LawInv'
<1>1. \A c \in Asker : ~Echoes(c)'
  <2>1. \A c \in Asker : c # a => ask[c].pc \notin Working
    BY HolderOf, Alone DEF IInv
  <2> QED
    BY <2>1 DEF IInv, Shapes, Echoes
<1>2. LawKept'
  BY DEF LawKept, Observed, Unread
<1> QED
  BY <1>1, <1>2 DEF LawInv, EchoKept

LEMMA StepLaw == IInv /\ LawInv /\ [Next]_vars => LawInv'
<1> SUFFICES ASSUME IInv, LawInv, [Next]_vars PROVE LawInv'
  OBVIOUS
<1>1. CASE \/ Deliver \/ WatchErrs \/ HoldoffElapses \/ \E f \in Member : Hint(f)
           \/ \E rung \in {"sweep", "rebase"} : Rescan(rung)
  <2>1. UNCHANGED <<disk, memo, ask>> /\ (Law \in stray => Law \in stray')
    BY <1>1 DEF Deliver, WatchErrs, HoldoffElapses, Hint, Rescan
  <2> QED
    BY <2>1, LawCarried DEF Echoes
<1>2. ASSUME NEW f \in Member, Edit(f) PROVE LawInv'
  BY <1>2, LawWritten DEF Edit, Echoes
<1>3. ASSUME NEW a \in Asker, \/ Ask(a) \/ Borrow(a) \/ WriteSentinel(a) \/ Sighted(a) \/ Doubted(a)
                              \/ TimesOut(a) \/ LockTimesOut(a) \/ Vouch(a)
      PROVE  LawInv'
  <2>1. UNCHANGED <<disk, memo, stray>>
    BY <1>3 DEF Ask, Borrow, WriteSentinel, Sighted, Doubted, TimesOut, LockTimesOut, Vouch
  <2>2. \E q : ask' = [ask EXCEPT ![a] = q] /\ q.pc # "apply"
    <3>1. ASSUME NEW b \in BOOLEAN, Answered(a, b) PROVE \E q : ask' = [ask EXCEPT ![a] = q] /\ q.pc # "apply"
      <4> DEFINE q == IF b \/ a \notin Detector
                      THEN [Idle EXCEPT !.pc = "ready", !.seen = b, !.since = IF b THEN ask[a].since ELSE Blank]
                      ELSE Idle
      <4>1. ask' = [ask EXCEPT ![a] = q]
        BY <3>1 DEF Answered
      <4>2. q.pc # "apply"
        BY NotToApply
      <4> QED
        BY <4>1, <4>2
    <3>2. CASE Ask(a)
      BY <3>2, ZenonT(30) DEF Ask, Idle
    <3>3. CASE Borrow(a) \/ LockTimesOut(a)
      BY <3>3 DEF Borrow, LockTimesOut, Idle
    <3>4. CASE WriteSentinel(a)
      <4>1. CASE Goto(a, "wait")
        <5>1. [ask[a] EXCEPT !.pc = "wait"].pc = "wait"
          BY DEF IInv, Shapes, Questions
        <5> QED
          BY <4>1, <5>1 DEF Goto
      <4> QED
        BY <3>1, <3>4, <4>1 DEF WriteSentinel
    <3>5. CASE Sighted(a) \/ Doubted(a) \/ TimesOut(a)
      BY <3>1, <3>5 DEF Sighted, Doubted, TimesOut
    <3>6. CASE Vouch(a)
      <4> DEFINE q == IF a \in Door THEN [Idle EXCEPT !.pc = "write"] ELSE Idle
      <4>1. q.pc # "apply" /\ Pass("sweep").pc # "apply"
        BY NotToApply
      <4>2. ask' = [ask EXCEPT ![a] = q] \/ ask' = [ask EXCEPT ![a] = Pass("sweep")]
        BY <3>6 DEF Vouch, Served
      <4> QED
        BY <4>1, <4>2
    <3> QED
      BY <1>3, <3>2, <3>3, <3>4, <3>5, <3>6
  <2> QED
    BY <2>1, <2>2, LawWaits
<1>4. ASSUME NEW a \in Asker, Take(a) PROVE LawInv'
  <2>1. UNCHANGED <<disk, memo, stray>> /\ \A c \in Asker : Echoes(c)' => Echoes(c)
    <3>1. UNCHANGED <<disk, memo, stray>>
      BY <1>4 DEF Take
    <3>2. ASSUME NEW q, Applied(a, q), q \in Questions PROVE \A c \in Asker : Echoes(c)' => Echoes(c)
      BY <3>2 DEF Applied, Idle, Echoes, IInv, Shapes, Questions
    <3>3. CASE feed.doubt = "sweep"
      <4>1. [Idle EXCEPT !.collapse = TRUE] \in Questions
        BY IdleRestful, ZenonT(30) DEF Restful, Questions
      <4> QED
        BY <1>4, <3>2, <3>3, <4>1 DEF Take
    <3>4. CASE feed.doubt = "rebase"
      <4>1. ask' = [ask EXCEPT ![a] = Pass("rebase")] /\ Pass("rebase").pc = "rebase"
        BY <1>4, <3>4, NotToApply DEF Take
      <4>2. ask'[a].pc = "rebase" /\ \A c \in Asker : c # a => ask'[c] = ask[c]
        BY <4>1 DEF IInv, Shapes
      <4> QED
        BY <3>1, <4>2 DEF Echoes
    <3>5. CASE feed.doubt = "none" /\ feed.dirty = {}
      BY <1>4, <3>2, <3>5 DEF Take, IInv, Shapes
    <3>6. CASE feed.doubt = "none" /\ feed.dirty # {}
      <4> DEFINE q == [ask[a] EXCEPT !.taken = feed.dirty,
                                     !.pc = IF Config \in feed.dirty THEN "config" ELSE "apply"]
      <4>1. ask' = [ask EXCEPT ![a] = q]
        BY <1>4, <3>6 DEF Take
      <4>2. q.taken = feed.dirty /\ (Config \in feed.dirty => q.pc = "config")
        BY DEF IInv, Shapes, Questions
      <4> HIDE DEF q
      <4>3. ask'[a] = q /\ \A c \in Asker : c # a => ask'[c] = ask[c]
        BY <4>1 DEF IInv, Shapes
      <4>4. ~Echoes(a)'
        <5>1. Config \in feed.dirty \/ Config \notin feed.dirty
          OBVIOUS
        <5> QED
          BY <4>2, <4>3, <5>1 DEF Echoes
      <4> QED
        BY <3>1, <4>3, <4>4 DEF Echoes
    <3> QED
      BY <3>1, <3>3, <3>4, <3>5, <3>6 DEF IInv, Shapes, Feeds, Rung
  <2> QED
    BY <2>1, LawCarried
<1>5. ASSUME NEW a \in Asker, JudgeConfig(a) PROVE LawInv'
  <2>1. UNCHANGED <<disk, memo, stray>>
    BY <1>5 DEF JudgeConfig
  <2>2. CASE memo.base /\ memo.fold[Config] = disk[Config]
    BY <2>1, <2>2, LawCarried
  <2>3. CASE ~(memo.base /\ memo.fold[Config] = disk[Config])
    <3>1. Applied(a, [Idle EXCEPT !.collapse = TRUE])
      BY <1>5, <2>3 DEF JudgeConfig
    <3> DEFINE q == IF a \in Borrower THEN Idle ELSE [[Idle EXCEPT !.collapse = TRUE] EXCEPT !.pc = "vouch"]
    <3>2. ask' = [ask EXCEPT ![a] = q] /\ q.pc # "apply"
      BY <3>1, NotToApply DEF Applied
    <3> QED
      BY <2>1, <3>2, LawWaits
  <2> QED
    BY <2>2, <2>3
<1>6. ASSUME NEW a \in Asker, NEW f \in Member, ApplyOne(a, f) PROVE LawInv'
  <2>1. /\ ask[a].pc = "apply" /\ f \in ask[a].taken /\ disk' = disk
        /\ \A c \in Asker : c # a => ask[c].pc # "apply"
    <3>1. ask[a].pc = "apply" /\ f \in ask[a].taken /\ disk' = disk
      BY <1>6 DEF ApplyOne
    <3>2. lock = a /\ Mutex
      BY <3>1, HolderOf DEF IInv
    <3> QED
      BY <3>1, <3>2, Alone
  <2>2. CASE memo' = Cold(0)
    BY <2>2 DEF Cold, LawInv, LawKept, EchoKept
  <2>3. CASE ~memo.base /\ memo' = memo
    BY <2>3 DEF LawInv, LawKept, EchoKept
  <2>4. CASE memo.base /\ memo' = [memo EXCEPT !.fold[f] = disk[f]] /\ stray' = stray \ {f}
    <3>1. /\ memo'.law = memo.law /\ memo'.base /\ memo'.fold[f] = disk[f]
          /\ f # Config => memo'.fold[Config] = memo.fold[Config]
      BY <2>4 DEF IInv, Shapes, Memos
    <3>2. Law \notin stray' => Law \notin stray
      BY <2>4 DEF Law
    <3>3. LawKept'
      <4>1. CASE f = Config
        BY <2>1, <2>4, <3>1, <3>2, <4>1 DEF LawInv, LawKept, EchoKept, Echoes
      <4>2. CASE f # Config
        BY <2>4, <3>1, <3>2, <4>2 DEF LawInv, LawKept
      <4> QED
        BY <4>1, <4>2
    <3>4. ASSUME NEW c \in Asker, Echoes(c)', Law \notin stray' PROVE memo'.fold[Config] = disk[Config]
      <4>1. c = a /\ Config \in ask[a].taken
        <5>1. CASE c = a
          <6> DEFINE left == ask[a].taken \ {f}
                     dry == [Idle EXCEPT !.collapse = TRUE]
                     done == [ask[a] EXCEPT !.taken = {}]
          <6>1. ask[a] \in Questions /\ ask \in [Asker -> Questions]
            BY DEF IInv, Shapes
          <6>2. ASSUME NEW q \in Questions, Applied(a, q) PROVE ~Echoes(a)'
            <7>1. ask'[a] = IF a \in Borrower THEN Idle ELSE [q EXCEPT !.pc = "vouch"]
              BY <6>1, <6>2 DEF Applied
            <7>2. Idle.pc = "idle" /\ [q EXCEPT !.pc = "vouch"].pc = "vouch"
              BY NotToApply DEF Questions
            <7> QED
              BY <7>1, <7>2 DEF Echoes
          <6>3. dry \in Questions /\ done \in Questions
            BY <6>1, IdleRestful, ZenonT(30) DEF Restful, Questions
          <6>4. \/ Applied(a, done) \/ Applied(a, dry)
                \/ ask' = [ask EXCEPT ![a].taken = left]
            BY <1>6 DEF ApplyOne
          <6> HIDE DEF dry, done
          <6>5. ask' = [ask EXCEPT ![a].taken = left]
            BY <3>4, <5>1, <6>2, <6>3, <6>4
          <6>6. ask'[a].taken = left
            BY <6>1, <6>5 DEF Questions
          <6> QED
            BY <3>4, <5>1, <6>6 DEF Echoes
        <5>2. CASE c # a
          <6>1. ask'[c] = ask[c]
            BY <1>6, <5>2 DEF ApplyOne, Applied, IInv, Shapes
          <6> QED
            BY <2>1, <3>4, <5>2, <6>1 DEF Echoes
        <5> QED
          BY <5>1, <5>2
      <4> QED
        BY <2>1, <2>4, <3>1, <3>2, <3>4, <4>1 DEF LawInv, EchoKept, Echoes
    <3> QED
      BY <2>1, <3>3, <3>4 DEF LawInv, EchoKept
  <2> QED
    BY <1>6, <2>2, <2>3, <2>4 DEF ApplyOne
<1>7. ASSUME NEW a \in Asker, NEW f \in Member, ReadOne(a, f) PROVE LawInv'
  <2>1. UNCHANGED <<disk, memo, stray>> /\ ask[a].pc \in Passing
    BY <1>7 DEF ReadOne
  <2>2. \A c \in Asker : Echoes(c)' => Echoes(c)
    <3> DEFINE q == [ask[a] EXCEPT !.read[f] = disk[f], !.left = @ \ {f}]
    <3>1. ask' = [ask EXCEPT ![a] = q]
      BY <1>7 DEF ReadOne, IInv, Shapes
    <3>2. q.pc = ask[a].pc
      BY DEF IInv, Shapes, Questions
    <3> HIDE DEF q
    <3> QED
      BY <2>1, <3>1, <3>2 DEF Echoes, IInv, Shapes
  <2> QED
    BY <2>1, <2>2, LawCarried
<1>8. ASSUME NEW a \in Asker, Rebaselined(a) \/ FloorEnds(a) PROVE LawInv'
  <2>1. ask[a].pc \in Passing /\ disk' = disk
    BY <1>8 DEF Rebaselined, FloorEnds
  <2>2. \E q : ask' = [ask EXCEPT ![a] = q] /\ q.pc # "apply"
    BY <1>8, ZenonT(30) DEF Rebaselined, FloorEnds, Applied, Served, Idle
  <2>3. CASE UNCHANGED <<memo, stray>>
    BY <2>1, <2>2, <2>3, LawWaits
  <2>4. CASE memo' = Observed(ask[a]) /\ stray' = Unread(ask[a])
    BY <2>1, <2>2, <2>4, LawLands
  <2> QED
    BY <1>8, <2>3, <2>4 DEF Rebaselined, FloorEnds
<1>9. ASSUME NEW a \in Asker, NEW f \in Member, DoorWrites(a, f) PROVE LawInv'
  <2>1. memo' = memo /\ \A c \in Asker : Echoes(c)' => Echoes(c)
    <3> DEFINE q == [ask[a] EXCEPT !.pc = "overlay", !.wrote = f, !.put = disk[f] + 1]
    <3>1. memo' = memo /\ (ask' = [ask EXCEPT ![a] = q] \/ ask' = [ask EXCEPT ![a] = Idle])
      BY <1>9 DEF DoorWrites, IInv, Shapes
    <3>2. q.pc = "overlay" /\ Idle.pc = "idle"
      BY NotToApply DEF IInv, Shapes, Questions
    <3> HIDE DEF q
    <3> QED
      BY <3>1, <3>2 DEF Echoes, IInv, Shapes
  <2>2. CASE Write(f)
    BY <2>1, <2>2, LawWritten
  <2>3. CASE UNCHANGED <<disk, stray>>
    BY <2>1, <2>3, LawCarried
  <2> QED
    BY <1>9, <2>2, <2>3 DEF DoorWrites
<1>10. ASSUME NEW a \in Asker, Overlay(a) PROVE LawInv'
  <2>1. /\ disk' = disk /\ lock = Free /\ ask' = [ask EXCEPT ![a] = Idle] /\ Idle.pc # "apply"
        /\ ask[a].wrote \in Member
    BY <1>10 DEF Overlay, Idle, IInv, Shapes, Questions
  <2>2. \A c \in Asker : ~Echoes(c)'
    <3>1. \A c \in Asker : c # a => ask[c].pc \notin Working
      BY <2>1, Alone DEF IInv
    <3> QED
      BY <2>1, <3>1 DEF Echoes, IInv, Shapes
  <2>3. CASE ~memo.base
    BY <1>10, <2>1, <2>3, LawWaits DEF Overlay
  <2>4. CASE memo.base
    <3> DEFINE f == ask[a].wrote
               put == ask[a].put
    <3>1. memo' = Overlaid(f, put) /\ (f # Config => (Law \in stray => Law \in stray'))
      BY <1>10, <2>1, <2>4 DEF Overlay, Law
    <3> HIDE DEF f, put
    <3>2. /\ f = Config => memo'.law = put /\ memo'.fold[Config] = put
          /\ f # Config => memo'.law = memo.law /\ memo'.fold[Config] = memo.fold[Config]
      BY <3>1 DEF Overlaid, IInv, Shapes, Memos
    <3> QED
      BY <2>2, <2>4, <3>1, <3>2 DEF LawInv, LawKept, EchoKept
  <2> QED
    BY <2>3, <2>4
<1>11. CASE UNCHANGED vars
  BY <1>11 DEF vars, LawInv, LawKept, EchoKept, Echoes
<1> QED
  BY <1>1, <1>2, <1>3, <1>4, <1>5, <1>6, <1>7, <1>8, <1>9, <1>10, <1>11 DEF Next

(* An answer vouched from memory is folded under the membership its own    *)
(* config leaf names, unless the membership strays.                        *)
THEOREM VouchedLawfulHolds == Spec => []VouchedLawful
<1>1. Init => LawInv
  BY DEF Init, Cold, Blank, Idle, LawInv, LawKept, EchoKept, Echoes
<1>2. LawInv => VouchedLawful
  BY DEF LawInv, LawKept, VouchedLawful, Vouches
<1> QED
  BY <1>1, <1>2, StepLaw, IInvHolds, PTL DEF Spec
=============================================================================
