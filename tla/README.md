# A TLA+ model of meridian-rs

This directory models six parts of the program in TLA+, checks them with TLC
on small instances and proves part of what holds with TLAPS for every
instance:

- **residency**: who may hold which document body in the daemon's memory
  (`crates/registry/src/residency`);
- **publication**: how a multi-file transaction reaches the disk, and what a
  restart does with one that was cut short (`crates/wire-serve/src/publish.rs`,
  `crates/fs/src/intent.rs`);
- **authority**: which process may publish, and what ends one that hangs
  (`crates/wire-serve/src/authority.rs`);
- **write doors**: splice, splice_set, lock_write, create, remove, relocate and
  the apply of a run, over the atomic file commits of `crates/fs/src/lib.rs`
  (`crates/wire-serve/src/write.rs`, `relocate.rs`, `crates/run/src/executor.rs`);
- **currency**: what the daemon's answers know of a disk that anybody may edit
  (`crates/registry/src/feed.rs`, `registry.rs`, `DomainCache` of `crates/fs`);
- **delta plane**: how subscribers are told every change, in order
  (`crates/registry/src/ring.rs`, `crates/wire-serve/src/ring.rs`, `watch.rs`).

They carry the concurrency and the crash behaviour of the repository; the rest
is mostly parsing, projection and I/O. `PROJECT.json` lists every component,
hazard, run and mutant, and the source lines each definition translates.

## 1. The system and its parts

`mrd` is a command-line client. It talks NDJSON over a socket to one daemon
per user, which keeps the registered workspaces (trees of Markdown files)
resident and serves reads, guarded writes, scripts and subscriptions. The
workspace's files are the only truth: any editor may change them at any time.

| part | state it keeps | operations | interacts with | hard because |
|---|---|---|---|---|
| residency controller (`registry/residency/controller*`) | ledger: rows, raw table, reservations, serialized slot, waiting and owed records, running sums | begin, admit, finish, pin, drop, trim, limit and floor changes | slots, catalog, census | one ledger mutex, one mutex per slot, steps outside both; waits |
| resident slot (`registry/residency.rs`) | Cold, Loading or Hot body, a flight with its waiters, a revision | prepare, wait, finish, eviction ticket, shed | controller, raw store | single flight; revision checked after unlock |
| catalog (`registry/residency/catalog.rs`) | retained versions of the live corpus | lease, retain, drop | controller | retry loop with a patience and self-blocking |
| publication (`wire-serve/publish.rs`) | reservation table, state owner (tip, sequence) | publish, publish_group, recover | intents on disk, authority | crash between any two file operations; waiters |
| intents (`fs/intent.rs`) | intent files, recovery images, quarantine markers | create_decided, finalize, reclaim, scan, classify, restore, forward | publication | partial writes, failing syncs |
| authority (`wire-serve/authority.rs`) | flock lease, owner record, marker, heartbeat file | acquire, takeover, ready, beat, watch, enforce | publication, supervisor | two processes, a holder alive but wedged |
| filesystem commits (`fs/lib.rs`) | write lock, staged temps | lock, stage, apply_batch, apply_set with rollback, create, remove, replace | write doors, runs | a failure or a death in the middle of a batch |
| write doors (`wire-serve/write.rs`, `relocate.rs`, `plan.rs`, `gate.rs`, ...) | none between calls | splice, splice_set, lock_write, create, remove, relocate | commits, policy, feed, ring | what is checked before the lock, and used after it |
| run plane (`run`, `realise`) | run lock, journal of steps | plan, execute, resume | commits, write doors | reads under one lock, commits under another |
| feed and currency (`registry/feed.rs`, currency doors of `registry.rs`) | kernel queue, dirty set, doubt, losses, memo | handle an event, barrier, take, apply, vouch, floor pass, overlay | doors, readers, detector | events lost, late or dropped; the memo patched from four sides |
| rings (`registry/ring.rs`, `wire-serve/ring.rs`, `watch.rs`) | ring of frames, watch baseline, claims | settle, record, follow, detect, prime, subscribe, resume, reap | doors, currency, clients | two producers of one numbering; bounded ring; reap |
| write fence and step guard (`fs/fence.rs`, `guard.rs`) | fence generations, per-step guards | enter, leave, refuse | commits, reads | stale checks |
| registry and engines (`registry/registry.rs`, `engine.rs`) | mounts and their engines | register, boot, swap, reap | everything above | swaps beside running requests |
| wedge (`registry/wedge.rs`) | progress stamps, verdict | stamp, judge, abandon | registry | a late answer after abandonment |
| host census, SQL budget (`registry/residency/census.rs`, `sql_*`) | measured floors, budget | measure, grow, escalate | controller | measured values change under way |
| checkpoints and stores (`registry/checkpoint.rs`, `raw_store.rs`, `fs/checkpoint.rs`) | content-addressed files | save, load, evict | registry | a crash while saving; every miss is recomputed |
| cache drawer (`cache`) | sentinels, last-use stamps | register, probe, sweep | CLI and daemon | sweep beside a registration |
| model, syntax, addr, config, policy, query, render, receipt, wire, effects | none | pure functions | all | data, not order |

What has to hold of each part: nothing is charged, counted or admitted wrongly
(residency); nothing half written stays and nothing acknowledged is lost
(publication, doors); one holder acts, and one that hangs goes (authority); a
vouched answer misses no edit (currency); no change is left untold (rings);
nobody waits forever (all of them).

The live write path of the repository is the write doors under
`.meridian/write.lock`. Publication and authority are complete in the source,
with tests that kill their processes, but `authority.rs` says that the live
write door keeps its flock until a cutover; they are modelled as their callers
are meant to use them.

## 2. The modules

| module | what it is |
|---|---|
| `ResidencyLedger` | constants, state and pure operators of the ledger and the slots |
| `Residency` | the actions of residency, `Spec`, `FairSpec` and the properties |
| `ResidencyTurns` | `Residency` with a history variable that counts what a paused load waits out |
| `Regions` | the reservation algebra: extents, intersection, conflict |
| `Publish` | publication and recovery over files |
| `AtomicStore` | what publication promises: transactions happen at one instant and stay |
| `Authority` | the lease, the takeover, the heartbeat and the watchdog |
| `Doors` | the seven write doors and the file commits under them |
| `Currency` | the event feed, the barrier, the memo, vouched answers |
| `DeltaPlane` | ring, baseline, doors as producers of frames, detector, subscribers |
| `ResidencyProofs`, `LedgerProofs`, `OverrunProofs`, `PublishProofs`, `AuthorityProofs`, `DoorsProofs`, `CurrencyProofs`, `DeltaProofs` | theorems |
| `MCResidency`, `MCTurns`, `MCPublish`, `MCAuthority`, `MCDoors`, `MCCurrency`, `MCDelta` | sizes, paths, requests and symmetry for TLC |

A definition whose comment starts with "Faulty variant" is a slip a programmer
could make in the definition that follows it: each property is known to fail
when the code's definition is replaced by such a variant (`mutants` in
`PROJECT.json`). No specification uses them. Variables and fields marked
"history" record what happened for a property's sake and guard nothing.

How the modules share the system: `Publish` refines `AtomicStore`. `Authority`
has recovery as one step, which `Publish` shows file operation by file
operation. `Doors`, `Currency` and `DeltaPlane` each have the write doors, from
one side each: what lands on disk and what other calls see of it, what a door
leaves in the memo, and what it tells the ring. The order that ties these
together (lock, observe, check, land, overlay, record, release) is the code's
and the same in all three.

### Residency

One action is one critical section of the ledger mutex, one of a slot's mutex,
or one step outside both. `mutex` holds the thread that keeps the ledger locked
from one action to the next. `pc[t]` names the place in the code and `loc[t]`
the locals that matter there:

- `begin`: `Member::begin_past`, in the actions `BeginRetiring`,
  `BeginExhausted`, `BeginStale`, `BeginSettling`, `BeginAdmission` and `Enter`
  by what it decides;
- `admit`, `unowe`: `Controller::admit_turn` and the removal of the owed record
  in `admit_past`; the answers `Busy`, `Waiting`, `Paused` are the source's;
- `select`, `shed`, `settle`, `collect`, `drop`, `destroyed`: the retirement
  of a body, shared by an admission that needs room and by every trim;
- `resolve`, `overrun`, `body`, `raw`, `fail`, `call`, `member`, `holding`: the
  flight, `Call::finish` and the drops of a failed one in their order;
- `answer`, `spare`: the retry loop of `catalog.rs` `admit`;
- `unpin`, `unraw`: the drops of pins and raw pins.

A version is a model value; its raw size, tree size and declared peak are
constants, since a parse is deterministic. A sum over a table is the number
of the units its members are worth (`Sum`), which theorems about finite sets
reason about. Tables' own capacities are part of
`floor`. Time is not kept: a record with a deadline may end at any moment, and
a patience of two seconds may end whenever a lease polls. With `PromptPolls` a
lease that polls renews its 100 ms record before it ends (the code polls every
millisecond).

### Publication

One action is one file operation, or one step under the reservation table's or
the state owner's mutex. A transaction's thread goes through `reserve`,
`reverify`, `images`, `create`, `write`, `sync` (these are `decide`), `rename`,
`apply`, `finalize`, `reclaim`, `clear`, and ends as `acked`, `conflict`, `io`
or `unknown`: the four results of `publish`. `Crash` ends all threads and keeps
the files. `Scan`, `RecoverOne` and the actions after it are `recover` and
`recover_one`, one member and one file operation at a time, and `Open` is the
birth of a state owner at the bytes then on disk.

Bytes are the sequence of edits that made them. This tells apart what digests
tell apart and no more, and shows whose edit is missing when one is. A missing
file and an empty one are the same here, as in `reverify` and `classify`.
A crash is the death of the process: what was written stays, since the law
claims no safety against power loss. An intent file appears empty (`O_EXCL`),
is whole once written, and stays decided when the sync after that fails.

### Authority

`proc[p].pc` is where a process stands between `new` and `ready`: `Acquire` and
`Record` are `AuthorityLease::acquire`, `BeginTakeover` and `Recover` the
takeover with `write.lock` as recovery's exclusive lock, `ReleaseRecovery` and
`Open` the two halves of `Takeover::ready`, then `Publish`, `Beat`, `Resign`.
`dog[p]` is the watchdog of that process, for each `p` in `Watched`: `Sample`,
`Declare`, `Enforce`. A
`Fault` is one refused file operation, or a kill that does not kill. A zombie
is a dead process that a signal 0 still finds; a hung one keeps its locks and
takes no step. `Release` is the kernel's: a dead process's flocks go, its files
stay. Ticks of the clock are the watchdog's samples; nothing else has a rate.

### Write doors

A call `c` is a thread or a process of its own; `pc[c]` says what it does next,
`image[c]` is what it has read and composes on, `todo[c]` the files it renames
in order and `done[c]` how many it has. One action is one read, one lock
operation, or one rename with the sync of its directory. `TakeWriteLock` and
`Busy` are `acquire_write_lock` (one try) and `acquire_write_flock` of a run (a
budget of tries). `Judge` is a splice's first read and `Compose` its second, in
`commit_batch` or `commit_set`; `VerifyOk` is `verify_pre_images`, before the
first rename; `LandNext`, `LandLast` are the renames, the receipt's last;
`Restore` and its failures are `restore_renamed` of a set. `create`, `remove`
and `lock_write` look (`CheckCreate`, ...) and land one file; `relocate` looks
at OLD and NEW before it takes the lock (`ProbeMove`), plans under it, rewrites
each referring page and renames OLD last. A run reads and renders under
`run.lock` and takes `write.lock` for its commit when it has a frame sink
(`armed`), as in the daemon. `Crash` is the death of a call's process; `Edit`
is an editor, who takes no lock.

`removed` is history: the edits that went with a page somebody took away; it
changes places with the names when a move does. What a request may look like is
`RequestsAssumption`.

A page is `None` or a set of marks: which calls' edits it carries, which pages
it links to, whether an editor wrote it. An edit is a span of its own section,
so nobody's edit makes another one's span stale: what is checked is who may
overwrite whom, not where spans fall.

### Currency

The content of a file is the number of its last edit. `stream` is the kernel's
event queue with its overflow marker; `feed` is `FeedState` (dirty set, doubt,
losses, sentinels, holdoff); `memo` is `DomainCache` (fold, the config its
membership was made by, losses absorbed); `lock` is the memo's mutex. Four
kinds of askers share it: readers (`currency_refresh_with`), doors
(`door_observation` and the write after it), detect cycles
(`door_observation_vouched`) and borrowers (`domain_cache`). A question is
`Ask`, `WriteSentinel`, `Sighted` or `Doubted` or `TimesOut` (the barrier),
`Take`, `JudgeConfig`, `ApplyOne` (take and apply), then `Vouch`, or a full pass
read member by member (`ReadOne`, `FloorEnds`, `Rebaselined`). A door goes on
to `DoorWrites` and `Overlay`. `stray` is history: leaves that the known
disagreements of section 4 may leave behind, exempt until they are read again.

### Delta plane

A root is a collision-free digest, so a root is the tree it digests. `ring` and
`reserved` are `RootRing`, `base` is `WatchState`, `epoch` the ring's instance.
The flock admits one door, so one record `door` stands for all; the cycle gate
is single-flight, so one record `cycle` does for detection. `DoorEnter` to
`DoorFollow` are a door's observation, settle, commit, record and follow;
`Detect`, `CycleLock`, `CycleBusy`, `CycleReconcile` a detect cycle, ordinary or
floor; `SubClaim`, `SubPrime`, `SubAck`, `SubResume`, `Deliver`, `SubDrop` a
subscription; `Reap` ends the ring. The reconcile step (`ReconcileDelta`) is the
code's: nothing moved, the movers cannot be verified, the ring chains from the
baseline to the fold (sync silently), or an external frame is told. A
subscriber's `view` applies the frames it is handed, as a client would.

## 3. The runs

Deadlock is checked in the runs of residency. The others switch it off: all
transactions or calls may be over, and bounded counters run out.

| run | bounds | shows |
|---|---|---|
| `core` | 3 threads, an oversized version, 1 failing load, raw pins, a retirement and a reload (1.0 million states) | the ledger's sums (`Accounts`), counts (`LeasesCounted`), hints (`WaveLive`), single flight, raw owners are the real ones and those a failed call left (`OwnersCounted`), error paths included |
| `overrun` | a version whose load is oversized and whose body is small, one whose storage alone exceeds its declared peak, 2 threads, raw pins of the latter, a staging reservation (817 thousand) | one retry is enough (`NoSecondOverrun`), admission never overcommits (`LimitHeld`), the serialized load (`OneOversized`, `SlotKept`) |
| `host` | limit 0 or 8, floor 1 or 3, drops of the version, raw pins that outlive the body, 1 failing load, 1 renewed attempt (610 thousand) | completion reclaims (`TrimmedAtRest`), bodies in use stay (`BodyStays`) |
| `ends` | fairness, 2 threads, a fitting and an oversized version, a thread may hold two leases (105 thousand) | every lease is answered (`LeaseEnds`); `SelfBlockedIsBlocked`; one oversized load at most passes a version that is owed a turn (`TurnKept`) |
| `crash` | fairness, 2 transactions, 2 files, both policies, 2 crashes, 1 failing file operation (521 thousand) | `ImagesBacked`, `AllOrNothing`, `AckedKept`, `FramesMatchDisk`, also when refusals and `commit_unknown` leave intents behind; no waiter is stranded (`WaitEnds`), every restart opens admissions (`RecoveryEnds`) |
| `refines` | folder and absence premises, 2 crashes, no I/O errors (1.1 million) | `Publish` implements `AtomicStore`; `PremisesStand` |
| `authority` | fairness, 2 processes, one of them with a watchdog, 3 epochs, 2 beats, a budget of 2 misses, 1 process that hangs, 1 fault, a direct writer (589 thousand) | admissions open only over recovered work (`RecoveredBeforeOpen`), whoever is refused during an episode is told wedged (`EpisodeTold`), a beating holder is not declared (`BeatingNotDeclared`), a silent one serves or goes (`ServesOrLeaves`) |
| `doors` | 3 calls out of nine requests at seven doors, 4 pages and the receipt file, 2 landings that fail at the rename or at the sync after it, 1 crash, 1 edit (2.7 million) | `AckedStays`, `ReceiptMeansLanded`, `SetAllOrNone`, `NoStranding`, `MoveWhole` |
| `currency` | one asker of each of the four kinds, a note and the config, a queue of 2 events, a dirty set of 1, 1 outside edit, 2 questions, 1 fault (2.0 million) | a vouched answer misses no edit (`VouchedCurrent`), is folded under its own config (`VouchedLawful`), and a leaf behind the disk is always owed (`StaleIsOwed`) |
| `delta` | fairness, 1 subscriber, 2 files, a ring of 2 frames, every kind of door, 2 writes, 1 fault, 1 reap (225 thousand) | numbers grow (`SeqsGrow`), who has every frame knows the disk (`NothingUntold`), cursors are honoured in their own instance only (`AnchorsHold`), subscribers come to rest (`CatchesUp`), subscribes are answered (`SubAnswered`) |
| `stale` | a reader and a borrower, 3 questions | violated: a vouched answer that misses an edit (section 4) |
| `clobbered` | a create and a move, 2 calls | violated: a move onto a page (section 4) |

**Bounds.** Residency: `MaxRevision` 1 or 2 lets a slot be retired and loaded
again and its revision run out, which stands for `u64::MAX`. `PermitId` has two
identities per thread, the spare and the held reservation, so none is missing;
in `core` three do for one version, whose loads share a reservation.
`AllocNo` is two allocations of one source: the canonical one and one that
outlived it. `MaxTries` 1 is one renewed attempt of the 1 ms retry pauses.
`MaxHeld` is the leases one thread holds. `MaxCount` 2 in `ResidencyTurns` is
one more than allowed; with three threads and prompt polls `TurnKept` held too
(2.0 million states, run once). Sizes are chosen so that one version fits, one
is oversized and one overruns. Each run has the versions and the threads its
question needs: a load, a waiter and a third that arrives between (`core`), an
oversized load beside one that grows, and a body in use beside the storage that
a raw pin keeps after an overrun (`overrun`), a host that moves under both
(`host`). Three versions at once, one that fits, one that stays oversized and one
that grows, held too (8.2 million states, run once). The bookkeeping is proved for every other size (section 5); its
invariant was checked by TLC on `core`, `overrun` and `host`.

Publication: one failing operation leaves an intent behind or disturbs its
recovery; two crashes are one of a publication and one of its recovery; two transactions and two files give every overlap of two
publications, and a mixture needs two destinations.

Authority: three epochs are a holder, its successor and the holder come back;
one watchdog is enough to end a process, and the other process meets what it
left; two beats are one that a
watchdog counts and one that rewrites nothing; two misses are a miss that must
be forgiven and one that is not.

Doors: three calls are a reader, a writer in between, and a third that meets
what the two left (a rollback under a run, a move after a birth). Two faults
are a landing and its restore. Sets have two members, one a birth. Each request
of `MCDoors` has the shape of a door's: `AskPin` writes the anchor of another
page first, `AskLink` adds a link to a page others remove or move.

Currency: a queue of 2 overflows with one edit and one sentinel; a dirty set of
1 overflows with two members; two questions overlap. With two outside edits the
three invariants held as well (17.7 million states, run once).

Delta: a ring of 2 evicts, one reap begins a second instance, two writes are
one that a frame tells and one that interferes. The invariants held with three
writes (5.9 million, run once).

Threads, transactions and calls are symmetric; symmetry is not used for
liveness or refinement.

**Refinement.** `refines` maps a file to its bytes, or, while an intent is
decided, to the bytes recovery would give it: the old ones under `Restore`, the
new ones under `Forward` from the first rename. A transaction then happens in
one step: its finalization, or its first rename. The run has no I/O
errors: with one, `publish` may leave a decided intent and go on serving, and
what the store then holds depends on a recovery still to come.

**Fairness.** Residency: strong fairness of a thread's step (`std` mutexes
are not fair, but a mutex that is free again and again is not withheld
forever), weak fairness of the end of a patience (two seconds pass). No thread
has to start an operation or drop a pin. Publication: threads that can run
do, the condition variable wakes all waiters (`notify_all`), and a process that
died is started again; nobody has to start a transaction. Authority: a process
that is not hung gets on with its takeover, and a watchdog, which is a process
of its own on a timer, gets on with its watch; nobody has to beat, publish or
resign. Delta plane: a door and a cycle under way finish, a subscriber's push
loop delivers; the floor cadence comes round again and again and its lock
attempt succeeds again and again (strong fairness: other holders come and go,
each for one critical section), and a claimed subscriber's prime gets the gate.
Ordinary cycles may skip forever.

## 4. Disagreements found

Two have a run that TLC must find violated.

| run | what the code does | what the repository says |
|---|---|---|
| `stale` | a full pass absorbs the loss of a doubt that opened after the pass began, an edit under that doubt is dropped by `insert`, and a borrow takes the doubt away: the next question is vouched without the edit (20 steps) | `registry.rs:2439` the apply that follows `Seen` "folds in everything this door must guard against" |
| `clobbered` | `relocate` looks whether NEW is free before it takes the lock, never after: a page created there in between is acknowledged and then replaced by the rename | `relocate.rs:110` "the destination of a move must not exist", `relocate.rs:126` "no cooperating writer interleaves (G2)" |

The following were met the same way while modelling. The runs above are set up
around them, as each line says; there is no run for them.

Residency

- `begin_past` reads the slot's phase, `prepare` reads it again; a flight that
  fails in between is followed by a second one on its live reservation
  (`leases.rs:256`: "Do not start a second flight on that first wave's
  still-live reservation."), and the failed caller adds a raw owner no row or
  pin stands for (`ledger.rs:38`). `faults.strays` counts those owners, so that
  `OwnersCounted` says exactly how many there are, and that nothing else adds
  one; sums, counts, hints and owners are checked with a failing load (`core`).
  `LimitHeld` fails with failing loads and is checked without.
- The removal of an owed record after an admission (`controller.rs:315`) erases
  the turn of another lease of the same version, which may then wait out more
  than one oversized load (`docs/node-rev-merkle-spec.md:1007`: "A paused load
  therefore waits out one oversized" load). `TurnKept` speaks of versions whose
  record stands.

Publication

- A sync that fails after the intent is written (`intent.rs:136`) is answered
  as `PublishError::Io`, "Zero dest bytes changed.", with a decided intent on
  disk; `docs/laws.md:601`: "After that intent lands, no error is a refusal".
  The invariant `pc[t] = "io" => intent[t] # "decided"` fails. A caller may
  retry: with the same bytes the retry is acknowledged, and recovery, which
  knows a transaction by its digests, restores the old bytes under it, so
  `AckedKept` is checked for transactions that write different bytes.
- `commit_unknown` returns, and drops the reservation, with the intent decided
  and admissions open, where `docs/laws.md:597` has the reservation hold through
  durable finalization; the properties of `crash` hold all the same, since
  recovery quarantines what later writers changed.

Authority

- A kill between the declaration and the next `ready` leaves the marker; a
  later holder that is healthy is reported wedged until its own `ready` removes
  the marker (`authority.rs:963`).
- The first beat of a lifetime may write the count that the file already holds;
  the watchdog takes it for a miss. So `BeatingNotDeclared` asks for two.
- A takeover whose recovery outlasts the miss budget is killed while it works,
  since no beat lands before `ready`; and a marker that cannot be written ends
  supervision without any signal. `ServesOrLeaves` names both.
- A zombie is alive to signal 0: a dead holder its parent has not collected
  spends the whole budget (`authority.rs:699`).

Write doors

- `apply_set` promises that a failed landing leaves nothing
  (`fs/lib.rs:4364`). A landing is a rename and a sync of the directory;
  when the sync fails, the rename has happened, but `restore_renamed(i)` puts
  back only the members before the i-th. A failing sync of the receipt so
  leaves the receipt row standing over members that were all rolled back, and
  one of a member leaves that member. `faults` remembers who met which failure
  at which file, so that the properties say just how far this goes: the row of
  a set may stand without its members only when its own landing failed to sync
  (`ReceiptMeansLanded`), and a refused set is in one page at most, and in none
  unless a page of it failed to sync (`SetAllOrNone`). `doors` has failing
  renames and failing syncs.
- `CommitError` says of an I/O refusal that nothing was committed; a receipt
  rename that fails after the content landed is answered so
  (`write.rs:6812`).
- A splice judges its first read and lands on its second: under the lock no
  door is in between, but an editor may be, and the policies have then judged
  other bytes than those that land.
- A run without a frame sink (the command line's) commits under `run.lock`
  alone. It can overwrite a splice in the window between its verify and its
  rename, as the comment of `WriteLock` says, and can also strand a link that
  `remove` certified absent (`write.rs:2674` speaks of one critical section).
  Requests of `MCDoors` are armed; the theorems about doors assume
  `ArmedRuns`.

Currency

- A config edit that is folded as the daemon's own echo, because the bytes were
  equal when the echo test looked (`feed.rs:1192`), or a config edited during a
  full pass, serves a root under a membership its own config leaf does not name
  (`docs/node-rev-merkle-spec.md`, "Foreign domain-config edits collapse the
  vouch"). `VouchedLawful` exempts it (`Law` in `stray`).
- `overlay_leaf` is "MORE correct than a re-read", but sets a leaf back when a
  later edit's event was applied before the overlay. `stray` has that leaf.

Delta plane

- A subscriber whose ack carries the tip of a ring that moved past its baseline
  skips the frame in between (`registry/ring.rs:369`): `skipped`.
- An edit that puts a file back to what the baseline had, after a frame told
  the change, is told by nobody (`registry/ring.rs:843`): `PutBack`.
- A create overlapping an external change may frame the other file's change
  without naming it: `untold`.
- A push loop that finds a gap in the ring drops frames the subscriber was owed
  (`server.rs:1536`): `lost`.

## 5. What is proved

`tlapm` checks eight modules of theorems, each for every value of the model's
constants: any number of threads, transactions, processes, calls, pages,
subscribers, faults and crashes. Each theorem follows the same way: an inductive
invariant holds initially, every action keeps it (one lemma or step per action),
and it implies the property. The invariants were first checked by TLC on the
instances of section 3.

| theorem | property | the inductive invariant, and why it is needed |
|---|---|---|
| `ResidencyProofs!OneOversizedHolds` | `OneOversized` | `AloneInv`: the serialized slot names the reservation that was admitted past the limit. The property alone does not say who may admit next |
| `ResidencyProofs!LeasesCountedHolds`, `WaveLiveHolds`, `BodyStaysHolds`, `SingleFlightHolds` | `LeasesCounted`, `WaveLive`, `BodyStays`, `SingleFlight` | `Inv`: what a thread's locals are at each place of the code (`Place`; a trim is shared, so `Aim` is where it returns to), the references of a row counted like its calls and pins (`RefsCounted`), a lease's version is in the generation and not in its own hands (`Entitled`), a reservation is of the version its thread loads (`Belongs`), a loading slot has one loader (`Flown`), a used body a hot slot (`Used`). The four need each other: a row is dropped or a body shed when its counts are zero, so that nobody in a call loses them needs the counts, and that a counter is decremented only by who stands for it needs the places |
| `LedgerProofs!AccountsHolds`, `BooksHold` | `Accounts` | `BooksInv` and `ReservedInv`, with `Inv`. A running sum is compared with how many units its members are worth together, and a step moves it by what one member's worth moves (`WorthMoves`, `WorthEmptied`). That a step subtracts what is there needs `StoreInv`: which allocation a charged row names and shares with its slot (`ChargedRow`), that a retirement has its version to itself (`Ticketing`), what a failed finish has seen of its slot (`Snapped`), what a destruction still owes (`Leaving`), and that a raw allocation counts at least the owners it has (`OwnedInv`), whatever fails |
| `LedgerProofs!OwnersCountedHolds` | `OwnersCounted` | `OwnedInv` again, whose count is exact (the owners known and the strays of failed calls), and `UnfailedInv`, with `Inv`: before the first failing load no caller has a failure to record, so that there are no strays. That is not plain, since a spent revision also fails a caller: one that entered beside a flight reads the slot again, and finds it neither emptied nor out of revisions (`Provides`) because a called version is not shed and the entry keeps the ledger locked |
| `LedgerProofs!FindableHolds` |  | `ListedInv`, with `Inv`: every charged body that nobody retires, and every called version, is in the recency list, where trims and admissions look for it (`Findable`, which TLC checked on `overrun`). It is inductive because a version whose call finishes is still called, and so listed, when its body is first charged |
| `LedgerProofs!TypeOKHolds` | `TypeOK` | all of the above and `FlagsInv`: that no counter falls below zero follows from what it counts (`LeasesCounted`, `RefsCounted`, `OwnedInv`), and that no sum does from the sums |
| `OverrunProofs!NoSecondOverrunHolds` | `NoSecondOverrun` | `RetryInv`, with `Inv`: what an overrun taught is not forgotten while the retry of its lease may come (`Remembers`: the lease keeps its version in the generation, so no drop clears the observed size), no row keeps a join hint past its last call (`Hinted`), and a reservation that a retrying thread stands for declares what was observed (`Provided`), whether the thread opened it or entered it, since an admission never lets a call in beside a load declared for less |
| `OverrunProofs!TrimmedAtRestHolds` | `TrimmedAtRest` | `RestInv`, with all of the above: while an idle body lies above the limit, or an overrun's body lies unused, some thread stands where it will trim before it rests (`TrimOwed`). A step that leaves something to take is either a place from which the thread goes on to trim, or takes nothing's place; a trim ends when its selection finds nothing, which by `ListedInv` is nothing left (`OldestFound`). A trim that gave up for another reason would break it, so a retirement has to succeed: the ticket of a selection still holds when the shed checks it (`TicketInv`), since nobody else finds a slot that is retiring |
| `PublishProofs!ImagesBackedHolds` | `ImagesBacked` | `BackedInv`: a thread about to write an intent has stored its images, recovery runs alone, and it clears images only after their intent |
| `PublishProofs!PremisesStandHolds` | `PremisesStand` | `ApartInv`: transactions that hold reservations together do not conflict; with `CoveredIntersects`, that a write under a premise's region meets it |
| `PublishProofs!AllOrNothingHolds`, `AckedKeptHolds` | `AllOrNothing`, `AckedKept` | `DurableInv`, with `ApartInv`: every step that writes a file goes between the old and the new bytes of one transaction, so where another one's edit lies never changes; where a transaction's own edit lies is told by its thread's place (`Placed`), by its intent (`Decided`) and by recovery's place (`Recovers`) |
| `PublishProofs!PublishRefines` | `ImplementsAtomicStore` | `StoreInv`: while no file operation fails, decided transactions lie apart (`Faultless`), each of their destinations holds its old or its new bytes, and recovery rolls forward only what has an effect. `Turns`, `StoreStays`, `Stutters` and `Commits` then say which step of the store each step is |
| `AuthorityProofs!TypeCorrect` | `TypeOK` | part of `IInv` |
| `AuthorityProofs!RecoveredFirst` | `RecoveredBeforeOpen` | `IInv` = `TypeOK`, `LeaseHeld`, `LockHeld`, `WorkDone`, `Budget`, `HintNamesHolder`, `EpisodeTold`: only a holder of the lease serves, only a holder of `write.lock` recovers, and what a serving holder found is recovered |
| `AuthorityProofs!RecoveryExclusive`, `HintTrue` |  | recovery excludes every direct writer; the owner record names the holder it is read for |
| `AuthorityProofs!EpisodeStands` | `EpisodeTold` | a declared episode has its marker until the holder is gone or ready |
| `AuthorityProofs!BeatingSpared` | `BeatingNotDeclared` | `Attended`, a part of `IInv`: after the last sample a ready process was heard at, the count in the heartbeat file is one of its own, and above the watchdog's copy once that is one of its own too |
| `DoorsProofs!NoStrandingHolds` | `NoStranding` | `IInv` = `Shape`, `RunsArmed`, `LockHeld`, `Paged`, `Unreferred`: a door between its look at the referrers and its unlink holds `write.lock`, and nobody without it adds a link |
| `DoorsProofs!MoveWholeHolds` | `MoveWhole` | `MInv`: the list of pages a move still owes. While it holds the lock a page refers to OLD only if it is owed, and one that referred to OLD at the plan is owed, gone, or refers to NEW |
| `DoorsProofs!AckedStaysHolds`, `AckedStaysUnmoved` | `AckedStays` | `LInv`: from its look at a file to its rename, the image a call is about to write has every call's mark that the file has (`Kept`), what it has renamed carries its own (`Landing`), and what is acknowledged has landed (`Acked`) |
| `DoorsProofs!ReceiptMeansLandedHolds`, `SetAllOrNoneHolds` | `ReceiptMeansLanded`, `SetAllOrNone` | `RInv`, with `LInv`: the marks of an unfinished set are in the files it has landed and not put back (`Marked`), and in no image that is about to be written (`Sourced`), so a restore takes back exactly what was landed; both but for a spot, the page of a member that failed after its rename, which there is only then (`Extent`) and which another call's move may take elsewhere but no call can double. A call of which no step failed yet has no spot (`Unfailed`), so a set has one at most. A row of the receipt, in the file or in such an image, is of a call that landed everything, or whose own row failed to sync (`Rows`, `Spilt`) |
| `CurrencyProofs!StaleIsOwedHolds`, `VouchedCurrentHolds` | `StaleIsOwed`, `VouchedCurrent` | `IInv` = `Shapes`, `Clocks`, `Mutex`, `Owed`: who owes a leaf that is behind the disk (`FoldOwed`), who owes an open question the edits it is behind (`Fresh`), and the same for what a full pass has read so far, should it become the memo (`PassOwed`, `FreshPass`). `Ahead` says that what tells an edit stands in the queue before every sentinel that can answer the question; `Carry` says once what every step has to keep |
| `CurrencyProofs!VouchedLawfulHolds` | `VouchedLawful` | `LawInv`: the memo's membership is its config leaf's, and a take judged an echo finds the config as it is already folded |
| `DeltaProofs!SeqsGrowHolds` | `SeqsGrow` | `IInv` = `Typed`, `Flocked`, `Numbered`, `Owned`, `Anchored`: a number that is reserved and not recorded is above the tip, and its owner holds the flock |
| `DeltaProofs!AnchorsStand` | `AnchorsHold` | a live cursor belongs to the ring instance that is there |

**Assumptions.** `ResidencyAssumption` (finitely many versions, threads, allocations of a version
and reservation identities; trees and declared
peaks are at least one byte), `BoundsAssumption` (the limits,
floors and staging sizes the host may choose are numbers), `PublishAssumption`,
`PremisesAssumption` (a folder premise names a folder), `AuthorityAssumption`,
`WatchedAssumption` (the watched are processes), `NoneIsNoCount`, `DoorsAssumption` (finitely
many pages), `RequestsAssumption` (a move has two different pages; a request has
the shape of its door), `CurrencyAssumption` and `DeltaAssumption` stand in the
modules that declare the constants, and TLC evaluates them in the runs. Some
theorems have a hypothesis of their own:

- `ArmedRuns` (every run has a frame sink) is what the daemon does and the
  command line does not; without it the properties fail (section 4).
- `[][NoClobber]_vars` (no move replaces a page) is a hypothesis on the
  behaviour, since the code does not keep it: the run `clobbered` shows a move
  that replaces an acknowledged page. `AckedStaysUnmoved` has a hypothesis on
  the constants instead: no request is a `relocate`.
- `DistinctEdits` (no two transactions make the same bytes of the same old
  ones) is the condition under which recovery can tell a transaction from
  another by digests; without it `AckedKept` fails (section 4).
- The refinement assumes `MaxFaults = 0`, for the reason given in section 3.

`MoveWhole` exempts the page at NEW. `relocate` rewrites it as it rewrites any
page that refers to OLD, and then renames OLD over it.

**Only model-checked.** Liveness (`LeaseEnds`, `WaitEnds`, `RecoveryEnds`,
`ServesOrLeaves`, `CatchesUp`, `SubAnswered`) and ENABLED
(`SelfBlockedIsBlocked`) are out of the prover's reach. Of residency also:

- `LimitHeld`, `SlotKept`: they need what a reservation still
  covers of a load, or what a thread has learned of a size, on top of the sums.
  Both exempt what an overrun accounts for (`Excess`): its body until that is
  shed, and the storage that raw pins keep after it, since neither was reserved.
  The sizes decide how much that is, so `overrun` has a storage that is larger
  than the peak: without the second exemption `LimitHeld` fails there.
- `TurnKept`: it speaks of a history variable, and of the order in which the
  threads of the whole list were woken.

`FramesMatchDisk` filters a sequence recursively. `NothingUntold`
exempts an edit that puts a file back to what a frame told, and knows it by the
frames the ring still has; with constants that let the ring evict that frame the
exemption would have to be wider, so it is not stated for all of them.

## 6. What is not modelled

- **Residency:** the byte sizes of the tables, metrics, the measurement of
  floors, and the SQL budget. Limits and floors move by actions of their own.
- **Publication:** the manifest of a group, which recovery never reads; the
  encoding of intents; the epoch they carry; loss of power; the temps that a
  decided transaction leaves when `drop_tmp` fails.
- **Write doors:** temps before the rename, dry runs, policies and middleware
  (they refuse or choose bytes, and change nothing), the arithmetic of spans, the
  journal of a run's steps, and the birth lane of `apply` for files that do not
  exist, which `create` stands for.
- **Currency:** the arithmetic of stat trust (times, sizes, inodes), the walk
  that counts a tree's members, checkpoints.
- **Delta plane:** the classification of a change into rows, summaries of a
  rescope, frame encoding.
- **Components without a module:** retention, write fence, step guard,
  registry and engines, wedge, census, checkpoints and the cache drawer keep
  state, and are next (section 7). Model, syntax, addr, config, wire, git,
  policy, query, render, receipt, view, realise, effects and the command line
  are functions from bytes to bytes or sequential I/O: what could go wrong in
  them is in their data, a parser or a printer at a time, and a test reaches it.
  Each is listed in `PROJECT.json` with its reason.

The implementation has about 190 thousand lines. Most of them are parsing,
projection, rendering, command-line handling and tests; the model covers the
parts where order, failure and concurrency decide.

## 7. Plan

1. Theorems: `LimitHeld` and `SlotKept`, which rest on `Accounts`.
2. `Fence`: generations of the write fence and the step guard between a run's
   read and its commit.
3. `Registry`: register, boot, swap and reap of mounts beside running requests,
   with `wedge`'s verdict and the late answer of an abandoned step.
4. `Census`: measured floors and the SQL budget that move under the controller.
5. `Drawer`: sentinels, last-use stamps and the sweep beside a registration.
6. The journal of a run: plan, step, resume after a death.
