# baerly-storage: a TLA+ verification project

baerly-storage keeps JSON collections in an object store and nothing else: no
lock service, no queue, no database. All coordination is by conditional PUTs on
one bucket. This project models the protocol that makes this work, checks it
with TLC on small instances and proves its main properties with TLAPS for all
sizes.

## 1. The system

| Part | State it keeps | Operations | Talks to |
|---|---|---|---|
| Writer (`server/src/writer.ts`) | none between calls; per call: probed slot, session nonce | `commit`: read manifest, find tail, PUT log entry if absent, resolve lost answers, delete-floor check, after-commit maintenance | manifest, log, index markers |
| Tail probe and walk (`log-tail.ts`, `log-walk.ts`) | none | gallop and bisect, chunked forward probe, strict walk, fold | log |
| Manifest (`protocol/src/coordination/current-json.ts`) | `current.json`: snapshot key, `log_seq_start`, `tail_hint`, `log_delete_floor` | create, read, CAS under `If-Match`, transition check | everyone |
| Compactor (`compactor.ts`) | per call: manifest read, rows folded so far | `compact`: fold `[log_seq_start, end)` onto the snapshot, write it, CAS the manifest | log, snapshots, manifest |
| Retention (`log-retention.ts`) | none | certify a delete floor by CAS, then DELETE the range | manifest, log |
| Reader (`query.ts`) | per call: manifest read, rows | `runReadRows`: snapshot, strict walk, forward probe, fold, filter | manifest, snapshots, log, index markers |
| Snapshot GC (`gc.ts`, `gc-pending.ts`) | ledger of candidates | mark, rescue, sweep, CAS-merge of the ledger | snapshots, manifest |
| Maintenance tick (`maintenance.ts`) | per-process rate limits | decides when to fold, refresh the hint, collect, retire | all of the above |
| Secondary indexes (`indexes.ts`, `rebuild-index.ts`) | marker objects | PUT before and DELETE after the commit, walk, rebuild | bucket, writer, reader |
| Change feed (`http/since.ts`, `cursor.ts`) | cursor with a generation | list events since, long poll | log, manifest |
| Restore and admin (`cli/src/admin`) | none | re-seed a collection as a new generation, dump, fsck | bucket |
| Storage adapters (`protocol/src/storage`, `adapter-*`, `dev`) | bucket contents, key locks | GET, PUT (conditional), DELETE, LIST, retries | network, files |
| Client (`client/src`) | subscription pool, query cache | request with retry, poll loop, fan-out to hooks | HTTP |
| Worker and cache (`adapter-cloudflare`) | edge cache entries | cached reads, invalidation on write | HTTP, server |

The bucket is the only shared memory. Actors never call each other; a writer's
host may start a maintenance tick after the acknowledgement. Every actor works
from a manifest it read earlier, and nothing stops it from being paused for as
long as it likes between any two storage calls.

What is hard, and what makes each part correct:

- *Commit.* The commit point is one `If-None-Match: *` PUT of `log/<seq>.json`.
  Its answer can be lost, an earlier send can arrive after the call has ended,
  and the slot can have been deleted since it was probed, so that the create
  wins in a place no reader looks. Correct: an acknowledged commit is in the
  history, a failed one never is, none is live twice.
- *Fold.* The compactor publishes the fold of entries it read over many steps.
  Correct: a published snapshot is exactly the fold of the committed prefix.
- *Retire.* Objects are deleted only after a floor over them is durable.
  Correct: nothing at or above the floor is ever missing or overwritten.
- *Read.* A reader sees a manifest, a snapshot and a log suffix at different
  times. Correct: it returns the state of one committed prefix that holds all
  that was committed before it began.
- *Snapshot GC.* A candidate can become live between mark and sweep. Correct: the
  snapshot the manifest names exists, and orphans go in the end.
- *Indexes.* Markers and entries are separate objects; a marker delete can
  overtake a later marker PUT. Correct: outside that one race, which the code
  documents, a live row has its marker, and an index read returns what a scan
  would.
- *Verbs.* An insert checks for the id long before its create; a batch commits
  row by row, and a send may land after its call has ended. Correct: the first
  insert of an id wins, a batch commits each row at most once, and an answer says
  no more than was written, but for calls that retirement overtook.
- *Change feed.* A cursor outlives retirement and restores. Correct: the events
  up to an accepted cursor are all there were, and new ones arrive.
- *Maintenance.* Ticks run beside commits, may die, and do one phase each.
  Correct: neither the hint nor garbage collection falls behind for good.
- *Planner, chunks.* Pure decisions with many boundaries. Correct: they agree
  with a plain scan and a plain fold.
- *Client, cache, adapters.* Answers are lost, late, repeated, or not the
  server's. Correct: what is reported or shown is true.

`PROJECT.json` lists these hazards at their lines, with the properties that
cover them.

## 2. Modules

| Module | Models |
|---|---|
| `LogFold` | what folding an entry does to the document map, and an order-free reference definition `Live(h, n)` of the state after `n` entries |
| `Manifest` | `current.json` as a record, the shape and transition checks, `certifiedDeleteFloor`, `computeRetirableRange` |
| `CommitLog` | one collection: writers, delayed PUTs, compactors, retirement and DELETEs, readers; the properties; the refinement mapping |
| `AtomicStore` | the abstract specification of a collection: atomic commits and an outcome per call |
| `CommitLogInv` | the inductive invariant |
| `CommitLog_proofs` | invariance, the safety theorems, and that `CommitLog` implements `AtomicStore` |
| `SnapshotGc` | snapshot objects and the ledger `gc/pending.json`: GC passes, compactors, readers, restore |
| `DocVerbs` | insert (guarded, with the replay of a minted id), update, replace and delete: read, plan, capacity refusal, one commit per row with its uncertain sends, readback and delete-floor check, against fold, certification and deletion of log slots |
| `Collection` | the abstract specification of the verbs: atomic row writes and an answer per call |
| `IndexMarkers` | one secondary index: marker PUTs, commit, marker DELETEs, paged index reads, rebuild |
| `ChangeFeed` | `GET /v1/since`: cursors, generations, the long poll, against commits, folds, retirement and `admin restore --force` |
| `MaintenanceTick` | when a commit fires a tick, what the tick does first, how it ends, and the scheduled pass |
| `QueryPlan` | predicates: matching, satisfiability, implication; the choice of an index, what it holds, its walk |
| `ChunkedFold` | the chunked snapshot: routing, prefetch, budgets, split, facing merge, against the fold one entry at a time |
| `Listing` | the elements of a set in order, a filtered list, a concatenation, without recursion |
| `StorageCall` | one conditional PUT through `retryStorageCall` and each adapter's status mapping |
| `LocalFs` | the file-system adapter: format marker, canonical lock key, FIFO key lock, staged publication |
| `SubscriptionPool` | the client's live queries: shared cache entries, shared table polls, late answers, recovery |
| `ReadCache` | the worker's cache of single rows, by colo and tenant |
| `ClientCall` | get, insert and delete over HTTP, with retry, repeated requests and proxies that answer for the server |
| `UseMutation` | the mutation hook: overlapping calls, the in-flight counter, the mounted flag, what is rendered |
| `Maintenance_proofs` | theorems about `SnapshotGc` and `MaintenanceTick` |
| `Server_proofs` | theorems about `DocVerbs`, `StorageCall` and `LocalFs`; that `DocVerbs` implements `Collection` |
| `Listing_proofs` | what the lists of `Listing` hold |
| `Chunk_proofs` | the theorem about `ChunkedFold` |
| `Index_proofs` | theorems about `IndexMarkers` and `QueryPlan` |
| `Live_proofs` | theorems about `ChangeFeed` and `SubscriptionPool` |
| `Client_proofs` | theorems about `ReadCache`, `ClientCall` and `UseMutation` |
| `MCCommitLog`, `MCVerbs`, `MCMaintenance`, `MCServer`, `MCRead`, `MCParts` | values of the constants for TLC; `MCMaintenance`, `MCServer`, `MCRead` and `MCParts` check several modules side by side |

The modules stack: `CommitLog` shows that a collection is an atomic store whose
commits are single steps and whose reads are fresh prefixes, `StorageCall` that the
three outcomes of a create it assumes are the ones a PUT really has. The modules
above it (`DocVerbs`, `IndexMarkers`, `ChangeFeed`, `MaintenanceTick`, `ReadCache`)
take a commit, a fold or a read as one step for that reason, and model in single
storage calls what is their own. `DocVerbs` in turn shows that what the callers of the
verbs see is a `Collection`: row writes that happen at one moment each. `SubscriptionPool` takes a poll's answers from
`ChangeFeed`.

### State and actions of CommitLog

`current` and `provisioned` are `current.json`; `log` is the set of log objects;
`inflight` the create PUTs that may still arrive; `deletes` the DELETEs issued
and not executed; `commit`, `fold` and `read` the local state of every running
call, with `pc` naming its next storage call. `tail` and `hist` are history
variables: `hist[s]` is the first entry slot `s` ever held. No action reads them
except to maintain them (and to record a read's `need`).

One storage call is one step:

- `StartCommit` reads or provisions the manifest. `ProbeHead`, `GallopHit`,
  `GallopMiss`, `Bisect` are `findLogTail`, a GET each; `ProbeFails` is a GET
  that throws. `CreateOk`, `CreateRejected` and `CreateUnresolved` are the three
  outcomes of the PUT; `ResolveOwn`, `ResolveForeign` and `ResolveAmbiguous` the
  readback of the occupant; `FloorAccept`, `FloorReject`, `FloorSkip` and
  `FloorAborted` the delete-floor check; `RefreshTailHint` the hint refresh of
  the tick that follows a commit.
- `Deliver` lets a delayed PUT arrive; `DeleteSlot` executes an issued DELETE. A
  DELETE that never executes is a crashed or failed retirement.
- `FoldStart`, `FoldProbe`, `FoldCheckpoint`, `FoldWalk`, `FoldPublish` are
  `compact()`, `FoldAbort` all the ways it ends without publishing.
- `Retire` is `retireLogRange`.
- `ReadStart`, `ReadEntry`, `ReadHole`, `ReadEnd` are the full scan of
  `runReadRows`.

A crash is an actor that takes no further step. What it leaves behind (an entry
with no ack, a floor without deletes, a fold without publication) is a state of
the model.

### State and actions of SnapshotGc

`objects` are the snapshot objects, each a record of the position it is folded up
to and its content; `current` the manifest fields `generation`, `log_seq_start`
(`floor`) and `snapshot`; `pending` the ledger; `sweep[p]` the DELETEs a pass has
under way and `stray` those of passes that threw.

- `GcStart`, `GcLoad`, `GcMark`, `GcGate`, `GcDelete`, `GcMerge` are steps 1 to 5
  of `runGc`. `GcGate` is the second manifest read and everything computed from
  it: `Dropped` (evicted, wrong generation, rescued), `Sweepable` (due and below
  the fresh floor), `Swept` (the first `maxSweepsPerRun`). `GcFail` is any throw,
  `StrayDelete` a DELETE that executes after it.
- `FoldBegin`, `FoldPut`, `FoldCas`, `FoldEnd` are `compact()` as far as snapshot
  objects are concerned.
- `RestoreReseed` and `RestoreClear` are `admin restore --force`: the new
  manifest, then the deletion of the ledger. It reseeds only while no pass is
  under way (`Exclusive`), the operational exclusivity that the comments in
  `restore.ts` require for maintenance too.
- `ReadHead`, `ReadLoad` are a read that follows the pointer.
- `GraceElapses` makes every mark due. `ClockSkew` lets a pass run on a clock
  ahead by the whole grace (or with `graceMillis: 0`): all marks are due to it.

### Abstractions

- A log entry is the nonce of the commit that minted it; `DocOf` and `OpOf` give
  its document and operation. A document map is a set of entries, at most one
  per document.
- A snapshot key embeds the hash of its content and loads verify it, so the
  manifest holds the content. ETags depend on the bytes, so `If-Match` is
  equality with the manifest that was read.
- `casUpdateCurrentJson` is atomic at its PUT.
- `walkLogRange` and the probe issue GETs in parallel chunks; the model fetches
  in ascending order, one GET per step. Slots at or above the delete floor never
  change once filled, so the order matters only below it, where the compactor's
  CAS fails and `ReadIsFreshPrefix` makes no claim.
- A reader that meets a storage error returns no rows: it stops, like a crash.
- The byte ceiling, decode errors and signals of the compactor are `FoldAbort`.
  The row ceiling is modelled, because it cuts a fold short.
- Adoption compares session, slot and intent; entries of one nonce are always
  minted by one call at the slot they are stored in, so only the session can
  differ.

In `SnapshotGc`:

- Every fold of one prefix of one generation has the same content (that is
  `SnapshotIsFold`), so a snapshot's content is the generation's `data`, and two
  compactors that fold to one position write the same object. A restore may bring
  the same data back.
- The log, the hint and the delete floor are left out; a manifest update that
  changes only them makes a compactor's CAS fail, which `FoldEnd` allows.
- `Opaque` stands for the legacy `orphan-content` entries. The legacy `stale-log`
  arm is not modelled, nor is a manifest that disappears during a pass.
- The mark phase's LIST is one step.
- `createGcPending` and the retry loop of `casUpdateGcPending` are atomic at their
  PUT; a loop that never wins is `GcFail`.
- Every ledger, a legacy one included, was cut to `MaxCandidates` when it was
  written.

### The other modules

*DocVerbs.* `history` is the committed log, `slots` the objects that are left of
it. `BeginInsert`, `BeginUpdate`, `BeginReplace`, `BeginDelete` are the reads and
plans of the verbs, `Refuse` the capacity check, `ProbeTail` to `CheckDeleteFloor`
the commit of one row. A guarded insert opens a window from the prefix its absence
check covered (`OpenWindow`), reads it one GET a step (`WindowEntry`), gives up if
retention took part of it (`WindowRetired`), decides (`decideInsertTarget`), and
decides again on every slot it loses (`ResolveForeign`). Create and readback are
separate steps, as in `CommitLog`: `CreateUncertain` leaves the send landed, lost or in
flight (`late`); the readback finds the call's own entry, a peer's, or nothing it can
tell from (`ResolveAmbiguous`); and a send in flight may land at any time, after the
answer too (`Deliver`). `CheckSkipped` is the manifest re-read that fails and is
swallowed. Slots below the certified floor are deleted and re-used; `overtaken` marks
the calls that relied on one: read it into a window, took its occupant for proof
that their own send had not landed, or were acknowledged on it without the check (finding
1). The properties excuse these calls where the code cannot do better, and say so. A
body is a flat record; a merge patch is one level deep.

*IndexMarkers.* A commit is `PutMarkers`, `CommitEntry`, `FindStale` (the pre-image
scan with its budget), `DeleteStale`; `CommitCrash` ends it anywhere. An index read
is one LIST page per step and then the fold, with the re-check of every row. A marker
DELETE that lands late is `DeleteStale` taken late: the call counts as handling its
document until it has.
`contended` records documents two calls handled at once, where the delete after
the commit may remove a marker the other call has just written.

*ChangeFeed.* A poll reads the manifest, probes the tail, screens the cursor
(`Refused`), gets one entry a step, answers; `PollEmpty` is another round of the
long poll. A restore lists the log, seeds the manifest above every key left, writes
the rows, stamps the tail, and may crash between any two. `restore.ts` demands that
no writer runs beside it; retirement and polls do.

*MaintenanceTick.* `CommitAndDispatch` is a commit and the tick it starts;
`FirstPhase` what the tick decides from its manifest read; the rest one step per
phase. Whether the ratio trips and whether the snapshot is under the ceilings is a
choice. `phases` covers both profiles and `BAERLY_MAINTENANCE_DISABLE`.

*QueryPlan.* A behaviour is one query over a collection that holds every document
of the document space. Values have a type and a rank; strings have two, the order of
their UTF-16 units, by which `matches` compares (`JsLess`), and that of their UTF-8
bytes, by which the index is walked (`EncLess`, any function `Utf8Rank`).

*Collection.* `writes` is every row write so far, in order. A call begins after some of
them (`since`), writes each row it has to write at most once, and gets an answer
whose meaning is `Promise`; after an ambiguous answer a write may still take effect.
`Effect` is computed from the row the call saw when it
began and written over whatever is there: that updates are last-write-wins per row is
part of the contract. `blind` is the one exception, a call that retirement overtook.

*ChunkedFold.* A body is its encoded size; a chunk a map from ids to bodies; an id
a number, as any finite set of ids is ordered like numbers. `folded` is history: the
reference fold after each entry that is not yet published. `Split` cuts the documents at
`Starts`, the least set that holds the first id and, with a start, what follows the
longest prefix that fits from there: the values `start` takes in the loop.
`Prefetch` is phase 1 with its budgets, `TryEndpoint` phase 2 for one more entry.
A merged chunk past the byte or the row ceiling (`Oversize`) is an evaluation that
throws, and one that throws folds nothing (`FoldNothing`). No production code calls
the planner yet.

*StorageCall.* An attempt is a request that may be lost, arrive late, or be applied
with its answer lost; peers write and delete the object. `Refusals` and
`Acceptances` are the answers of each store. The R2 binding has no status codes; the
adapter reads the wording of its errors, and the model assumes that the wording it looks
for is used by refusals only.

*LocalFs.* One process, two instances, one of them through a symbolic link, one
key. The steps are the file-system calls whose answers matter.

*SubscriptionPool.* Every `await` is a step boundary; aborted requests and loops
finish late. `LoopReturns` is the exit of an aborted loop, `LoopGivesUp` the same exit
taken on an `AbortError` of the fetch itself, with the controller not aborted: the poll
is then `silent`. The server is two counters per table.

*ReadCache.* One document per tenant; `tainted` records the cases the cache leaves
to expiry. `WriteUncertain` is a write that may have committed and is answered with
an error, which invalidates nothing.

*UseMutation.* One instance of the hook; React's effects are external. The runs
mount it as a production build does.

*ClientCall.* One row. A proxy may answer before or after the server acts, or send
a request again. A delete is two steps of the server, the read of the row
(`ServeHold`) and the commit of its tombstone (`ServeCommit`), which checks nothing.

## 3. Runs

| Run | Checks | Shows |
|---|---|---|
| `commit_retire` | `TypeOK`, `ManifestOrder`, `DenseLog`, `AckedIsCommitted`, `OneLiveEntryPerCommit`, `FailedIsNotLive`, `ManifestMonotone` | writers with two delayed PUTs against fold, checkpoint and retirement |
| `fold_mixed` | `SnapshotIsFold`, `IsAtomicStore` | two documents, a tombstone, a row ceiling of one, no retention window: partial folds and deferrals are exact, the bucket implements the atomic store |
| `read_scan` | `ReadIsFreshPrefix` | scans racing all of the above |
| `commit_live` | `CommitTerminates` | three writers, six slots, delayed PUTs: every call ends |
| `ack_skipped_check` | `AckIsNeverInvisible` (violated) | finding 1 |
| `gc_tick` | `LiveSnapshotExists`, `MarksSurvive`; `HintLagBounded`, `GcNotStarved`; `FreshRootAccepted`, `CasReplacesItsBase` | two passes, one of which may die, and a restore that deletes the ledger under them: the live snapshot stays, no mark is lost; ticks that fold, defer, collect, throw and die; three file calls on two instances |
| `gc_sweep_live` | `OrphanSwept`, `GraceCoversRead` | a ledger filled with legacy entries, a pass that dies, a restore and reads: orphans below the floor still go, and a read shorter than the grace finds its snapshot, unless a mark of it was due when the read began |
| `verbs_storage` | `FirstInsertWins`, `BatchIsExact`, `IsCollection`; `VerdictIsTrue` | inserts, a replay, an update of two rows, a replace and a delete of the same rows, with lost answers, a send that lands after its call ended, and checks that are skipped: what their callers see is a collection of atomic row writes, and the answers are true (`ExistsVerdictIsTrue`, a theorem of its own, is part of it); a PUT sent three times |
| `feed_plan_chunks` | `AcceptedCursorIsComplete`, `LiveLogIsExact`, `FeedDelivers`; `IndexRouteIsComplete`, `RefusedMatchesNothing`; `ChunksAreFold` | a follower across fold, retirement and a crashing restore; every query of two clauses against every index list; folds of folds |
| `index_client` | `LiveRowIndexed`, `IndexReadExact`, `RebuildExact`; `OnePollPerTable`, `DataNeverRegresses`, `ReportedIsShown`, `ParkedOnlyOnDeadPoll`, `RecoveryBacksOff`; `StaleEntryIsExplained`; `ClientAnswerIsTrue`; `PendingIsTrue` | crashes between markers and entry, a scan and a rebuild; mounts and unmounts around late answers; two tenants in two colos; proxies; overlapping mutations |
| `cache_put` | `GetSeesCompletedWrites` (violated) | finding 2 |
| `rebuild_cli` | `HealthyRebuildIsNoOp` (violated) | finding 3 |

*Side by side.* `gc_tick`, `verbs_storage`, `feed_plan_chunks` and `index_client`
each hold two to five modules that do not interact. A variable `which` picks one of
them in the initial state and only that one takes steps, so a run explores the
disjoint union of the state spaces; a property of one module holds in the others'
states because nothing of it has moved. Deadlock is not checked there, nor in
`commit_live`: all calls may have ended, or a bound be reached.

*Bounds.* `MCCommitLog`: three writers are the smallest number for the schedules
that matter (one paused, one whose commit is folded and retired, one that extends
or re-fills); three slots hold them; one compactor call may be repeated any number
of times, and the prover covers several at once. `MaxInflight` bounds delayed PUTs,
`MaxSeq` the log. `SnapshotGc` needs two positions, a snapshot below the floor and
one at it; one restore; and a ledger cap of two, so that a few entries fill it. In `gc_sweep_live` the cap is as large as the number of
snapshots at or above the floor can be: such orphans stay in the ledger until the
floor passes them, and more of them than the cap (an unmoving floor and as many
compactions that lost their CAS) would keep others out.

`DocVerbs`: three calls (an inserter, its rival, and one that deletes or rewrites; each
has its own requests, so no symmetry is left),
four slots, one of them kept behind the fold, so that a window can be folded and deleted
while it is read, and one send in flight at a time; four slots hold a batch of two rows and an entry of each of its
rivals. `StorageCall`: three attempts (an uncertain one, a refused one, one in between)
and three versions. `LocalFs`: three calls and one crash. `ChangeFeed`:
two slots, a window of one, one restore; two slots per generation suffice for a cursor
that is behind, at and past the floor. `QueryPlan`: queries and filters of at most two
clauses, because every rule of the planner looks at two at a time; two strings suffice for two orders that
disagree. `ChunkedFold`: four
documents, bodies of two sizes, a target of five body bytes, two entries per fold and any
number of folds, with a row ceiling of three; the entry and touched-chunk budgets are wider than two entries can
reach, the mutation, byte, split and neighbor budgets are not. `IndexMarkers`: two commits of one
document and a pre-image budget of two; documents share no marker. `MaintenanceTick`:
four commits, two isolates, a GC interval of two with a guard of two, one fault.
`SubscriptionPool`: two queries over one table, two hooks, two reads of one query, one
commit. `ReadCache`: three requests, two tenants, two colos, three versions.
`ClientCall`: two calls of two tries, one repeated request. `UseMutation`: three calls.

*Fairness.* `FairSpec` assumes weak fairness of the steps each commit call takes on an answer, and
of nothing else: every storage call returns or throws, since the adapters cap
attempts and time each one out, and the call then goes on unless its host dies.
Nothing is assumed of peers, of delayed PUTs or of maintenance. `FairSpec` of
`SnapshotGc` assumes that passes keep being started (a cron, or the ticks of later
writes) and go on, that issued DELETEs execute, and that time passes (strong
fairness, because the model lets the grace run out only between passes).
`OrphanSwept` promises nothing for a collection that gets no maintenance.
`FeedFairness` assumes that a follower's poll goes on and is asked again (the client's
loop does that), and that a restore does not stay half done for ever: it ends or
its process does. Nothing is assumed of commits, folds or retirement.

*Findings.*

1. A paused writer re-fills a retired slot, its manifest re-read fails, and it
   acknowledges a mutation nobody can see (`writer.ts:1262`), where the protocol
   document says the check fails rather than acknowledging.
2. `invalidateOnWrite` ignores PUT (`cache.ts:38`), so the worker keeps serving a
   replaced row from the colo that replaced it until the entry expires.
3. `baerly admin rebuild-index` drops the index's `predicate`
   (`cli/src/admin/rebuild-index.ts:124`), so it adds to a healthy filtered index the
   markers of rows the filter excludes, where the header of
   `server/src/rebuild-index.ts` says that re-running on a healthy index is a no-op.
   Reads re-check the rows they find, so none of them turns wrong.

*Observations.* Sentences of the documentation or the comments that the models refute
in schedules with paused actors, or at boundaries. Most have a definition in their
module, checked by no run; put it in place of a run's properties to see the schedule.

- `ForeignOccupantProvesNotLanded` (`CommitLog`, cfg of `commit_retire`): a foreign
  occupant does not prove that a send did not land (`writer.ts:754`): it may have
  landed, been folded and retired, and a peer have re-filled the slot. The protocol
  document admits at-least-once, the comment's argument does not.
- `ProbeNeverStopsInHole`, `RefilledSlotIsNeverRead` (`CommitLog`, cfg of `read_scan`):
  a reader paused across retirement takes a retired slot for the tail
  (`query.ts:919`), or folds an entry that re-filled one (`query.ts:918`).
- `PointerResolves` (`SnapshotGc`, cfg of `gc_sweep_live`): a short read can find no
  body behind the pointer it was just given (`snapshot.ts:133`): a pass that read
  the manifest before a snapshot was written marks it while it is being published,
  so that the mark is due long before the snapshot is superseded.
- Finding 1 seen through the verbs: `insert`, `update`, `replace` and `delete` may answer
  with success and have written nothing, if a peer folded and retired the slot they were
  about to fill and their manifest re-read failed. `BatchIsExact` and `IsCollection` excuse
  exactly these calls.
- Two deletes of one row that run at once both report it as deleted: `runDelete` reads
  and then commits a tombstone without a guard (`query.ts:779`).
- `AtMostOneInsert` (`DocVerbs`): a guarded insert whose window lies below a floor
  certified while it was read may see a re-filled slot in place of the insert it
  should have seen.
- `ImplicationIsSound` (`QueryPlan`): an `in` over mixed types, or a filter that
  combines `in` and a range, is judged by one bound (`query-planner-implies.ts:228`).
  `IndexRouteIsComplete` lists the queries an index walk may answer with fewer rows;
  besides these, an index over two fields omits rows without the second, and objects
  are matched open-world but indexed exactly.
- The comment at `query.ts:1064` says that the index encoding preserves the order of
  values. Strings are encoded in UTF-8 (`indexes.ts:212`) and compared in UTF-16 units
  (`matches.ts:158`), which order characters beyond U+FFFF and those from U+E000 to
  U+FFFF differently, so a range walk may stop before a row that a scan returns
  (`query.ts:1097`). `IndexRouteIsComplete` excuses exactly the documents whose value
  the two orders put on different sides of a bound of the query.
- A poll loop ends without an error on an `AbortError` of a pluggable fetch
  (`subscription-pool.ts:282`); nothing revives the poll until its last watcher leaves.
- A write that committed and was answered with an error (an ambiguous commit, a failure after
  it) leaves the cached row in place until it expires (`cache.ts:223`).
- `LiveQueryIsFresh` (`SubscriptionPool`): a commit that is folded before the first poll
  has a cursor is never reported.
- `PendingIsTrue` (`UseMutation`, with `StrictMode = TRUE`): the effect's cleanup sets
  `mountedRef` to false and nothing sets it back (`use-mutation.ts:52`). React runs that
  cleanup at the mount under `StrictMode` in a development build, as in
  `examples/react-node/src/web/main.tsx`: the hook then shows no pending state and no
  error at all.
- `SuccessClearsError` (`UseMutation`): the comment says that the next successful call
  clears the error; only a call that starts while none is under way does
  (`use-mutation.ts:61`).
- `applyFacingMerge` encodes the merged chunk without catching the oversize error that
  the splitter catches (`snapshot-chunk-builder.ts:303`): an underfull chunk beside a
  full one then fails the whole fold instead of leaving the neighbor alone, under
  the policy whose target is the maximum. The planner is not in use yet.
- A CAS whose first send landed and whose answer was lost is reported as
  `WriteConflict` (`retry.ts:131`); every caller re-reads, so nothing is lost.
- The feed notices a gap only because a batch is no longer than the retention window
  plus one (1024 each).
- `update` and `replace` overwrite concurrent commits of the same row; the
  documentation says so, so no property claims otherwise.

`ReadIsFreshPrefix`, `AckedIsCommitted`, `GraceCoversRead`, `FirstInsertWins`, `BatchIsExact` and
`StaleEntryIsExplained` are the strongest forms of these claims that do hold.

## 4. Proofs

All theorems hold for every value of the constants that satisfies the named
`ASSUME`s, which TLC evaluates on the runs' instances. What the assumptions say:

- `CommitLog`: bounds are naturals, the probe budget is positive, `NoEntry` is not a
  session, every session has a document and an operation.
- `DocVerbs`: a request is what the verbs accept (an insert or a replace names one
  document and carries a body, an update carries a patch); `Absent` is neither a row nor
  a log entry.
- `SnapshotGc`: contents are numbers (ordered as hashes are), the cap of the ledger is a
  natural. `ChunkedFold`: the target of a chunk is no more than its maximum, in bytes
  and in rows, and at least one row; ids are natural numbers.
- `MaintenanceTick`: intervals, gaps and caps are positive, there are finitely many
  isolates. `SubscriptionPool`: finitely many hooks, and `Unmounted` is no query.
- `ChangeFeed`: the retention window is positive and a batch no longer than the window
  plus one. Both are needed. With a window of 0 a restore can start over at slot 0
  while a DELETE for that slot is on its way, which then removes a restored row. The
  code's window is 1024 (`constants.ts`); its comment calls the window a cost margin
  that carries no safety obligation, which is so for readers and writers, and not for
  a restore that races a retirement.
- `QueryPlan`: clauses are what `validateClause` lets through, index definitions what
  `validateIndexDefinition` does. Ranks are naturals: one query compares finitely many
  values, and any finite set of numbers or strings is ordered like ranks. Of the two
  orders of strings nothing is assumed, not even that different strings have different
  encodings (unpaired surrogates do not).
- `IndexMarkers`: values are numbered in LIST order. `LocalFs`, `StorageCall`,
  `ClientCall`, `ReadCache`: bounds are naturals.

Four theorems carry a hypothesis of their own. `GraceCoversReads` assumes that no pass
runs on a clock ahead of the others' (`TRUE \notin ClockSkew`): a pass that is early
sweeps under a short read. `PendingIsExact` assumes
`StrictMode = FALSE` (a production build; see the observations). `RebuildsAreExact`
and `HealthyRebuildsDoNothing` assume `RebuildDef = "full"`, a rebuild that is given the
index's predicate; the violated run `rebuild_cli` shows what happens without.

| Module | Theorems | State |
|---|---|---|
| `CommitLog_proofs` | `TypeCorrect`, `PositionsInOrder`, `LogIsDense`, `AcksAreCommitted`, `NoDuplicateLiveEntry`, `FailuresAreNotLive`, `SnapshotsAreFolds`, `ReadsAreFresh`, `ManifestIsMonotone` | every safety property of `CommitLog` that a passing run checks |
| `CommitLog_proofs` | `ImplementsAtomicStore` | `Spec => IsAtomicStore` |
| `Maintenance_proofs` | `LiveSnapshotIsNeverSwept`, `GraceCoversReads`, `MarksAreKept`; `TailHintIsClose`, `GcIsNeverStarved` | `LiveSnapshotExists`, `GraceCoversRead`, `MarksSurvive`; `HintLagBounded`, `GcNotStarved` |
| `Server_proofs` | `FirstInsertsWin`, `ExistsVerdictsAreTrue`, `BatchesAreExact`; `VerdictsAreTrue`; `FreshRootsAreAccepted`, `CasIsSerialized` | `FirstInsertWins`, `ExistsVerdictIsTrue`, `BatchIsExact`; `VerdictIsTrue`; `FreshRootAccepted`, `CasReplacesItsBase` |
| `Server_proofs` | `VerbsImplementCollection` | `VerbSpec => IsCollection` |
| `Chunk_proofs` | `ChunksHoldTheFold` | `ChunksAreFold` |
| `Index_proofs` | `LiveRowsAreIndexed`, `IndexReadsAreExact`, `RebuildsAreExact`, `HealthyRebuildsDoNothing`; `RefusedQueriesMatchNothing`, `IndexRoutesAreComplete` | `LiveRowIndexed`, `IndexReadExact`, `RebuildExact`, `HealthyRebuildIsNoOp`; `RefusedMatchesNothing`, `IndexRouteIsComplete` |
| `Live_proofs` | `LiveLogsAreExact`, `AcceptedCursorsAreComplete`; `WatchedTablesHaveOnePoll`, `ReportedDataIsShown`, `ParkedQueriesHaveADeadPoll`, `RecoveriesBackOff`, `ShownDataNeverRegresses` | `LiveLogIsExact`, `AcceptedCursorIsComplete`; `OnePollPerTable`, `ReportedIsShown`, `ParkedOnlyOnDeadPoll`, `RecoveryBacksOff`, `DataNeverRegresses` |
| `Client_proofs` | `StaleEntriesAreExplained`; `ClientAnswersAreTrue`; `PendingIsExact` | `StaleEntryIsExplained`; `ClientAnswerIsTrue`; `PendingIsTrue` |

The inductive invariants also hold on the instances of the runs, where TLC checked them.

*The inductive invariant* `IInv` (module `CommitLogInv`). None of the properties
is inductive alone. The argument:

1. Slots are deleted only below the durable delete floor (`DeletesOk`), which
   never moves back; so everything from the floor to the tail is what `hist`
   says (`DenseLog`).
2. No call and no delayed PUT targets a slot beyond the tail (`CommitsOk`,
   `InflightOk`): a search settles on a slot only when the one before it was
   seen occupied or is below a `tail_hint`, and `tail_hint <= tail`
   (`ManifestOrder`). So a create that wins either extends the history or lands
   below the floor.
3. A commit has an entry at or above the floor only where it is still resolving
   or has settled (`SoleSlot`). A delayed PUT for the tail itself belongs to a
   call that waits for that very slot, or gave up as ambiguous: no call that
   moved on, succeeded or failed can still take effect above the floor.
4. A compactor's or reader's rows are `Live(hist, pos)` as long as the floor has
   not passed the `log_seq_start` it started from (`RowsOk`). The condition is
   necessary, and it suffices: a CAS that succeeds finds the manifest unchanged,
   so the floor has not moved.

The fold lemmas (`FoldOne` on `Live(h, n)` is `Live(h, n+1)`) are proved once and
used for compactors, readers and the refinement.

*The refinement.* `VisibleRows`, what an instantaneous read of the bucket would
return, equals `Live(hist, tail)` under `IInv`. So only a fill of slot `tail`
changes it, and it changes as `FoldOne` says: that is `Apply`. Settling a call is
`Return`; everything else is a stutter. An unchecked ack maps to an unknown
outcome, which is all it tells the caller (finding 1).

*The sweep.* `GcInv` (module `Maintenance_proofs`): every DELETE under way names a
snapshot strictly below the floor; the live snapshot is at the floor; a fold of
the present generation never ends below the floor it started from, and what it
has written exists as long as it could still be published. The floor only rises
within a generation, and a restore changes generation while nothing is being
deleted. Clocks, marks, the grace and the ledger's contents do not occur in the
invariant: the floor proof alone protects the live snapshot, and marks only
decide what is worth deleting. The grace protects readers of a snapshot that is
no longer live (`ReadInv`): new marks are never due (`FreshMarks`), so the snapshot of a
read that is shorter than the grace, and had no due mark of it at its start, stays: it
exists, no mark of it is due and no DELETE names it (`Covered`).

*Marks.* `LedgerInv`: the ledger is never longer than its cap. A merge puts the
survivors of the latest ledger first and its own marks behind them, so the cut takes only
marks that were never in the ledger. What `Keep` and concatenation hold is from
`Listing_proofs`.

*Ticks.* `HintLagBounded` and `GcNotStarved` speak of moments without a tick and are
far from inductive. `TickInv` counts: beyond the refresh gap, the multiples of the
interval the log has crossed, from any one of them on, are no more than the faults so
far and the ticks that started there or later and still owe a refresh (`LagIsOwed`);
likewise for hard boundaries since the last pass and ticks that will collect
(`GcIsOwed`). A commit that crosses a boundary adds one to both sides, a tick that
exits without its duty is a fault, and when nothing owes, the bound is left.

*Storage.* `StorageInv`: while a call is not marked uncertain, only its present attempt can
have landed or still land (`LooseAttempts`), so no definitive verdict is given
over a loose attempt. `FsInv`: the marker is there before the first file
(`MarkerFirst`), a queued call is in exactly one queue (`QueueIsSound`), writers hold the
key of the real file (`WritersLock`), so what a staged CAS compared is still there.

*Verbs.* `VerbInv` gives a call's local state its meaning in the log. The window of
an insert that was not overtaken is the history from its absence check to the slot it
tries (`SoundWindow`); so it creates only where the document is absent. No call and no
send in flight aims beyond the end of the log, and a send that can still extend it belongs to
a call that waits for that slot or was told nothing (`LateOk`). A batch that was not
overtaken has exactly one entry for each row it no longer plans to write, and, while it
resolves or checks, at most the one it is about (`WritesOnce`, `WritesAll`).

*The collection.* `CollInv` adds to `VerbInv` what a plan and a send in flight say
(`PlansOk`): each write still to be done is the request's effect on the row the call saw.
The log is `writes`. A create or a late send that lands at the end of the log is `Write`:
of a call that is not blind, its row is not yet written by `WritesOnce`, and is absent
when it inserts by `SoundWindow`; what it writes is `PlansOk`. One that lands below the
delete floor changes nothing that is seen, and neither do folds, certification and
deletes. The end of a call is `Return`, and what `VerbInv` says of its outcome is
`Promise`; an acknowledgement without the check, of a slot below the floor, blinds the
call as it returns.

*Chunks.* `ChunkInv`: the published chunks hold the rows of the reference, in id order
(`Holds`); each reference state is the one before it and an entry (`FoldedOneByOne`);
what the first phase fetched covers every prefix the second may try (`FoldOk`). A mutation
is routed to the one chunk that may hold its id, so rewriting each touched chunk applies
all of them; the starts of a split tile its ids; a merge joins two adjacent chunks of
which one is untouched; and the last mutation of each document, applied at once, is the
fold one by one.

*Indexes.* `IxInv`: a call that handles its document alone has its new marker in place
before its entry, its entry is the newest one when it looks for stale markers, and those
are not markers of its own value (`CallsKeepMarkers`, `StaleIsForeign`); a read has found
every undisturbed document of the values it has listed (`ReadsFind`); a rebuild that
is alone still expects what the log holds (`RebuildAlone`).

*Queries.* There is nothing to keep invariant but the plan (`QueryInv`); the work is in
the operators. `TightestFacts` and `SideFacts` show that the one bound decoded from a
field's clauses is met exactly when all of them are; `MatchedIsSatisfiable` that a match
passes every refusal rule; `ImpliedFilterMatches` that a filter the planner takes to be
implied holds of every match; `MatchIsWalked` puts them together. The exceptions
`IndexRouteIsComplete` names are used, each in one place: without `MixedIn` or
`InAndRange` among them, `ImpliedFilterMatches` is false. `OrdersDiffer` is used where a
bound that a match meets is turned into one its index key meets.

*The feed.* `FeedInv`: condemned slots stay the window below `log_seq_start`, so the slot
under it is still occupied (`RetirementIsBelow`); a restore starts above every object that
is left (`RestoreIsAbove`), hence above that slot and above every DELETE under way
(`LiveLog`). This is where the window must be positive. A
follower has been sent the entries of one generation from its origin to where it reads, or
its cursor will be refused (`FollowerOk`).

*The pool.* `PoolInv` ties each poll to the hooks, its loop, the way the loop ended and its cursor (`PollOk`), each
loop to its poll or to an abort (`LoopOk`), each cache entry to its subscribers and cursors
(`EntryOk`) and each answer under way to its entry (`ReadOk`): the answer an entry waits
for is no older than the cursors of its tables and than what the entry shows.

*Client.* `CacheInv` and `HookInv` add types and the exact count of running calls.
`ClientInv` records what each answer under way proves of the row (`AnswersProve`: a retry
may meet its own earlier effect), and that a call has seen the row as the handler that is
about to delete it has read it (`CallsWatch`).

*Induction over data.* The library's induction theorems cannot be instantiated here. Where
an argument needs induction on a number it takes a least counterexample instead
(`HasLeast`, from the well-foundedness of `<`), as for the bound of a finite
set of numbers (`ListIsBounded`). A loop is a least set (`Starts`), a sorted list is
given by the rank of its elements (`InOrder`): what they hold follows from counting and
from leastness, where a recursive definition would need induction.

*Only model-checked:* `CommitTerminates`, `OrphanSwept` and `FeedDelivers` (liveness
under fairness, out of the prover's reach). The violations `AckIsNeverInvisible`,
`GetSeesCompletedWrites` and `HealthyRebuildIsNoOp` are false as the code is.

## 5. Plan

Modelled: every component whose state or order of steps the protocol depends on.
Proved: every safety property and both refinements of the passing runs. Worth doing next,
most important first:

1. `ChangeFeed` as a refinement of the history of `AtomicStore`, with its proof.
2. Compositions: `DocVerbs` over `CommitLog` with real readers in place of atomic
   reads; `SubscriptionPool` over `ChangeFeed`.
3. `fsck` and `dump` as readers that race writers.

## 6. Not modelled

- Wire formats, XML, signing, HTTP parsing, authentication, schema checks, logging
  and metrics: translation or I/O without protocol state.
- The byte-level snapshot codec and key codecs.
- `useQuery`'s memoisation; it renders the pool's entries.
- Scaffolding, deployment, diagnosis, export, usage and cost commands.
- Benchmarks, measurement harnesses, release scripts and the storage conformance
  suite. They are a large share of the repository's lines and none of its
  behaviour, as are the long comments of the protocol code itself; the share of
  source lines the map names is therefore small although the protocol is covered.
- Liveness of folding and retirement: the code promises none, a collection that is
  never written is never folded.
