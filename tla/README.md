# Verification of the performing-fire corpus

TLA+ models of the stateful parts of `performing_fire_corpus` (a Python package
that inventories research sources, keeps a durable job ledger and moves approved
objects into an immutable store), the TLC runs that check them on small
instances, and TLAPS proofs of their main invariants for every instance.
`PROJECT.json` ties every definition to the lines it models, every run to its
properties, every property to a mutation of the code that breaks it, and every
hazard to the properties that watch it.

- [Inventory](#inventory)
- [Modules and the code](#modules-and-the-code)
- [Runs, bounds and fairness](#runs-bounds-and-fairness)
- [Where code and documents disagree](#where-code-and-documents-disagree)
- [Proofs](#proofs)
- [Only model-checked, and not modelled](#only-model-checked-and-not-modelled)
- [Plan](#plan)

## Inventory

The program has no server. Command-line calls and workers on different machines
share two SQLite databases (the ledger and the discovery store), an object
bucket with create-if-absent, and a control plane that is specified only as a
protocol. Concurrency is between *processes*; every SQLite transaction is
`BEGIN IMMEDIATE`, so calls interleave between transactions and storage
requests, never inside one.

| component | state | operations | talks to | what is hard | correct when |
| --- | --- | --- | --- | --- | --- |
| ledger queue (`ledger.py`) | tables `jobs`, `leases`, `operations` | create, claim, heartbeat, checkpoint, complete, fail, release, recover | workers; the caller supplies the clock | unsynchronised clocks, stale lease holders, replayed operation ids, losses that must not strand a job | a job is handed out exactly while one live lease names it; saved work never goes back; a finished job stays finished; replies stay true |
| ledger assets (`ledger.py`) | `records`, `asset_states`, tombstones | upsert, transition, commit of a cleanup | transfer, workers, cleanup | gates checked on entry only; retries into earlier stages; a cleanup under an asset that waits | a stage is occupied only while its rights and live objects exist; one receipt per key |
| corpus objects (`corpus_objects.py`) | the bucket; receipts, derivation manifests and tombstones in the ledger | create-and-verify, record a derivation, plan retention, exact cleanup | ledger, bucket | lost create replies, crash between create and receipt, creators racing the cleaner, derivations recorded while a lineage is being deleted | ownership is recorded only by the run that created; no receipt and no manifest slips into a lineage being deleted |
| bounded discovery (`bounded_discovery.py`) | run row (checkpoint, reservation), facts, observations, report | run, with reserve / commit page / commit failure / interrupt / finish | source transport, rate limiter | several callers for one plan, lapsing reservations, crash after the request and before its commit | requests stay within the plan, pages are counted once, a report adds up and is final |
| trusted-VM worker (`trusted_vm_worker.py`) | local call state; control-plane job, source-attempt authority | run once: claim, checkpoint, reserve, stream, create, receipt, complete | control plane, source, bucket, ledger | a lost lease during a stream, ambiguous create, crash before the receipt | the source is asked once per job; completion is backed by a durable receipt |
| trusted-laptop worker (`trusted_laptop_worker.py`) | local claim state, cache directory; control-plane checkpoints | run once: claim, resume, transform, create, receipt, lineage, complete | control plane, transformer process, bucket, ledger | non-deterministic output, budgets across retries, unknown checkpoint outcomes | one output per job, accounted attempts, checkpoints that say what is durable |
| one-object transfer (`transfer.py`, `trusted_vm.py`, `storage.py`, `r2.py`) | receipt directory, ledger receipt | acquire one asset to the bucket, verify, clean up, resume | ledger, bucket, source | a create or delete whose answer is lost, resume from partial receipts, two directories on one key, a source that changes | a deletion has its two durable proofs; a completed run tells of the bytes it read last and leaves no copy of its own of them |
| request runner, retry, rate limit (`acquisition.py`, `retry.py`, `rate_limit.py`, `policy.py`) | request budget, host timestamps, request evidence in the ledger | bounded GET with redirects and retries; the public-article inventory | sources, ledger | budgets across redirects and retries, evidence written before its outcome is known, a crash between the transactions of one answer | no page without an allowing robots answer; evidence labels tell what happened |
| YouTube adapter (`youtube_metadata_adapter.py`) | quota row and run artifacts in SQLite, checkpoints | reserve, three-stage coordinator, checkpoint, resume, merge | API, harness | two processes, a crash after a reservation, an old checkpoint, a playlist that changes between pages | units cover requests; an issued inventory is a whole playlist; a ready checkpoint resumes |
| source inventories (`njp_*_inventory.py`, `antiegg_posts_inventory.py`) | run ledgers | robots, paginate, verdict, manifest | request runner, harness | a catalogue that changes between pages, two runs over one ledger | "complete" means the whole catalogue, unless it changed twice meanwhile |
| project-native lifecycle (`project_native_lifecycle.py`, `governance.py`) | consents, inventory of contributions and derivatives, holds, deletion work | give, derive, use, tighten, withdraw, hold, resolve, plan, complete, export | resolver, deletion workers, legal reviewer | authority inherited through several levels, a hold or a new derivative between plan and completion | a use needs every consent behind it; a completed deletion is whole; a hold stops it |
| operator gates (`operator_gates.py`) | blockers, decisions | block, decide, resume | operators | stale or replayed decisions | only the blocked work waits |
| qualification, selection, pilot freeze | none, except one artifact write | compile decisions | files | determinism, boundaries | the decision follows from the records |
| derived media (`derived_media.py`) | none | validate contracts, propagate deletion | lifecycle | cycles, partial lineage | all descendants are found |
| search index and service | index snapshots | build, query under rights | lifecycle | stale authority | no field outlives its authority |
| evaluation, observability | none | compute reports, sanitize | files | none for a model checker | |
| registry, fixture discovery (`registry.py`, `discovery.py`) | none of their own | read files, call the ledger | ledger | none | |
| adapters and conformance harness (`adapter_conformance.py`) | the harness record | ask, ingest, retry, checkpoint, restore | YouTube adapter, inventories | long traversals whose checkpoint must restore | the traversal is bounded and its checkpoint consistent |
| command line, scripts, machine setup | none | one call each | all | none | |

`PROJECT.json` repeats this list with the status of each component, and lists
the hazards (what is hard to test, at the line where it bites).

## Modules and the code

### JobBoard and LedgerQueue

`JobBoard` is what the queue promises its users, without leases, clocks or
operation ids: a job is held by at most one holder, saved work only grows, a
finished or dead job is never handed out. `LedgerQueue` is `ledger.py`: the
tables `jobs`, `leases` and `operations` are its variables, and each method is
one action, the recovery of expired leases at its head included
(`CreateJob`, `ClaimJob`, `Heartbeat`, `WriteCheckpoint`, `CompleteJob`,
`FailJob`, `ReleaseLease`, `RecoverExpired`). `now` is an argument of the call,
as in the code: two callers need not agree on it and it may go backwards. A call
that raises is rolled back, so it is a stuttering step; so is a replayed
operation id. A duplicate create is answered with the record the job was created
as (`Body`), not with what it has become. `BoardSpec` is `JobBoard!Spec` under the refinement mapping
in `LedgerQueue`.

### LedgerAssets and CorpusObjects

`LedgerAssets` models the other half of the ledger: `upsert` for its four record
types with the uniqueness rules and gates, `transition_asset` with its retry and
blocking rules, and `_commit_confirmed_cleanup`. `CorpusObjects` extends it: the
same tables, and on top of them the bucket, creators that run
`immutable_create_and_verify` and then record the receipt, and a cleaner that
runs `execute_exact_cleanup`. There a call is *not* atomic: each ledger read,
storage request and ledger write is a step; a storage request can fail before or
after its effect; a process can die anywhere. The cleanup guard is an open
SQLite write transaction: it excludes other writes, but neither reads nor the
bucket. A derived object has a manifest that names its inputs
(`RecordManifest`); `LineageOf` is the lineage the cleaner validates, and
`CompleteLineage` refuses one with a missing or a second parent. A manifest that
was never recorded, or two jobs that record one for the same output, therefore
make the asset's cleanup impossible: reachable in the model as in the code. The
manifest's own stored object is left out. The retention authority lasts from
its decision to its end of validity (`Valid`); a tombstone's binding is compared
by the work's id, which stands for the receipt, reason and evidence the code
compares too.

### BoundedDiscovery

One discovery run: the stored row (`checkpoint`, with the reservation in it),
`facts`, `observations`, `report`; several callers (`Runners`), each with the
copy of the checkpoint it read last. Each transaction of `_DiscoveryStore` is
one action. Time is abstract: a reservation lapses, authority expires, the
elapsed budget runs out at any moment. `sent` and `committed` are history
variables the properties use. A source page is an element of `Pages`: its
records, its continuation and its total.

### TrustedVMWorker

`run_trusted_vm_worker_once` and `BoundedTrustedVMAcquisitionExecutor`,
request by request, for several workers and several jobs that name one exact key
(a job and its separately reviewed retry; `RunOf` gives their run). `pc` is the
place in the call; `receipt`, `store`, `tombstone` are the ledger and bucket for
that key. Control plane and source-attempt authority are external: they are
modelled by what the code requires of them (a call that names a lease that is
not current is refused).

### TrustedLaptopWorker

`run_once` of the laptop worker for one transformation job: claim with the
atomically reopened attempt, resumption from each checkpoint stage, the download
and transform, the CPU budget, guarded create of the output and of the manifest,
receipts, lineage and completion; what is recorded when a claim fails
(`_record_attempt_failure`), and operators who reconcile and resume. A cleanup of
the input may start whenever it is allowed. `spent` and `attemptCpu` are history
variables: the CPU really used. The checkpoint is the record
`_validate_checkpoint` lets through, which is what makes one of the
disagreements below possible. What the worker would record after a claim that was
answered with another job's records is left out.

### MetadataHarness and YouTubeRun

`MetadataHarness` has no variables: the harness of `adapter_conformance.py` does
no I/O, so each of its methods is an operator from a harness record to the next.
`YouTubeRun` holds one harness per stage and coordinator process, the durable
row of the quota store (`quota`), the issued artifacts (`artifact`), the
checkpoint the operator kept (`saved`) and the playlist. A reservation and the
request it pays for are separate when a process dies between them
(`ReserveThenCrash`); `ReplaceStore` mints a new authority. `handed` and
`history` are history variables. The code compares totals and identities, so
changes of a playlist that compensate each other between two pages are not
detected: two removals from the pages already read and two additions behind them
pass unseen. `IssuedInventoryIsWhole` therefore speaks of a playlist that changed
less than four times; it is checked with two changes and proved for three.

### RequestRunner and PublicInventory

`RequestRunner` is `BoundedRequestRunner.get` as operators over a runner record:
what may be sent, what an answer leads to, with the retry decision, back-off and
host spacing of `retry.py` and `rate_limit.py`. `PublicInventory` drives it
through the two public inventories (`lane`): the article inventory of
`acquisition.py`, whose terminal answer is written in several transactions
(`BlockAsset`, `BlockState`, `BlockEvidence`, `StoreJob`, `StoreBounds`,
`WriteArticle`) and replayed by the next run, and the ANTIEGG posts inventory,
which pages through a catalogue that may change. Runs (of the `Commands`) overlap,
die anywhere and share the ledger (`trail` is its request evidence, `robots` the
observations). `history` and the `since` of a run are history variables: what the
catalogue held, change by change, and where a run found it. Two pairs of calls are
one step each: the reads of request facts and robots observation at the start
(`Load`), and the look-up and upsert of the asset (`BlockAsset`). What another run
does between them ends in the same record or in a ledger error, as a crash does.
The posts inventory
compares a count with a declared total, so changes that compensate each other
pass: with pages of one post, a run that reads `a` of `<a, b>`, after which the
list becomes `<c, b>` and then `<d, c>`, reads `c` next, ends with two of two,
and calls `{a, c}` complete, which never stood together. (TLC finds it with four
posts and two changes.) The documents promise the agreement of the count, no
more. `CompleteIsWhole` therefore says that a complete verdict holds posts the
catalogue held, and all of it as it stood at one moment unless it changed twice
or more under the run: one change, be it a post taken down and another published
at once, is harmless.

### ConsentLifecycle

The functions of `project_native_lifecycle.py` are pure; the state is in the
records their callers keep. `graph` is the inventory of contributions and
derivatives, `authority` the current consents, `hold`, `resolution` and the
deletion plan what the lifecycle issued. One action per function, given the
records a caller can hold: a derivation, an indexing or a public use may be
carried out after its check (`MaxPending`). The store and the resolver are
external: withdrawals are saved field by field, a snapshot is issued together
with its inventory, and the authority a function is given is the current one. A
derivation must be given exactly its inputs and their ancestors, so in one
shared inventory a second derivation from the same inputs is refused. A mixed
derivative withdrawn for both participants loses the legal-hold mark of the
first withdrawal; the hold resolution asked for at completion is then all that
protects it.

### OneObjectRun

`acquire_one_to_r2` around `transfer_approved_asset` and the R2 client: a *run*
is a receipt directory, and a command on it is interrupted, lost or repeated at
each request and each receipt it writes. A version of the source stands for its
bytes and so for their content-addressed key, and the source may serve earlier
bytes again. Directories share bucket, ledger and approval. Facts nothing reads
back (readiness, request fact) and the constant ledger rows are left out. `made`
and `last` are history variables: the copies in the bucket that each directory's
commands put there, and the version it fetched last.

`OnlyOutdatedRemain` says what a complete directory promises and no more: it tells
of the bytes its last attempt read, and no copy of those that its own attempts made
is left. A copy of *other* bytes may be: an attempt that stored them and broke off
before its receipts leaves them behind when the retry reads different bytes. That
takes a fault, which the property says as well (without one, a command that has
ended left no copy at all), and the source may later serve those bytes again, with
the copy still there. The acquisition's issue promises more: see item 7 of
[Where code and documents disagree](#where-code-and-documents-disagree).

What the model also shows of the code, and no document promises otherwise: after
one directory cleaned up, another whose receipt is in the ledger ends in a conflict;
two commands in lockstep on one key can undo each other for ever, so liveness is
stated for a command that meets no other; a run resumed after its ledger upsert
failed completes without a ledger receipt; and the window gate also stands before
a late cleanup. (Item 6 of the same list is about this module too.)

The `*Proofs` modules hold the theorems, the `MC*` modules the instances.

## Runs, bounds and fairness

| run | shows | states |
| --- | --- | --- |
| `queue_safety` | the tables agree, replies and history hold, refinement of `JobBoard` | 260,475 |
| `queue_liveness` | no job is stranded by a dead worker; with one lost lease every queued job is completed or failed, the second behind the first in every claim | 20,608 |
| `assets` | gates stay held, keys have one owner, stages in order, replies true | 367,097 |
| `corpus_objects` | receipts tell the truth, a lineage under cleanup is frozen, one work per asset | 1,821,124 |
| `bounded_discovery` | bounds of the plan, pages counted once, reports add up | 264,924 |
| `trusted_vm_worker` | one source request per job, completion backed, every lease ends, durable work completes | 280,854 |
| `laptop_worker` | one output per job, attempts accounted, checkpoints true, receipted work completes | 260,021 |
| `youtube_run` | units cover requests, inventories are whole, checkpoints resume, artifacts are issued once | 2,323,192 |
| `public_inventory` | pages under robots, evidence labels true, complete means whole after one change | 6,621,053 |
| `consent_lifecycle` | uses need every consent, deletions are whole, holds stop them, exports are the subject's own | 791,414 |
| `one_object_run` | cleanup under its proof, complete directories leave outdated copies only, a lone command completes | 3,265,070 |
| `laptop_budget` | the disagreement about budgets below, as a counterexample | |

**Bounds.**
`queue_safety`: two jobs, one of which is allowed a retry and comes first in the
order of claims, and two kinds of workers, one that can do both jobs and one that
can do only the first, so that the jobs compete for a worker and the workers for a
job; an id reused for another slot and a slot under another id, two holders, two
leases, three instants and two terms. Two leases are the least with which a stale holder
can meet a new one, three instants with which a lease can be live for one caller
and expired for another. `queue_liveness` queues both jobs and has four leases:
three attempts and one loss. Job 2 can be done only by the worker that is given
job 1 whenever that is queued, so it waits through two attempts at job 1 and
perhaps a loss.
`assets`: one asset that can go through every stage and one that competes for
its raw key under the other record type.
`corpus_objects`: two creators of two runs, a raw key and one derived from it
with the manifest between them, two retention works, two evaluation instants, two authorities, of which one is a
legal hold; every request may fail and every process die.
`bounded_discovery`: two pages, three requests, one retry, two bytes, so that
each limit is reached by some behaviour; three callers, so that one can restart
after one died and another waits.
`trusted_vm_worker`, `laptop_worker`: two workers (a slow holder and its
successor) and two faults, anywhere: one that breaks a call and one that breaks
its recovery. `MaxRuns` bounds the transformations of the laptop worker: when
they are used up, a further one fails; it equals `MaxCpu`, so the budget is
reached at the same time.

`youtube_run`: two coordinators, three units (one per stage, so that a retry or a
second page runs into the maximum), pages of one item, two changes of
the playlist and one crash or replaced store.
`public_inventory`: two runs over one ledger; three requests (robots, a page, and
one retry, redirect or second page), a robots observation that ages after one
instant, a catalogue of two posts or none that changes once, one crash. The
symmetry of the two runs is used.
`consent_lifecycle`: two participants, one of whom consents to more; two
derivatives, of one or both and of each other, which gives lineages three deep;
three instants: a consent expires or is expired at the second, a hold resolution
lives one and a hold two, so that each of them can lapse between any two steps;
a hold that covers part of a batch.
`one_object_run`: two directories of which one is repeated, two versions of the
source and two changes, so that it can go to the other bytes and back (which of
the two it starts with is a name, but for the key that may be taken, the second's),
two faults: one attempt breaks, and so does the attempt that recovers it.
In `corpus_objects` the first retention authority is valid in both instants: a
lapsed one only stops the cleanup.

`CHECK_DEADLOCK FALSE` is set where the system may stop: all jobs are done, or
the bounded leases, calls or faults are used up.

**Fairness.** Each liveness run assumes only what the surroundings of the code
provide.
`queue_liveness`: someone keeps calling `recover_expired_leases` with a clock
that advances and, for each kind of worker, someone keeps claiming (the polling
timers of the workers). No holder is assumed to finish or even to answer. Lost
leases are unbounded in the code, so `OneLossResolves` speaks of behaviours with
one.
`trusted_vm_worker`: a process that is alive goes on to its next request
(`Advance`), supervisors poll, the lease of a dead worker expires, operators
resume blocked jobs. No fault is assumed to stop except by the bound, and
`DurableWorkCompletes` is conditional on the receipt staying uncleaned.
`laptop_worker`: the same, and operators reconcile open attempts, and a begun
cleanup commits. `ReceiptedWorkCompletes` is conditional on the input staying
undeleted.
`one_object_run`: a started command goes on, and the operator repeats a blocked
one. `LoneRunCompletes` is conditional on the approval lasting, the keys being
free of other bytes, and no other command running.

## Where code and documents disagree

1. `validate_cleanup_commit_context` (`corpus_objects.py:2059`)
   rebuilds the work with the current second and demands equality. A cleanup
   executed a second after its evaluation deletes the objects and then cannot
   commit their tombstones, nor can a rerun;
   `docs/full-corpus-object-storage.md:159-162` promises that reruns converge.
2. `immutable_create_and_verify` (`corpus_objects.py:604`)
   reads the tombstone once, before its first `HEAD`. A call delayed past another
   run's create, receipt and cleanup recreates the key under its tombstone;
   the same document, lines 60-61, calls a tombstone terminal.
3. `_DiscoveryStore.finish` (`bounded_discovery.py:311`) does
   not look at the stored reservation. A caller that read the run earlier can end
   it while another's request is in flight, and that response is dropped;
   `docs/bounded-discovery.md:81-82` says a concurrent runner does not mutate
   the run.
4. `_record_attempt_failure` (`trusted_laptop_worker.py:2237`)
   falls back to zero when the last checkpoint is `input_verified` or
   `transform_started` and nothing was measured yet, although the claim resumed
   from `attempt_failed` with CPU on record. A failure in that window (a deleted
   input, a lost authority, or the exhausted budget itself) closes the attempt
   with a fresh budget; `docs/trusted-laptop-worker.md:111-113` says no prior
   stage can silently reset it.

5. `_finish_blocked` (`acquisition.py:889`) commits the asset's blocked state and
   the blocker evidence in two transactions, and the manifest derives its result
   from the evidence alone. After a crash between the two, or in a run that
   starts between them, the inventory replays a manifest that says "completed",
   and so does every later run; `docs/network-acquisition-smoke.md:29` and `:41`
   say that a durable blocker is recorded and a resumed run replays the stored
   terminal result.
6. The command line checks approval and settings before it looks at the receipt
   directory (`cli.py:819`), and blocks it on failure: a completed directory is
   overwritten as blocked when the command is repeated after the deadline;
   `docs/r2-object-storage.md` says a completed run resumes without another
   request.
7. `acquire_one_to_r2` writes `object.json` after the transfer has returned
   (`trusted_vm.py:705`). A command that dies between the create and that write
   leaves an object no receipt names; and when the create succeeds but its
   confirmation and the verification fail, a retry that reads other bytes writes
   its receipts over the only ones of the first object. Either object stays, also
   when the source returns to its bytes.
   `docs/issues/010-add-one-trusted-vm-acquisition-to-r2-run.md:20` says that a
   failed run must never leave an unrecorded object.
8. `_validate_current_hold_resolution` (`project_native_lifecycle.py:1566`) accepts
   a clear resolution for as long as it lives, up to five minutes, and the
   completion looks at no hold itself: a hold placed after the resolution was
   issued does not stop the work, planned before, that it covers;
   `docs/project-native-lifecycle.md:105` says a newly issued hold blocks older
   pending work. `HoldStopsDeletion` says what the code does: it exempts holds
   younger than `Window`.

The fourth is the run `laptop_budget`: one property, quoted from the document,
with TLC's trace as the evidence. The others are stated in their modules as
`RerunsReconcile`, `TombstonesAreTerminal` (`CorpusObjects`),
`LiveLeaseKeepsTheRun` (`BoundedDiscovery`), `CompletedMeansVerified`
(`PublicInventory`) and `NoUnrecordedObject` (`OneObjectRun`), in no configuration because TLC refutes them: adding one to
the `.cfg` of its module's run (without `SYMMETRY` for the action properties)
prints the trace. The sixth is the action `Preflight` of `OneObjectRun`. For the
eighth, TLC refutes `HoldStopsDeletion` without its last conjunct.

## Proofs

All theorems are about the specifications the runs use, for every value of the
constants that satisfies the named `ASSUME`s of the modules. Each invariant is
proved through an inductive one: it holds initially, every action preserves it
(one lemma per action), and it implies the property.

- `LedgerQueueProofs`: `LedgerTypeCorrect`, `LedgerTablesAgree`,
  `CheckpointsAgree`, `RepliesHold`, `HistoryStands`. The first inductive
  invariant is `Core == TypeOK /\ LeaseJobAgreement`: agreement needs the types
  to rule out rows outside the schema, and the types need agreement to know that
  the lease a method looks up is a lease. The rows each method writes have a
  lemma of their own, so that the action lemmas are about tables. The second,
  `IInv`, adds the checkpoints, the replies and what they hang on (`Anchored`:
  one job to a slot, leases and operations only of jobs that exist; `Born`: a job
  created as completed or blocked stays as it was created, so that the reply to a
  duplicate create is never ahead of the job); every call satisfies `Onward`, which says what a row never loses, and the three
  properties follow from that.
  Its last part proves `QueueImplementsBoard`, the refinement of `JobBoard`.
  Each call is shown to be one move of the board (`CreateNewMoves`,
  `ClaimMoves`, ...) or, for a heartbeat and a duplicate create, none.
  `BoardInv` adds to `IInv` that a job no one created has no saved work.
- `CorpusObjectsProofs`, first half, about `LedgerAssets`: `AssetsTypeCorrect`, `GatesHold`, `KeysHoldOneOwner`,
  `RepliesAreTrue`, `LifecycleInOrder`. `GatesStayHeld` alone is not inductive:
  a retry enters a stage without its gates if the row could resume one it never
  reached. `Core` adds that a row and its state exist together, that
  `failed_retryable` always names where to go, and that a bound transition names
  a registered asset. The action property `StagesInOrder` follows from `Core`
  step by step (`Onward`).
- `CorpusObjectsProofs`, second half, about `CorpusObjects`: `LineageIsFrozen`,
  `ReceiptsAreTrue`, `OneWorkBinds`.
  The first is about receipts and derivation manifests alike: both are written
  under the guard the cleaner holds. The second rests on what a creator in the
  middle of its call knows (`Knows`): between the request and the receipt, the
  disposition it is about to record is true of the bucket, or the object was
  removed. The third is inductive with two facts: a tombstone's key keeps its
  receipt (`Keyed`), so that validating the complete lineage compares every
  earlier tombstone, and the guard keeps it so (`Bound`).
  Its last part is about both: `CorpusKeepsRegister` shows that every step of
  creators and cleaner is a step of `LedgerAssets` on the ledger's tables, or
  none, so that its rules hold in the composition (`CorpusKeysHoldOneOwner`). The
  step that takes an argument is `CommitTombstones`: a rerun commits tombstones
  of earlier attempts with new ones of another second, of which the register sees
  the new ones (`TombstonesAreCommit`). `CorpusTypeCorrect` gives the types.
- `BoundedDiscoveryProofs`: `DiscoveryTypeCorrect`, `RequestsAreWithinBounds`,
  `PagesAreCountedOnce`, `ReportsDoAddUp`. `Core` has the types, the plan's limits
  and what a call's local copy still owes to the stored row: a copy may be old,
  but a call with a request in flight has a reservation no one else has, and a
  reservation that lapsed is resolved once. Every step is one of a few kinds
  (`StepKinds`), so that each property needs one lemma per kind. The bound on
  requests per page counts them by an injection from the requests of a page into
  the retries. `PagesCountedOnce` sums over the committed pages by a recursive
  function inside the property: the proof carries its existence along, one page
  at a time (`Totals`), rather than computing it.
- `TrustedLaptopWorkerProofs`: `LaptopTypeCorrect`, `OneOutputHolds`,
  `AttemptsAreAccounted`, `SaidIsDurable`. None of the three properties is
  inductive. `OwnOutput` says that every object, receipt and lineage is of the
  output the job is committed to (`Chosen`: by its checkpoint or its result), and
  three predicates say, at each point of a run, what it knows of the job while it
  holds the lease (`Informed`: its checkpoint is the job's, its CPU covers the
  attempt's), what it remembers (`Prepared`: the output it works on is the
  chosen one, or none is chosen and it has none), and what is durable by then
  (`Secured`). A run whose lease lapsed keeps the last two only, which is why it
  may still create an object and not another output's. `Lasts` says what no step
  takes back, and carries all three over the steps of the other runs.
- `SourceRequestProofs`, first part, about `TrustedVMWorker`: `WorkerTypeCorrect`,
  `SourceAskedOnce`, `CompletionIsBacked`. `IInv` says what each worker has at each point of its
  call (`Sound`), what stands behind a job's checkpoint (`Backed`), and that a
  worker about to ask the source is the only one with the reservation of its job
  (`Reserved`). `Lasts` is the monotonicity all of it needs: no step takes back
  a receipt, nor the object without recording its removal.
- `SourceRequestProofs`, the rest, about `PublicInventory`: `PagesUnderRobots`,
  `LabelsHold`, `CompleteHolds`. The first two rest on `AskInv`. A page request
  looks back at an answer of its own run or an older one, so every run that is
  past its robots request carries its permission along (`Permitted`), through the
  entries that other runs add behind it; a label is written before the retry is
  decided, so `Labelled` says of each point of a get what the label of its last
  request promises there: a scheduled retry still has a request left, which is
  why only the elapsed time can break it. The third rests on `ReadInv`: as long
  as the catalogue changed at most once under a run, what it has read is a front
  part of the earlier list followed by a part of the present one (`Traced`,
  `Mixed`), both read under one total. One change that keeps the length moves
  every post before one place by one and leaves the others where they are
  (`ChangedIs`), so either the two parts overlap and the count falls short, or
  together they are one of the two lists (`MixedWhole`). A catalogue that changes
  ages every run at once (`ReadingAges`), a run that commits a page extends one
  of the parts (`EarlierPageCommits`, `LaterPageCommits`).
- `YouTubeRunProofs`: `QuotaIsCovered`, `IssuedForGood`, `InventoryIsWhole`,
  `CheckpointsResume`. Every step pays for one request, issues one artifact,
  replaces the store or leaves the three rows alone (`StepKinds`); the quota
  property is inductive with the types of the rows, and `IssuedOnce` follows step
  by step. The other two rest on `RInv`, which says of each coordinator what the
  strict restore will demand and what the issued inventory will rest on: an
  outstanding request is counted and its page still fits the limits; a stage is
  bound to the channel artifact that was issued; and the records read so far are
  either a front part of a state the playlist was in (`Listing`), with the changes
  since then accounted for one by one, or can no longer reach the total they were
  given (`Doomed`). A total that agrees at the end then leaves only whole lists,
  as long as less than four changes were made.
- `OneObjectRunProofs`: `CleanupIsProved`, `CompleteRunsLeaveOutdated`. The action
  property says what a deletion rests on, which earlier steps established:
  `Backed` says what a run
  has at each point (a version that was fetched names a key; one that was
  created, compared or receipted has a key free of other bytes; from the
  verification on, the durable receipts name the run's version), and it lasts
  because no step ever puts other bytes under a key (`NothingForeignComes`).
  The second adds `DInv`, which says of each run alone, with no assumption on what
  the source does: a verification is of the object on record and ends the fetching
  for good (`Orderly`, so the object of a verified directory is what it fetched
  last); once its absence was confirmed, no copy the run made is of the receipted
  bytes, and while nothing has failed its only copy is of the version at hand
  (`Cleared`, `Holding`). Other runs can only take a copy away.
- `ConsentLifecycleProofs`: `HoldSpares`, `EveryAuthorityAllows`,
  `TombstonesAttest`, `ExportsOwnMaterial`. For the first, `Cleared` says that a
  clear resolution that still lives was issued before any hold that now covers
  its contributions, or after that hold ran out; a completion takes out exactly
  what the resolution names. The other three share `RecordsSound` and
  `DeletionSound`. `LineageSound` says of the inventory that every set of records
  has one made of none of the others, and that the recursion defining ancestors
  and eligibility has a solution; a save, a withdrawal and a completion keep both
  (`SavedLineage`, `ChangedLineage`, `CutLineage`). Facts about a whole lineage
  (`ConsentsInherited`, `EligibleThroughout`) then follow from a first record that
  would break them, without an induction over data. `DeletionSound` says what a
  plan still owes: targets whose artifacts are removed hold nothing of the plan,
  and no use under way puts one back that the plan names.

The assumptions only say that constants have the shape the code gives them:
null values are not members of the sets they extend, times are naturals that
include 0, offered records are records, a key names one asset, a page has at least
one item or post, a request takes no longer than its timeout, classes, lanes,
robots answers and transient outcomes are those of the code. `CorpusObjects` starts from a
register the code can have reached: its assets have approved rights.

## Only model-checked, and not modelled

Model-checked and not proved: the liveness properties (fairness and ENABLED are
out of the prover's reach): `NoJobStranded`, `OneLossResolves`, `EveryLeaseEnds`,
`DurableWorkCompletes`, `ReceiptedWorkCompletes`, `LoneRunCompletes`. Every
invariant and every action property of a passing run is a theorem as well.
The type formulas of `LedgerAssets`,
`TrustedVMWorker`, `BoundedDiscovery` and `TrustedLaptopWorker` are proved and
not in a run, as is that of `CorpusObjects`.

Abstracted in the modelled parts: hashes, sizes, media types and the contents of
records (a record is its identity and the fields that decide), validation of
malformed records (only valid ones reach a table), logging, rights and privacy
snapshots (a mismatch is a failure that may happen at any request), memory, disk
and elapsed budgets of the laptop worker (the same), and the streaming of bytes.
In the lifecycle: redaction and notice drift, the service-level report, and the
state a retention value keeps of its own. The laptop worker's cache directory is
local disk state and left out; its reaper (`trusted_laptop_worker.py:1700`) reads
an expired marker, and a late heartbeat may refresh it before the directory is
wiped. External, and modelled by
how the code calls them: the control plane, the source-attempt authority, the
bucket's create-if-absent, operators, process death.

Not modelled: the components in the inventory without a module above. Operator
gates, qualification and selection, derived-media contracts, search, evaluation
and observability, the registry, the command line and the scripts have no state
of their own: they validate or compute over records that a caller keeps. The NJP
Center inventories drive the modelled request runner and harness from larger
fixed plans.

## Plan

Done, in this order: `LedgerQueue` over `JobBoard`; `LedgerAssets`;
`CorpusObjects` over `LedgerAssets`, with derivations; `BoundedDiscovery`;
`TrustedVMWorker`; `TrustedLaptopWorker`; `YouTubeRun` over `MetadataHarness`;
`PublicInventory` over `RequestRunner`; `ConsentLifecycle`; `OneObjectRun`.

What would come next, each composing with what precedes it:

1. Operator gates: blockers, decisions, resume tokens and the partition of work.
2. Search visibility under deletion events and authority expiry, and the
   propagation of a deletion through `derived_media.py`, over the lineage of
   `CorpusObjects` and the authority of `ConsentLifecycle`.
3. The cache directory of the laptop worker with its reaper.
4. The qualification and selection decisions as operators against a reference
   definition.

Proofs to come: none of the safety properties above; with a prover for ENABLED,
the liveness properties, whose fairness is stated in the modules already.
