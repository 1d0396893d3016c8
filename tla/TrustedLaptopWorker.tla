---------------------------- MODULE TrustedLaptopWorker ----------------------------
(***************************************************************************)
(* The trusted-laptop worker (src/src/performing_fire_corpus/              *)
(* trusted_laptop_worker.py): runs that claim one transformation job,      *)
(* transform its input under a cumulative resource budget, create the      *)
(* output and its manifest, and complete, resuming from checkpoints.       *)
(*                                                                         *)
(* One job; several workers may come to hold it, one after the other or,   *)
(* when a lease lapses, at once.  Every request to an outside authority is *)
(* a step; reads in a row are one step where only the last of them         *)
(* decides.  A unit of CPU is what one transformation costs; the other     *)
(* budgets, capabilities and authorities are failures that may happen      *)
(* anywhere.  MaxFaults bounds the failures, MaxRuns the transformations.  *)
(***************************************************************************)
EXTENDS Naturals, FiniteSets

CONSTANTS Workers, Outputs, MaxCpu, MaxRuns, MaxFaults, NoWorker, NoOutput, NoReceipt

ASSUME LaptopAssumption ==
  /\ MaxCpu \in Nat /\ MaxRuns \in Nat /\ MaxFaults \in Nat
  /\ NoWorker \notin Workers /\ NoOutput \notin Outputs
  /\ NoReceipt \notin {"created", "reused", "reused_after_ambiguous_create"}

Phases == {"output", "manifest"}
\* The keys a job may create: one per possible output, and its manifest's.
Objects == Phases \X Outputs
Dispositions == {"created", "reused", "reused_after_ambiguous_create"}

PreTransform == {"claimed", "input_verified", "transform_started"}
Receipted == {"output_verified", "manifest_verified"}
PostTransform == {"transform_verified"} \cup Receipted
\* "none": no checkpoint yet.
Stages == {"none", "attempt_failed"} \cup PreTransform \cup PostTransform

\* What _validate_checkpoint lets through: only a stage after the transform
\* carries an output, none before it carries resource facts.
Checkpoint ==
  {c \in [stage : Stages, open : BOOLEAN, out : Outputs \cup {NoOutput}, cpu : 0..MaxRuns] :
     /\ (c.out # NoOutput) = (c.stage \in PostTransform)
     /\ c.stage \in PreTransform \cup {"none"} => c.cpu = 0}

VARIABLES
  job,         \* control plane: state, holder and expiry of the lease
  checkpoint,  \* control plane: the latest checkpoint
  result,      \* control plane: the output of the stored result
  receipts,    \* ledger: the receipt of each key
  lineage,     \* ledger: the outputs whose derivation manifest is recorded
  store,       \* the bucket: the keys that exist, with the bytes they name
  cleanup,     \* deletion of the input's lineage: none, deleting, committed
  doomed,      \* the keys that deletion takes, and then tombstones
  workers,     \* the local state of each run
  spent,       \* history: CPU the job has used
  attemptCpu,  \* history: CPU used under the latest attempt
  faults       \* failures so far

vars == <<job, checkpoint, result, receipts, lineage, store, cleanup, doomed, workers,
          spent, attemptCpu, faults>>
control == <<job, checkpoint, result>>
ledger == <<receipts, lineage, cleanup, doomed>>
budget == <<spent, attemptCpu>>

Job == [state : {"queued", "leased", "blocked", "completed"},
        holder : Workers \cup {NoWorker}, expired : BOOLEAN]

\* stage: of the checkpoint resumed from; last: _last_checkpoint; silent: no
\* failure may be recorded; metrics: CPU of _last_transform_attempt_metrics if
\* known, and before that of the resumed checkpoint.
Points == {"idle", "recheck", "input", "restore", "download", "mark_input", "mark_start",
           "admit", "transform", "mark_verified", "recall", "head", "guard", "put", "verify",
           "after", "persist", "lineage", "mark_output", "mark_manifest", "complete", "fail"}
Worker == [pc : Points, phase : Phases, stage : Stages, last : Checkpoint, silent : BOOLEAN,
           known : BOOLEAN, metrics : 0..MaxRuns, out : Outputs \cup {NoOutput},
           receipt : Dispositions \cup {NoReceipt}]

NoCheckpoint == [stage |-> "none", open |-> FALSE, out |-> NoOutput, cpu |-> 0]
Idle == [pc |-> "idle", phase |-> "output", stage |-> "none", last |-> NoCheckpoint,
         silent |-> FALSE, known |-> FALSE, metrics |-> 0, out |-> NoOutput,
         receipt |-> NoReceipt]

Init ==
  /\ job = [state |-> "queued", holder |-> NoWorker, expired |-> FALSE]
  /\ checkpoint = NoCheckpoint /\ result = NoOutput
  /\ receipts = [k \in Objects |-> NoReceipt] /\ lineage = {}
  /\ store = {} /\ cleanup = "none" /\ doomed = {}
  /\ workers = [w \in Workers |-> Idle]
  /\ spent = 0 /\ attemptCpu = 0 /\ faults = 0

-----------------------------------------------------------------------------
(***************************************************************************)
(* The authorities a run asks                                              *)
(***************************************************************************)
Current(w) == job.holder = w
\* A heartbeat is accepted.
Holds(w) == Current(w) /\ ~job.expired

\* The input is receipted, in the bucket and not tombstoned.
InputOK == cleanup = "none"
InputTombstoned == cleanup = "committed"
Tombstoned(k) == cleanup = "committed" /\ k \in doomed
MutOwnOnly(k) == receipts[k] = "created" /\ ~Tombstoned(k) /\ k \in store
\* _checkpoint_receipt
Verified(k) == receipts[k] # NoReceipt /\ ~Tombstoned(k) /\ k \in store

Key(w) == <<workers[w].phase, workers[w].out>>
\* The tombstones read at a create boundary, those of the keys a manifest
\* depends on included.
NothingDeleted(w) ==
  /\ ~InputTombstoned /\ ~Tombstoned(Key(w))
  /\ workers[w].phase = "manifest" => ~Tombstoned(<<"output", workers[w].out>>)

At(w, pc) == workers[w].pc = pc
Moves(w, changed) == workers' = [workers EXCEPT ![w] = changed]
Goes(w, pc) == Moves(w, [workers[w] EXCEPT !.pc = pc])

Fault == faults < MaxFaults /\ faults' = faults + 1
NoFault == UNCHANGED faults

\* A step that only reads: on to the next point, or the claim fails.
Passes(w, from, to, ok) ==
  /\ At(w, from) /\ Goes(w, IF ok THEN to ELSE "fail")
  /\ UNCHANGED <<control, ledger, store, budget, faults>>

-----------------------------------------------------------------------------
(***************************************************************************)
(* Claiming and resuming                                                   *)
(***************************************************************************)
\* claim_one reopens the attempt in the same transaction.
Resumed == IF result = NoOutput THEN checkpoint ELSE NoCheckpoint
Attempt == IF Resumed.stage = "none" THEN [NoCheckpoint EXCEPT !.stage = "claimed", !.open = TRUE]
           ELSE [Resumed EXCEPT !.open = TRUE]

\* An attempt nobody reconciled is held as it is.
Unreconciled == Resumed.open \/ Resumed.stage = "transform_started"

Claim(w) ==
  /\ At(w, "idle")
  /\ job.state = "queued" \/ (job.state = "leased" /\ job.expired)
  /\ job' = [state |-> "leased", holder |-> w, expired |-> FALSE]
  /\ checkpoint' = Attempt
  /\ attemptCpu' = IF Resumed.open THEN attemptCpu ELSE 0
  /\ Moves(w, [Idle EXCEPT !.stage = Resumed.stage, !.last = Attempt, !.metrics = Resumed.cpu,
                           !.out = IF result # NoOutput THEN result ELSE Resumed.out,
                           !.silent = Unreconciled,
                           !.pc = IF result # NoOutput THEN "recheck"
                                  ELSE IF Unreconciled THEN "fail" ELSE "input"])
  /\ UNCHANGED <<result, ledger, store, spent, faults>>

\* A stored result is verified once more and submitted again.
RecheckResult(w) ==
  Passes(w, "recheck", "complete",
         Holds(w) /\ InputOK /\ \A p \in Phases : Verified(<<p, workers[w].out>>))

\* Authority, tombstone, receipt and HEAD of the input, and the resumed budget.
CheckInput(w) ==
  Passes(w, "input", IF workers[w].stage \in Receipted THEN "restore" ELSE "download",
         InputOK /\ workers[w].last.cpu <= MaxCpu)

RestoreOutput(w) ==
  /\ workers[w].stage = "output_verified" /\ At(w, "restore")
  /\ IF Verified(<<"output", workers[w].out>>)
       THEN Moves(w, [workers[w] EXCEPT !.pc = "recall", !.phase = "manifest"])
       ELSE Goes(w, "fail")
  /\ UNCHANGED <<control, ledger, store, budget, faults>>

RestoreManifest(w) ==
  /\ workers[w].stage = "manifest_verified"
  /\ Passes(w, "restore", "complete",
            Holds(w) /\ \A p \in Phases : Verified(<<p, workers[w].out>>))

-----------------------------------------------------------------------------
(***************************************************************************)
(* Checkpoints                                                             *)
(***************************************************************************)
\* _maintain: a heartbeat, then the checkpoint, which may be lost either way;
\* after one without an answer nothing may be recorded any more.
Maintain(w, from, value, then) ==
  /\ At(w, from)
  /\ \/ ~Holds(w) /\ Goes(w, "fail") /\ UNCHANGED checkpoint /\ NoFault
     \/ /\ Holds(w) /\ NoFault
        /\ checkpoint' = value
        /\ Moves(w, [then EXCEPT !.last = value])
     \/ /\ Holds(w) /\ Fault
        /\ checkpoint' \in {checkpoint, value}
        /\ Moves(w, [workers[w] EXCEPT !.pc = "fail", !.silent = TRUE])
  /\ UNCHANGED <<job, result, ledger, store, budget>>

Bare(stage) == [stage |-> stage, open |-> TRUE, out |-> NoOutput, cpu |-> 0]
\* CPU as the worker knows it: of its transformation, or as resumed.
Cpu(w) == IF workers[w].known THEN workers[w].metrics ELSE workers[w].last.cpu
Full(w, stage) == [stage |-> stage, open |-> TRUE, out |-> workers[w].out, cpu |-> Cpu(w)]
Then(w, pc) == [workers[w] EXCEPT !.pc = pc]

MarkInput(w) == Maintain(w, "mark_input", Bare("input_verified"), Then(w, "mark_start"))
MarkStart(w) == Maintain(w, "mark_start", Bare("transform_started"), Then(w, "admit"))
MarkVerified(w) ==
  Maintain(w, "mark_verified", Full(w, "transform_verified"), Then(w, "recall"))
\* The manifest's own create follows.
MarkOutput(w) ==
  Maintain(w, "mark_output", Full(w, "output_verified"),
           [Then(w, "recall") EXCEPT !.phase = "manifest", !.receipt = NoReceipt])
MarkManifest(w) ==
  Maintain(w, "mark_manifest", Full(w, "manifest_verified"), Then(w, "complete"))

-----------------------------------------------------------------------------
(***************************************************************************)
(* The transformation                                                      *)
(***************************************************************************)
Download(w) ==
  Passes(w, "download", IF workers[w].stage = "transform_verified" THEN "admit" ELSE "mark_input",
         Holds(w) /\ InputOK)

\* With a checkpointed output only a heartbeat precedes the transformation.
Admit(w) ==
  Passes(w, "admit", "transform",
         ~InputTombstoned /\ (workers[w].stage = "transform_verified" => Holds(w)))

MutAnyOutput(w, o) == TRUE
\* A resumed transformation must reproduce the checkpointed output.
Reproduces(w, o) == workers[w].stage = "transform_verified" => o = workers[w].out

\* _capture_transform_attempt_metrics adds to what the resumed attempts used.
Captured(w, used) == [workers[w] EXCEPT !.known = TRUE, !.metrics = @ + used]

\* The child runs while the lease lasts.  It fails, or gives an output that
\* differs from the checkpointed one, after it was paid for.
Transform(w) ==
  /\ At(w, "transform")
  /\ \/ /\ workers[w].metrics >= MaxCpu
        /\ Goes(w, "fail") /\ UNCHANGED <<budget, faults>>
     \/ /\ workers[w].metrics < MaxCpu /\ (~Holds(w) \/ spent = MaxRuns)
        /\ Moves(w, [Captured(w, 0) EXCEPT !.pc = "fail"]) /\ UNCHANGED <<budget, faults>>
     \/ /\ workers[w].metrics < MaxCpu /\ Holds(w) /\ spent < MaxRuns
        /\ spent' = spent + 1 /\ attemptCpu' = attemptCpu + 1
        /\ \/ Moves(w, [Captured(w, 1) EXCEPT !.pc = "fail"]) /\ Fault
           \/ \E o \in Outputs :
                /\ Moves(w, IF Reproduces(w, o)
                              THEN [Captured(w, 1) EXCEPT !.pc = "mark_verified", !.out = o]
                              ELSE [Captured(w, 1) EXCEPT !.pc = "fail"])
                /\ NoFault
  /\ UNCHANGED <<control, ledger, store>>

-----------------------------------------------------------------------------
(***************************************************************************)
(* Creating an object: _create_output and _create_manifest                 *)
(***************************************************************************)
\* immutable_create_and_verify reads the durable receipt first.
Recall(w) ==
  /\ At(w, "recall")
  /\ IF NothingDeleted(w)
       THEN Moves(w, [workers[w] EXCEPT !.pc = "head", !.receipt = receipts[Key(w)]])
       ELSE Goes(w, "fail")
  /\ UNCHANGED <<control, ledger, store, budget, faults>>

Receives(w, pc, disposition) ==
  Moves(w, [workers[w] EXCEPT !.pc = pc, !.receipt = disposition])

Head(w) == LET durable == workers[w].receipt # NoReceipt  present == Key(w) \in store IN
  /\ At(w, "head")
  /\ \/ present /\ durable /\ Goes(w, "after")
     \/ present /\ ~durable /\ Receives(w, "verify", "reused")
     \/ ~present /\ durable /\ Goes(w, "fail")
     \/ ~present /\ ~durable /\ Goes(w, "guard")
  /\ UNCHANGED <<control, ledger, store, budget, faults>>

\* _create_boundary_guard, before the create and again after it.
Boundary(w) == Holds(w) /\ NothingDeleted(w)
Guard(w) == Passes(w, "guard", "put", Boundary(w))

Put(w) ==
  /\ At(w, "put")
  /\ \/ /\ store' = store \cup {Key(w)} /\ NoFault
        /\ Receives(w, "verify", IF Key(w) \in store THEN "reused" ELSE "created")
     \/ /\ store' \in {store, store \cup {Key(w)}} /\ Fault
        /\ Receives(w, "verify", "reused_after_ambiguous_create")
  /\ UNCHANGED <<control, ledger, budget>>

VerifyCreated(w) == Passes(w, "verify", "after", Key(w) \in store)
AfterCreate(w) == Passes(w, "after", "persist", Boundary(w))

\* The ledger keeps one receipt for a key, and waits while a cleanup has it.
Accepts(w) == receipts[Key(w)] \in {NoReceipt, workers[w].receipt}
LedgerFree == cleanup # "deleting"

MutEarlyReceipt(w) == IF workers[w].phase = "output" THEN "mark_output" ELSE "mark_manifest"
AfterReceipt(w) == IF workers[w].phase = "output" THEN "mark_output" ELSE "lineage"

Persist(w) ==
  /\ At(w, "persist") /\ LedgerFree
  /\ IF Accepts(w)
       THEN /\ receipts' = [receipts EXCEPT ![Key(w)] = workers[w].receipt]
            /\ Goes(w, AfterReceipt(w))
       ELSE UNCHANGED receipts /\ Goes(w, "fail")
  /\ UNCHANGED <<control, lineage, cleanup, doomed, store, budget, faults>>

PersistLineage(w) ==
  /\ At(w, "lineage") /\ LedgerFree
  /\ lineage' = lineage \cup {workers[w].out}
  /\ Goes(w, "mark_manifest")
  /\ UNCHANGED <<control, receipts, cleanup, doomed, store, budget, faults>>

-----------------------------------------------------------------------------
(***************************************************************************)
(* The end of a claim                                                      *)
(***************************************************************************)
Leaves(w, state) ==
  job' = IF Current(w) THEN [state |-> state, holder |-> NoWorker, expired |-> FALSE] ELSE job

\* complete stores the result and ends the lease; a call that breaks may have
\* done neither, or only the first.
Complete(w) ==
  /\ At(w, "complete")
  /\ \/ /\ Current(w) /\ NoFault
        /\ result' = workers[w].out /\ Leaves(w, "completed")
        /\ Moves(w, Idle)
     \/ /\ ~Current(w) /\ NoFault
        /\ Goes(w, "fail") /\ UNCHANGED <<job, result>>
     \/ /\ Current(w) /\ Fault
        /\ result' \in {result, workers[w].out} /\ UNCHANGED job
        /\ Goes(w, "fail")
  /\ UNCHANGED <<checkpoint, ledger, store, budget>>

\* _record_attempt_failure closes the attempt at the stage it had reached.
Larger(m, n) == IF m >= n THEN m ELSE n
ClosedStage(stage) == IF stage \in PostTransform THEN stage ELSE "attempt_failed"
MutStaleMetrics(w) == workers[w].last.cpu
ClosedCpu(w) == Larger(workers[w].last.cpu, Cpu(w))
Closed(w) == [workers[w].last EXCEPT !.stage = ClosedStage(@), !.open = FALSE, !.cpu = ClosedCpu(w)]

\* The failure is recorded, then the job blocked and released; each call may
\* be lost, and nothing is recorded of a lease that is not current.  The code's
\* branch for no last checkpoint is left out: it takes a control plane that
\* answers a claim with the checkpoint or the attempt of another job.
EndClaim(w) ==
  /\ At(w, "fail") /\ Moves(w, Idle)
  /\ \E recorded, released \in BOOLEAN :
       /\ IF recorded /\ released THEN NoFault ELSE Fault
       /\ checkpoint' = IF recorded /\ ~workers[w].silent /\ Current(w)
                           THEN Closed(w) ELSE checkpoint
       /\ IF released THEN Leaves(w, "blocked") ELSE UNCHANGED job
  /\ UNCHANGED <<result, ledger, store, budget>>

\* A request or a check fails: the failure will be recorded.
Fails(w) ==
  /\ workers[w].pc \notin {"idle", "fail"} /\ Fault /\ Goes(w, "fail")
  /\ UNCHANGED <<control, ledger, store, budget>>

\* The cache or a record is unsafe: the claim ends without a record of it.
Breaks(w) ==
  /\ workers[w].pc \notin {"idle", "fail"} /\ Fault
  /\ Moves(w, [workers[w] EXCEPT !.pc = "fail", !.silent = TRUE])
  /\ UNCHANGED <<control, ledger, store, budget>>

Dies(w) ==
  /\ workers[w].pc # "idle" /\ Fault /\ Moves(w, Idle)
  /\ UNCHANGED <<control, ledger, store, budget>>

-----------------------------------------------------------------------------
(***************************************************************************)
(* What others do                                                          *)
(***************************************************************************)
\* The lease of a worker that is gone runs out; a slow one's may, too.
Abandoned == job.holder # NoWorker /\ At(job.holder, "idle")
Expire ==
  /\ job.state = "leased" /\ ~job.expired
  /\ job' = [job EXCEPT !.expired = TRUE]
  /\ IF Abandoned THEN NoFault ELSE Fault
  /\ UNCHANGED <<checkpoint, result, ledger, store, workers, budget>>

\* An operator settles what an open attempt used.
Reconcile ==
  /\ job.state = "blocked" /\ checkpoint.open
  /\ checkpoint' = [checkpoint EXCEPT !.stage = ClosedStage(@), !.open = FALSE, !.cpu = spent]
  /\ UNCHANGED <<job, result, ledger, store, workers, budget, faults>>

Resume ==
  /\ job.state = "blocked" /\ ~checkpoint.open
  /\ job' = [job EXCEPT !.state = "queued"]
  /\ UNCHANGED <<checkpoint, result, ledger, store, workers, budget, faults>>

\* execute_exact_cleanup of the input's lineage as receipted: the objects go,
\* then all tombstones are committed; only own creations may be deleted.
StartCleanup ==
  /\ cleanup = "none"
  /\ \A k \in Objects : receipts[k] \in {NoReceipt, "created"}
  /\ cleanup' = "deleting" /\ doomed' = {k \in Objects : receipts[k] # NoReceipt}
  /\ store' = store \ doomed'
  /\ UNCHANGED <<control, receipts, lineage, workers, budget, faults>>

CommitTombstones ==
  /\ cleanup = "deleting" /\ cleanup' = "committed"
  /\ UNCHANGED <<control, receipts, lineage, doomed, store, workers, budget, faults>>

Advance(w) ==
  \/ RecheckResult(w) \/ CheckInput(w) \/ RestoreOutput(w) \/ RestoreManifest(w)
  \/ Download(w) \/ MarkInput(w) \/ MarkStart(w) \/ Admit(w) \/ Transform(w)
  \/ MarkVerified(w) \/ Recall(w) \/ Head(w) \/ Guard(w) \/ Put(w) \/ VerifyCreated(w)
  \/ AfterCreate(w) \/ Persist(w) \/ PersistLineage(w) \/ MarkOutput(w) \/ MarkManifest(w)
  \/ Complete(w) \/ EndClaim(w)

Next ==
  \/ \E w \in Workers : Claim(w) \/ Advance(w) \/ Fails(w) \/ Breaks(w) \/ Dies(w)
  \/ Expire \/ Reconcile \/ Resume \/ StartCleanup \/ CommitTombstones

Spec == Init /\ [][Next]_vars

\* A run goes on, workers poll, abandoned leases expire, operators reconcile
\* and resume, a cleanup that has begun commits.
Fairness ==
  /\ \A w \in Workers : WF_vars(Advance(w))
  /\ WF_vars(\E w \in Workers : Claim(w))
  /\ WF_vars(Abandoned /\ Expire) /\ WF_vars(Reconcile) /\ WF_vars(Resume)
  /\ WF_vars(CommitTombstones)
FairSpec == Spec /\ Fairness

-----------------------------------------------------------------------------
(***************************************************************************)
(* Properties                                                              *)
(***************************************************************************)
\* Types, and a job is leased exactly while it has a holder.
LaptopTypeOK ==
  /\ job \in Job /\ (job.state = "leased") = (job.holder # NoWorker)
  /\ checkpoint \in Checkpoint /\ result \in Outputs \cup {NoOutput}
  /\ receipts \in [Objects -> Dispositions \cup {NoReceipt}] /\ lineage \subseteq Outputs
  /\ store \subseteq Objects /\ cleanup \in {"none", "deleting", "committed"}
  /\ doomed \subseteq Objects /\ workers \in [Workers -> Worker]
  /\ spent \in 0..MaxRuns /\ attemptCpu \in 0..MaxRuns /\ faults \in 0..MaxFaults

\* A transformer may give another output each time, workers die, leases lapse
\* under slow ones: still a job creates the objects of one output only.
OneOutputPerJob ==
  \A j, k \in store \cup {i \in Objects : receipts[i] # NoReceipt} : j[2] = k[2]

\* An attempt is closed only with the CPU it used on record: when a reply is
\* lost or a worker dies, it stays open until an operator settles it.
AttemptIsAccounted == ~checkpoint.open => checkpoint.cpu >= attemptCpu

\* What a checkpoint or a result says is durable, is: receipts, objects not
\* cleaned up, and the lineage of a finished manifest.
DurableAsSaid ==
  LET Durable(k) == receipts[k] # NoReceipt /\ (k \in store \/ k \in doomed)
      Finished(o) == Durable(<<"output", o>>) /\ Durable(<<"manifest", o>>) /\ o \in lineage
  IN /\ checkpoint.stage = "output_verified" => Durable(<<"output", checkpoint.out>>)
     /\ checkpoint.stage = "manifest_verified" => Finished(checkpoint.out)
     /\ result # NoOutput => Finished(result)

\* Once the output's receipt is checkpointed, the job completes, unless its
\* input is deleted.
ReceiptedWorkCompletes ==
  (<>(checkpoint.stage \in Receipted) /\ [](cleanup = "none")) => <>(job.state = "completed")

\* docs/trusted-laptop-worker.md: "so no prior stage can silently reset a later
\* attempt's budget".  A closed attempt has all the CPU of the job on record.
BudgetRemembered == ~checkpoint.open => checkpoint.cpu >= spent

=============================================================================
