------------------------------ MODULE LedgerQueue ------------------------------
(***************************************************************************)
(* The capability queue of the durable ledger                              *)
(* (src/src/performing_fire_corpus/ledger.py): jobs, leases, checkpoints   *)
(* and the operation ids that make calls repeatable.                       *)
(*                                                                         *)
(* Every public method runs inside one BEGIN IMMEDIATE transaction, so one *)
(* call is one action.  A call that raises rolls back and is a stuttering  *)
(* step; so is a replay of an operation id, which returns the stored       *)
(* result.  Any process that knows a lease id may call with any holder id  *)
(* and any clock: `now' is an argument of the call, not state, so no two   *)
(* callers need agree on it and it may move backwards.                     *)
(*                                                                         *)
(* A process crash between two calls is a caller that calls no more; a     *)
(* crash inside a call is undone by SQLite.                                *)
(***************************************************************************)
EXTENDS Integers, FiniteSets

CONSTANTS
  JobIds,        \* job_id values, as numbers: claim_job orders by job_id
  Slots,         \* (asset_id, operation) pairs, the UNIQUE key of table jobs
  Holders,       \* holder_id values
  Capabilities,  \* capability names
  Offers,        \* the capability sets workers claim with
  Requests,      \* the validated records create_job may be called with
  LeaseIds,      \* lease ids in the order they are issued (a bound)
  Times,         \* the instants, in seconds, a caller may pass as `now'
  Terms,         \* lease_seconds arguments
  Sequences,     \* checkpoint sequence numbers
  Summaries,     \* checkpoint payloads, "planned" is the one of a new job
  OpIds,         \* operation_id values
  NoJob, NoSlot, NoLease, NoHolder, NoOp

Statuses == {"absent", "queued", "leased", "running",
             "completed", "blocked", "failed"}
RetryStates == {"ready", "retry_scheduled", "exhausted"}
Outcomes == {"unissued", "live", "completed", "failed", "released", "expired"}
OpKinds == {"unbound", "create_job", "checkpoint", "complete_job", "fail_job"}

Checkpoint == [sequence : Sequences, summary : Summaries]
Planned == [sequence |-> 0, summary |-> "planned"]

Job == [slot : Slots \cup {NoSlot}, needs : SUBSET Capabilities, max : Nat,
        created : Statuses, status : Statuses, retry : RetryStates, attempts : Nat,
        checkpoint : Checkpoint, active : LeaseIds \cup {NoLease}]
Lease == [job : JobIds \cup {NoJob}, holder : Holders \cup {NoHolder},
          caps : SUBSET Capabilities, expires : Times, outcome : Outcomes,
          at : Times, checkpoint : Checkpoint]
Operation == [kind : OpKinds, lease : LeaseIds \cup {NoLease},
              job : JobIds \cup {NoJob}, status : Statuses, attempts : Nat,
              checkpoint : Checkpoint]

(***************************************************************************)
(* A request is a job record as create_job stores it.  The planners create *)
(* queued jobs; the public-metadata smoke records a job that has already   *)
(* run, as completed or blocked with retry_state exhausted.                *)
(***************************************************************************)
Request == [id : JobIds, slot : Slots, needs : SUBSET Capabilities,
            max : Nat \ {0}, status : {"queued", "completed", "blocked"}]

ASSUME JobIdsAssumption == JobIds \subseteq Nat /\ NoJob \notin JobIds
ASSUME LeaseIdsAssumption == LeaseIds \subseteq Nat /\ NoLease \notin LeaseIds
ASSUME TimesAssumption == Times \subseteq Nat /\ 0 \in Times
ASSUME TermsAssumption == Terms \subseteq Nat \ {0}
ASSUME CheckpointAssumption ==
  Sequences \subseteq Nat /\ 0 \in Sequences /\ "planned" \in Summaries
ASSUME RequestsAssumption == Requests \subseteq Request
ASSUME OffersAssumption == Offers \subseteq SUBSET Capabilities
ASSUME NullAssumption ==
  NoSlot \notin Slots /\ NoHolder \notin Holders /\ NoOp \notin OpIds

VARIABLES
  jobs,        \* table jobs; created stands for its column body
  leases,      \* table leases; outcome is released_at/release_reason
  operations   \* table operations: the stored result of each operation id

vars == <<jobs, leases, operations>>

NoJobRow == [slot |-> NoSlot, needs |-> {}, max |-> 0, created |-> "absent",
             status |-> "absent", retry |-> "ready", attempts |-> 0,
             checkpoint |-> Planned, active |-> NoLease]
NoLeaseRow == [job |-> NoJob, holder |-> NoHolder, caps |-> {}, expires |-> 0,
               outcome |-> "unissued", at |-> 0, checkpoint |-> Planned]
NoOperation == [kind |-> "unbound", lease |-> NoLease, job |-> NoJob,
                status |-> "absent", attempts |-> 0, checkpoint |-> Planned]

Init ==
  /\ jobs = [j \in JobIds |-> NoJobRow]
  /\ leases = [l \in LeaseIds |-> NoLeaseRow]
  /\ operations = [o \in OpIds |-> NoOperation]

-----------------------------------------------------------------------------
(***************************************************************************)
(* Operation ids.  A call whose id is already bound either replays the     *)
(* stored result or raises; both leave the tables alone.                   *)
(***************************************************************************)
MutReplayApplies(o) == TRUE
Fresh(o) == o # NoOp => operations[o].kind = "unbound"

\* The row binding an operation to the job it changed, as the job now is.
Result(kind, l, j, row) ==
  [kind |-> kind, lease |-> l, job |-> j, status |-> row.status,
   attempts |-> row.attempts, checkpoint |-> row.checkpoint]

RecordOperation(o, result) ==
  operations' = IF o = NoOp THEN operations
                            ELSE [operations EXCEPT ![o] = result]

-----------------------------------------------------------------------------
(***************************************************************************)
(* Creating jobs                                                           *)
(***************************************************************************)
AttemptsAt(status) == IF status = "queued" THEN 0 ELSE 1
JobRow(r) ==
  [slot |-> r.slot, needs |-> r.needs, max |-> r.max,
   created |-> r.status, status |-> r.status,
   retry |-> IF r.status = "queued" THEN "ready" ELSE "exhausted",
   attempts |-> AttemptsAt(r.status), checkpoint |-> Planned, active |-> NoLease]

\* The body column: the record as it was created, which no call updates.
Body(row) == [row EXCEPT !.status = row.created,
                         !.attempts = AttemptsAt(row.created),
                         !.checkpoint = Planned]

InSlot(slot) == {j \in JobIds : jobs[j].slot = slot}

\* A job for the same (asset_id, operation) exists: its body is the answer,
\* whatever became of the job since.
CreateDuplicate(r, o) ==
  /\ Fresh(o)
  /\ \E j \in InSlot(r.slot) :
       RecordOperation(o, Result("create_job", NoLease, j, Body(jobs[j])))
  /\ UNCHANGED <<jobs, leases>>

\* The primary key of table jobs refuses a job_id used for another slot.
CreateNew(r, o) ==
  /\ Fresh(o)
  /\ InSlot(r.slot) = {}
  /\ jobs[r.id].status = "absent"
  /\ jobs' = [jobs EXCEPT ![r.id] = JobRow(r)]
  /\ RecordOperation(o, Result("create_job", NoLease, r.id, JobRow(r)))
  /\ UNCHANGED leases

CreateJob(r, o) == CreateDuplicate(r, o) \/ CreateNew(r, o)

-----------------------------------------------------------------------------
(***************************************************************************)
(* Expiry and claims                                                       *)
(***************************************************************************)
Live(l) == leases[l].outcome = "live"
Due(now) == {l \in LeaseIds : Live(l) /\ leases[l].expires <= now}

MutRequeueForgetsAttempts(row) ==
  [row EXCEPT !.status = "queued", !.active = NoLease, !.attempts = 0]
LeaseEnds(row, outcome, now) == [row EXCEPT !.outcome = outcome, !.at = now]
Requeued(row) == [row EXCEPT !.status = "queued", !.active = NoLease]

\* Both tables after _recover_expired_locked; the attempt count stays.
ExpiredLeases(now) ==
  [l \in LeaseIds |-> IF l \in Due(now) THEN LeaseEnds(leases[l], "expired", now)
                                        ELSE leases[l]]
MutRecoveryLeavesJobs(now) == jobs
MutRecoversLeasedOnly(now) ==
  [j \in JobIds |->
     IF \E l \in Due(now) : leases[l].job = j /\ jobs[j].active = l
                               /\ jobs[j].status = "leased"
     THEN Requeued(jobs[j])
     ELSE jobs[j]]
RequeuedJobs(now) ==
  [j \in JobIds |->
     IF \E l \in Due(now) : leases[l].job = j /\ jobs[j].active = l
     THEN Requeued(jobs[j])
     ELSE jobs[j]]

\* recover_expired, and claim_job when no queued job suits the caller.
RecoverExpired(now) ==
  /\ jobs' = RequeuedJobs(now)
  /\ leases' = ExpiredLeases(now)
  /\ UNCHANGED operations

Claimable(row, available) ==
  /\ row.status = "queued"
  /\ row.retry \in {"ready", "retry_scheduled"}
  /\ row.attempts < row.max
  /\ row.needs \subseteq available

\* The candidate the SELECT returns first.
Selected(table, available) ==
  {j \in JobIds : /\ Claimable(table[j], available)
                  /\ \A k \in JobIds : Claimable(table[k], available) => j <= k}

\* uuid4 ids are fresh; numbering them in the order of issue loses nothing.
NextLeaseIds ==
  {l \in LeaseIds : /\ leases[l].outcome = "unissued"
                    /\ \A m \in LeaseIds : m < l => leases[m].outcome # "unissued"}

NewLease(j, holder, available, expires, cp) ==
  [job |-> j, holder |-> holder, caps |-> available, expires |-> expires,
   outcome |-> "live", at |-> 0, checkpoint |-> cp]
MutUndeclaredStatus(row, l) == [row EXCEPT !.status = "claimed", !.active = l]
LeasedRow(row, l) == [row EXCEPT !.status = "leased", !.active = l]

\* The bound: a lease ends within Times.
ClaimJob(holder, available, now, term) ==
  LET table == RequeuedJobs(now)
      kept == ExpiredLeases(now)
  IN  /\ now + term \in Times
      /\ \E j \in Selected(table, available), l \in NextLeaseIds :
           /\ table[j].status = "queued" /\ table[j].active = NoLease
           /\ \A m \in LeaseIds : ~(kept[m].outcome = "live" /\ kept[m].job = j)
           /\ leases' = [kept EXCEPT ![l] =
                NewLease(j, holder, available, now + term, table[j].checkpoint)]
           /\ jobs' = [table EXCEPT ![j] = LeasedRow(table[j], l)]
      /\ UNCHANGED operations

-----------------------------------------------------------------------------
(***************************************************************************)
(* Calls on a lease                                                        *)
(***************************************************************************)
ActiveLease(l, holder, now) ==
  Live(l) /\ leases[l].holder = holder /\ leases[l].expires > now

Released(l, outcome, now) ==
  [leases EXCEPT ![l] = LeaseEnds(leases[l], outcome, now)]

Heartbeat(l, holder, now, term) ==
  /\ now + term \in Times
  /\ ActiveLease(l, holder, now)
  /\ leases' = [leases EXCEPT ![l].expires = now + term]
  /\ UNCHANGED <<jobs, operations>>

\* A sequence may be repeated only with the value it already has.
CheckpointAdvances(cp, current) ==
  \/ cp.sequence > current.sequence
  \/ cp = current

MutJobKeepsCheckpoint(row, cp) == [row EXCEPT !.status = "running"]
SavedRow(row, cp) == [row EXCEPT !.checkpoint = cp, !.status = "running"]

WriteCheckpoint(l, holder, cp, o, now) ==
  /\ Fresh(o)
  /\ ActiveLease(l, holder, now)
  /\ CheckpointAdvances(cp, leases[l].checkpoint)
  /\ leases' = [leases EXCEPT ![l].checkpoint = cp]
  /\ LET j == leases[l].job
         row == SavedRow(jobs[j], cp)
     IN  /\ jobs' = [jobs EXCEPT ![j] = row]
         /\ RecordOperation(o, Result("checkpoint", l, j, row))

MutCompletionClearsCheckpoint(row) ==
  [row EXCEPT !.status = "completed", !.retry = "ready", !.active = NoLease,
              !.checkpoint = Planned]
CompletedRow(row) ==
  [row EXCEPT !.status = "completed", !.retry = "ready", !.active = NoLease]

CompleteJob(l, holder, o, now) ==
  /\ Fresh(o)
  /\ ActiveLease(l, holder, now)
  /\ leases' = Released(l, "completed", now)
  /\ LET j == leases[l].job
         row == CompletedRow(jobs[j])
     IN  /\ jobs' = [jobs EXCEPT ![j] = row]
         /\ RecordOperation(o, Result("complete_job", l, j, row))

MutOneRetryTooMany(row, retryable) ==
  LET attempts == row.attempts + 1
      exhausted == ~retryable \/ attempts > row.max
  IN  [row EXCEPT !.status = IF exhausted THEN "failed" ELSE "queued",
                  !.retry = IF exhausted THEN "exhausted" ELSE "retry_scheduled",
                  !.attempts = attempts, !.active = NoLease]
FailedRow(row, retryable) ==
  LET attempts == row.attempts + 1
      exhausted == ~retryable \/ attempts >= row.max
  IN  [row EXCEPT !.status = IF exhausted THEN "failed" ELSE "queued",
                  !.retry = IF exhausted THEN "exhausted" ELSE "retry_scheduled",
                  !.attempts = attempts, !.active = NoLease]

FailJob(l, holder, retryable, o, now) ==
  /\ Fresh(o)
  /\ ActiveLease(l, holder, now)
  /\ leases' = Released(l, "failed", now)
  /\ LET j == leases[l].job
         row == FailedRow(jobs[j], retryable)
     IN  /\ jobs' = [jobs EXCEPT ![j] = row]
         /\ RecordOperation(o, Result("fail_job", l, j, row))

ReleaseLease(l, holder, now) ==
  /\ ActiveLease(l, holder, now)
  /\ leases' = Released(l, "released", now)
  /\ LET j == leases[l].job
     IN  jobs' = [jobs EXCEPT ![j] = Requeued(jobs[j])]
  /\ UNCHANGED operations

-----------------------------------------------------------------------------
Next ==
  \/ \E r \in Requests, o \in OpIds \cup {NoOp} : CreateJob(r, o)
  \/ \E now \in Times : RecoverExpired(now)
  \/ \E h \in Holders, available \in Offers, now \in Times, term \in Terms :
       ClaimJob(h, available, now, term)
  \/ \E l \in LeaseIds, h \in Holders, now \in Times :
       \/ \E term \in Terms : Heartbeat(l, h, now, term)
       \/ \E cp \in Checkpoint, o \in OpIds \cup {NoOp} :
            WriteCheckpoint(l, h, cp, o, now)
       \/ \E o \in OpIds \cup {NoOp} : CompleteJob(l, h, o, now)
       \/ \E retryable \in BOOLEAN, o \in OpIds \cup {NoOp} :
            FailJob(l, h, retryable, o, now)
       \/ ReleaseLease(l, h, now)

Spec == Init /\ [][Next]_vars

-----------------------------------------------------------------------------
(***************************************************************************)
(* Safety                                                                  *)
(***************************************************************************)
\* Every table holds rows of its type.
TypeOK ==
  /\ jobs \in [JobIds -> Job]
  /\ leases \in [LeaseIds -> Lease]
  /\ operations \in [OpIds -> Operation]

\* A job is handed out exactly while one live lease names it: jobs and leases
\* are two tables, updated by six methods, and they never disagree.
LeaseJobAgreement ==
  /\ \A l \in LeaseIds : Live(l) =>
       leases[l].job \in JobIds /\ jobs[leases[l].job].active = l
  /\ \A j \in JobIds : jobs[j].active # NoLease =>
       Live(jobs[j].active) /\ leases[jobs[j].active].job = j
  /\ \A j \in JobIds :
       jobs[j].status \in {"leased", "running"} <=> jobs[j].active # NoLease

\* A live lease carries the job's checkpoint, so a resumed job starts where
\* the last holder stopped, and no ended lease ever got further than the job.
CheckpointAgreement ==
  \A l \in LeaseIds : leases[l].outcome # "unissued" =>
    LET saved == jobs[leases[l].job].checkpoint
    IN  /\ leases[l].checkpoint.sequence <= saved.sequence
        /\ Live(l) => leases[l].checkpoint = saved

\* A caller that lost a reply and repeats its operation id, however late, is
\* told something that is still so: the job it created is the one in the slot,
\* the job it completed is completed, its checkpoint has not been undone and
\* its failure is still counted.
RecordedResultsHold ==
  \A o \in OpIds : operations[o].kind # "unbound" =>
    LET result == operations[o]
        row == jobs[result.job]
    IN  /\ InSlot(row.slot) = {result.job}
        /\ row.checkpoint.sequence >= result.checkpoint.sequence
        /\ row.attempts >= result.attempts
        /\ result.status \in {"completed", "failed"} => row.status = result.status
        /\ result.kind = "complete_job" => result.status = "completed"

\* Ended leases, bound operation ids and finished jobs are history: a stale
\* holder, a late recovery or a duplicate create changes none of them.
HistoryIsFinal ==
  [][/\ \A l \in LeaseIds :
          leases[l].outcome \notin {"unissued", "live"} => leases'[l] = leases[l]
     /\ \A o \in OpIds :
          operations[o].kind # "unbound" => operations'[o] = operations[o]
     /\ \A j \in JobIds :
          jobs[j].status \in {"completed", "failed", "blocked"} => jobs'[j] = jobs[j]
    ]_vars

-----------------------------------------------------------------------------
(***************************************************************************)
(* The queue implements the job board.                                     *)
(***************************************************************************)
PhaseOf(row) ==
  CASE row.status = "absent" -> "absent"
    [] row.status = "queued" -> "open"
    [] row.status \in {"leased", "running"} -> "held"
    [] row.status = "completed" -> "finished"
    [] row.status = "failed" -> "dead"
    [] row.status = "blocked" -> "parked"
OwnerOf(row) == IF row.active = NoLease THEN NoHolder ELSE leases[row.active].holder

Board == INSTANCE JobBoard WITH
  Amounts <- Sequences,
  phase <- [j \in JobIds |-> PhaseOf(jobs[j])],
  owner <- [j \in JobIds |-> OwnerOf(jobs[j])],
  failures <- [j \in JobIds |-> jobs[j].attempts],
  saved <- [j \in JobIds |-> jobs[j].checkpoint.sequence]

\* Leases, clocks, recovery and operation ids never show through to a worker.
BoardSpec == Board!Spec

-----------------------------------------------------------------------------
(***************************************************************************)
(* Liveness.  The workers' timers keep polling: for every capability set   *)
(* some holder keeps trying to claim, and somebody's clock keeps advancing *)
(* past the leases that are due.  No holder is assumed to finish.          *)
(***************************************************************************)
Fairness ==
  /\ WF_vars(\E now \in Times : RecoverExpired(now))
  /\ \A available \in Offers :
       WF_vars(\E h \in Holders, now \in Times, term \in Terms :
                 ClaimJob(h, available, now, term))

FairSpec == Spec /\ Fairness

Resolved(j) == jobs[j].status \in {"completed", "failed", "blocked"}
Losses == {l \in LeaseIds : leases[l].outcome \in {"released", "expired"}}

\* A worker that dies strands no job: whatever is handed out comes back or ends.
NoJobStranded ==
  \A j \in JobIds : jobs[j].status \in {"leased", "running"} ~>
                      (jobs[j].status = "queued" \/ Resolved(j))

\* Unless holders keep losing leases, every queued job is completed or failed:
\* retries are bounded and no job starves another.
QueuedJobsResolve(limit) ==
  []( Cardinality(Losses) <= limit ) =>
    \A j \in JobIds : jobs[j].status = "queued" ~> Resolved(j)
=============================================================================
