--------------------------- MODULE LedgerQueueProofs ---------------------------
(***************************************************************************)
(* Theorems about LedgerQueue, for every value of its constants: its       *)
(* types, its safety, and that it implements JobBoard.                     *)
(***************************************************************************)
EXTENDS LedgerQueue, TLAPS

\* The tables always hold rows of their types (the six methods of ledger.py
\* that write jobs and leases build no other row).
LEMMA PlannedType == Planned \in Checkpoint
BY CheckpointAssumption DEF Planned, Checkpoint

LEMMA LedgerInitType == Init => TypeOK
<1> SUFFICES ASSUME Init PROVE TypeOK
  OBVIOUS
<1> USE PlannedType
<1>1. NoJobRow \in Job
  BY DEF NoJobRow, Job, Statuses, RetryStates
<1>2. NoLeaseRow \in Lease
  BY TimesAssumption DEF NoLeaseRow, Lease, Outcomes
<1>3. NoOperation \in Operation
  BY DEF NoOperation, Operation, OpKinds, Statuses
<1> QED
  BY <1>1, <1>2, <1>3 DEF Init, TypeOK

LEMMA RecordType ==
  ASSUME TypeOK, NEW o \in OpIds \cup {NoOp}, NEW kind \in OpKinds,
         NEW l \in LeaseIds \cup {NoLease}, NEW j \in JobIds, NEW row \in Job,
         RecordOperation(o, Result(kind, l, j, row))
  PROVE  operations' \in [OpIds -> Operation]
<1>1. Result(kind, l, j, row) \in Operation
  BY DEF Result, Operation, Job
<1> QED
  BY <1>1 DEF RecordOperation, TypeOK

\* The rows the methods write: each keeps its type and changes no other field.
LEMMA RequeuedRow ==
  ASSUME NEW row \in Job
  PROVE  LET new == Requeued(row)
         IN  /\ new \in Job /\ new.status = "queued" /\ new.active = NoLease
             /\ new.slot = row.slot /\ new.needs = row.needs /\ new.max = row.max
             /\ new.created = row.created
             /\ new.retry = row.retry /\ new.attempts = row.attempts
             /\ new.checkpoint = row.checkpoint
BY DEF Requeued, Job, Statuses

LEMMA LeasedRowRow ==
  ASSUME NEW row \in Job, NEW l \in LeaseIds
  PROVE  LET new == LeasedRow(row, l)
         IN  /\ new \in Job /\ new.status = "leased" /\ new.active = l
             /\ new.slot = row.slot /\ new.needs = row.needs /\ new.max = row.max
             /\ new.created = row.created
             /\ new.retry = row.retry /\ new.attempts = row.attempts
             /\ new.checkpoint = row.checkpoint
BY DEF LeasedRow, Job, Statuses

LEMMA SavedRowRow ==
  ASSUME NEW row \in Job, NEW cp \in Checkpoint
  PROVE  LET new == SavedRow(row, cp)
         IN  /\ new \in Job /\ new.status = "running" /\ new.active = row.active
             /\ new.slot = row.slot /\ new.needs = row.needs /\ new.max = row.max
             /\ new.created = row.created
             /\ new.retry = row.retry /\ new.attempts = row.attempts
             /\ new.checkpoint = cp
BY DEF SavedRow, Job, Statuses

LEMMA CompletedRowRow ==
  ASSUME NEW row \in Job
  PROVE  LET new == CompletedRow(row)
         IN  /\ new \in Job /\ new.status = "completed" /\ new.active = NoLease
             /\ new.slot = row.slot /\ new.needs = row.needs /\ new.max = row.max
             /\ new.created = row.created
             /\ new.attempts = row.attempts /\ new.checkpoint = row.checkpoint
BY DEF CompletedRow, Job, Statuses, RetryStates

LEMMA FailedRowRow ==
  ASSUME NEW row \in Job, NEW retryable \in BOOLEAN
  PROVE  LET new == FailedRow(row, retryable)
         IN  /\ new \in Job /\ new.status \in {"queued", "failed"}
             /\ new.status = "queued" => new.attempts < new.max
             /\ new.active = NoLease
             /\ new.slot = row.slot /\ new.needs = row.needs /\ new.max = row.max
             /\ new.created = row.created
             /\ new.attempts = row.attempts + 1 /\ new.checkpoint = row.checkpoint
<1>1. row.attempts + 1 \in Nat /\ row.max \in Nat
  BY DEF Job
<1>2. ASSUME NEW s \in Statuses, NEW t \in RetryStates,
             FailedRow(row, retryable) =
               [row EXCEPT !.status = s, !.retry = t,
                           !.attempts = row.attempts + 1, !.active = NoLease]
      PROVE  LET new == FailedRow(row, retryable)
             IN  /\ new \in Job /\ new.status = s /\ new.active = NoLease
                 /\ new.slot = row.slot /\ new.needs = row.needs
                 /\ new.created = row.created
                 /\ new.max = row.max /\ new.attempts = row.attempts + 1
                 /\ new.checkpoint = row.checkpoint
  BY <1>1, <1>2 DEF Job
<1>3. CASE ~retryable \/ row.attempts + 1 >= row.max
  <2>1. FailedRow(row, retryable) =
          [row EXCEPT !.status = "failed", !.retry = "exhausted",
                      !.attempts = row.attempts + 1, !.active = NoLease]
    BY <1>3 DEF FailedRow
  <2>2. "failed" \in Statuses /\ "exhausted" \in RetryStates
    BY DEF Statuses, RetryStates
  <2> QED
    BY <1>2, <2>1, <2>2
<1>4. CASE ~(~retryable \/ row.attempts + 1 >= row.max)
  <2>1. FailedRow(row, retryable) =
          [row EXCEPT !.status = "queued", !.retry = "retry_scheduled",
                      !.attempts = row.attempts + 1, !.active = NoLease]
    BY <1>4 DEF FailedRow
  <2>2. "queued" \in Statuses /\ "retry_scheduled" \in RetryStates
    BY DEF Statuses, RetryStates
  <2>3. row.attempts + 1 < row.max
    BY <1>1, <1>4
  <2> QED
    BY <1>2, <2>1, <2>2, <2>3
<1> QED
  BY <1>3, <1>4

LEMMA LeaseEndsRow ==
  ASSUME NEW row \in Lease, NEW now \in Times, NEW outcome \in Outcomes
  PROVE  LET new == LeaseEnds(row, outcome, now)
         IN  /\ new \in Lease /\ new.outcome = outcome /\ new.at = now
             /\ new.job = row.job /\ new.holder = row.holder /\ new.caps = row.caps
             /\ new.expires = row.expires /\ new.checkpoint = row.checkpoint
BY DEF LeaseEnds, Lease

LEMMA JobRowRow ==
  ASSUME NEW r \in Requests
  PROVE  LET new == JobRow(r)
         IN  /\ new \in Job /\ new.status = r.status /\ new.active = NoLease
             /\ new.status \in {"queued", "completed", "blocked"}
             /\ new.slot = r.slot /\ new.slot \in Slots /\ new.needs = r.needs
             /\ new.max = r.max /\ new.max > 0
             /\ new.status = "queued" => new.attempts = 0
             /\ new.status # "queued" => new.attempts = 1
             /\ new.created = r.status
             /\ new.checkpoint = Planned /\ r.id \in JobIds
BY RequestsAssumption, PlannedType
   DEF JobRow, AttemptsAt, Request, Job, Statuses, RetryStates

\* What create_job answers for a job that exists: the record it was created as.
LEMMA BodyRow ==
  ASSUME NEW row \in Job
  PROVE  LET body == Body(row)
         IN  /\ body \in Job /\ body.status = row.created
             /\ body.attempts = AttemptsAt(row.created)
             /\ body.checkpoint = Planned
BY PlannedType DEF Body, AttemptsAt, Job

-----------------------------------------------------------------------------
\* Types and the agreement of the two tables are inductive together: a call on
\* a lease writes the row of a job only because a live lease names one.
Core == TypeOK /\ LeaseJobAgreement

\* LeaseJobAgreement of two tables that are not yet committed.
Agree(jt, lt) ==
  /\ \A l \in LeaseIds : lt[l].outcome = "live" =>
       lt[l].job \in JobIds /\ jt[lt[l].job].active = l
  /\ \A j \in JobIds : jt[j].active # NoLease =>
       lt[jt[j].active].outcome = "live" /\ lt[jt[j].active].job = j
  /\ \A j \in JobIds :
       jt[j].status \in {"leased", "running"} <=> jt[j].active # NoLease

LEMMA HeldJob ==
  ASSUME Core, NEW l \in LeaseIds, Live(l)
  PROVE  /\ leases[l] \in Lease
         /\ leases[l].job \in JobIds
         /\ jobs[leases[l].job] \in Job
         /\ jobs[leases[l].job].active = l
         /\ jobs[leases[l].job].status \in {"leased", "running"}
         /\ \A m \in LeaseIds : Live(m) /\ leases[m].job = leases[l].job => m = l
BY LeaseIdsAssumption DEF Core, TypeOK, LeaseJobAgreement

\* A call that ends lease l: the job's row loses its lease.
Ends(l, row, outcome, now) ==
  /\ leases' = Released(l, outcome, now)
  /\ jobs' = [jobs EXCEPT ![leases[l].job] = row]

LEMMA EndingRows ==
  ASSUME Core, NEW l \in LeaseIds, Live(l), NEW row \in Job, NEW now \in Times,
         NEW outcome \in {"completed", "failed", "released"},
         Ends(l, row, outcome, now)
  PROVE  /\ jobs' \in [JobIds -> Job]
         /\ leases' \in [LeaseIds -> Lease]
         /\ jobs'[leases[l].job] = row
         /\ \A k \in JobIds : k # leases[l].job => jobs'[k] = jobs[k]
         /\ leases'[l] = LeaseEnds(leases[l], outcome, now)
         /\ \A m \in LeaseIds : m # l => leases'[m] = leases[m]
         /\ leases'[l].outcome = outcome /\ leases'[l].at = now
         /\ leases'[l].job = leases[l].job /\ leases'[l].caps = leases[l].caps
         /\ leases'[l].expires = leases[l].expires
         /\ leases'[l].checkpoint = leases[l].checkpoint
<1>1. leases[l].job \in JobIds /\ leases[l] \in Lease
  BY HeldJob
<1>2. LeaseEnds(leases[l], outcome, now) \in Lease
  <2>1. outcome \in Outcomes
    BY DEF Outcomes
  <2> QED
    BY <1>1, <2>1, LeaseEndsRow
<1>3. /\ leases' \in [LeaseIds -> Lease]
      /\ leases'[l] = LeaseEnds(leases[l], outcome, now)
      /\ \A m \in LeaseIds : m # l => leases'[m] = leases[m]
  <2>1. leases' = [leases EXCEPT ![l] = LeaseEnds(leases[l], outcome, now)]
    BY DEF Ends, Released
  <2>2. leases \in [LeaseIds -> Lease]
    BY DEF Core, TypeOK
  <2> QED
    BY <1>2, <2>1, <2>2
<1>4. /\ jobs' \in [JobIds -> Job] /\ jobs'[leases[l].job] = row
      /\ \A k \in JobIds : k # leases[l].job => jobs'[k] = jobs[k]
  BY <1>1 DEF Core, TypeOK, Ends
<1>5. outcome \in Outcomes
  BY DEF Outcomes
<1> QED
  BY <1>1, <1>3, <1>4, <1>5, LeaseEndsRow

LEMMA EndingAgrees ==
  ASSUME Core, NEW l \in LeaseIds, Live(l), NEW row \in Job, NEW now \in Times,
         NEW outcome \in {"completed", "failed", "released"},
         Ends(l, row, outcome, now),
         row.active = NoLease, row.status \in {"queued", "completed", "failed"}
  PROVE  LeaseJobAgreement'
<1> DEFINE j == leases[l].job
<1>1. /\ j \in JobIds /\ jobs[j].active = l
      /\ \A m \in LeaseIds : Live(m) /\ leases[m].job = j => m = l
  BY HeldJob
<1>2. /\ jobs'[j] = row /\ leases'[l].outcome = outcome
      /\ \A k \in JobIds : k # j => jobs'[k] = jobs[k]
      /\ \A m \in LeaseIds : m # l => leases'[m] = leases[m]
  BY EndingRows
<1>3. Agree(jobs, leases)
  BY DEF Core, LeaseJobAgreement, Agree, Live
<1>4. \A k \in JobIds : jobs[k].active = NoLease \/ jobs[k].active \in LeaseIds
  BY DEF Core, TypeOK, Job
<1> HIDE DEF j
<1>5. Agree(jobs', leases')
  BY <1>1, <1>2, <1>3, <1>4 DEF Agree, Live
<1> QED
  BY <1>5 DEF LeaseJobAgreement, Agree, Live

\* What _recover_expired_locked does to the lease l, and to the job j.
LEMMA ExpiredLease ==
  ASSUME Core, NEW now \in Times, NEW l \in LeaseIds
  PROVE  LET new == ExpiredLeases(now)[l]
         IN  /\ l \notin Due(now) => new = leases[l]
             /\ l \in Due(now) =>
                  new.outcome = "expired" /\ new.at = now /\ Live(l)
             /\ new \in Lease /\ new.job = leases[l].job
             /\ new.caps = leases[l].caps /\ new.holder = leases[l].holder
             /\ new.expires = leases[l].expires
             /\ new.checkpoint = leases[l].checkpoint
<1>1. leases[l] \in Lease
  BY DEF Core, TypeOK
<1>2. CASE l \in Due(now)
  <2>1. ExpiredLeases(now)[l] = LeaseEnds(leases[l], "expired", now) /\ Live(l)
    BY <1>2 DEF ExpiredLeases, Due
  <2>2. "expired" \in Outcomes
    BY DEF Outcomes
  <2> QED
    BY <1>1, <1>2, <2>1, <2>2, LeaseEndsRow
<1>3. CASE l \notin Due(now)
  BY <1>1, <1>3 DEF ExpiredLeases
<1> QED
  BY <1>2, <1>3

LEMMA RequeuedJob ==
  ASSUME Core, NEW now \in Times, NEW j \in JobIds
  PROVE  LET new == RequeuedJobs(now)[j]
         IN  /\ jobs[j].active \notin Due(now) => new = jobs[j]
             /\ jobs[j].active \in Due(now) =>
                  /\ jobs[j].active # NoLease
                  /\ new.status = "queued" /\ new.active = NoLease
             /\ new \in Job /\ new.slot = jobs[j].slot /\ new.needs = jobs[j].needs
             /\ new.created = jobs[j].created
             /\ new.max = jobs[j].max /\ new.retry = jobs[j].retry
             /\ new.attempts = jobs[j].attempts
             /\ new.checkpoint = jobs[j].checkpoint
<1>1. jobs[j] \in Job
  BY DEF Core, TypeOK
<1>2. CASE jobs[j].active \in Due(now)
  <2>1. jobs[j].active # NoLease
    BY <1>2, LeaseIdsAssumption DEF Due
  <2>2. leases[jobs[j].active].job = j
    BY <2>1 DEF Core, LeaseJobAgreement
  <2>3. RequeuedJobs(now)[j] = Requeued(jobs[j])
    BY <1>2, <2>2 DEF RequeuedJobs
  <2> QED
    BY <1>1, <1>2, <2>1, <2>3, RequeuedRow
<1>3. CASE jobs[j].active \notin Due(now)
  BY <1>1, <1>3 DEF RequeuedJobs
<1> QED
  BY <1>2, <1>3

LEMMA ExpiryTables ==
  ASSUME Core, NEW now \in Times
  PROVE  /\ RequeuedJobs(now) \in [JobIds -> Job]
         /\ ExpiredLeases(now) \in [LeaseIds -> Lease]
<1>1. \A j \in JobIds : RequeuedJobs(now)[j] \in Job
  BY RequeuedJob
<1>2. \A l \in LeaseIds : ExpiredLeases(now)[l] \in Lease
  BY ExpiredLease
<1> QED
  BY <1>1, <1>2 DEF RequeuedJobs, ExpiredLeases

LEMMA ExpiryAgrees ==
  ASSUME Core, NEW now \in Times
  PROVE  Agree(RequeuedJobs(now), ExpiredLeases(now))
<1>1. Agree(jobs, leases)
  BY DEF Core, LeaseJobAgreement, Agree, Live
<1>2. Due(now) \subseteq LeaseIds /\ NoLease \notin Due(now)
  BY LeaseIdsAssumption DEF Due
<1>3. \A l \in LeaseIds : ExpiredLeases(now)[l].outcome = "live" =>
        /\ l \notin Due(now) /\ leases[l].outcome = "live"
        /\ ExpiredLeases(now)[l] = leases[l]
  BY ExpiredLease
<1>4. \A j \in JobIds : RequeuedJobs(now)[j].active # NoLease =>
        jobs[j].active \notin Due(now) /\ RequeuedJobs(now)[j] = jobs[j]
  BY RequeuedJob
<1>5. \A j \in JobIds : RequeuedJobs(now)[j].active # NoLease =>
        /\ jobs[j].active \in LeaseIds
        /\ ExpiredLeases(now)[jobs[j].active] = leases[jobs[j].active]
  BY <1>4, ExpiredLease DEF Core, TypeOK, Job
<1>6. \A l \in LeaseIds : ExpiredLeases(now)[l].outcome = "live" =>
        /\ leases[l].job \in JobIds
        /\ jobs[leases[l].job].active = l
        /\ RequeuedJobs(now)[leases[l].job] = jobs[leases[l].job]
  BY <1>1, <1>3, RequeuedJob DEF Agree
<1>7. \A j \in JobIds : RequeuedJobs(now)[j].status \in {"leased", "running"}
                          <=> RequeuedJobs(now)[j].active # NoLease
  BY <1>1, RequeuedJob DEF Agree
<1> QED
  BY <1>1, <1>3, <1>4, <1>5, <1>6, <1>7 DEF Agree

\* A claim that hands job j out under the new lease l: both tables row by row.
Claims(holder, available, now, term, j, l) ==
  /\ now + term \in Times
  /\ j \in Selected(RequeuedJobs(now), available)
  /\ l \in NextLeaseIds
  /\ RequeuedJobs(now)[j].status = "queued"
  /\ RequeuedJobs(now)[j].active = NoLease
  /\ \A m \in LeaseIds : ~(ExpiredLeases(now)[m].outcome = "live"
                             /\ ExpiredLeases(now)[m].job = j)
  /\ leases' = [ExpiredLeases(now) EXCEPT ![l] =
       NewLease(j, holder, available, now + term, RequeuedJobs(now)[j].checkpoint)]
  /\ jobs' = [RequeuedJobs(now) EXCEPT ![j] = LeasedRow(RequeuedJobs(now)[j], l)]
  /\ UNCHANGED operations

LEMMA ClaimJobClaims ==
  ASSUME NEW holder, NEW available, NEW now, NEW term,
         ClaimJob(holder, available, now, term)
  PROVE  \E j \in JobIds, l \in LeaseIds :
           Claims(holder, available, now, term, j, l)
<1>1. PICK j \in Selected(RequeuedJobs(now), available), l \in NextLeaseIds :
        Claims(holder, available, now, term, j, l)
  BY DEF ClaimJob, Claims
<1> QED
  BY <1>1 DEF Selected, NextLeaseIds

LEMMA ClaimRows ==
  ASSUME Core, NEW holder \in Holders, NEW available \in Offers, NEW now \in Times,
         NEW term \in Terms, NEW j \in JobIds, NEW l \in LeaseIds,
         Claims(holder, available, now, term, j, l)
  PROVE  /\ jobs' \in [JobIds -> Job] /\ leases' \in [LeaseIds -> Lease]
         /\ \A k \in JobIds : k # j => jobs'[k] = RequeuedJobs(now)[k]
         /\ \A m \in LeaseIds : m # l => leases'[m] = ExpiredLeases(now)[m]
         /\ jobs'[j].status = "leased" /\ jobs'[j].active = l
         /\ jobs'[j].slot = jobs[j].slot /\ jobs'[j].needs = jobs[j].needs
         /\ jobs'[j].created = jobs[j].created
         /\ jobs'[j].max = jobs[j].max /\ jobs'[j].retry = jobs[j].retry
         /\ jobs'[j].attempts = jobs[j].attempts
         /\ jobs'[j].checkpoint = jobs[j].checkpoint
         /\ leases'[l] = NewLease(j, holder, available, now + term, jobs[j].checkpoint)
         /\ Claimable(RequeuedJobs(now)[j], available)
         /\ RequeuedJobs(now)[j].active = NoLease
         /\ leases[l].outcome = "unissued"
<1>1. RequeuedJobs(now) \in [JobIds -> Job] /\ ExpiredLeases(now) \in [LeaseIds -> Lease]
  BY ExpiryTables
<1>2. RequeuedJobs(now)[j].checkpoint = jobs[j].checkpoint
  BY RequeuedJob
<1>3. RequeuedJobs(now)[j].checkpoint \in Checkpoint
  BY <1>1 DEF Job
<1> DEFINE new == NewLease(j, holder, available, now + term, RequeuedJobs(now)[j].checkpoint)
<1>4. now + term \in Times /\ available \subseteq Capabilities
  BY OffersAssumption DEF Claims
<1>5. new \in Lease
  BY <1>3, <1>4, TimesAssumption DEF NewLease, Lease, Outcomes
<1>6. LeasedRow(RequeuedJobs(now)[j], l) \in Job
  BY <1>1, LeasedRowRow
<1>7. jobs' \in [JobIds -> Job] /\ leases' \in [LeaseIds -> Lease]
  BY <1>1, <1>5, <1>6 DEF Claims
<1>8. jobs'[j] = LeasedRow(RequeuedJobs(now)[j], l) /\ leases'[l] = new
  BY <1>1 DEF Claims
<1>9. /\ \A k \in JobIds : k # j => jobs'[k] = RequeuedJobs(now)[k]
      /\ \A m \in LeaseIds : m # l => leases'[m] = ExpiredLeases(now)[m]
  BY <1>1 DEF Claims
<1>10. /\ Claimable(RequeuedJobs(now)[j], available)
       /\ RequeuedJobs(now)[j].active = NoLease
       /\ leases[l].outcome = "unissued"
  BY DEF Claims, Selected, NextLeaseIds
<1>11. /\ jobs'[j].status = "leased" /\ jobs'[j].active = l
       /\ jobs'[j].slot = jobs[j].slot /\ jobs'[j].needs = jobs[j].needs
       /\ jobs'[j].created = jobs[j].created
       /\ jobs'[j].max = jobs[j].max /\ jobs'[j].retry = jobs[j].retry
       /\ jobs'[j].attempts = jobs[j].attempts
       /\ jobs'[j].checkpoint = jobs[j].checkpoint
  BY <1>1, <1>8, LeasedRowRow, RequeuedJob
<1> QED
  BY <1>2, <1>7, <1>8, <1>9, <1>10, <1>11

LEMMA ClaimAgrees ==
  ASSUME Core, NEW holder \in Holders, NEW available \in Offers, NEW now \in Times,
         NEW term \in Terms, NEW j \in JobIds, NEW l \in LeaseIds,
         Claims(holder, available, now, term, j, l)
  PROVE  Agree(jobs', leases')
<1> DEFINE table == RequeuedJobs(now)
           kept == ExpiredLeases(now)
<1>1. Agree(table, kept)
  BY ExpiryAgrees
<1>2. /\ \A k \in JobIds : k # j => jobs'[k] = table[k]
      /\ \A m \in LeaseIds : m # l => leases'[m] = kept[m]
      /\ jobs'[j].status = "leased" /\ jobs'[j].active = l
      /\ leases'[l] = NewLease(j, holder, available, now + term, jobs[j].checkpoint)
      /\ table[j].active = NoLease
  BY ClaimRows
<1>3. kept[l].outcome # "live"
  BY ClaimRows, ExpiredLease DEF Due, Live
<1>4. \A k \in JobIds : table[k].active = NoLease \/ table[k].active \in LeaseIds
  BY ExpiryTables DEF Job
<1>5. leases'[l].job = j /\ leases'[l].outcome = "live"
  BY <1>2 DEF NewLease
<1> HIDE DEF table, kept
<1>6. \A m \in LeaseIds : leases'[m].outcome = "live" =>
        leases'[m].job \in JobIds /\ jobs'[leases'[m].job].active = m
  BY <1>1, <1>2, <1>5, LeaseIdsAssumption DEF Agree
<1>7. \A k \in JobIds : jobs'[k].active # NoLease =>
        leases'[jobs'[k].active].outcome = "live" /\ leases'[jobs'[k].active].job = k
  BY <1>1, <1>2, <1>3, <1>4, <1>5 DEF Agree
<1>8. \A k \in JobIds :
        jobs'[k].status \in {"leased", "running"} <=> jobs'[k].active # NoLease
  BY <1>1, <1>2, LeaseIdsAssumption DEF Agree
<1> QED
  BY <1>6, <1>7, <1>8 DEF Agree

\* Which call ends a lease, and with which row.
LEMMA EndingCalls ==
  ASSUME Core, NEW l \in LeaseIds, NEW h \in Holders, NEW now \in Times,
         NEW o \in OpIds \cup {NoOp},
         \/ CompleteJob(l, h, o, now)
         \/ \E retryable \in BOOLEAN : FailJob(l, h, retryable, o, now)
         \/ ReleaseLease(l, h, now)
  PROVE  /\ Live(l) /\ leases[l].expires > now
         /\ \E row \in Job, outcome \in {"completed", "failed", "released"} :
              /\ Ends(l, row, outcome, now)
              /\ row.active = NoLease
              /\ row.slot = jobs[leases[l].job].slot
              /\ row.created = jobs[leases[l].job].created
              /\ row.needs = jobs[leases[l].job].needs
              /\ row.max = jobs[leases[l].job].max
              /\ row.checkpoint = jobs[leases[l].job].checkpoint
              /\ row.status \in {"queued", "completed", "failed"}
              /\ outcome = "failed" =>
                   /\ row.attempts = jobs[leases[l].job].attempts + 1
                   /\ row.status = "queued" => row.attempts < row.max
              /\ outcome # "failed" => row.attempts = jobs[leases[l].job].attempts
              /\ row.status = "completed" <=> outcome = "completed"
              /\ outcome = "released" => row.status = "queued"
              /\ \/ UNCHANGED operations
                 \/ /\ outcome # "released" /\ Fresh(o)
                    /\ \E kind \in {"complete_job", "fail_job"} :
                         /\ kind = "complete_job" <=> outcome = "completed"
                         /\ RecordOperation(o, Result(kind, l, leases[l].job, row))
<1> DEFINE j == leases[l].job
<1>1. Live(l) /\ leases[l].expires > now
  BY DEF CompleteJob, FailJob, ReleaseLease, ActiveLease
<1>2. jobs[j] \in Job
  BY <1>1, HeldJob
<1>3. CASE CompleteJob(l, h, o, now)
  <2>1. /\ Ends(l, CompletedRow(jobs[j]), "completed", now) /\ Fresh(o)
        /\ RecordOperation(o, Result("complete_job", l, j, CompletedRow(jobs[j])))
    BY <1>3 DEF CompleteJob, Ends
  <2> QED
    BY <1>1, <1>2, <2>1, CompletedRowRow
<1>4. ASSUME NEW retryable \in BOOLEAN, FailJob(l, h, retryable, o, now)
      PROVE  /\ Ends(l, FailedRow(jobs[j], retryable), "failed", now) /\ Fresh(o)
             /\ RecordOperation(o, Result("fail_job", l, j, FailedRow(jobs[j], retryable)))
  BY <1>4 DEF FailJob, Ends
<1>5. CASE \E retryable \in BOOLEAN : FailJob(l, h, retryable, o, now)
  BY <1>1, <1>2, <1>4, <1>5, FailedRowRow
<1>6. CASE ReleaseLease(l, h, now)
  <2>1. Ends(l, Requeued(jobs[j]), "released", now) /\ UNCHANGED operations
    BY <1>6 DEF ReleaseLease, Ends
  <2> QED
    BY <1>1, <1>2, <2>1, RequeuedRow
<1> QED
  BY <1>3, <1>5, <1>6

\* The same for the two calls that keep the lease.
LEMMA HeartbeatRows ==
  ASSUME Core, NEW l \in LeaseIds, NEW h \in Holders, NEW now \in Times,
         NEW term \in Terms, Heartbeat(l, h, now, term)
  PROVE  /\ Live(l) /\ leases[l].expires > now
         /\ leases' \in [LeaseIds -> Lease] /\ UNCHANGED <<jobs, operations>>
         /\ leases'[l].job = leases[l].job /\ leases'[l].outcome = "live"
         /\ leases'[l].caps = leases[l].caps
         /\ leases'[l].holder = leases[l].holder
         /\ leases'[l].checkpoint = leases[l].checkpoint
         /\ \A m \in LeaseIds : m # l => leases'[m] = leases[m]
<1>1. Live(l) /\ leases[l].expires > now /\ leases[l] \in Lease
  BY HeldJob DEF Heartbeat, ActiveLease
<1>2. /\ now + term \in Times
      /\ leases' = [leases EXCEPT ![l] = [leases[l] EXCEPT !.expires = now + term]]
      /\ UNCHANGED <<jobs, operations>>
  BY DEF Heartbeat, Core, TypeOK
<1>3. [leases[l] EXCEPT !.expires = now + term] \in Lease
  BY <1>1, <1>2 DEF Lease
<1>4. leases'[l] = [leases[l] EXCEPT !.expires = now + term]
  BY <1>2 DEF Core, TypeOK
<1>5. /\ leases'[l].job = leases[l].job /\ leases'[l].outcome = leases[l].outcome
      /\ leases'[l].caps = leases[l].caps /\ leases'[l].holder = leases[l].holder
      /\ leases'[l].checkpoint = leases[l].checkpoint
  BY <1>1, <1>4 DEF Lease
<1> QED
  BY <1>1, <1>2, <1>3, <1>5 DEF Core, TypeOK, Live

LEMMA WriteCheckpointRows ==
  ASSUME Core, NEW l \in LeaseIds, NEW h \in Holders, NEW now \in Times,
         NEW cp \in Checkpoint, NEW o \in OpIds \cup {NoOp},
         WriteCheckpoint(l, h, cp, o, now)
  PROVE  LET j == leases[l].job
         IN  /\ Live(l) /\ leases[l].expires > now /\ Fresh(o)
             /\ CheckpointAdvances(cp, leases[l].checkpoint)
             /\ jobs' \in [JobIds -> Job] /\ leases' \in [LeaseIds -> Lease]
             /\ leases'[l].job = j /\ leases'[l].outcome = "live"
             /\ leases'[l].caps = leases[l].caps
             /\ leases'[l].holder = leases[l].holder
             /\ leases'[l].expires = leases[l].expires
             /\ leases'[l].checkpoint = cp
             /\ \A m \in LeaseIds : m # l => leases'[m] = leases[m]
             /\ jobs'[j] = SavedRow(jobs[j], cp)
             /\ \A k \in JobIds : k # j => jobs'[k] = jobs[k]
             /\ RecordOperation(o, Result("checkpoint", l, j, SavedRow(jobs[j], cp)))
<1> DEFINE j == leases[l].job
<1>1. Live(l) /\ leases[l].expires > now
  BY DEF WriteCheckpoint, ActiveLease
<1>2. leases[l] \in Lease /\ j \in JobIds /\ jobs[j] \in Job
  BY <1>1, HeldJob
<1>3. /\ leases' = [leases EXCEPT ![l] = [leases[l] EXCEPT !.checkpoint = cp]]
      /\ jobs' = [jobs EXCEPT ![j] = SavedRow(jobs[j], cp)]
      /\ RecordOperation(o, Result("checkpoint", l, j, SavedRow(jobs[j], cp)))
      /\ Fresh(o) /\ CheckpointAdvances(cp, leases[l].checkpoint)
  BY DEF WriteCheckpoint, Core, TypeOK
<1>4. [leases[l] EXCEPT !.checkpoint = cp] \in Lease /\ SavedRow(jobs[j], cp) \in Job
  BY <1>2, SavedRowRow DEF Lease
<1>5. leases'[l] = [leases[l] EXCEPT !.checkpoint = cp]
  BY <1>3 DEF Core, TypeOK
<1>6. /\ leases'[l].job = j /\ leases'[l].outcome = leases[l].outcome
      /\ leases'[l].caps = leases[l].caps /\ leases'[l].holder = leases[l].holder
      /\ leases'[l].expires = leases[l].expires /\ leases'[l].checkpoint = cp
  BY <1>2, <1>5 DEF Lease
<1>7. jobs' \in [JobIds -> Job] /\ leases' \in [LeaseIds -> Lease]
  BY <1>2, <1>3, <1>4 DEF Core, TypeOK
<1>8. /\ \A m \in LeaseIds : m # l => leases'[m] = leases[m]
      /\ jobs'[j] = SavedRow(jobs[j], cp)
      /\ \A k \in JobIds : k # j => jobs'[k] = jobs[k]
  BY <1>2, <1>3 DEF Core, TypeOK
<1> QED
  BY <1>1, <1>3, <1>6, <1>7, <1>8 DEF Live

LEMMA NewJobRows ==
  ASSUME Core, NEW r \in Requests, NEW o \in OpIds \cup {NoOp}, CreateNew(r, o)
  PROVE  /\ jobs' \in [JobIds -> Job] /\ leases' = leases /\ Fresh(o)
         /\ r.id \in JobIds /\ jobs[r.id].status = "absent"
         /\ jobs'[r.id] = JobRow(r)
         /\ \A k \in JobIds : k # r.id => jobs'[k] = jobs[k]
         /\ InSlot(r.slot) = {}
         /\ RecordOperation(o, Result("create_job", NoLease, r.id, JobRow(r)))
BY JobRowRow DEF CreateNew, Core, TypeOK

LEMMA CoreInit == Init => Core
<1> SUFFICES ASSUME Init PROVE Core
  OBVIOUS
<1>1. TypeOK
  BY LedgerInitType
<1>2. LeaseJobAgreement
  BY DEF Init, LeaseJobAgreement, Live, NoLeaseRow, NoJobRow
<1> QED
  BY <1>1, <1>2 DEF Core

LEMMA CoreStep == Core /\ [Next]_vars => Core'
<1> SUFFICES ASSUME Core, [Next]_vars PROVE Core'
  OBVIOUS
<1>1. ASSUME NEW r \in Requests, NEW o \in OpIds \cup {NoOp}, CreateDuplicate(r, o)
      PROVE  Core'
  <2>1. PICK j \in InSlot(r.slot) :
          RecordOperation(o, Result("create_job", NoLease, j, Body(jobs[j])))
    BY <1>1 DEF CreateDuplicate
  <2>2. j \in JobIds /\ Body(jobs[j]) \in Job /\ "create_job" \in OpKinds
    BY <2>1, BodyRow DEF InSlot, Core, TypeOK, OpKinds
  <2>3. operations' \in [OpIds -> Operation]
    BY <2>1, <2>2, RecordType DEF Core
  <2> QED
    BY <1>1, <2>3 DEF CreateDuplicate, Core, TypeOK, LeaseJobAgreement, Live
<1>2. ASSUME NEW r \in Requests, NEW o \in OpIds \cup {NoOp}, CreateNew(r, o)
      PROVE  Core'
  <2>1. /\ jobs' \in [JobIds -> Job] /\ leases' = leases
        /\ r.id \in JobIds /\ jobs[r.id].status = "absent"
        /\ jobs'[r.id] = JobRow(r)
        /\ \A k \in JobIds : k # r.id => jobs'[k] = jobs[k]
        /\ RecordOperation(o, Result("create_job", NoLease, r.id, JobRow(r)))
    BY <1>2, NewJobRows
  <2>2. /\ JobRow(r) \in Job /\ JobRow(r).active = NoLease
        /\ JobRow(r).status \in {"queued", "completed", "blocked"}
    BY JobRowRow
  <2>3. operations' \in [OpIds -> Operation]
    BY <2>1, <2>2, RecordType DEF Core, OpKinds
  <2>4. jobs[r.id].active = NoLease
    BY <2>1 DEF Core, LeaseJobAgreement
  <2>5. \A l \in LeaseIds : Live(l) => leases[l].job # r.id
    BY <2>4, LeaseIdsAssumption, HeldJob
  <2>6. LeaseJobAgreement'
    BY <2>1, <2>2, <2>4, <2>5 DEF Core, LeaseJobAgreement, Live
  <2> QED
    BY <2>1, <2>3, <2>6 DEF Core, TypeOK
<1>3. ASSUME NEW now \in Times, RecoverExpired(now)
      PROVE  Core'
  BY <1>3, ExpiryTables, ExpiryAgrees
  DEF RecoverExpired, Core, TypeOK, LeaseJobAgreement, Agree, Live
<1>4. ASSUME NEW h \in Holders, NEW available \in Offers, NEW now \in Times,
             NEW term \in Terms, ClaimJob(h, available, now, term)
      PROVE  Core'
  <2>1. PICK j \in JobIds, l \in LeaseIds : Claims(h, available, now, term, j, l)
    BY <1>4, ClaimJobClaims
  <2>2. jobs' \in [JobIds -> Job] /\ leases' \in [LeaseIds -> Lease]
    BY <2>1, ClaimRows
  <2>3. Agree(jobs', leases')
    BY <2>1, ClaimAgrees
  <2> QED
    BY <2>1, <2>2, <2>3 DEF Claims, Core, TypeOK, LeaseJobAgreement, Agree, Live
<1>5. ASSUME NEW l \in LeaseIds, NEW h \in Holders, NEW now \in Times,
             NEW term \in Terms, Heartbeat(l, h, now, term)
      PROVE  Core'
  <2>1. Agree(jobs, leases)
    BY DEF Core, LeaseJobAgreement, Agree, Live
  <2>2. /\ leases' \in [LeaseIds -> Lease] /\ UNCHANGED <<jobs, operations>>
        /\ leases'[l].job = leases[l].job /\ leases'[l].outcome = "live"
        /\ leases[l].outcome = "live"
        /\ \A m \in LeaseIds : m # l => leases'[m] = leases[m]
    BY <1>5, HeartbeatRows DEF Live
  <2>3. \A k \in JobIds : jobs[k].active = NoLease \/ jobs[k].active \in LeaseIds
    BY DEF Core, TypeOK, Job
  <2>4. Agree(jobs', leases')
    BY <2>1, <2>2, <2>3 DEF Agree
  <2> QED
    BY <2>2, <2>4 DEF Core, TypeOK, LeaseJobAgreement, Agree, Live
<1>6. ASSUME NEW l \in LeaseIds, NEW h \in Holders, NEW now \in Times,
             NEW cp \in Checkpoint, NEW o \in OpIds \cup {NoOp},
             WriteCheckpoint(l, h, cp, o, now)
      PROVE  Core'
  <2> DEFINE j == leases[l].job
  <2>1. Live(l)
    BY <1>6, WriteCheckpointRows
  <2>2. /\ j \in JobIds /\ jobs[j] \in Job /\ jobs[j].active = l
        /\ jobs[j].status \in {"leased", "running"}
    BY <2>1, HeldJob
  <2>3. /\ SavedRow(jobs[j], cp) \in Job /\ SavedRow(jobs[j], cp).active = l
        /\ SavedRow(jobs[j], cp).status = "running"
    BY <2>2, SavedRowRow
  <2>4. operations' \in [OpIds -> Operation]
    <3>1. RecordOperation(o, Result("checkpoint", l, j, SavedRow(jobs[j], cp)))
      BY <1>6, WriteCheckpointRows
    <3>2. "checkpoint" \in OpKinds
      BY DEF OpKinds
    <3> QED
      BY <2>2, <2>3, <3>1, <3>2, RecordType DEF Core
  <2>5. LeaseJobAgreement'
    <3>1. Agree(jobs, leases)
      BY DEF Core, LeaseJobAgreement, Agree, Live
    <3>2. /\ leases'[l].job = j /\ leases'[l].outcome = "live"
          /\ \A m \in LeaseIds : m # l => leases'[m] = leases[m]
          /\ jobs'[j] = SavedRow(jobs[j], cp)
          /\ \A k \in JobIds : k # j => jobs'[k] = jobs[k]
      BY <1>6, WriteCheckpointRows
    <3>3. \A k \in JobIds : jobs[k].active = NoLease \/ jobs[k].active \in LeaseIds
      BY DEF Core, TypeOK, Job
    <3> HIDE DEF j
    <3>4. Agree(jobs', leases')
      BY <2>1, <2>2, <2>3, <3>1, <3>2, <3>3, LeaseIdsAssumption DEF Agree, Live
    <3> QED
      BY <3>4 DEF LeaseJobAgreement, Agree, Live
  <2> QED
    BY <1>6, <2>4, <2>5, WriteCheckpointRows DEF Core, TypeOK
<1>7. ASSUME NEW l \in LeaseIds, NEW h \in Holders, NEW now \in Times,
             NEW o \in OpIds \cup {NoOp},
             \/ CompleteJob(l, h, o, now)
             \/ \E retryable \in BOOLEAN : FailJob(l, h, retryable, o, now)
             \/ ReleaseLease(l, h, now)
      PROVE  Core'
  <2>1. Live(l)
    BY <1>7, EndingCalls
  <2>2. PICK row \in Job, outcome \in {"completed", "failed", "released"} :
          /\ Ends(l, row, outcome, now) /\ row.active = NoLease
          /\ row.status \in {"queued", "completed", "failed"}
          /\ \/ UNCHANGED operations
             \/ \E kind \in {"complete_job", "fail_job"} :
                  RecordOperation(o, Result(kind, l, leases[l].job, row))
    BY <1>7, EndingCalls
  <2>3. jobs' \in [JobIds -> Job] /\ leases' \in [LeaseIds -> Lease]
    BY <2>1, <2>2, EndingRows
  <2>4. LeaseJobAgreement'
    BY <2>1, <2>2, EndingAgrees
  <2>5. operations' \in [OpIds -> Operation]
    <3>1. leases[l].job \in JobIds
      BY <2>1, HeldJob
    <3>2. CASE UNCHANGED operations
      BY <3>2 DEF Core, TypeOK
    <3>3. ASSUME NEW kind \in {"complete_job", "fail_job"},
                 RecordOperation(o, Result(kind, l, leases[l].job, row))
          PROVE  operations' \in [OpIds -> Operation]
      <4>1. kind \in OpKinds
        BY DEF OpKinds
      <4> QED
        BY <3>1, <3>3, <4>1, RecordType DEF Core
    <3> QED
      BY <2>2, <3>2, <3>3
  <2> QED
    BY <2>3, <2>4, <2>5 DEF Core, TypeOK
<1>8. CASE UNCHANGED vars
  BY <1>8 DEF vars, Core, TypeOK, LeaseJobAgreement, Live
<1> QED
  BY <1>1, <1>2, <1>3, <1>4, <1>5, <1>6, <1>7, <1>8 DEF Next, CreateJob

THEOREM LedgerTypeCorrect == Spec => []TypeOK
<1>1. Core => TypeOK
  BY DEF Core
<1> QED
  BY CoreInit, CoreStep, <1>1, PTL DEF Spec

\* In every reachable state the jobs and leases tables agree.
THEOREM LedgerTablesAgree == Spec => []LeaseJobAgreement
<1>1. Core => LeaseJobAgreement
  BY DEF Core
<1> QED
  BY CoreInit, CoreStep, <1>1, PTL DEF Spec

-----------------------------------------------------------------------------
\* Every call moves the three tables onward: a job's row keeps its slot, loses
\* no attempt and no saved work and freezes when the job is over; a lease keeps
\* its job and freezes when it ends; an operation id is bound once, to the row
\* the call left behind or, for a duplicate create, the one it was created as.
Ended(row) == row.status \in {"completed", "failed", "blocked"}
RowOnward(old, new) ==
  /\ old.status = "absent" => new = old \/ \E r \in Requests : new = JobRow(r)
  /\ old.status # "absent" =>
       /\ new.status # "absent" /\ new.slot = old.slot
       /\ new.created = old.created
       /\ new.attempts >= old.attempts
       /\ new.checkpoint.sequence >= old.checkpoint.sequence
  /\ Ended(old) => new = old
JobsOnward == \A j \in JobIds : RowOnward(jobs[j], jobs'[j])

LeaseOnward(l) ==
  /\ leases[l].outcome \notin {"unissued", "live"} => leases'[l] = leases[l]
  /\ leases[l].outcome = "live" =>
       /\ leases'[l].outcome # "unissued" /\ leases'[l].job = leases[l].job
       /\ leases'[l].outcome = "live" \/ leases'[l].checkpoint = leases[l].checkpoint
  /\ leases[l].outcome = "unissued" =>
       \/ leases'[l] = leases[l]
       \/ /\ leases'[l].outcome = "live" /\ leases'[l].job \in JobIds
          /\ jobs[leases'[l].job].status # "absent"
  /\ leases'[l].outcome = "live" =>
       leases'[l].checkpoint = jobs'[leases'[l].job].checkpoint
LeasesOnward == \A l \in LeaseIds : LeaseOnward(l)

OpsOnward ==
  \A o \in OpIds :
    \/ operations'[o] = operations[o]
    \/ /\ operations[o].kind = "unbound"
       /\ \E kind \in OpKinds, l \in LeaseIds \cup {NoLease}, j \in JobIds :
            /\ \/ operations'[o] = Result(kind, l, j, jobs'[j])
               \/ /\ operations'[o] = Result(kind, l, j, Body(jobs'[j]))
                  /\ kind = "create_job"
            /\ jobs'[j].status # "absent"
            /\ kind = "complete_job" => jobs'[j].status = "completed"

\* A job is created queued or over; one created over stays as it was created.
Born ==
  \A j \in JobIds : jobs[j].status # "absent" =>
    /\ jobs[j].created \in {"queued", "completed", "blocked"}
    /\ jobs[j].created # "queued" =>
         jobs[j].status = jobs[j].created /\ jobs[j].attempts = 1

\* One job to a slot, and leases and operations only of jobs that exist.
Anchored ==
  /\ \A j \in JobIds : jobs[j].status = "absent" <=> jobs[j].slot = NoSlot
  /\ \A j, k \in JobIds :
       jobs[j].slot = jobs[k].slot /\ jobs[j].slot # NoSlot => j = k
  /\ \A l \in LeaseIds : leases[l].outcome # "unissued" =>
       leases[l].job \in JobIds /\ jobs[leases[l].job].status # "absent"
  /\ \A o \in OpIds : operations[o].kind # "unbound" =>
       operations[o].job \in JobIds /\ jobs[operations[o].job].status # "absent"

IInv == Core /\ Anchored /\ Born /\ CheckpointAgreement /\ RecordedResultsHold

LEMMA SequenceNat == \A cp \in Checkpoint : cp.sequence \in Nat
BY CheckpointAssumption DEF Checkpoint

LEMMA SameRow ==
  ASSUME NEW row \in Job
  PROVE  RowOnward(row, row)
BY SequenceNat DEF RowOnward, Job

\* The row of a job nobody finished may change in any way that loses nothing.
LEMMA GrownRow ==
  ASSUME NEW old \in Job, NEW new \in Job, ~Ended(old), new.status # "absent",
         new.slot = old.slot, new.attempts >= old.attempts,
         new.created = old.created, old.status # "absent",
         new.checkpoint.sequence >= old.checkpoint.sequence
  PROVE  RowOnward(old, new)
BY DEF RowOnward

LEMMA HeldIsNotEnded ==
  ASSUME Core, NEW j \in JobIds, jobs[j].active # NoLease
  PROVE  ~Ended(jobs[j]) /\ jobs[j].status # "absent"
BY DEF Core, LeaseJobAgreement, Ended

LEMMA RequeuedOnward ==
  ASSUME Core, NEW now \in Times, NEW j \in JobIds
  PROVE  RowOnward(jobs[j], RequeuedJobs(now)[j])
<1>1. jobs[j] \in Job
  BY DEF Core, TypeOK
<1>2. CASE jobs[j].active \in Due(now)
  <2>1. /\ RequeuedJobs(now)[j] \in Job /\ RequeuedJobs(now)[j].status = "queued"
        /\ jobs[j].active # NoLease
        /\ RequeuedJobs(now)[j].slot = jobs[j].slot
        /\ RequeuedJobs(now)[j].created = jobs[j].created
        /\ RequeuedJobs(now)[j].attempts = jobs[j].attempts
        /\ RequeuedJobs(now)[j].checkpoint = jobs[j].checkpoint
    BY <1>2, RequeuedJob
  <2>2. jobs[j].attempts \in Nat /\ jobs[j].checkpoint.sequence \in Nat
    BY <1>1, SequenceNat DEF Job
  <2> QED
    BY <1>1, <2>1, <2>2, HeldIsNotEnded, GrownRow
<1>3. CASE jobs[j].active \notin Due(now)
  BY <1>1, <1>3, RequeuedJob, SameRow
<1> QED
  BY <1>2, <1>3

LEMMA SameOps == ASSUME UNCHANGED operations PROVE OpsOnward
BY DEF OpsOnward

LEMMA RecordedOps ==
  ASSUME Core, NEW o \in OpIds \cup {NoOp}, Fresh(o), NEW kind \in OpKinds,
         NEW l \in LeaseIds \cup {NoLease}, NEW j \in JobIds,
         RecordOperation(o, Result(kind, l, j, jobs'[j])),
         jobs'[j].status # "absent",
         kind = "complete_job" => jobs'[j].status = "completed"
  PROVE  OpsOnward
<1>1. CASE o = NoOp
  BY <1>1 DEF RecordOperation, OpsOnward
<1>2. CASE o # NoOp
  <2>1. o \in OpIds /\ operations[o].kind = "unbound"
    BY <1>2 DEF Fresh
  <2>2. /\ operations'[o] = Result(kind, l, j, jobs'[j])
        /\ \A p \in OpIds : p # o => operations'[p] = operations[p]
    BY <1>2, <2>1 DEF RecordOperation, Core, TypeOK
  <2> QED
    BY <2>1, <2>2 DEF OpsOnward
<1> QED
  BY <1>1, <1>2

\* The reply of a duplicate create is the body of the job in the slot.
LEMMA RecordedBody ==
  ASSUME Core, NEW o \in OpIds \cup {NoOp}, Fresh(o), NEW j \in JobIds,
         RecordOperation(o, Result("create_job", NoLease, j, Body(jobs'[j]))),
         jobs'[j].status # "absent"
  PROVE  OpsOnward
<1>1. CASE o = NoOp
  BY <1>1 DEF RecordOperation, OpsOnward
<1>2. CASE o # NoOp
  <2>1. o \in OpIds /\ operations[o].kind = "unbound"
    BY <1>2 DEF Fresh
  <2>2. /\ operations'[o] = Result("create_job", NoLease, j, Body(jobs'[j]))
        /\ \A p \in OpIds : p # o => operations'[p] = operations[p]
    BY <1>2, <2>1 DEF RecordOperation, Core, TypeOK
  <2>3. "create_job" \in OpKinds
    BY DEF OpKinds
  <2> QED
    BY <2>1, <2>2, <2>3 DEF OpsOnward
<1> QED
  BY <1>1, <1>2

\* What the invariant knows of a lease that is live.
LEMMA LiveLease ==
  ASSUME IInv, NEW l \in LeaseIds, Live(l)
  PROVE  /\ leases[l].checkpoint = jobs[leases[l].job].checkpoint
         /\ leases[l].outcome = "live"
BY DEF IInv, CheckpointAgreement, Live

\* A call that leaves the leases alone and no live lease's checkpoint behind.
LEMMA SameLeases ==
  ASSUME IInv, leases' = leases,
         \A j \in JobIds : jobs[j].active # NoLease => jobs'[j].checkpoint = jobs[j].checkpoint
  PROVE  LeasesOnward
<1>1. ASSUME NEW l \in LeaseIds, leases[l].outcome = "live"
      PROVE  leases[l].checkpoint = jobs'[leases[l].job].checkpoint
  <2>1. Live(l)
    BY <1>1 DEF Live
  <2>2. leases[l].job \in JobIds /\ jobs[leases[l].job].active = l /\ l # NoLease
    BY <2>1, HeldJob, LeaseIdsAssumption DEF IInv
  <2> QED
    BY <2>1, <2>2, LiveLease
<1> QED
  BY <1>1 DEF LeasesOnward, LeaseOnward

Onward == JobsOnward /\ LeasesOnward /\ OpsOnward

\* An operation newly bound names a job that exists.
LEMMA OpsAnchored ==
  ASSUME Anchored, OpsOnward,
         \A j \in JobIds : jobs[j].status # "absent" => jobs'[j].status # "absent",
         NEW o \in OpIds, operations'[o].kind # "unbound"
  PROVE  operations'[o].job \in JobIds /\ jobs'[operations'[o].job].status # "absent"
<1>1. CASE operations'[o] = operations[o]
  BY <1>1 DEF Anchored
<1>2. CASE operations'[o] # operations[o]
  <2>1. PICK kind \in OpKinds, l \in LeaseIds \cup {NoLease}, j \in JobIds :
          /\ operations'[o] \in {Result(kind, l, j, jobs'[j]),
                                 Result(kind, l, j, Body(jobs'[j]))}
          /\ jobs'[j].status # "absent"
    BY <1>2 DEF OpsOnward
  <2>2. operations'[o].job = j
    BY <2>1 DEF Result
  <2> QED
    BY <2>1, <2>2
<1> QED
  BY <1>1, <1>2

LEMMA CreateDuplicateOnward ==
  ASSUME IInv, NEW r \in Requests, NEW o \in OpIds \cup {NoOp}, CreateDuplicate(r, o)
  PROVE  Onward /\ Anchored'
<1>1. PICK j \in InSlot(r.slot) :
        RecordOperation(o, Result("create_job", NoLease, j, Body(jobs[j])))
  BY DEF CreateDuplicate
<1>2. Fresh(o) /\ jobs' = jobs /\ leases' = leases
  BY DEF CreateDuplicate
<1>3. j \in JobIds /\ jobs[j].slot = r.slot /\ r.slot \in Slots
  BY RequestsAssumption DEF InSlot, Request
<1>4. jobs[j].status # "absent"
  BY <1>3, NullAssumption DEF IInv, Anchored
<1>5. OpsOnward
  BY <1>1, <1>2, <1>3, <1>4, RecordedBody DEF IInv
<1>6. JobsOnward
  BY <1>2, SameRow DEF JobsOnward, IInv, Core, TypeOK
<1>7. LeasesOnward
  BY <1>2, SameLeases
<1>8. \A p \in OpIds : operations'[p].kind # "unbound" =>
        operations'[p].job \in JobIds /\ jobs[operations'[p].job].status # "absent"
  BY <1>2, <1>5, OpsAnchored DEF IInv
<1> QED
  BY <1>2, <1>5, <1>6, <1>7, <1>8 DEF Onward, IInv, Anchored

\* The slots of the jobs and the jobs of the leases decide what is anchored.
LEMMA AnchorHolds ==
  ASSUME Anchored, Onward,
         \A j \in JobIds : /\ jobs'[j].slot = jobs[j].slot
                           /\ jobs'[j].status = "absent" <=> jobs[j].status = "absent"
  PROVE  Anchored'
<1>1. \A l \in LeaseIds : leases'[l].outcome # "unissued" =>
        leases'[l].job \in JobIds /\ jobs[leases'[l].job].status # "absent"
  BY DEF Onward, LeasesOnward, LeaseOnward, Anchored
<1>2. \A o \in OpIds : operations'[o].kind # "unbound" =>
        operations'[o].job \in JobIds /\ jobs'[operations'[o].job].status # "absent"
  BY OpsAnchored DEF Onward
<1> QED
  BY <1>1, <1>2 DEF Anchored

LEMMA CreateNewOnward ==
  ASSUME IInv, NEW r \in Requests, NEW o \in OpIds \cup {NoOp}, CreateNew(r, o)
  PROVE  Onward /\ Anchored'
<1>1. /\ jobs' \in [JobIds -> Job] /\ leases' = leases /\ Fresh(o)
      /\ r.id \in JobIds /\ jobs[r.id].status = "absent"
      /\ jobs'[r.id] = JobRow(r)
      /\ \A k \in JobIds : k # r.id => jobs'[k] = jobs[k]
      /\ InSlot(r.slot) = {}
      /\ RecordOperation(o, Result("create_job", NoLease, r.id, JobRow(r)))
  BY NewJobRows DEF IInv
<1>2. /\ JobRow(r).slot = r.slot /\ r.slot \in Slots /\ r.slot # NoSlot
      /\ JobRow(r).status # "absent"
  BY JobRowRow, NullAssumption
<1>3. OpsOnward
  <2>1. "create_job" \in OpKinds
    BY DEF OpKinds
  <2> QED
    BY <1>1, <1>2, <2>1, RecordedOps DEF IInv
<1>4. JobsOnward
  <2>1. RowOnward(jobs[r.id], jobs'[r.id])
    BY <1>1, <1>2 DEF RowOnward, Ended
  <2> QED
    BY <1>1, <2>1, SameRow DEF JobsOnward, IInv, Core, TypeOK
<1>5. LeasesOnward
  <2>1. jobs[r.id].active = NoLease
    BY <1>1, HeldIsNotEnded DEF IInv
  <2> QED
    BY <1>1, <2>1, SameLeases
<1>6. \A k \in JobIds : jobs[k].slot # r.slot
  BY <1>1 DEF InSlot
<1>7. \A j, k \in JobIds :
        jobs'[j].slot = jobs'[k].slot /\ jobs'[j].slot # NoSlot => j = k
  BY <1>1, <1>2, <1>6 DEF IInv, Anchored
<1>8. \A j \in JobIds : /\ jobs'[j].status = "absent" <=> jobs'[j].slot = NoSlot
                        /\ jobs[j].status # "absent" => jobs'[j].status # "absent"
  BY <1>1, <1>2 DEF IInv, Anchored
<1>9. \A p \in OpIds : operations'[p].kind # "unbound" =>
        operations'[p].job \in JobIds /\ jobs'[operations'[p].job].status # "absent"
  BY <1>3, <1>8, OpsAnchored DEF IInv
<1>10. \A l \in LeaseIds : leases'[l].outcome # "unissued" =>
        leases'[l].job \in JobIds /\ jobs'[leases'[l].job].status # "absent"
  BY <1>1, <1>8 DEF IInv, Anchored
<1> QED
  BY <1>3, <1>4, <1>5, <1>7, <1>8, <1>9, <1>10 DEF Onward, Anchored

\* After a recovery every lease still live has its job's checkpoint.
LEMMA ExpiredOnward ==
  ASSUME IInv, NEW now \in Times, NEW l \in LeaseIds
  PROVE  LET new == ExpiredLeases(now)[l]
         IN  /\ leases[l].outcome # "live" => new = leases[l]
             /\ new.outcome = "live" =>
                  /\ leases[l].outcome = "live"
                  /\ new.checkpoint = jobs[leases[l].job].checkpoint
             /\ leases[l].outcome = "live" => new.outcome \in {"live", "expired"}
             /\ new.job = leases[l].job /\ new.checkpoint = leases[l].checkpoint
BY ExpiredLease, LiveLease DEF IInv, Due, Live

LEMMA RecoverOnward ==
  ASSUME IInv, NEW now \in Times, RecoverExpired(now)
  PROVE  Onward /\ Anchored'
<1>1. /\ jobs' = RequeuedJobs(now) /\ leases' = ExpiredLeases(now)
      /\ UNCHANGED operations
  BY DEF RecoverExpired
<1>2. JobsOnward
  BY <1>1, RequeuedOnward DEF JobsOnward, IInv
<1>3. \A j \in JobIds : /\ jobs'[j].checkpoint = jobs[j].checkpoint
                        /\ jobs'[j].slot = jobs[j].slot
  BY <1>1, RequeuedJob DEF IInv
<1>4. \A l \in LeaseIds : leases[l].outcome = "live" => leases[l].job \in JobIds
  BY HeldJob DEF IInv, Live
<1>5. LeasesOnward
  BY <1>1, <1>3, <1>4, ExpiredOnward DEF LeasesOnward, LeaseOnward
<1>6. Onward
  BY <1>1, <1>2, <1>5, SameOps DEF Onward
<1>7. \A j \in JobIds : jobs'[j].status = "absent" <=> jobs[j].status = "absent"
  BY <1>1, RequeuedJob, HeldIsNotEnded DEF IInv
<1> QED
  BY <1>3, <1>6, <1>7, AnchorHolds DEF IInv

LEMMA ClaimOnward ==
  ASSUME IInv, NEW h \in Holders, NEW available \in Offers, NEW now \in Times,
         NEW term \in Terms, ClaimJob(h, available, now, term)
  PROVE  Onward /\ Anchored'
<1>1. PICK j \in JobIds, l \in LeaseIds : Claims(h, available, now, term, j, l)
  BY ClaimJobClaims
<1> DEFINE table == RequeuedJobs(now)
           kept == ExpiredLeases(now)
<1>2. /\ jobs' \in [JobIds -> Job]
      /\ \A k \in JobIds : k # j => jobs'[k] = table[k]
      /\ \A m \in LeaseIds : m # l => leases'[m] = kept[m]
      /\ jobs'[j].status = "leased" /\ jobs'[j].slot = jobs[j].slot
      /\ jobs'[j].created = jobs[j].created
      /\ jobs'[j].attempts = jobs[j].attempts
      /\ jobs'[j].checkpoint = jobs[j].checkpoint
      /\ leases'[l] = NewLease(j, h, available, now + term, jobs[j].checkpoint)
      /\ table[j].status = "queued" /\ leases[l].outcome = "unissued"
  BY <1>1, ClaimRows DEF IInv, Claimable
<1>3. ~Ended(jobs[j]) /\ jobs[j].status # "absent"
  <2>1. CASE jobs[j].active \in Due(now)
    BY <2>1, RequeuedJob, HeldIsNotEnded DEF IInv
  <2>2. CASE jobs[j].active \notin Due(now)
    BY <1>2, <2>2, RequeuedJob DEF IInv, Ended
  <2> QED
    BY <2>1, <2>2
<1>4. JobsOnward
  <2>1. jobs[j] \in Job /\ jobs'[j] \in Job
    BY <1>2 DEF IInv, Core, TypeOK
  <2>2. jobs[j].attempts \in Nat /\ jobs[j].checkpoint.sequence \in Nat
    BY <2>1, SequenceNat DEF Job
  <2>3. RowOnward(jobs[j], jobs'[j])
    BY <1>2, <1>3, <2>1, <2>2, GrownRow
  <2> QED
    BY <1>2, <2>3, RequeuedOnward DEF JobsOnward, IInv
<1>5. \A k \in JobIds : /\ jobs'[k].checkpoint = jobs[k].checkpoint
                        /\ jobs'[k].slot = jobs[k].slot
  BY <1>2, RequeuedJob DEF IInv
<1>6. LeasesOnward
  <2>1. ASSUME NEW m \in LeaseIds, m # l
        PROVE  LeaseOnward(m)
    <3>1. leases[m].outcome = "live" => leases[m].job \in JobIds
      BY HeldJob DEF IInv, Live
    <3>2. leases'[m] = kept[m]
      BY <1>2, <2>1
    <3> QED
      BY <1>5, <3>1, <3>2, ExpiredOnward DEF LeaseOnward
  <2>2. LeaseOnward(l)
    BY <1>2, <1>3 DEF LeaseOnward, NewLease
  <2> QED
    BY <2>1, <2>2 DEF LeasesOnward
<1>7. Onward
  BY <1>1, <1>4, <1>6, SameOps DEF Onward, Claims
<1>8. \A k \in JobIds : jobs'[k].status = "absent" <=> jobs[k].status = "absent"
  <2>1. \A k \in JobIds : table[k].status = "absent" <=> jobs[k].status = "absent"
    BY RequeuedJob, HeldIsNotEnded DEF IInv
  <2> QED
    BY <1>2, <1>3, <2>1
<1> QED
  BY <1>5, <1>7, <1>8, AnchorHolds DEF IInv

LEMMA HeartbeatOnward ==
  ASSUME IInv, NEW l \in LeaseIds, NEW h \in Holders, NEW now \in Times,
         NEW term \in Terms, Heartbeat(l, h, now, term)
  PROVE  Onward /\ Anchored'
<1>1. /\ Live(l) /\ UNCHANGED <<jobs, operations>>
      /\ leases'[l].job = leases[l].job /\ leases'[l].outcome = "live"
      /\ leases'[l].checkpoint = leases[l].checkpoint
      /\ \A m \in LeaseIds : m # l => leases'[m] = leases[m]
  BY HeartbeatRows DEF IInv
<1>2. JobsOnward
  BY <1>1, SameRow DEF JobsOnward, IInv, Core, TypeOK
<1>3. LeasesOnward
  <2>1. \A m \in LeaseIds : leases[m].outcome = "live" =>
          leases[m].checkpoint = jobs'[leases[m].job].checkpoint
    BY <1>1, LiveLease DEF Live
  <2> QED
    BY <1>1, <2>1 DEF LeasesOnward, LeaseOnward, Live
<1>4. Onward
  BY <1>1, <1>2, <1>3, SameOps DEF Onward
<1> QED
  BY <1>1, <1>4, AnchorHolds DEF IInv

\* A call on live lease l that gives the leased job the row `row'.
LEMMA OneJobOnward ==
  ASSUME IInv, NEW l \in LeaseIds, Live(l), NEW row \in Job,
         jobs'[leases[l].job] = row,
         \A k \in JobIds : k # leases[l].job => jobs'[k] = jobs[k],
         \A m \in LeaseIds : m # l => leases'[m] = leases[m],
         leases'[l].job = leases[l].job,
         leases'[l].outcome # "unissued",
         leases'[l].outcome = "live" => leases'[l].checkpoint = row.checkpoint,
         leases'[l].outcome = "live" \/ leases'[l].checkpoint = leases[l].checkpoint,
         row.status # "absent", row.slot = jobs[leases[l].job].slot,
         row.created = jobs[leases[l].job].created,
         row.attempts >= jobs[leases[l].job].attempts,
         row.checkpoint.sequence >= jobs[leases[l].job].checkpoint.sequence,
         OpsOnward
  PROVE  Onward /\ Anchored'
<1> DEFINE j == leases[l].job
<1>1. /\ j \in JobIds /\ jobs[j] \in Job /\ jobs[j].active = l /\ l # NoLease
      /\ \A m \in LeaseIds : Live(m) /\ leases[m].job = j => m = l
  BY HeldJob, LeaseIdsAssumption DEF IInv
<1>2. ~Ended(jobs[j]) /\ jobs[j].status # "absent"
  BY <1>1, HeldIsNotEnded DEF IInv
<1>3. JobsOnward
  <2>1. RowOnward(jobs[j], jobs'[j])
    BY <1>1, <1>2, GrownRow
  <2> QED
    BY <2>1, SameRow DEF JobsOnward, IInv, Core, TypeOK
<1>4. LeasesOnward
  <2>1. LeaseOnward(l)
    BY DEF LeaseOnward, Live
  <2>2. ASSUME NEW m \in LeaseIds, m # l
        PROVE  LeaseOnward(m)
    <3>1. CASE leases[m].outcome = "live"
      <4>1. Live(m) /\ leases[m].job # j /\ leases[m].job \in JobIds
        BY <1>1, <2>2, <3>1, HeldJob DEF Live, IInv
      <4> QED
        BY <2>2, <3>1, <4>1, LiveLease DEF LeaseOnward
    <3>2. CASE leases[m].outcome # "live"
      BY <2>2, <3>2 DEF LeaseOnward
    <3> QED
      BY <3>1, <3>2
  <2> QED
    BY <2>1, <2>2 DEF LeasesOnward
<1>5. Onward
  BY <1>3, <1>4 DEF Onward
<1>6. \A k \in JobIds : /\ jobs'[k].slot = jobs[k].slot
                        /\ jobs'[k].status = "absent" <=> jobs[k].status = "absent"
  BY <1>1, <1>2
<1> QED
  BY <1>5, <1>6, AnchorHolds DEF IInv

LEMMA WriteCheckpointOnward ==
  ASSUME IInv, NEW l \in LeaseIds, NEW h \in Holders, NEW now \in Times,
         NEW cp \in Checkpoint, NEW o \in OpIds \cup {NoOp},
         WriteCheckpoint(l, h, cp, o, now)
  PROVE  Onward /\ Anchored'
<1> DEFINE j == leases[l].job
           row == SavedRow(jobs[j], cp)
<1>1. /\ Live(l) /\ Fresh(o) /\ CheckpointAdvances(cp, leases[l].checkpoint)
      /\ leases'[l].job = j /\ leases'[l].outcome = "live"
      /\ leases'[l].checkpoint = cp
      /\ \A m \in LeaseIds : m # l => leases'[m] = leases[m]
      /\ jobs'[j] = row /\ \A k \in JobIds : k # j => jobs'[k] = jobs[k]
      /\ RecordOperation(o, Result("checkpoint", l, j, row))
  BY WriteCheckpointRows DEF IInv
<1>2. j \in JobIds /\ jobs[j] \in Job
  BY <1>1, HeldJob DEF IInv
<1>3. /\ row \in Job /\ row.status = "running" /\ row.slot = jobs[j].slot
      /\ row.created = jobs[j].created
      /\ row.attempts = jobs[j].attempts /\ row.checkpoint = cp
  BY <1>2, SavedRowRow
<1>4. /\ cp.sequence >= jobs[j].checkpoint.sequence
      /\ row.attempts >= jobs[j].attempts
  <2>1. leases[l].checkpoint = jobs[j].checkpoint
    BY <1>1, LiveLease
  <2>2. cp.sequence \in Nat /\ jobs[j].checkpoint.sequence \in Nat /\ jobs[j].attempts \in Nat
    BY <1>2, SequenceNat DEF Job
  <2> QED
    BY <1>1, <1>3, <2>1, <2>2 DEF CheckpointAdvances
<1>5. OpsOnward
  <2>1. "checkpoint" \in OpKinds
    BY DEF OpKinds
  <2> QED
    BY <1>1, <1>2, <1>3, <2>1, RecordedOps DEF IInv
<1> HIDE DEF row
<1> QED
  BY <1>1, <1>3, <1>4, <1>5, OneJobOnward

LEMMA EndingOnward ==
  ASSUME IInv, NEW l \in LeaseIds, NEW h \in Holders, NEW now \in Times,
         NEW o \in OpIds \cup {NoOp},
         \/ CompleteJob(l, h, o, now)
         \/ \E retryable \in BOOLEAN : FailJob(l, h, retryable, o, now)
         \/ ReleaseLease(l, h, now)
  PROVE  Onward /\ Anchored'
<1> DEFINE j == leases[l].job
<1>1. Live(l)
  BY EndingCalls DEF IInv
<1>2. PICK row \in Job, outcome \in {"completed", "failed", "released"} :
        /\ Ends(l, row, outcome, now)
        /\ row.slot = jobs[j].slot /\ row.checkpoint = jobs[j].checkpoint
        /\ row.created = jobs[j].created
        /\ row.status \in {"queued", "completed", "failed"}
        /\ outcome = "failed" => row.attempts = jobs[j].attempts + 1
        /\ outcome # "failed" => row.attempts = jobs[j].attempts
        /\ row.status = "completed" <=> outcome = "completed"
        /\ \/ UNCHANGED operations
           \/ /\ Fresh(o)
              /\ \E kind \in {"complete_job", "fail_job"} :
                   /\ kind = "complete_job" <=> outcome = "completed"
                   /\ RecordOperation(o, Result(kind, l, j, row))
  BY EndingCalls DEF IInv
<1>3. /\ jobs'[j] = row /\ \A k \in JobIds : k # j => jobs'[k] = jobs[k]
      /\ \A m \in LeaseIds : m # l => leases'[m] = leases[m]
      /\ leases'[l].outcome = outcome /\ leases'[l].job = j
      /\ leases'[l].checkpoint = leases[l].checkpoint
  BY <1>1, <1>2, EndingRows DEF IInv
<1>4. j \in JobIds /\ jobs[j] \in Job
  BY <1>1, HeldJob DEF IInv
<1>5. /\ row.attempts >= jobs[j].attempts
      /\ row.checkpoint.sequence >= jobs[j].checkpoint.sequence
  <2>1. jobs[j].attempts \in Nat /\ jobs[j].checkpoint.sequence \in Nat
    BY <1>4, SequenceNat DEF Job
  <2> QED
    BY <1>2, <2>1
<1>6. OpsOnward
  <2>1. CASE UNCHANGED operations
    BY <2>1, SameOps
  <2>2. ASSUME Fresh(o), NEW kind \in {"complete_job", "fail_job"},
               kind = "complete_job" <=> outcome = "completed",
               RecordOperation(o, Result(kind, l, j, row))
        PROVE  OpsOnward
    <3>1. kind \in OpKinds
      BY DEF OpKinds
    <3>2. jobs'[j].status # "absent" /\ (kind = "complete_job" => jobs'[j].status = "completed")
      BY <1>2, <1>3, <2>2
    <3> QED
      BY <1>3, <1>4, <2>2, <3>1, <3>2, RecordedOps DEF IInv
  <2> QED
    BY <1>2, <2>1, <2>2
<1> QED
  BY <1>1, <1>2, <1>3, <1>5, <1>6, OneJobOnward

LEMMA NextOnward ==
  ASSUME IInv, [Next]_vars
  PROVE  Onward /\ Anchored'
<1>1. CASE UNCHANGED vars
  <2>1. jobs' = jobs /\ leases' = leases /\ operations' = operations
    BY <1>1 DEF vars
  <2>2. Onward
    BY <2>1, SameOps, SameLeases, SameRow DEF Onward, JobsOnward, IInv, Core, TypeOK
  <2> QED
    BY <2>1, <2>2, AnchorHolds DEF IInv
<1>2. CASE Next
  BY <1>2, CreateDuplicateOnward, CreateNewOnward, RecoverOnward, ClaimOnward,
     HeartbeatOnward, WriteCheckpointOnward, EndingOnward DEF Next, CreateJob
<1> QED
  BY <1>1, <1>2

LEMMA BornStep ==
  ASSUME IInv, Onward
  PROVE  Born'
<1> SUFFICES ASSUME NEW j \in JobIds, jobs'[j].status # "absent"
             PROVE  /\ jobs'[j].created \in {"queued", "completed", "blocked"}
                    /\ jobs'[j].created # "queued" =>
                         jobs'[j].status = jobs'[j].created /\ jobs'[j].attempts = 1
  BY DEF Born
<1>1. RowOnward(jobs[j], jobs'[j])
  BY DEF Onward, JobsOnward
<1>2. CASE jobs[j].status # "absent"
  BY <1>1, <1>2 DEF RowOnward, IInv, Born, Ended
<1>3. CASE jobs[j].status = "absent"
  <2>1. PICK r \in Requests : jobs'[j] = JobRow(r)
    BY <1>1, <1>3 DEF RowOnward
  <2> QED
    BY <2>1, JobRowRow
<1> QED
  BY <1>2, <1>3

LEMMA IInvInit == Init => IInv
<1> SUFFICES ASSUME Init PROVE IInv
  OBVIOUS
<1>1. Core
  BY CoreInit
<1>2. Anchored /\ Born /\ CheckpointAgreement /\ RecordedResultsHold
  BY DEF Init, Anchored, Born, CheckpointAgreement, RecordedResultsHold, NoJobRow,
         NoLeaseRow, NoOperation
<1> QED
  BY <1>1, <1>2 DEF IInv

LEMMA CheckpointStep ==
  ASSUME IInv, Core', Onward, Anchored'
  PROVE  CheckpointAgreement'
<1> SUFFICES ASSUME NEW l \in LeaseIds, leases'[l].outcome # "unissued"
             PROVE  LET saved == jobs'[leases'[l].job].checkpoint
                    IN  /\ leases'[l].checkpoint.sequence <= saved.sequence
                        /\ leases'[l].outcome = "live" => leases'[l].checkpoint = saved
  BY DEF CheckpointAgreement, Live
<1> DEFINE k == leases'[l].job
<1>1. k \in JobIds /\ leases'[l] \in Lease /\ jobs'[k] \in Job
  BY DEF Core, TypeOK, Anchored
<1>2. /\ leases'[l].checkpoint.sequence \in Nat /\ jobs'[k].checkpoint.sequence \in Nat
  BY <1>1, SequenceNat DEF Lease, Job
<1>3. LeaseOnward(l)
  BY DEF Onward, LeasesOnward
<1>4. CASE leases'[l].outcome = "live"
  BY <1>2, <1>3, <1>4 DEF LeaseOnward
<1>5. CASE leases'[l].outcome # "live"
  <2>1. /\ leases[l].outcome # "unissued" /\ leases[l].job = k
        /\ leases'[l].checkpoint = leases[l].checkpoint
    BY <1>3, <1>5 DEF LeaseOnward
  <2>2. /\ leases[l].checkpoint.sequence <= jobs[k].checkpoint.sequence
        /\ jobs[k].status # "absent" /\ jobs[k] \in Job
    BY <1>1, <2>1 DEF IInv, CheckpointAgreement, Anchored, Core, TypeOK
  <2>3. jobs[k].checkpoint.sequence <= jobs'[k].checkpoint.sequence
    BY <1>1, <1>2, <2>2, SequenceNat DEF Onward, JobsOnward, RowOnward, Job
  <2>4. jobs[k].checkpoint.sequence \in Nat
    BY <2>2, SequenceNat DEF Job
  <2> QED
    BY <1>2, <1>5, <2>1, <2>2, <2>3, <2>4
<1> QED
  BY <1>4, <1>5

\* The record a job was created as is behind whatever the job has become.
LEMMA BodyBehind ==
  ASSUME NEW row \in Job, row.status # "absent",
         row.created \in {"queued", "completed", "blocked"},
         row.created # "queued" => row.status = row.created /\ row.attempts = 1
  PROVE  /\ row.checkpoint.sequence >= Body(row).checkpoint.sequence
         /\ row.attempts >= Body(row).attempts
         /\ Body(row).status \in {"completed", "failed"} =>
              row.status = Body(row).status
<1>1. row.attempts \in Nat /\ row.checkpoint.sequence \in Nat
  BY SequenceNat DEF Job
<1>2. Body(row).status = row.created /\ Body(row).checkpoint.sequence = 0
  BY BodyRow DEF Planned
<1>3. row.attempts >= Body(row).attempts
  BY <1>1, BodyRow DEF AttemptsAt
<1> QED
  BY <1>1, <1>2, <1>3

LEMMA ResultsStep ==
  ASSUME IInv, Core', Onward, Anchored', Born'
  PROVE  RecordedResultsHold'
<1> SUFFICES ASSUME NEW o \in OpIds, operations'[o].kind # "unbound"
             PROVE  LET result == operations'[o]
                        row == jobs'[result.job]
                    IN  /\ {j \in JobIds : jobs'[j].slot = row.slot} = {result.job}
                        /\ row.checkpoint.sequence >= result.checkpoint.sequence
                        /\ row.attempts >= result.attempts
                        /\ result.status \in {"completed", "failed"} =>
                             row.status = result.status
                        /\ result.kind = "complete_job" => result.status = "completed"
  BY DEF RecordedResultsHold, InSlot
<1> DEFINE result == operations'[o]
           k == result.job
<1>1. k \in JobIds /\ jobs'[k].status # "absent" /\ jobs'[k] \in Job
  BY DEF Core, TypeOK, Anchored
<1>2. {j \in JobIds : jobs'[j].slot = jobs'[k].slot} = {k}
  BY <1>1 DEF Anchored
<1>3. /\ jobs'[k].checkpoint.sequence \in Nat /\ jobs'[k].attempts \in Nat
  BY <1>1, SequenceNat DEF Job
<1>4. CASE operations'[o] = operations[o]
  <2>1. /\ operations[o].kind # "unbound" /\ operations[o].job = k
        /\ operations[o] \in Operation /\ jobs[k] \in Job
        /\ jobs[k].status # "absent"
    BY <1>1, <1>4 DEF IInv, Core, TypeOK, Anchored
  <2>2. /\ jobs[k].checkpoint.sequence >= result.checkpoint.sequence
        /\ jobs[k].attempts >= result.attempts
        /\ result.status \in {"completed", "failed"} => jobs[k].status = result.status
        /\ result.kind = "complete_job" => result.status = "completed"
    BY <1>4, <2>1 DEF IInv, RecordedResultsHold
  <2>3. RowOnward(jobs[k], jobs'[k])
    BY <1>1 DEF Onward, JobsOnward
  <2>4. /\ jobs[k].checkpoint.sequence \in Nat /\ jobs[k].attempts \in Nat
        /\ result.checkpoint.sequence \in Nat /\ result.attempts \in Nat
    BY <1>4, <2>1, SequenceNat DEF Job, Operation
  <2>5. /\ jobs'[k].checkpoint.sequence >= result.checkpoint.sequence
        /\ jobs'[k].attempts >= result.attempts
    BY <1>3, <2>1, <2>2, <2>3, <2>4 DEF RowOnward
  <2>6. result.status \in {"completed", "failed"} => jobs'[k].status = result.status
    BY <2>2, <2>3 DEF RowOnward, Ended
  <2> QED
    BY <1>2, <2>2, <2>5, <2>6
<1>5. ASSUME NEW kind \in OpKinds, NEW l \in LeaseIds \cup {NoLease}, NEW j \in JobIds,
             operations'[o] = Result(kind, l, j, jobs'[j]),
             kind = "complete_job" => jobs'[j].status = "completed"
      PROVE  /\ jobs'[k].checkpoint.sequence >= result.checkpoint.sequence
             /\ jobs'[k].attempts >= result.attempts
             /\ result.status = jobs'[k].status
             /\ result.kind = "complete_job" => result.status = "completed"
  <2>1. k = j /\ result.kind = kind /\ result.status = jobs'[j].status
        /\ result.checkpoint = jobs'[j].checkpoint /\ result.attempts = jobs'[j].attempts
    BY <1>5 DEF Result
  <2> QED
    BY <1>3, <1>5, <2>1
<1>6. CASE operations'[o] # operations[o]
  <2>1. PICK kind \in OpKinds, l \in LeaseIds \cup {NoLease}, j \in JobIds :
          /\ \/ operations'[o] = Result(kind, l, j, jobs'[j])
             \/ /\ operations'[o] = Result(kind, l, j, Body(jobs'[j]))
                /\ kind = "create_job"
          /\ kind = "complete_job" => jobs'[j].status = "completed"
    BY <1>6 DEF Onward, OpsOnward
  <2>2. CASE operations'[o] = Result(kind, l, j, jobs'[j])
    BY <1>2, <1>5, <2>1, <2>2
  <2>3. CASE kind = "create_job" /\ operations'[o] = Result(kind, l, j, Body(jobs'[j]))
    <3>1. /\ k = j /\ result.kind = "create_job"
          /\ result.status = Body(jobs'[j]).status
          /\ result.checkpoint = Body(jobs'[j]).checkpoint
          /\ result.attempts = Body(jobs'[j]).attempts
      BY <2>3 DEF Result
    <3>2. /\ jobs'[k].checkpoint.sequence >= result.checkpoint.sequence
          /\ jobs'[k].attempts >= result.attempts
          /\ result.status \in {"completed", "failed"} => jobs'[k].status = result.status
      BY <1>1, <3>1, BodyBehind DEF Born
    <3> QED
      BY <1>2, <3>1, <3>2
  <2> QED
    BY <2>1, <2>2, <2>3
<1> QED
  BY <1>4, <1>6

LEMMA IInvStep == IInv /\ [Next]_vars => IInv'
<1> SUFFICES ASSUME IInv, [Next]_vars PROVE IInv'
  OBVIOUS
<1>1. Core'
  BY CoreStep DEF IInv
<1>2. Onward /\ Anchored'
  BY NextOnward
<1>3. Born'
  BY <1>2, BornStep
<1> QED
  BY <1>1, <1>2, <1>3, CheckpointStep, ResultsStep DEF IInv

LEMMA IInvHolds == Spec => []IInv
BY IInvInit, IInvStep, PTL DEF Spec

\* A resumed job starts where its last holder stopped: the live lease carries
\* the job's checkpoint and no ended lease got further, for any number of
\* holders, expiries and reclaims.
THEOREM CheckpointsAgree == Spec => []CheckpointAgreement
<1>1. IInv => CheckpointAgreement
  BY DEF IInv
<1> QED
  BY IInvHolds, <1>1, PTL

\* What a caller was told under an operation id is still so when it asks again,
\* however late and whatever the other callers did in between.
THEOREM RepliesHold == Spec => []RecordedResultsHold
<1>1. IInv => RecordedResultsHold
  BY DEF IInv
<1> QED
  BY IInvHolds, <1>1, PTL

\* No stale holder, late recovery or duplicate create changes an ended lease, a
\* bound operation id or a finished job.
THEOREM HistoryStands == Spec => HistoryIsFinal
<1> DEFINE Stands ==
      /\ \A l \in LeaseIds :
           leases[l].outcome \notin {"unissued", "live"} => leases'[l] = leases[l]
      /\ \A o \in OpIds :
           operations[o].kind # "unbound" => operations'[o] = operations[o]
      /\ \A j \in JobIds :
           jobs[j].status \in {"completed", "failed", "blocked"} => jobs'[j] = jobs[j]
<1>1. IInv /\ [Next]_vars => [Stands]_vars
  <2> SUFFICES ASSUME IInv, [Next]_vars PROVE Stands
    OBVIOUS
  <2>1. Onward
    BY NextOnward
  <2> QED
    BY <2>1 DEF Onward, JobsOnward, RowOnward, Ended, LeasesOnward, LeaseOnward, OpsOnward
<1> QED
  BY IInvHolds, <1>1, PTL DEF Spec, HistoryIsFinal

-----------------------------------------------------------------------------
(***************************************************************************)
(* The queue of LedgerQueue implements JobBoard, for every value of the    *)
(* constants: each call of ledger.py is one move on the board or none.     *)
(***************************************************************************)

\* The board as the tables show it, as functions of the two tables.
Holding(row, lt) == IF row.active = NoLease THEN NoHolder ELSE lt[row.active].holder
Phase(jt) == [j \in JobIds |-> PhaseOf(jt[j])]
Owner(jt, lt) == [j \in JobIds |-> Holding(jt[j], lt)]
Failures(jt) == [j \in JobIds |-> jt[j].attempts]
Saved(jt) == [j \in JobIds |-> jt[j].checkpoint.sequence]

LEMMA PhaseOfRow ==
  ASSUME NEW row \in Job
  PROVE  /\ PhaseOf(row) = "absent" <=> row.status = "absent"
         /\ PhaseOf(row) = "open" <=> row.status = "queued"
         /\ PhaseOf(row) = "held" <=> row.status \in {"leased", "running"}
         /\ PhaseOf(row) = "finished" <=> row.status = "completed"
         /\ PhaseOf(row) = "dead" <=> row.status = "failed"
         /\ PhaseOf(row) = "parked" <=> row.status = "blocked"
<1>1. row.status \in Statuses
  BY DEF Job
<1> QED
  BY <1>1 DEF PhaseOf, Statuses

LEMMA RowsAreJobs == ASSUME Core PROVE \A j \in JobIds : jobs[j] \in Job
BY DEF Core, TypeOK

\* The moves of the board, in terms of the tables.
LEMMA StutterMove ==
  ASSUME Phase(jobs') = Phase(jobs), Owner(jobs', leases') = Owner(jobs, leases),
         Failures(jobs') = Failures(jobs), Saved(jobs') = Saved(jobs)
  PROVE  UNCHANGED Board!vars
BY DEF Board!vars, Phase, Owner, Failures, Saved, OwnerOf, Holding

LEMMA PostMove ==
  ASSUME NEW j \in JobIds, NEW first \in {"open", "finished", "parked"},
         NEW spent \in {0, 1}, Phase(jobs)[j] = "absent",
         Phase(jobs') = [Phase(jobs) EXCEPT ![j] = first],
         Failures(jobs') = [Failures(jobs) EXCEPT ![j] = spent],
         Owner(jobs', leases') = Owner(jobs, leases), Saved(jobs') = Saved(jobs)
  PROVE  Board!Next
<1>1. Board!Post(j, first, spent)
  BY DEF Board!Post, Phase, Owner, Failures, Saved, OwnerOf, Holding
<1>2. first \in Board!Phases
  BY DEF Board!Phases
<1> QED
  BY <1>1, <1>2 DEF Board!Next

LEMMA ReturnMove ==
  ASSUME NEW js \in SUBSET JobIds, \A j \in js : Phase(jobs)[j] = "held",
         Phase(jobs') = [j \in JobIds |-> IF j \in js THEN "open" ELSE Phase(jobs)[j]],
         Owner(jobs', leases') =
           [j \in JobIds |-> IF j \in js THEN NoHolder ELSE Owner(jobs, leases)[j]],
         Failures(jobs') = Failures(jobs), Saved(jobs') = Saved(jobs)
  PROVE  Board!Next
<1>1. Board!Return(js)
  BY DEF Board!Return, Board!Returned, Board!Vacated, Phase, Owner, Failures, Saved,
         OwnerOf, Holding
<1> QED
  BY <1>1 DEF Board!Next

LEMMA HandOverMove ==
  ASSUME NEW js \in SUBSET JobIds, NEW j \in JobIds, NEW h \in Holders,
         \A k \in js : Phase(jobs)[k] = "held",
         j \in js \/ Phase(jobs)[j] = "open",
         Phase(jobs') = [k \in JobIds |->
           IF k = j THEN "held" ELSE IF k \in js THEN "open" ELSE Phase(jobs)[k]],
         Owner(jobs', leases') = [k \in JobIds |->
           IF k = j THEN h ELSE IF k \in js THEN NoHolder ELSE Owner(jobs, leases)[k]],
         Failures(jobs') = Failures(jobs), Saved(jobs') = Saved(jobs)
  PROVE  Board!Next
<1>1. Board!HandOver(js, j, h)
  BY DEF Board!HandOver, Board!Returned, Board!Vacated, Phase, Owner, Failures, Saved,
         OwnerOf, Holding
<1> QED
  BY <1>1 DEF Board!Next

LEMMA SaveMove ==
  ASSUME NEW j \in JobIds, NEW amount \in Sequences, Phase(jobs)[j] = "held",
         amount >= Saved(jobs)[j],
         Saved(jobs') = [Saved(jobs) EXCEPT ![j] = amount],
         Phase(jobs') = Phase(jobs), Owner(jobs', leases') = Owner(jobs, leases),
         Failures(jobs') = Failures(jobs)
  PROVE  Board!Next
<1>1. Board!Save(j, amount)
  BY DEF Board!Save, Phase, Owner, Failures, Saved, OwnerOf, Holding
<1> QED
  BY <1>1 DEF Board!Next

LEMMA FinishMove ==
  ASSUME NEW j \in JobIds, Phase(jobs)[j] = "held",
         Phase(jobs') = [Phase(jobs) EXCEPT ![j] = "finished"],
         Owner(jobs', leases') = [Owner(jobs, leases) EXCEPT ![j] = NoHolder],
         Failures(jobs') = Failures(jobs), Saved(jobs') = Saved(jobs)
  PROVE  Board!Next
<1>1. Board!Finish(j)
  BY DEF Board!Finish, Phase, Owner, Failures, Saved, OwnerOf, Holding
<1> QED
  BY <1>1 DEF Board!Next

LEMMA FailMove ==
  ASSUME NEW j \in JobIds, NEW last \in BOOLEAN, Phase(jobs)[j] = "held",
         Phase(jobs') = [Phase(jobs) EXCEPT ![j] = IF last THEN "dead" ELSE "open"],
         Owner(jobs', leases') = [Owner(jobs, leases) EXCEPT ![j] = NoHolder],
         Failures(jobs') = [Failures(jobs) EXCEPT ![j] = Failures(jobs)[j] + 1],
         Saved(jobs') = Saved(jobs)
  PROVE  Board!Next
<1>1. Board!Fail(j, last)
  BY DEF Board!Fail, Phase, Owner, Failures, Saved, OwnerOf, Holding
<1> QED
  BY <1>1 DEF Board!Next

-----------------------------------------------------------------------------
\* A job no one has created shows no saved work on the board.
Untouched == \A j \in JobIds : jobs[j].status = "absent" => jobs[j].checkpoint = Planned
BoardInv == IInv /\ Untouched

LEMMA BoardInvStep == BoardInv /\ [Next]_vars => BoardInv'
<1> SUFFICES ASSUME BoardInv, [Next]_vars PROVE BoardInv'
  OBVIOUS
<1>1. IInv'
  BY IInvStep DEF BoardInv
<1>2. Onward
  BY NextOnward DEF BoardInv
<1>3. Untouched'
  <2>1. \A r \in Requests : JobRow(r).status # "absent"
    BY JobRowRow
  <2> QED
    BY <1>2, <2>1 DEF BoardInv, Untouched, Onward, JobsOnward, RowOnward
<1> QED
  BY <1>1, <1>3 DEF BoardInv

LEMMA BoardInvInit == Init => BoardInv
BY IInvInit DEF BoardInv, Untouched, Init, NoJobRow

\* A held job shows its holder, any other job none.
LEMMA OwnerOfLease ==
  ASSUME Core, NEW l \in LeaseIds, Live(l)
  PROVE  LET j == leases[l].job
         IN  j \in JobIds /\ Phase(jobs)[j] = "held"
BY HeldJob, PhaseOfRow DEF Phase

LEMMA BoardInit == Init => Board!Init
<1> SUFFICES ASSUME Init PROVE Board!Init
  OBVIOUS
<1>1. PhaseOf(NoJobRow) = "absent"
  BY DEF PhaseOf, NoJobRow
<1>2. OwnerOf(NoJobRow) = NoHolder
  BY DEF OwnerOf, NoJobRow
<1> QED
  BY <1>1, <1>2 DEF Init, Board!Init, NoJobRow, Planned, OwnerOf

\* Each call of the ledger, as a move.
LEMMA CreateNewMoves ==
  ASSUME BoardInv, NEW r \in Requests, NEW o \in OpIds \cup {NoOp}, CreateNew(r, o)
  PROVE  Board!Next
<1> DEFINE spent == JobRow(r).attempts
           first == PhaseOf(JobRow(r))
<1>1. /\ leases' = leases /\ r.id \in JobIds /\ jobs[r.id].status = "absent"
      /\ jobs'[r.id] = JobRow(r)
      /\ \A k \in JobIds : k # r.id => jobs'[k] = jobs[k]
  BY NewJobRows DEF BoardInv, IInv
<1>2. /\ JobRow(r) \in Job /\ JobRow(r).active = NoLease
      /\ JobRow(r).status \in {"queued", "completed", "blocked"}
      /\ JobRow(r).checkpoint = Planned
  BY JobRowRow
<1>3. spent \in {0, 1} /\ first \in {"open", "finished", "parked"}
  BY <1>2, JobRowRow, PhaseOfRow
<1>4. jobs[r.id] \in Job /\ jobs[r.id].active = NoLease
  BY <1>1 DEF BoardInv, IInv, Core, TypeOK, LeaseJobAgreement
<1>5. jobs[r.id].checkpoint = Planned
  BY <1>1 DEF BoardInv, Untouched
<1>6. Phase(jobs)[r.id] = "absent"
  BY <1>1, <1>4, PhaseOfRow DEF Phase
<1> HIDE DEF spent, first
<1>7. Phase(jobs') = [Phase(jobs) EXCEPT ![r.id] = first]
  BY <1>1 DEF Phase, first
<1>8. Failures(jobs') = [Failures(jobs) EXCEPT ![r.id] = spent]
  BY <1>1 DEF Failures, spent
<1>9. Saved(jobs') = Saved(jobs)
  BY <1>1, <1>2, <1>5 DEF Saved
<1>10. Owner(jobs', leases') = Owner(jobs, leases)
  BY <1>1, <1>2, <1>4 DEF Owner, Holding
<1> QED
  BY <1>1, <1>3, <1>6, <1>7, <1>8, <1>9, <1>10, PostMove

\* The jobs of the leases that are due go back on the board.
Lost(now) == {j \in JobIds : jobs[j].active \in Due(now)}

LEMMA LostJobs ==
  ASSUME Core, NEW now \in Times, NEW j \in JobIds
  PROVE  LET new == RequeuedJobs(now)[j]
         IN  /\ j \in Lost(now) => Phase(jobs)[j] = "held"
             /\ PhaseOf(new) = IF j \in Lost(now) THEN "open" ELSE Phase(jobs)[j]
             /\ Holding(new, ExpiredLeases(now)) =
                  IF j \in Lost(now) THEN NoHolder ELSE Owner(jobs, leases)[j]
             /\ new.attempts = jobs[j].attempts
             /\ new.checkpoint = jobs[j].checkpoint
             /\ new \in Job
<1> DEFINE new == RequeuedJobs(now)[j]
<1>1. /\ new \in Job /\ jobs[j] \in Job /\ new.attempts = jobs[j].attempts
      /\ new.checkpoint = jobs[j].checkpoint
  BY RequeuedJob, RowsAreJobs
<1>2. CASE j \in Lost(now)
  <2>1. new.status = "queued" /\ new.active = NoLease /\ jobs[j].active # NoLease
    BY <1>2, RequeuedJob DEF Lost
  <2>2. jobs[j].status \in {"leased", "running"}
    BY <2>1 DEF Core, LeaseJobAgreement
  <2> QED
    BY <1>1, <1>2, <2>1, <2>2, PhaseOfRow DEF Phase, Holding
<1>3. CASE j \notin Lost(now)
  <2>1. new = jobs[j] /\ jobs[j].active \notin Due(now)
    BY <1>3, RequeuedJob DEF Lost
  <2>2. jobs[j].active # NoLease =>
          ExpiredLeases(now)[jobs[j].active] = leases[jobs[j].active]
    BY <1>1, <2>1, ExpiredLease DEF Job
  <2> QED
    BY <1>1, <1>3, <2>1, <2>2 DEF Phase, Owner, Holding
<1> QED
  BY <1>2, <1>3

LEMMA RecoverMoves ==
  ASSUME BoardInv, NEW now \in Times, RecoverExpired(now)
  PROVE  Board!Next
<1>1. jobs' = RequeuedJobs(now) /\ leases' = ExpiredLeases(now)
  BY DEF RecoverExpired
<1>2. Core /\ Lost(now) \in SUBSET JobIds
  BY DEF BoardInv, IInv, Lost
<1>3. \A j \in Lost(now) : Phase(jobs)[j] = "held"
  BY <1>2, LostJobs
<1>4. Phase(jobs') = [j \in JobIds |-> IF j \in Lost(now) THEN "open" ELSE Phase(jobs)[j]]
  <2>1. Phase(jobs') = [j \in JobIds |-> PhaseOf(RequeuedJobs(now)[j])]
    BY <1>1 DEF Phase
  <2> QED
    BY <1>2, <2>1, LostJobs
<1>5. Owner(jobs', leases') =
        [j \in JobIds |-> IF j \in Lost(now) THEN NoHolder ELSE Owner(jobs, leases)[j]]
  <2>1. Owner(jobs', leases') =
          [j \in JobIds |-> Holding(RequeuedJobs(now)[j], ExpiredLeases(now))]
    BY <1>1 DEF Owner
  <2> QED
    BY <1>2, <2>1, LostJobs
<1>6. Failures(jobs') = Failures(jobs) /\ Saved(jobs') = Saved(jobs)
  BY <1>1, <1>2, LostJobs DEF Failures, Saved
<1> QED
  BY <1>2, <1>3, <1>4, <1>5, <1>6, ReturnMove

LEMMA ClaimMoves ==
  ASSUME BoardInv, NEW h \in Holders, NEW available \in Offers, NEW now \in Times,
         NEW term \in Terms, ClaimJob(h, available, now, term)
  PROVE  Board!Next
<1>1. PICK j \in JobIds, l \in LeaseIds : Claims(h, available, now, term, j, l)
  BY ClaimJobClaims
<1>2. Core /\ Lost(now) \in SUBSET JobIds
  BY DEF BoardInv, IInv, Lost
<1> DEFINE table == RequeuedJobs(now)
           kept == ExpiredLeases(now)
<1>3. /\ jobs' \in [JobIds -> Job]
      /\ \A k \in JobIds : k # j => jobs'[k] = table[k]
      /\ \A m \in LeaseIds : m # l => leases'[m] = kept[m]
      /\ jobs'[j].status = "leased" /\ jobs'[j].active = l
      /\ jobs'[j].attempts = jobs[j].attempts
      /\ jobs'[j].checkpoint = jobs[j].checkpoint
      /\ leases'[l] = NewLease(j, h, available, now + term, jobs[j].checkpoint)
      /\ table[j].status = "queued" /\ leases[l].outcome = "unissued"
  BY <1>1, <1>2, ClaimRows DEF Claimable
<1>4. l # NoLease /\ leases'[l].holder = h
  BY <1>3, LeaseIdsAssumption DEF NewLease
<1>5. \A k \in Lost(now) : Phase(jobs)[k] = "held"
  BY <1>2, LostJobs
<1>6. j \in Lost(now) \/ Phase(jobs)[j] = "open"
  <2>1. PhaseOf(table[j]) = "open"
    BY <1>2, <1>3, LostJobs, PhaseOfRow
  <2> QED
    BY <1>2, <2>1, LostJobs
<1>7. ASSUME NEW k \in JobIds, k # j
      PROVE  /\ PhaseOf(jobs'[k]) = IF k \in Lost(now) THEN "open" ELSE Phase(jobs)[k]
             /\ Holding(jobs'[k], leases') =
                  IF k \in Lost(now) THEN NoHolder ELSE Owner(jobs, leases)[k]
             /\ jobs'[k].attempts = jobs[k].attempts
             /\ jobs'[k].checkpoint = jobs[k].checkpoint
  <2>1. jobs'[k] = table[k]
    BY <1>3, <1>7
  <2>2. table[k].active # NoLease => table[k].active \in LeaseIds /\ table[k].active # l
    <3>1. table[k] \in Job
      BY <1>2, LostJobs
    <3>2. table[k].active # NoLease => kept[table[k].active].outcome = "live"
      BY <1>2, ExpiryAgrees DEF Agree
    <3>3. kept[l].outcome # "live"
      BY <1>2, <1>3, ExpiredLease DEF Due, Live
    <3> QED
      BY <3>1, <3>2, <3>3 DEF Job
  <2>3. Holding(jobs'[k], leases') = Holding(table[k], kept)
    BY <1>3, <2>1, <2>2 DEF Holding
  <2> QED
    BY <1>2, <2>1, <2>3, LostJobs
<1>8. PhaseOf(jobs'[j]) = "held" /\ Holding(jobs'[j], leases') = h
  BY <1>3, <1>4, PhaseOfRow DEF Holding
<1> HIDE DEF table, kept
<1>9. Phase(jobs') = [k \in JobIds |->
        IF k = j THEN "held" ELSE IF k \in Lost(now) THEN "open" ELSE Phase(jobs)[k]]
  <2>1. Phase(jobs') = [k \in JobIds |-> PhaseOf(jobs'[k])]
    BY DEF Phase
  <2> QED
    BY <1>7, <1>8, <2>1
<1>10. Owner(jobs', leases') = [k \in JobIds |->
        IF k = j THEN h ELSE IF k \in Lost(now) THEN NoHolder ELSE Owner(jobs, leases)[k]]
  <2>1. Owner(jobs', leases') = [k \in JobIds |-> Holding(jobs'[k], leases')]
    BY DEF Owner
  <2> QED
    BY <1>7, <1>8, <2>1
<1>11. Failures(jobs') = Failures(jobs) /\ Saved(jobs') = Saved(jobs)
  BY <1>3, <1>7 DEF Failures, Saved
<1> QED
  BY <1>2, <1>5, <1>6, <1>9, <1>10, <1>11, HandOverMove

LEMMA HeartbeatStutters ==
  ASSUME BoardInv, NEW l \in LeaseIds, NEW h \in Holders, NEW now \in Times,
         NEW term \in Terms, Heartbeat(l, h, now, term)
  PROVE  UNCHANGED Board!vars
<1>1. /\ jobs' = jobs /\ \A m \in LeaseIds : leases'[m].holder = leases[m].holder
      /\ \A j \in JobIds : jobs[j] \in Job
  BY HeartbeatRows, RowsAreJobs DEF BoardInv, IInv
<1>2. Owner(jobs', leases') = Owner(jobs, leases)
  BY <1>1 DEF Owner, Holding, Job
<1> QED
  BY <1>1, <1>2, StutterMove

\* The row of the job of live lease l is rewritten: how the board changes.
LEMMA OneJobShows ==
  ASSUME Core, NEW l \in LeaseIds, Live(l), NEW row \in Job,
         jobs'[leases[l].job] = row,
         \A k \in JobIds : k # leases[l].job => jobs'[k] = jobs[k],
         \A m \in LeaseIds : m # l => leases'[m] = leases[m],
         row.active \in {l, NoLease},
         row.active = l => leases'[l].holder = leases[l].holder
  PROVE  LET j == leases[l].job
         IN  /\ Phase(jobs') = [Phase(jobs) EXCEPT ![j] = PhaseOf(row)]
             /\ Owner(jobs', leases') =
                  IF row.active = l THEN Owner(jobs, leases)
                  ELSE [Owner(jobs, leases) EXCEPT ![j] = NoHolder]
             /\ Failures(jobs') = [Failures(jobs) EXCEPT ![j] = row.attempts]
             /\ Saved(jobs') = [Saved(jobs) EXCEPT ![j] = row.checkpoint.sequence]
<1> DEFINE j == leases[l].job
<1>1. /\ j \in JobIds /\ jobs[j].active = l /\ l # NoLease
  BY HeldJob, LeaseIdsAssumption
<1>2. \A k \in JobIds : k # j /\ jobs[k].active # NoLease =>
        jobs[k].active \in LeaseIds /\ jobs[k].active # l
  BY DEF Core, TypeOK, Job, LeaseJobAgreement
<1>3. \A k \in JobIds : k # j => Holding(jobs'[k], leases') = Holding(jobs[k], leases)
  BY <1>2 DEF Holding
<1>4. Holding(jobs'[j], leases') = IF row.active = l THEN Holding(jobs[j], leases) ELSE NoHolder
  BY <1>1 DEF Holding
<1> HIDE DEF j
<1>5. /\ Phase(jobs') = [Phase(jobs) EXCEPT ![j] = PhaseOf(row)]
      /\ Failures(jobs') = [Failures(jobs) EXCEPT ![j] = row.attempts]
      /\ Saved(jobs') = [Saved(jobs) EXCEPT ![j] = row.checkpoint.sequence]
  BY <1>1 DEF Phase, Failures, Saved, j
<1>6. Owner(jobs', leases') =
        IF row.active = l THEN Owner(jobs, leases)
        ELSE [Owner(jobs, leases) EXCEPT ![j] = NoHolder]
  BY <1>1, <1>3, <1>4 DEF Owner
<1> QED
  BY <1>5, <1>6 DEF j

LEMMA WriteCheckpointMoves ==
  ASSUME BoardInv, NEW l \in LeaseIds, NEW h \in Holders, NEW now \in Times,
         NEW cp \in Checkpoint, NEW o \in OpIds \cup {NoOp},
         WriteCheckpoint(l, h, cp, o, now)
  PROVE  Board!Next
<1> DEFINE j == leases[l].job
           row == SavedRow(jobs[j], cp)
<1>1. /\ Live(l) /\ CheckpointAdvances(cp, leases[l].checkpoint)
      /\ leases'[l].holder = leases[l].holder
      /\ \A m \in LeaseIds : m # l => leases'[m] = leases[m]
      /\ jobs'[j] = row /\ \A k \in JobIds : k # j => jobs'[k] = jobs[k]
  BY WriteCheckpointRows DEF BoardInv, IInv
<1>2. j \in JobIds /\ jobs[j] \in Job /\ jobs[j].active = l
  BY <1>1, HeldJob DEF BoardInv, IInv
<1>3. /\ row \in Job /\ PhaseOf(row) = "held" /\ row.active = l
      /\ row.attempts = jobs[j].attempts /\ row.checkpoint = cp
  BY <1>2, SavedRowRow, PhaseOfRow
<1>4. Phase(jobs)[j] = "held"
  BY <1>1, OwnerOfLease DEF BoardInv, IInv
<1>5. cp.sequence \in Sequences /\ cp.sequence >= Saved(jobs)[j]
  <2>1. leases[l].checkpoint = jobs[j].checkpoint
    BY <1>1, LiveLease DEF BoardInv
  <2>2. cp.sequence \in Nat /\ jobs[j].checkpoint.sequence \in Nat
    BY <1>2, SequenceNat DEF Job
  <2> QED
    BY <1>1, <1>2, <2>1, <2>2 DEF CheckpointAdvances, Saved, Checkpoint
<1> HIDE DEF row
<1>6. /\ Phase(jobs') = [Phase(jobs) EXCEPT ![j] = "held"]
      /\ Owner(jobs', leases') = Owner(jobs, leases)
      /\ Failures(jobs') = [Failures(jobs) EXCEPT ![j] = jobs[j].attempts]
      /\ Saved(jobs') = [Saved(jobs) EXCEPT ![j] = cp.sequence]
  BY <1>1, <1>3, OneJobShows DEF BoardInv, IInv
<1>7. Phase(jobs') = Phase(jobs) /\ Failures(jobs') = Failures(jobs)
  <2>1. /\ Phase(jobs)[j] = "held" /\ Failures(jobs)[j] = jobs[j].attempts
    BY <1>2, <1>4 DEF Failures
  <2> QED
    BY <1>6, <2>1 DEF Phase, Failures
<1> QED
  BY <1>2, <1>4, <1>5, <1>6, <1>7, SaveMove

LEMMA EndingMoves ==
  ASSUME BoardInv, NEW l \in LeaseIds, NEW h \in Holders, NEW now \in Times,
         NEW o \in OpIds \cup {NoOp},
         \/ CompleteJob(l, h, o, now)
         \/ \E retryable \in BOOLEAN : FailJob(l, h, retryable, o, now)
         \/ ReleaseLease(l, h, now)
  PROVE  Board!Next
<1> DEFINE j == leases[l].job
<1>1. Live(l)
  BY EndingCalls DEF BoardInv, IInv
<1>2. j \in JobIds /\ jobs[j] \in Job /\ Phase(jobs)[j] = "held" /\ l # NoLease
  BY <1>1, HeldJob, OwnerOfLease, LeaseIdsAssumption DEF BoardInv, IInv
<1>3. PICK row \in Job, outcome \in {"completed", "failed", "released"} :
        /\ Ends(l, row, outcome, now) /\ row.active = NoLease
        /\ row.checkpoint = jobs[j].checkpoint
        /\ row.status \in {"queued", "completed", "failed"}
        /\ outcome = "failed" => row.attempts = jobs[j].attempts + 1
        /\ outcome # "failed" => row.attempts = jobs[j].attempts
        /\ row.status = "completed" <=> outcome = "completed"
        /\ outcome = "released" => row.status = "queued"
  BY EndingCalls DEF BoardInv, IInv
<1>4. /\ jobs'[j] = row /\ \A k \in JobIds : k # j => jobs'[k] = jobs[k]
      /\ \A m \in LeaseIds : m # l => leases'[m] = leases[m]
  BY <1>1, <1>3, EndingRows DEF BoardInv, IInv
<1>5. /\ Phase(jobs') = [Phase(jobs) EXCEPT ![j] = PhaseOf(row)]
      /\ Owner(jobs', leases') = [Owner(jobs, leases) EXCEPT ![j] = NoHolder]
      /\ Failures(jobs') = [Failures(jobs) EXCEPT ![j] = row.attempts]
      /\ Saved(jobs') = [Saved(jobs) EXCEPT ![j] = row.checkpoint.sequence]
  BY <1>1, <1>2, <1>3, <1>4, OneJobShows DEF BoardInv, IInv
<1>6. Saved(jobs') = Saved(jobs)
  BY <1>2, <1>3, <1>4 DEF Saved
<1>7. outcome # "failed" => Failures(jobs') = Failures(jobs)
  BY <1>2, <1>3, <1>4 DEF Failures
<1>8. Failures(jobs)[j] = jobs[j].attempts
  BY <1>2 DEF Failures
<1>9. CASE outcome = "completed"
  <2>1. PhaseOf(row) = "finished"
    BY <1>3, <1>9, PhaseOfRow
  <2> QED
    BY <1>2, <1>5, <1>6, <1>7, <1>9, <2>1, FinishMove
<1>10. CASE outcome = "failed"
  <2> DEFINE last == row.status = "failed"
  <2>1. PhaseOf(row) = IF last THEN "dead" ELSE "open"
    BY <1>3, <1>10, PhaseOfRow
  <2>2. row.attempts = Failures(jobs)[j] + 1 /\ last \in BOOLEAN
    BY <1>3, <1>8, <1>10
  <2> HIDE DEF last
  <2> QED
    BY <1>2, <1>5, <1>6, <2>1, <2>2, FailMove
<1>11. CASE outcome = "released"
  <2>1. PhaseOf(row) = "open"
    BY <1>3, <1>11, PhaseOfRow
  <2>2. Phase(jobs') = [k \in JobIds |-> IF k \in {j} THEN "open" ELSE Phase(jobs)[k]]
    BY <1>5, <2>1 DEF Phase
  <2>3. Owner(jobs', leases') =
          [k \in JobIds |-> IF k \in {j} THEN NoHolder ELSE Owner(jobs, leases)[k]]
    BY <1>5 DEF Owner
  <2> QED
    BY <1>2, <1>6, <1>7, <1>11, <2>2, <2>3, ReturnMove
<1> QED
  BY <1>9, <1>10, <1>11

LEMMA BoardStep == BoardInv /\ [Next]_vars => [Board!Next]_(Board!vars)
<1> SUFFICES ASSUME BoardInv, [Next]_vars PROVE [Board!Next]_(Board!vars)
  OBVIOUS
<1>1. CASE UNCHANGED vars
  <2>1. jobs' = jobs /\ leases' = leases
    BY <1>1 DEF vars
  <2> QED
    BY <2>1, StutterMove
<1>2. ASSUME NEW r \in Requests, NEW o \in OpIds \cup {NoOp}, CreateDuplicate(r, o)
      PROVE  UNCHANGED Board!vars
  BY <1>2, StutterMove DEF CreateDuplicate
<1>3. CASE Next
  BY <1>2, <1>3, CreateNewMoves, RecoverMoves, ClaimMoves, HeartbeatStutters,
     WriteCheckpointMoves, EndingMoves DEF Next, CreateJob
<1> QED
  BY <1>1, <1>3

\* Leases, clocks, recovery and operation ids never show through to a worker:
\* whatever the callers of ledger.py do, the tables look like a board on which
\* a job has one holder at a time and finished work is never handed out again.
THEOREM QueueImplementsBoard == Spec => BoardSpec
<1>1. Spec => []BoardInv
  BY BoardInvInit, BoardInvStep, PTL DEF Spec
<1> QED
  BY <1>1, BoardInit, BoardStep, PTL DEF Spec, BoardSpec, Board!Spec
=============================================================================
