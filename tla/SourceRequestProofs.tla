---------------------------- MODULE SourceRequestProofs ----------------------------
(***************************************************************************)
(* Proofs about the two parts that send requests to a public source.       *)
(* TrustedVMWorker, for any number of workers, jobs, runs and faults: its  *)
(* type, at most one source request per job, and a durable receipt behind  *)
(* every completed job.  PublicInventory, for any number of commands,      *)
(* posts, pages, crashes and catalogue changes: the robots permission      *)
(* behind every page request, the labels of the requests, and what a       *)
(* complete verdict holds.  The two share no state and no step.            *)
(***************************************************************************)
EXTENDS TrustedVMWorker, PublicInventory, FiniteSetTheorems, SequenceTheorems, TLAPS

\* Receipt r is one of job j's run; the object is, or has been, in the bucket.
Of(r, j) == r \in Receipt /\ r.run = RunOf[j]
There == store = "exact" \/ removed

\* What a worker at each point of its call has already established.
Sound(x) ==
  /\ x \in Worker
  /\ x.pc # "idle" => x.job \in Jobs
  /\ x.pc \in {"rehead", "verify", "persist"} => Of(x.receipt, x.job)
  /\ x.pc = "head2" => x.receipt = NoReceipt \/ Of(x.receipt, x.job)
  /\ x.pc \in {"persist", "checkpoint", "final", "complete"} => There
  /\ x.pc \in {"checkpoint", "final", "complete"} => Of(receipt, x.job)

\* What a job's row says of the world.
Backed(row, j) ==
  /\ row \in Job
  /\ (row.state = "leased") = (row.holder # NoWorker)
  /\ row.state = "completed" \/ row.checkpoint = 2 => Of(receipt, j) /\ There

\* Every worker and every job, and the records the world keeps.
RecordsTyped ==
  /\ attempts \subseteq Jobs /\ receipt \in Receipt \cup {NoReceipt}
  /\ tombstone \in BOOLEAN /\ removed \in BOOLEAN
  /\ store \in {"absent", "foreign", "exact"} /\ faults \in 0..MaxFaults
WorkersSound ==
  /\ workers = [w \in Workers |-> workers[w]]
  /\ \A w \in Workers : Sound(workers[w])
JobsBacked ==
  /\ jobs = [j \in Jobs |-> jobs[j]]
  /\ \A j \in Jobs : Backed(jobs[j], j)

\* A reservation is used by one worker, once.
AtSource(w) == workers[w].pc = "open"
Reserved ==
  /\ requests \in [Jobs -> Nat]
  /\ OneRequestPerJob
  /\ \A w \in Workers : AtSource(w) => JobOf(w) \in attempts /\ requests[JobOf(w)] = 0
  /\ \A v, w \in Workers : AtSource(v) /\ AtSource(w) /\ v # w => JobOf(v) # JobOf(w)

IInv == RecordsTyped /\ WorkersSound /\ JobsBacked /\ Reserved

\* No step takes back a durable receipt, nor the object without recording it.
Lasts == /\ receipt # NoReceipt => receipt' = receipt
         /\ There => There'

-----------------------------------------------------------------------------
\* What was established stays established.
LEMMA SoundLasts ==
  ASSUME Lasts, NEW x, Sound(x)
  PROVE  Sound(x)'
BY WorkerAssumption DEF Lasts, Sound, Of

LEMMA BackedLasts ==
  ASSUME Lasts, NEW row, NEW j, Backed(row, j)
  PROVE  Backed(row, j)'
BY WorkerAssumption DEF Lasts, Backed, Of

\* One worker moves to a sound state, the others stay.
LEMMA WorkerMoves ==
  ASSUME WorkersSound, Lasts, NEW w \in Workers, NEW x, Sound(x)',
         workers' = [workers EXCEPT ![w] = x]
  PROVE  WorkersSound'
<1>1. \A v \in Workers : workers'[v] = IF v = w THEN x ELSE workers[v]
  BY DEF WorkersSound
<1>2. \A v \in Workers : Sound(workers[v])'
  <2> TAKE v \in Workers
  <2>1. CASE v = w
    BY <1>1, <2>1
  <2>2. CASE v # w
    <3>1. PICK x0 : x0 = workers[v] OBVIOUS
    <3>2. Sound(x0) /\ workers'[v] = x0 BY <1>1, <2>2, <3>1 DEF WorkersSound
    <3>3. Sound(x0)' BY <3>2, SoundLasts
    <3>4. QED BY <3>2, <3>3
  <2>3. QED BY <2>1, <2>2
<1>3. QED BY <1>2 DEF WorkersSound

\* One job's row becomes one that is backed, the others stay.
LEMMA RowMoves ==
  ASSUME JobsBacked, Lasts, NEW j \in Jobs, NEW row, Backed(row, j)',
         jobs' = [jobs EXCEPT ![j] = row]
  PROVE  JobsBacked'
<1>1. \A i \in Jobs : jobs'[i] = IF i = j THEN row ELSE jobs[i]
  BY DEF JobsBacked
<1>2. \A i \in Jobs : Backed(jobs[i], i)'
  <2> TAKE i \in Jobs
  <2>1. CASE i = j
    BY <1>1, <2>1
  <2>2. CASE i # j
    <3>1. PICK r0 : r0 = jobs[i] OBVIOUS
    <3>2. Backed(r0, i) /\ jobs'[i] = r0 BY <1>1, <2>2, <3>1 DEF JobsBacked
    <3>3. Backed(r0, i)' BY <3>2, BackedLasts
    <3>4. QED BY <3>2, <3>3
  <2>3. QED BY <2>1, <2>2
<1>3. QED BY <1>2 DEF JobsBacked

\* No row changes.
LEMMA RowsStay ==
  ASSUME JobsBacked, Lasts, UNCHANGED jobs
  PROVE  JobsBacked'
<1>1. \A i \in Jobs : Backed(jobs[i], i)'
  <2> TAKE i \in Jobs
  <2>1. PICK r0 : r0 = jobs[i] OBVIOUS
  <2>2. Backed(r0, i) /\ jobs'[i] = r0 BY <2>1 DEF JobsBacked
  <2>3. Backed(r0, i)' BY <2>2, BackedLasts
  <2>4. QED BY <2>2, <2>3
<1>2. QED BY <1>1 DEF JobsBacked

\* No worker changes.
LEMMA WorkersStay ==
  ASSUME WorkersSound, Lasts, UNCHANGED workers
  PROVE  WorkersSound'
<1>1. \A w \in Workers : Sound(workers[w])'
  <2> TAKE w \in Workers
  <2>1. PICK x0 : x0 = workers[w] OBVIOUS
  <2>2. Sound(x0) /\ workers'[w] = x0 BY <2>1 DEF WorkersSound
  <2>3. Sound(x0)' BY <2>2, SoundLasts
  <2>4. QED BY <2>2, <2>3
<1>2. QED BY <1>1 DEF WorkersSound

\* A worker that does not go to the source keeps every reservation.
LEMMA StaysReserved ==
  ASSUME Reserved, WorkersSound, attempts \subseteq attempts', UNCHANGED requests,
         NEW w \in Workers, NEW x,
         workers' = [workers EXCEPT ![w] = x],
         x.pc # "open" \/ x = workers[w]
  PROVE  Reserved'
<1>1. \A v \in Workers : workers'[v] = IF v = w THEN x ELSE workers[v]
  BY DEF WorkersSound
<1>2. \A v \in Workers : AtSource(v)' => AtSource(v) /\ JobOf(v)' = JobOf(v)
  BY <1>1 DEF AtSource, JobOf
<1>3. QED BY <1>2 DEF Reserved, OneRequestPerJob

-----------------------------------------------------------------------------
\* A worker moves without going to the source, and the rows stay backed.
LEMMA QuietStep ==
  ASSUME IInv, Lasts, RecordsTyped', JobsBacked', attempts \subseteq attempts',
         UNCHANGED requests, NEW w \in Workers, NEW x,
         workers' = [workers EXCEPT ![w] = x], Sound(x)',
         x.pc # "open" \/ x = workers[w]
  PROVE  IInv'
<1>1. WorkersSound' BY WorkerMoves DEF IInv
<1>2. Reserved' BY StaysReserved DEF IInv
<1>3. QED BY <1>1, <1>2 DEF IInv

\* A worker between two calls knows nothing.
LEMMA IdleIsSound == Sound(Idle)'
BY WorkerAssumption DEF Sound, Idle, Worker, Acquiring

\* A call that ends, leaving its job queued or blocked.
LEMMA EndKeeps ==
  ASSUME IInv, Lasts, RecordsTyped', attempts \subseteq attempts', UNCHANGED requests,
         NEW w \in Workers, workers[w].pc # "idle",
         NEW state \in {"queued", "blocked"},
         Ends(w), Becomes(w, Unleased(w, state))
  PROVE  IInv'
<1>1. JobOf(w) \in Jobs BY DEF IInv, WorkersSound, Sound, JobOf
<1>2. PICK j \in Jobs : j = JobOf(w) BY <1>1
<1>3. PICK row : row = Unleased(w, state) OBVIOUS
<1>4. row = [jobs[j] EXCEPT !.state = state, !.holder = NoWorker, !.expired = FALSE]
  BY <1>2, <1>3 DEF Unleased
<1>5. Backed(jobs[j], j) BY DEF IInv, JobsBacked
<1>6. Backed(row, j) BY <1>4, <1>5, WorkerAssumption DEF Backed, Job
<1>7. Backed(row, j)' BY <1>6, BackedLasts
<1>8. JobsBacked'
  <2>1. CASE Current(w)
    <3>1. jobs' = [jobs EXCEPT ![j] = row] BY <2>1, <1>2, <1>3 DEF Becomes
    <3>2. QED BY <3>1, <1>7, RowMoves DEF IInv
  <2>2. CASE ~Current(w)
    <3>1. UNCHANGED jobs BY <2>2 DEF Becomes
    <3>2. QED BY <3>1, RowsStay DEF IInv
  <2>3. QED BY <2>1, <2>2
<1>9. workers' = [workers EXCEPT ![w] = Idle] BY DEF Ends
<1>10. Idle.pc # "open" BY DEF Idle
<1>11. QED BY <1>8, <1>9, <1>10, IdleIsSound, QuietStep

LEMMA BlocksKeeps ==
  ASSUME IInv, Lasts, RecordsTyped', attempts \subseteq attempts', UNCHANGED requests,
         NEW w \in Workers, workers[w].pc # "idle", Blocks(w)
  PROVE  IInv'
<1>1. Ends(w) /\ Becomes(w, Unleased(w, "blocked")) BY DEF Blocks
<1>2. QED BY <1>1, EndKeeps

\* A call that goes on to a point other than the source.
LEMMA GoKeeps ==
  ASSUME IInv, Lasts, RecordsTyped', attempts \subseteq attempts', UNCHANGED requests,
         UNCHANGED jobs, NEW w \in Workers, NEW x, Sound(x), x.pc # "open",
         workers' = [workers EXCEPT ![w] = x]
  PROVE  IInv'
<1>1. JobsBacked' BY RowsStay DEF IInv
<1>2. Sound(x)' BY SoundLasts
<1>3. QED BY <1>1, <1>2, QuietStep

LEMMA WorldStays ==
  ASSUME IInv, UNCHANGED world
  PROVE  Lasts /\ RecordsTyped' /\ attempts \subseteq attempts' /\ UNCHANGED requests
BY DEF world, Lasts, RecordsTyped, IInv, There

LEMMA PassesKeeps ==
  ASSUME IInv, NEW w \in Workers, NEW from, NEW to, NEW ok, from # "idle", to # "open",
         Passes(w, from, to, ok),
         ok => Sound([workers[w] EXCEPT !.pc = to])
  PROVE  IInv'
<1>1. Lasts /\ RecordsTyped' /\ attempts \subseteq attempts' /\ UNCHANGED requests
  BY WorldStays DEF Passes
<1>2. CASE ok
  <2>1. PICK x : x = [workers[w] EXCEPT !.pc = to] OBVIOUS
  <2>2. Sound(workers[w]) BY DEF IInv, WorkersSound
  <2>3. x.pc = to BY <2>1, <2>2 DEF Sound, Worker
  <2>4. workers' = [workers EXCEPT ![w] = x] /\ UNCHANGED jobs
    BY <1>2, <2>1 DEF Passes, Goes
  <2>5. Sound(x) BY <1>2, <2>1
  <2>6. QED BY <1>1, <2>3, <2>4, <2>5, GoKeeps
<1>3. CASE ~ok
  <2>1. Blocks(w) /\ workers[w].pc # "idle" BY <1>3 DEF Passes
  <2>2. QED BY <1>1, <2>1, BlocksKeeps
<1>4. QED BY <1>2, <1>3

\* The points that pass: what each needs was established before it.
LEMMA PassingSteps ==
  ASSUME IInv, NEW w \in Workers,
         \/ Heartbeat(w) \/ CheckBeforeHead(w) \/ HeadBeforeSource(w) \/ Reconcile(w)
         \/ Stream(w) \/ VerifyCreated(w) \/ FinalHeartbeat(w)
  PROVE  IInv'
<1>1. Sound(workers[w]) BY DEF IInv, WorkersSound
<1>2. \A to \in {"check", "head", "recover", "reserve", "durable"} :
        workers[w].pc # "idle" => Sound([workers[w] EXCEPT !.pc = to])
  BY <1>1 DEF Sound, Worker, Acquiring
<1>3. CASE Heartbeat(w)
  <2>1. Passes(w, "beat", "check", Holds(w)) BY <1>3 DEF Heartbeat
  <2>2. workers[w].pc # "idle" BY <2>1 DEF Passes
  <2>3. Sound([workers[w] EXCEPT !.pc = "check"]) BY <1>2, <2>2
  <2>4. QED BY <2>1, <2>3, PassesKeeps
<1>4. CASE CheckBeforeHead(w)
  <2>1. Passes(w, "check", "head", Holds(w) /\ ~tombstone) BY <1>4 DEF CheckBeforeHead
  <2>2. workers[w].pc # "idle" BY <2>1 DEF Passes
  <2>3. Sound([workers[w] EXCEPT !.pc = "head"]) BY <1>2, <2>2
  <2>4. QED BY <2>1, <2>3, PassesKeeps
<1>5. CASE HeadBeforeSource(w)
  <2>1. PICK to \in {"reserve", "recover"} : Passes(w, "head", to, store # "foreign")
    BY <1>5 DEF HeadBeforeSource
  <2>2. workers[w].pc # "idle" BY <2>1 DEF Passes
  <2>3. Sound([workers[w] EXCEPT !.pc = to]) BY <1>2, <2>2
  <2>4. to # "open" OBVIOUS
  <2>5. QED BY <2>1, <2>3, <2>4, PassesKeeps
<1>6. CASE Reconcile(w)
  <2>1. Passes(w, "rehead", "persist", store = "exact") BY <1>6 DEF Reconcile
  <2>2. workers[w].pc = "rehead" BY <2>1 DEF Passes
  <2>3. store = "exact" => Sound([workers[w] EXCEPT !.pc = "persist"])
    BY <1>1, <2>2 DEF Sound, Worker, Acquiring, There
  <2>4. QED BY <2>1, <2>3, PassesKeeps
<1>7. CASE Stream(w)
  <2>1. Passes(w, "stream", "durable", Holds(w) /\ ~tombstone) BY <1>7 DEF Stream
  <2>2. workers[w].pc # "idle" BY <2>1 DEF Passes
  <2>3. Sound([workers[w] EXCEPT !.pc = "durable"]) BY <1>2, <2>2
  <2>4. QED BY <2>1, <2>3, PassesKeeps
<1>8. CASE VerifyCreated(w)
  <2>1. Passes(w, "verify", "persist", store = "exact") BY <1>8 DEF VerifyCreated
  <2>2. workers[w].pc = "verify" BY <2>1 DEF Passes
  <2>3. store = "exact" => Sound([workers[w] EXCEPT !.pc = "persist"])
    BY <1>1, <2>2 DEF Sound, Worker, Acquiring, There
  <2>4. QED BY <2>1, <2>3, PassesKeeps
<1>9. CASE FinalHeartbeat(w)
  <2>1. Passes(w, "final", "complete", Holds(w)) BY <1>9 DEF FinalHeartbeat
  <2>2. workers[w].pc = "final" BY <2>1 DEF Passes
  <2>3. Sound([workers[w] EXCEPT !.pc = "complete"])
    BY <1>1, <2>2 DEF Sound, Worker, Acquiring
  <2>4. QED BY <2>1, <2>3, PassesKeeps
<1>10. QED BY <1>3, <1>4, <1>5, <1>6, <1>7, <1>8, <1>9

\* The supervisor's steps: a row and a worker change together.
LEMMA OwnRowMoves ==
  ASSUME IInv, Lasts, NEW w \in Workers, NEW j \in Jobs, j = JobOf(w),
         NEW row, Backed(row, j)', Becomes(w, row)
  PROVE  JobsBacked'
<1>1. CASE Current(w)
  <2>1. jobs' = [jobs EXCEPT ![j] = row] BY <1>1 DEF Becomes
  <2>2. QED BY <2>1, RowMoves DEF IInv
<1>2. CASE ~Current(w)
  <2>1. UNCHANGED jobs BY <1>2 DEF Becomes
  <2>2. QED BY <2>1, RowsStay DEF IInv
<1>3. QED BY <1>1, <1>2

LEMMA ClaimKeeps ==
  ASSUME IInv, NEW w \in Workers, NEW j \in Jobs, Claim(w, j)
  PROVE  IInv'
<1>1. Lasts /\ RecordsTyped' /\ attempts \subseteq attempts' /\ UNCHANGED requests
  BY WorldStays DEF Claim
<1>2. PICK row : row = [jobs[j] EXCEPT !.state = "leased", !.holder = w, !.expired = FALSE]
  OBVIOUS
<1>3. Backed(jobs[j], j) BY DEF IInv, JobsBacked
<1>4. Backed(row, j) BY <1>2, <1>3, WorkerAssumption DEF Backed, Job
<1>5. Backed(row, j)' BY <1>1, <1>4, BackedLasts
<1>6. jobs' = [jobs EXCEPT ![j] = row] BY <1>2 DEF Claim
<1>7. JobsBacked' BY <1>1, <1>5, <1>6, RowMoves DEF IInv
<1>8. PICK x : x = [Idle EXCEPT !.pc = "confirm", !.job = j] OBVIOUS
<1>9. x.pc # "open" /\ Sound(x) BY <1>8 DEF Idle, Sound, Worker, Acquiring
<1>10. Sound(x)' BY <1>1, <1>9, SoundLasts
<1>11. workers' = [workers EXCEPT ![w] = x] BY <1>8 DEF Claim
<1>12. QED BY <1>1, <1>7, <1>9, <1>10, <1>11, QuietStep

LEMMA RecordsKeeps ==
  ASSUME IInv, NEW w \in Workers, workers[w].pc # "idle", NEW n \in 1..2, NEW pc,
         Sound([workers[w] EXCEPT !.pc = pc]), pc # "open",
         n = 2 => Of(receipt, JobOf(w)) /\ There,
         Records(w, n, pc)
  PROVE  IInv'
<1>1. Lasts /\ RecordsTyped' /\ attempts \subseteq attempts' /\ UNCHANGED requests
  BY WorldStays DEF Records
<1>2. Sound(workers[w]) BY DEF IInv, WorkersSound
<1>3. PICK j \in Jobs : j = JobOf(w) BY <1>2 DEF Sound, JobOf
<1>4. PICK row : row = [jobs[j] EXCEPT !.checkpoint = n] OBVIOUS
<1>5. Backed(jobs[j], j) BY DEF IInv, JobsBacked
<1>6. Backed(row, j) BY <1>3, <1>4, <1>5 DEF Backed, Job
<1>7. Backed(row, j)' BY <1>1, <1>6, BackedLasts
<1>8. Becomes(w, row) BY <1>3, <1>4 DEF Records
<1>9. JobsBacked' BY <1>1, <1>3, <1>7, <1>8, OwnRowMoves
<1>10. PICK x : x = IF Current(w) THEN [workers[w] EXCEPT !.pc = pc] ELSE Idle OBVIOUS
<1>11. workers' = [workers EXCEPT ![w] = x]
  BY <1>10 DEF Records, Goes, Ends
<1>12. Sound(Idle) BY WorkerAssumption DEF Sound, Idle, Worker, Acquiring
<1>13. Sound(x) /\ x.pc # "open"
  BY <1>2, <1>10, <1>12 DEF Idle, Sound, Worker
<1>14. Sound(x)' BY <1>1, <1>13, SoundLasts
<1>15. QED BY <1>1, <1>9, <1>11, <1>13, <1>14, QuietStep

LEMMA CheckpointKeeps ==
  ASSUME IInv, NEW w \in Workers, ConfirmAuthority(w) \/ CheckpointVerified(w)
  PROVE  IInv'
<1>1. Sound(workers[w]) BY DEF IInv, WorkersSound
<1>2. CASE ConfirmAuthority(w)
  <2>1. workers[w].pc = "confirm" /\ Records(w, 1, "beat") BY <1>2 DEF ConfirmAuthority
  <2>2. Sound([workers[w] EXCEPT !.pc = "beat"])
    BY <1>1, <2>1 DEF Sound, Worker, Acquiring
  <2>3. QED BY <2>1, <2>2, RecordsKeeps
<1>3. CASE CheckpointVerified(w)
  <2>1. workers[w].pc = "checkpoint" /\ Records(w, 2, "final")
    BY <1>3 DEF CheckpointVerified
  <2>2. Sound([workers[w] EXCEPT !.pc = "final"])
    BY <1>1, <2>1 DEF Sound, Worker, Acquiring
  <2>3. Of(receipt, JobOf(w)) /\ There BY <1>1, <2>1 DEF Sound, JobOf
  <2>4. QED BY <2>1, <2>2, <2>3, RecordsKeeps
<1>4. QED BY <1>2, <1>3

LEMMA CompleteKeeps ==
  ASSUME IInv, NEW w \in Workers, Complete(w)
  PROVE  IInv'
<1>1. Lasts /\ RecordsTyped' /\ attempts \subseteq attempts' /\ UNCHANGED requests
  BY WorldStays DEF Complete
<1>2. Sound(workers[w]) /\ workers[w].pc = "complete" BY DEF IInv, WorkersSound, Complete
<1>3. PICK j \in Jobs : j = JobOf(w) BY <1>2 DEF Sound, JobOf
<1>4. Of(receipt, j) /\ There BY <1>2, <1>3 DEF Sound, JobOf
<1>5. PICK row : row = Unleased(w, "completed") OBVIOUS
<1>6. row = [jobs[j] EXCEPT !.state = "completed", !.holder = NoWorker, !.expired = FALSE]
  BY <1>3, <1>5 DEF Unleased
<1>7. Backed(jobs[j], j) BY DEF IInv, JobsBacked
<1>8. Backed(row, j) BY <1>4, <1>6, <1>7, WorkerAssumption DEF Backed, Job
<1>9. Backed(row, j)' BY <1>1, <1>8, BackedLasts
<1>10. Becomes(w, row) BY <1>5 DEF Complete
<1>11. JobsBacked' BY <1>1, <1>3, <1>9, <1>10, OwnRowMoves
<1>12. workers' = [workers EXCEPT ![w] = Idle] BY DEF Complete, Ends
<1>13. Idle.pc # "open" BY DEF Idle
<1>14. QED BY <1>1, <1>11, <1>12, <1>13, IdleIsSound, QuietStep

-----------------------------------------------------------------------------
\* acquire_one: the steps that read or write a record.
LEMMA RecoverKeeps ==
  ASSUME IInv, NEW w \in Workers, RecoverExisting(w)
  PROVE  IInv'
<1>1. Lasts /\ RecordsTyped' /\ attempts \subseteq attempts' /\ UNCHANGED requests
  BY WorldStays DEF RecoverExisting
<1>2. Sound(workers[w]) /\ workers[w].pc = "recover"
  BY DEF IInv, WorkersSound, RecoverExisting
<1>3. CASE ~tombstone /\ Recovered(w).run = RunOf[JobOf(w)]
  <2>1. JobOf(w) \in Jobs BY <1>2 DEF Sound, JobOf
  <2>2. RunOf[JobOf(w)] \in Runs BY <2>1 DEF Runs
  <2>3. Recovered(w) \in Receipt
    BY <2>2 DEF Recovered, IInv, RecordsTyped, Receipt, Dispositions
  <2>4. PICK x : x = [workers[w] EXCEPT !.pc = "rehead", !.receipt = Recovered(w)] OBVIOUS
  <2>5. x.pc # "open" /\ Sound(x)
    BY <1>2, <1>3, <2>1, <2>3, <2>4 DEF Sound, Worker, Acquiring, Of, JobOf
  <2>6. workers' = [workers EXCEPT ![w] = x] /\ UNCHANGED jobs
    BY <1>3, <2>4 DEF RecoverExisting, GoesWith
  <2>7. QED BY <1>1, <2>5, <2>6, GoKeeps
<1>4. CASE ~(~tombstone /\ Recovered(w).run = RunOf[JobOf(w)])
  <2>1. Blocks(w) BY <1>4 DEF RecoverExisting
  <2>2. QED BY <1>1, <1>2, <2>1, BlocksKeeps
<1>5. QED BY <1>3, <1>4

LEMMA ReadDurableKeeps ==
  ASSUME IInv, NEW w \in Workers, ReadDurable(w)
  PROVE  IInv'
<1>1. Lasts /\ RecordsTyped' /\ attempts \subseteq attempts' /\ UNCHANGED requests
  BY WorldStays DEF ReadDurable
<1>2. Sound(workers[w]) /\ workers[w].pc = "durable"
  BY DEF IInv, WorkersSound, ReadDurable
<1>3. CASE ~tombstone /\ (receipt # NoReceipt => receipt.run = RunOf[JobOf(w)])
  <2>1. PICK x : x = [workers[w] EXCEPT !.pc = "head2", !.receipt = receipt] OBVIOUS
  <2>2. receipt \in Receipt \cup {NoReceipt} BY DEF IInv, RecordsTyped
  <2>3. x.pc # "open" /\ Sound(x)
    BY <1>2, <1>3, <2>1, <2>2 DEF Sound, Worker, Acquiring, Of, JobOf
  <2>4. workers' = [workers EXCEPT ![w] = x] /\ UNCHANGED jobs
    BY <1>3, <2>1 DEF ReadDurable, GoesWith
  <2>5. QED BY <1>1, <2>3, <2>4, GoKeeps
<1>4. CASE ~(~tombstone /\ (receipt # NoReceipt => receipt.run = RunOf[JobOf(w)]))
  <2>1. Blocks(w) BY <1>4 DEF ReadDurable
  <2>2. QED BY <1>1, <1>2, <2>1, BlocksKeeps
<1>5. QED BY <1>3, <1>4

\* A receipt the worker makes for its own job.
LEMMA OwnReceipt ==
  ASSUME NEW j \in Jobs, NEW d \in Dispositions
  PROVE  Of([run |-> RunOf[j], disposition |-> d], j)
BY DEF Of, Receipt, Runs

LEMMA HeadKeeps ==
  ASSUME IInv, NEW w \in Workers, HeadBeforeCreate(w)
  PROVE  IInv'
<1>1. Lasts /\ RecordsTyped' /\ attempts \subseteq attempts' /\ UNCHANGED requests
  BY WorldStays DEF HeadBeforeCreate
<1>2. Sound(workers[w]) /\ workers[w].pc = "head2"
  BY DEF IInv, WorkersSound, HeadBeforeCreate
<1>3. JobOf(w) \in Jobs BY <1>2 DEF Sound, JobOf
<1>4. CASE store = "exact" /\ workers[w].receipt # NoReceipt /\ Goes(w, "persist") /\ UNCHANGED jobs
  <2>1. PICK x : x = [workers[w] EXCEPT !.pc = "persist"] OBVIOUS
  <2>2. x.pc # "open" /\ Sound(x) BY <1>2, <1>4, <2>1 DEF Sound, Worker, Acquiring, There
  <2>3. workers' = [workers EXCEPT ![w] = x] BY <1>4, <2>1 DEF Goes
  <2>4. QED BY <1>1, <1>4, <2>2, <2>3, GoKeeps
<1>5. CASE GoesWith(w, "verify", Reused(w)) /\ UNCHANGED jobs
  <2>1. PICK x : x = [workers[w] EXCEPT !.pc = "verify", !.receipt = Reused(w)] OBVIOUS
  <2>2. Of(Reused(w), JobOf(w)) BY <1>3, OwnReceipt DEF Reused, Dispositions
  <2>3. x.pc # "open" /\ Sound(x)
    BY <1>2, <2>1, <2>2 DEF Sound, Worker, Acquiring, JobOf, Of
  <2>4. workers' = [workers EXCEPT ![w] = x] BY <1>5, <2>1 DEF GoesWith
  <2>5. QED BY <1>1, <1>5, <2>3, <2>4, GoKeeps
<1>6. CASE Goes(w, "create") /\ UNCHANGED jobs
  <2>1. PICK x : x = [workers[w] EXCEPT !.pc = "create"] OBVIOUS
  <2>2. x.pc # "open" /\ Sound(x) BY <1>2, <2>1 DEF Sound, Worker, Acquiring
  <2>3. workers' = [workers EXCEPT ![w] = x] BY <1>6, <2>1 DEF Goes
  <2>4. QED BY <1>1, <1>6, <2>2, <2>3, GoKeeps
<1>7. CASE Blocks(w)
  BY <1>1, <1>2, <1>7, BlocksKeeps
<1>8. QED BY <1>4, <1>5, <1>6, <1>7 DEF HeadBeforeCreate

LEMMA CreateKeeps ==
  ASSUME IInv, NEW w \in Workers, CreateIfAbsent(w)
  PROVE  IInv'
<1>1. PICK applied, replied \in BOOLEAN :
        /\ replied \/ faults < MaxFaults
        /\ faults' = IF replied THEN faults ELSE faults + 1
        /\ IF store # "absent" THEN ~applied ELSE (replied => applied)
        /\ store' = IF applied THEN "exact" ELSE store
        /\ GoesWith(w, "verify", [run |-> RunOf[JobOf(w)],
                                  disposition |-> Disposition(applied, replied)])
  BY DEF CreateIfAbsent
<1>2. Lasts /\ attempts \subseteq attempts' /\ UNCHANGED requests
  BY <1>1 DEF CreateIfAbsent, Lasts, There
<1>3. RecordsTyped'
  BY <1>1, WorkerAssumption DEF CreateIfAbsent, RecordsTyped, IInv
<1>4. Sound(workers[w]) /\ workers[w].pc = "create"
  BY DEF IInv, WorkersSound, CreateIfAbsent
<1>5. JobOf(w) \in Jobs BY <1>4 DEF Sound, JobOf
<1>6. PICK r : r = [run |-> RunOf[JobOf(w)], disposition |-> Disposition(applied, replied)]
  OBVIOUS
<1>7. Disposition(applied, replied) \in Dispositions BY DEF Disposition, Dispositions
<1>8. Of(r, JobOf(w)) BY <1>5, <1>6, <1>7, OwnReceipt
<1>9. PICK x : x = [workers[w] EXCEPT !.pc = "verify", !.receipt = r] OBVIOUS
<1>10. x.pc # "open" /\ Sound(x)
  BY <1>4, <1>8, <1>9 DEF Sound, Worker, Acquiring, JobOf, Of
<1>11. workers' = [workers EXCEPT ![w] = x] BY <1>1, <1>6, <1>9 DEF GoesWith
<1>12. UNCHANGED jobs BY DEF CreateIfAbsent
<1>13. QED BY <1>2, <1>3, <1>10, <1>11, <1>12, GoKeeps

LEMMA PersistKeeps ==
  ASSUME IInv, NEW w \in Workers, Persist(w)
  PROVE  IInv'
<1>1. Sound(workers[w]) /\ workers[w].pc = "persist" BY DEF IInv, WorkersSound, Persist
<1>2. PICK j \in Jobs : j = JobOf(w) BY <1>1 DEF Sound, JobOf
<1>3. Of(workers[w].receipt, j) /\ There BY <1>1, <1>2 DEF Sound, JobOf
<1>4. Lasts /\ attempts \subseteq attempts' /\ UNCHANGED requests
  BY DEF Persist, Lasts, There
<1>5. RecordsTyped' BY <1>3 DEF Persist, RecordsTyped, IInv, Of
<1>6. CASE Accepted(w)
  <2>1. PICK x : x = [workers[w] EXCEPT !.pc = "checkpoint"] OBVIOUS
  <2>2. receipt' = workers[w].receipt BY <1>6 DEF Accepted, Persist
  <2>3. Of(receipt', j) BY <1>3, <2>2
  <2>4. There' BY <1>3, <1>4 DEF Lasts
  <2>5. x \in Worker /\ x.pc = "checkpoint" /\ x.job = j
    BY <1>1, <1>2, <2>1 DEF Sound, Worker, Acquiring, JobOf
  <2>6. Sound(x)' BY <2>3, <2>4, <2>5 DEF Sound, Of
  <2>7. workers' = [workers EXCEPT ![w] = x] BY <1>6, <2>1 DEF Persist, Goes
  <2>8. JobsBacked' BY <1>4, <1>6, RowsStay DEF Persist, IInv
  <2>9. x.pc # "open" BY <2>5
  <2>10. QED BY <1>4, <1>5, <2>6, <2>7, <2>8, <2>9, QuietStep
<1>7. CASE ~Accepted(w)
  <2>1. Blocks(w) BY <1>7 DEF Persist
  <2>2. QED BY <1>1, <1>4, <1>5, <2>1, BlocksKeeps
<1>8. QED BY <1>6, <1>7

\* The reservation: only its first taker goes on to the source.
LEMMA ReserveKeeps ==
  ASSUME IInv, NEW w \in Workers, ReserveAttempt(w)
  PROVE  IInv'
<1>1. Sound(workers[w]) /\ workers[w].pc = "reserve"
  BY DEF IInv, WorkersSound, ReserveAttempt
<1>2. JobOf(w) \in Jobs BY <1>1 DEF Sound, JobOf
<1>3. Lasts /\ attempts \subseteq attempts' /\ UNCHANGED requests
  BY DEF ReserveAttempt, Lasts, There
<1>4. RecordsTyped' BY <1>2 DEF ReserveAttempt, RecordsTyped, IInv
<1>5. CASE Holds(w) /\ FirstAttempt(w)
  <2>1. PICK x : x = [workers[w] EXCEPT !.pc = "open"] OBVIOUS
  <2>2. Sound(x) /\ x.job = JobOf(w)
    BY <1>1, <2>1 DEF Sound, Worker, Acquiring, JobOf
  <2>3. Sound(x)' BY <1>3, <2>2, SoundLasts
  <2>4. workers' = [workers EXCEPT ![w] = x] /\ UNCHANGED jobs
    BY <1>5, <2>1 DEF ReserveAttempt, Goes
  <2>5. WorkersSound' BY <1>3, <2>3, <2>4, WorkerMoves DEF IInv
  <2>6. JobsBacked' BY <1>3, <2>4, RowsStay DEF IInv
  <2>7. Reserved'
    <3>1. JobOf(w) \notin attempts /\ JobOf(w) \in attempts'
      BY <1>5 DEF FirstAttempt, ReserveAttempt
    <3>2. requests[JobOf(w)] = 0
      BY <1>2, <3>1 DEF IInv, Reserved, OneRequestPerJob
    <3>3. \A v \in Workers : workers'[v] = IF v = w THEN x ELSE workers[v]
      BY <2>4 DEF IInv, WorkersSound
    <3>4. JobOf(w)' = JobOf(w) BY <2>2, <3>3 DEF JobOf
    <3>5. \A v \in Workers : AtSource(v)' /\ v # w =>
            AtSource(v) /\ JobOf(v)' = JobOf(v) /\ JobOf(v) # JobOf(w)
      BY <3>1, <3>3 DEF AtSource, JobOf, IInv, Reserved
    <3>6. QED BY <1>3, <3>1, <3>2, <3>4, <3>5 DEF IInv, Reserved, OneRequestPerJob
  <2>8. QED BY <1>4, <2>5, <2>6, <2>7 DEF IInv
<1>6. CASE ~(Holds(w) /\ FirstAttempt(w))
  <2>1. Blocks(w) BY <1>6 DEF ReserveAttempt
  <2>2. QED BY <1>1, <1>3, <1>4, <2>1, BlocksKeeps
<1>7. QED BY <1>5, <1>6

\* The request: the reservation is spent.
LEMMA OpenKeeps ==
  ASSUME IInv, NEW w \in Workers, OpenSource(w)
  PROVE  IInv'
<1>1. Sound(workers[w]) /\ workers[w].pc = "open" BY DEF IInv, WorkersSound, OpenSource
<1>2. JobOf(w) \in Jobs BY <1>1 DEF Sound, JobOf
<1>3. Lasts /\ attempts \subseteq attempts' BY DEF OpenSource, Lasts, There
<1>4. RecordsTyped' BY DEF OpenSource, RecordsTyped, IInv
<1>5. CASE Holds(w) /\ ~tombstone
  <2>1. PICK x : x = [workers[w] EXCEPT !.pc = "stream"] OBVIOUS
  <2>2. Sound(x) /\ x.pc = "stream" BY <1>1, <2>1 DEF Sound, Worker, Acquiring
  <2>3. Sound(x)' BY <1>3, <2>2, SoundLasts
  <2>4. workers' = [workers EXCEPT ![w] = x] /\ UNCHANGED jobs
    BY <1>5, <2>1 DEF OpenSource, Goes
  <2>5. WorkersSound' BY <1>3, <2>3, <2>4, WorkerMoves DEF IInv
  <2>6. JobsBacked' BY <1>3, <2>4, RowsStay DEF IInv
  <2>7. Reserved'
    <3>1. AtSource(w) BY <1>1 DEF AtSource
    <3>2. JobOf(w) \in attempts /\ requests[JobOf(w)] = 0 BY <3>1 DEF IInv, Reserved
    <3>3. requests' = [requests EXCEPT ![JobOf(w)] = 1]
      BY <1>2, <1>5, <3>2 DEF OpenSource, IInv, Reserved
    <3>4. \A v \in Workers : workers'[v] = IF v = w THEN x ELSE workers[v]
      BY <2>4 DEF IInv, WorkersSound
    <3>5. \A v \in Workers : AtSource(v)' =>
            AtSource(v) /\ v # w /\ JobOf(v)' = JobOf(v) /\ JobOf(v) # JobOf(w)
      BY <2>2, <3>1, <3>4 DEF AtSource, JobOf, IInv, Reserved
    <3>6. requests' \in [Jobs -> Nat] BY <3>3 DEF IInv, Reserved
    <3>7. UNCHANGED attempts BY DEF OpenSource
    <3>8. \A v \in Workers : AtSource(v) => JobOf(v) \in Jobs
      BY DEF AtSource, JobOf, IInv, WorkersSound, Sound
    <3>9. QED BY <1>2, <3>2, <3>3, <3>5, <3>6, <3>7, <3>8
           DEF IInv, Reserved, OneRequestPerJob
  <2>8. QED BY <1>4, <2>5, <2>6, <2>7 DEF IInv
<1>6. CASE ~(Holds(w) /\ ~tombstone)
  <2>1. Blocks(w) /\ UNCHANGED requests BY <1>6 DEF OpenSource
  <2>2. QED BY <1>1, <1>3, <1>4, <2>1, BlocksKeeps
<1>7. QED BY <1>5, <1>6

-----------------------------------------------------------------------------
\* Faults, and what others do.
LEMMA FaultKeeps ==
  ASSUME IInv, NEW w \in Workers, Fails(w) \/ Interrupted(w) \/ Dies(w)
  PROVE  IInv'
<1>1. workers[w].pc # "idle" BY DEF Fails, Interrupted, Dies, Acquiring
<1>2. Sound(workers[w]) BY DEF IInv, WorkersSound
<1>3. Fault /\ KeepRecords BY DEF Fails, Interrupted, Dies
<1>4. attempts \subseteq attempts' /\ attempts' \subseteq Jobs
  BY <1>2 DEF Fails, Interrupted, Dies, IInv, RecordsTyped, Sound, JobOf
<1>5. Lasts /\ UNCHANGED requests BY <1>3 DEF KeepRecords, Lasts, There
<1>6. RecordsTyped'
  BY <1>3, <1>4, WorkerAssumption DEF Fault, KeepRecords, RecordsTyped, IInv
<1>7. CASE Fails(w)
  BY <1>1, <1>4, <1>5, <1>6, <1>7, BlocksKeeps DEF Fails
<1>8. CASE Interrupted(w)
  <2>1. Ends(w) /\ Becomes(w, Unleased(w, "queued")) BY <1>8 DEF Interrupted, Releases
  <2>2. QED BY <1>1, <1>4, <1>5, <1>6, <2>1, EndKeeps
<1>9. CASE Dies(w)
  <2>1. workers' = [workers EXCEPT ![w] = Idle] /\ UNCHANGED jobs BY <1>9 DEF Dies, Ends
  <2>2. JobsBacked' BY <1>5, <2>1, RowsStay DEF IInv
  <2>3. Idle.pc # "open" BY DEF Idle
  <2>4. QED BY <1>4, <1>5, <1>6, <2>1, <2>2, <2>3, IdleIsSound, QuietStep
<1>10. QED BY <1>7, <1>8, <1>9

\* No worker moves.
LEMMA OthersKeep ==
  ASSUME IInv, Lasts, RecordsTyped', JobsBacked', UNCHANGED <<attempts, requests, workers>>
  PROVE  IInv'
<1>1. WorkersSound' BY WorkersStay DEF IInv
<1>2. Reserved' BY DEF IInv, Reserved, OneRequestPerJob, AtSource, JobOf
<1>3. QED BY <1>1, <1>2 DEF IInv

LEMMA RowOnlyKeeps ==
  ASSUME IInv, NEW j \in Jobs, Expire(j) \/ Resume(j)
  PROVE  IInv'
<1>1. Lasts /\ UNCHANGED <<attempts, requests, workers>>
  BY DEF Expire, Resume, Lapse, KeepRecords, world, Lasts, There
<1>2. RecordsTyped'
  BY WorkerAssumption
  DEF Expire, Resume, Lapse, Fault, KeepRecords, world, RecordsTyped, IInv
<1>3. Backed(jobs[j], j) BY DEF IInv, JobsBacked
<1>4. PICK row : row = IF Expire(j) THEN [jobs[j] EXCEPT !.expired = TRUE]
                       ELSE [jobs[j] EXCEPT !.state = "queued"] OBVIOUS
<1>5. jobs' = [jobs EXCEPT ![j] = row] BY <1>4 DEF Expire, Lapse, Resume
<1>6. Backed(row, j) BY <1>3, <1>4 DEF Backed, Job, Resume
<1>7. Backed(row, j)' BY <1>1, <1>6, BackedLasts
<1>8. JobsBacked' BY <1>1, <1>5, <1>7, RowMoves DEF IInv
<1>9. QED BY <1>1, <1>2, <1>8, OthersKeep

LEMMA CleanupKeeps ==
  ASSUME IInv, DeleteObject \/ RecordTombstone
  PROVE  IInv'
<1>1. Lasts /\ UNCHANGED <<attempts, requests, workers, jobs>>
  BY DEF DeleteObject, RecordTombstone, Lasts, There
<1>2. RecordsTyped' BY DEF DeleteObject, RecordTombstone, RecordsTyped, IInv
<1>3. JobsBacked' BY <1>1, RowsStay DEF IInv
<1>4. QED BY <1>1, <1>2, <1>3, OthersKeep

-----------------------------------------------------------------------------
\* The invariant holds at first and is kept by every step.
LEMMA InitInv == Init => IInv
<1> SUFFICES ASSUME Init PROVE IInv OBVIOUS
<1>1. RecordsTyped
  <2>1. faults \in 0..MaxFaults BY WorkerAssumption DEF Init
  <2>2. attempts \subseteq Jobs /\ receipt = NoReceipt BY DEF Init
  <2>3. tombstone \in BOOLEAN /\ removed \in BOOLEAN BY DEF Init
  <2>4. store \in {"absent", "foreign", "exact"} BY DEF Init
  <2>5. QED BY <2>1, <2>2, <2>3, <2>4 DEF RecordsTyped
<1>2. Sound(Idle) BY WorkerAssumption DEF Sound, Idle, Worker, Acquiring
<1>3. WorkersSound BY <1>2 DEF Init, WorkersSound
<1>4. JobsBacked
  <2>1. PICK row : row = [state |-> "queued", holder |-> NoWorker,
                          expired |-> FALSE, checkpoint |-> 0] OBVIOUS
  <2>2. \A j \in Jobs : Backed(row, j) BY <2>1 DEF Backed, Job
  <2>3. jobs = [j \in Jobs |-> row] BY <2>1 DEF Init
  <2>4. QED BY <2>2, <2>3 DEF JobsBacked
<1>5. Reserved
  <2>1. \A j \in Jobs : requests[j] = 0 BY DEF Init
  <2>2. \A w \in Workers : ~AtSource(w) BY DEF Init, AtSource, Idle
  <2>3. requests \in [Jobs -> Nat] BY DEF Init
  <2>4. OneRequestPerJob BY <2>1 DEF OneRequestPerJob
  <2>5. QED BY <2>2, <2>3, <2>4 DEF Reserved
<1>6. QED BY <1>1, <1>3, <1>4, <1>5 DEF IInv

LEMMA NextKeeps == IInv /\ [Next]_vars => IInv'
<1> SUFFICES ASSUME IInv, [Next]_vars PROVE IInv' OBVIOUS
<1>1. CASE UNCHANGED vars
  <2>1. Lasts /\ UNCHANGED <<attempts, requests, workers, jobs>>
    BY <1>1 DEF vars, Lasts, There
  <2>2. RecordsTyped' BY <1>1 DEF vars, RecordsTyped, IInv
  <2>3. JobsBacked' BY <2>1, RowsStay DEF IInv
  <2>4. QED BY <2>1, <2>2, <2>3, OthersKeep
<1>2. ASSUME NEW w \in Workers, NEW j \in Jobs, Claim(w, j) PROVE IInv'
  BY <1>2, ClaimKeeps
<1>3. ASSUME NEW w \in Workers, Advance(w) PROVE IInv'
  BY <1>3, PassingSteps, CheckpointKeeps, RecoverKeeps, ReserveKeeps, OpenKeeps,
     ReadDurableKeeps, HeadKeeps, CreateKeeps, PersistKeeps, CompleteKeeps DEF Advance
<1>4. ASSUME NEW w \in Workers, Fails(w) \/ Interrupted(w) \/ Dies(w) PROVE IInv'
  BY <1>4, FaultKeeps
<1>5. ASSUME NEW j \in Jobs, Expire(j) \/ Resume(j) PROVE IInv'
  BY <1>5, RowOnlyKeeps
<1>6. CASE DeleteObject \/ RecordTombstone
  BY <1>6, CleanupKeeps
<1>7. QED BY <1>1, <1>2, <1>3, <1>4, <1>5, <1>6 DEF Next

LEMMA InvHolds == Spec => []IInv
BY InitInv, NextKeeps, PTL DEF Spec

\* The records have their types and a job is leased exactly while it has a
\* holder, for any number of workers, jobs and faults.
THEOREM WorkerTypeCorrect == Spec => []WorkerTypeOK
<1>1. IInv => WorkerTypeOK
  <2> SUFFICES ASSUME IInv PROVE WorkerTypeOK OBVIOUS
  <2>1. \A j \in Jobs : jobs[j] \in Job
                       /\ (jobs[j].state = "leased") = (jobs[j].holder # NoWorker)
    BY DEF IInv, JobsBacked, Backed
  <2>2. jobs \in [Jobs -> Job] BY <2>1 DEF IInv, JobsBacked
  <2>3. \A w \in Workers : workers[w] \in Worker
                          /\ (workers[w].pc # "idle" => JobOf(w) # NoJob)
    BY WorkerAssumption DEF IInv, WorkersSound, Sound, JobOf
  <2>4. workers \in [Workers -> Worker] BY <2>3 DEF IInv, WorkersSound
  <2>5. RecordsTyped /\ requests \in [Jobs -> Nat] BY DEF IInv, Reserved
  <2>6. QED BY <2>1, <2>2, <2>3, <2>4, <2>5 DEF RecordsTyped, WorkerTypeOK
<1>2. QED BY <1>1, InvHolds, PTL

\* However many supervised calls run, and whatever they run into, a job's
\* source is asked at most once, after its attempt was reserved.
THEOREM SourceAskedOnce == Spec => []OneRequestPerJob
<1>1. IInv => OneRequestPerJob BY DEF IInv, Reserved
<1>2. QED BY <1>1, InvHolds, PTL

\* Behind every completed job there is a durable receipt of its run, and the
\* object unless a cleanup took it away.
THEOREM CompletionIsBacked == Spec => []CompletedIsDurable
<1>1. IInv => CompletedIsDurable
  BY WorkerAssumption DEF IInv, JobsBacked, Backed, Of, There, CompletedIsDurable
<1>2. QED BY <1>1, InvHolds, PTL

-----------------------------------------------------------------------------
(***************************************************************************)
(* The processes: where a run stands, and what it holds there.             *)
(***************************************************************************)
WorkAts == {"asking", "paging", "verdict"}
StoreAts == {"store", "verify", "block_asset", "block_state", "block_evidence",
             "job", "bounds"}

RunnerFields(r) ==
    r = [phase |-> r.phase, count |-> r.count, elapsed |-> r.elapsed,
         last |-> r.last, url |-> r.url, attempts |-> r.attempts,
         backoff |-> r.backoff, redirects |-> r.redirects,
         failure |-> r.failure, answer |-> r.answer]

Urls == {"none", "robots", "page", "elsewhere"}
RunnerTyped(r) == RunnerFields(r) /\ r.count \in Nat /\ r.url \in Urls

WorkFields(w) ==
    w = [at |-> w.at, stage |-> w.stage, opened |-> w.opened, prior |-> w.prior,
         index |-> w.index, runner |-> w.runner, harness |-> w.harness,
         code |-> w.code, since |-> w.since]

StoringFields(w) == w = [at |-> w.at, code |-> w.code, body |-> w.body]

Whats == RobotsAnswers \cup Editions \cup Troubles
           \cup {"refused", "page", "oversized", "redirect"}
Labels == {"redirect", "retry_scheduled", "retry_exhausted", "not_retried"}
Evidence == [url : Urls, what : Whats, label : Labels, at : Nat]

(* The robots answer a page request rests on.                              *)
Permitted(w, tr) ==
    \E i \in 1..w.index :
        /\ tr[i].what \in {"allowed", "not_found"}
        /\ i > w.prior \/ w.opened - tr[i].at <= TTL

(* A get that ended well ended with the run's last request.                *)
Concluded(w, tr) ==
    w.at = "asking" /\ w.runner.phase = "done" /\ w.runner.failure = "none" =>
        /\ w.index > w.prior
        /\ tr[w.index].what = w.runner.answer.what
        /\ w.runner.answer.kind = "final"
        /\ w.stage = "robots" => w.runner.answer.what \in RobotsAnswers

(* What a label promises of a runner that is done.                         *)
Kept(label, failure) ==
    /\ label = "retry_scheduled" => failure = "elapsed_time_exhausted"
    /\ label = "retry_exhausted" =>
         failure \in {"request_failed", "rate_limit_exhausted", "retry_exhausted"}
    /\ failure = "none" => label = "not_retried"

(* What it promises of one that goes on.                                   *)
GoesOn(label, count) ==
    /\ label # "retry_exhausted"
    /\ label = "retry_scheduled" => count < MaxRequests

Labelled(w, tr) ==
    w.index > w.prior =>
        /\ w.at = "asking" /\ w.runner.phase = "asking" =>
             GoesOn(tr[w.index].label, w.runner.count)
        /\ w.at = "asking" /\ w.runner.phase = "done" =>
             Kept(tr[w.index].label, w.runner.failure)
        /\ w.at = "paging" => tr[w.index].label = "not_retried"

WorkSound(w, tr) ==
    /\ WorkFields(w) /\ RunnerTyped(w.runner)
    /\ w.stage \in {"robots", "page"}
    /\ w.prior \in Nat /\ w.index \in Nat /\ w.prior <= w.index /\ w.index <= Len(tr)
    /\ w.at = "asking" =>
         /\ w.runner.phase \in {"asking", "wire", "done"}
         /\ w.runner.phase # "done" => w.runner.failure = "none"
    /\ w.stage = "page" /\ w.at # "verdict" => Permitted(w, tr)
    /\ Concluded(w, tr) /\ Labelled(w, tr)

RunSound(w, tr) ==
    /\ w.at \in {"waiting", "absent", "opened", "manifest"} \cup StoreAts \cup WorkAts
    /\ w.at \in StoreAts => StoringFields(w)
    /\ w.at \in WorkAts => WorkSound(w, tr)

RunsSound ==
    /\ run = [p \in Commands |-> run[p]]
    /\ \A p \in Commands :
         RunSound(run[p], trail) /\ (run[p].at \in StoreAts => lane = "article")

EvidenceSound ==
    /\ lane \in {"article", "posts"} /\ now \in Nat /\ trail \in Seq(Evidence)
    /\ \A o \in robots : o.index \in 1..Len(trail)

AskInv == RunsSound /\ EvidenceSound

-----------------------------------------------------------------------------
(* Lemmas about the runner's steps.                                        *)
LEMMA GotTyped ==
  ASSUME NEW r, RunnerTyped(r), NEW url \in Urls
  PROVE  /\ RunnerTyped(Got(r, url)) /\ Got(r, url).phase = "asking"
         /\ Got(r, url).failure = "none" /\ Got(r, url).count = r.count
<1>1. PICK n : n = Got(r, url) OBVIOUS
<1>2. n = [r EXCEPT !.phase = "asking", !.url = url, !.attempts = 0, !.backoff = 0,
                    !.redirects = 0, !.failure = "none", !.answer = NoAnswer]
  BY <1>1 DEF Got
<1>3. r = [phase |-> r.phase, count |-> r.count, elapsed |-> r.elapsed,
           last |-> r.last, url |-> r.url, attempts |-> r.attempts,
           backoff |-> r.backoff, redirects |-> r.redirects,
           failure |-> r.failure, answer |-> r.answer]
  BY DEF RunnerTyped, RunnerFields
<1>4. n = [phase |-> "asking", count |-> r.count, elapsed |-> r.elapsed,
           last |-> r.last, url |-> url, attempts |-> 0, backoff |-> 0,
           redirects |-> 0, failure |-> "none", answer |-> NoAnswer]
  BY <1>2, <1>3
<1>5. RunnerTyped(n) BY <1>4 DEF RunnerTyped, RunnerFields
<1>6. n.phase = "asking" /\ n.failure = "none" /\ n.count = r.count BY <1>4
<1>7. QED BY <1>1, <1>5, <1>6

LEMMA NewRunnerTyped == RunnerTyped(NewRunner)
BY DEF RunnerTyped, RunnerFields, NewRunner, Urls

LEMMA AskedTells ==
  ASSUME NEW r, RunnerTyped(r), r.phase = "asking", NEW n,
         n = IF AskFailure(r) = "none" THEN Sent(r) ELSE Failed(r, AskFailure(r))
  PROVE  /\ RunnerTyped(n) /\ n.phase \in {"wire", "done"}
         /\ n.count = r.count /\ (n.phase = "wire" => n.failure = r.failure)
         /\ n.phase = "done" =>
              /\ n.failure # "none"
              /\ r.count < MaxRequests => n.failure = "elapsed_time_exhausted"
<1>1. AskFailure(r) \in {"request_budget_exhausted", "elapsed_time_exhausted", "none"}
  BY DEF AskFailure
<1>2. CASE AskFailure(r) = "none"
  <2>1. n = Sent(r) BY <1>2
  <2>2. /\ RunnerTyped(n) /\ n.phase = "wire"
        /\ n.count = r.count /\ n.failure = r.failure
    BY <2>1 DEF RunnerTyped, RunnerFields, Sent
  <2>3. QED BY <2>2
<1>3. CASE AskFailure(r) # "none"
  <2>1. n = Failed(r, AskFailure(r)) BY <1>3
  <2>2. /\ RunnerTyped(n) /\ n.phase = "done" /\ n.failure = AskFailure(r)
        /\ n.count = r.count
    BY <2>1 DEF RunnerTyped, RunnerFields, Failed
  <2>3. ASSUME r.count < MaxRequests PROVE AskFailure(r) # "request_budget_exhausted"
    <3>1. ~(r.count >= MaxRequests) BY <2>3, RunnerAssumption DEF RunnerTyped
    <3>2. QED BY <3>1 DEF AskFailure
  <2>4. QED BY <1>1, <1>3, <2>2, <2>3
<1>4. QED BY <1>2, <1>3

(* The label is written before the runner decides, and holds afterwards.   *)
LEMMA ResolvedTells ==
  ASSUME NEW r, RunnerTyped(r), r.phase = "wire",
         r.answer.kind \in {"final", "redirect", "network_error", "http_429", "http_5xx"},
         r.failure = "none", NEW n, n = Resolved(r)
  PROVE  /\ RunnerTyped(n) /\ n.phase \in {"asking", "done"} /\ n.answer = r.answer
         /\ Label(r) \in Labels
         /\ n.phase = "asking" => GoesOn(Label(r), n.count) /\ n.failure = "none"
         /\ n.phase = "done" => Kept(Label(r), n.failure)
         /\ n.phase = "done" /\ n.failure = "none" =>
              r.answer.kind = "final" /\ n.url = r.url
<1>1. CASE r.answer.kind = "redirect"
  <2>1. ~Transient(r) BY <1>1 DEF Transient
  <2>2. Label(r) = "redirect" BY <1>1, <2>1 DEF Label
  <2>3. n = Redirected(r) BY <1>1, <2>1 DEF Resolved
  <2>4. CASE r.answer.allowed /\ r.redirects < MaxRedirects
    <3>1. n = [r EXCEPT !.phase = "asking", !.url = "elsewhere", !.redirects = @ + 1]
      BY <2>3, <2>4 DEF Redirected
    <3>2. /\ RunnerTyped(n) /\ n.phase = "asking" /\ n.answer = r.answer
          /\ n.failure = r.failure
      BY <3>1 DEF RunnerTyped, RunnerFields, Urls
    <3>3. QED BY <2>2, <3>2 DEF GoesOn, Labels
  <2>5. CASE ~(r.answer.allowed /\ r.redirects < MaxRedirects)
    <3>1. n = Failed(r, "redirect_blocked") BY <2>3, <2>5 DEF Redirected
    <3>2. /\ RunnerTyped(n) /\ n.phase = "done" /\ n.answer = r.answer
          /\ n.failure = "redirect_blocked"
      BY <3>1 DEF RunnerTyped, RunnerFields, Failed
    <3>3. QED BY <2>2, <3>2 DEF Kept, Labels
  <2>6. QED BY <2>4, <2>5
<1>2. CASE Transient(r) /\ CanRetry(r)
  <2>1. r.answer.kind # "redirect" BY <1>2 DEF Transient
  <2>2. Label(r) = "retry_scheduled" BY <1>2, <2>1 DEF Label
  <2>3. r.count < MaxRequests BY <1>2 DEF CanRetry
  <2>4. n = Retrying(r) BY <1>2, <2>1 DEF Resolved
  <2>5. PICK delay : delay = RetryDelay(r, r.answer.after) OBVIOUS
  <2>6. CASE CanWait(r, delay)
    <3>1. n = [r EXCEPT !.phase = "asking", !.attempts = @ + 1,
                        !.backoff = @ + delay, !.elapsed = @ + delay]
      BY <2>4, <2>5, <2>6 DEF Retrying
    <3>2. /\ RunnerTyped(n) /\ n.phase = "asking" /\ n.answer = r.answer
          /\ n.count = r.count /\ n.failure = r.failure
      BY <3>1 DEF RunnerTyped, RunnerFields
    <3>3. QED BY <2>2, <2>3, <3>2 DEF GoesOn, Labels
  <2>7. CASE ~CanWait(r, delay)
    <3>1. n = Failed(r, "elapsed_time_exhausted") BY <2>4, <2>5, <2>7 DEF Retrying
    <3>2. /\ RunnerTyped(n) /\ n.phase = "done" /\ n.answer = r.answer
          /\ n.failure = "elapsed_time_exhausted"
      BY <3>1 DEF RunnerTyped, RunnerFields, Failed
    <3>3. QED BY <2>2, <3>2 DEF Kept, Labels
  <2>8. QED BY <2>6, <2>7
<1>3. CASE Transient(r) /\ ~CanRetry(r)
  <2>1. r.answer.kind # "redirect" BY <1>3 DEF Transient
  <2>2. Label(r) = "retry_exhausted" BY <1>3, <2>1 DEF Label
  <2>3. n = Failed(r, Exhausted(r.answer.kind)) BY <1>3, <2>1 DEF Resolved
  <2>4. Exhausted(r.answer.kind) \in {"request_failed", "rate_limit_exhausted", "retry_exhausted"}
    BY <1>3 DEF Transient, Exhausted
  <2>5. /\ RunnerTyped(n) /\ n.phase = "done" /\ n.answer = r.answer
        /\ n.failure = Exhausted(r.answer.kind)
    BY <2>3 DEF RunnerTyped, RunnerFields, Failed
  <2>6. QED BY <2>2, <2>4, <2>5 DEF Kept, Labels
<1>4. CASE r.answer.kind = "final"
  <2>1. ~Transient(r) BY <1>4 DEF Transient
  <2>2. Label(r) = "not_retried" BY <1>4, <2>1 DEF Label
  <2>3. n = [r EXCEPT !.phase = "done"] BY <1>4, <2>1 DEF Resolved
  <2>4. /\ RunnerTyped(n) /\ n.phase = "done" /\ n.answer = r.answer
        /\ n.failure = r.failure /\ n.url = r.url
    BY <2>3 DEF RunnerTyped, RunnerFields
  <2>5. QED BY <1>4, <2>2, <2>4 DEF Kept, Labels
<1>5. QED BY <1>1, <1>2, <1>3, <1>4 DEF Transient
-----------------------------------------------------------------------------
(* Steps that leave a process sound leave every process sound.             *)
Grown ==
    /\ trail \in Seq(Evidence) /\ trail' \in Seq(Evidence)
    /\ Len(trail) <= Len(trail')
    /\ \A i \in 1..Len(trail) : trail'[i] = trail[i]

LEMMA SoundGrows ==
  ASSUME Grown, NEW w, RunSound(w, trail)
  PROVE  RunSound(w, trail')
<1>1. SUFFICES ASSUME w.at \in WorkAts PROVE WorkSound(w, trail')
  BY DEF RunSound
<1>2. WorkSound(w, trail) BY <1>1 DEF RunSound
<1>3. /\ w.prior \in Nat /\ w.index \in Nat /\ w.prior <= w.index
      /\ w.index <= Len(trail) /\ Len(trail) \in Nat /\ Len(trail') \in Nat
  BY <1>2 DEF WorkSound, Grown
<1>4. w.index <= Len(trail') BY <1>3 DEF Grown
<1>5. \A i \in 1..w.index : trail'[i] = trail[i] BY <1>3 DEF Grown
<1>6. Permitted(w, trail) => Permitted(w, trail') BY <1>5 DEF Permitted
<1>7. w.index > w.prior => trail'[w.index] = trail[w.index]
  <2>1. w.index > w.prior => w.index \in 1..w.index BY <1>3
  <2>2. QED BY <2>1, <1>5
<1>8. Concluded(w, trail') BY <1>2, <1>7 DEF WorkSound, Concluded
<1>9. Labelled(w, trail') BY <1>2, <1>7 DEF WorkSound, Labelled
<1>10. QED BY <1>2, <1>4, <1>6, <1>8, <1>9 DEF WorkSound

LEMMA ProcessMoves ==
  ASSUME RunsSound, Grown, lane' = lane, NEW p \in Commands, NEW w, Keep(p, w),
         RunSound(w, trail'), w.at \in StoreAts => lane = "article"
  PROVE  RunsSound'
<1>1. run' = [run EXCEPT ![p] = w] /\ run = [q \in Commands |-> run[q]]
  BY DEF Keep, RunsSound
<1>2. run' = [q \in Commands |-> run'[q]] BY <1>1
<1>3. \A q \in Commands : run'[q] = IF q = p THEN w ELSE run[q] BY <1>1
<1>4. ASSUME NEW q \in Commands
      PROVE RunSound(run'[q], trail') /\ (run'[q].at \in StoreAts => lane' = "article")
  <2>1. CASE q = p
    <3>1. run'[q] = w BY <1>3, <2>1
    <3>2. QED BY <3>1
  <2>2. CASE q # p
    <3>1. run'[q] = run[q] BY <1>3, <2>2
    <3>2. RunSound(run[q], trail) BY DEF RunsSound
    <3>3. RunSound(run[q], trail') BY <3>2, SoundGrows
    <3>4. run[q].at \in StoreAts => lane = "article" BY DEF RunsSound
    <3>5. QED BY <3>1, <3>3, <3>4
  <2>3. QED BY <2>1, <2>2
<1>5. QED BY <1>2, <1>4 DEF RunsSound

LEMMA EvidenceStays ==
  ASSUME EvidenceSound, trail' = trail
  PROVE  Grown
BY DEF EvidenceSound, Grown

(* A process that is not asking and records nothing.                       *)
Aside(w) ==
    \/ w.at \in {"waiting", "absent", "opened", "manifest"}
    \/ w.at \in StoreAts /\ StoringFields(w) /\ lane = "article"

LEMMA AsideIsSound ==
  ASSUME NEW w, Aside(w), NEW tr
  PROVE  RunSound(w, tr) /\ (w.at \in StoreAts => lane = "article")
BY DEF Aside, RunSound, StoreAts, WorkAts

LEMMA QuietKeeps ==
  ASSUME AskInv, UNCHANGED <<lane, now, trail, robots>>,
         NEW p \in Commands, NEW w, Keep(p, w), RunSound(w, trail),
         w.at \in StoreAts => lane = "article"
  PROVE  AskInv'
<1>1. Grown BY EvidenceStays DEF AskInv
<1>2. RunsSound' BY <1>1, ProcessMoves DEF AskInv
<1>3. EvidenceSound' BY DEF AskInv, EvidenceSound
<1>4. QED BY <1>2, <1>3 DEF AskInv

LEMMA AsideKeeps ==
  ASSUME AskInv, UNCHANGED <<lane, now, trail, robots>>,
         NEW p \in Commands, NEW w, Keep(p, w), Aside(w)
  PROVE  AskInv'
<1>1. RunSound(w, trail) /\ (w.at \in StoreAts => lane = "article") BY AsideIsSound
<1>2. QED BY <1>1, QuietKeeps

LEMMA StillKeeps ==
  ASSUME AskInv, UNCHANGED <<lane, trail, robots, run>>, now' \in Nat
  PROVE  AskInv'
<1>1. RunsSound' BY DEF AskInv, RunsSound
<1>2. EvidenceSound' BY DEF AskInv, EvidenceSound
<1>3. QED BY <1>1, <1>2 DEF AskInv

LEMMA LeaveKeeps ==
  ASSUME AskInv, UNCHANGED <<lane, now, trail, robots>>, NEW p \in Commands, Leave(p)
  PROVE  AskInv'
<1>1. Keep(p, NoRun) /\ Aside(NoRun) BY DEF Leave, NoRun, Aside
<1>2. QED BY <1>1, AsideKeeps

-----------------------------------------------------------------------------
(* The article lane's records.                                             *)
LEMMA OwnRecord ==
  ASSUME AskInv, NEW p \in Commands, run[p].at \in StoreAts, NEW step \in StoreAts \cup {"manifest"}
  PROVE  Aside([run[p] EXCEPT !.at = step]) /\ lane = "article"
<1>1. StoringFields(run[p]) /\ lane = "article" BY DEF AskInv, RunsSound, RunSound
<1>2. PICK w : w = [run[p] EXCEPT !.at = step] OBVIOUS
<1>3. run[p] = [at |-> run[p].at, code |-> run[p].code, body |-> run[p].body]
  BY <1>1 DEF StoringFields
<1>4. w = [at |-> step, code |-> run[p].code, body |-> run[p].body] BY <1>2, <1>3
<1>5. w.at = step /\ StoringFields(w) BY <1>4 DEF StoringFields
<1>6. Aside(w) BY <1>1, <1>5 DEF Aside
<1>7. QED BY <1>1, <1>2, <1>6

LEMMA StoringIsAside ==
  ASSUME lane = "article", NEW step \in StoreAts, NEW code, NEW body
  PROVE  Aside(Storing(step, code, body))
BY DEF Aside, Storing, StoringFields

LEMMA StopIsAside ==
  ASSUME lane = "article", NEW p, NEW code
  PROVE  Aside(Stopping(p, code))
BY StoringIsAside DEF Stopping, StoreAts

(* The steps that take a process aside: they touch no evidence.            *)
LEMMA ArticleMoves ==
  ASSUME NEW p \in Commands, JudgeArticle(p)
  PROVE  /\ UNCHANGED <<lane, now, trail, robots, catalogue, history, verdicts>>
         /\ \E w : Keep(p, w) /\ Aside(w)
<1>1. /\ UNCHANGED <<lane, now, trail, robots, catalogue, history, verdicts>>
      /\ lane = "article"
  BY DEF JudgeArticle, ledger
<1>2. PICK w : /\ Keep(p, w)
               /\ w = CASE run[p].runner.failure # "none" -> Stopping(p, run[p].runner.failure)
                     [] run[p].runner.failure = "none" /\ run[p].runner.answer.what = "refused"
                          -> Stopping(p, "refused")
                     [] OTHER -> Storing("store", None, <<run[p].runner.answer.what, run[p].runner.url>>)
  BY DEF JudgeArticle
<1>3. Aside(w) BY <1>1, <1>2, StopIsAside, StoringIsAside DEF StoreAts
<1>4. QED BY <1>1, <1>2, <1>3

LEMMA RecordMoves ==
  ASSUME AskInv, NEW p \in Commands,
         StoreAsset(p) \/ Verify(p) \/ BlockAsset(p) \/ BlockState(p)
           \/ BlockEvidence(p) \/ StoreJob(p) \/ StoreBounds(p)
  PROVE  /\ UNCHANGED <<lane, now, trail, robots, catalogue, history, verdicts>>
         /\ \E w : Keep(p, w) /\ Aside(w)
<1>1. UNCHANGED <<lane, now, trail, robots, catalogue, history, verdicts>>
  BY DEF StoreAsset, Verify, BlockAsset, BlockState, BlockEvidence, StoreJob, StoreBounds
<1>2. run[p].at \in StoreAts
  BY DEF StoreAsset, Verify, BlockAsset, BlockState, BlockEvidence, StoreJob,
         StoreBounds, At, StoreAts
<1>3. \/ Leave(p)
      \/ Keep(p, Stopping(p, "response_structure_changed"))
      \/ \E step \in StoreAts \cup {"manifest"} : Keep(p, [run[p] EXCEPT !.at = step])
  BY DEF StoreAsset, Verify, BlockAsset, BlockState, BlockEvidence, StoreJob,
         StoreBounds, StoreAts
<1>4. CASE Leave(p) BY <1>1, <1>4 DEF Leave, NoRun, Aside
<1>5. CASE Keep(p, Stopping(p, "response_structure_changed"))
  <2>1. lane = "article" BY <1>2, OwnRecord DEF StoreAts
  <2>2. Aside(Stopping(p, "response_structure_changed")) BY <2>1, StopIsAside
  <2>3. QED BY <1>1, <1>5, <2>2
<1>6. ASSUME NEW step \in StoreAts \cup {"manifest"}, Keep(p, [run[p] EXCEPT !.at = step])
      PROVE  \E w : Keep(p, w) /\ Aside(w)
  <2>1. Aside([run[p] EXCEPT !.at = step]) BY <1>2, OwnRecord
  <2>2. QED BY <1>6, <2>1
<1>7. QED BY <1>1, <1>3, <1>4, <1>5, <1>6

LEMMA EdgeMoves ==
  ASSUME NEW p \in Commands,
         Replay(p) \/ Open(p) \/ WriteArticle(p) \/ RecordVerdict(p) \/ WritePosts(p)
           \/ Crash(p)
  PROVE  /\ UNCHANGED <<lane, now, trail, robots, catalogue, history>>
         /\ \E w : Keep(p, w) /\ Aside(w)
<1>1. UNCHANGED <<lane, now, trail, robots, catalogue, history>>
  BY DEF Replay, Open, WriteArticle, RecordVerdict, WritePosts, Crash, ledger
<1>2. \/ Leave(p) \/ Keep(p, [at |-> "opened"])
      \/ Keep(p, [at |-> "manifest", verdict |-> PostsManifest(p)])
  BY DEF Replay, Open, WriteArticle, RecordVerdict, WritePosts, Crash
<1>3. CASE Leave(p) BY <1>1, <1>3 DEF Leave, NoRun, Aside
<1>4. CASE Keep(p, [at |-> "opened"])
  <2>1. Aside([at |-> "opened"]) BY DEF Aside
  <2>2. QED BY <1>1, <1>4, <2>1
<1>5. CASE Keep(p, [at |-> "manifest", verdict |-> PostsManifest(p)])
  <2>1. Aside([at |-> "manifest", verdict |-> PostsManifest(p)]) BY DEF Aside
  <2>2. QED BY <1>1, <1>5, <2>1
<1>6. QED BY <1>1, <1>2, <1>3, <1>4, <1>5

-----------------------------------------------------------------------------
(* The steps of a run at work.                                             *)
LEMMA FreshPermits ==
  ASSUME EvidenceSound, FreshObservation
  PROVE  \E i \in 1..Len(trail) :
           /\ trail[i].what \in {"allowed", "not_found"}
           /\ now - trail[i].at <= TTL
<1>1. PICK o \in robots : /\ Allows(o) /\ now - o.at <= TTL
                          /\ Supports(trail[o.index], o)
  BY DEF FreshObservation
<1>2. o.index \in 1..Len(trail) BY DEF EvidenceSound
<1>3. trail[o.index].what = o.outcome /\ trail[o.index].at = o.at
  BY <1>1 DEF Supports
<1>4. o.outcome \in {"allowed", "not_found"} BY <1>1 DEF Allows
<1>5. QED BY <1>1, <1>2, <1>3, <1>4

LEMMA LoadKeeps ==
  ASSUME AskInv, NEW p \in Commands, Load(p)
  PROVE  AskInv'
<1>1. UNCHANGED <<lane, now, trail, robots>> BY DEF Load, ledger
<1>2. PICK stage : stage = IF lane = "article" /\ FreshObservation THEN "page" ELSE "robots"
  OBVIOUS
<1>3. PICK r : r = Got(NewRunner, stage) OBVIOUS
<1>4. PICK w : w = Working(stage, NewHarness, r) OBVIOUS
<1>5. Keep(p, w) BY <1>2, <1>3, <1>4 DEF Load
<1>6. stage \in {"robots", "page"} /\ (stage = "page" => FreshObservation) BY <1>2
<1>7. RunnerTyped(r) /\ r.phase = "asking" /\ r.failure = "none"
  BY <1>3, <1>6, GotTyped, NewRunnerTyped DEF Urls
<1>8. w = [at |-> "asking", stage |-> stage, opened |-> now, prior |-> Len(trail),
           index |-> Len(trail), runner |-> r, harness |-> NewHarness,
           code |-> None, since |-> Len(history)]
  BY <1>4 DEF Working
<1>9. /\ w.at = "asking" /\ w.stage = stage /\ w.opened = now /\ w.prior = Len(trail)
      /\ w.index = Len(trail) /\ w.runner = r
  BY <1>8
<1>10. WorkFields(w) BY <1>8 DEF WorkFields
<1>11. Len(trail) \in Nat BY DEF AskInv, EvidenceSound
<1>12. ~(w.index > w.prior) BY <1>9, <1>11
<1>13. stage = "page" => Permitted(w, trail)
  <2>1. SUFFICES ASSUME stage = "page" PROVE Permitted(w, trail) OBVIOUS
  <2>2. PICK i \in 1..Len(trail) : /\ trail[i].what \in {"allowed", "not_found"}
                                   /\ now - trail[i].at <= TTL
    BY <2>1, <1>6, FreshPermits DEF AskInv
  <2>3. QED BY <1>9, <2>2 DEF Permitted
<1>14. Concluded(w, trail) BY <1>7, <1>9 DEF Concluded
<1>15. Labelled(w, trail) BY <1>12 DEF Labelled
<1>16. WorkSound(w, trail)
  BY <1>6, <1>7, <1>9, <1>10, <1>11, <1>13, <1>14, <1>15 DEF WorkSound
<1>17. RunSound(w, trail) /\ w.at \notin StoreAts
  BY <1>9, <1>16 DEF RunSound, WorkAts, StoreAts
<1>18. QED BY <1>1, <1>5, <1>17, QuietKeeps

(* A run at work stays sound when only its runner, its harness and its     *)
(* place change: what it has then to show.                                 *)
LEMMA WorkGoesOn ==
  ASSUME NEW tr, NEW w, WorkSound(w, tr), NEW n, WorkFields(n), n.at \in WorkAts,
         n.opened = w.opened, n.prior = w.prior, n.index = w.index,
         n.stage = w.stage, w.at # "verdict",
         RunnerTyped(n.runner),
         n.at = "asking" =>
           /\ n.runner.phase \in {"asking", "wire", "done"}
           /\ n.runner.phase # "done" => n.runner.failure = "none",
         n.at = "asking" /\ n.runner.phase = "done" => n.runner.failure # "none",
         Labelled(n, tr)
  PROVE  RunSound(n, tr) /\ n.at \notin StoreAts
<1>1. n.stage = "page" => Permitted(n, tr) BY DEF WorkSound, Permitted
<1>2. Concluded(n, tr) BY DEF Concluded
<1>3. WorkSound(n, tr) BY <1>1, <1>2 DEF WorkSound
<1>4. QED BY <1>3 DEF RunSound, WorkAts, StoreAts

LEMMA AtWork ==
  ASSUME AskInv, NEW p \in Commands, run[p].at \in WorkAts
  PROVE  WorkSound(run[p], trail)
BY DEF AskInv, RunsSound, RunSound

StepTo(w, at, stage, index, runner, harness, code) ==
    [at |-> at, stage |-> stage, opened |-> w.opened, prior |-> w.prior,
     index |-> index, runner |-> runner, harness |-> harness, code |-> code,
     since |-> w.since]

LEMMA StepToFields ==
  ASSUME NEW w, NEW at, NEW stage, NEW index, NEW runner, NEW harness, NEW code, NEW n,
         n = StepTo(w, at, stage, index, runner, harness, code)
  PROVE  /\ WorkFields(n) /\ n.at = at /\ n.stage = stage /\ n.opened = w.opened
         /\ n.prior = w.prior /\ n.index = index /\ n.runner = runner
         /\ n.harness = harness /\ n.code = code /\ n.since = w.since
BY DEF StepTo, WorkFields

LEMMA AskKeeps ==
  ASSUME AskInv, NEW p \in Commands, Ask(p)
  PROVE  AskInv'
<1>1. UNCHANGED <<lane, now, trail, robots>> BY DEF Ask, ledger
<1>2. PICK w, r : w = run[p] /\ r = run[p].runner OBVIOUS
<1>3. PICK a : a = IF AskFailure(r) = "none" THEN Sent(r) ELSE Failed(r, AskFailure(r))
  OBVIOUS
<1>4. PICK n : n = [w EXCEPT !.runner = a] OBVIOUS
<1>5. /\ Keep(p, n) /\ w.at = "asking" /\ r.phase = "asking"
  BY <1>2, <1>3, <1>4 DEF Ask, At
<1>6. WorkSound(w, trail) BY <1>2, <1>5, AtWork DEF WorkAts
<1>7. WorkFields(w) /\ RunnerTyped(r) /\ r.failure = "none"
  BY <1>2, <1>5, <1>6 DEF WorkSound
<1>8. /\ WorkFields(n) /\ n.runner = a /\ n.at = w.at /\ n.stage = w.stage
      /\ n.opened = w.opened /\ n.prior = w.prior /\ n.index = w.index
  <2>1. w = [at |-> w.at, stage |-> w.stage, opened |-> w.opened, prior |-> w.prior,
           index |-> w.index, runner |-> w.runner, harness |-> w.harness,
           code |-> w.code, since |-> w.since]
    BY <1>7 DEF WorkFields
  <2>2. n = StepTo(w, w.at, w.stage, w.index, a, w.harness, w.code)
    BY <1>4, <2>1 DEF StepTo
  <2>3. QED BY <2>2, StepToFields
<1>9. /\ RunnerTyped(a) /\ a.phase \in {"wire", "done"}
      /\ a.phase = "wire" => a.failure = "none"
      /\ a.phase = "done" => a.failure # "none"
      /\ a.phase = "done" /\ r.count < MaxRequests => a.failure = "elapsed_time_exhausted"
  BY <1>3, <1>5, <1>7, AskedTells
<1>10. Labelled(n, trail)
  <2>1. SUFFICES ASSUME n.index > n.prior PROVE
          a.phase = "done" => Kept(trail[w.index].label, a.failure)
    BY <1>5, <1>8, <1>9 DEF Labelled
  <2>2. GoesOn(trail[w.index].label, r.count)
    BY <1>2, <1>5, <1>6, <1>8, <2>1 DEF WorkSound, Labelled
  <2>3. QED BY <1>9, <2>2 DEF GoesOn, Kept
<1>11. n.at \in WorkAts /\ n.at = "asking" BY <1>5, <1>8 DEF WorkAts
<1>12. RunSound(n, trail) /\ n.at \notin StoreAts
  BY <1>5, <1>6, <1>8, <1>9, <1>10, <1>11, WorkGoesOn
<1>13. QED BY <1>1, <1>5, <1>12, QuietKeeps

LEMMA AnswersTyped ==
  ASSUME lane \in {"article", "posts"}, NEW stage \in {"robots", "page"}, NEW h,
         NEW answer \in Answers(stage, h)
  PROVE  /\ answer.kind \in {"final", "redirect", "network_error", "http_429", "http_5xx"}
         /\ What(answer) \in Whats
         /\ answer.kind = "final" =>
              What(answer) = answer.what /\ (stage = "robots" => answer.what \in RobotsAnswers)
<1>1. CASE answer \in Finals(stage, h)
  <2>1. CASE stage = "robots"
    <3>1. Finals(stage, h) = {Final(w) : w \in RobotsAnswers} BY <2>1 DEF Finals
    <3>2. PICK v \in RobotsAnswers : answer = Final(v) BY <1>1, <3>1
    <3>3. answer.kind = "final" /\ answer.what = v BY <3>2 DEF Final
    <3>4. QED BY <3>3 DEF What, Whats
  <2>2. CASE stage = "page" /\ lane = "article"
    <3>1. Finals(stage, h) = {Final(e) : e \in Editions \cup {"refused"}}
      BY <2>2 DEF Finals
    <3>2. PICK v \in Editions \cup {"refused"} : answer = Final(v) BY <1>1, <3>1
    <3>3. answer.kind = "final" /\ answer.what = v BY <3>2 DEF Final
    <3>4. QED BY <2>2, <3>3 DEF What, Whats
  <2>3. CASE stage = "page" /\ lane = "posts"
    <3>1. Finals(stage, h) = {[kind |-> "final", what |-> "page", page |-> PostsAnswer(h)],
                              Final("oversized")}
      BY <2>3 DEF Finals
    <3>2. answer.kind = "final" /\ answer.what \in {"page", "oversized"}
      BY <1>1, <3>1 DEF Final
    <3>3. QED BY <2>3, <3>2 DEF What, Whats
  <2>4. QED BY <2>1, <2>2, <2>3
<1>2. CASE answer \in {[kind |-> k, after |-> a] : k \in Troubles, a \in RetryAfters}
  <2>1. answer.kind \in Troubles BY <1>2
  <2>2. Troubles \subseteq {"network_error", "http_429", "http_5xx"} BY InventoryAssumption
  <2>3. answer.kind \in {"network_error", "http_429", "http_5xx"} BY <2>1, <2>2
  <2>4. QED BY <2>1, <2>3 DEF What, Whats
<1>3. CASE answer \in {[kind |-> "redirect", allowed |-> b] : b \in BOOLEAN}
  <2>1. answer.kind = "redirect" BY <1>3
  <2>2. QED BY <2>1 DEF What, Whats
<1>4. QED BY <1>1, <1>2, <1>3 DEF Answers

LEMMA AnsweredTyped ==
  ASSUME NEW r, RunnerTyped(r), NEW answer, NEW took, NEW n, n = Answered(r, answer, took)
  PROVE  /\ RunnerTyped(n) /\ n.phase = r.phase /\ n.failure = r.failure
         /\ n.answer = answer /\ n.url = r.url
<1>1. n = [r EXCEPT !.count = @ + 1, !.elapsed = @ + took, !.answer = answer]
  BY DEF Answered
<1>2. r = [phase |-> r.phase, count |-> r.count, elapsed |-> r.elapsed,
           last |-> r.last, url |-> r.url, attempts |-> r.attempts,
           backoff |-> r.backoff, redirects |-> r.redirects,
           failure |-> r.failure, answer |-> r.answer]
  BY DEF RunnerTyped, RunnerFields
<1>3. n = [phase |-> r.phase, count |-> r.count + 1, elapsed |-> r.elapsed + took,
           last |-> r.last, url |-> r.url, attempts |-> r.attempts,
           backoff |-> r.backoff, redirects |-> r.redirects,
           failure |-> r.failure, answer |-> answer]
  BY <1>1, <1>2
<1>4. r.count + 1 \in Nat /\ r.url \in Urls BY DEF RunnerTyped
<1>5. QED BY <1>3, <1>4 DEF RunnerTyped, RunnerFields

(* The evidence a run adds, or finds there under its own index.            *)
LEMMA EvidenceAdded ==
  ASSUME EvidenceSound, NEW index \in Nat \ {0}, NEW entry \in Evidence,
         Recordable(index, entry),
         trail' = IF index > Len(trail) THEN Append(trail, entry) ELSE trail
  PROVE  Grown /\ index <= Len(trail') /\ trail'[index] = entry
<1>1. trail \in Seq(Evidence) /\ Len(trail) \in Nat BY DEF EvidenceSound
<1>2. CASE index <= Len(trail)
  <2>1. trail' = trail BY <1>1, <1>2
  <2>2. trail[index] = entry BY <1>2 DEF Recordable
  <2>3. QED BY <1>1, <1>2, <2>1, <2>2 DEF Grown
<1>3. CASE ~(index <= Len(trail))
  <2>1. index = Len(trail) + 1 BY <1>3 DEF Recordable
  <2>2. trail' = Append(trail, entry) BY <1>1, <1>3
  <2>3. /\ trail' \in Seq(Evidence) /\ Len(trail') = Len(trail) + 1
        /\ trail'[Len(trail) + 1] = entry
        /\ \A i \in 1..Len(trail) : trail'[i] = trail[i]
    BY <1>1, <2>2
  <2>4. QED BY <1>1, <2>1, <2>3 DEF Grown
<1>4. QED BY <1>2, <1>3

LEMMA AnswerKeeps ==
  ASSUME AskInv, NEW p \in Commands, Answer(p)
  PROVE  AskInv'
<1>1. UNCHANGED <<lane, now, robots>> BY DEF Answer
<1>2. PICK w, asked : w = run[p] /\ asked = run[p].runner OBVIOUS
<1>3. w.at = "asking" /\ asked.phase = "wire" BY <1>2 DEF Answer, At
<1>4. PICK answer \in Answers(w.stage, w.harness), latency \in Latencies :
        LET r == Answered(asked, answer, Smaller(latency, Remaining(asked)))
            index == w.index + 1
        IN  IF Recordable(index, Entry(r))
            THEN /\ trail' = IF index > Len(trail) THEN Append(trail, Entry(r)) ELSE trail
                 /\ Keep(p, [w EXCEPT !.index = index, !.runner = Resolved(r)])
            ELSE Leave(p) /\ UNCHANGED trail
  BY <1>2 DEF Answer
<1>5. PICK r : r = Answered(asked, answer, Smaller(latency, Remaining(asked))) OBVIOUS
<1>6. PICK index : index = w.index + 1 OBVIOUS
<1>7. CASE ~Recordable(index, Entry(r))
  <2>1. Leave(p) /\ UNCHANGED trail BY <1>4, <1>5, <1>6, <1>7
  <2>2. QED BY <1>1, <2>1, LeaveKeeps
<1>8. CASE Recordable(index, Entry(r))
  <2>1. PICK a : a = Resolved(r) OBVIOUS
  <2>2. PICK n : n = [w EXCEPT !.index = index, !.runner = a] OBVIOUS
  <2>3. /\ trail' = IF index > Len(trail) THEN Append(trail, Entry(r)) ELSE trail
        /\ Keep(p, n)
    BY <1>4, <1>5, <1>6, <1>8, <2>1, <2>2
  <2>4. WorkSound(w, trail) BY <1>2, <1>3, AtWork DEF WorkAts
  <2>5. /\ WorkFields(w) /\ RunnerTyped(asked) /\ asked.failure = "none"
        /\ w.stage \in {"robots", "page"} /\ w.prior \in Nat /\ w.index \in Nat
        /\ w.prior <= w.index /\ w.index <= Len(trail)
    BY <1>2, <1>3, <2>4 DEF WorkSound
  <2>6. lane \in {"article", "posts"} /\ now \in Nat BY DEF AskInv, EvidenceSound
  <2>7. /\ answer.kind \in {"final", "redirect", "network_error", "http_429", "http_5xx"}
        /\ What(answer) \in Whats
        /\ answer.kind = "final" =>
             What(answer) = answer.what /\ (w.stage = "robots" => answer.what \in RobotsAnswers)
    BY <2>5, <2>6, AnswersTyped
  <2>8. /\ RunnerTyped(r) /\ r.phase = "wire" /\ r.failure = "none"
        /\ r.answer = answer /\ r.url \in Urls
    BY <1>3, <1>5, <2>5, AnsweredTyped DEF RunnerTyped
  <2>9. /\ RunnerTyped(a) /\ a.phase \in {"asking", "done"} /\ a.answer = answer
        /\ Label(r) \in Labels
        /\ a.phase = "asking" => GoesOn(Label(r), a.count) /\ a.failure = "none"
        /\ a.phase = "done" => Kept(Label(r), a.failure)
        /\ a.phase = "done" /\ a.failure = "none" => answer.kind = "final"
    BY <2>1, <2>7, <2>8, ResolvedTells
  <2>10. Entry(r) = [url |-> r.url, what |-> What(answer), label |-> Label(r), at |-> now]
    BY <2>8 DEF Entry
  <2>11. /\ Entry(r) \in Evidence /\ Entry(r).what = What(answer)
         /\ Entry(r).label = Label(r)
    BY <2>6, <2>7, <2>8, <2>9, <2>10 DEF Evidence
  <2>12. index \in Nat \ {0} /\ index > w.prior /\ w.index < index BY <1>6, <2>5
  <2>13. Grown /\ index <= Len(trail') /\ trail'[index] = Entry(r)
    BY <1>8, <2>3, <2>11, <2>12, EvidenceAdded DEF AskInv
  <2>14. /\ WorkFields(n) /\ n.runner = a /\ n.at = "asking" /\ n.stage = w.stage
         /\ n.opened = w.opened /\ n.prior = w.prior /\ n.index = index
    <3>1. WorkFields(w) BY <2>5
    <3>2. /\ WorkFields(n) /\ n.runner = a /\ n.at = w.at /\ n.stage = w.stage
          /\ n.opened = w.opened /\ n.prior = w.prior /\ n.index = index
      <4>1. w = [at |-> w.at, stage |-> w.stage, opened |-> w.opened, prior |-> w.prior,
           index |-> w.index, runner |-> w.runner, harness |-> w.harness,
           code |-> w.code, since |-> w.since]
        BY <3>1 DEF WorkFields
      <4>2. n = StepTo(w, w.at, w.stage, index, a, w.harness, w.code)
        BY <2>2, <4>1 DEF StepTo
      <4>3. QED BY <4>2, StepToFields
    <3>3. QED BY <1>3, <3>2
  <2>15. n.stage = "page" => Permitted(n, trail')
    <3>1. SUFFICES ASSUME w.stage = "page" PROVE Permitted(n, trail') BY <2>14
    <3>2. PICK i \in 1..w.index : /\ trail[i].what \in {"allowed", "not_found"}
                                  /\ i > w.prior \/ w.opened - trail[i].at <= TTL
      BY <1>3, <2>4, <3>1 DEF WorkSound, Permitted
    <3>3. i \in 1..Len(trail) /\ i \in 1..index
      BY <2>5, <2>12, <3>2, <1>1 DEF AskInv, EvidenceSound
    <3>4. trail'[i] = trail[i] BY <2>13, <3>3 DEF Grown
    <3>5. QED BY <2>14, <3>2, <3>3, <3>4 DEF Permitted
  <2>16. Concluded(n, trail')
    BY <2>7, <2>9, <2>11, <2>12, <2>13, <2>14 DEF Concluded
  <2>17. Labelled(n, trail')
    BY <2>9, <2>11, <2>13, <2>14 DEF Labelled
  <2>18. WorkSound(n, trail')
    BY <2>5, <2>9, <2>12, <2>13, <2>14, <2>15, <2>16, <2>17 DEF WorkSound
  <2>19. RunSound(n, trail') /\ n.at \notin StoreAts
    BY <2>14, <2>18 DEF RunSound, WorkAts, StoreAts
  <2>20. RunsSound' BY <1>1, <2>3, <2>13, <2>19, ProcessMoves DEF AskInv
  <2>21. EvidenceSound'
    <3>1. trail' \in Seq(Evidence) /\ Len(trail) <= Len(trail') /\ Len(trail') \in Nat
      BY <2>13 DEF Grown
    <3>2. \A o \in robots : o.index \in 1..Len(trail') BY <3>1 DEF AskInv, EvidenceSound
    <3>3. QED BY <1>1, <2>6, <3>1, <3>2 DEF EvidenceSound
  <2>22. QED BY <2>20, <2>21 DEF AskInv
<1>9. QED BY <1>7, <1>8
-----------------------------------------------------------------------------
(* What a run does with an answer.                                         *)

(* A run that goes to its verdict has nothing left to show.                *)
LEMMA VerdictIsSound ==
  ASSUME NEW tr, NEW w, WorkSound(w, tr), NEW n, NEW harness, NEW code,
         n = StepTo(w, "verdict", w.stage, w.index, w.runner, harness, code)
  PROVE  RunSound(n, tr) /\ n.at \notin StoreAts
<1>1. /\ WorkFields(n) /\ n.at = "verdict" /\ n.stage = w.stage /\ n.opened = w.opened
      /\ n.prior = w.prior /\ n.index = w.index /\ n.runner = w.runner
  BY StepToFields
<1>2. Concluded(n, tr) /\ Labelled(n, tr) BY <1>1 DEF Concluded, Labelled
<1>3. WorkSound(n, tr) BY <1>1, <1>2 DEF WorkSound
<1>4. QED BY <1>1, <1>3 DEF RunSound, WorkAts, StoreAts

LEMMA StopKeeps ==
  ASSUME AskInv, UNCHANGED <<lane, now, trail, robots>>, NEW p \in Commands, NEW code,
         run[p].at \in WorkAts, Keep(p, Stopping(p, code))
  PROVE  AskInv'
<1>1. CASE lane = "article" BY <1>1, StopIsAside, AsideKeeps
<1>2. CASE lane # "article"
  <2>1. WorkSound(run[p], trail) BY AtWork
  <2>2. WorkFields(run[p]) BY <2>1 DEF WorkSound
  <2>3. PICK w, n : w = run[p] /\ n = Stopping(p, code) OBVIOUS
  <2>4. n = [w EXCEPT !.at = "verdict", !.code = code] BY <1>2, <2>3 DEF Stopping
  <2>5. w = [at |-> w.at, stage |-> w.stage, opened |-> w.opened, prior |-> w.prior,
           index |-> w.index, runner |-> w.runner, harness |-> w.harness,
           code |-> w.code, since |-> w.since]
    BY <2>2, <2>3 DEF WorkFields
  <2>6. n = StepTo(w, "verdict", w.stage, w.index, w.runner, w.harness, code)
    BY <2>4, <2>5 DEF StepTo
  <2>7. RunSound(n, trail) /\ n.at \notin StoreAts BY <2>1, <2>3, <2>6, VerdictIsSound
  <2>8. Keep(p, n) BY <2>3
  <2>9. QED BY <2>7, <2>8, QuietKeeps
<1>3. QED BY <1>1, <1>2

LEMMA NextPageKeeps ==
  ASSUME AskInv, NEW p \in Commands, NextPage(p)
  PROVE  AskInv'
<1>1. UNCHANGED <<lane, now, trail, robots>> BY DEF NextPage, ledger
<1>2. PICK w : w = run[p] OBVIOUS
<1>3. w.at = "paging" BY <1>2 DEF NextPage, At
<1>4. WorkSound(w, trail) BY <1>2, <1>3, AtWork DEF WorkAts
<1>5. RunnerTyped(w.runner) BY <1>4 DEF WorkSound
<1>6. w = [at |-> w.at, stage |-> w.stage, opened |-> w.opened, prior |-> w.prior,
           index |-> w.index, runner |-> w.runner, harness |-> w.harness,
           code |-> w.code, since |-> w.since]
  BY <1>4 DEF WorkSound, WorkFields
<1>7. \/ Keep(p, [w EXCEPT !.at = "verdict"])
      \/ \E h : Keep(p, [w EXCEPT !.at = "verdict", !.harness = h])
      \/ \E h : Keep(p, [w EXCEPT !.at = "asking", !.harness = h,
                                  !.runner = Got(w.runner, "page")])
  BY <1>2 DEF NextPage
<1>8. CASE Keep(p, [w EXCEPT !.at = "verdict"])
  <2>1. PICK n : n = [w EXCEPT !.at = "verdict"] OBVIOUS
  <2>2. n = StepTo(w, "verdict", w.stage, w.index, w.runner, w.harness, w.code)
    BY <1>6, <2>1 DEF StepTo
  <2>3. RunSound(n, trail) /\ n.at \notin StoreAts BY <1>4, <2>2, VerdictIsSound
  <2>4. QED BY <1>1, <1>8, <2>1, <2>3, QuietKeeps
<1>9. ASSUME NEW h, Keep(p, [w EXCEPT !.at = "verdict", !.harness = h]) PROVE AskInv'
  <2>1. PICK n : n = [w EXCEPT !.at = "verdict", !.harness = h] OBVIOUS
  <2>2. n = StepTo(w, "verdict", w.stage, w.index, w.runner, h, w.code)
    BY <1>6, <2>1 DEF StepTo
  <2>3. RunSound(n, trail) /\ n.at \notin StoreAts BY <1>4, <2>2, VerdictIsSound
  <2>4. QED BY <1>1, <1>9, <2>1, <2>3, QuietKeeps
<1>10. ASSUME NEW h,
             Keep(p, [w EXCEPT !.at = "asking", !.harness = h,
                               !.runner = Got(w.runner, "page")])
      PROVE  AskInv'
  <2>1. PICK r : r = Got(w.runner, "page") OBVIOUS
  <2>2. RunnerTyped(r) /\ r.phase = "asking" /\ r.failure = "none"
    BY <1>5, <2>1, GotTyped DEF Urls
  <2>3. PICK n : n = [w EXCEPT !.at = "asking", !.harness = h, !.runner = r] OBVIOUS
  <2>4. n = StepTo(w, "asking", w.stage, w.index, r, h, w.code) BY <1>6, <2>3 DEF StepTo
  <2>5. /\ WorkFields(n) /\ n.at = "asking" /\ n.stage = w.stage /\ n.opened = w.opened
        /\ n.prior = w.prior /\ n.index = w.index /\ n.runner = r
    BY <2>4, StepToFields
  <2>6. w.index > w.prior => trail[w.index].label = "not_retried"
    BY <1>3, <1>4 DEF WorkSound, Labelled
  <2>7. Labelled(n, trail) BY <2>2, <2>5, <2>6 DEF Labelled, GoesOn
  <2>8. n.at \in WorkAts BY <2>5 DEF WorkAts
  <2>9. RunSound(n, trail) /\ n.at \notin StoreAts
    BY <1>3, <1>4, <2>2, <2>5, <2>7, <2>8, WorkGoesOn
  <2>10. QED BY <1>1, <1>10, <2>1, <2>3, <2>9, QuietKeeps
<1>11. QED BY <1>7, <1>8, <1>9, <1>10

LEMMA JudgePostsKeeps ==
  ASSUME AskInv, NEW p \in Commands, JudgePosts(p)
  PROVE  AskInv'
<1>1. UNCHANGED <<lane, now, trail, robots>> BY DEF JudgePosts, ledger
<1>2. PICK w : w = run[p] OBVIOUS
<1>3. w.at = "asking" /\ w.runner.phase = "done" BY <1>2 DEF JudgePosts, Done, At
<1>4. WorkSound(w, trail) BY <1>2, <1>3, AtWork DEF WorkAts
<1>5. RunnerTyped(w.runner) BY <1>4 DEF WorkSound
<1>6. w = [at |-> w.at, stage |-> w.stage, opened |-> w.opened, prior |-> w.prior,
           index |-> w.index, runner |-> w.runner, harness |-> w.harness,
           code |-> w.code, since |-> w.since]
  BY <1>4 DEF WorkSound, WorkFields
<1>7. \/ \E code : Keep(p, Stopping(p, code))
      \/ /\ w.runner.failure = "none"
         /\ \E h : Keep(p, [w EXCEPT !.at = "paging", !.harness = h])
  BY <1>2 DEF JudgePosts
<1>8. ASSUME NEW code, Keep(p, Stopping(p, code)) PROVE AskInv'
  BY <1>1, <1>2, <1>3, <1>8, StopKeeps DEF WorkAts
<1>9. ASSUME w.runner.failure = "none", NEW h,
             Keep(p, [w EXCEPT !.at = "paging", !.harness = h])
      PROVE  AskInv'
  <2>1. PICK n : n = [w EXCEPT !.at = "paging", !.harness = h] OBVIOUS
  <2>2. n = StepTo(w, "paging", w.stage, w.index, w.runner, h, w.code) BY <1>6, <2>1 DEF StepTo
  <2>3. /\ WorkFields(n) /\ n.at = "paging" /\ n.stage = w.stage /\ n.opened = w.opened
        /\ n.prior = w.prior /\ n.index = w.index /\ n.runner = w.runner
    BY <2>2, StepToFields
  <2>4. w.index > w.prior => trail[w.index].label = "not_retried"
    BY <1>3, <1>4, <1>9 DEF WorkSound, Labelled, Kept
  <2>5. Labelled(n, trail) BY <2>3, <2>4 DEF Labelled
  <2>6. n.at \in WorkAts BY <2>3 DEF WorkAts
  <2>7. RunSound(n, trail) /\ n.at \notin StoreAts
    BY <1>3, <1>4, <1>5, <2>3, <2>5, <2>6, WorkGoesOn
  <2>8. QED BY <1>1, <1>9, <2>1, <2>7, QuietKeeps
<1>10. QED BY <1>7, <1>8, <1>9
(* An allowing answer is the evidence the page requests rest on.           *)
LEMMA GoesOnToPage ==
  ASSUME AskInv, UNCHANGED <<lane, now, trail>>, NEW p \in Commands,
         run[p].at = "asking", run[p].stage = "robots", run[p].runner.phase = "done",
         run[p].runner.failure = "none",
         run[p].runner.answer.what \notin {"refused", "denied"},
         NEW at, NEW r,
         \/ at = "asking" /\ r = Got(run[p].runner, "page")
         \/ at = "paging" /\ r = run[p].runner,
         NEW n, n = StepTo(run[p], at, "page", run[p].index, r, run[p].harness, run[p].code)
  PROVE  RunSound(n, trail) /\ n.at \notin StoreAts
<1>1. PICK w : w = run[p] OBVIOUS
<1>2. WorkSound(w, trail) BY <1>1, AtWork DEF WorkAts
<1>3. /\ w.index > w.prior /\ w.prior \in Nat /\ w.index \in Nat
      /\ trail[w.index].what = w.runner.answer.what
      /\ w.runner.answer.what \in RobotsAnswers
      /\ trail[w.index].label = "not_retried" /\ RunnerTyped(w.runner)
  BY <1>1, <1>2 DEF WorkSound, Concluded, Labelled, Kept
<1>4. trail[w.index].what \in {"allowed", "not_found"}
  BY <1>1, <1>3, InventoryAssumption
<1>5. /\ WorkFields(n) /\ n.at = at /\ n.stage = "page" /\ n.opened = w.opened
      /\ n.prior = w.prior /\ n.index = w.index /\ n.runner = r
  BY <1>1, StepToFields
<1>6. Permitted(n, trail)
  <2>1. n.index \in 1..n.index /\ n.index > n.prior BY <1>3, <1>5
  <2>2. QED BY <1>4, <1>5, <2>1 DEF Permitted
<1>7. /\ RunnerTyped(r) /\ at \in {"asking", "paging"}
      /\ at = "asking" => r.phase = "asking" /\ r.failure = "none"
  BY <1>1, <1>3, GotTyped DEF Urls
<1>8. Concluded(n, trail) BY <1>5, <1>7 DEF Concluded
<1>9. Labelled(n, trail) BY <1>3, <1>5, <1>7 DEF Labelled, GoesOn
<1>10. WorkSound(n, trail)
  BY <1>2, <1>5, <1>6, <1>7, <1>8, <1>9 DEF WorkSound
<1>11. QED BY <1>5, <1>7, <1>10 DEF RunSound, WorkAts, StoreAts

LEMMA JudgeRobotsKeeps ==
  ASSUME AskInv, NEW p \in Commands, JudgeRobots(p)
  PROVE  AskInv'
<1>1. UNCHANGED <<lane, now, trail>> BY DEF JudgeRobots
<1>2. PICK w : w = run[p] OBVIOUS
<1>3. w.at = "asking" /\ w.stage = "robots" /\ w.runner.phase = "done"
  BY <1>2 DEF JudgeRobots, Done, At
<1>4. WorkSound(w, trail) BY <1>2, <1>3, AtWork DEF WorkAts
<1>5. w = [at |-> w.at, stage |-> w.stage, opened |-> w.opened, prior |-> w.prior,
           index |-> w.index, runner |-> w.runner, harness |-> w.harness,
           code |-> w.code, since |-> w.since]
  BY <1>4 DEF WorkSound, WorkFields
<1>6. EvidenceSound'
  <2>1. robots' = robots \cup (IF Observes(p) THEN {Observation(p)} ELSE {})
    BY DEF JudgeRobots
  <2>2. Observes(p) => Observation(p).index \in 1..Len(trail)
    <3>1. SUFFICES ASSUME Observes(p) PROVE w.index \in 1..Len(trail)
      BY <1>2 DEF Observation
    <3>2. w.index > w.prior /\ w.prior \in Nat /\ w.index \in Nat /\ w.index <= Len(trail)
      BY <1>2, <1>3, <1>4, <3>1 DEF WorkSound, Concluded, Observes
    <3>3. Len(trail) \in Nat BY DEF AskInv, EvidenceSound
    <3>4. QED BY <3>2, <3>3
  <2>3. \A o \in robots' : o.index \in 1..Len(trail)
    BY <2>1, <2>2 DEF AskInv, EvidenceSound
  <2>4. QED BY <1>1, <2>3 DEF AskInv, EvidenceSound
<1>7. PICK n : n = AfterRobots(p) OBVIOUS
<1>8. Keep(p, n) BY <1>7 DEF JudgeRobots
<1>9. Grown BY <1>1, EvidenceStays DEF AskInv
<1>10. SUFFICES RunSound(n, trail) /\ (n.at \in StoreAts => lane = "article")
  BY <1>1, <1>6, <1>8, <1>9, ProcessMoves DEF AskInv
<1>11. ASSUME NEW code, n = Stopping(p, code)
       PROVE  RunSound(n, trail) /\ (n.at \in StoreAts => lane = "article")
  <2>1. CASE lane = "article" BY <1>11, <2>1, StopIsAside, AsideIsSound
  <2>2. CASE lane # "article"
    <3>1. n = [w EXCEPT !.at = "verdict", !.code = code]
      BY <1>2, <1>11, <2>2 DEF Stopping
    <3>2. n = StepTo(w, "verdict", w.stage, w.index, w.runner, w.harness, code)
      BY <1>5, <3>1 DEF StepTo
    <3>3. QED BY <1>4, <3>2, VerdictIsSound
  <2>3. QED BY <2>1, <2>2
<1>12. CASE \/ w.runner.failure # "none"
            \/ w.runner.answer.what \in {"refused", "denied"}
  <2>1. \E code : n = Stopping(p, code) BY <1>2, <1>7, <1>12 DEF AfterRobots
  <2>2. QED BY <1>11, <2>1
<1>13. CASE w.runner.failure = "none" /\ w.runner.answer.what \notin {"refused", "denied"}
  <2>1. PICK at : at = IF lane = "article" THEN "asking" ELSE "paging" OBVIOUS
  <2>2. PICK r : r = IF lane = "article" THEN Got(w.runner, "page") ELSE w.runner OBVIOUS
  <2>3. n = [w EXCEPT !.stage = "page", !.at = at, !.runner = r]
    BY <1>2, <1>7, <1>13, <2>1, <2>2 DEF AfterRobots
  <2>4. n = StepTo(w, at, "page", w.index, r, w.harness, w.code)
    BY <1>5, <2>3 DEF StepTo
  <2>5. \/ at = "asking" /\ r = Got(w.runner, "page")
        \/ at = "paging" /\ r = w.runner
    BY <2>1, <2>2
  <2>6. QED BY <1>1, <1>2, <1>3, <1>13, <2>4, <2>5, GoesOnToPage
<1>14. QED BY <1>12, <1>13

-----------------------------------------------------------------------------
(* The invariant of every reachable state, and what it says.               *)
LEMMA AskInit == InventoryInit => AskInv
<1>1. SUFFICES ASSUME InventoryInit PROVE AskInv OBVIOUS
<1>2. lane \in {"article", "posts"} BY <1>1, InventoryAssumption DEF InventoryInit
<1>3. EvidenceSound
  <2>1. trail = << >> /\ robots = {} /\ now = 0 BY <1>1 DEF InventoryInit
  <2>2. trail \in Seq(Evidence) BY <2>1
  <2>3. QED BY <1>2, <2>1, <2>2 DEF EvidenceSound
<1>4. run = [p \in Commands |-> [at |-> "waiting"]] BY <1>1 DEF InventoryInit
<1>5. \A p \in Commands : Aside(run[p]) /\ run[p].at \notin StoreAts
  BY <1>4 DEF Aside, StoreAts
<1>6. \A p \in Commands : RunSound(run[p], trail) BY <1>5, AsideIsSound
<1>7. RunsSound BY <1>4, <1>5, <1>6 DEF RunsSound
<1>8. QED BY <1>3, <1>7 DEF AskInv

LEMMA AskNext == AskInv /\ [InventoryNext]_inventoryVars => AskInv'
<1>1. SUFFICES ASSUME AskInv, [InventoryNext]_inventoryVars PROVE AskInv' OBVIOUS
<1>2. CASE UNCHANGED inventoryVars
  <2>1. UNCHANGED <<lane, now, trail, robots, run>> BY <1>2 DEF inventoryVars, ledger
  <2>2. now' \in Nat BY <1>1, <2>1 DEF AskInv, EvidenceSound
  <2>3. QED BY <1>1, <2>1, <2>2, StillKeeps
<1>3. CASE Tick
  <2>1. UNCHANGED <<lane, trail, robots, run>> /\ now' = now + 1 BY <1>3 DEF Tick, ledger
  <2>2. now' \in Nat BY <1>1, <2>1 DEF AskInv, EvidenceSound
  <2>3. QED BY <1>1, <2>1, <2>2, StillKeeps
<1>4. CASE ChangeCatalogue
  <2>1. UNCHANGED <<lane, now, trail, robots, run>> BY <1>4 DEF ChangeCatalogue, ledger
  <2>2. now' \in Nat BY <1>1, <2>1 DEF AskInv, EvidenceSound
  <2>3. QED BY <1>1, <2>1, <2>2, StillKeeps
<1>5. ASSUME NEW p \in Commands,
             \/ Replay(p) \/ Open(p) \/ Load(p) \/ Ask(p) \/ Answer(p) \/ JudgeRobots(p)
             \/ JudgeArticle(p) \/ StoreAsset(p) \/ Verify(p) \/ BlockAsset(p)
             \/ BlockState(p) \/ BlockEvidence(p) \/ StoreJob(p) \/ StoreBounds(p)
             \/ WriteArticle(p) \/ NextPage(p) \/ JudgePosts(p) \/ RecordVerdict(p)
             \/ WritePosts(p) \/ Crash(p)
      PROVE  AskInv'
  <2>1. CASE \/ StoreAsset(p) \/ Verify(p) \/ BlockAsset(p) \/ BlockState(p)
             \/ BlockEvidence(p) \/ StoreJob(p) \/ StoreBounds(p)
    BY <1>1, <2>1, RecordMoves, AsideKeeps
  <2>2. CASE \/ Replay(p) \/ Open(p) \/ WriteArticle(p) \/ RecordVerdict(p)
             \/ WritePosts(p) \/ Crash(p)
    BY <1>1, <2>2, EdgeMoves, AsideKeeps
  <2>3. CASE Load(p) BY <1>1, <2>3, LoadKeeps
  <2>4. CASE Ask(p) BY <1>1, <2>4, AskKeeps
  <2>5. CASE Answer(p) BY <1>1, <2>5, AnswerKeeps
  <2>6. CASE JudgeRobots(p) BY <1>1, <2>6, JudgeRobotsKeeps
  <2>7. CASE JudgeArticle(p) BY <1>1, <2>7, ArticleMoves, AsideKeeps
  <2>8. CASE NextPage(p) BY <1>1, <2>8, NextPageKeeps
  <2>9. CASE JudgePosts(p) BY <1>1, <2>9, JudgePostsKeeps
  <2>10. QED
    BY <1>5, <2>1, <2>2, <2>3, <2>4, <2>5, <2>6, <2>7, <2>8, <2>9
<1>6. CASE Rest BY <1>2, <1>6 DEF Rest
<1>7. QED BY <1>1, <1>2, <1>3, <1>4, <1>5, <1>6 DEF InventoryNext

LEMMA AskInvHolds == InventorySpec => []AskInv
<1>1. InventoryInit => AskInv BY AskInit
<1>2. AskInv /\ [InventoryNext]_inventoryVars => AskInv' BY AskNext
<1>3. QED BY <1>1, <1>2, PTL DEF InventorySpec

(* No page is asked for without an allowing robots.txt that this run read, *)
(* or that was still fresh when it started.                                *)
THEOREM PagesUnderRobots == InventorySpec => []PageUnderRobots
<1>1. AskInv => PageUnderRobots
  <2>1. SUFFICES ASSUME AskInv, NEW p \in Commands, At(p, "asking"), run[p].stage = "page"
                 PROVE \E i \in 1..run[p].index :
                         /\ trail[i].what \in {"allowed", "not_found"}
                         /\ \/ i > run[p].prior
                            \/ run[p].opened - trail[i].at <= TTL
    BY DEF PageUnderRobots
  <2>2. run[p].at = "asking" BY <2>1 DEF At
  <2>3. WorkSound(run[p], trail) BY <2>1, <2>2, AtWork DEF WorkAts
  <2>4. Permitted(run[p], trail) BY <2>1, <2>2, <2>3 DEF WorkSound
  <2>5. QED BY <2>4 DEF Permitted
<1>2. QED BY <1>1, AskInvHolds, PTL

(* A request's label says truly whether the run went on after it.          *)
THEOREM LabelsHold == InventorySpec => []LabelsTell
<1>1. AskInv => LabelsTell
  <2>1. SUFFICES ASSUME AskInv, NEW p \in Commands, At(p, "asking"),
                        run[p].runner.phase = "done", run[p].index > run[p].prior
                 PROVE CASE trail[run[p].index].label = "retry_scheduled" ->
                              run[p].runner.failure = "elapsed_time_exhausted"
                         [] trail[run[p].index].label = "retry_exhausted" ->
                              run[p].runner.failure \in
                                {"request_failed", "rate_limit_exhausted", "retry_exhausted"}
                         [] OTHER -> TRUE
    BY DEF LabelsTell
  <2>2. run[p].at = "asking" BY <2>1 DEF At
  <2>3. WorkSound(run[p], trail) BY <2>1, <2>2, AtWork DEF WorkAts
  <2>4. Kept(trail[run[p].index].label, run[p].runner.failure)
    BY <2>1, <2>2, <2>3 DEF WorkSound, Labelled
  <2>5. QED BY <2>4 DEF Kept
<1>2. QED BY <1>1, AskInvHolds, PTL

-----------------------------------------------------------------------------
(***************************************************************************)
(* What a run has read.  A catalogue that changed while it read has an     *)
(* earlier list and the list it holds now; the first k0 posts were read    *)
(* from the earlier one, the others, up to the offset, from the later one. *)
(***************************************************************************)
Lists == Seq(Posts)
Changed(list, later) ==
    later \in Published(list) \cup TakenDown(list)
                \cup UNION {Published(l) : l \in TakenDown(list)}

Offset(h) == IF h.cursor = NoToken THEN 0 ELSE h.cursor
Slice(list, a, b) == {list[i] : i \in a..b}

ListPage(list, k) ==
    LET last == Smaller(k + PageSize, Len(list))
    IN  [kind |-> "page", edited |-> FALSE, rejected |-> 0, total |-> Len(list),
         ids |-> Slice(list, k + 1, last),
         token |-> IF last < Len(list) THEN last ELSE NoToken]

PageRead(page, list, k) ==
    page = ListPage(list, k) /\ (page.ids # {} \/ list = << >>)

HarnessFields(h) ==
    h = [state |-> h.state, reason |-> h.reason, active |-> h.active,
         cursor |-> h.cursor, ordinal |-> h.ordinal, seen |-> h.seen,
         pages |-> h.pages, requests |-> h.requests, retries |-> h.retries,
         duplicates |-> h.duplicates, rejected |-> h.rejected,
         total |-> h.total, records |-> h.records]

(* A run holds an answer it has still to judge.                            *)
Holding(w) ==
    w.at = "asking" /\ w.runner.phase = "done" /\ w.runner.failure = "none"
HoldsPage(w) == Holding(w) /\ w.runner.answer.page.kind = "page"

(* How often the catalogue changed since the run started.                  *)
Drift(w, hist) == Len(hist) - w.since

Mixed(h, L0, k0, cat) ==
    /\ ToSet(L0) \subseteq Posts /\ k0 <= Len(L0)
    /\ h.records = Slice(L0, 1, k0) \cup Slice(cat, k0 + 1, Offset(h))
    /\ k0 > 0 => h.total = Len(L0)
    /\ k0 < Offset(h) => Offset(h) <= Len(cat) /\ h.total = Len(cat)

Traced(w, L0, k0, cat, hist) ==
    /\ Mixed(w.harness, L0, k0, cat)
    /\ Drift(w, hist) = 0 => L0 = cat /\ k0 = Offset(w.harness)
    /\ Drift(w, hist) = 1 => Changed(L0, cat)
    /\ ToSet(L0) \in ToSet(hist)
    /\ HoldsPage(w) =>
         \/ PageRead(w.runner.answer.page, cat, Offset(w.harness))
         \/ /\ k0 = Offset(w.harness)
            /\ PageRead(w.runner.answer.page, L0, Offset(w.harness))

Whole(h, hist) ==
    h.total # NoTotal /\ Cardinality(h.records) = h.total => h.records \in ToSet(hist)

WorkRead(w, cat, hist) ==
    /\ w.since \in 1..Len(hist) /\ HarnessFields(w.harness)
    /\ w.harness.records \subseteq UNION ToSet(hist)
    /\ w.at = "asking" => w.harness.state = "ready"
    /\ w.harness.state = "ready" => Offset(w.harness) \in Nat
    /\ Holding(w) => w.runner.answer.page.kind \in {"page", "changed", "none"}
    /\ HoldsPage(w) =>
         /\ w.runner.answer.page.ids \subseteq UNION ToSet(hist)
         /\ w.runner.answer.page.token \in Nat \cup {NoToken}
         /\ w.runner.answer.page.total \in Nat
    /\ Drift(w, hist) <= 1 =>
         /\ w.harness.state = "ready" =>
              \E L0 \in Lists, k0 \in 0..Offset(w.harness) : Traced(w, L0, k0, cat, hist)
         /\ w.harness.state = "complete" => Whole(w.harness, hist)

HistorySound ==
    /\ catalogue \in Seq(Posts) /\ history \in Seq(SUBSET Posts) /\ history # << >>
    /\ history[Len(history)] = ToSet(catalogue)

VerdictRow ==
    [result : {"complete", "bounded_partial", "blocked"},
     ids : SUBSET Posts, changes : Nat]
VerdictsTyped == verdicts \in Seq(VerdictRow)

ReadInv ==
    /\ HistorySound /\ VerdictsTyped /\ CompleteIsWhole
    /\ \A p \in Commands : run[p].at \in WorkAts => WorkRead(run[p], catalogue, history)

-----------------------------------------------------------------------------
(* Lists, and what one change does to them.                                *)
LEMMA ToSetIs ==
  ASSUME NEW S, NEW s \in Seq(S)
  PROVE  /\ ToSet(s) = Slice(s, 1, Len(s)) /\ ToSet(s) \subseteq S
         /\ \A i \in 1..Len(s) : s[i] \in ToSet(s)
<1>1. DOMAIN s = 1..Len(s) /\ \A i \in 1..Len(s) : s[i] \in S OBVIOUS
<1>2. QED BY <1>1 DEF ToSet, Slice

LEMMA ToSetGrows ==
  ASSUME NEW S, NEW s \in Seq(S), NEW x \in S
  PROVE  /\ Append(s, x) \in Seq(S) /\ Len(Append(s, x)) = Len(s) + 1
         /\ Append(s, x)[Len(s) + 1] = x
         /\ ToSet(s) \subseteq ToSet(Append(s, x)) /\ x \in ToSet(Append(s, x))
         /\ \A y \in ToSet(Append(s, x)) : y \in ToSet(s) \/ y = x
<1>1. PICK t : t = Append(s, x) OBVIOUS
<1>2. /\ t \in Seq(S) /\ Len(t) = Len(s) + 1 /\ Len(s) \in Nat
      /\ \A i \in 1..Len(s) : t[i] = s[i]
      /\ t[Len(s) + 1] = x
  BY <1>1
<1>3. ToSet(s) = Slice(s, 1, Len(s)) BY ToSetIs
<1>4. ToSet(t) = Slice(t, 1, Len(t)) BY <1>2, ToSetIs
<1>5. ASSUME NEW y \in ToSet(s) PROVE y \in ToSet(t)
  <2>1. PICK i \in 1..Len(s) : y = s[i] BY <1>3, <1>5 DEF Slice
  <2>2. i \in 1..Len(t) /\ y = t[i] BY <1>2, <2>1
  <2>3. QED BY <1>4, <2>2 DEF Slice
<1>6. x \in ToSet(t)
  <2>1. Len(s) + 1 \in 1..Len(t) BY <1>2
  <2>2. QED BY <1>2, <1>4, <2>1 DEF Slice
<1>7. ASSUME NEW y \in ToSet(t) PROVE y \in ToSet(s) \/ y = x
  <2>1. PICK i \in 1..Len(t) : y = t[i] BY <1>4, <1>7 DEF Slice
  <2>2. CASE i \in 1..Len(s)
    <3>1. y = s[i] BY <1>2, <2>1, <2>2
    <3>2. QED BY <1>3, <2>2, <3>1 DEF Slice
  <2>3. CASE i \notin 1..Len(s)
    <3>1. i = Len(s) + 1 BY <1>2, <2>1, <2>3
    <3>2. QED BY <1>2, <2>1, <3>1
  <2>4. QED BY <2>2, <2>3
<1>8. QED BY <1>1, <1>2, <1>5, <1>6, <1>7

LEMMA PublishedIs ==
  ASSUME NEW list \in Seq(Posts), NEW later \in Published(list)
  PROVE  /\ later \in Seq(Posts) /\ Len(later) = Len(list) + 1
         /\ \A i \in 1..Len(list) : later[i + 1] = list[i]
<1>1. PICK v \in Posts \ ToSet(list) : later = <<v>> \o list BY DEF Published
<1>2. <<v>> \in Seq(Posts) /\ Len(<<v>>) = 1 OBVIOUS
<1>3. later \in Seq(Posts) /\ Len(later) = Len(list) + 1 BY <1>1, <1>2
<1>4. ASSUME NEW i \in 1..Len(list) PROVE later[i + 1] = list[i]
  <2>1. i + 1 \in 1..(Len(<<v>>) + Len(list)) /\ i + 1 > Len(<<v>>) BY <1>2
  <2>2. (<<v>> \o list)[i + 1] = list[i + 1 - Len(<<v>>)] BY <2>1, <1>2
  <2>3. QED BY <1>1, <1>2, <2>2
<1>5. QED BY <1>3, <1>4

LEMMA TakenDownIs ==
  ASSUME NEW list \in Seq(Posts), NEW later \in TakenDown(list)
  PROVE  \E n \in 1..Len(list) :
           /\ later \in Seq(Posts) /\ Len(later) = Len(list) - 1
           /\ \A i \in 1..(n - 1) : later[i] = list[i]
           /\ \A i \in n..(Len(list) - 1) : later[i] = list[i + 1]
<1>1. PICK n \in DOMAIN list : later = RemoveAt(list, n) BY DEF TakenDown
<1>2. n \in 1..Len(list) /\ Len(list) \in Nat BY <1>1
<1>3. PICK a, b : a = SubSeq(list, 1, n - 1) /\ b = SubSeq(list, n + 1, Len(list)) OBVIOUS
<1>4. later = a \o b BY <1>1, <1>3 DEF RemoveAt
<1>5. /\ a \in Seq(Posts) /\ Len(a) = n - 1
      /\ \A i \in 1..(n - 1) : a[i] = list[i]
  <2>1. 1 \in 1..(Len(list) + 1) /\ n - 1 \in 0..Len(list) BY <1>2
  <2>2. \A i \in 1..(n - 1) : list[i] \in Posts BY <1>2
  <2>3. 1 \in Int /\ n - 1 \in Int BY <1>2
  <2>4. /\ a \in Seq(Posts)
        /\ Len(a) = IF 1 <= n - 1 THEN (n - 1) - 1 + 1 ELSE 0
        /\ \A i \in 1..((n - 1) - 1 + 1) : a[i] = list[1 + i - 1]
    BY <1>3, <2>2, <2>3, SubSeqProperties
  <2>5. QED BY <1>2, <2>1, <2>4
<1>6. /\ b \in Seq(Posts) /\ Len(b) = Len(list) - n
      /\ \A i \in 1..(Len(list) - n) : b[i] = list[n + i]
  <2>1. \A i \in (n + 1)..Len(list) : list[i] \in Posts BY <1>2
  <2>2. n + 1 \in Int /\ Len(list) \in Int BY <1>2
  <2>3. /\ b \in Seq(Posts)
        /\ Len(b) = IF n + 1 <= Len(list) THEN Len(list) - (n + 1) + 1 ELSE 0
        /\ \A i \in 1..(Len(list) - (n + 1) + 1) : b[i] = list[(n + 1) + i - 1]
    BY <1>3, <2>1, <2>2, SubSeqProperties
  <2>4. QED BY <1>2, <2>3
<1>7. later \in Seq(Posts) /\ Len(later) = Len(list) - 1 BY <1>2, <1>4, <1>5, <1>6
<1>8. \A i \in 1..(n - 1) : later[i] = list[i] BY <1>2, <1>4, <1>5, <1>6
<1>9. ASSUME NEW i \in n..(Len(list) - 1) PROVE later[i] = list[i + 1]
  <2>1. /\ i - (n - 1) \in 1..(Len(list) - n)
        /\ i \in 1..(Len(a) + Len(b)) /\ i > Len(a)
    <3>1. Len(a) = n - 1 /\ Len(b) = Len(list) - n BY <1>5, <1>6
    <3>2. QED BY <1>2, <3>1
  <2>2. (a \o b)[i] = b[i - Len(a)]
    <3>1. a \in Seq(Posts) /\ b \in Seq(Posts) BY <1>5, <1>6
    <3>2. ~(i <= Len(a)) BY <2>1, <1>5, <1>2
    <3>3. QED BY <2>1, <3>1, <3>2, ConcatProperties
  <2>3. b[i - (n - 1)] = list[n + (i - (n - 1))] BY <1>6, <2>1
  <2>4. n + (i - (n - 1)) = i + 1 BY <1>2
  <2>5. later[i] = b[i - (n - 1)] BY <1>4, <1>5, <2>2
  <2>6. QED BY <2>3, <2>4, <2>5
<1>10. QED BY <1>2, <1>7, <1>8, <1>9

LEMMA ChangedIs ==
  ASSUME NEW list \in Seq(Posts), NEW later, Changed(list, later)
  PROVE  /\ later \in Seq(Posts)
         /\ Len(later) = Len(list) =>
              \E n \in 1..Len(list) :
                /\ \A i \in 1..(n - 1) : later[i + 1] = list[i]
                /\ \A i \in (n + 1)..Len(list) : later[i] = list[i]
<1>1. Len(list) \in Nat OBVIOUS
<1>2. CASE later \in Published(list) BY <1>1, <1>2, PublishedIs
<1>3. CASE later \in TakenDown(list)
  <2>1. later \in Seq(Posts) /\ Len(later) = Len(list) - 1 BY <1>3, TakenDownIs
  <2>2. QED BY <1>1, <2>1
<1>4. CASE later \in UNION {Published(l) : l \in TakenDown(list)}
  <2>1. PICK l \in TakenDown(list) : later \in Published(l) BY <1>4
  <2>2. PICK n \in 1..Len(list) :
           /\ l \in Seq(Posts) /\ Len(l) = Len(list) - 1
           /\ \A i \in 1..(n - 1) : l[i] = list[i]
           /\ \A i \in n..(Len(list) - 1) : l[i] = list[i + 1]
    BY TakenDownIs
  <2>3. /\ later \in Seq(Posts) /\ Len(later) = Len(l) + 1
        /\ \A i \in 1..Len(l) : later[i + 1] = l[i]
    BY <2>1, <2>2, PublishedIs
  <2>4. ASSUME NEW i \in 1..(n - 1) PROVE later[i + 1] = list[i]
    <3>1. i \in 1..Len(l) BY <1>1, <2>2
    <3>2. QED BY <2>2, <2>3, <3>1
  <2>5. ASSUME NEW i \in (n + 1)..Len(list) PROVE later[i] = list[i]
    <3>1. PICK j : j = i - 1 OBVIOUS
    <3>2. j \in 1..Len(l) /\ j \in n..(Len(list) - 1) /\ j + 1 = i BY <1>1, <2>2, <3>1
    <3>3. later[j + 1] = l[j] BY <2>3, <3>2
    <3>4. l[j] = list[j + 1] BY <2>2, <3>2
    <3>5. QED BY <3>2, <3>3, <3>4
  <2>6. QED BY <2>3, <2>4, <2>5
<1>5. QED BY <1>2, <1>3, <1>4 DEF Changed

LEMMA IntervalSize ==
  ASSUME NEW n \in Nat
  PROVE  IsFiniteSet(1..n) /\ Cardinality(1..n) = n
<1>1. 1 \in Int /\ n \in Int OBVIOUS
<1>2. IsFiniteSet(1..n) /\ Cardinality(1..n) = IF 1 > n THEN 0 ELSE n - 1 + 1
  BY <1>1, FS_Interval
<1>3. (IF 1 > n THEN 0 ELSE n - 1 + 1) = n OBVIOUS
<1>4. QED BY <1>2, <1>3

LEMMA SliceSplits ==
  ASSUME NEW s, NEW a \in Int, NEW b \in Int, NEW c \in Int, a <= b + 1, b <= c
  PROVE  Slice(s, a, c) = Slice(s, a, b) \cup Slice(s, b + 1, c)
<1>1. a..c = (a..b) \cup ((b + 1)..c) OBVIOUS
<1>2. QED BY <1>1 DEF Slice

(* Two lists of one length that one change apart: a reader that took its   *)
(* first posts from the earlier and the others from the later either       *)
(* counts a post twice, or has the whole of one of them.                   *)
LEMMA MixedWhole ==
  ASSUME NEW L0 \in Seq(Posts), NEW L1, Changed(L0, L1), NEW k0 \in 0..Len(L0),
         k0 > 0 => Len(L0) = Len(L1), k0 <= Len(L1),
         NEW R, R = Slice(L0, 1, k0) \cup Slice(L1, k0 + 1, Len(L1)),
         Cardinality(R) = Len(L1)
  PROVE  R = ToSet(L0) \/ R = ToSet(L1)
<1>1. /\ L1 \in Seq(Posts) /\ Len(L0) \in Nat /\ Len(L1) \in Nat
      /\ ToSet(L0) = Slice(L0, 1, Len(L0)) /\ ToSet(L1) = Slice(L1, 1, Len(L1))
  BY ChangedIs, ToSetIs
<1>2. CASE k0 = 0
  <2>1. 1..k0 = {} BY <1>2
  <2>2. Slice(L0, 1, k0) = {} BY <2>1 DEF Slice
  <2>3. R = Slice(L1, k0 + 1, Len(L1)) BY <2>2
  <2>4. QED BY <1>1, <1>2, <2>3
<1>3. CASE k0 > 0
  <2>1. Len(L1) = Len(L0) /\ k0 \in 1..Len(L0) BY <1>1, <1>3
  <2>2. PICK n \in 1..Len(L0) :
           /\ \A i \in 1..(n - 1) : L1[i + 1] = L0[i]
           /\ \A i \in (n + 1)..Len(L0) : L1[i] = L0[i]
    BY <2>1, ChangedIs
  <2>3. CASE n <= k0
    <3>1. ASSUME NEW i \in (k0 + 1)..Len(L0) PROVE L1[i] = L0[i]
      <4>1. i \in (n + 1)..Len(L0) BY <1>1, <2>1, <2>3
      <4>2. QED BY <2>2, <4>1
    <3>2. Slice(L1, k0 + 1, Len(L1)) = Slice(L0, k0 + 1, Len(L0))
      BY <2>1, <3>1 DEF Slice
    <3>3. Slice(L0, 1, Len(L0)) = Slice(L0, 1, k0) \cup Slice(L0, k0 + 1, Len(L0))
      BY <1>1, <2>1, SliceSplits
    <3>4. QED BY <1>1, <3>2, <3>3
  <2>4. CASE ~(n <= k0)
    <3>1. k0 \in 1..(n - 1) /\ k0 + 1 \in 1..Len(L1) BY <1>1, <2>1, <2>4
    <3>2. L1[k0 + 1] = L0[k0] BY <2>2, <3>1
    <3>3. PICK D : D = (1..Len(L1)) \ {k0 + 1} OBVIOUS
    <3>4. IsFiniteSet(D) /\ Cardinality(D) = Len(L1) - 1
      <4>1. IsFiniteSet(1..Len(L1)) /\ Cardinality(1..Len(L1)) = Len(L1)
        BY <1>1, IntervalSize
      <4>2. IsFiniteSet(D) /\ Cardinality(D) = Cardinality(1..Len(L1)) - 1
        BY <3>1, <3>3, <4>1, FS_RemoveElement
      <4>3. QED BY <4>1, <4>2
    <3>5. PICK f : f = [i \in D |-> IF i <= k0 THEN L0[i] ELSE L1[i]] OBVIOUS
    <3>6. \A y \in R : \E i \in D : f[i] = y
      <4>1. ASSUME NEW y \in Slice(L0, 1, k0) PROVE \E i \in D : f[i] = y
        <5>1. PICK i \in 1..k0 : y = L0[i] BY <4>1 DEF Slice
        <5>2. i \in D BY <1>1, <2>1, <3>3, <5>1
        <5>3. f[i] = L0[i] BY <2>1, <3>5, <5>1, <5>2
        <5>4. QED BY <5>1, <5>2, <5>3
      <4>2. ASSUME NEW y \in Slice(L1, k0 + 1, Len(L1)) PROVE \E i \in D : f[i] = y
        <5>1. PICK i \in (k0 + 1)..Len(L1) : y = L1[i] BY <4>2 DEF Slice
        <5>2. CASE i = k0 + 1
          <6>1. y = L0[k0] /\ k0 \in 1..k0 BY <2>1, <3>2, <5>1, <5>2
          <6>2. QED BY <4>1, <6>1 DEF Slice
        <5>3. CASE i # k0 + 1
          <6>1. i \in D /\ ~(i <= k0) BY <1>1, <2>1, <3>3, <5>1, <5>3
          <6>2. f[i] = L1[i] BY <3>5, <6>1
          <6>3. QED BY <5>1, <6>1, <6>2
        <5>4. QED BY <5>2, <5>3
      <4>3. QED BY <4>1, <4>2
    <3>7. \A i \in D : f[i] \in R
      <4>1. SUFFICES ASSUME NEW i \in D PROVE f[i] \in R OBVIOUS
      <4>2. CASE i <= k0
        <5>1. f[i] = L0[i] /\ i \in 1..k0 BY <1>1, <2>1, <3>3, <3>5, <4>2
        <5>2. QED BY <5>1 DEF Slice
      <4>3. CASE ~(i <= k0)
        <5>1. f[i] = L1[i] /\ i \in (k0 + 1)..Len(L1) BY <1>1, <2>1, <3>3, <3>5, <4>3
        <5>2. QED BY <5>1 DEF Slice
      <4>4. QED BY <4>2, <4>3
    <3>8. f \in [D -> R] BY <3>5, <3>7
    <3>9. f \in Surjection(D, R) BY <3>6, <3>8 DEF Surjection
    <3>10. Cardinality(R) <= Cardinality(D) BY <3>4, <3>9, FS_Surjection
    <3>11. QED BY <1>1, <3>4, <3>10
  <2>5. QED BY <2>3, <2>4, <2>1, <2>2
<1>4. QED BY <1>2, <1>3
-----------------------------------------------------------------------------
(* The harness's steps.                                                    *)
LEMMA StoppedIs ==
  ASSUME NEW h, HarnessFields(h), NEW state, NEW reason, NEW n, n = Stopped(h, state, reason)
  PROVE  /\ HarnessFields(n) /\ n.state = state /\ n.records = h.records
         /\ n.cursor = h.cursor /\ n.total = h.total
<1>1. n = [h EXCEPT !.active = FALSE, !.state = state, !.reason = reason] BY DEF Stopped
<1>2. h = [state |-> h.state, reason |-> h.reason, active |-> h.active,
           cursor |-> h.cursor, ordinal |-> h.ordinal, seen |-> h.seen,
           pages |-> h.pages, requests |-> h.requests, retries |-> h.retries,
           duplicates |-> h.duplicates, rejected |-> h.rejected,
           total |-> h.total, records |-> h.records]
  BY DEF HarnessFields
<1>3. n = [state |-> state, reason |-> reason, active |-> FALSE,
           cursor |-> h.cursor, ordinal |-> h.ordinal, seen |-> h.seen,
           pages |-> h.pages, requests |-> h.requests, retries |-> h.retries,
           duplicates |-> h.duplicates, rejected |-> h.rejected,
           total |-> h.total, records |-> h.records]
  BY <1>1, <1>2
<1>4. QED BY <1>3 DEF HarnessFields

LEMMA HarnessAskedIs ==
  ASSUME NEW h, HarnessFields(h), NEW n, n = Asked(h)
  PROVE  /\ HarnessFields(n) /\ n.state = h.state /\ n.records = h.records
         /\ n.cursor = h.cursor /\ n.total = h.total
<1>1. n = [h EXCEPT !.requests = @ + 1, !.reason = "none", !.active = TRUE] BY DEF Asked
<1>2. h = [state |-> h.state, reason |-> h.reason, active |-> h.active,
           cursor |-> h.cursor, ordinal |-> h.ordinal, seen |-> h.seen,
           pages |-> h.pages, requests |-> h.requests, retries |-> h.retries,
           duplicates |-> h.duplicates, rejected |-> h.rejected,
           total |-> h.total, records |-> h.records]
  BY DEF HarnessFields
<1>3. n = [state |-> h.state, reason |-> "none", active |-> TRUE,
           cursor |-> h.cursor, ordinal |-> h.ordinal, seen |-> h.seen,
           pages |-> h.pages, requests |-> h.requests + 1, retries |-> h.retries,
           duplicates |-> h.duplicates, rejected |-> h.rejected,
           total |-> h.total, records |-> h.records]
  BY <1>1, <1>2
<1>4. QED BY <1>3 DEF HarnessFields

LEMMA CommittedIs ==
  ASSUME NEW h, HarnessFields(h), NEW page, page.total # NoTotal, NEW n, n = Committed(h, page)
  PROVE  /\ HarnessFields(n) /\ n.records = h.records \cup page.ids
         /\ n.cursor = page.token /\ n.total = page.total
         /\ n.state = IF page.token = NoToken THEN "complete" ELSE h.state
<1>1. PICK m : m = [h EXCEPT !.active = FALSE,
                       !.records = @ \cup page.ids,
                       !.duplicates = @ + Cardinality(h.records \cap page.ids),
                       !.rejected = @ + page.rejected,
                       !.total = IF page.total = NoTotal THEN @ ELSE page.total,
                       !.pages = @ + 1,
                       !.retries = 0,
                       !.cursor = page.token]
  OBVIOUS
<1>2. h = [state |-> h.state, reason |-> h.reason, active |-> h.active,
           cursor |-> h.cursor, ordinal |-> h.ordinal, seen |-> h.seen,
           pages |-> h.pages, requests |-> h.requests, retries |-> h.retries,
           duplicates |-> h.duplicates, rejected |-> h.rejected,
           total |-> h.total, records |-> h.records]
  BY DEF HarnessFields
<1>3. PICK dup, rej : /\ dup = h.duplicates + Cardinality(h.records \cap page.ids)
                      /\ rej = h.rejected + page.rejected
  OBVIOUS
<1>4. m = [state |-> h.state, reason |-> h.reason, active |-> FALSE,
           cursor |-> page.token, ordinal |-> h.ordinal, seen |-> h.seen,
           pages |-> h.pages + 1, requests |-> h.requests, retries |-> 0,
           duplicates |-> dup, rejected |-> rej,
           total |-> page.total, records |-> h.records \cup page.ids]
  <2>1. m = [h EXCEPT !.active = FALSE, !.records = h.records \cup page.ids,
                      !.duplicates = dup, !.rejected = rej, !.total = page.total,
                      !.pages = h.pages + 1, !.retries = 0, !.cursor = page.token]
    BY <1>1, <1>3
  <2>2. QED BY <1>2, <2>1
<1>5. CASE page.token = NoToken
  <2>1. PICK o : o = [m EXCEPT !.ordinal = -1] OBVIOUS
  <2>2. n = Stopped(o, "complete", "terminal_page")
    BY <1>1, <1>5, <2>1 DEF Committed
  <2>3. o = [state |-> h.state, reason |-> h.reason, active |-> FALSE,
             cursor |-> page.token, ordinal |-> -1, seen |-> h.seen,
             pages |-> h.pages + 1, requests |-> h.requests, retries |-> 0,
             duplicates |-> dup, rejected |-> rej,
             total |-> page.total, records |-> h.records \cup page.ids]
    BY <1>4, <2>1
  <2>4. /\ HarnessFields(o) /\ o.records = h.records \cup page.ids
        /\ o.cursor = page.token /\ o.total = page.total
    BY <2>3 DEF HarnessFields
  <2>5. QED BY <1>5, <2>2, <2>4, StoppedIs
<1>6. CASE page.token # NoToken
  <2>1. n = [m EXCEPT !.ordinal = @ + 1, !.seen = Append(@, page.token), !.reason = "none"]
    BY <1>1, <1>6 DEF Committed
  <2>2. PICK seen, ordinal : seen = Append(m.seen, page.token) /\ ordinal = m.ordinal + 1
    OBVIOUS
  <2>3. n = [state |-> h.state, reason |-> "none", active |-> FALSE,
             cursor |-> page.token, ordinal |-> ordinal, seen |-> seen,
             pages |-> h.pages + 1, requests |-> h.requests, retries |-> 0,
             duplicates |-> dup, rejected |-> rej,
             total |-> page.total, records |-> h.records \cup page.ids]
    <3>1. PICK o : o = [m EXCEPT !.ordinal = ordinal, !.seen = seen] OBVIOUS
    <3>2. o = [state |-> h.state, reason |-> h.reason, active |-> FALSE,
               cursor |-> page.token, ordinal |-> ordinal, seen |-> seen,
               pages |-> h.pages + 1, requests |-> h.requests, retries |-> 0,
               duplicates |-> dup, rejected |-> rej,
               total |-> page.total, records |-> h.records \cup page.ids]
      BY <1>4, <3>1
    <3>3. n = [o EXCEPT !.reason = "none"] BY <1>4, <2>1, <2>2, <3>1
    <3>4. QED BY <3>2, <3>3
  <2>4. QED BY <1>6, <2>3 DEF HarnessFields
<1>7. QED BY <1>5, <1>6

LEMMA TotalsAgree ==
  ASSUME NEW h, NEW page, page.total # NoTotal, PageDefect(h, page) = "none"
  PROVE  h.total = NoTotal \/ h.total = page.total
BY DEF PageDefect
-----------------------------------------------------------------------------
(* Pages.                                                                  *)
LEMMA PageStep ==
  ASSUME NEW list \in Seq(Posts), NEW k \in Nat, list = << >> => k = 0,
         NEW page, PageRead(page, list, k)
  PROVE  /\ page.total = Len(list) /\ page.total # NoTotal
         /\ \E last \in k..Len(list) :
              /\ page.ids = Slice(list, k + 1, last)
              /\ last < Len(list) => page.token = last /\ page.token # NoToken
              /\ ~(last < Len(list)) => page.token = NoToken /\ last = Len(list)
<1>1. Len(list) \in Nat /\ PageSize \in Nat \ {0} BY InventoryAssumption
<1>2. PICK last : last = Smaller(k + PageSize, Len(list)) OBVIOUS
<1>3. page = [kind |-> "page", edited |-> FALSE, rejected |-> 0, total |-> Len(list),
              ids |-> Slice(list, k + 1, last),
              token |-> IF last < Len(list) THEN last ELSE NoToken]
  BY <1>2 DEF PageRead, ListPage
<1>4. page.total = Len(list) /\ page.ids = Slice(list, k + 1, last)
  BY <1>3
<1>5. page.token = IF last < Len(list) THEN last ELSE NoToken BY <1>3
<1>6. last \in Nat /\ last <= Len(list) /\ (last < Len(list) => last = k + PageSize)
  BY <1>1, <1>2 DEF Smaller
<1>7. k <= last
  <2>1. CASE list = << >>
    <3>1. k = 0 BY <2>1
    <3>2. QED BY <1>6, <3>1
  <2>2. CASE list # << >>
    <3>1. page.ids # {} BY <2>2 DEF PageRead
    <3>2. PICK y : y \in Slice(list, k + 1, last) BY <1>4, <3>1
    <3>3. PICK i \in (k + 1)..last : TRUE BY <3>2 DEF Slice
    <3>4. QED BY <1>6, <3>3
  <2>3. QED BY <2>1, <2>2
<1>8. last \in k..Len(list) BY <1>1, <1>6, <1>7
<1>9. last < Len(list) => last \in Nat \ {0} BY <1>1, <1>6
<1>10. last < Len(list) => page.token = last /\ page.token # NoToken
  BY <1>5, <1>9, CatalogueAssumption
<1>11. ~(last < Len(list)) => page.token = NoToken /\ last = Len(list)
  BY <1>1, <1>5, <1>6
<1>12. page.total # NoTotal BY <1>1, <1>4, CatalogueAssumption
<1>13. QED BY <1>4, <1>8, <1>10, <1>11, <1>12

LEMMA PostsPageIs ==
  ASSUME NEW h, catalogue \in Seq(Posts), Offset(h) \in Nat, NEW page,
         page = PostsAnswer(h), page.kind = "page"
  PROVE  /\ PageRead(page, catalogue, Offset(h))
         /\ page.ids \subseteq ToSet(catalogue)
         /\ page.token \in Nat \cup {NoToken} /\ page.total \in Nat
<1>1. PostsPage(h) = ListPage(catalogue, Offset(h))
  BY DEF PostsPage, ListPage, Slice, Offset
<1>2. page = PostsPage(h) /\ ~(PostsPage(h).ids = {} /\ catalogue # << >>)
  BY DEF PostsAnswer
<1>3. PageRead(page, catalogue, Offset(h)) BY <1>1, <1>2 DEF PageRead
<1>4. PICK last : last = Smaller(Offset(h) + PageSize, Len(catalogue)) OBVIOUS
<1>5. page = [kind |-> "page", edited |-> FALSE, rejected |-> 0, total |-> Len(catalogue),
              ids |-> Slice(catalogue, Offset(h) + 1, last),
              token |-> IF last < Len(catalogue) THEN last ELSE NoToken]
  BY <1>1, <1>2, <1>4 DEF ListPage
<1>6. last \in Nat /\ last <= Len(catalogue) /\ Len(catalogue) \in Nat
  BY <1>4, InventoryAssumption DEF Smaller
<1>7. Slice(catalogue, Offset(h) + 1, last) \subseteq ToSet(catalogue)
  <2>1. \A i \in (Offset(h) + 1)..last : i \in 1..Len(catalogue) BY <1>6
  <2>2. \A i \in 1..Len(catalogue) : catalogue[i] \in ToSet(catalogue) BY ToSetIs
  <2>3. QED BY <2>1, <2>2 DEF Slice
<1>8. QED BY <1>3, <1>5, <1>6, <1>7

LEMMA EmptyIsFirst ==
  ASSUME NEW h, NEW L0 \in Seq(Posts), NEW k0 \in 0..Offset(h), Offset(h) \in Nat,
         NEW cat \in Seq(Posts), Mixed(h, L0, k0, cat),
         NEW list, list = << >>, h.total = NoTotal \/ h.total = Len(list)
  PROVE  Offset(h) = 0
<1>1. Len(L0) \in Nat /\ Len(cat) \in Nat /\ Len(list) = 0 OBVIOUS
<1>2. h.total = 0 \/ h.total \notin Nat BY <1>1, CatalogueAssumption
<1>3. CASE k0 > 0
  <2>1. h.total = Len(L0) /\ k0 <= Len(L0) BY <1>3 DEF Mixed
  <2>2. QED BY <1>1, <1>2, <1>3, <2>1
<1>4. CASE ~(k0 > 0)
  <2>1. SUFFICES ASSUME Offset(h) # 0 PROVE FALSE OBVIOUS
  <2>2. k0 < Offset(h) BY <1>4, <2>1
  <2>3. Offset(h) <= Len(cat) /\ h.total = Len(cat) BY <2>2 DEF Mixed
  <2>4. QED BY <1>1, <1>2, <2>1, <2>3
<1>5. QED BY <1>3, <1>4

(* A page of the earlier list, by a run that read nothing of the later.    *)
LEMMA EarlierPageCommits ==
  ASSUME NEW h, HarnessFields(h), h.state = "ready", Offset(h) \in Nat,
         NEW L0 \in Seq(Posts), NEW cat \in Seq(Posts), Mixed(h, L0, Offset(h), cat),
         NEW page, PageRead(page, L0, Offset(h)), PageDefect(h, page) = "none",
         NEW n, n = Committed(h, page)
  PROVE  \/ n.state = "complete" /\ n.records = ToSet(L0)
         \/ n.state = "ready" /\ Offset(n) \in Nat /\ Mixed(n, L0, Offset(n), cat)
<1>1. Len(L0) \in Nat /\ Len(cat) \in Nat OBVIOUS
<1>2. page.total = Len(L0) /\ page.total # NoTotal
  BY <1>1, CatalogueAssumption DEF PageRead, ListPage
<1>3. h.total = NoTotal \/ h.total = Len(L0) BY <1>2, TotalsAgree
<1>4. L0 = << >> => Offset(h) = 0
  <2>1. Offset(h) \in 0..Offset(h) OBVIOUS
  <2>2. QED BY <1>3, <2>1, EmptyIsFirst
<1>5. PICK last \in Offset(h)..Len(L0) :
        /\ page.ids = Slice(L0, Offset(h) + 1, last)
        /\ last < Len(L0) => page.token = last /\ page.token # NoToken
        /\ ~(last < Len(L0)) => page.token = NoToken /\ last = Len(L0)
  BY <1>4, PageStep
<1>6. /\ n.records = h.records \cup page.ids /\ n.cursor = page.token
      /\ n.total = page.total
      /\ n.state = IF page.token = NoToken THEN "complete" ELSE "ready"
  BY <1>2, CommittedIs
<1>7. n.records = Slice(L0, 1, last)
  <2>1. h.records = Slice(L0, 1, Offset(h)) \cup Slice(cat, Offset(h) + 1, Offset(h))
    BY DEF Mixed
  <2>2. (Offset(h) + 1)..Offset(h) = {} OBVIOUS
  <2>3. Slice(cat, Offset(h) + 1, Offset(h)) = {} BY <2>2 DEF Slice
  <2>4. Slice(L0, 1, last) = Slice(L0, 1, Offset(h)) \cup Slice(L0, Offset(h) + 1, last)
    BY <1>1, SliceSplits
  <2>5. QED BY <1>5, <1>6, <2>1, <2>3, <2>4
<1>8. CASE last < Len(L0)
  <2>1. n.state = "ready" /\ Offset(n) = last BY <1>5, <1>6, <1>8 DEF Offset
  <2>2. (last + 1)..last = {} BY <1>1
  <2>3. Slice(cat, last + 1, last) = {} BY <2>2 DEF Slice
  <2>4. n.records = Slice(L0, 1, Offset(n)) \cup Slice(cat, Offset(n) + 1, Offset(n))
    BY <1>7, <2>1, <2>3
  <2>5. Offset(n) \in Nat /\ Offset(n) <= Len(L0) /\ n.total = Len(L0)
    BY <1>1, <1>2, <1>6, <2>1
  <2>6. ToSet(L0) \subseteq Posts BY DEF Mixed
  <2>7. QED BY <2>1, <2>4, <2>5, <2>6 DEF Mixed
<1>9. CASE ~(last < Len(L0))
  <2>1. n.state = "complete" BY <1>5, <1>6, <1>9
  <2>2. n.records = Slice(L0, 1, Len(L0)) BY <1>5, <1>7, <1>9
  <2>3. QED BY <2>1, <2>2, ToSetIs
<1>10. QED BY <1>8, <1>9
(* A page of the list one change later.                                    *)
LEMMA LaterPageCommits ==
  ASSUME NEW h, HarnessFields(h), h.state = "ready", Offset(h) \in Nat,
         NEW L0 \in Seq(Posts), NEW cat \in Seq(Posts), Changed(L0, cat),
         NEW k0 \in 0..Offset(h), Mixed(h, L0, k0, cat),
         NEW page, PageRead(page, cat, Offset(h)), PageDefect(h, page) = "none",
         NEW n, n = Committed(h, page)
  PROVE  \/ /\ n.state = "complete"
            /\ Cardinality(n.records) = n.total => n.records \in {ToSet(L0), ToSet(cat)}
         \/ /\ n.state = "ready" /\ Offset(n) \in Nat /\ k0 \in 0..Offset(n)
            /\ Mixed(n, L0, k0, cat)
<1>1. Len(L0) \in Nat /\ Len(cat) \in Nat OBVIOUS
<1>2. page.total = Len(cat) /\ page.total # NoTotal
  BY <1>1, CatalogueAssumption DEF PageRead, ListPage
<1>3. h.total = NoTotal \/ h.total = Len(cat) BY <1>2, TotalsAgree
<1>4. cat = << >> => Offset(h) = 0 BY <1>3, EmptyIsFirst
<1>5. PICK last \in Offset(h)..Len(cat) :
        /\ page.ids = Slice(cat, Offset(h) + 1, last)
        /\ last < Len(cat) => page.token = last /\ page.token # NoToken
        /\ ~(last < Len(cat)) => page.token = NoToken /\ last = Len(cat)
  BY <1>4, PageStep
<1>6. /\ n.records = h.records \cup page.ids /\ n.cursor = page.token
      /\ n.total = Len(cat)
      /\ n.state = IF page.token = NoToken THEN "complete" ELSE "ready"
  BY <1>2, CommittedIs
<1>7. k0 > 0 => Len(L0) = Len(cat)
  <2>1. SUFFICES ASSUME k0 > 0 PROVE Len(L0) = Len(cat) OBVIOUS
  <2>2. h.total = Len(L0) BY <2>1 DEF Mixed
  <2>3. h.total # NoTotal BY <1>1, <2>2, CatalogueAssumption
  <2>4. QED BY <1>3, <2>2, <2>3
<1>8. n.records = Slice(L0, 1, k0) \cup Slice(cat, k0 + 1, last)
  <2>1. h.records = Slice(L0, 1, k0) \cup Slice(cat, k0 + 1, Offset(h)) BY DEF Mixed
  <2>2. Slice(cat, k0 + 1, last)
          = Slice(cat, k0 + 1, Offset(h)) \cup Slice(cat, Offset(h) + 1, last)
    <3>1. PICK a, b : a = k0 + 1 /\ b = Offset(h) OBVIOUS
    <3>2. a \in Int /\ b \in Int /\ last \in Int /\ a <= b + 1 /\ b <= last
      BY <1>1, <3>1
    <3>3. Slice(cat, a, last) = Slice(cat, a, b) \cup Slice(cat, b + 1, last)
      BY <3>2, SliceSplits
    <3>4. QED BY <3>1, <3>3
  <2>3. QED BY <1>5, <1>6, <2>1, <2>2
<1>9. k0 <= Len(L0) /\ ToSet(L0) \subseteq Posts /\ last \in Nat /\ k0 <= last
  BY <1>1, <1>5 DEF Mixed
<1>10. CASE last < Len(cat)
  <2>1. n.state = "ready" /\ Offset(n) = last BY <1>5, <1>6, <1>10 DEF Offset
  <2>2. k0 > 0 => n.total = Len(L0) BY <1>6, <1>7
  <2>3. Offset(n) <= Len(cat) /\ n.total = Len(cat) BY <1>6, <1>10, <1>1, <2>1
  <2>4. n.records = Slice(L0, 1, k0) \cup Slice(cat, k0 + 1, Offset(n))
    BY <1>8, <2>1
  <2>5. Mixed(n, L0, k0, cat) BY <1>9, <2>2, <2>3, <2>4 DEF Mixed
  <2>6. Offset(n) \in Nat /\ k0 \in 0..Offset(n) BY <1>9, <2>1
  <2>7. QED BY <2>1, <2>5, <2>6
<1>11. CASE ~(last < Len(cat))
  <2>1. n.state = "complete" /\ last = Len(cat) BY <1>5, <1>6, <1>11
  <2>2. n.records = Slice(L0, 1, k0) \cup Slice(cat, k0 + 1, Len(cat))
    BY <1>8, <2>1
  <2>3. k0 \in 0..Len(L0) /\ k0 <= Len(cat) BY <1>1, <1>9, <2>1
  <2>4. ASSUME Cardinality(n.records) = n.total PROVE n.records \in {ToSet(L0), ToSet(cat)}
    BY <1>6, <1>7, <2>2, <2>3, <2>4, MixedWhole
  <2>5. QED BY <2>1, <2>4
<1>12. QED BY <1>10, <1>11

-----------------------------------------------------------------------------
(* What a run has read, step by step.                                      *)
LEMMA HistoryFacts ==
  ASSUME HistorySound
  PROVE  /\ Len(history) \in Nat \ {0} /\ ToSet(catalogue) \in ToSet(history)
         /\ UNION ToSet(history) \subseteq Posts
         /\ ToSet(catalogue) \subseteq UNION ToSet(history)
         /\ catalogue \in Seq(Posts)
<1>1. Len(history) \in Nat /\ Len(history) # 0 BY DEF HistorySound
<1>2. ToSet(history) \subseteq SUBSET Posts BY ToSetIs DEF HistorySound
<1>3. ToSet(catalogue) \in ToSet(history)
  <2>1. Len(history) \in 1..Len(history) BY <1>1
  <2>2. QED BY <2>1, ToSetIs DEF HistorySound
<1>4. QED BY <1>1, <1>2, <1>3 DEF HistorySound

(* The run goes on with the harness it had, or one that stopped short.     *)
LEMMA ReadingStays ==
  ASSUME NEW cat, NEW hist, NEW w, WorkRead(w, cat, hist),
         NEW n, n.since = w.since, HarnessFields(n.harness),
         n.harness.records = w.harness.records,
         n.harness.cursor = w.harness.cursor, n.harness.total = w.harness.total,
         \/ n.harness.state = w.harness.state
         \/ n.harness.state \notin {"ready", "complete"},
         n.at = "asking" => n.harness.state = "ready",
         ~Holding(n)
  PROVE  WorkRead(n, cat, hist)
<1>1. Offset(n.harness) = Offset(w.harness) /\ Drift(n, hist) = Drift(w, hist)
  BY DEF Offset, Drift
<1>2. ~HoldsPage(n) BY DEF HoldsPage
<1>3. ASSUME NEW L0 \in Lists, NEW k0 \in 0..Offset(w.harness), Traced(w, L0, k0, cat, hist)
      PROVE  Traced(n, L0, k0, cat, hist)
  <2>1. Mixed(n.harness, L0, k0, cat) BY <1>1, <1>3 DEF Traced, Mixed
  <2>2. QED BY <1>1, <1>2, <1>3, <2>1 DEF Traced
<1>4. n.harness.state = "ready" => w.harness.state = "ready" OBVIOUS
<1>5. n.harness.state = "complete" => w.harness.state = "complete" OBVIOUS
<1>6. Whole(w.harness, hist) => Whole(n.harness, hist) BY DEF Whole
<1>7. Drift(n, hist) <= 1 =>
         /\ n.harness.state = "ready" =>
              \E L0 \in Lists, k0 \in 0..Offset(n.harness) : Traced(n, L0, k0, cat, hist)
         /\ n.harness.state = "complete" => Whole(n.harness, hist)
  BY <1>1, <1>3, <1>4, <1>5, <1>6 DEF WorkRead
<1>8. QED BY <1>1, <1>2, <1>4, <1>7 DEF WorkRead

LEMMA ReadingStarts ==
  ASSUME HistorySound, NEW w, w.since = Len(history), w.harness = NewHarness, ~Holding(w)
  PROVE  WorkRead(w, catalogue, history)
<1>1. /\ w.harness.state = "ready" /\ w.harness.cursor = NoToken
      /\ w.harness.records = {} /\ w.harness.total = NoTotal /\ HarnessFields(w.harness)
  BY DEF NewHarness, HarnessFields
<1>2. Offset(w.harness) = 0 BY <1>1 DEF Offset
<1>3. Len(history) \in Nat \ {0} /\ ToSet(catalogue) \in ToSet(history)
      /\ catalogue \in Seq(Posts) /\ ToSet(catalogue) \subseteq Posts
  BY HistoryFacts, ToSetIs DEF HistorySound
<1>4. Drift(w, history) = 0 BY <1>3 DEF Drift
<1>5. Mixed(w.harness, catalogue, 0, catalogue)
  <2>1. 1..0 = {} /\ (0 + 1)..0 = {} OBVIOUS
  <2>2. Slice(catalogue, 1, 0) = {} /\ Slice(catalogue, 0 + 1, 0) = {}
    BY <2>1 DEF Slice
  <2>3. 0 <= Len(catalogue) BY <1>3
  <2>4. w.harness.records = Slice(catalogue, 1, 0) \cup Slice(catalogue, 0 + 1, 0)
    BY <1>1, <2>2
  <2>5. QED BY <1>2, <1>3, <2>3, <2>4 DEF Mixed
<1>6. Traced(w, catalogue, 0, catalogue, history)
  BY <1>2, <1>3, <1>4, <1>5 DEF Traced, HoldsPage
<1>7. catalogue \in Lists /\ 0 \in 0..Offset(w.harness) BY <1>2, <1>3 DEF Lists
<1>8. w.since \in 1..Len(history) BY <1>3
<1>9. QED BY <1>1, <1>2, <1>6, <1>7, <1>8 DEF WorkRead, HoldsPage

(* An answer arrives: a page of it is of the list there is now.            *)
LEMMA ReadingSees ==
  ASSUME HistorySound, NEW w, WorkRead(w, catalogue, history), w.at = "asking",
         NEW n, n.since = w.since, n.harness = w.harness, n.at = "asking",
         Holding(n) =>
           \/ n.runner.answer.page = PostsAnswer(w.harness)
           \/ n.runner.answer.page = NoAnswer
  PROVE  WorkRead(n, catalogue, history)
<1>1. HarnessFields(w.harness) /\ w.harness.state = "ready" /\ Offset(w.harness) \in Nat
  BY DEF WorkRead
<1>2. Drift(n, history) = Drift(w, history) BY DEF Drift
<1>3. Holding(n) => n.runner.answer.page.kind \in {"page", "changed", "none"}
  BY DEF PostsAnswer, PostsPage, NoAnswer
<1>4. HoldsPage(n) =>
        /\ PageRead(n.runner.answer.page, catalogue, Offset(w.harness))
        /\ n.runner.answer.page.ids \subseteq ToSet(catalogue)
        /\ n.runner.answer.page.token \in Nat \cup {NoToken}
        /\ n.runner.answer.page.total \in Nat
  <2>1. SUFFICES ASSUME HoldsPage(n)
                 PROVE  /\ PageRead(n.runner.answer.page, catalogue, Offset(w.harness))
                        /\ n.runner.answer.page.ids \subseteq ToSet(catalogue)
                        /\ n.runner.answer.page.token \in Nat \cup {NoToken}
                        /\ n.runner.answer.page.total \in Nat
    OBVIOUS
  <2>2. n.runner.answer.page.kind = "page" /\ Holding(n) BY <2>1 DEF HoldsPage
  <2>3. n.runner.answer.page = PostsAnswer(w.harness) BY <2>2 DEF NoAnswer
  <2>4. QED BY <1>1, <2>2, <2>3, PostsPageIs, HistoryFacts
<1>5. ToSet(catalogue) \subseteq UNION ToSet(history) BY HistoryFacts
<1>6. ASSUME NEW L0 \in Lists, NEW k0 \in 0..Offset(w.harness),
             Traced(w, L0, k0, catalogue, history)
      PROVE  Traced(n, L0, k0, catalogue, history)
  BY <1>2, <1>4, <1>6 DEF Traced
<1>7. Drift(n, history) <= 1 =>
         /\ n.harness.state = "ready" =>
              \E L0 \in Lists, k0 \in 0..Offset(n.harness) :
                Traced(n, L0, k0, catalogue, history)
         /\ n.harness.state = "complete" => Whole(n.harness, history)
  BY <1>1, <1>2, <1>6 DEF WorkRead
<1>8. QED BY <1>1, <1>3, <1>4, <1>5, <1>7 DEF WorkRead

(* A page is taken in.                                                     *)
LEMMA ReadingCommits ==
  ASSUME HistorySound, NEW w, WorkRead(w, catalogue, history), HoldsPage(w),
         NEW page, page = w.runner.answer.page, PageDefect(w.harness, page) = "none",
         NEW n, n.since = w.since, n.harness = Committed(w.harness, page),
         n.at = "paging"
  PROVE  WorkRead(n, catalogue, history)
<1>1. PICK h : h = w.harness OBVIOUS
<1>2. w.at = "asking" BY DEF HoldsPage, Holding
<1>3. /\ HarnessFields(h) /\ h.state = "ready" /\ Offset(h) \in Nat
      /\ h.records \subseteq UNION ToSet(history)
      /\ page.ids \subseteq UNION ToSet(history)
      /\ page.token \in Nat \cup {NoToken} /\ page.total \in Nat
  BY <1>1, <1>2 DEF WorkRead
<1>4. page.total # NoTotal BY <1>3, CatalogueAssumption
<1>5. /\ HarnessFields(n.harness) /\ n.harness.records = h.records \cup page.ids
      /\ n.harness.cursor = page.token
      /\ n.harness.state = IF page.token = NoToken THEN "complete" ELSE "ready"
  BY <1>1, <1>3, <1>4, CommittedIs
<1>6. n.harness.state = "ready" => Offset(n.harness) \in Nat BY <1>3, <1>5 DEF Offset
<1>7. ~Holding(n) /\ ~HoldsPage(n) /\ Drift(n, history) = Drift(w, history)
  BY DEF Holding, HoldsPage, Drift
<1>8. catalogue \in Seq(Posts) /\ ToSet(catalogue) \in ToSet(history) BY HistoryFacts
<1>9. ASSUME Drift(n, history) <= 1
      PROVE  /\ n.harness.state = "ready" =>
                  \E L0 \in Lists, k0 \in 0..Offset(n.harness) :
                    Traced(n, L0, k0, catalogue, history)
             /\ n.harness.state = "complete" => Whole(n.harness, history)
  <2>1. PICK L0 \in Lists, k0 \in 0..Offset(h) : Traced(w, L0, k0, catalogue, history)
    BY <1>1, <1>3, <1>7, <1>9 DEF WorkRead
  <2>2. /\ L0 \in Seq(Posts) /\ ToSet(L0) \in ToSet(history) /\ Mixed(h, L0, k0, catalogue)
        /\ Drift(w, history) = 0 => L0 = catalogue /\ k0 = Offset(h)
        /\ Drift(w, history) = 1 => Changed(L0, catalogue)
        /\ \/ PageRead(page, catalogue, Offset(h))
           \/ k0 = Offset(h) /\ PageRead(page, L0, Offset(h))
    BY <1>1, <2>1 DEF Traced, Lists
  <2>3. Drift(w, history) = 0 \/ Drift(w, history) = 1
    BY <1>7, <1>9, HistoryFacts DEF WorkRead, Drift
  <2>4. CASE k0 = Offset(h) /\ PageRead(page, L0, Offset(h))
    <3>1. \/ n.harness.state = "complete" /\ n.harness.records = ToSet(L0)
          \/ /\ n.harness.state = "ready" /\ Offset(n.harness) \in Nat
             /\ Mixed(n.harness, L0, Offset(n.harness), catalogue)
      BY <1>1, <1>3, <1>8, <2>2, <2>4, EarlierPageCommits
    <3>2. n.harness.state = "complete" => Whole(n.harness, history)
      BY <2>2, <3>1 DEF Whole
    <3>3. ASSUME n.harness.state = "ready"
          PROVE  \E M0 \in Lists, m0 \in 0..Offset(n.harness) :
                    Traced(n, M0, m0, catalogue, history)
      <4>1. Offset(n.harness) \in 0..Offset(n.harness) BY <3>1, <3>3
      <4>2. Mixed(n.harness, L0, Offset(n.harness), catalogue) BY <3>1, <3>3
      <4>3. Traced(n, L0, Offset(n.harness), catalogue, history)
        BY <1>7, <2>2, <4>2 DEF Traced
      <4>4. QED BY <4>1, <4>3
    <3>4. QED BY <3>2, <3>3
  <2>5. CASE ~(k0 = Offset(h) /\ PageRead(page, L0, Offset(h)))
    <3>1. PageRead(page, catalogue, Offset(h)) /\ Drift(w, history) = 1
          /\ Changed(L0, catalogue)
      BY <2>2, <2>3, <2>5
    <3>2. \/ /\ n.harness.state = "complete"
             /\ Cardinality(n.harness.records) = n.harness.total
                  => n.harness.records \in {ToSet(L0), ToSet(catalogue)}
          \/ /\ n.harness.state = "ready" /\ Offset(n.harness) \in Nat
             /\ k0 \in 0..Offset(n.harness)
             /\ Mixed(n.harness, L0, k0, catalogue)
      BY <1>1, <1>3, <1>8, <2>2, <3>1, LaterPageCommits
    <3>3. n.harness.state = "complete" => Whole(n.harness, history)
      BY <1>8, <2>2, <3>2 DEF Whole
    <3>4. ASSUME n.harness.state = "ready"
          PROVE  \E M0 \in Lists, m0 \in 0..Offset(n.harness) :
                    Traced(n, M0, m0, catalogue, history)
      <4>1. k0 \in 0..Offset(n.harness) /\ Mixed(n.harness, L0, k0, catalogue)
        BY <3>2, <3>4
      <4>2. Traced(n, L0, k0, catalogue, history)
        BY <1>7, <2>2, <3>1, <4>1 DEF Traced
      <4>3. QED BY <4>1, <4>2
    <3>5. QED BY <3>3, <3>4
  <2>6. QED BY <2>4, <2>5
<1>10. n.harness.records \subseteq UNION ToSet(history) BY <1>3, <1>5
<1>11. n.since \in 1..Len(history) BY DEF WorkRead
<1>12. QED BY <1>5, <1>6, <1>7, <1>9, <1>10, <1>11 DEF WorkRead

(* The catalogue changes under a run that is reading it.                   *)
LEMMA ReadingAges ==
  ASSUME HistorySound, NEW w, WorkRead(w, catalogue, history),
         NEW later \in Seq(Posts), Changed(catalogue, later),
         NEW hist, hist = Append(history, ToSet(later))
  PROVE  WorkRead(w, later, hist)
<1>1. /\ Len(hist) = Len(history) + 1 /\ Len(history) \in Nat \ {0}
      /\ ToSet(history) \subseteq ToSet(hist)
      /\ UNION ToSet(history) \subseteq UNION ToSet(hist)
  <2>1. ToSet(later) \in SUBSET Posts BY ToSetIs
  <2>2. Len(hist) = Len(history) + 1 /\ ToSet(history) \subseteq ToSet(hist)
    BY <2>1, ToSetGrows DEF HistorySound
  <2>3. QED BY <2>2, HistoryFacts
<1>2. w.since \in 1..Len(history) /\ w.since \in 1..Len(hist) BY <1>1 DEF WorkRead
<1>3. Drift(w, hist) = Drift(w, history) + 1 /\ Drift(w, history) \in Nat
  BY <1>1, <1>2 DEF Drift
<1>4. ASSUME Drift(w, hist) <= 1, w.harness.state = "ready"
      PROVE  \E L0 \in Lists, k0 \in 0..Offset(w.harness) : Traced(w, L0, k0, later, hist)
  <2>1. Drift(w, history) = 0 /\ Drift(w, hist) = 1 BY <1>3, <1>4
  <2>2. PICK L0 \in Lists, k0 \in 0..Offset(w.harness) :
          Traced(w, L0, k0, catalogue, history)
    BY <1>4, <2>1 DEF WorkRead
  <2>3. /\ L0 = catalogue /\ k0 = Offset(w.harness) /\ ToSet(L0) \in ToSet(history)
        /\ Mixed(w.harness, L0, k0, catalogue)
        /\ HoldsPage(w) => PageRead(w.runner.answer.page, L0, Offset(w.harness))
    BY <2>1, <2>2 DEF Traced
  <2>4. Offset(w.harness) \in Nat BY <1>4 DEF WorkRead
  <2>5. Mixed(w.harness, L0, k0, later)
    <3>1. (k0 + 1)..Offset(w.harness) = {} BY <2>3, <2>4
    <3>2. Slice(later, k0 + 1, Offset(w.harness)) = Slice(catalogue, k0 + 1, Offset(w.harness))
      BY <3>1 DEF Slice
    <3>3. ~(k0 < Offset(w.harness)) BY <2>3, <2>4
    <3>4. QED BY <2>3, <3>2, <3>3 DEF Mixed
  <2>6. Traced(w, L0, k0, later, hist)
    BY <1>1, <2>1, <2>3, <2>5 DEF Traced
  <2>7. QED BY <2>2, <2>6
<1>5. ASSUME Drift(w, hist) <= 1, w.harness.state = "complete"
      PROVE  Whole(w.harness, hist)
  <2>1. Drift(w, history) <= 1 BY <1>3, <1>5
  <2>2. Whole(w.harness, history) BY <1>5, <2>1 DEF WorkRead
  <2>3. QED BY <1>1, <2>2 DEF Whole
<1>6. QED BY <1>1, <1>2, <1>4, <1>5 DEF WorkRead

-----------------------------------------------------------------------------
(* Every step keeps what the runs have read.                               *)
LEMMA ReadMoves ==
  ASSUME RunsSound, ReadInv, UNCHANGED <<catalogue, history, verdicts>>,
         NEW p \in Commands, NEW w, Keep(p, w),
         w.at \in WorkAts => WorkRead(w, catalogue, history)
  PROVE  ReadInv'
<1>1. run' = [run EXCEPT ![p] = w] /\ run = [q \in Commands |-> run[q]]
  BY DEF Keep, RunsSound
<1>2. \A q \in Commands : run'[q] = IF q = p THEN w ELSE run[q] BY <1>1
<1>3. ASSUME NEW q \in Commands, run'[q].at \in WorkAts
      PROVE  WorkRead(run'[q], catalogue', history')
  <2>1. CASE q = p
    <3>1. run'[q] = w BY <1>2, <2>1
    <3>2. QED BY <1>3, <3>1
  <2>2. CASE q # p
    <3>1. run'[q] = run[q] BY <1>2, <2>2
    <3>2. WorkRead(run[q], catalogue, history) BY <1>3, <3>1 DEF ReadInv
    <3>3. QED BY <3>1, <3>2
  <2>3. QED BY <2>1, <2>2
<1>4. HistorySound' /\ VerdictsTyped' /\ CompleteIsWhole'
  BY DEF ReadInv, HistorySound, VerdictsTyped, CompleteIsWhole
<1>5. QED BY <1>3, <1>4 DEF ReadInv

LEMMA AsideReads ==
  ASSUME RunsSound, ReadInv, UNCHANGED <<catalogue, history, verdicts>>,
         NEW p \in Commands, NEW w, Keep(p, w), Aside(w)
  PROVE  ReadInv'
<1>1. w.at \notin WorkAts BY DEF Aside, WorkAts, StoreAts
<1>2. QED BY <1>1, ReadMoves

LEMMA AtRead ==
  ASSUME ReadInv, NEW p \in Commands, run[p].at \in WorkAts
  PROVE  HistorySound /\ WorkRead(run[p], catalogue, history)
BY DEF ReadInv

LEMMA StillReads ==
  ASSUME ReadInv, UNCHANGED <<catalogue, history, verdicts, run>>
  PROVE  ReadInv'
BY DEF ReadInv, HistorySound, VerdictsTyped, CompleteIsWhole

LEMMA LoadReads ==
  ASSUME AskInv, ReadInv, NEW p \in Commands, Load(p)
  PROVE  ReadInv'
<1>1. UNCHANGED <<catalogue, history, verdicts>> BY DEF Load, ledger
<1>2. PICK stage : stage \in {"robots", "page"} /\ Keep(p, Working(stage, NewHarness, Got(NewRunner, stage)))
  BY DEF Load
<1>3. PICK r : r = Got(NewRunner, stage) OBVIOUS
<1>4. PICK w : w = Working(stage, NewHarness, r) OBVIOUS
<1>5. r.phase = "asking" BY <1>2, <1>3, GotTyped, NewRunnerTyped DEF Urls
<1>6. w = [at |-> "asking", stage |-> stage, opened |-> now, prior |-> Len(trail),
           index |-> Len(trail), runner |-> r, harness |-> NewHarness,
           code |-> None, since |-> Len(history)]
  BY <1>4 DEF Working
<1>7. w.since = Len(history) /\ w.harness = NewHarness /\ w.runner = r BY <1>6
<1>8. ~Holding(w) BY <1>5, <1>7 DEF Holding
<1>9. WorkRead(w, catalogue, history) BY <1>7, <1>8, ReadingStarts DEF ReadInv
<1>10. QED BY <1>1, <1>2, <1>3, <1>4, <1>9, ReadMoves DEF AskInv

LEMMA AskReads ==
  ASSUME AskInv, ReadInv, NEW p \in Commands, Ask(p)
  PROVE  ReadInv'
<1>1. UNCHANGED <<catalogue, history, verdicts>> BY DEF Ask, ledger
<1>2. PICK w, r : w = run[p] /\ r = run[p].runner OBVIOUS
<1>3. PICK a : a = IF AskFailure(r) = "none" THEN Sent(r) ELSE Failed(r, AskFailure(r))
  OBVIOUS
<1>4. PICK n : n = [w EXCEPT !.runner = a] OBVIOUS
<1>5. /\ Keep(p, n) /\ w.at = "asking" /\ r.phase = "asking"
  BY <1>2, <1>3, <1>4 DEF Ask, At
<1>6. WorkSound(w, trail) BY <1>2, <1>5, AtWork DEF WorkAts
<1>7. RunnerTyped(r) /\ r.failure = "none" BY <1>2, <1>5, <1>6 DEF WorkSound
<1>8. w = [at |-> w.at, stage |-> w.stage, opened |-> w.opened, prior |-> w.prior,
           index |-> w.index, runner |-> w.runner, harness |-> w.harness,
           code |-> w.code, since |-> w.since]
  BY <1>6 DEF WorkSound, WorkFields
<1>9. n = StepTo(w, w.at, w.stage, w.index, a, w.harness, w.code)
  BY <1>4, <1>8 DEF StepTo
<1>10. n.at = "asking" /\ n.runner = a /\ n.harness = w.harness /\ n.since = w.since
  BY <1>5, <1>9, StepToFields
<1>11. a.phase = "done" => a.failure # "none" BY <1>3, <1>5, <1>7, AskedTells
<1>12. ~Holding(n) BY <1>10, <1>11 DEF Holding
<1>13. HistorySound /\ WorkRead(w, catalogue, history)
  BY <1>2, <1>5, AtRead DEF WorkAts
<1>14. HarnessFields(w.harness) /\ w.harness.state = "ready"
  BY <1>5, <1>13 DEF WorkRead
<1>15. WorkRead(n, catalogue, history) BY <1>10, <1>12, <1>13, <1>14, ReadingStays
<1>16. QED BY <1>1, <1>5, <1>15, ReadMoves DEF AskInv

LEMMA FinalPage ==
  ASSUME lane \in {"article", "posts"}, NEW stage \in {"robots", "page"}, NEW h,
         NEW answer \in Answers(stage, h), answer.kind = "final"
  PROVE  answer.page = PostsAnswer(h) \/ answer.page = NoAnswer
<1>1. answer \in Finals(stage, h)
  <2>1. "redirect" # "final" /\ "final" \notin Troubles BY InventoryAssumption
  <2>2. QED BY <2>1 DEF Answers
<1>2. \A what : Final(what).page = NoAnswer BY DEF Final
<1>3. CASE stage = "robots"
  <2>1. Finals(stage, h) = {Final(w) : w \in RobotsAnswers} BY <1>3 DEF Finals
  <2>2. QED BY <1>1, <1>2, <2>1
<1>4. CASE stage = "page" /\ lane = "article"
  <2>1. Finals(stage, h) = {Final(e) : e \in Editions \cup {"refused"}} BY <1>4 DEF Finals
  <2>2. QED BY <1>1, <1>2, <2>1
<1>5. CASE stage = "page" /\ lane = "posts"
  <2>1. Finals(stage, h) = {[kind |-> "final", what |-> "page", page |-> PostsAnswer(h)],
                            Final("oversized")}
    BY <1>5 DEF Finals
  <2>2. QED BY <1>1, <1>2, <2>1
<1>6. QED BY <1>3, <1>4, <1>5

LEMMA AnswerReads ==
  ASSUME AskInv, ReadInv, NEW p \in Commands, Answer(p)
  PROVE  ReadInv'
<1>1. UNCHANGED <<catalogue, history, verdicts>> BY DEF Answer
<1>2. PICK w, asked : w = run[p] /\ asked = run[p].runner OBVIOUS
<1>3. w.at = "asking" /\ asked.phase = "wire" BY <1>2 DEF Answer, At
<1>4. PICK answer \in Answers(w.stage, w.harness), latency \in Latencies :
        LET r == Answered(asked, answer, Smaller(latency, Remaining(asked)))
            index == w.index + 1
        IN  IF Recordable(index, Entry(r))
            THEN /\ trail' = IF index > Len(trail) THEN Append(trail, Entry(r)) ELSE trail
                 /\ Keep(p, [w EXCEPT !.index = index, !.runner = Resolved(r)])
            ELSE Leave(p) /\ UNCHANGED trail
  BY <1>2 DEF Answer
<1>5. PICK r : r = Answered(asked, answer, Smaller(latency, Remaining(asked))) OBVIOUS
<1>6. PICK index : index = w.index + 1 OBVIOUS
<1>7. CASE ~Recordable(index, Entry(r))
  <2>1. Leave(p) BY <1>4, <1>5, <1>6, <1>7
  <2>2. Keep(p, NoRun) /\ Aside(NoRun) BY <2>1 DEF Leave, NoRun, Aside
  <2>3. QED BY <1>1, <2>2, AsideReads DEF AskInv
<1>8. CASE Recordable(index, Entry(r))
  <2>1. PICK a : a = Resolved(r) OBVIOUS
  <2>2. PICK n : n = [w EXCEPT !.index = index, !.runner = a] OBVIOUS
  <2>3. Keep(p, n) BY <1>4, <1>5, <1>6, <1>8, <2>1, <2>2
  <2>4. WorkSound(w, trail) BY <1>2, <1>3, AtWork DEF WorkAts
  <2>5. /\ RunnerTyped(asked) /\ asked.failure = "none" /\ w.stage \in {"robots", "page"}
    BY <1>2, <1>3, <2>4 DEF WorkSound
  <2>6. lane \in {"article", "posts"} BY DEF AskInv, EvidenceSound
  <2>7. answer.kind \in {"final", "redirect", "network_error", "http_429", "http_5xx"}
    BY <2>5, <2>6, AnswersTyped
  <2>8. /\ RunnerTyped(r) /\ r.phase = "wire" /\ r.failure = "none" /\ r.answer = answer
    BY <1>3, <1>5, <2>5, AnsweredTyped
  <2>9. /\ a.answer = answer
        /\ a.phase = "done" /\ a.failure = "none" => answer.kind = "final"
    BY <2>1, <2>7, <2>8, ResolvedTells
  <2>10. w = [at |-> w.at, stage |-> w.stage, opened |-> w.opened, prior |-> w.prior,
              index |-> w.index, runner |-> w.runner, harness |-> w.harness,
              code |-> w.code, since |-> w.since]
    BY <2>4 DEF WorkSound, WorkFields
  <2>11. n = StepTo(w, w.at, w.stage, index, a, w.harness, w.code)
    BY <2>2, <2>10 DEF StepTo
  <2>12. n.at = "asking" /\ n.runner = a /\ n.harness = w.harness /\ n.since = w.since
    BY <1>3, <2>11, StepToFields
  <2>13. Holding(n) => \/ n.runner.answer.page = PostsAnswer(w.harness)
                       \/ n.runner.answer.page = NoAnswer
    BY <2>5, <2>6, <2>9, <2>12, FinalPage DEF Holding
  <2>14. HistorySound /\ WorkRead(w, catalogue, history)
    BY <1>2, <1>3, AtRead DEF WorkAts
  <2>15. WorkRead(n, catalogue, history) BY <1>3, <2>12, <2>13, <2>14, ReadingSees
  <2>16. QED BY <1>1, <2>3, <2>15, ReadMoves DEF AskInv
<1>9. QED BY <1>7, <1>8

(* A run that goes to its verdict, or on to its pages, without an answer.  *)
LEMMA PlaceReads ==
  ASSUME AskInv, ReadInv, UNCHANGED <<catalogue, history, verdicts>>,
         NEW p \in Commands, run[p].at \in WorkAts,
         NEW at, NEW stage, NEW r, NEW h, NEW code, NEW n,
         n = StepTo(run[p], at, stage, run[p].index, r, h, code), Keep(p, n),
         HarnessFields(h), h.records = run[p].harness.records,
         h.cursor = run[p].harness.cursor, h.total = run[p].harness.total,
         h.state = run[p].harness.state \/ h.state \notin {"ready", "complete"},
         at = "asking" => h.state = "ready" /\ r.phase = "asking"
  PROVE  ReadInv'
<1>1. n.at = at /\ n.runner = r /\ n.harness = h /\ n.since = run[p].since
  BY StepToFields
<1>2. ~Holding(n) BY <1>1 DEF Holding
<1>3. HistorySound /\ WorkRead(run[p], catalogue, history) BY AtRead
<1>4. WorkRead(n, catalogue, history) BY <1>1, <1>2, <1>3, ReadingStays
<1>5. QED BY <1>4, ReadMoves DEF AskInv

LEMMA StopReads ==
  ASSUME AskInv, ReadInv, UNCHANGED <<catalogue, history, verdicts>>,
         NEW p \in Commands, run[p].at \in WorkAts, NEW code, Keep(p, Stopping(p, code))
  PROVE  ReadInv'
<1>1. CASE lane = "article"
  <2>1. Aside(Stopping(p, code)) BY <1>1, StopIsAside
  <2>2. QED BY <2>1, AsideReads DEF AskInv
<1>2. CASE lane # "article"
  <2>1. PICK w, n : w = run[p] /\ n = Stopping(p, code) OBVIOUS
  <2>2. n = [w EXCEPT !.at = "verdict", !.code = code] BY <1>2, <2>1 DEF Stopping
  <2>3. w = [at |-> w.at, stage |-> w.stage, opened |-> w.opened, prior |-> w.prior,
             index |-> w.index, runner |-> w.runner, harness |-> w.harness,
             code |-> w.code, since |-> w.since]
    BY <2>1, AtWork DEF WorkSound, WorkFields
  <2>4. n = StepTo(w, "verdict", w.stage, w.index, w.runner, w.harness, code)
    BY <2>2, <2>3 DEF StepTo
  <2>5. HarnessFields(w.harness) BY <2>1, AtRead DEF WorkRead
  <2>6. Keep(p, n) BY <2>1
  <2>7. w.at \in WorkAts /\ w = run[p] BY <2>1
  <2>8. PICK at : at = "verdict" OBVIOUS
  <2>9. n = StepTo(w, at, w.stage, w.index, w.runner, w.harness, code) BY <2>4, <2>8
  <2>10. at # "asking" BY <2>8
  <2>11. QED BY <2>5, <2>6, <2>7, <2>9, <2>10, PlaceReads
<1>3. QED BY <1>1, <1>2

LEMMA JudgeRobotsReads ==
  ASSUME AskInv, ReadInv, NEW p \in Commands, JudgeRobots(p)
  PROVE  ReadInv'
<1>1. UNCHANGED <<catalogue, history, verdicts>> BY DEF JudgeRobots
<1>2. PICK w : w = run[p] OBVIOUS
<1>3. w.at = "asking" /\ w.at \in WorkAts BY <1>2 DEF JudgeRobots, Done, At, WorkAts
<1>4. WorkSound(w, trail) /\ WorkRead(w, catalogue, history)
  BY <1>2, <1>3, AtWork, AtRead
<1>5. w = [at |-> w.at, stage |-> w.stage, opened |-> w.opened, prior |-> w.prior,
           index |-> w.index, runner |-> w.runner, harness |-> w.harness,
           code |-> w.code, since |-> w.since]
  BY <1>4 DEF WorkSound, WorkFields
<1>6. PICK n : n = AfterRobots(p) OBVIOUS
<1>7. Keep(p, n) BY <1>6 DEF JudgeRobots
<1>8. CASE \/ w.runner.failure # "none"
           \/ w.runner.answer.what \in {"refused", "denied"}
  <2>1. \E code : n = Stopping(p, code) BY <1>2, <1>6, <1>8 DEF AfterRobots
  <2>2. QED BY <1>1, <1>2, <1>3, <1>7, <2>1, StopReads
<1>9. CASE w.runner.failure = "none" /\ w.runner.answer.what \notin {"refused", "denied"}
  <2>1. PICK at : at = IF lane = "article" THEN "asking" ELSE "paging" OBVIOUS
  <2>2. PICK r : r = IF lane = "article" THEN Got(w.runner, "page") ELSE w.runner OBVIOUS
  <2>3. n = [w EXCEPT !.stage = "page", !.at = at, !.runner = r]
    BY <1>2, <1>6, <1>9, <2>1, <2>2 DEF AfterRobots
  <2>4. n = StepTo(w, at, "page", w.index, r, w.harness, w.code)
    BY <1>5, <2>3 DEF StepTo
  <2>5. RunnerTyped(w.runner) /\ HarnessFields(w.harness) /\ w.harness.state = "ready"
    BY <1>3, <1>4 DEF WorkSound, WorkRead
  <2>6. at = "asking" => r.phase = "asking"
    BY <2>1, <2>2, <2>5, GotTyped DEF Urls
  <2>7. QED BY <1>1, <1>2, <1>3, <1>7, <2>4, <2>5, <2>6, PlaceReads
<1>10. QED BY <1>8, <1>9

LEMMA NextPageReads ==
  ASSUME AskInv, ReadInv, NEW p \in Commands, NextPage(p)
  PROVE  ReadInv'
<1>1. UNCHANGED <<catalogue, history, verdicts>> BY DEF NextPage, ledger
<1>2. PICK w, h : w = run[p] /\ h = run[p].harness OBVIOUS
<1>3. w.at = "paging" /\ w.at \in WorkAts BY <1>2 DEF NextPage, At, WorkAts
<1>4. WorkSound(w, trail) /\ WorkRead(w, catalogue, history)
  BY <1>2, <1>3, AtWork, AtRead
<1>5. w = [at |-> w.at, stage |-> w.stage, opened |-> w.opened, prior |-> w.prior,
           index |-> w.index, runner |-> w.runner, harness |-> w.harness,
           code |-> w.code, since |-> w.since]
  BY <1>4 DEF WorkSound, WorkFields
<1>6. HarnessFields(h) /\ RunnerTyped(w.runner)
  BY <1>2, <1>4 DEF WorkSound, WorkRead
<1>7. PICK refusal : refusal = RequestRefusal(h, Bounds, TRUE) OBVIOUS
<1>8. \/ Keep(p, [w EXCEPT !.at = "verdict"])
      \/ Keep(p, [w EXCEPT !.at = "verdict",
                           !.harness = Stopped(h, RefusalState(refusal), refusal)])
      \/ /\ CanAsk(h)
         /\ Keep(p, [w EXCEPT !.at = "asking", !.harness = Asked(h),
                              !.runner = Got(w.runner, "page")])
  BY <1>2, <1>7 DEF NextPage
<1>9. CASE Keep(p, [w EXCEPT !.at = "verdict"])
  <2>1. PICK n : n = [w EXCEPT !.at = "verdict"] OBVIOUS
  <2>2. n = StepTo(w, "verdict", w.stage, w.index, w.runner, h, w.code)
    BY <1>2, <1>5, <2>1 DEF StepTo
  <2>3. Keep(p, n) BY <1>9, <2>1
  <2>4. PICK at : at = "verdict" OBVIOUS
  <2>5. n = StepTo(w, at, w.stage, w.index, w.runner, h, w.code) /\ at # "asking"
    BY <2>2, <2>4
  <2>6. QED BY <1>1, <1>2, <1>3, <1>6, <2>3, <2>5, PlaceReads
<1>10. CASE Keep(p, [w EXCEPT !.at = "verdict",
                              !.harness = Stopped(h, RefusalState(refusal), refusal)])
  <2>1. PICK g : g = Stopped(h, RefusalState(refusal), refusal) OBVIOUS
  <2>2. PICK n : n = [w EXCEPT !.at = "verdict", !.harness = g] OBVIOUS
  <2>3. PICK at : at = "verdict" OBVIOUS
  <2>4. n = StepTo(w, at, w.stage, w.index, w.runner, g, w.code)
    BY <1>5, <2>2, <2>3 DEF StepTo
  <2>5. Keep(p, n) /\ at # "asking" BY <1>10, <2>1, <2>2, <2>3
  <2>6. /\ HarnessFields(g) /\ g.state = RefusalState(refusal) /\ g.records = h.records
        /\ g.cursor = h.cursor /\ g.total = h.total
    BY <1>6, <2>1, StoppedIs
  <2>7. g.state \notin {"ready", "complete"} BY <2>6 DEF RefusalState
  <2>8. QED BY <1>1, <1>2, <1>3, <2>4, <2>5, <2>6, <2>7, PlaceReads
<1>11. CASE /\ CanAsk(h)
            /\ Keep(p, [w EXCEPT !.at = "asking", !.harness = Asked(h),
                                 !.runner = Got(w.runner, "page")])
  <2>1. PICK g : g = Asked(h) OBVIOUS
  <2>2. PICK r : r = Got(w.runner, "page") OBVIOUS
  <2>3. PICK n : n = [w EXCEPT !.at = "asking", !.harness = g, !.runner = r] OBVIOUS
  <2>4. PICK at : at = "asking" OBVIOUS
  <2>5. n = StepTo(w, at, w.stage, w.index, r, g, w.code)
    BY <1>5, <2>3, <2>4 DEF StepTo
  <2>6. Keep(p, n) BY <1>11, <2>1, <2>2, <2>3
  <2>7. /\ HarnessFields(g) /\ g.state = h.state /\ g.records = h.records
        /\ g.cursor = h.cursor /\ g.total = h.total
    BY <1>6, <2>1, HarnessAskedIs
  <2>8. g.state = "ready" BY <1>11, <2>7 DEF CanAsk
  <2>9. r.phase = "asking" BY <1>6, <2>2, GotTyped DEF Urls
  <2>10. QED BY <1>1, <1>2, <1>3, <2>5, <2>6, <2>7, <2>8, <2>9, PlaceReads
<1>12. QED BY <1>8, <1>9, <1>10, <1>11

LEMMA JudgePostsReads ==
  ASSUME AskInv, ReadInv, NEW p \in Commands, JudgePosts(p)
  PROVE  ReadInv'
<1>1. UNCHANGED <<catalogue, history, verdicts>> BY DEF JudgePosts, ledger
<1>2. PICK w, h : w = run[p] /\ h = run[p].harness OBVIOUS
<1>3. w.at = "asking" /\ w.runner.phase = "done" /\ w.at \in WorkAts
  BY <1>2 DEF JudgePosts, Done, At, WorkAts
<1>4. HistorySound /\ WorkSound(w, trail) /\ WorkRead(w, catalogue, history)
  BY <1>2, <1>3, AtWork, AtRead
<1>5. w = [at |-> w.at, stage |-> w.stage, opened |-> w.opened, prior |-> w.prior,
           index |-> w.index, runner |-> w.runner, harness |-> w.harness,
           code |-> w.code, since |-> w.since]
  BY <1>4 DEF WorkSound, WorkFields
<1>6. HarnessFields(h) /\ h.state = "ready" BY <1>2, <1>3, <1>4 DEF WorkRead
<1>7. \/ \E code : Keep(p, Stopping(p, code))
      \/ /\ w.runner.failure = "none"
         /\ Keep(p, [w EXCEPT !.at = "paging",
                              !.harness = Ingested(h, PageResponse(w.runner))])
  BY <1>2 DEF JudgePosts
<1>8. ASSUME NEW code, Keep(p, Stopping(p, code)) PROVE ReadInv'
  BY <1>1, <1>2, <1>3, <1>8, StopReads
<1>9. CASE /\ w.runner.failure = "none"
           /\ Keep(p, [w EXCEPT !.at = "paging",
                                !.harness = Ingested(h, PageResponse(w.runner))])
  <2>1. PICK page : page = PageResponse(w.runner) OBVIOUS
  <2>2. PICK g : g = Ingested(h, page) OBVIOUS
  <2>3. PICK n : n = [w EXCEPT !.at = "paging", !.harness = g] OBVIOUS
  <2>4. PICK at : at = "paging" OBVIOUS
  <2>5. n = StepTo(w, at, w.stage, w.index, w.runner, g, w.code)
    BY <1>5, <2>3, <2>4 DEF StepTo
  <2>6. Keep(p, n) /\ at # "asking" BY <1>9, <2>1, <2>2, <2>3, <2>4
  <2>7. Holding(w) BY <1>3, <1>9 DEF Holding
  <2>8. w.runner.answer.page.kind \in {"page", "changed", "none"}
    BY <1>4, <2>7 DEF WorkRead
  <2>9. page = w.runner.answer.page \/ page.kind = "changed"
    BY <2>1 DEF PageResponse
  <2>10. ASSUME NEW state, NEW reason, g = Stopped(h, state, reason),
                state \notin {"ready", "complete"}
         PROVE  ReadInv'
    <3>1. /\ HarnessFields(g) /\ g.state = state /\ g.records = h.records
          /\ g.cursor = h.cursor /\ g.total = h.total
      BY <1>6, <2>10, StoppedIs
    <3>2. g.state \notin {"ready", "complete"} BY <2>10, <3>1
    <3>3. QED BY <1>1, <1>2, <1>3, <2>5, <2>6, <3>1, <3>2, PlaceReads
  <2>11. CASE page.kind # "page"
    <3>1. g = Stopped(h, page.kind, page.reason) BY <2>2, <2>11 DEF Ingested
    <3>2. page.kind \notin {"ready", "complete"} BY <2>8, <2>9
    <3>3. QED BY <2>10, <3>1, <3>2
  <2>12. CASE page.kind = "page" /\ PageDefect(h, page) # "none"
    <3>1. g = Stopped(h, "changed", PageDefect(h, page)) BY <2>2, <2>12 DEF Ingested
    <3>2. QED BY <2>10, <3>1
  <2>13. CASE page.kind = "page" /\ PageDefect(h, page) = "none"
    <3>1. g = Committed(h, page) BY <2>2, <2>13 DEF Ingested
    <3>2. page = w.runner.answer.page BY <2>9, <2>13
    <3>3. HoldsPage(w) BY <2>7, <2>13, <3>2 DEF HoldsPage
    <3>4. n.at = "paging" /\ n.since = w.since /\ n.harness = g
      BY <2>4, <2>5, StepToFields
    <3>5. WorkRead(n, catalogue, history)
      BY <1>2, <1>4, <2>13, <3>1, <3>2, <3>3, <3>4, ReadingCommits
    <3>6. QED BY <1>1, <2>6, <3>5, ReadMoves DEF AskInv
  <2>14. QED BY <2>11, <2>12, <2>13
<1>10. QED BY <1>7, <1>8, <1>9

LEMMA VerdictTells ==
  ASSUME NEW h, NEW failure
  PROVE  /\ Verdict(h, failure) \in {"complete", "bounded_partial", "blocked"}
         /\ Verdict(h, failure) = "complete" =>
              /\ h.state = "complete" /\ h.total # NoTotal
              /\ Cardinality(h.records) = h.total
<1>1. \A reason, state : StopResult(reason, state) \in {"bounded_partial", "blocked"}
  BY DEF StopResult
<1>2. CASE failure # None
  <2>1. Verdict(h, failure) = StopResult(failure, "none") BY <1>2 DEF Verdict
  <2>2. QED BY <1>1, <2>1
<1>3. CASE failure = None /\ h.state = "complete"
  <2>1. Verdict(h, failure) = IF h.total # NoTotal /\ Cardinality(h.records) = h.total
                              THEN "complete" ELSE "blocked"
    BY <1>3 DEF Verdict
  <2>2. QED BY <1>3, <2>1
<1>4. CASE failure = None /\ h.state # "complete"
  <2>1. Verdict(h, failure) = StopResult(h.reason, h.state) BY <1>4 DEF Verdict
  <2>2. QED BY <1>1, <2>1
<1>5. QED BY <1>2, <1>3, <1>4

LEMMA RecordVerdictReads ==
  ASSUME AskInv, ReadInv, NEW p \in Commands, RecordVerdict(p)
  PROVE  ReadInv'
<1>1. UNCHANGED <<catalogue, history>> BY DEF RecordVerdict
<1>2. PICK w, h : w = run[p] /\ h = run[p].harness OBVIOUS
<1>3. w.at \in WorkAts BY <1>2 DEF RecordVerdict, At, WorkAts
<1>4. HistorySound /\ WorkRead(w, catalogue, history) BY <1>2, <1>3, AtRead
<1>5. PICK m : m = PostsManifest(p) OBVIOUS
<1>6. verdicts' = Append(verdicts, m) /\ Keep(p, [at |-> "manifest", verdict |-> m])
  BY <1>5 DEF RecordVerdict
<1>7. m = [result |-> Verdict(h, w.code), ids |-> h.records,
           changes |-> Len(history) - w.since]
  BY <1>2, <1>5 DEF PostsManifest
<1>8. /\ m.result = Verdict(h, w.code) /\ m.ids = h.records
      /\ m.changes = Drift(w, history)
  BY <1>7 DEF Drift
<1>9. h.records \subseteq UNION ToSet(history) /\ Drift(w, history) \in Nat
  BY <1>2, <1>4, HistoryFacts DEF WorkRead, Drift
<1>10. m \in VerdictRow
  <2>1. h.records \in SUBSET Posts BY <1>4, <1>9, HistoryFacts
  <2>2. Verdict(h, w.code) \in {"complete", "bounded_partial", "blocked"} BY VerdictTells
  <2>3. Len(history) - w.since \in Nat BY <1>9 DEF Drift
  <2>4. QED BY <1>7, <2>1, <2>2, <2>3 DEF VerdictRow
<1>11. m.result = "complete" =>
         /\ m.ids \subseteq UNION ToSet(history)
         /\ m.changes <= 1 => m.ids \in ToSet(history)
  <2>1. SUFFICES ASSUME m.result = "complete"
                 PROVE  m.changes <= 1 => m.ids \in ToSet(history)
    BY <1>8, <1>9
  <2>2. /\ h.state = "complete" /\ h.total # NoTotal
        /\ Cardinality(h.records) = h.total
    BY <1>8, <2>1, VerdictTells
  <2>3. Drift(w, history) <= 1 => Whole(h, history) BY <1>2, <1>4, <2>2 DEF WorkRead
  <2>4. QED BY <1>8, <2>2, <2>3 DEF Whole
<1>12. verdicts \in Seq(VerdictRow) BY DEF ReadInv, VerdictsTyped
<1>13. /\ verdicts' \in Seq(VerdictRow) /\ Len(verdicts') = Len(verdicts) + 1
       /\ \A i \in 1..Len(verdicts) : verdicts'[i] = verdicts[i]
       /\ verdicts'[Len(verdicts) + 1] = m /\ Len(verdicts) \in Nat
  BY <1>6, <1>10, <1>12
<1>14. VerdictsTyped' BY <1>13 DEF VerdictsTyped
<1>15. ASSUME NEW i \in DOMAIN verdicts', verdicts'[i].result = "complete"
       PROVE  /\ verdicts'[i].ids \subseteq UNION ToSet(history)
              /\ verdicts'[i].changes <= 1 => verdicts'[i].ids \in ToSet(history)
  <2>1. i \in 1..(Len(verdicts) + 1) BY <1>13
  <2>2. CASE i \in 1..Len(verdicts)
    <3>1. verdicts'[i] = verdicts[i] /\ i \in DOMAIN verdicts BY <1>12, <1>13, <2>2
    <3>2. QED BY <1>15, <3>1 DEF ReadInv, CompleteIsWhole
  <2>3. CASE i \notin 1..Len(verdicts)
    <3>1. i = Len(verdicts) + 1 BY <1>13, <2>1, <2>3
    <3>2. verdicts'[i] = m BY <1>13, <3>1
    <3>3. QED BY <1>11, <1>15, <3>2
  <2>4. QED BY <2>2, <2>3
<1>16. CompleteIsWhole' BY <1>1, <1>15 DEF CompleteIsWhole
<1>17. HistorySound' BY <1>1, <1>4 DEF HistorySound
<1>18. ASSUME NEW q \in Commands, run'[q].at \in WorkAts
       PROVE  WorkRead(run'[q], catalogue', history')
  <2>1. run' = [run EXCEPT ![p] = [at |-> "manifest", verdict |-> m]]
        /\ run = [c \in Commands |-> run[c]]
    BY <1>6 DEF Keep, AskInv, RunsSound
  <2>2. q # p
    <3>1. SUFFICES ASSUME q = p PROVE FALSE OBVIOUS
    <3>2. run'[q] = [at |-> "manifest", verdict |-> m] BY <2>1, <3>1
    <3>3. QED BY <1>18, <3>2 DEF WorkAts
  <2>3. run'[q] = run[q] BY <2>1, <2>2
  <2>4. QED BY <1>1, <1>18, <2>3 DEF ReadInv
<1>19. QED BY <1>14, <1>16, <1>17, <1>18 DEF ReadInv

LEMMA ChangeReads ==
  ASSUME ReadInv, ChangeCatalogue
  PROVE  ReadInv'
<1>1. HistorySound /\ catalogue \in Seq(Posts) BY DEF ReadInv, HistorySound
<1>2. Changed(catalogue, catalogue') /\ history' = Append(history, ToSet(catalogue'))
  BY DEF ChangeCatalogue, Changed
<1>3. UNCHANGED <<run, verdicts>> BY DEF ChangeCatalogue, ledger
<1>4. catalogue' \in Seq(Posts) BY <1>1, <1>2, ChangedIs
<1>5. ToSet(catalogue') \in SUBSET Posts BY <1>4, ToSetIs
<1>6. /\ history' \in Seq(SUBSET Posts) /\ Len(history') = Len(history) + 1
      /\ history'[Len(history) + 1] = ToSet(catalogue')
      /\ ToSet(history) \subseteq ToSet(history')
  BY <1>2, <1>5, <1>1, ToSetGrows DEF HistorySound
<1>7. HistorySound'
  <2>1. Len(history') # 0 BY <1>6, <1>1, HistoryFacts
  <2>2. history' # << >> BY <2>1
  <2>3. QED BY <1>4, <1>6, <2>2 DEF HistorySound
<1>8. CompleteIsWhole'
  <2>1. UNION ToSet(history) \subseteq UNION ToSet(history') BY <1>6
  <2>2. QED BY <1>3, <1>6, <2>1 DEF ReadInv, CompleteIsWhole
<1>9. VerdictsTyped' BY <1>3 DEF ReadInv, VerdictsTyped
<1>10. ASSUME NEW p \in Commands, run'[p].at \in WorkAts
       PROVE  WorkRead(run'[p], catalogue', history')
  <2>1. run'[p] = run[p] BY <1>3
  <2>2. WorkRead(run[p], catalogue, history) BY <1>10, <2>1 DEF ReadInv
  <2>3. QED BY <1>1, <1>2, <1>4, <2>1, <2>2, ReadingAges
<1>11. QED BY <1>7, <1>8, <1>9, <1>10 DEF ReadInv

LEMMA ReadInit == InventoryInit => ReadInv
<1>1. SUFFICES ASSUME InventoryInit PROVE ReadInv OBVIOUS
<1>2. catalogue \in Seq(Posts)
  <2>1. catalogue \in Catalogues \/ catalogue = << >> BY <1>1 DEF InventoryInit
  <2>2. Catalogues \subseteq Seq(Posts) BY CatalogueAssumption
  <2>3. CASE catalogue \in Catalogues BY <2>2, <2>3
  <2>4. CASE catalogue = << >> BY <2>4
  <2>5. QED BY <2>1, <2>3, <2>4
<1>3. history = <<ToSet(catalogue)>> /\ verdicts = << >> BY <1>1 DEF InventoryInit
<1>4. ToSet(catalogue) \in SUBSET Posts BY <1>2, ToSetIs
<1>5. HistorySound BY <1>2, <1>3, <1>4 DEF HistorySound
<1>6. VerdictsTyped /\ CompleteIsWhole BY <1>3 DEF VerdictsTyped, CompleteIsWhole
<1>7. \A p \in Commands : run[p].at \notin WorkAts
  BY <1>1 DEF InventoryInit, WorkAts
<1>8. QED BY <1>5, <1>6, <1>7 DEF ReadInv

LEMMA ReadNext ==
  AskInv /\ ReadInv /\ [InventoryNext]_inventoryVars => ReadInv'
<1>1. SUFFICES ASSUME AskInv, ReadInv, [InventoryNext]_inventoryVars PROVE ReadInv'
  OBVIOUS
<1>2. CASE UNCHANGED inventoryVars
  <2>1. UNCHANGED <<catalogue, history, verdicts, run>> BY <1>2 DEF inventoryVars, ledger
  <2>2. QED BY <1>1, <2>1, StillReads
<1>3. CASE Tick
  <2>1. UNCHANGED <<catalogue, history, verdicts, run>> BY <1>3 DEF Tick, ledger
  <2>2. QED BY <1>1, <2>1, StillReads
<1>4. CASE ChangeCatalogue BY <1>1, <1>4, ChangeReads
<1>5. ASSUME NEW p \in Commands,
             \/ Replay(p) \/ Open(p) \/ Load(p) \/ Ask(p) \/ Answer(p) \/ JudgeRobots(p)
             \/ JudgeArticle(p) \/ StoreAsset(p) \/ Verify(p) \/ BlockAsset(p)
             \/ BlockState(p) \/ BlockEvidence(p) \/ StoreJob(p) \/ StoreBounds(p)
             \/ WriteArticle(p) \/ NextPage(p) \/ JudgePosts(p) \/ RecordVerdict(p)
             \/ WritePosts(p) \/ Crash(p)
      PROVE  ReadInv'
  <2>1. RunsSound BY <1>1 DEF AskInv
  <2>2. CASE \/ StoreAsset(p) \/ Verify(p) \/ BlockAsset(p) \/ BlockState(p)
             \/ BlockEvidence(p) \/ StoreJob(p) \/ StoreBounds(p)
    BY <1>1, <2>1, <2>2, RecordMoves, AsideReads
  <2>3. CASE Replay(p) \/ Open(p) \/ WriteArticle(p) \/ WritePosts(p) \/ Crash(p)
    <3>1. UNCHANGED verdicts
      BY <2>3 DEF Replay, Open, WriteArticle, WritePosts, Crash, ledger
    <3>2. QED BY <1>1, <2>1, <2>3, <3>1, EdgeMoves, AsideReads
  <2>4. CASE Load(p) BY <1>1, <2>4, LoadReads
  <2>5. CASE Ask(p) BY <1>1, <2>5, AskReads
  <2>6. CASE Answer(p) BY <1>1, <2>6, AnswerReads
  <2>7. CASE JudgeRobots(p) BY <1>1, <2>7, JudgeRobotsReads
  <2>8. CASE JudgeArticle(p) BY <1>1, <2>1, <2>8, ArticleMoves, AsideReads
  <2>9. CASE NextPage(p) BY <1>1, <2>9, NextPageReads
  <2>10. CASE JudgePosts(p) BY <1>1, <2>10, JudgePostsReads
  <2>11. CASE RecordVerdict(p) BY <1>1, <2>11, RecordVerdictReads
  <2>12. QED
    BY <1>5, <2>2, <2>3, <2>4, <2>5, <2>6, <2>7, <2>8, <2>9, <2>10, <2>11
<1>6. CASE Rest BY <1>2, <1>6 DEF Rest
<1>7. QED BY <1>1, <1>2, <1>3, <1>4, <1>5, <1>6 DEF InventoryNext

(* A complete verdict holds what the catalogue held, and all of it as it   *)
(* stood at one moment unless the catalogue changed twice under the run.   *)
THEOREM CompleteHolds == InventorySpec => []CompleteIsWhole
<1>1. InventoryInit => AskInv /\ ReadInv BY AskInit, ReadInit
<1>2. AskInv /\ ReadInv /\ [InventoryNext]_inventoryVars => AskInv' /\ ReadInv'
  BY AskNext, ReadNext
<1>3. InventorySpec => [](AskInv /\ ReadInv)
  BY <1>1, <1>2, PTL DEF InventorySpec
<1>4. ReadInv => CompleteIsWhole BY DEF ReadInv
<1>5. QED BY <1>3, <1>4, PTL
=============================================================================
