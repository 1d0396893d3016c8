----------------------------- MODULE TrustedVMWorker -----------------------------
(***************************************************************************)
(* The trusted-VM worker (src/src/performing_fire_corpus/                  *)
(* trusted_vm_worker.py): supervised calls that claim an approved job,     *)
(* acquire its one exact raw object and complete it, over a control plane, *)
(* a source-attempt authority, a ledger of receipts and an object store    *)
(* that several of them share.                                             *)
(*                                                                         *)
(* All jobs of an instance name the same exact key, as a job and its       *)
(* separately reviewed retry do; RunOf gives their creation_run_id.        *)
(* Every request to an outside authority is a step; two reads in a row are *)
(* one step where only the later of them decides.  Any request may fail,   *)
(* any budget run out and any process die: MaxFaults bounds how often.     *)
(***************************************************************************)
EXTENDS Naturals, FiniteSets

CONSTANTS Workers, Jobs, RunOf, MaxFaults, NoWorker, NoJob, NoReceipt

Dispositions == {"created", "reused", "reused_after_ambiguous_create"}
Runs == {RunOf[j] : j \in Jobs}
Receipt == [run : Runs, disposition : Dispositions]

ASSUME WorkerAssumption ==
  /\ DOMAIN RunOf = Jobs /\ MaxFaults \in Nat
  /\ NoWorker \notin Workers /\ NoJob \notin Jobs /\ NoReceipt \notin Receipt

VARIABLES
  jobs,       \* control plane: state, current lease and last checkpoint
  attempts,   \* source-attempt authority: the jobs with a reserved attempt
  receipt,    \* ledger: the durable receipt of the key
  tombstone,  \* ledger: the key has a cleanup tombstone
  store,      \* the bucket: what the key holds
  workers,    \* the local state of each supervised call
  requests,   \* history: source requests made for each job
  removed,    \* history: a cleanup has deleted the object
  faults      \* faults so far

vars == <<jobs, attempts, receipt, tombstone, store, workers, requests,
          removed, faults>>
world == <<attempts, receipt, tombstone, store, requests, removed, faults>>

Job == [state : {"queued", "leased", "blocked", "completed"},
        holder : Workers \cup {NoWorker}, expired : BOOLEAN, checkpoint : 0..2]

Acquiring == {"check", "head", "recover", "rehead", "reserve", "open", "stream",
              "durable", "head2", "create", "verify", "persist"}
Worker == [pc : {"idle", "confirm", "beat", "checkpoint", "final", "complete"} \cup Acquiring,
           job : Jobs \cup {NoJob}, receipt : Receipt \cup {NoReceipt}]
Idle == [pc |-> "idle", job |-> NoJob, receipt |-> NoReceipt]

\* The key may hold the right bytes, or others, before any job runs.
Init ==
  /\ jobs = [j \in Jobs |-> [state |-> "queued", holder |-> NoWorker,
                             expired |-> FALSE, checkpoint |-> 0]]
  /\ attempts = {} /\ receipt = NoReceipt /\ tombstone = FALSE
  /\ store \in {"absent", "foreign", "exact"}
  /\ workers = [w \in Workers |-> Idle]
  /\ requests = [j \in Jobs |-> 0] /\ removed = FALSE /\ faults = 0

-----------------------------------------------------------------------------
(***************************************************************************)
(* The control plane: a call that names a lease which is not the current   *)
(* one of its job is refused                                               *)
(***************************************************************************)
JobOf(w) == workers[w].job
Current(w) == jobs[JobOf(w)].holder = w
Holds(w) == Current(w) /\ ~jobs[JobOf(w)].expired

Becomes(w, row) ==
  jobs' = IF Current(w) THEN [jobs EXCEPT ![JobOf(w)] = row] ELSE jobs
Unleased(w, state) ==
  [jobs[JobOf(w)] EXCEPT !.state = state, !.holder = NoWorker, !.expired = FALSE]
Ends(w) == workers' = [workers EXCEPT ![w] = Idle]

MutBlockForgotten(w) == Ends(w) /\ UNCHANGED jobs
\* A blocker holds the job; a release makes it claimable again.
Blocks(w) == Ends(w) /\ Becomes(w, Unleased(w, "blocked"))
Releases(w) == Ends(w) /\ Becomes(w, Unleased(w, "queued"))

Goes(w, pc) == workers' = [workers EXCEPT ![w].pc = pc]
GoesWith(w, pc, r) == workers' = [workers EXCEPT ![w].pc = pc, ![w].receipt = r]

\* A step from one point of the call to the next, or to a blocker.
Passes(w, from, to, ok) ==
  /\ workers[w].pc = from
  /\ IF ok THEN Goes(w, to) /\ UNCHANGED jobs ELSE Blocks(w)
  /\ UNCHANGED world

-----------------------------------------------------------------------------
(***************************************************************************)
(* run_trusted_vm_worker_once, up to the executor                          *)
(***************************************************************************)
\* claim_one hands out a queued job, or a leased one whose lease has expired.
Claim(w, j) ==
  /\ workers[w].pc = "idle"
  /\ jobs[j].state = "queued" \/ (jobs[j].state = "leased" /\ jobs[j].expired)
  /\ workers' = [workers EXCEPT ![w] = [Idle EXCEPT !.pc = "confirm", !.job = j]]
  /\ jobs' = [jobs EXCEPT ![j].state = "leased", ![j].holder = w, ![j].expired = FALSE]
  /\ UNCHANGED world

\* Recording a checkpoint; the call ends where the control plane refuses.
Records(w, sequence, pc) ==
  /\ IF Current(w) THEN Goes(w, pc) ELSE Ends(w)
  /\ Becomes(w, [jobs[JobOf(w)] EXCEPT !.checkpoint = sequence])
  /\ UNCHANGED world

ConfirmAuthority(w) == workers[w].pc = "confirm" /\ Records(w, 1, "beat")
\* The authority is resolved again, then the lease is renewed.
Heartbeat(w) == Passes(w, "beat", "check", Holds(w))

-----------------------------------------------------------------------------
(***************************************************************************)
(* acquire_one                                                             *)
(***************************************************************************)
CheckBeforeHead(w) == Passes(w, "check", "head", Holds(w) /\ ~tombstone)

HeadBeforeSource(w) ==
  Passes(w, "head", IF store = "absent" THEN "reserve" ELSE "recover",
         store # "foreign")

MutFreshReceipt(w) == [run |-> RunOf[JobOf(w)], disposition |-> "reused"]
\* The receipt of an object that is already there: the durable one, or "reused".
Recovered(w) ==
  IF receipt # NoReceipt THEN receipt
  ELSE [run |-> RunOf[JobOf(w)], disposition |-> "reused"]

RecoverExisting(w) ==
  /\ workers[w].pc = "recover"
  /\ IF ~tombstone /\ Recovered(w).run = RunOf[JobOf(w)]
       THEN GoesWith(w, "rehead", Recovered(w)) /\ UNCHANGED jobs
       ELSE Blocks(w)
  /\ UNCHANGED world

Reconcile(w) == Passes(w, "rehead", "persist", store = "exact")

MutNoReservation(w) == TRUE
FirstAttempt(w) == JobOf(w) \notin attempts

\* One source attempt per job, durable before the request.
ReserveAttempt(w) ==
  /\ workers[w].pc = "reserve"
  /\ attempts' = IF Holds(w) THEN attempts \cup {JobOf(w)} ELSE attempts
  /\ IF Holds(w) /\ FirstAttempt(w)
       THEN Goes(w, "open") /\ UNCHANGED jobs
       ELSE Blocks(w)
  /\ UNCHANGED <<receipt, tombstone, store, requests, removed, faults>>

OpenSource(w) ==
  /\ workers[w].pc = "open"
  /\ IF Holds(w) /\ ~tombstone
       THEN /\ requests' = [requests EXCEPT ![JobOf(w)] = @ + 1]
            /\ Goes(w, "stream") /\ UNCHANGED jobs
       ELSE Blocks(w) /\ UNCHANGED requests
  /\ UNCHANGED <<attempts, receipt, tombstone, store, removed, faults>>

\* The last checks of the lease and of the tombstone before the object.
Stream(w) == Passes(w, "stream", "durable", Holds(w) /\ ~tombstone)

\* immutable_create_and_verify: the durable receipt must be this run's.
ReadDurable(w) ==
  /\ workers[w].pc = "durable"
  /\ IF ~tombstone /\ (receipt # NoReceipt => receipt.run = RunOf[JobOf(w)])
       THEN GoesWith(w, "head2", receipt) /\ UNCHANGED jobs
       ELSE Blocks(w)
  /\ UNCHANGED world

Reused(w) == [run |-> RunOf[JobOf(w)], disposition |-> "reused"]

HeadBeforeCreate(w) == LET known == workers[w].receipt # NoReceipt IN
  /\ workers[w].pc = "head2"
  /\ \/ store = "exact" /\ known /\ Goes(w, "persist") /\ UNCHANGED jobs
     \/ store = "exact" /\ ~known /\ GoesWith(w, "verify", Reused(w)) /\ UNCHANGED jobs
     \/ store = "absent" /\ ~known /\ Goes(w, "create") /\ UNCHANGED jobs
     \/ (store = "foreign" \/ (store = "absent" /\ known)) /\ Blocks(w)
  /\ UNCHANGED world

Disposition(applied, replied) ==
  IF ~replied THEN "reused_after_ambiguous_create"
  ELSE IF applied THEN "created" ELSE "reused"

\* The conditional create; its reply may be lost, with or without its effect.
CreateIfAbsent(w) ==
  /\ workers[w].pc = "create"
  /\ \E applied, replied \in BOOLEAN :
       /\ replied \/ faults < MaxFaults
       /\ faults' = IF replied THEN faults ELSE faults + 1
       /\ IF store # "absent" THEN ~applied ELSE (replied => applied)
       /\ store' = IF applied THEN "exact" ELSE store
       /\ GoesWith(w, "verify", [run |-> RunOf[JobOf(w)],
                                 disposition |-> Disposition(applied, replied)])
  /\ UNCHANGED <<jobs, attempts, receipt, tombstone, requests, removed>>

VerifyCreated(w) == Passes(w, "verify", "persist", store = "exact")

MutConflictIgnored(w) == TRUE
\* Ledger.upsert: one receipt for the key, which may be written again.
Accepted(w) == receipt \in {NoReceipt, workers[w].receipt}

Persist(w) ==
  /\ workers[w].pc = "persist"
  /\ IF Accepted(w)
       THEN /\ receipt' = IF receipt = NoReceipt THEN workers[w].receipt ELSE receipt
            /\ Goes(w, "checkpoint") /\ UNCHANGED jobs
       ELSE Blocks(w) /\ UNCHANGED receipt
  /\ UNCHANGED <<attempts, tombstone, store, requests, removed, faults>>

-----------------------------------------------------------------------------
(***************************************************************************)
(* run_trusted_vm_worker_once, after the executor                          *)
(***************************************************************************)
CheckpointVerified(w) == workers[w].pc = "checkpoint" /\ Records(w, 2, "final")
FinalHeartbeat(w) == Passes(w, "final", "complete", Holds(w))

Complete(w) ==
  /\ workers[w].pc = "complete"
  /\ Ends(w) /\ Becomes(w, Unleased(w, "completed"))
  /\ UNCHANGED world

-----------------------------------------------------------------------------
(***************************************************************************)
(* Faults, and what others do                                              *)
(***************************************************************************)
Fault == faults < MaxFaults /\ faults' = faults + 1
KeepRecords == UNCHANGED <<receipt, tombstone, store, requests, removed>>

\* A request fails, a budget is exceeded or an authority is not current: the
\* executor and the supervisor block the job.  The reply of a reservation may
\* be lost after it was recorded.
Fails(w) ==
  /\ Fault /\ workers[w].pc \notin {"idle", "checkpoint", "complete"}
  /\ Blocks(w) /\ KeepRecords
  /\ \/ UNCHANGED attempts
     \/ workers[w].pc = "reserve" /\ attempts' = attempts \cup {JobOf(w)}

\* A contract failure or an interrupt inside the executor.
Interrupted(w) ==
  /\ Fault /\ workers[w].pc \in Acquiring
  /\ Releases(w) /\ KeepRecords /\ UNCHANGED attempts

\* The process dies, or a call the supervisor does not catch raises.
Dies(w) ==
  /\ Fault /\ workers[w].pc # "idle"
  /\ Ends(w) /\ KeepRecords /\ UNCHANGED <<jobs, attempts>>

\* The lease of a worker that is gone runs out; a slow one's may, too.
Abandoned(j) == jobs[j].holder # NoWorker /\ workers[jobs[j].holder].job # j
Lapse(j) ==
  /\ jobs' = [jobs EXCEPT ![j].expired = TRUE]
  /\ UNCHANGED <<workers, attempts>> /\ KeepRecords
Expire(j) ==
  /\ jobs[j].state = "leased" /\ ~jobs[j].expired
  /\ Lapse(j)
  /\ IF Abandoned(j) THEN UNCHANGED faults ELSE Fault

\* An operator repairs the gate and resumes the exact job.
Resume(j) ==
  /\ jobs[j].state = "blocked"
  /\ jobs' = [jobs EXCEPT ![j].state = "queued"]
  /\ UNCHANGED <<workers, world>>

\* execute_exact_cleanup of a receipted object: it goes, then its tombstone.
DeleteObject ==
  /\ receipt # NoReceipt /\ receipt.disposition = "created" /\ store = "exact"
  /\ store' = "absent" /\ removed' = TRUE
  /\ UNCHANGED <<jobs, workers, attempts, receipt, tombstone, requests, faults>>
RecordTombstone ==
  /\ removed /\ store = "absent" /\ ~tombstone /\ tombstone' = TRUE
  /\ UNCHANGED <<jobs, workers, attempts, receipt, store, requests, removed, faults>>

Advance(w) ==
  \/ ConfirmAuthority(w) \/ Heartbeat(w)
  \/ CheckBeforeHead(w) \/ HeadBeforeSource(w) \/ RecoverExisting(w) \/ Reconcile(w)
  \/ ReserveAttempt(w) \/ OpenSource(w) \/ Stream(w)
  \/ ReadDurable(w) \/ HeadBeforeCreate(w) \/ CreateIfAbsent(w) \/ VerifyCreated(w)
  \/ Persist(w) \/ CheckpointVerified(w) \/ FinalHeartbeat(w) \/ Complete(w)

Next ==
  \/ \E w \in Workers :
       \/ \E j \in Jobs : Claim(w, j)
       \/ Advance(w) \/ Fails(w) \/ Interrupted(w) \/ Dies(w)
  \/ \E j \in Jobs : Expire(j) \/ Resume(j)
  \/ DeleteObject \/ RecordTombstone

Spec == Init /\ [][Next]_vars

\* A worker that runs goes on; the supervisor polls for work; the lease of a
\* dead worker expires; operators resume what is blocked.
Fairness ==
  /\ \A w \in Workers : WF_vars(Advance(w))
  /\ \A j \in Jobs : /\ WF_vars(\E w \in Workers : Claim(w, j))
                     /\ WF_vars(Abandoned(j) /\ Expire(j))
                     /\ WF_vars(Resume(j))
FairSpec == Spec /\ Fairness

-----------------------------------------------------------------------------
(***************************************************************************)
(* Properties                                                              *)
(***************************************************************************)
\* Types, and a job is leased exactly while it has a holder.
WorkerTypeOK ==
  /\ jobs \in [Jobs -> Job]
  /\ \A j \in Jobs : (jobs[j].state = "leased") = (jobs[j].holder # NoWorker)
  /\ attempts \subseteq Jobs /\ receipt \in Receipt \cup {NoReceipt}
  /\ {tombstone, removed} \subseteq BOOLEAN /\ store \in {"absent", "foreign", "exact"}
  /\ workers \in [Workers -> Worker]
  /\ \A w \in Workers : workers[w].pc # "idle" => JobOf(w) # NoJob
  /\ requests \in [Jobs -> Nat] /\ faults \in 0..MaxFaults

\* However often a job is claimed, by whoever, after crashes, lost leases and
\* resumptions, its source is asked at most once, and only under a reservation
\* made durable before (rate_permit.reserve_once).
OneRequestPerJob ==
  \A j \in Jobs : requests[j] <= 1 /\ (requests[j] = 1 => j \in attempts)

\* A job is completed, and its last checkpoint says verified, only when a
\* receipt of its run is durable; and the exact object is there unless a
\* cleanup has taken it away (_persist before checkpoint 2 before complete).
CompletedIsDurable ==
  \A j \in Jobs : jobs[j].state = "completed" \/ jobs[j].checkpoint = 2 =>
    /\ receipt # NoReceipt /\ receipt.run = RunOf[j]
    /\ store = "exact" \/ removed

\* No claim is left hanging: every lease ends in a result, a blocker or a
\* release, whatever its holder runs into.
EveryLeaseEnds ==
  \A j \in Jobs : jobs[j].state = "leased" ~> jobs[j].state # "leased"

\* docs/trusted-vm-worker.md: "A crash before terminal completion is safe to
\* reclaim."  Once a receipt of its run is durable and stays uncleaned, every
\* job of the run completes, whatever went wrong before.
DurableWorkCompletes ==
  \A j \in Jobs :
    (<>[](receipt # NoReceipt /\ ~removed) /\ [](receipt # NoReceipt => receipt.run = RunOf[j]))
      => <>(jobs[j].state = "completed")

=============================================================================
