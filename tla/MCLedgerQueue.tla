----------------------------- MODULE MCLedgerQueue -----------------------------
(***************************************************************************)
(* Small instances of LedgerQueue: two jobs that compete for the worker    *)
(* that can do both, the first of them retried once, a duplicate of the    *)
(* first under another id, an id reused for another slot, and a job        *)
(* recorded as blocked.                                                    *)
(***************************************************************************)
EXTENDS LedgerQueue, TLC

MCRequests ==
  { [id |-> 1, slot |-> "inventory", needs |-> {"laptop"}, max |-> 2, status |-> "queued"],
    [id |-> 2, slot |-> "download", needs |-> {"vm"}, max |-> 1, status |-> "queued"],
    [id |-> 2, slot |-> "inventory", needs |-> {"vm"}, max |-> 1, status |-> "queued"],
    [id |-> 2, slot |-> "download", needs |-> {"laptop"}, max |-> 1, status |-> "blocked"] }

\* Only the second worker can do job 2, and it is given job 1 as long as that
\* is queued: the SELECT orders by job_id.
MCOffers == {{"laptop"}, {"laptop", "vm"}}

MCSymmetry == Permutations(Holders)

\* The liveness instance queues both jobs, and job 1 comes back to the head of
\* the queue after a loss and after a failure, before job 2 is handed out once.
\* Four leases are three attempts and one loss: a job still unresolved when
\* they are used up has lost two.
MCQueuedRequests ==
  {r \in MCRequests : <<r.id, r.slot, r.status>> \in
     {<<1, "inventory", "queued">>, <<2, "download", "queued">>}}
OneLossResolves == QueuedJobsResolve(1)
=============================================================================
