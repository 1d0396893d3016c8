-------------------------------- MODULE JobBoard --------------------------------
(***************************************************************************)
(* What the ledger's queue promises its workers, with no leases, clocks or *)
(* operation ids: a job is held by at most one holder, only while it is    *)
(* held does its saved work or its failure count change, saved work never  *)
(* moves back, and a finished or dead job is never handed out again.       *)
(* LedgerQueue implements this (LedgerQueue!BoardSpec).                    *)
(***************************************************************************)
EXTENDS Integers

CONSTANTS JobIds, Holders, NoHolder,
  Amounts    \* how much work a save can record, as numbers

VARIABLES
  phase,     \* absent, open, held, finished, dead, or parked by its creator
  owner,     \* the holder of a held job
  failures,  \* attempts counted against the job
  saved      \* how far the job's durable work has come

vars == <<phase, owner, failures, saved>>

Phases == {"absent", "open", "held", "finished", "dead", "parked"}

Init ==
  /\ phase = [j \in JobIds |-> "absent"]
  /\ owner = [j \in JobIds |-> NoHolder]
  /\ failures = [j \in JobIds |-> 0]
  /\ saved = [j \in JobIds |-> 0]

Post(j, first, spent) ==
  /\ phase[j] = "absent"
  /\ first \in {"open", "finished", "parked"}
  /\ phase' = [phase EXCEPT ![j] = first]
  /\ failures' = [failures EXCEPT ![j] = spent]
  /\ UNCHANGED <<owner, saved>>

\* The jobs of some holders go back on the board ...
Returned(js) == [j \in JobIds |-> IF j \in js THEN "open" ELSE phase[j]]
Vacated(js) == [j \in JobIds |-> IF j \in js THEN NoHolder ELSE owner[j]]

Return(js) ==
  /\ \A j \in js : phase[j] = "held"
  /\ phase' = Returned(js)
  /\ owner' = Vacated(js)
  /\ UNCHANGED <<failures, saved>>

\* ... and in the same step one open job may be handed to a new holder.
HandOver(js, j, h) ==
  /\ \A k \in js : phase[k] = "held"
  /\ Returned(js)[j] = "open"
  /\ phase' = [Returned(js) EXCEPT ![j] = "held"]
  /\ owner' = [Vacated(js) EXCEPT ![j] = h]
  /\ UNCHANGED <<failures, saved>>

Save(j, amount) ==
  /\ phase[j] = "held"
  /\ amount >= saved[j]
  /\ saved' = [saved EXCEPT ![j] = amount]
  /\ UNCHANGED <<phase, owner, failures>>

Finish(j) ==
  /\ phase[j] = "held"
  /\ phase' = [phase EXCEPT ![j] = "finished"]
  /\ owner' = [owner EXCEPT ![j] = NoHolder]
  /\ UNCHANGED <<failures, saved>>

Fail(j, last) ==
  /\ phase[j] = "held"
  /\ phase' = [phase EXCEPT ![j] = IF last THEN "dead" ELSE "open"]
  /\ owner' = [owner EXCEPT ![j] = NoHolder]
  /\ failures' = [failures EXCEPT ![j] = @ + 1]
  /\ UNCHANGED saved

Next ==
  \/ \E js \in SUBSET JobIds :
       \/ Return(js)
       \/ \E j \in JobIds, h \in Holders : HandOver(js, j, h)
  \/ \E j \in JobIds :
       \/ \E first \in Phases, spent \in {0, 1} : Post(j, first, spent)
       \/ \E amount \in Amounts : Save(j, amount)
       \/ Finish(j)
       \/ \E last \in BOOLEAN : Fail(j, last)

Spec == Init /\ [][Next]_vars
=============================================================================
