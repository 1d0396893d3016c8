---------------------------- MODULE OneObjectRun ----------------------------
(***************************************************************************)
(* The held one-object acquisition: `trusted-vm acquire-one-to-r2`         *)
(* (trusted_vm.py) around the immutable transfer (transfer.py) and the     *)
(* exact-key R2 client (r2.py).  A run is one receipt directory; the       *)
(* operator repeats the command on it.  Runs share the bucket, the ledger  *)
(* and the approval.  A version of the source stands for its bytes, so     *)
(* also for the content-addressed key they are stored under; the source    *)
(* may serve earlier bytes again.  Facts that nothing reads back and no    *)
(* property is about (readiness, request fact) are left out; the ledger    *)
(* rows seeded before the transfer are always the same.                    *)
(***************************************************************************)
EXTENDS Integers

CONSTANTS
    Runs,           \* receipt directories
    Repeated,       \* the ones whose command the operator repeats when blocked
    Versions,       \* the bytes the source may serve
    First,          \* what it serves at the start
    MaxChanges,     \* bound: how often the source's bytes change
    MaxFaults,      \* bound: refusals, lost answers and crashes in all
    Foreign         \* versions whose key may hold other bytes from the start

ASSUME OneObjectAssumption ==
    /\ MaxChanges \in Nat /\ MaxFaults \in Nat /\ Repeated \subseteq Runs
    /\ Versions \subseteq Nat \ {0} /\ First \in Versions /\ Foreign \subseteq Versions

NoVersion == 0

VARIABLES
    source,     \* the version the public URL serves
    approved,   \* the proof window and its cleanup deadline are still ahead
    bucket,     \* version -> what its exact key holds
    ledger,     \* version -> attempt_state of its durable object receipt
    files,      \* run -> the receipts of its directory
    run,        \* run -> the command in progress
    faults,
    changes,    \* changes of the source so far
    made,       \* history: run -> the copies in the bucket that it put there
    last        \* history: run -> the version it fetched last

vars == <<source, approved, bucket, ledger, files, run, faults, changes, made, last>>

NoRun == [at |-> "ended", v |-> NoVersion, path |-> "none", known |-> FALSE,
          created |-> FALSE]
NoFiles == [manifest |-> "none", object |-> NoVersion,
            verification |-> NoVersion, cleanup |-> NoVersion,
            attempt |-> NoVersion]

Init ==
    /\ source = First
    /\ approved = TRUE
    /\ bucket \in {[v \in Versions |-> IF v \in taken THEN "foreign" ELSE "absent"] :
                     taken \in SUBSET Foreign}
    /\ ledger = [v \in Versions |-> "none"]
    /\ files = [r \in Runs |-> NoFiles]
    /\ run = [r \in Runs |-> NoRun]
    /\ faults = 0 /\ changes = 0
    /\ made = [r \in Runs |-> {}]
    /\ last = [r \in Runs |-> NoVersion]

(***************************************************************************)
(* Steps                                                                   *)
(***************************************************************************)
At(r, step) == run[r].at = step
To(r, step) == run' = [run EXCEPT ![r].at = step]
Leave(r) == run' = [run EXCEPT ![r] = NoRun]
Fault == faults < MaxFaults /\ faults' = faults + 1
NoFault == UNCHANGED faults
Write(r, name, value) == files' = [files EXCEPT ![r][name] = value]

World == <<source, approved, changes>>
Store == <<bucket, ledger, made, last>>

(* _block, persist_blocked_run: every failure ends in a blocked manifest.  *)
Block(r) == Write(r, "manifest", "blocked") /\ Leave(r)

(* Settings, credentials or an endpoint with which no client can be built. *)
NoClient == Fault

(* load_trusted_vm_approval: strict, complete, and inside its window.      *)
ApprovalInvalid == ~approved /\ NoFault

(* _readiness: the bounded listing of the one prefix was not answered.     *)
NotReady == Fault

(* robots.txt not fetched, redirected, ambiguous or denying.               *)
RobotsRefuse == Fault

(* The response is not the approved URL, type or size, or broke off.       *)
FetchFails == Fault

(* head_object: anything but a 404 or a complete, consistent answer.       *)
HeadFails == Fault

(***************************************************************************)
(* The command                                                             *)
(***************************************************************************)
Completed(r) ==
    /\ files[r].manifest = "complete"
    /\ files[r].object # NoVersion
    /\ files[r].verification = files[r].object
    /\ files[r].cleanup = files[r].object

MutNeverResume(r) == FALSE          \* mutant: every retry starts over
Resumable(r) ==
    /\ files[r].object # NoVersion
    /\ files[r].verification = files[r].object

(* The command line: an approval that no longer holds, a missing setting   *)
(* or a client that cannot be built blocks the directory before            *)
(* acquire_one_to_r2 looks at what it already holds.                       *)
Preflight(r) ==
    /\ At(r, "ended")
    /\ ApprovalInvalid \/ (approved /\ NoClient)
    /\ Block(r)
    /\ UNCHANGED <<World, Store>>

Start(r) ==
    /\ At(r, "ended")
    /\ approved
    /\ ~Completed(r)
    /\ To(r, "gates")
    /\ NoFault
    /\ UNCHANGED <<World, Store, files>>

(* The window and the readiness probe stand before a cleanup as well.      *)
Gates(r) ==
    /\ At(r, "gates")
    /\ UNCHANGED <<World, Store>>
    /\ \/ ApprovalInvalid /\ Block(r)
       \/ approved /\ NotReady /\ Block(r)
       \/ /\ approved
          /\ NoFault
          /\ run' = [run EXCEPT ![r] =
                       IF Resumable(r)
                       THEN [NoRun EXCEPT !.at = "cleanup", !.path = "resume",
                                          !.v = files[r].object]
                       ELSE [NoRun EXCEPT !.at = "robots"]]
          /\ UNCHANGED files

(* One robots request, then the ledger is seeded.                          *)
Robots(r) ==
    /\ At(r, "robots")
    /\ UNCHANGED <<World, Store>>
    /\ \/ RobotsRefuse /\ Block(r)
       \/ NoFault /\ To(r, "fetch") /\ UNCHANGED files

(***************************************************************************)
(* The transfer                                                            *)
(***************************************************************************)
Fetch(r) ==
    /\ At(r, "fetch")
    /\ UNCHANGED <<World, bucket, ledger, made>>
    /\ \/ FetchFails /\ Block(r) /\ UNCHANGED last
       \/ /\ last' = [last EXCEPT ![r] = source]
          /\ run' = [run EXCEPT ![r].at = "lookup", ![r].v = source]
          /\ NoFault
          /\ UNCHANGED files

Lookup(r) ==
    /\ At(r, "lookup")
    /\ run' = [run EXCEPT ![r].at = "existing",
                          ![r].known = ledger[run[r].v] # "none"]
    /\ NoFault
    /\ UNCHANGED <<World, Store, files>>

(* HEAD with the recorded size, type and digest.                           *)
MutAnyObject(v) == bucket[v] # "absent"     \* mutant: metadata not compared
Matches(v) == bucket[v] = "ours"

Receipted(r) == run' = [run EXCEPT ![r] = [NoRun EXCEPT !.at = "object",
                                             !.v = run[r].v, !.path = "main"]]

Existing(r) ==
    LET v == run[r].v IN
    /\ At(r, "existing")
    /\ UNCHANGED <<World, Store>>
    /\ \/ HeadFails /\ Block(r)
       \/ run[r].known /\ ~Matches(v) /\ NoFault /\ Block(r)
       \/ run[r].known /\ Matches(v) /\ NoFault /\ Receipted(r) /\ UNCHANGED files
       \/ /\ ~run[r].known
          /\ NoFault
          /\ To(r, IF bucket[v] = "absent" THEN "create" ELSE "final")
          /\ UNCHANGED files

(* put_object with If-None-Match: a 412 is "not created"; any other        *)
(* failure leaves it unknown whether the object exists.                    *)
Create(r) ==
    LET v == run[r].v IN
    /\ At(r, "create")
    /\ UNCHANGED <<World, ledger, files, last>>
    /\ \/ UNCHANGED <<bucket, made>>
       \/ /\ bucket[v] = "absent"
          /\ bucket' = [bucket EXCEPT ![v] = "ours"]
          /\ made' = [made EXCEPT ![r] = @ \union {v}]
    /\ \/ /\ NoFault
          /\ bucket'[v] # "absent"
          /\ run' = [run EXCEPT ![r].at = "final",
                                ![r].created = bucket[v] = "absent"]
       \/ /\ Fault
          /\ run' = [run EXCEPT ![r].at = "attempted", ![r].path = "attempted"]

(* A failure after the create hands its receipt up for cleanup.            *)
TransferFails(r) ==
    \/ /\ run[r].created
       /\ run' = [run EXCEPT ![r] = [NoRun EXCEPT !.at = "object",
                                       !.v = run[r].v, !.path = "created"]]
       /\ UNCHANGED files
    \/ ~run[r].created /\ Block(r)

Final(r) ==
    /\ At(r, "final")
    /\ UNCHANGED <<World, Store>>
    /\ \/ HeadFails /\ TransferFails(r)
       \/ ~Matches(run[r].v) /\ NoFault /\ TransferFails(r)
       \/ Matches(run[r].v) /\ NoFault /\ To(r, "upsert") /\ UNCHANGED files

AttemptState(r) == IF run[r].created THEN "uploaded" ELSE "reused"

(* Ledger.upsert: the same receipt is replayed, another one is a conflict. *)
Upsert(r) ==
    LET v == run[r].v IN
    /\ At(r, "upsert")
    /\ UNCHANGED <<World, bucket, made, last>>
    /\ \/ Fault /\ TransferFails(r) /\ UNCHANGED ledger
       \/ /\ ledger[v] \notin {"none", AttemptState(r)}
          /\ NoFault /\ TransferFails(r) /\ UNCHANGED ledger
       \/ /\ ledger[v] \in {"none", AttemptState(r)}
          /\ ledger' = [ledger EXCEPT ![v] = AttemptState(r)]
          /\ NoFault /\ Receipted(r) /\ UNCHANGED files

(* The lost create: only an exact, matching HEAD makes a receipt of it;    *)
(* any other answer leaves upload-attempt.json and ends the run blocked.   *)
Attempted(r) ==
    /\ At(r, "attempted")
    /\ UNCHANGED <<World, Store>>
    /\ \/ HeadFails /\ Write(r, "attempt", run[r].v) /\ To(r, "failed")
       \/ ~Matches(run[r].v) /\ NoFault /\ Write(r, "attempt", run[r].v) /\ To(r, "failed")
       \/ Matches(run[r].v) /\ NoFault /\ To(r, "object") /\ UNCHANGED files

(***************************************************************************)
(* Verification and exact-key cleanup                                      *)
(***************************************************************************)
WriteObject(r) ==
    /\ At(r, "object")
    /\ Write(r, "object", run[r].v)
    /\ To(r, IF run[r].path = "attempted" THEN "verified" ELSE "verify")
    /\ NoFault
    /\ UNCHANGED <<World, Store>>

Verify(r) ==
    /\ At(r, "verify")
    /\ UNCHANGED <<World, Store>>
    /\ \/ HeadFails /\ Block(r)
       \/ ~Matches(run[r].v) /\ NoFault /\ Block(r)
       \/ Matches(run[r].v) /\ NoFault /\ To(r, "verified") /\ UNCHANGED files

WriteVerification(r) ==
    /\ At(r, "verified")
    /\ Write(r, "verification", run[r].v)
    /\ To(r, "cleanup")
    /\ NoFault
    /\ UNCHANGED <<World, Store>>

CleanupHead(r) ==
    /\ At(r, "cleanup")
    /\ UNCHANGED <<World, Store>>
    /\ \/ HeadFails /\ Block(r)
       \/ /\ To(r, IF bucket[run[r].v] = "absent" THEN "confirm" ELSE "delete")
          /\ NoFault
          /\ UNCHANGED files

MutDeleteTaken(r) == To(r, "confirmed") /\ UNCHANGED files   \* mutant: error swallowed
DeleteFails(r) == Block(r)

(* The answer may be lost with or without the deletion.                    *)
Delete(r) ==
    LET v == run[r].v
        Removed == /\ bucket' = [bucket EXCEPT ![v] = "absent"]
                   /\ made' = [q \in Runs |-> made[q] \ {v}]
    IN
    /\ At(r, "delete")
    /\ UNCHANGED <<World, ledger, last>>
    /\ \/ Removed /\ NoFault /\ To(r, "confirm") /\ UNCHANGED files
       \/ (Removed \/ UNCHANGED <<bucket, made>>) /\ Fault /\ DeleteFails(r)

Confirm(r) ==
    /\ At(r, "confirm")
    /\ UNCHANGED <<World, Store>>
    /\ \/ HeadFails /\ Block(r)
       \/ bucket[run[r].v] # "absent" /\ NoFault /\ Block(r)
       \/ bucket[run[r].v] = "absent" /\ NoFault /\ To(r, "confirmed") /\ UNCHANGED files

(* A cleanup after a failed transfer still ends blocked.                   *)
WriteCleanup(r) ==
    /\ At(r, "confirmed")
    /\ Write(r, "cleanup", run[r].v)
    /\ To(r, IF run[r].path \in {"main", "resume"} THEN "complete" ELSE "failed")
    /\ NoFault
    /\ UNCHANGED <<World, Store>>

WriteManifest(r) ==
    /\ \/ At(r, "complete") /\ Write(r, "manifest", "complete") /\ Leave(r)
       \/ At(r, "failed") /\ Block(r)
    /\ NoFault
    /\ UNCHANGED <<World, Store>>

(***************************************************************************)
(* The environment                                                         *)
(***************************************************************************)
Crash(r) ==
    /\ ~At(r, "ended")
    /\ Fault
    /\ Leave(r)
    /\ UNCHANGED <<World, Store, files>>

(* Any other bytes, earlier ones too.                                      *)
ChangeSource ==
    /\ changes < MaxChanges
    /\ changes' = changes + 1
    /\ source' \in Versions \ {source}
    /\ UNCHANGED <<approved, Store, files, run, faults>>

Expire ==
    /\ approved
    /\ approved' = FALSE
    /\ UNCHANGED <<source, changes, Store, files, run, faults>>

(* What a command that was started does.                                  *)
Command(r) ==
    \/ Gates(r) \/ Robots(r) \/ Fetch(r) \/ Lookup(r) \/ Existing(r) \/ Create(r)
    \/ Final(r) \/ Upsert(r) \/ Attempted(r) \/ WriteObject(r) \/ Verify(r)
    \/ WriteVerification(r) \/ CleanupHead(r) \/ Delete(r) \/ Confirm(r)
    \/ WriteCleanup(r) \/ WriteManifest(r)

Next ==
    \/ \E r \in Runs : Start(r) \/ Command(r) \/ Preflight(r) \/ Crash(r)
    \/ ChangeSource
    \/ Expire

Spec == Init /\ [][Next]_vars

(* A command goes on, and the operator repeats a blocked one.              *)
FairSpec ==
    /\ Spec
    /\ \A r \in Runs : WF_vars(Command(r))
    /\ \A r \in Repeated : WF_vars(Start(r))

-----------------------------------------------------------------------------
Complete(r) == files[r].manifest = "complete"

(* Cleanup never reaches further than its proof: an object leaves the      *)
(* bucket only when it is one of ours and the directory of the run that    *)
(* deletes it names its key in a durable object receipt and a durable      *)
(* verification.                                                           *)
CleanupUnderProof ==
    [][\A v \in Versions :
         bucket[v] # "absent" /\ bucket'[v] = "absent" =>
           /\ bucket[v] = "ours"
           /\ \E r \in Runs : /\ At(r, "delete")
                              /\ files[r].object = v
                              /\ files[r].verification = v]_vars

(* A complete directory tells of the bytes its last attempt read, and no   *)
(* copy of them that its own commands put there is left in the bucket,     *)
(* whatever was lost, interleaved or repeated on the way and whatever the  *)
(* source serves by then.  Copies it made of other bytes in an earlier     *)
(* attempt may be left, and only after a refusal, a lost answer or a       *)
(* crash: without one, a command that has ended leaves no copy behind,     *)
(* complete or blocked.                                                    *)
OnlyOutdatedRemain ==
    \A r \in Runs :
      /\ Complete(r) => files[r].object = last[r] /\ last[r] \notin made[r]
      /\ At(r, "ended") /\ faults = 0 => made[r] = {}

(* What docs/issues/010 line 20 asks of a failed run, that it leave no     *)
(* unrecorded object.  No run checks it, because the code does not keep    *)
(* it: a crash between the create and object.json leaves a copy of which   *)
(* only the bucket knows, and a retry that reads other bytes writes its    *)
(* receipts over the only ones of the first copy.                          *)
NoUnrecordedObject ==
    \A r \in Runs : At(r, "ended") =>
      \A v \in made[r] : v \in {files[r].object, files[r].attempt} \/ ledger[v] # "none"

(* While the approval holds and no key is taken, a command that is         *)
(* repeated and meets no other command reaches a complete manifest, from   *)
(* whatever its earlier attempts left: crashes, lost creates and deletes.  *)
LoneRunCompletes ==
    \A r \in Repeated :
      \/ <>(~approved)
      \/ \E v \in Versions : bucket[v] = "foreign"
      \/ <>(\E other \in Runs \ {r} : ~At(other, "ended"))
      \/ <>Complete(r)
=============================================================================
