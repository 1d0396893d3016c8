-------------------------- MODULE OneObjectRunProofs --------------------------
(***************************************************************************)
(* Proofs that the cleanup of the one-object run stays under its proof and *)
(* that a complete directory leaves no copy of the bytes it tells of, for  *)
(* any number of receipt directories, source changes and faults.           *)
(*                                                                         *)
(* The action property is not inductive alone: that a directory deletes    *)
(* only an object of ours rests on every earlier step of its run, on its   *)
(* receipts, and on foreign bytes never taking a key that was free.  The   *)
(* second theorem rests on how a directory's receipts follow each other    *)
(* and on the steps at which one can end without removing what it made.    *)
(***************************************************************************)
EXTENDS OneObjectRun, TLAPS

Contents == {"absent", "ours", "foreign"}
Fetched == {"lookup", "existing", "create", "final", "attempted"}
Verifying == {"verify", "verified"}
Proved == {"cleanup", "delete", "confirm", "confirmed"}
Compared == {"upsert", "object"} \cup Verifying \cup Proved
Steps == {"ended", "gates", "robots", "fetch", "complete", "failed"} \cup Fetched \cup Compared
Paths == {"none", "main", "resume", "attempted", "created"}

Progress == [at : Steps, v : Nat, path : Paths, known : BOOLEAN, created : BOOLEAN]
Receipts == [manifest : {"none", "blocked", "complete"},
             object : Nat, verification : Nat, cleanup : Nat, attempt : Nat]

RecordsTyped ==
    /\ source \in Versions
    /\ bucket \in [Versions -> Contents]
    /\ files \in [Runs -> Receipts]
    /\ run \in [Runs -> Progress]

(* A key that is free or holds an object of ours.                          *)
Safe(v) == v \in Versions /\ bucket[v] # "foreign"

(* What a run x over receipts f rests on: a version that was fetched names *)
(* a key; one that was created, compared or receipted has a safe key; and  *)
(* from the verification on the durable receipts name the run's version.   *)
Backed(x, f) ==
    /\ x.at \in Fetched => x.v \in Versions
    /\ x.created => Safe(x.v) /\ x.at \in {"final", "upsert"}
    /\ x.at \in Compared => Safe(x.v)
    /\ x.at \in Verifying \cup Proved => f.object = x.v
    /\ x.at \in Proved => f.verification = x.v
    /\ f.object # NoVersion => Safe(f.object)

RunsBacked == \A r \in Runs : Backed(run[r], files[r])

IInv == RecordsTyped /\ RunsBacked

-----------------------------------------------------------------------------
(* No step puts another's bytes under a key, so safe keys stay safe.       *)
NothingForeignComes ==
    /\ bucket' \in [Versions -> Contents]
    /\ \A v \in Versions : bucket'[v] = "foreign" => bucket[v] = "foreign"

LEMMA SafeLasts ==
  ASSUME NothingForeignComes, NEW v, Safe(v)
  PROVE  Safe(v)'
BY DEF NothingForeignComes, Safe

LEMMA BackedLasts ==
  ASSUME NothingForeignComes, NEW x, NEW f, Backed(x, f)
  PROVE  Backed(x, f)'
BY SafeLasts DEF Backed

(* One command moves, under its receipts or new ones; the others stay.     *)
LEMMA CommandMoves ==
  ASSUME IInv, NothingForeignComes, UNCHANGED source,
         NEW r \in Runs, NEW x \in Progress, NEW f \in Receipts, Backed(x, f),
         run' = [run EXCEPT ![r] = x],
         files' = [files EXCEPT ![r] = f]
  PROVE  IInv'
<1>1. RecordsTyped'
  BY DEF IInv, RecordsTyped, NothingForeignComes
<1>2. ASSUME NEW s \in Runs PROVE Backed(run[s], files[s])'
  <2>1. PICK y, g : y = run'[s] /\ g = files'[s] OBVIOUS
  <2>2. Backed(y, g)
    <3>1. CASE s = r
      <4>1. y = x /\ g = f BY <2>1, <3>1 DEF IInv, RecordsTyped
      <4>2. QED BY <4>1
    <3>2. CASE s # r
      <4>1. y = run[s] /\ g = files[s] BY <2>1, <3>2 DEF IInv, RecordsTyped
      <4>2. QED BY <4>1 DEF IInv, RunsBacked
    <3>3. QED BY <3>1, <3>2
  <2>3. Backed(y, g)' BY <2>2, BackedLasts
  <2>4. QED BY <2>1, <2>3 DEF Backed, Safe
<1>3. QED BY <1>1, <1>2 DEF IInv, RunsBacked

(* A command that only goes on keeps its receipts.                         *)
LEMMA GoesOn ==
  ASSUME IInv, NothingForeignComes, UNCHANGED <<source, files>>,
         NEW r \in Runs, NEW x \in Progress, Backed(x, files[r]),
         run' = [run EXCEPT ![r] = x]
  PROVE  IInv'
<1>1. PICK f : f = files[r] OBVIOUS
<1>2. f \in Receipts /\ files' = [files EXCEPT ![r] = f]
  BY <1>1 DEF IInv, RecordsTyped
<1>3. Backed(x, f) BY <1>1
<1>4. QED BY <1>2, <1>3, CommandMoves

LEMMA StoreStays ==
  ASSUME IInv, UNCHANGED bucket
  PROVE  NothingForeignComes
BY DEF IInv, RecordsTyped, NothingForeignComes

LEMMA NoRunBacked ==
  ASSUME NEW f \in Receipts, f.object # NoVersion => Safe(f.object)
  PROVE  NoRun \in Progress /\ Backed(NoRun, f)
<1>1. NoRun.at = "ended" /\ NoRun.created = FALSE BY DEF NoRun
<1>2. NoRun \in Progress BY DEF NoRun, Progress, NoVersion, Steps, Paths
<1>3. Backed(NoRun, f) BY <1>1 DEF Backed, Fetched, Compared, Verifying, Proved
<1>4. QED BY <1>2, <1>3

LEMMA ReceiptsSafe ==
  ASSUME IInv, NEW r \in Runs
  PROVE  /\ files[r] \in Receipts
         /\ run[r] \in Progress
         /\ Backed(run[r], files[r])
         /\ files[r].object # NoVersion => Safe(files[r].object)
BY DEF IInv, RecordsTyped, RunsBacked, Backed

(* Every failure ends the command and leaves its receipts alone.           *)
LEMMA BlockKeeps ==
  ASSUME IInv, NothingForeignComes, UNCHANGED source, NEW r \in Runs, Block(r)
  PROVE  IInv'
<1>1. PICK f : f = [files[r] EXCEPT !.manifest = "blocked"] OBVIOUS
<1>2. f \in Receipts /\ f.object = files[r].object
  <2>1. files[r] \in Receipts BY ReceiptsSafe
  <2>2. QED BY <1>1, <2>1 DEF Receipts
<1>3. files' = [files EXCEPT ![r] = f] /\ run' = [run EXCEPT ![r] = NoRun]
  BY <1>1 DEF Block, Write, Leave
<1>4. NoRun \in Progress /\ Backed(NoRun, f) BY <1>2, ReceiptsSafe, NoRunBacked
<1>5. QED BY <1>2, <1>3, <1>4, CommandMoves

(* A command moves to another step that asks for nothing it does not have. *)
LEMMA ToKeeps ==
  ASSUME IInv, NothingForeignComes, UNCHANGED <<source, files>>,
         NEW r \in Runs, NEW step \in Steps, To(r, step),
         Backed([run[r] EXCEPT !.at = step], files[r])
  PROVE  IInv'
<1>1. PICK x : x = [run[r] EXCEPT !.at = step] OBVIOUS
<1>2. x \in Progress /\ run' = [run EXCEPT ![r] = x]
  BY <1>1, ReceiptsSafe DEF To, Progress
<1>3. Backed(x, files[r]) BY <1>1
<1>4. QED BY <1>2, <1>3, GoesOn

(* The steps a command can be moved to, given where it is.                 *)
LEMMA StepBacked ==
  ASSUME IInv, NEW r \in Runs, NEW step \in Steps,
         run[r].at \notin {"final", "upsert"} \/ step = "upsert",
         \/ step \notin Fetched \cup Compared
         \/ step \in Fetched /\ run[r].at \in Fetched
         \/ step \in {"upsert", "object"} /\ Safe(run[r].v)
         \/ step = "verified" /\ run[r].at = "verify"
         \/ step \in Proved /\ run[r].at \in Proved
  PROVE  Backed([run[r] EXCEPT !.at = step], files[r])
<1>1. PICK x : x = [run[r] EXCEPT !.at = step] OBVIOUS
<1>2. x.at = step /\ x.v = run[r].v /\ x.created = run[r].created
  BY <1>1, ReceiptsSafe DEF Progress
<1>3. Backed(run[r], files[r]) BY ReceiptsSafe
<1>4. Backed(x, files[r])
  BY <1>2, <1>3 DEF Backed, Fetched, Compared, Verifying, Proved
<1>5. QED BY <1>1, <1>4

-----------------------------------------------------------------------------
(* One lemma per step of a command; the failures all go through Block.     *)

LEMMA StartKeeps ==
  ASSUME IInv, NEW r \in Runs, Start(r) \/ Preflight(r) \/ Crash(r)
  PROVE  IInv'
<1>1. NothingForeignComes BY StoreStays DEF Start, Preflight, Crash, Store
<1>2. CASE Start(r)
  <2>1. run[r].at = "ended" /\ To(r, "gates") /\ UNCHANGED <<source, files>>
    BY <1>2 DEF Start, World, At
  <2>2. "gates" \in Steps /\ "gates" \notin Fetched \cup Compared
    BY DEF Steps, Fetched, Compared, Verifying, Proved
  <2>3. QED BY <1>1, <2>1, <2>2, StepBacked, ToKeeps
<1>3. CASE Preflight(r) BY <1>1, <1>3, BlockKeeps DEF Preflight, World
<1>4. CASE Crash(r)
  <2>1. run' = [run EXCEPT ![r] = NoRun] /\ UNCHANGED <<source, files>>
    BY <1>4 DEF Crash, Leave, World
  <2>2. QED BY <1>1, <2>1, ReceiptsSafe, NoRunBacked, GoesOn
<1>5. QED BY <1>2, <1>3, <1>4

(* A resumed run has the receipts that name its version.                   *)
LEMMA GatesKeeps ==
  ASSUME IInv, NEW r \in Runs, Gates(r)
  PROVE  IInv'
<1>1. NothingForeignComes /\ UNCHANGED source BY StoreStays DEF Gates, Store, World
<1>2. CASE Block(r) BY <1>1, <1>2, BlockKeeps
<1>3. CASE ~Block(r)
  <2>1. PICK x : /\ x = IF Resumable(r)
                        THEN [NoRun EXCEPT !.at = "cleanup", !.path = "resume",
                                           !.v = files[r].object]
                        ELSE [NoRun EXCEPT !.at = "robots"]
                 /\ run' = [run EXCEPT ![r] = x]
                 /\ UNCHANGED files
    BY <1>3 DEF Gates
  <2>2. CASE Resumable(r)
    <3>1. /\ x.at = "cleanup" /\ x.v = files[r].object /\ x.created = FALSE
      BY <2>1, <2>2 DEF NoRun
    <3>2. files[r].object \in Nat BY ReceiptsSafe DEF Receipts
    <3>3. x \in Progress
      BY <2>1, <2>2, <3>2 DEF NoRun, Progress, Steps, Paths, Compared, Proved
    <3>4. Backed(x, files[r])
      BY <2>2, <3>1, ReceiptsSafe
      DEF Resumable, Backed, Fetched, Compared, Verifying, Proved
    <3>5. QED BY <1>1, <2>1, <3>3, <3>4, GoesOn
  <2>3. CASE ~Resumable(r)
    <3>1. x.at = "robots" /\ x.created = FALSE BY <2>1, <2>3 DEF NoRun
    <3>2. x \in Progress
      BY <2>1, <2>3 DEF NoRun, Progress, Steps, Paths, NoVersion
    <3>3. Backed(x, files[r])
      BY <3>1, ReceiptsSafe DEF Backed, Fetched, Compared, Verifying, Proved
    <3>4. QED BY <1>1, <2>1, <3>2, <3>3, GoesOn
  <2>4. QED BY <2>2, <2>3
<1>4. QED BY <1>2, <1>3

(* What comes before the object is compared.                               *)
LEMMA FetchKeeps ==
  ASSUME IInv, NEW r \in Runs, Robots(r) \/ Fetch(r) \/ Lookup(r)
  PROVE  IInv'
<1>1. NothingForeignComes /\ UNCHANGED source
  BY StoreStays DEF Robots, Fetch, Lookup, Store, World
<1>2. CASE Block(r) BY <1>1, <1>2, BlockKeeps
<1>3. CASE Robots(r) /\ ~Block(r)
  <2>1. run[r].at = "robots" /\ To(r, "fetch") /\ UNCHANGED <<source, files>>
    BY <1>3 DEF Robots, World, At
  <2>2. "fetch" \in Steps /\ "fetch" \notin Fetched \cup Compared
    BY DEF Steps, Fetched, Compared, Verifying, Proved
  <2>3. QED BY <1>1, <2>1, <2>2, StepBacked, ToKeeps
<1>4. CASE Fetch(r) /\ ~Block(r)
  <2>1. PICK x : x = [run[r] EXCEPT !.at = "lookup", !.v = source] OBVIOUS
  <2>2. run' = [run EXCEPT ![r] = x] /\ UNCHANGED files
    BY <1>4, <2>1 DEF Fetch, IInv, RecordsTyped
  <2>3. source \in Versions /\ source \in Nat
    BY OneObjectAssumption DEF IInv, RecordsTyped
  <2>4. x \in Progress /\ x.at = "lookup" /\ x.v = source
    BY <2>1, <2>3, ReceiptsSafe DEF Progress, Steps, Fetched
  <2>5. run[r].at = "fetch" /\ x.created = run[r].created
    BY <1>4, <2>1, ReceiptsSafe DEF Fetch, At, Progress
  <2>6. Backed(x, files[r])
    BY <2>3, <2>4, <2>5, ReceiptsSafe DEF Backed, Fetched, Compared, Verifying, Proved
  <2>7. QED BY <1>1, <2>2, <2>4, <2>6, GoesOn
<1>5. CASE Lookup(r)
  <2>1. PICK x : x = [run[r] EXCEPT !.at = "existing",
                                    !.known = ledger[run[r].v] # "none"]
    OBVIOUS
  <2>2. run' = [run EXCEPT ![r] = x] /\ UNCHANGED files
    BY <1>5, <2>1 DEF Lookup, IInv, RecordsTyped
  <2>3. /\ run[r].at = "lookup"
        /\ x.at = "existing" /\ x.v = run[r].v /\ x.created = run[r].created
    BY <1>5, <2>1, ReceiptsSafe DEF Lookup, At, Progress
  <2>4. x \in Progress
    BY <2>1, ReceiptsSafe DEF Progress, Steps, Fetched
  <2>5. Backed(x, files[r])
    BY <2>3, ReceiptsSafe DEF Backed, Fetched, Compared, Verifying, Proved
  <2>6. QED BY <1>1, <2>2, <2>4, <2>5, GoesOn
<1>6. QED BY <1>2, <1>3, <1>4, <1>5 DEF Lookup, At

(* A matching object makes a receipt, which goes on to be written.         *)
LEMMA ReceiptBacked ==
  ASSUME IInv, NEW r \in Runs, NEW path \in Paths, Safe(run[r].v)
  PROVE  LET x == [NoRun EXCEPT !.at = "object", !.v = run[r].v, !.path = path]
         IN  x \in Progress /\ Backed(x, files[r])
<1>1. PICK x : x = [NoRun EXCEPT !.at = "object", !.v = run[r].v, !.path = path]
  OBVIOUS
<1>2. x.at = "object" /\ x.v = run[r].v /\ x.created = FALSE BY <1>1 DEF NoRun
<1>3. x \in Progress
  BY <1>1, ReceiptsSafe DEF NoRun, Progress, Steps, Compared
<1>4. Backed(x, files[r])
  BY <1>2, ReceiptsSafe DEF Backed, Fetched, Compared, Verifying, Proved
<1>5. QED BY <1>1, <1>3, <1>4

LEMMA ReceiptedKeeps ==
  ASSUME IInv, NothingForeignComes, UNCHANGED <<source, files>>,
         NEW r \in Runs, Receipted(r), Safe(run[r].v)
  PROVE  IInv'
<1>1. PICK x : x = [NoRun EXCEPT !.at = "object", !.v = run[r].v, !.path = "main"]
  OBVIOUS
<1>2. run' = [run EXCEPT ![r] = x] BY <1>1 DEF Receipted
<1>3. x \in Progress /\ Backed(x, files[r]) BY <1>1, ReceiptBacked DEF Paths
<1>4. QED BY <1>2, <1>3, GoesOn

LEMMA FailureKeeps ==
  ASSUME IInv, NothingForeignComes, UNCHANGED source, NEW r \in Runs, TransferFails(r)
  PROVE  IInv'
<1>1. CASE Block(r) BY <1>1, BlockKeeps
<1>2. CASE ~Block(r)
  <2>1. PICK x : x = [NoRun EXCEPT !.at = "object", !.v = run[r].v, !.path = "created"]
    OBVIOUS
  <2>2. run[r].created /\ run' = [run EXCEPT ![r] = x] /\ UNCHANGED files
    BY <1>2, <2>1 DEF TransferFails
  <2>3. Safe(run[r].v) BY <2>2, ReceiptsSafe DEF Backed
  <2>4. x \in Progress /\ Backed(x, files[r]) BY <2>1, <2>3, ReceiptBacked DEF Paths
  <2>5. QED BY <2>2, <2>4, GoesOn
<1>3. QED BY <1>1, <1>2

LEMMA ExistingKeeps ==
  ASSUME IInv, NEW r \in Runs, Existing(r)
  PROVE  IInv'
<1>1. NothingForeignComes /\ UNCHANGED source BY StoreStays DEF Existing, Store, World
<1>2. run[r].at = "existing" BY DEF Existing, At
<1>3. run[r].v \in Versions BY <1>2, ReceiptsSafe DEF Backed, Fetched
<1>4. CASE Block(r) BY <1>1, <1>4, BlockKeeps
<1>5. CASE Matches(run[r].v) /\ Receipted(r) /\ UNCHANGED files
  <2>1. Safe(run[r].v) BY <1>3, <1>5 DEF Matches, Safe
  <2>2. QED BY <1>1, <1>5, <2>1, ReceiptedKeeps
<1>6. CASE /\ To(r, IF bucket[run[r].v] = "absent" THEN "create" ELSE "final")
           /\ UNCHANGED files
  <2>1. PICK step \in {"create", "final"} : To(r, step) BY <1>6
  <2>2. step \in Steps /\ step \in Fetched BY <2>1 DEF Steps, Fetched
  <2>3. QED BY <1>1, <1>2, <1>6, <2>1, <2>2, StepBacked, ToKeeps DEF Fetched
<1>7. QED BY <1>4, <1>5, <1>6 DEF Existing

(* The create fills a free key or leaves the bucket alone.                 *)
LEMMA CreateKeeps ==
  ASSUME IInv, NEW r \in Runs, Create(r)
  PROVE  IInv'
<1>1. UNCHANGED <<source, files>> BY DEF Create, World
<1>2. NothingForeignComes
  BY DEF Create, NothingForeignComes, IInv, RecordsTyped, Contents
<1>3. run[r].at = "create" BY DEF Create, At
<1>4. run[r].v \in Versions /\ ~run[r].created
  BY <1>3, ReceiptsSafe DEF Backed, Fetched
<1>5. CASE run' = [run EXCEPT ![r].at = "final",
                              ![r].created = bucket[run[r].v] = "absent"]
  <2>1. PICK x : x = [run[r] EXCEPT !.at = "final",
                                    !.created = bucket[run[r].v] = "absent"]
    OBVIOUS
  <2>2. run' = [run EXCEPT ![r] = x] BY <1>5, <2>1 DEF IInv, RecordsTyped
  <2>3. /\ x \in Progress /\ x.at = "final" /\ x.v = run[r].v
        /\ x.created = (bucket[run[r].v] = "absent")
    BY <2>1, ReceiptsSafe DEF Progress, Steps, Fetched
  <2>4. Backed(x, files[r])
    BY <1>4, <2>3, ReceiptsSafe
    DEF Backed, Safe, Fetched, Compared, Verifying, Proved
  <2>5. QED BY <1>1, <1>2, <2>2, <2>3, <2>4, GoesOn
<1>6. CASE run' = [run EXCEPT ![r].at = "attempted", ![r].path = "attempted"]
  <2>1. PICK x : x = [run[r] EXCEPT !.at = "attempted", !.path = "attempted"] OBVIOUS
  <2>2. run' = [run EXCEPT ![r] = x] BY <1>6, <2>1 DEF IInv, RecordsTyped
  <2>3. /\ x \in Progress /\ x.at = "attempted" /\ x.v = run[r].v
        /\ x.created = run[r].created
    BY <2>1, ReceiptsSafe DEF Progress, Steps, Paths, Fetched
  <2>4. Backed(x, files[r])
    BY <1>4, <2>3, ReceiptsSafe DEF Backed, Fetched, Compared, Verifying, Proved
  <2>5. QED BY <1>1, <1>2, <2>2, <2>3, <2>4, GoesOn
<1>7. QED BY <1>5, <1>6 DEF Create

LEMMA FinalKeeps ==
  ASSUME IInv, NEW r \in Runs, Final(r) \/ Upsert(r) \/ Attempted(r)
  PROVE  IInv'
<1>1. NothingForeignComes /\ UNCHANGED source
  BY StoreStays DEF Final, Upsert, Attempted, Store, World
<1>2. CASE Block(r) BY <1>1, <1>2, BlockKeeps
<1>3. CASE TransferFails(r) BY <1>1, <1>3, FailureKeeps
<1>4. CASE Final(r) /\ ~TransferFails(r)
  <2>1. /\ run[r].at = "final" /\ Matches(run[r].v)
        /\ To(r, "upsert") /\ UNCHANGED files
    BY <1>4 DEF Final, At
  <2>2. Safe(run[r].v) BY <2>1, ReceiptsSafe DEF Backed, Fetched, Matches, Safe
  <2>3. "upsert" \in Steps BY DEF Steps, Compared
  <2>4. QED BY <1>1, <2>1, <2>2, <2>3, StepBacked, ToKeeps
<1>5. CASE Upsert(r) /\ ~TransferFails(r)
  <2>1. run[r].at = "upsert" /\ Receipted(r) /\ UNCHANGED files
    BY <1>5 DEF Upsert, At
  <2>2. Safe(run[r].v) BY <2>1, ReceiptsSafe DEF Backed, Compared
  <2>3. QED BY <1>1, <2>1, <2>2, ReceiptedKeeps
<1>6. CASE /\ At(r, "attempted") /\ Matches(run[r].v)
           /\ To(r, "object") /\ UNCHANGED files
  <2>1. run[r].at = "attempted" BY <1>6 DEF At
  <2>2. Safe(run[r].v) BY <1>6, <2>1, ReceiptsSafe DEF Backed, Fetched, Matches, Safe
  <2>3. "object" \in Steps BY DEF Steps, Compared
  <2>4. QED BY <1>1, <1>6, <2>1, <2>2, <2>3, StepBacked, ToKeeps
<1>7. CASE Attempted(r) /\ To(r, "failed") /\ Write(r, "attempt", run[r].v)
  <2>1. run[r].at = "attempted" BY <1>7 DEF Attempted, At
  <2>2. PICK x, f : /\ x = [run[r] EXCEPT !.at = "failed"]
                    /\ f = [files[r] EXCEPT !.attempt = run[r].v]
    OBVIOUS
  <2>3. /\ run' = [run EXCEPT ![r] = x]
        /\ files' = [files EXCEPT ![r] = f]
    BY <1>7, <2>2 DEF Write, To, IInv, RecordsTyped
  <2>4. x \in Progress /\ x.at = "failed" /\ x.created = run[r].created
    BY <2>2, ReceiptsSafe DEF Progress, Steps
  <2>5. f \in Receipts /\ f.object = files[r].object
    <3>1. files[r] \in Receipts /\ run[r].v \in Nat BY ReceiptsSafe DEF Progress
    <3>2. QED BY <2>2, <3>1 DEF Receipts
  <2>6. Backed(x, f)
    BY <2>1, <2>4, <2>5, ReceiptsSafe
    DEF Backed, Fetched, Compared, Verifying, Proved
  <2>7. QED BY <1>1, <2>3, <2>4, <2>5, <2>6, CommandMoves
<1>8. QED BY <1>2, <1>3, <1>4, <1>5, <1>6, <1>7 DEF Attempted

-----------------------------------------------------------------------------
(* Receipts, verification and cleanup.                                     *)

LEMMA WriteObjectKeeps ==
  ASSUME IInv, NEW r \in Runs, WriteObject(r)
  PROVE  IInv'
<1>1. NothingForeignComes /\ UNCHANGED source BY StoreStays DEF WriteObject, Store, World
<1>2. run[r].at = "object" BY DEF WriteObject, At
<1>3. Safe(run[r].v) /\ ~run[r].created
  BY <1>2, ReceiptsSafe DEF Backed, Compared
<1>4. PICK step \in Verifying : To(r, step) BY DEF WriteObject, Verifying
<1>5. PICK x, f : /\ x = [run[r] EXCEPT !.at = step]
                  /\ f = [files[r] EXCEPT !.object = run[r].v]
  OBVIOUS
<1>6. /\ run' = [run EXCEPT ![r] = x]
      /\ files' = [files EXCEPT ![r] = f]
  BY <1>4, <1>5 DEF WriteObject, Write, To, IInv, RecordsTyped
<1>7. /\ x \in Progress /\ x.at = step /\ x.v = run[r].v
      /\ x.created = run[r].created
  BY <1>4, <1>5, ReceiptsSafe DEF Progress, Steps, Compared
<1>8. f \in Receipts /\ f.object = run[r].v
  <2>1. files[r] \in Receipts /\ run[r].v \in Nat BY ReceiptsSafe DEF Progress
  <2>2. QED BY <1>5, <2>1 DEF Receipts
<1>9. Backed(x, f)
  BY <1>3, <1>4, <1>7, <1>8 DEF Backed, Fetched, Compared, Verifying, Proved
<1>10. QED BY <1>1, <1>6, <1>7, <1>8, <1>9, CommandMoves

LEMMA WriteVerificationKeeps ==
  ASSUME IInv, NEW r \in Runs, WriteVerification(r)
  PROVE  IInv'
<1>1. NothingForeignComes /\ UNCHANGED source
  BY StoreStays DEF WriteVerification, Store, World
<1>2. run[r].at = "verified" BY DEF WriteVerification, At
<1>3. Safe(run[r].v) /\ ~run[r].created /\ files[r].object = run[r].v
  BY <1>2, ReceiptsSafe DEF Backed, Compared, Verifying
<1>4. PICK x, f : /\ x = [run[r] EXCEPT !.at = "cleanup"]
                  /\ f = [files[r] EXCEPT !.verification = run[r].v]
  OBVIOUS
<1>5. /\ run' = [run EXCEPT ![r] = x]
      /\ files' = [files EXCEPT ![r] = f]
  BY <1>4 DEF WriteVerification, Write, To, IInv, RecordsTyped
<1>6. /\ x \in Progress /\ x.at = "cleanup" /\ x.v = run[r].v
      /\ x.created = run[r].created
  BY <1>4, ReceiptsSafe DEF Progress, Steps, Compared, Proved
<1>7. f \in Receipts /\ f.object = files[r].object /\ f.verification = run[r].v
  <2>1. files[r] \in Receipts /\ run[r].v \in Nat BY ReceiptsSafe DEF Progress
  <2>2. QED BY <1>4, <2>1 DEF Receipts
<1>8. Backed(x, f)
  BY <1>3, <1>6, <1>7 DEF Backed, Fetched, Compared, Verifying, Proved
<1>9. QED BY <1>1, <1>5, <1>6, <1>7, <1>8, CommandMoves

LEMMA CleanupKeeps ==
  ASSUME IInv, NEW r \in Runs, Verify(r) \/ CleanupHead(r) \/ Confirm(r)
  PROVE  IInv'
<1>1. NothingForeignComes /\ UNCHANGED source
  BY StoreStays DEF Verify, CleanupHead, Confirm, Store, World
<1>2. CASE Block(r) BY <1>1, <1>2, BlockKeeps
<1>3. CASE Verify(r) /\ ~Block(r)
  <2>1. run[r].at = "verify" /\ To(r, "verified") /\ UNCHANGED files
    BY <1>3 DEF Verify, At
  <2>2. "verified" \in Steps BY DEF Steps, Compared, Verifying
  <2>3. QED BY <1>1, <2>1, <2>2, StepBacked, ToKeeps
<1>4. CASE (CleanupHead(r) \/ Confirm(r)) /\ ~Block(r)
  <2>1. PICK step \in Proved : To(r, step)
    BY <1>4 DEF CleanupHead, Confirm, Proved
  <2>2. run[r].at \in Proved /\ UNCHANGED files
    BY <1>4 DEF CleanupHead, Confirm, At, Proved
  <2>3. step \in Steps BY <2>1 DEF Steps, Compared
  <2>4. run[r].at \notin {"final", "upsert"} BY <2>2 DEF Proved
  <2>5. QED BY <1>1, <2>1, <2>2, <2>3, <2>4, StepBacked, ToKeeps
<1>5. QED BY <1>2, <1>3, <1>4

LEMMA DeleteKeeps ==
  ASSUME IInv, NEW r \in Runs, Delete(r)
  PROVE  IInv'
<1>1. UNCHANGED source /\ run[r].at = "delete" BY DEF Delete, World, At
<1>2. NothingForeignComes
  BY DEF Delete, NothingForeignComes, IInv, RecordsTyped, Contents
<1>3. CASE DeleteFails(r) BY <1>1, <1>2, <1>3, BlockKeeps DEF DeleteFails
<1>4. CASE ~DeleteFails(r)
  <2>1. To(r, "confirm") /\ UNCHANGED files BY <1>4 DEF Delete
  <2>2. "confirm" \in Steps /\ "confirm" \in Proved /\ "delete" \in Proved
    BY DEF Steps, Compared, Proved
  <2>3. QED BY <1>1, <1>2, <2>1, <2>2, StepBacked, ToKeeps
<1>5. QED BY <1>3, <1>4

LEMMA WriteEndKeeps ==
  ASSUME IInv, NEW r \in Runs, WriteCleanup(r) \/ WriteManifest(r)
  PROVE  IInv'
<1>1. NothingForeignComes /\ UNCHANGED source
  BY StoreStays DEF WriteCleanup, WriteManifest, Store, World
<1>2. CASE Block(r) BY <1>1, <1>2, BlockKeeps
<1>3. CASE WriteCleanup(r)
  <2>1. run[r].at = "confirmed" BY <1>3 DEF WriteCleanup, At
  <2>2. ~run[r].created BY <2>1, ReceiptsSafe DEF Backed
  <2>3. PICK step \in {"complete", "failed"} : To(r, step) BY <1>3 DEF WriteCleanup
  <2>4. PICK x, f : /\ x = [run[r] EXCEPT !.at = step]
                    /\ f = [files[r] EXCEPT !.cleanup = run[r].v]
    OBVIOUS
  <2>5. /\ run' = [run EXCEPT ![r] = x]
        /\ files' = [files EXCEPT ![r] = f]
    BY <1>3, <2>3, <2>4 DEF WriteCleanup, Write, To, IInv, RecordsTyped
  <2>6. x \in Progress /\ x.at = step /\ x.created = run[r].created
    BY <2>3, <2>4, ReceiptsSafe DEF Progress, Steps
  <2>7. f \in Receipts /\ f.object = files[r].object
    <3>1. files[r] \in Receipts /\ run[r].v \in Nat BY ReceiptsSafe DEF Progress
    <3>2. QED BY <2>4, <3>1 DEF Receipts
  <2>8. Backed(x, f)
    BY <2>2, <2>3, <2>6, <2>7, ReceiptsSafe
    DEF Backed, Fetched, Compared, Verifying, Proved
  <2>9. QED BY <1>1, <2>5, <2>6, <2>7, <2>8, CommandMoves
<1>4. CASE WriteManifest(r) /\ ~Block(r)
  <2>1. PICK f : f = [files[r] EXCEPT !.manifest = "complete"] OBVIOUS
  <2>2. /\ run' = [run EXCEPT ![r] = NoRun]
        /\ files' = [files EXCEPT ![r] = f]
    BY <1>4, <2>1 DEF WriteManifest, Write, Leave, IInv, RecordsTyped
  <2>3. f \in Receipts /\ f.object = files[r].object
    <3>1. files[r] \in Receipts BY ReceiptsSafe
    <3>2. QED BY <2>1, <3>1 DEF Receipts
  <2>4. NoRun \in Progress /\ Backed(NoRun, f) BY <2>3, ReceiptsSafe, NoRunBacked
  <2>5. QED BY <1>1, <2>2, <2>3, <2>4, CommandMoves
<1>5. QED BY <1>2, <1>3, <1>4

-----------------------------------------------------------------------------
LEMMA InitIInv == Init => IInv
<1> SUFFICES ASSUME Init PROVE IInv OBVIOUS
<1>1. source \in Versions BY OneObjectAssumption DEF Init
<1>2. bucket \in [Versions -> Contents] BY DEF Init, Contents
<1>3. NoFiles \in Receipts /\ NoFiles.object = NoVersion
  BY DEF NoFiles, Receipts, NoVersion
<1>4. NoRun \in Progress /\ Backed(NoRun, NoFiles) BY <1>3, NoRunBacked
<1>5. files \in [Runs -> Receipts] /\ run \in [Runs -> Progress]
  BY <1>3, <1>4 DEF Init
<1>6. RunsBacked BY <1>4 DEF Init, RunsBacked
<1>7. QED BY <1>1, <1>2, <1>5, <1>6 DEF IInv, RecordsTyped

LEMMA NextIInv == IInv /\ [Next]_vars => IInv'
<1> SUFFICES ASSUME IInv, [Next]_vars PROVE IInv' OBVIOUS
<1>1. ASSUME NEW r \in Runs, Command(r) PROVE IInv'
  BY <1>1, GatesKeeps, FetchKeeps, ExistingKeeps, CreateKeeps, FinalKeeps,
     WriteObjectKeeps, WriteVerificationKeeps, CleanupKeeps, DeleteKeeps,
     WriteEndKeeps
  DEF Command
<1>2. ASSUME NEW r \in Runs, Start(r) \/ Preflight(r) \/ Crash(r) PROVE IInv'
  BY <1>2, StartKeeps
<1>3. CASE ChangeSource \/ Expire \/ UNCHANGED vars
  <2>1. UNCHANGED <<bucket, files, run>>
    BY <1>3 DEF ChangeSource, Expire, vars, Store
  <2>2. source' \in Versions
    BY <1>3, OneObjectAssumption
    DEF ChangeSource, Expire, vars, IInv, RecordsTyped
  <2>3. QED BY <2>1, <2>2 DEF IInv, RecordsTyped, RunsBacked, Backed, Safe
<1>4. QED BY <1>1, <1>2, <1>3 DEF Next

(* An object leaves the bucket only when it is one of ours and the         *)
(* directory that deletes it names its key in both durable receipts        *)
(* (_cleanup, acquire_one_to_r2), for any number of directories, source    *)
(* changes, lost answers and crashes.                                      *)
THEOREM CleanupIsProved == Spec => CleanupUnderProof
<1> DEFINE Proof == \A v \in Versions :
      bucket[v] # "absent" /\ bucket'[v] = "absent" =>
        /\ bucket[v] = "ours"
        /\ \E r \in Runs : /\ At(r, "delete")
                           /\ files[r].object = v
                           /\ files[r].verification = v
<1>1. IInv /\ [Next]_vars => [Proof]_vars
  <2> SUFFICES ASSUME IInv, [Next]_vars, NEW v \in Versions,
                      bucket[v] # "absent", bucket'[v] = "absent"
               PROVE  /\ bucket[v] = "ours"
                      /\ \E r \in Runs : /\ At(r, "delete")
                                         /\ files[r].object = v
                                         /\ files[r].verification = v
    OBVIOUS
  <2>1. ~UNCHANGED bucket OBVIOUS
  <2>2. PICK r \in Runs : Create(r) \/ Delete(r)
    BY <2>1 DEF Next, Command, Start, Preflight, Crash, Gates, Robots, Fetch, Lookup,
      Existing, Final, Upsert, Attempted, WriteObject, Verify, WriteVerification,
      CleanupHead, Confirm, WriteCleanup, WriteManifest, ChangeSource, Expire,
      Store, vars
  <2>3. ~Create(r) BY DEF Create, IInv, RecordsTyped
  <2>4. Delete(r) BY <2>2, <2>3
  <2>5. run[r].at = "delete" /\ run[r].v = v
    BY <2>4 DEF Delete, At, IInv, RecordsTyped
  <2>6. /\ Safe(v) /\ files[r].object = v /\ files[r].verification = v
    BY <2>5, ReceiptsSafe DEF Backed, Compared, Proved
  <2>7. bucket[v] = "ours" BY <2>6 DEF Safe, IInv, RecordsTyped, Contents
  <2>8. QED BY <2>5, <2>6, <2>7 DEF At
<1>2. QED BY InitIInv, NextIInv, <1>1, PTL DEF Spec, CleanupUnderProof
-----------------------------------------------------------------------------
(***************************************************************************)
(* What a directory leaves behind.  Both conjuncts of OnlyOutdatedRemain   *)
(* speak of one directory at a time: other commands can only take its      *)
(* copies away, so the invariant has no part that relates two runs.        *)
(***************************************************************************)

(* The steps at which the verification is still to be written, the ones    *)
(* that carry the version just fetched, and the ones at which the run may  *)
(* have a copy of its own in the bucket although nothing has failed.       *)
Unverified == {"robots", "fetch", "upsert", "object"} \cup Fetched
Receipting == {"upsert", "object"} \cup Fetched \cup Verifying
Holding(x) ==
    \/ x.at \in {"object", "cleanup", "delete"} \cup Verifying
    \/ x.at \in {"final", "upsert"} /\ x.created

(* A directory whose receipts all name one version (Completed, without its *)
(* manifest).                                                              *)
AllNameOne(f) ==
    f.object # NoVersion /\ f.verification = f.object /\ f.cleanup = f.object

(* What a run x over receipts f keeps to, l being the version it fetched   *)
(* last: a verification is of the object on record and ends the fetching   *)
(* for good, and only a directory with all its receipts is called complete.*)
Orderly(x, f, l) ==
    /\ x.at \in Receipting => x.v = l
    /\ f.verification \in {NoVersion, f.object}
    /\ f.verification # NoVersion => f.object = l
    /\ x.at # "ended" => f.manifest # "complete"
    /\ x.at \in Unverified => f.verification = NoVersion
    /\ x.at = "complete" \/ f.manifest = "complete" => AllNameOne(f)

(* Of the copies m it made, none is of the receipted bytes once their      *)
(* absence was confirmed, and as long as nothing failed the only one is of *)
(* the version at hand.                                                    *)
Cleared(x, f, m, n) ==
    /\ x.at \in {"confirmed", "complete"} \/ f.manifest = "complete" => f.object \notin m
    /\ n = 0 => \A v \in m : Holding(x) /\ x.v = v

HistoryTyped ==
    /\ made \in [Runs -> SUBSET Versions]
    /\ last \in [Runs -> Nat]
    /\ faults \in Nat
CopiesThere == \A r \in Runs : \A v \in made[r] : bucket[v] = "ours"
RunsOrderly == \A r \in Runs : Orderly(run[r], files[r], last[r])
RunsCleared == \A r \in Runs : Cleared(run[r], files[r], made[r], faults)

DInv == IInv /\ HistoryTyped /\ CopiesThere /\ RunsOrderly /\ RunsCleared

-----------------------------------------------------------------------------
FaultsCounted == faults' \in Nat /\ (faults' = 0 => faults = 0)

(* What the invariant says of one run.                                     *)
LEMMA RunSound ==
  ASSUME DInv, NEW r \in Runs
  PROVE  /\ files[r] \in Receipts
         /\ run[r] \in Progress
         /\ Backed(run[r], files[r])
         /\ Orderly(run[r], files[r], last[r])
         /\ Cleared(run[r], files[r], made[r], faults)
         /\ made[r] \in SUBSET Versions /\ last[r] \in Nat
         /\ \A v \in made[r] : bucket[v] = "ours"
BY ReceiptsSafe DEF DInv, RunsOrderly, RunsCleared, HistoryTyped, CopiesThere

LEMMA FaultOrNone ==
  ASSUME DInv, Fault \/ NoFault
  PROVE  FaultsCounted /\ (Fault => faults' # 0)
BY DEF DInv, HistoryTyped, Fault, NoFault, FaultsCounted

(* While nothing failed, a copy a run made is the one it has in hand.      *)
LEMMA OwnCopy ==
  ASSUME DInv, NEW r \in Runs, faults = 0, made[r] # {}
  PROVE  Holding(run[r]) /\ run[r].v \in made[r] /\ Matches(run[r].v)
<1>1. PICK v \in made[r] : TRUE OBVIOUS
<1>2. Holding(run[r]) /\ run[r].v = v BY <1>1, RunSound DEF Cleared
<1>3. bucket[v] = "ours" BY <1>1, RunSound
<1>4. QED BY <1>1, <1>2, <1>3 DEF Matches

(* One run moves; of the others only copies are taken away.                *)
LEMMA RunMoves ==
  ASSUME DInv, IInv', FaultsCounted,
         NEW r \in Runs, NEW x, NEW f, NEW l \in Nat,
         run' = [run EXCEPT ![r] = x],
         files' = [files EXCEPT ![r] = f],
         last' = [last EXCEPT ![r] = l],
         made' \in [Runs -> SUBSET Versions],
         \A s \in Runs \ {r} : made'[s] \subseteq made[s],
         \A s \in Runs : \A v \in made'[s] : bucket'[v] = "ours",
         Orderly(x, f, l), Cleared(x, f, made'[r], faults')
  PROVE  DInv'
<1>1. run'[r] = x /\ files'[r] = f /\ last'[r] = l
  BY DEF DInv, IInv, RecordsTyped, HistoryTyped
<1>2. ASSUME NEW s \in Runs, s # r
      PROVE  run'[s] = run[s] /\ files'[s] = files[s] /\ last'[s] = last[s]
  BY <1>2 DEF DInv, IInv, RecordsTyped, HistoryTyped
<1>3. HistoryTyped' BY DEF DInv, HistoryTyped, FaultsCounted
<1>4. CopiesThere' BY DEF CopiesThere
<1>5. RunsOrderly'
  <2>1. ASSUME NEW s \in Runs PROVE Orderly(run'[s], files'[s], last'[s])
    <3>1. CASE s = r BY <1>1, <3>1
    <3>2. CASE s # r BY <1>2, <3>2, RunSound
    <3>3. QED BY <3>1, <3>2
  <2>2. QED BY <2>1 DEF RunsOrderly, Orderly, AllNameOne
<1>6. RunsCleared'
  <2>1. ASSUME NEW s \in Runs PROVE Cleared(run'[s], files'[s], made'[s], faults')
    <3>1. CASE s = r BY <1>1, <3>1
    <3>2. CASE s # r
      <4>1. Cleared(run[s], files[s], made[s], faults) BY RunSound
      <4>2. QED BY <1>2, <3>2, <4>1 DEF Cleared, FaultsCounted
    <3>3. QED BY <3>1, <3>2
  <2>2. QED BY <2>1 DEF RunsCleared, Cleared, Holding
<1>7. QED BY <1>3, <1>4, <1>5, <1>6 DEF DInv

(* The usual step: the bucket and what is told of it stay.                 *)
LEMMA RunGoesOn ==
  ASSUME DInv, IInv', Fault \/ NoFault, UNCHANGED <<bucket, made, last>>,
         NEW r \in Runs, NEW x, NEW f,
         run' = [run EXCEPT ![r] = x],
         files' = [files EXCEPT ![r] = f],
         Orderly(x, f, last[r]), Cleared(x, f, made[r], faults')
  PROVE  DInv'
<1>1. FaultsCounted BY FaultOrNone
<1>2. last[r] \in Nat /\ last' = [last EXCEPT ![r] = last[r]]
  BY DEF DInv, HistoryTyped
<1>3. /\ made' \in [Runs -> SUBSET Versions]
      /\ \A s \in Runs \ {r} : made'[s] \subseteq made[s]
      /\ \A s \in Runs : \A v \in made'[s] : bucket'[v] = "ours"
  BY DEF DInv, HistoryTyped, CopiesThere
<1>4. Cleared(x, f, made'[r], faults') OBVIOUS
<1>5. PICK l \in Nat : l = last[r] BY <1>2
<1>6. last' = [last EXCEPT ![r] = l] /\ Orderly(x, f, l) BY <1>2, <1>5
<1>7. QED BY <1>1, <1>3, <1>4, <1>6, RunMoves

LEMMA FilesStay ==
  ASSUME DInv, NEW r \in Runs, UNCHANGED files
  PROVE  files' = [files EXCEPT ![r] = files[r]]
BY DEF DInv, IInv, RecordsTyped

(* A command that ends leaves its receipts; unless something failed it has *)
(* no copy left to leave.                                                  *)
LEMMA NoRunSound ==
  ASSUME DInv, NEW r \in Runs, NEW f, FaultsCounted,
         f.object = files[r].object, f.verification = files[r].verification,
         f.cleanup = files[r].cleanup,
         f.manifest \in {"blocked", files[r].manifest},
         faults' = 0 => made[r] = {}
  PROVE  /\ Orderly(NoRun, f, last[r])
         /\ Cleared(NoRun, f, made[r], faults')
<1>1. NoRun.at = "ended" BY DEF NoRun
<1>2. Orderly(run[r], files[r], last[r]) /\ Cleared(run[r], files[r], made[r], faults)
  BY RunSound
<1>3. Orderly(NoRun, f, last[r])
  BY <1>1, <1>2 DEF Orderly, Unverified, Receipting, Verifying, Fetched, AllNameOne
<1>4. Cleared(NoRun, f, made[r], faults') BY <1>1, <1>2 DEF Cleared
<1>5. QED BY <1>3, <1>4

LEMMA BlockSound ==
  ASSUME DInv, IInv', Fault \/ NoFault, UNCHANGED <<bucket, made, last>>,
         NEW r \in Runs, Block(r), faults' = 0 => made[r] = {}
  PROVE  DInv'
<1>1. PICK f : f = [files[r] EXCEPT !.manifest = "blocked"] OBVIOUS
<1>2. /\ f.object = files[r].object /\ f.verification = files[r].verification
      /\ f.cleanup = files[r].cleanup /\ f.manifest = "blocked"
  <2>1. files[r] \in Receipts BY RunSound
  <2>2. QED BY <1>1, <2>1 DEF Receipts
<1>3. files' = [files EXCEPT ![r] = f] /\ run' = [run EXCEPT ![r] = NoRun]
  BY <1>1 DEF Block, Write, Leave
<1>4. FaultsCounted BY FaultOrNone
<1>5. /\ Orderly(NoRun, f, last[r])
      /\ Cleared(NoRun, f, made[r], faults')
  BY <1>2, <1>4, NoRunSound
<1>6. QED BY <1>3, <1>5, RunGoesOn

(* A command that fails on something lost may leave a copy behind, one     *)
(* that fails otherwise only where it has none.                            *)
LEMMA BlockWithout ==
  ASSUME DInv, IInv', UNCHANGED <<bucket, made, last>>, NEW r \in Runs, Block(r),
         \/ Fault
         \/ NoFault /\ ~(Holding(run[r]) /\ Matches(run[r].v))
  PROVE  DInv'
<1>1. faults' = 0 => made[r] = {} BY FaultOrNone, OwnCopy DEF FaultsCounted
<1>2. QED BY <1>1, BlockSound

(* A run that moves to a step keeps its version and its receipts.          *)
LEMMA ToSound ==
  ASSUME DInv, IInv', Fault \/ NoFault, UNCHANGED <<files, bucket, made, last>>,
         NEW r \in Runs, NEW step \in Steps, To(r, step),
         run[r].at # "ended" \/ files[r].manifest # "complete",
         step \in Unverified => run[r].at \in Unverified,
         step \in Receipting => run[r].at \in Receipting,
         step \notin {"ended", "complete"},
         step = "confirmed" => files[r].object \notin made[r],
         faults' = 0 /\ made[r] # {} => Holding([run[r] EXCEPT !.at = step])
  PROVE  DInv'
<1>1. PICK x, f : x = [run[r] EXCEPT !.at = step] /\ f = files[r] OBVIOUS
<1>2. x.at = step /\ x.v = run[r].v BY <1>1, RunSound DEF Progress
<1>3. run' = [run EXCEPT ![r] = x] /\ files' = [files EXCEPT ![r] = f]
  BY <1>1, FilesStay DEF To
<1>4. Orderly(x, f, last[r]) BY <1>1, <1>2, RunSound DEF Orderly
<1>5. files[r].manifest # "complete" BY RunSound DEF Orderly
<1>6. faults' = 0 /\ made[r] # {} => Holding(x) BY <1>1
<1>7. Cleared(x, f, made[r], faults')
  <2>1. Cleared(run[r], files[r], made[r], faults) /\ FaultsCounted
    BY RunSound, FaultOrNone
  <2>2. QED BY <1>1, <1>2, <1>5, <1>6, <2>1 DEF Cleared, FaultsCounted
<1>8. QED BY <1>3, <1>4, <1>7, RunGoesOn

(* A matching object makes a receipt of the version at hand.               *)
LEMMA ReceiptSound ==
  ASSUME DInv, IInv', Fault \/ NoFault, UNCHANGED <<files, bucket, made, last>>,
         NEW r \in Runs, NEW path \in Paths, run[r].at \in Fetched \cup {"upsert"},
         run' = [run EXCEPT ![r] = [NoRun EXCEPT !.at = "object", !.v = run[r].v,
                                                 !.path = path]]
  PROVE  DInv'
<1>1. PICK x, f : /\ x = [NoRun EXCEPT !.at = "object", !.v = run[r].v, !.path = path]
                  /\ f = files[r]
  OBVIOUS
<1>2. x.at = "object" /\ x.v = run[r].v BY <1>1 DEF NoRun
<1>3. run' = [run EXCEPT ![r] = x] /\ files' = [files EXCEPT ![r] = f]
  BY <1>1, FilesStay
<1>4. run[r].at \in Unverified /\ run[r].at \in Receipting /\ run[r].at # "ended"
  BY DEF Unverified, Receipting, Fetched
<1>5. Orderly(x, f, last[r]) BY <1>1, <1>2, <1>4, RunSound DEF Orderly
<1>6. files[r].manifest # "complete" BY <1>4, RunSound DEF Orderly
<1>7. Cleared(x, f, made[r], faults')
  <2>1. Cleared(run[r], files[r], made[r], faults) /\ FaultsCounted
    BY RunSound, FaultOrNone
  <2>2. Holding(x) BY <1>2 DEF Holding
  <2>3. QED BY <1>1, <1>2, <1>6, <2>1, <2>2 DEF Cleared, FaultsCounted
<1>8. QED BY <1>3, <1>5, <1>7, RunGoesOn

(* A transfer that created an object hands its receipt up; one that did    *)
(* not has nothing of its own in the bucket.                               *)
LEMMA FailureSound ==
  ASSUME DInv, IInv', Fault \/ NoFault, UNCHANGED <<bucket, made, last>>,
         NEW r \in Runs, TransferFails(r), run[r].at \in {"final", "upsert"}
  PROVE  DInv'
<1>1. CASE run[r].created /\ ~Block(r)
  <2>1. "created" \in Paths /\ run[r].at \in Fetched \cup {"upsert"}
    BY DEF Paths, Fetched
  <2>2. UNCHANGED files BY <1>1 DEF TransferFails
  <2>3. run' = [run EXCEPT ![r] = [NoRun EXCEPT !.at = "object", !.v = run[r].v,
                                                 !.path = "created"]]
    BY <1>1 DEF TransferFails
  <2>4. QED BY <2>1, <2>2, <2>3, ReceiptSound
<1>2. CASE ~run[r].created
  <2>1. Block(r) BY <1>2 DEF TransferFails
  <2>2. ~Holding(run[r]) BY <1>2 DEF Holding, Verifying
  <2>3. QED BY <2>1, <2>2, BlockWithout
<1>3. CASE run[r].created /\ Block(r)
  <2>1. PICK x : x = [NoRun EXCEPT !.at = "object", !.v = run[r].v, !.path = "created"]
    OBVIOUS
  <2>2. x.at = "object" /\ NoRun.at = "ended" BY <2>1 DEF NoRun
  <2>3. run' = [run EXCEPT ![r] = x] BY <1>3, <2>1 DEF TransferFails
  <2>4. run' = [run EXCEPT ![r] = NoRun] BY <1>3 DEF Block, Leave
  <2>5. QED BY <2>2, <2>3, <2>4 DEF DInv, IInv, RecordsTyped
<1>4. QED BY <1>1, <1>2, <1>3

-----------------------------------------------------------------------------
(* One lemma per step of a command.                                        *)

LEMMA StartSound ==
  ASSUME DInv, IInv', NEW r \in Runs, Start(r) \/ Preflight(r) \/ Crash(r)
  PROVE  DInv'
<1>1. UNCHANGED <<bucket, made, last>> BY DEF Start, Preflight, Crash, Store
<1>2. CASE Start(r)
  <2>1. run[r].at = "ended" /\ To(r, "gates") /\ UNCHANGED files /\ NoFault
    BY <1>2 DEF Start, At
  <2>2. files[r].manifest # "complete"
    BY <1>2, RunSound DEF Start, Orderly, AllNameOne, Completed
  <2>3. "gates" \in Steps /\ "gates" \notin Unverified /\ "gates" \notin Receipting
    BY DEF Steps, Unverified, Receipting, Verifying, Fetched
  <2>4. faults' = 0 => made[r] = {}
    BY <2>1, OwnCopy DEF NoFault, Holding, Verifying
  <2>5. QED BY <1>1, <2>1, <2>2, <2>3, <2>4, ToSound
<1>3. CASE Preflight(r)
  <2>1. run[r].at = "ended" /\ Block(r) /\ (Fault \/ NoFault)
    BY <1>3 DEF Preflight, At, ApprovalInvalid, NoClient
  <2>2. ~Holding(run[r]) BY <2>1 DEF Holding, Verifying
  <2>3. QED BY <1>1, <2>1, <2>2, BlockWithout
<1>4. CASE Crash(r)
  <2>1. UNCHANGED files /\ run' = [run EXCEPT ![r] = NoRun] /\ Fault
    BY <1>4 DEF Crash, Leave
  <2>2. PICK f : f = files[r] OBVIOUS
  <2>3. files' = [files EXCEPT ![r] = f] BY <2>1, <2>2, FilesStay
  <2>4. FaultsCounted /\ faults' # 0 BY <2>1, FaultOrNone
  <2>5. Orderly(NoRun, f, last[r]) /\ Cleared(NoRun, f, made[r], faults')
    BY <2>2, <2>4, NoRunSound
  <2>6. QED BY <1>1, <2>1, <2>3, <2>5, RunGoesOn
<1>5. QED BY <1>2, <1>3, <1>4

(* A directory that does not resume has no verification on record.         *)
LEMMA GatesSound ==
  ASSUME DInv, IInv', NEW r \in Runs, Gates(r)
  PROVE  DInv'
<1>1. UNCHANGED <<bucket, made, last>> BY DEF Gates, Store
<1>2. run[r].at = "gates" /\ ~Holding(run[r])
  BY DEF Gates, At, Holding, Verifying
<1>3. CASE Block(r) /\ (Fault \/ NoFault) BY <1>1, <1>2, <1>3, BlockWithout
<1>4. CASE NoFault /\ ~Block(r)
  <2>1. PICK x, f : /\ x = IF Resumable(r)
                           THEN [NoRun EXCEPT !.at = "cleanup", !.path = "resume",
                                              !.v = files[r].object]
                           ELSE [NoRun EXCEPT !.at = "robots"]
                    /\ f = files[r]
    OBVIOUS
  <2>2. run' = [run EXCEPT ![r] = x] /\ files' = [files EXCEPT ![r] = f]
    BY <1>4, <2>1, FilesStay DEF Gates
  <2>3. files[r].manifest # "complete" BY <1>2, RunSound DEF Orderly
  <2>4. x.at = IF Resumable(r) THEN "cleanup" ELSE "robots" BY <2>1 DEF NoRun
  <2>5. Orderly(x, f, last[r])
    <3>1. ~Resumable(r) => f.verification = NoVersion
      BY <2>1, RunSound DEF Resumable, Orderly
    <3>2. x.at \notin Receipting BY <2>4 DEF Receipting, Verifying, Fetched
    <3>3. x.at \in Unverified => ~Resumable(r) BY <2>4 DEF Unverified, Fetched
    <3>4. x.at # "complete" BY <2>4
    <3>5. QED BY <2>1, <2>3, <3>1, <3>2, <3>3, <3>4, RunSound DEF Orderly
  <2>6. Cleared(x, f, made[r], faults')
    <3>1. faults' = 0 => made[r] = {} BY <1>2, <1>4, OwnCopy DEF NoFault
    <3>2. QED BY <2>1, <2>3, <2>4, <3>1 DEF Cleared
  <2>7. QED BY <1>1, <1>4, <2>2, <2>5, <2>6, RunGoesOn
<1>5. QED BY <1>3, <1>4 DEF Gates, ApprovalInvalid, NotReady

(* What is fetched is what a receipt will tell of.                         *)
LEMMA FetchSound ==
  ASSUME DInv, IInv', NEW r \in Runs, Fetch(r)
  PROVE  DInv'
<1>1. UNCHANGED <<bucket, made>> BY DEF Fetch
<1>2. run[r].at = "fetch" /\ ~Holding(run[r])
  BY DEF Fetch, At, Holding, Verifying
<1>3. CASE Block(r) /\ Fault /\ UNCHANGED last
  BY <1>1, <1>2, <1>3, BlockWithout
<1>4. CASE /\ last' = [last EXCEPT ![r] = source] /\ NoFault /\ UNCHANGED files
           /\ run' = [run EXCEPT ![r].at = "lookup", ![r].v = source]
  <2>1. PICK x, f, l : /\ x = [run[r] EXCEPT !.at = "lookup", !.v = source]
                       /\ f = files[r] /\ l = source
    OBVIOUS
  <2>2. /\ run' = [run EXCEPT ![r] = x] /\ files' = [files EXCEPT ![r] = f]
        /\ last' = [last EXCEPT ![r] = l]
    BY <1>4, <2>1, FilesStay DEF DInv, IInv, RecordsTyped
  <2>3. x.at = "lookup" /\ x.v = l BY <2>1, RunSound DEF Progress
  <2>4. l \in Nat BY <2>1, OneObjectAssumption DEF DInv, IInv, RecordsTyped
  <2>5. files[r].manifest # "complete" /\ files[r].verification = NoVersion
    BY <1>2, RunSound DEF Orderly, Unverified
  <2>6. Orderly(x, f, l)
    <3>1. NoVersion \in {NoVersion, f.object} OBVIOUS
    <3>2. QED BY <2>1, <2>3, <2>5, <3>1 DEF Orderly
  <2>7. Cleared(x, f, made'[r], faults')
    <3>1. faults' = 0 => made'[r] = {} BY <1>1, <1>2, <1>4, OwnCopy DEF NoFault
    <3>2. QED BY <2>1, <2>3, <2>5, <3>1 DEF Cleared
  <2>8. /\ made' \in [Runs -> SUBSET Versions]
        /\ \A s \in Runs \ {r} : made'[s] \subseteq made[s]
        /\ \A s \in Runs : \A v \in made'[s] : bucket'[v] = "ours"
    BY <1>1 DEF DInv, HistoryTyped, CopiesThere
  <2>9. FaultsCounted BY <1>4, FaultOrNone
  <2>10. QED BY <2>2, <2>4, <2>6, <2>7, <2>8, <2>9, RunMoves
<1>5. QED BY <1>3, <1>4 DEF Fetch, FetchFails

LEMMA LookupSound ==
  ASSUME DInv, IInv', NEW r \in Runs, Robots(r) \/ Lookup(r)
  PROVE  DInv'
<1>1. UNCHANGED <<bucket, made, last>> BY DEF Robots, Lookup, Store
<1>2. run[r].at \in {"robots", "lookup"} /\ ~Holding(run[r])
  BY DEF Robots, Lookup, At, Holding, Verifying
<1>3. CASE Block(r) /\ Fault BY <1>1, <1>2, <1>3, BlockWithout
<1>4. NoFault => (faults' = 0 => made[r] = {}) BY <1>2, OwnCopy DEF NoFault
<1>5. CASE run[r].at = "robots" /\ To(r, "fetch") /\ UNCHANGED files /\ NoFault
  <2>1. /\ "fetch" \in Steps /\ "fetch" \notin Receipting
        /\ run[r].at \in Unverified
    BY <1>5 DEF Steps, Unverified, Receipting, Verifying, Fetched
  <2>2. run[r].at # "ended" BY <1>5
  <2>3. QED BY <1>1, <1>4, <1>5, <2>1, <2>2, ToSound
<1>6. CASE Lookup(r)
  <2>1. PICK x, f : /\ x = [run[r] EXCEPT !.at = "existing",
                                         !.known = ledger[run[r].v] # "none"]
                    /\ f = files[r]
    OBVIOUS
  <2>2. run' = [run EXCEPT ![r] = x] /\ files' = [files EXCEPT ![r] = f]
    BY <1>6, <2>1, FilesStay DEF Lookup, DInv, IInv, RecordsTyped
  <2>3. x.at = "existing" /\ x.v = run[r].v BY <2>1, RunSound DEF Progress
  <2>4. run[r].at = "lookup" /\ NoFault BY <1>6 DEF Lookup, At
  <2>5. Orderly(x, f, last[r])
    BY <2>1, <2>3, <2>4, RunSound DEF Orderly, Unverified, Receipting, Fetched
  <2>6. Cleared(x, f, made[r], faults')
    <3>1. files[r].manifest # "complete" BY <2>4, RunSound DEF Orderly
    <3>2. QED BY <1>4, <2>1, <2>3, <2>4, <3>1 DEF Cleared
  <2>7. QED BY <1>1, <2>2, <2>4, <2>5, <2>6, RunGoesOn
<1>7. QED BY <1>3, <1>5, <1>6 DEF Robots, At, RobotsRefuse

LEMMA ExistingSound ==
  ASSUME DInv, IInv', NEW r \in Runs, Existing(r)
  PROVE  DInv'
<1>1. UNCHANGED <<bucket, made, last>> BY DEF Existing, Store
<1>2. run[r].at = "existing" /\ ~Holding(run[r])
  BY DEF Existing, At, Holding, Verifying
<1>3. CASE Block(r) /\ (Fault \/ NoFault) BY <1>1, <1>2, <1>3, BlockWithout
<1>4. CASE Receipted(r) /\ UNCHANGED files /\ NoFault
  <2>1. run[r].at \in Fetched \cup {"upsert"} /\ "main" \in Paths
    BY <1>2 DEF Fetched, Paths
  <2>2. QED BY <1>1, <1>4, <2>1, ReceiptSound DEF Receipted
<1>5. CASE /\ To(r, IF bucket[run[r].v] = "absent" THEN "create" ELSE "final")
           /\ UNCHANGED files /\ NoFault
  <2>1. PICK step \in {"create", "final"} : To(r, step) BY <1>5
  <2>2. step \in Steps /\ run[r].at \in Unverified /\ run[r].at \in Receipting
    BY <1>2, <2>1 DEF Steps, Unverified, Receipting, Fetched
  <2>3. faults' = 0 => made[r] = {} BY <1>2, <1>5, OwnCopy DEF NoFault
  <2>4. step \notin {"ended", "complete", "confirmed"} BY <2>1
  <2>5. QED BY <1>1, <1>2, <1>5, <2>1, <2>2, <2>3, <2>4, ToSound
<1>6. QED BY <1>3, <1>4, <1>5 DEF Existing, HeadFails

(* The one step that puts a copy there: from here its run has it in hand.  *)
LEMMA CreateSound ==
  ASSUME DInv, IInv', NEW r \in Runs, Create(r)
  PROVE  DInv'
<1>1. UNCHANGED <<files, last>> /\ run[r].at = "create" BY DEF Create, At
<1>2. run[r].v \in Versions BY <1>1, RunSound DEF Backed, Fetched
<1>3. /\ made' \in [Runs -> SUBSET Versions]
      /\ \A s \in Runs \ {r} : made'[s] \subseteq made[s]
      /\ made'[r] \subseteq made[r] \union {run[r].v}
      /\ bucket[run[r].v] # "absent" => made'[r] = made[r]
  BY <1>2 DEF Create, DInv, HistoryTyped
<1>4. \A s \in Runs : \A v \in made'[s] : bucket'[v] = "ours"
  <2>1. CASE UNCHANGED <<bucket, made>> BY <2>1 DEF DInv, CopiesThere
  <2>2. CASE /\ bucket' = [bucket EXCEPT ![run[r].v] = "ours"]
             /\ made' = [made EXCEPT ![r] = @ \union {run[r].v}]
    <3>1. \A s \in Runs : made'[s] \subseteq made[s] \union {run[r].v}
      BY <2>2 DEF DInv, HistoryTyped
    <3>2. \A v \in Versions : bucket[v] = "ours" \/ v = run[r].v => bucket'[v] = "ours"
      BY <2>2 DEF DInv, IInv, RecordsTyped
    <3>3. \A s \in Runs : made[s] \subseteq Versions BY DEF DInv, HistoryTyped
    <3>4. QED BY <1>2, <3>1, <3>2, <3>3 DEF DInv, CopiesThere
  <2>3. QED BY <2>1, <2>2 DEF Create
<1>5. Fault \/ NoFault BY DEF Create
<1>6. files[r].manifest # "complete" BY <1>1, RunSound DEF Orderly
<1>7. faults = 0 => made[r] = {} BY <1>1, OwnCopy DEF Holding, Verifying
<1>8. PICK x, f : /\ \/ x = [run[r] EXCEPT !.at = "final",
                                          !.created = bucket[run[r].v] = "absent"]
                        /\ NoFault
                     \/ x = [run[r] EXCEPT !.at = "attempted", !.path = "attempted"]
                        /\ Fault
                 /\ run' = [run EXCEPT ![r] = x]
                 /\ f = files[r]
  <2>1. \/ /\ run' = [run EXCEPT ![r] = [run[r] EXCEPT !.at = "final",
                                        !.created = bucket[run[r].v] = "absent"]]
           /\ NoFault
        \/ /\ run' = [run EXCEPT ![r] = [run[r] EXCEPT !.at = "attempted",
                                                    !.path = "attempted"]]
           /\ Fault
    BY DEF Create, DInv, IInv, RecordsTyped
  <2>2. QED BY <2>1
<1>9. /\ x.at \in {"final", "attempted"} /\ x.v = run[r].v
      /\ Fault \/ (x.at = "final" /\ x.created = (bucket[run[r].v] = "absent"))
  BY <1>8, RunSound DEF Progress
<1>10. files' = [files EXCEPT ![r] = f] BY <1>1, <1>8, FilesStay
<1>11. Orderly(x, f, last[r])
  <2>1. run[r].at \in Unverified /\ run[r].at \in Receipting
    BY <1>1 DEF Unverified, Receipting, Fetched
  <2>2. QED BY <1>6, <1>8, <1>9, <2>1, RunSound DEF Orderly
<1>12. Cleared(x, f, made'[r], faults')
  <2>1. ASSUME faults' = 0, NEW v \in made'[r] PROVE Holding(x) /\ x.v = v
    <3>1. ~Fault /\ made[r] = {} BY <1>5, <1>7, <2>1, FaultOrNone DEF FaultsCounted
    <3>2. v = run[r].v /\ bucket[run[r].v] = "absent" BY <1>3, <2>1, <3>1
    <3>3. QED BY <1>9, <3>1, <3>2 DEF Holding
  <2>2. QED BY <1>6, <1>8, <1>9, <2>1 DEF Cleared
<1>13. last' = [last EXCEPT ![r] = last[r]] /\ last[r] \in Nat
  BY <1>1 DEF DInv, HistoryTyped
<1>14. FaultsCounted BY <1>5, FaultOrNone
<1>15. PICK l \in Nat : l = last[r] BY <1>13
<1>16. last' = [last EXCEPT ![r] = l] /\ Orderly(x, f, l) BY <1>11, <1>13, <1>15
<1>17. QED BY <1>3, <1>4, <1>8, <1>10, <1>12, <1>14, <1>16, RunMoves

LEMMA FinalSound ==
  ASSUME DInv, IInv', NEW r \in Runs, Final(r) \/ Upsert(r)
  PROVE  DInv'
<1>1. UNCHANGED <<bucket, made, last>> /\ (Fault \/ NoFault)
  BY DEF Final, Upsert, Store, HeadFails
<1>2. run[r].at \in {"final", "upsert"} BY DEF Final, Upsert, At
<1>3. CASE TransferFails(r) BY <1>1, <1>2, <1>3, FailureSound
<1>4. CASE Final(r) /\ ~TransferFails(r)
  <2>1. run[r].at = "final" /\ To(r, "upsert") /\ UNCHANGED files /\ NoFault
    BY <1>4 DEF Final, At
  <2>2. /\ "upsert" \in Steps /\ run[r].at \in Unverified /\ run[r].at \in Receipting
    BY <2>1 DEF Steps, Compared, Unverified, Receipting, Fetched
  <2>3. ASSUME faults' = 0, made[r] # {} PROVE Holding([run[r] EXCEPT !.at = "upsert"])
    <3>1. PICK x : x = [run[r] EXCEPT !.at = "upsert"] OBVIOUS
    <3>2. x.at = "upsert" /\ x.created = run[r].created
      BY <3>1, RunSound DEF Progress
    <3>3. run[r].created
      BY <2>1, <2>3, OwnCopy DEF NoFault, Holding, Verifying
    <3>4. QED BY <3>1, <3>2, <3>3 DEF Holding
  <2>4. run[r].at # "ended" BY <2>1
  <2>5. QED BY <1>1, <2>1, <2>2, <2>3, <2>4, ToSound
<1>5. CASE Upsert(r) /\ ~TransferFails(r)
  <2>1. Receipted(r) /\ UNCHANGED files BY <1>5 DEF Upsert
  <2>2. run[r].at \in Fetched \cup {"upsert"} /\ "main" \in Paths
    BY <1>2 DEF Fetched, Paths
  <2>3. QED BY <1>1, <2>1, <2>2, ReceiptSound DEF Receipted
<1>6. QED BY <1>3, <1>4, <1>5

(* After a lost create the fault is spent; what is on record is the        *)
(* attempt, which nothing reads back.                                      *)
LEMMA AttemptedSound ==
  ASSUME DInv, IInv', NEW r \in Runs, Attempted(r)
  PROVE  DInv'
<1>1. UNCHANGED <<bucket, made, last>> BY DEF Attempted, Store
<1>2. run[r].at = "attempted" /\ ~Holding(run[r])
  BY DEF Attempted, At, Holding, Verifying
<1>3. Fault \/ NoFault BY DEF Attempted, HeadFails
<1>4. faults' = 0 => made[r] = {}
  BY <1>2, <1>3, OwnCopy, FaultOrNone DEF FaultsCounted
<1>5. CASE To(r, "object") /\ UNCHANGED files
  <2>1. "object" \in Steps /\ run[r].at \in Unverified /\ run[r].at \in Receipting
    BY <1>2 DEF Steps, Compared, Unverified, Receipting, Fetched
  <2>2. QED BY <1>1, <1>2, <1>3, <1>4, <1>5, <2>1, ToSound
<1>6. CASE To(r, "failed") /\ Write(r, "attempt", run[r].v)
  <2>1. PICK x, f : /\ x = [run[r] EXCEPT !.at = "failed"]
                    /\ f = [files[r] EXCEPT !.attempt = run[r].v]
    OBVIOUS
  <2>2. run' = [run EXCEPT ![r] = x] /\ files' = [files EXCEPT ![r] = f]
    BY <1>6, <2>1 DEF Write, To, DInv, IInv, RecordsTyped
  <2>3. x.at = "failed" BY <2>1, RunSound DEF Progress
  <2>4. /\ f.object = files[r].object /\ f.verification = files[r].verification
        /\ f.manifest = files[r].manifest
    BY <2>1, RunSound DEF Receipts
  <2>5. files[r].manifest # "complete" BY <1>2, RunSound DEF Orderly
  <2>6. Orderly(x, f, last[r])
    BY <2>3, <2>4, <2>5, RunSound
    DEF Orderly, Unverified, Receipting, Verifying, Fetched
  <2>7. Cleared(x, f, made[r], faults') BY <1>4, <2>3, <2>4, <2>5 DEF Cleared
  <2>8. QED BY <1>1, <1>3, <2>2, <2>6, <2>7, RunGoesOn
<1>7. QED BY <1>5, <1>6 DEF Attempted

(* The receipts a run writes name the version it fetched.                  *)
LEMMA WriteReceiptSound ==
  ASSUME DInv, IInv', NEW r \in Runs, WriteObject(r) \/ WriteVerification(r)
  PROVE  DInv'
<1>1. UNCHANGED <<bucket, made, last>> /\ NoFault
  BY DEF WriteObject, WriteVerification, Store
<1>2. files[r] \in Receipts /\ run[r] \in Progress BY RunSound
<1>3. CASE WriteObject(r)
  <2>1. run[r].at = "object" BY <1>3 DEF WriteObject, At
  <2>2. PICK step \in Verifying : To(r, step) BY <1>3 DEF WriteObject, Verifying
  <2>3. PICK x, f : /\ x = [run[r] EXCEPT !.at = step]
                    /\ f = [files[r] EXCEPT !.object = run[r].v]
    OBVIOUS
  <2>4. run' = [run EXCEPT ![r] = x] /\ files' = [files EXCEPT ![r] = f]
    BY <1>3, <2>2, <2>3 DEF WriteObject, Write, To, DInv, IInv, RecordsTyped
  <2>5. x.at = step /\ x.v = run[r].v BY <1>2, <2>3 DEF Progress
  <2>6. /\ f.object = run[r].v /\ f.manifest = files[r].manifest
        /\ f.verification = files[r].verification
    BY <1>2, <2>3 DEF Receipts
  <2>7. /\ files[r].manifest # "complete" /\ files[r].verification = NoVersion
        /\ run[r].v = last[r]
    BY <2>1, RunSound DEF Orderly, Unverified, Receipting
  <2>8. Orderly(x, f, last[r])
    BY <2>2, <2>5, <2>6, <2>7 DEF Orderly, Unverified, Fetched, Verifying
  <2>9. Cleared(x, f, made[r], faults')
    <3>1. Cleared(run[r], files[r], made[r], faults) BY RunSound
    <3>2. Holding(x) /\ x.at \notin {"confirmed", "complete"}
      BY <2>2, <2>5 DEF Holding, Verifying
    <3>3. QED BY <1>1, <2>5, <2>6, <2>7, <3>1, <3>2 DEF Cleared, NoFault
  <2>10. QED BY <1>1, <2>4, <2>8, <2>9, RunGoesOn
<1>4. CASE WriteVerification(r)
  <2>1. run[r].at = "verified" BY <1>4 DEF WriteVerification, At
  <2>2. files[r].object = run[r].v /\ run[r].v = last[r]
    BY <2>1, RunSound DEF Backed, Orderly, Receipting, Verifying
  <2>3. PICK x, f : /\ x = [run[r] EXCEPT !.at = "cleanup"]
                    /\ f = [files[r] EXCEPT !.verification = run[r].v]
    OBVIOUS
  <2>4. run' = [run EXCEPT ![r] = x] /\ files' = [files EXCEPT ![r] = f]
    BY <1>4, <2>3 DEF WriteVerification, Write, To, DInv, IInv, RecordsTyped
  <2>5. x.at = "cleanup" /\ x.v = run[r].v BY <1>2, <2>3 DEF Progress
  <2>6. /\ f.object = files[r].object /\ f.manifest = files[r].manifest
        /\ f.verification = run[r].v
    BY <1>2, <2>3 DEF Receipts
  <2>7. files[r].manifest # "complete" BY <2>1, RunSound DEF Orderly
  <2>8. Orderly(x, f, last[r])
    BY <2>2, <2>5, <2>6, <2>7 DEF Orderly, Unverified, Receipting, Verifying, Fetched
  <2>9. Cleared(x, f, made[r], faults')
    <3>1. Cleared(run[r], files[r], made[r], faults) BY RunSound
    <3>2. Holding(x) BY <2>5 DEF Holding
    <3>3. QED BY <1>1, <2>5, <2>6, <2>7, <3>1, <3>2 DEF Cleared, NoFault
  <2>10. QED BY <1>1, <2>4, <2>8, <2>9, RunGoesOn
<1>5. QED BY <1>3, <1>4

(* A verification or an absence that is not confirmed blocks: the copy is  *)
(* then another's, or the answer was lost.                                 *)
LEMMA LookSound ==
  ASSUME DInv, IInv', NEW r \in Runs, Verify(r) \/ CleanupHead(r) \/ Confirm(r)
  PROVE  DInv'
<1>1. UNCHANGED <<bucket, made, last>> /\ (Fault \/ NoFault)
  BY DEF Verify, CleanupHead, Confirm, Store, HeadFails
<1>2. run[r].at \in {"verify", "cleanup", "confirm"}
  BY DEF Verify, CleanupHead, Confirm, At
<1>3. CASE Block(r) /\ (Fault \/ ~(Holding(run[r]) /\ Matches(run[r].v)))
  BY <1>1, <1>3, BlockWithout
<1>4. ASSUME NEW step \in {"verified", "confirm", "delete", "confirmed"},
             To(r, step), UNCHANGED files, NoFault,
             step \in {"confirm", "confirmed"} => bucket[run[r].v] = "absent",
             step = "verified" => run[r].at = "verify",
             step = "confirmed" => run[r].at = "confirm"
      PROVE  DInv'
  <2>1. /\ step \in Steps /\ step \notin Unverified
        /\ step \in Receipting => run[r].at \in Receipting
    BY <1>4 DEF Steps, Compared, Proved, Unverified, Receipting, Verifying, Fetched
  <2>2. run[r].at # "ended" /\ step \notin {"ended", "complete"} BY <1>2, <1>4
  <2>3. ASSUME step = "confirmed" PROVE files[r].object \notin made[r]
    <3>1. files[r].object = run[r].v
      BY <1>4, <2>3, RunSound DEF Backed, Proved
    <3>2. QED BY <1>4, <2>3, <3>1, RunSound
  <2>4. ASSUME faults' = 0, made[r] # {} PROVE Holding([run[r] EXCEPT !.at = step])
    <3>1. PICK x : x = [run[r] EXCEPT !.at = step] OBVIOUS
    <3>2. x.at = step BY <3>1, RunSound DEF Progress
    <3>3. step \in {"verified", "delete"} BY <1>4, <2>4, OwnCopy DEF NoFault, Matches
    <3>4. QED BY <3>1, <3>2, <3>3 DEF Holding, Verifying
  <2>5. QED BY <1>1, <1>4, <2>1, <2>2, <2>3, <2>4, ToSound
<1>5. CASE Verify(r)
  <2>1. run[r].at = "verify" BY <1>5 DEF Verify, At
  <2>2. QED BY <1>3, <1>4, <1>5, <2>1 DEF Verify, HeadFails
<1>6. CASE CleanupHead(r)
  <2>1. run[r].at = "cleanup" BY <1>6 DEF CleanupHead, At
  <2>2. CASE HeadFails /\ Block(r) BY <1>3, <2>2 DEF HeadFails
  <2>3. CASE /\ To(r, IF bucket[run[r].v] = "absent" THEN "confirm" ELSE "delete")
             /\ NoFault /\ UNCHANGED files
    BY <1>4, <2>3
  <2>4. QED BY <1>6, <2>2, <2>3 DEF CleanupHead
<1>7. CASE Confirm(r)
  <2>1. run[r].at = "confirm" /\ ~Holding(run[r])
    BY <1>7 DEF Confirm, At, Holding, Verifying
  <2>2. QED BY <1>3, <1>4, <1>7, <2>1 DEF Confirm, HeadFails
<1>8. QED BY <1>5, <1>6, <1>7

(* Whoever put it there, what a run deletes is of the version at hand.     *)
LEMMA DeleteSound ==
  ASSUME DInv, IInv', NEW r \in Runs, Delete(r)
  PROVE  DInv'
<1>1. UNCHANGED last /\ run[r].at = "delete" BY DEF Delete, At
<1>2. run[r].v \in Versions BY <1>1, RunSound DEF Backed, Compared, Proved, Safe
<1>3. CASE UNCHANGED <<bucket, made>>
  <2>1. CASE Fault /\ Block(r) BY <1>1, <1>3, <2>1, BlockWithout
  <2>2. CASE bucket' = [bucket EXCEPT ![run[r].v] = "absent"]
    <3>1. bucket[run[r].v] = "absent"
      BY <1>2, <1>3, <2>2 DEF DInv, IInv, RecordsTyped
    <3>2. \/ NoFault /\ To(r, "confirm") /\ UNCHANGED files
          \/ Fault /\ Block(r)
      BY DEF Delete, DeleteFails
    <3>3. faults = 0 => made[r] = {} BY <3>1, OwnCopy DEF Matches
    <3>4. CASE NoFault /\ To(r, "confirm") /\ UNCHANGED files
      <4>1. /\ "confirm" \in Steps /\ "confirm" \notin Unverified
            /\ "confirm" \notin Receipting
        BY DEF Steps, Compared, Proved, Unverified, Receipting, Verifying, Fetched
      <4>2. faults' = 0 => made[r] = {} BY <3>3, <3>4 DEF NoFault
      <4>3. QED BY <1>1, <1>3, <3>4, <4>1, <4>2, ToSound
    <3>5. QED BY <2>1, <3>2, <3>4
  <2>3. QED BY <2>1, <2>2 DEF Delete, DeleteFails
<1>4. CASE /\ bucket' = [bucket EXCEPT ![run[r].v] = "absent"]
           /\ made' = [q \in Runs |-> made[q] \ {run[r].v}]
  <2>1. /\ made' \in [Runs -> SUBSET Versions]
        /\ \A s \in Runs : made'[s] \subseteq made[s]
    BY <1>4 DEF DInv, HistoryTyped
  <2>2. \A s \in Runs : \A v \in made'[s] : bucket'[v] = "ours"
    BY <1>2, <1>4 DEF DInv, HistoryTyped, CopiesThere, IInv, RecordsTyped
  <2>3. faults = 0 => made'[r] = {}
    <3>1. made'[r] = made[r] \ {run[r].v} BY <1>4
    <3>2. faults = 0 => \A v \in made[r] : run[r].v = v BY RunSound DEF Cleared
    <3>3. QED BY <3>1, <3>2
  <2>4. PICK x : x = [run[r] EXCEPT !.at = "confirm"] OBVIOUS
  <2>5. x.at = "confirm" BY <2>4, RunSound DEF Progress
  <2>6. PICK g : g = [files[r] EXCEPT !.manifest = "blocked"] OBVIOUS
  <2>7. /\ g.object = files[r].object /\ g.verification = files[r].verification
        /\ g.cleanup = files[r].cleanup /\ g.manifest = "blocked"
    BY <2>6, RunSound DEF Receipts
  <2>8. Fault \/ NoFault BY DEF Delete
  <2>9. FaultsCounted BY <2>8, FaultOrNone
  <2>10. PICK y, f : /\ run' = [run EXCEPT ![r] = y]
                     /\ files' = [files EXCEPT ![r] = f]
                     /\ \/ y = x /\ f = files[r]
                        \/ y = NoRun /\ f = g
    <3>1. CASE To(r, "confirm") /\ UNCHANGED files BY <2>4, <3>1, FilesStay DEF To
    <3>2. CASE Block(r) BY <2>6, <3>2 DEF Block, Write, Leave
    <3>3. QED BY <3>1, <3>2 DEF Delete, DeleteFails
  <2>11. NoRun.at = "ended" BY DEF NoRun
  <2>12. Orderly(y, f, last[r])
    <3>1. files[r].manifest # "complete" BY <1>1, RunSound DEF Orderly
    <3>2. /\ y.at \in {"ended", "confirm"}
          /\ f.manifest # "complete" /\ f.object = files[r].object
          /\ f.verification = files[r].verification
      BY <2>5, <2>7, <2>10, <2>11, <3>1
    <3>3. QED BY <3>2, RunSound
          DEF Orderly, Unverified, Receipting, Verifying, Fetched
  <2>13. Cleared(y, f, made'[r], faults')
    <3>1. /\ y.at \in {"ended", "confirm"} /\ f.manifest # "complete"
      BY <1>1, <2>5, <2>7, <2>10, <2>11, RunSound DEF Orderly
    <3>2. QED BY <2>3, <2>9, <3>1 DEF Cleared, FaultsCounted
  <2>14. PICK l \in Nat : l = last[r] BY DEF DInv, HistoryTyped
  <2>15. last' = [last EXCEPT ![r] = l] /\ Orderly(y, f, l)
    BY <1>1, <2>12, <2>14 DEF DInv, HistoryTyped
  <2>16. QED BY <2>1, <2>2, <2>9, <2>10, <2>13, <2>15, RunMoves
<1>5. QED BY <1>3, <1>4 DEF Delete

LEMMA WriteEndSound ==
  ASSUME DInv, IInv', NEW r \in Runs, WriteCleanup(r) \/ WriteManifest(r)
  PROVE  DInv'
<1>1. UNCHANGED <<bucket, made, last>> /\ NoFault
  BY DEF WriteCleanup, WriteManifest, Store
<1>2. /\ files[r] \in Receipts /\ run[r] \in Progress
      /\ Orderly(run[r], files[r], last[r])
      /\ Cleared(run[r], files[r], made[r], faults)
  BY RunSound
<1>3. run[r].at \in {"confirmed", "complete", "failed"} /\ ~Holding(run[r])
  BY DEF WriteCleanup, WriteManifest, At, Holding, Verifying
<1>4. faults' = 0 => made[r] = {} BY <1>1, <1>3, OwnCopy DEF NoFault
<1>5. CASE Block(r) BY <1>1, <1>3, <1>5, BlockWithout
<1>6. CASE WriteCleanup(r)
  <2>1. run[r].at = "confirmed" BY <1>6 DEF WriteCleanup, At
  <2>2. /\ run[r].v \in Versions /\ files[r].object = run[r].v
        /\ files[r].verification = run[r].v
    BY <2>1, RunSound DEF Backed, Safe, Compared, Proved
  <2>3. PICK step \in {"complete", "failed"} : To(r, step) BY <1>6 DEF WriteCleanup
  <2>4. PICK x, f : /\ x = [run[r] EXCEPT !.at = step]
                    /\ f = [files[r] EXCEPT !.cleanup = run[r].v]
    OBVIOUS
  <2>5. run' = [run EXCEPT ![r] = x] /\ files' = [files EXCEPT ![r] = f]
    BY <1>6, <2>3, <2>4 DEF WriteCleanup, Write, To, DInv, IInv, RecordsTyped
  <2>6. x.at = step BY <1>2, <2>4 DEF Progress
  <2>7. /\ f.object = run[r].v /\ f.verification = run[r].v /\ f.cleanup = run[r].v
        /\ f.manifest = files[r].manifest
    BY <1>2, <2>2, <2>4 DEF Receipts
  <2>8. files[r].manifest # "complete" BY <1>2, <2>1 DEF Orderly
  <2>9. AllNameOne(f)
    BY <2>2, <2>7, OneObjectAssumption DEF AllNameOne, NoVersion
  <2>10. Orderly(x, f, last[r])
    BY <1>2, <2>2, <2>3, <2>6, <2>7, <2>8, <2>9
    DEF Orderly, Unverified, Receipting, Verifying, Fetched
  <2>11. Cleared(x, f, made[r], faults')
    BY <1>2, <1>4, <2>1, <2>2, <2>7 DEF Cleared
  <2>12. QED BY <1>1, <2>5, <2>10, <2>11, RunGoesOn
<1>7. CASE WriteManifest(r) /\ ~Block(r)
  <2>1. run[r].at = "complete" BY <1>7 DEF WriteManifest, At
  <2>2. PICK f : f = [files[r] EXCEPT !.manifest = "complete"] OBVIOUS
  <2>3. run' = [run EXCEPT ![r] = NoRun] /\ files' = [files EXCEPT ![r] = f]
    BY <1>7, <2>2 DEF WriteManifest, Write, Leave, DInv, IInv, RecordsTyped
  <2>4. /\ f.object = files[r].object /\ f.verification = files[r].verification
        /\ f.cleanup = files[r].cleanup
    BY <1>2, <2>2 DEF Receipts
  <2>5. NoRun.at = "ended" BY DEF NoRun
  <2>6. Orderly(NoRun, f, last[r])
    BY <1>2, <2>1, <2>4, <2>5
    DEF Orderly, Unverified, Receipting, Verifying, Fetched, AllNameOne
  <2>7. Cleared(NoRun, f, made[r], faults')
    BY <1>2, <1>4, <2>1, <2>4 DEF Cleared
  <2>8. QED BY <1>1, <2>3, <2>6, <2>7, RunGoesOn
<1>8. QED BY <1>5, <1>6, <1>7

LEMMA InitDInv == Init => DInv
<1> SUFFICES ASSUME Init PROVE DInv OBVIOUS
<1>1. NoRun.at = "ended" BY DEF NoRun
<1>2. /\ NoFiles.manifest = "none" /\ NoFiles.object = NoVersion
      /\ NoFiles.verification = NoVersion
  BY DEF NoFiles
<1>3. ASSUME NEW r \in Runs
      PROVE  /\ run[r] = NoRun /\ files[r] = NoFiles /\ made[r] = {}
             /\ last[r] = NoVersion
  BY <1>3 DEF Init
<1>4. HistoryTyped BY DEF Init, HistoryTyped, NoVersion
<1>5. CopiesThere BY <1>3 DEF CopiesThere
<1>6. RunsOrderly
  BY <1>1, <1>2, <1>3
  DEF RunsOrderly, Orderly, Unverified, Receipting, Verifying, Fetched
<1>7. RunsCleared BY <1>1, <1>2, <1>3 DEF RunsCleared, Cleared
<1>8. QED BY <1>4, <1>5, <1>6, <1>7, InitIInv DEF DInv

LEMMA NextDInv == DInv /\ [Next]_vars => DInv'
<1> SUFFICES ASSUME DInv, [Next]_vars PROVE DInv' OBVIOUS
<1>1. IInv' BY NextIInv DEF DInv
<1>2. ASSUME NEW r \in Runs, Command(r) PROVE DInv'
  BY <1>1, <1>2, GatesSound, FetchSound, LookupSound, ExistingSound, CreateSound,
     FinalSound, AttemptedSound, WriteReceiptSound, LookSound, DeleteSound,
     WriteEndSound
  DEF Command
<1>3. ASSUME NEW r \in Runs, Start(r) \/ Preflight(r) \/ Crash(r) PROVE DInv'
  BY <1>1, <1>3, StartSound
<1>4. CASE ChangeSource \/ Expire \/ UNCHANGED vars
  <2>1. UNCHANGED <<bucket, files, run, made, last, faults>>
    BY <1>4 DEF ChangeSource, Expire, vars, Store
  <2>2. QED
    BY <1>1, <2>1
    DEF DInv, HistoryTyped, CopiesThere, RunsOrderly, RunsCleared, Orderly, Cleared,
        Holding, AllNameOne
<1>5. QED BY <1>2, <1>3, <1>4 DEF Next

(* A complete directory tells of the bytes it read last and has left no    *)
(* copy of them, and without a fault a command that ended has left none at *)
(* all (_resume_cleanup_receipt, _cleanup, and the order of receipts in    *)
(* acquire_one_to_r2), for any number of directories, lost answers and     *)
(* crashes, and any changes of the source, to bytes it served before too.  *)
THEOREM CompleteRunsLeaveOutdated == Spec => []OnlyOutdatedRemain
<1>1. DInv => OnlyOutdatedRemain
  <2> SUFFICES ASSUME DInv, NEW r \in Runs
               PROVE  /\ Complete(r) => files[r].object = last[r] /\ last[r] \notin made[r]
                      /\ At(r, "ended") /\ faults = 0 => made[r] = {}
    BY DEF OnlyOutdatedRemain
  <2>1. ASSUME Complete(r) PROVE files[r].object = last[r] /\ last[r] \notin made[r]
    <3>1. AllNameOne(files[r]) BY <2>1, RunSound DEF Complete, Orderly
    <3>2. files[r].object = last[r] BY <3>1, RunSound DEF AllNameOne, Orderly
    <3>3. QED BY <2>1, <3>2, RunSound DEF Complete, Cleared
  <2>2. ASSUME At(r, "ended"), faults = 0 PROVE made[r] = {}
    BY <2>2, OwnCopy DEF At, Holding, Verifying
  <2>3. QED BY <2>1, <2>2
<1>2. QED BY InitDInv, NextDInv, <1>1, PTL DEF Spec
=============================================================================
