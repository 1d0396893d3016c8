----------------------- MODULE TrustedLaptopWorkerProofs -----------------------
(***************************************************************************)
(* Theorems about TrustedLaptopWorker, for every value of its constants:   *)
(* any number of workers, outputs, transformations and failures.           *)
(*                                                                         *)
(* The inductive invariant says what the job's own records owe to one      *)
(* another, that everything durable is of the output the job is committed  *)
(* to, and for each run what it knows of the job while it holds the lease, *)
(* what it remembers, and what is durable, at each point of its call.      *)
(***************************************************************************)
EXTENDS TrustedLaptopWorker, TLAPS

\* An output the job is committed to: by its checkpoint or by its result.
Chosen(o) == checkpoint.out = o \/ result = o

\* What no step takes back: a receipt, and an object unless a cleanup has it.
Durable(k) == receipts[k] # NoReceipt /\ (k \in store \/ k \in doomed)
Finished(o) == Durable(<<"output", o>>) /\ Durable(<<"manifest", o>>) /\ o \in lineage

\* The points of a run, by what it is about.
Resuming == {"input", "restore", "download"}
Marking == {"mark_input", "mark_start"}
Computing == {"admit", "transform"}
Creating == {"recall", "head", "guard", "put", "verify", "after", "persist", "lineage",
             "mark_output", "mark_manifest"}
Submitting == {"recheck", "complete"}
Ended == {"idle", "fail"}

\* The stage a claim writes when it resumes from a stage.
Started(stage) == IF stage = "none" THEN "claimed" ELSE stage

\* The job's records: one output, no CPU that was not used, nothing doomed
\* before a cleanup.
JobSound ==
  /\ checkpoint.out # NoOutput /\ result # NoOutput => checkpoint.out = result
  /\ checkpoint.cpu <= spent /\ attemptCpu <= spent
  /\ cleanup = "none" => doomed = {}

\* Everything durable is of the output the job is committed to.
OwnOutput ==
  /\ \A k \in Objects : k \in store \/ receipts[k] # NoReceipt => Chosen(k[2])
  /\ \A o \in lineage : Chosen(o)

\* What a run knows of the job while it holds it.
Informed(w) ==
  Current(w) /\ workers[w].pc # "idle" =>
    /\ checkpoint.open
    /\ ~workers[w].silent =>
         /\ checkpoint = workers[w].last
         /\ attemptCpu = 0 \/ (workers[w].known /\ workers[w].metrics >= attemptCpu)
    /\ workers[w].pc \notin Ended \cup Submitting => result = NoOutput

\* What a run remembers, by its point.
Prepared(w) ==
  /\ workers[w].metrics <= spent /\ workers[w].last.cpu <= spent
  /\ workers[w].silent => workers[w].pc = "fail"
  /\ workers[w].pc \in Resuming => workers[w].last.stage = Started(workers[w].stage)
  /\ workers[w].pc = "download" => workers[w].stage \notin Receipted
  /\ workers[w].pc \in Resuming \cup Marking \cup Computing => workers[w].last.out = workers[w].out
  /\ workers[w].pc \in Marking => workers[w].out = NoOutput
  /\ workers[w].pc \in Computing =>
       workers[w].stage = "transform_verified" \/ workers[w].out = NoOutput
  /\ workers[w].pc = "mark_verified" => workers[w].last.out \in {NoOutput, workers[w].out}
  /\ workers[w].pc \in Resuming \cup Marking \cup Computing \cup {"mark_verified"} =>
       workers[w].phase = "output"
  /\ workers[w].pc \in Creating \cup Submitting \cup {"mark_verified"} =>
       workers[w].out # NoOutput
  /\ workers[w].pc \notin Ended \cup {"mark_verified"} /\ workers[w].out # NoOutput =>
       Chosen(workers[w].out)

\* What is durable, by the point of a run.
Secured(w) ==
  /\ workers[w].pc \in {"verify", "after", "persist"} => workers[w].receipt # NoReceipt
  /\ workers[w].pc \in {"after", "persist"} => Key(w) \in store \cup doomed
  /\ workers[w].pc = "mark_output" => Durable(<<"output", workers[w].out>>)
  /\ workers[w].pc \in {"lineage", "mark_manifest"} =>
       workers[w].phase = "manifest" /\ Durable(<<"manifest", workers[w].out>>)
  /\ workers[w].pc \in Creating /\ workers[w].phase = "manifest" =>
       Durable(<<"output", workers[w].out>>)
  /\ workers[w].pc \in {"input", "restore"} /\ workers[w].stage = "output_verified" =>
       Durable(<<"output", workers[w].out>>)
  /\ workers[w].pc \in {"input", "restore"} /\ workers[w].stage = "manifest_verified" =>
       Finished(workers[w].out)
  /\ workers[w].pc \in {"mark_manifest"} \cup Submitting => Finished(workers[w].out)

Knows(w) == Informed(w) /\ Prepared(w) /\ Secured(w)

IInv ==
  /\ LaptopTypeOK /\ JobSound /\ OwnOutput
  /\ AttemptIsAccounted /\ DurableAsSaid
  /\ \A w \in Workers : Knows(w)
-----------------------------------------------------------------------------
(* The records an action writes. *)

LEMMA MovesTo ==
  ASSUME LaptopTypeOK, NEW w \in Workers, NEW new \in Worker, Moves(w, new)
  PROVE  /\ workers' \in [Workers -> Worker] /\ workers'[w] = new
         /\ \A v \in Workers \ {w} : workers'[v] = workers[v]
BY DEF Moves, LaptopTypeOK

LEMMA PcOnly ==
  ASSUME NEW me \in Worker, NEW pc \in Points
  PROVE  LET new == [me EXCEPT !.pc = pc] IN
         /\ new \in Worker /\ new.pc = pc
         /\ new.phase = me.phase /\ new.stage = me.stage /\ new.last = me.last
         /\ new.silent = me.silent /\ new.known = me.known /\ new.metrics = me.metrics
         /\ new.out = me.out /\ new.receipt = me.receipt
BY DEF Worker

\* A step that leaves all a run remembers but its point.
Remembers(w) ==
  /\ workers'[w].phase = workers[w].phase /\ workers'[w].stage = workers[w].stage
  /\ workers'[w].last = workers[w].last /\ workers'[w].silent = workers[w].silent
  /\ workers'[w].known = workers[w].known /\ workers'[w].metrics = workers[w].metrics
  /\ workers'[w].out = workers[w].out /\ workers'[w].receipt = workers[w].receipt

LEMMA GoesTo ==
  ASSUME LaptopTypeOK, NEW w \in Workers, NEW pc \in Points, Goes(w, pc)
  PROVE  /\ workers' \in [Workers -> Worker] /\ workers'[w].pc = pc
         /\ \A v \in Workers \ {w} : workers'[v] = workers[v]
         /\ Remembers(w)
<1>1. workers[w] \in Worker
  BY DEF LaptopTypeOK
<1>2. PICK new : new = [workers[w] EXCEPT !.pc = pc]
  OBVIOUS
<1>3. /\ new \in Worker /\ new.pc = pc
      /\ new.phase = workers[w].phase /\ new.stage = workers[w].stage
      /\ new.last = workers[w].last
      /\ new.silent = workers[w].silent /\ new.known = workers[w].known
      /\ new.metrics = workers[w].metrics
      /\ new.out = workers[w].out /\ new.receipt = workers[w].receipt
  BY <1>1, <1>2, PcOnly
<1>4. Moves(w, new)
  BY <1>2 DEF Goes
<1>5. /\ workers' \in [Workers -> Worker] /\ workers'[w] = new
      /\ \A v \in Workers \ {w} : workers'[v] = workers[v]
  BY <1>3, <1>4, MovesTo
<1> QED
  BY <1>3, <1>5 DEF Remembers

\* Checkpoints are sets with a condition: what membership means, once.
LEMMA CheckpointIs ==
  ASSUME NEW c \in [stage : Stages, open : BOOLEAN, out : Outputs \cup {NoOutput},
                    cpu : 0..MaxRuns]
  PROVE  c \in Checkpoint <=>
           /\ (c.out # NoOutput <=> c.stage \in PostTransform)
           /\ c.stage \in PreTransform \cup {"none"} => c.cpu = 0
BY DEF Checkpoint

LEMMA CheckpointHas ==
  ASSUME NEW c \in Checkpoint
  PROVE  /\ c.stage \in Stages /\ c.open \in BOOLEAN /\ c.out \in Outputs \cup {NoOutput}
         /\ c.cpu \in 0..MaxRuns
         /\ (c.out # NoOutput <=> c.stage \in PostTransform)
         /\ c.stage \in PreTransform \cup {"none"} => c.cpu = 0
BY DEF Checkpoint

LEMMA BareIs ==
  ASSUME NEW stage \in PreTransform
  PROVE  /\ Bare(stage) \in Checkpoint /\ Bare(stage).stage = stage /\ Bare(stage).open
         /\ Bare(stage).out = NoOutput /\ Bare(stage).cpu = 0
BY LaptopAssumption DEF Bare, Checkpoint, Stages, PreTransform, PostTransform, Receipted

LEMMA NoCheckpointIs ==
  /\ NoCheckpoint \in Checkpoint /\ NoCheckpoint.stage = "none" /\ ~NoCheckpoint.open
  /\ NoCheckpoint.out = NoOutput /\ NoCheckpoint.cpu = 0
BY LaptopAssumption DEF NoCheckpoint, Checkpoint, Stages, PreTransform, PostTransform, Receipted

LEMMA IdleIs ==
  /\ Idle \in Worker /\ Idle.pc = "idle" /\ Idle.phase = "output" /\ Idle.stage = "none"
  /\ Idle.last = NoCheckpoint /\ ~Idle.silent /\ ~Idle.known /\ Idle.metrics = 0
  /\ Idle.out = NoOutput /\ Idle.receipt = NoReceipt
BY LaptopAssumption, NoCheckpointIs
   DEF Idle, Worker, Points, Phases, Stages

LEMMA FullIs ==
  ASSUME LaptopTypeOK, NEW w \in Workers, NEW stage \in PostTransform,
         workers[w].out # NoOutput
  PROVE  /\ Full(w, stage) \in Checkpoint /\ Full(w, stage).stage = stage
         /\ Full(w, stage).open /\ Full(w, stage).out = workers[w].out
         /\ Full(w, stage).cpu = Cpu(w)
<1>1. workers[w] \in Worker
  BY DEF LaptopTypeOK
<1>2. /\ workers[w].out \in Outputs \cup {NoOutput} /\ workers[w].metrics \in 0..MaxRuns
      /\ workers[w].last \in Checkpoint
  BY <1>1 DEF Worker
<1>3. Cpu(w) \in 0..MaxRuns
  BY <1>2, CheckpointHas DEF Cpu
<1>4. /\ stage \in Stages /\ stage \notin PreTransform \cup {"none"}
  BY DEF Stages, PostTransform, PreTransform, Receipted
<1> QED
  BY <1>2, <1>3, <1>4 DEF Full, Checkpoint

\* Closing an attempt keeps its output, its stage if it has one, and what it
\* recorded before.
ClosedAs(c, cpu) == [c EXCEPT !.stage = ClosedStage(@), !.open = FALSE, !.cpu = cpu]
LEMMA ClosingKeeps ==
  ASSUME NEW c \in Checkpoint, NEW cpu \in 0..MaxRuns, NEW d,
         d = ClosedAs(c, cpu)
  PROVE  /\ d \in Checkpoint /\ d.out = c.out /\ d.cpu = cpu /\ ~d.open
         /\ d.stage = ClosedStage(c.stage)
         /\ d.stage \in PostTransform => d.stage = c.stage
<1>1. /\ c.stage \in Stages /\ c.open \in BOOLEAN /\ c.out \in Outputs \cup {NoOutput}
      /\ c.cpu \in 0..MaxRuns /\ (c.out # NoOutput <=> c.stage \in PostTransform)
  BY CheckpointHas
<1>2. d = [stage |-> ClosedStage(c.stage), open |-> FALSE, out |-> c.out, cpu |-> cpu]
  BY DEF Checkpoint, ClosedAs
<1>3. /\ ClosedStage(c.stage) \in Stages
      /\ ClosedStage(c.stage) \in PostTransform <=> c.stage \in PostTransform
      /\ ClosedStage(c.stage) \in PostTransform => ClosedStage(c.stage) = c.stage
      /\ ClosedStage(c.stage) \notin PreTransform \cup {"none"}
  BY <1>1 DEF ClosedStage, Stages, PostTransform, PreTransform, Receipted
<1>4. /\ d.stage = ClosedStage(c.stage) /\ d.open = FALSE /\ d.out = c.out /\ d.cpu = cpu
      /\ d \in [stage : Stages, open : BOOLEAN, out : Outputs \cup {NoOutput}, cpu : 0..MaxRuns]
  BY <1>1, <1>2, <1>3
<1>5. /\ d.out # NoOutput <=> d.stage \in PostTransform
      /\ d.stage \notin PreTransform \cup {"none"}
  BY <1>1, <1>3, <1>4
<1>6. d \in Checkpoint
  BY <1>4, <1>5, CheckpointIs
<1> QED
  BY <1>3, <1>4, <1>6
-----------------------------------------------------------------------------
(* What a step leaves to the runs that do not take it. *)

\* The job's part of the invariant.
Records == LaptopTypeOK /\ JobSound /\ OwnOutput /\ AttemptIsAccounted /\ DurableAsSaid

\* Nothing that is durable or chosen is taken back.
Lasts ==
  /\ \A k \in Objects :
       /\ receipts[k] # NoReceipt => receipts'[k] # NoReceipt
       /\ k \in store \cup doomed => k \in store' \cup doomed'
  /\ lineage \subseteq lineage'
  /\ \A o \in Outputs : Chosen(o) => Chosen(o)'
  /\ spent <= spent'

\* The step is not of this run, and the job is as before if the run has it.
Untouched(w) ==
  /\ workers'[w] = workers[w]
  /\ job'.holder = w => job.holder = w /\ UNCHANGED <<checkpoint, result, attemptCpu>>

Effects(w) == Records' /\ Lasts /\ \A v \in Workers \ {w} : Untouched(v)

LEMMA SaidIs ==
  DurableAsSaid <=>
    /\ checkpoint.stage = "output_verified" => Durable(<<"output", checkpoint.out>>)
    /\ checkpoint.stage = "manifest_verified" => Finished(checkpoint.out)
    /\ result # NoOutput => Finished(result)
BY DEF DurableAsSaid, Durable, Finished

LEMMA KeyIs ==
  ASSUME NEW o \in Outputs
  PROVE  /\ <<"output", o>> \in Objects /\ <<"manifest", o>> \in Objects
         /\ <<"output", o>>[2] = o /\ <<"manifest", o>>[2] = o
BY DEF Objects, Phases

LEMMA DurableLasts ==
  ASSUME Lasts
  PROVE  /\ \A k \in Objects : Durable(k) => Durable(k)'
         /\ \A o \in Outputs : Finished(o) => Finished(o)'
<1>1. \A k \in Objects : Durable(k) => Durable(k)'
  BY DEF Durable, Lasts
<1>2. \A o \in Outputs : o \in lineage => o \in lineage'
  BY DEF Lasts
<1> QED
  BY <1>1, <1>2, KeyIs DEF Finished

LEMMA OthersKnow ==
  ASSUME LaptopTypeOK, LaptopTypeOK', Lasts, NEW w \in Workers, Knows(w), Untouched(w)
  PROVE  Knows(w)'
<1>1. workers[w] \in Worker /\ workers'[w] = workers[w]
  BY DEF LaptopTypeOK, Untouched
<1>2. /\ workers[w].out \in Outputs \cup {NoOutput} /\ workers[w].metrics \in 0..MaxRuns
      /\ workers[w].last \in Checkpoint /\ workers[w].phase \in Phases
  BY <1>1 DEF Worker
<1>3. workers[w].last.cpu \in Nat /\ workers[w].metrics \in Nat /\ spent \in Nat /\ spent' \in Nat
  BY <1>2, CheckpointHas, LaptopAssumption DEF LaptopTypeOK
<1>4. Informed(w)'
  BY <1>1 DEF Knows, Informed, Untouched, Current
<1>5. Prepared(w)'
  BY <1>1, <1>2, <1>3 DEF Knows, Prepared, Lasts
<1>6. ASSUME workers[w].out = NoOutput PROVE Secured(w)'
  <2>1. /\ workers[w].pc \notin Creating \cup Submitting
        /\ workers[w].pc \in {"input", "restore"} => workers[w].stage \notin Receipted
    <3>1. workers[w].pc \notin Creating \cup Submitting
      BY <1>6 DEF Knows, Prepared
    <3>2. ASSUME workers[w].pc \in {"input", "restore"}, workers[w].stage \in Receipted
          PROVE  FALSE
      <4>1. workers[w].last.stage \in Receipted /\ workers[w].last.out = NoOutput
        BY <1>6, <3>2 DEF Knows, Prepared, Started, Receipted, Resuming
      <4> QED
        BY <4>1, <1>2, CheckpointHas DEF PostTransform
    <3> QED
      BY <3>1, <3>2
  <2> QED
    BY <1>1, <2>1 DEF Secured, Creating, Submitting, Receipted
<1>7. ASSUME workers[w].out \in Outputs PROVE Secured(w)'
  <2>1. Key(w) \in Objects /\ Key(w)' = Key(w)
    BY <1>1, <1>2, <1>7 DEF Key, Objects
  <2>2. /\ Durable(<<"output", workers[w].out>>) => Durable(<<"output", workers[w].out>>)'
        /\ Durable(<<"manifest", workers[w].out>>) => Durable(<<"manifest", workers[w].out>>)'
        /\ Finished(workers[w].out) => Finished(workers[w].out)'
    BY <1>1, <1>7, KeyIs, DurableLasts
  <2>3. Key(w) \in store \cup doomed => Key(w)' \in store' \cup doomed'
    BY <2>1 DEF Lasts
  <2> QED
    BY <1>1, <2>2, <2>3 DEF Knows, Secured
<1>8. Secured(w)'
  BY <1>2, <1>6, <1>7
<1> QED
  BY <1>4, <1>5, <1>8 DEF Knows

\* A step that changes only the record of its run.
LEMMA QuietStep ==
  ASSUME Records, NEW w \in Workers, UNCHANGED <<control, ledger, store, budget>>,
         faults' \in 0..MaxFaults, workers' \in [Workers -> Worker],
         \A v \in Workers \ {w} : workers'[v] = workers[v]
  PROVE  Effects(w)
<1>1. UNCHANGED <<job, checkpoint, result, receipts, lineage, cleanup, doomed, store, spent,
                  attemptCpu>>
  BY DEF control, ledger, budget
<1>2. LaptopTypeOK'
  BY <1>1 DEF Records, LaptopTypeOK
<1>3. JobSound' /\ OwnOutput' /\ AttemptIsAccounted' /\ DurableAsSaid'
  BY <1>1, SaidIs DEF Records, JobSound, OwnOutput, AttemptIsAccounted, DurableAsSaid, Chosen
<1>4. spent <= spent'
  BY <1>1, LaptopAssumption DEF Records, LaptopTypeOK
<1>5. Lasts
  BY <1>1, <1>4 DEF Lasts, Chosen
<1> QED
  BY <1>1, <1>2, <1>3, <1>5 DEF Effects, Records, Untouched
-----------------------------------------------------------------------------
(* Steps that only move a run on. *)

LEMMA FailKnows ==
  ASSUME NEW w \in Workers, workers'[w].pc = "fail", Informed(w)',
         workers'[w].metrics <= spent', workers'[w].last.cpu <= spent'
  PROVE  Knows(w)'
BY DEF Knows, Prepared, Secured, Resuming, Marking, Computing, Creating, Submitting, Ended

LEMMA IdleKnows ==
  ASSUME NEW w \in Workers, workers'[w] = Idle, LaptopTypeOK'
  PROVE  Knows(w)'
<1>1. workers'[w].pc = "idle" /\ ~workers'[w].silent /\ workers'[w].metrics = 0
      /\ workers'[w].last.cpu = 0
  BY IdleIs, NoCheckpointIs
<1>2. spent' \in Nat /\ 0 <= spent'
  BY LaptopAssumption DEF LaptopTypeOK
<1>3. Informed(w)'
  BY <1>1 DEF Informed
<1>4. Prepared(w)'
  BY <1>1, <1>2 DEF Prepared, Resuming, Marking, Computing, Creating, Submitting, Ended
<1>5. Secured(w)'
  BY <1>1 DEF Secured, Creating, Submitting
<1> QED
  BY <1>3, <1>4, <1>5 DEF Knows

\* What is unchanged while a run only reads, and that the failures are counted.
Reads ==
  /\ UNCHANGED <<job, checkpoint, result, receipts, lineage, cleanup, doomed, store, spent,
                 attemptCpu>>
  /\ faults' \in 0..MaxFaults

LEMMA UnchangedReads ==
  ASSUME LaptopTypeOK, UNCHANGED <<control, ledger, store, budget>>,
         Fault \/ UNCHANGED faults
  PROVE  Reads
BY LaptopAssumption DEF LaptopTypeOK, control, ledger, budget, Reads, Fault

LEMMA ReadsEffects ==
  ASSUME IInv, NEW w \in Workers, Reads, workers' \in [Workers -> Worker],
         \A v \in Workers \ {w} : workers'[v] = workers[v]
  PROVE  Effects(w)
<1>1. Records
  BY DEF IInv, Records
<1> QED
  BY <1>1, QuietStep DEF Reads, control, ledger, budget

\* A run that goes on, or to its failure, having only read.
LEMMA ReadsGoes ==
  ASSUME IInv, NEW w \in Workers, NEW pc \in Points, Goes(w, pc), Reads,
         workers[w].pc # "idle"
  PROVE  /\ Effects(w) /\ workers'[w].pc = pc
         /\ Remembers(w)
         /\ pc \in Submitting \/ workers[w].pc \notin Ended \cup Submitting \/ pc = "fail"
              => Informed(w)'
         /\ pc = "fail" => Knows(w)'
<1>1. LaptopTypeOK /\ Knows(w)
  BY DEF IInv
<1>2. /\ workers' \in [Workers -> Worker] /\ workers'[w].pc = pc
      /\ \A v \in Workers \ {w} : workers'[v] = workers[v]
      /\ Remembers(w)
  BY <1>1, GoesTo
<1>3. Effects(w)
  BY <1>2, ReadsEffects
<1>4. pc \in Submitting \/ workers[w].pc \notin Ended \cup Submitting \/ pc = "fail"
        => Informed(w)'
  BY <1>1, <1>2 DEF Knows, Informed, Current, Reads, Ended, Remembers
<1>5. ASSUME pc = "fail" PROVE Knows(w)'
  <2>1. workers'[w].metrics <= spent' /\ workers'[w].last.cpu <= spent'
    BY <1>1, <1>2 DEF Knows, Prepared, Reads, Remembers
  <2> QED
    BY <1>2, <1>4, <1>5, <2>1, FailKnows
<1> QED
  BY <1>2, <1>3, <1>4, <1>5

\* What the types and the point of a run say of its record.
LEMMA RunHas ==
  ASSUME IInv, NEW w \in Workers
  PROVE  /\ Knows(w) /\ workers[w] \in Worker /\ workers[w].last \in Checkpoint
         /\ workers[w].out \in Outputs \cup {NoOutput} /\ workers[w].phase \in Phases
         /\ workers[w].stage \in Stages /\ workers[w].metrics \in 0..MaxRuns
         /\ workers[w].receipt \in Dispositions \cup {NoReceipt}
         /\ workers[w].pc \in Resuming =>
              (workers[w].out # NoOutput <=> workers[w].stage \in PostTransform)
<1>1. Knows(w) /\ workers[w] \in Worker
  BY DEF IInv, LaptopTypeOK
<1>2. /\ workers[w].last \in Checkpoint
      /\ workers[w].out \in Outputs \cup {NoOutput} /\ workers[w].phase \in Phases
      /\ workers[w].stage \in Stages /\ workers[w].metrics \in 0..MaxRuns
      /\ workers[w].receipt \in Dispositions \cup {NoReceipt}
  BY <1>1 DEF Worker
<1>3. ASSUME workers[w].pc \in Resuming
      PROVE  workers[w].out # NoOutput <=> workers[w].stage \in PostTransform
  <2>1. /\ workers[w].last.stage = Started(workers[w].stage)
        /\ workers[w].last.out = workers[w].out
    BY <1>1, <1>3 DEF Knows, Prepared
  <2>2. Started(workers[w].stage) \in PostTransform <=> workers[w].stage \in PostTransform
    BY DEF Started, PostTransform, Receipted
  <2> QED
    BY <1>2, <2>1, <2>2, CheckpointHas
<1> QED
  BY <1>1, <1>2, <1>3

\* The step of a run keeps the invariant.
Keeps(w) == Effects(w) /\ Knows(w)'

LEMMA PassesReads ==
  ASSUME IInv, NEW w \in Workers, UNCHANGED <<control, ledger, store, budget, faults>>
  PROVE  Reads
BY UnchangedReads DEF IInv

LEMMA StepRecheckResult ==
  ASSUME IInv, NEW w \in Workers, RecheckResult(w) PROVE Keeps(w)
<1>1. Reads /\ workers[w].pc = "recheck" /\ Knows(w)
  BY PassesReads, RunHas DEF RecheckResult, Passes, At
<1>2. \/ Goes(w, "fail")
      \/ Goes(w, "complete")
  BY DEF RecheckResult, Passes
<1>3. ASSUME Goes(w, "fail") PROVE Keeps(w)
  BY <1>1, <1>3, ReadsGoes DEF Keeps, Points
<1>4. ASSUME Goes(w, "complete") PROVE Keeps(w)
  <2>1. /\ Effects(w) /\ workers'[w].pc = "complete" /\ Remembers(w) /\ Informed(w)'
    BY <1>1, <1>4, ReadsGoes DEF Points, Submitting, Ended
  <2>2. Prepared(w)'
    BY <1>1, <1>4, <2>1, RunHas DEF Reads, Remembers, Knows, Prepared, Chosen, Resuming, Marking,
       Computing, Creating, Submitting, Ended, Receipted, PostTransform
  <2>3. Secured(w)'
    BY <1>1, <1>4, <2>1, RunHas DEF Reads, Remembers, Knows, Secured, Prepared, Finished, Durable, Key,
       Creating, Submitting, Receipted, Resuming
  <2> QED
    BY <2>1, <2>2, <2>3 DEF Keeps, Knows
<1> QED
  BY <1>2, <1>3, <1>4

LEMMA StepCheckInput ==
  ASSUME IInv, NEW w \in Workers, CheckInput(w) PROVE Keeps(w)
<1>1. Reads /\ workers[w].pc = "input" /\ Knows(w)
  BY PassesReads, RunHas DEF CheckInput, Passes, At
<1>2. \/ Goes(w, "fail")
      \/ Goes(w, "restore") /\ workers[w].stage \in Receipted
      \/ Goes(w, "download") /\ workers[w].stage \notin Receipted
  BY DEF CheckInput, Passes
<1>3. ASSUME Goes(w, "fail") PROVE Keeps(w)
  BY <1>1, <1>3, ReadsGoes DEF Keeps, Points
<1>4. ASSUME Goes(w, "restore"), workers[w].stage \in Receipted PROVE Keeps(w)
  <2>1. /\ Effects(w) /\ workers'[w].pc = "restore" /\ Remembers(w) /\ Informed(w)'
    BY <1>1, <1>4, ReadsGoes DEF Points, Submitting, Ended
  <2>2. Prepared(w)'
    BY <1>1, <1>4, <2>1, RunHas DEF Reads, Remembers, Knows, Prepared, Chosen, Resuming, Marking,
       Computing, Creating, Submitting, Ended, Receipted, PostTransform
  <2>3. Secured(w)'
    BY <1>1, <1>4, <2>1, RunHas DEF Reads, Remembers, Knows, Secured, Prepared, Finished, Durable, Key,
       Creating, Submitting, Receipted, Resuming
  <2> QED
    BY <2>1, <2>2, <2>3 DEF Keeps, Knows
<1>5. ASSUME Goes(w, "download"), workers[w].stage \notin Receipted PROVE Keeps(w)
  <2>1. /\ Effects(w) /\ workers'[w].pc = "download" /\ Remembers(w) /\ Informed(w)'
    BY <1>1, <1>5, ReadsGoes DEF Points, Submitting, Ended
  <2>2. Prepared(w)'
    BY <1>1, <1>5, <2>1, RunHas DEF Reads, Remembers, Knows, Prepared, Chosen, Resuming, Marking,
       Computing, Creating, Submitting, Ended, Receipted, PostTransform
  <2>3. Secured(w)'
    BY <1>1, <1>5, <2>1, RunHas DEF Reads, Remembers, Knows, Secured, Prepared, Finished, Durable, Key,
       Creating, Submitting, Receipted, Resuming
  <2> QED
    BY <2>1, <2>2, <2>3 DEF Keeps, Knows
<1> QED
  BY <1>2, <1>3, <1>4, <1>5

LEMMA StepRestoreManifest ==
  ASSUME IInv, NEW w \in Workers, RestoreManifest(w) PROVE Keeps(w)
<1>1. Reads /\ workers[w].pc = "restore" /\ Knows(w)
  BY PassesReads, RunHas DEF RestoreManifest, Passes, At
<1>2. \/ Goes(w, "fail")
      \/ Goes(w, "complete") /\ workers[w].stage = "manifest_verified"
  BY DEF RestoreManifest, Passes
<1>3. ASSUME Goes(w, "fail") PROVE Keeps(w)
  BY <1>1, <1>3, ReadsGoes DEF Keeps, Points
<1>4. ASSUME Goes(w, "complete"), workers[w].stage = "manifest_verified" PROVE Keeps(w)
  <2>1. /\ Effects(w) /\ workers'[w].pc = "complete" /\ Remembers(w) /\ Informed(w)'
    BY <1>1, <1>4, ReadsGoes DEF Points, Submitting, Ended
  <2>2. Prepared(w)'
    BY <1>1, <1>4, <2>1, RunHas DEF Reads, Remembers, Knows, Prepared, Chosen, Resuming, Marking,
       Computing, Creating, Submitting, Ended, Receipted, PostTransform
  <2>3. Secured(w)'
    BY <1>1, <1>4, <2>1, RunHas DEF Reads, Remembers, Knows, Secured, Prepared, Finished, Durable, Key,
       Creating, Submitting, Receipted, Resuming
  <2> QED
    BY <2>1, <2>2, <2>3 DEF Keeps, Knows
<1> QED
  BY <1>2, <1>3, <1>4

LEMMA StepDownload ==
  ASSUME IInv, NEW w \in Workers, Download(w) PROVE Keeps(w)
<1>1. Reads /\ workers[w].pc = "download" /\ Knows(w)
  BY PassesReads, RunHas DEF Download, Passes, At
<1>2. \/ Goes(w, "fail")
      \/ Goes(w, "admit") /\ workers[w].stage = "transform_verified"
      \/ Goes(w, "mark_input") /\ workers[w].stage # "transform_verified"
  BY DEF Download, Passes
<1>3. ASSUME Goes(w, "fail") PROVE Keeps(w)
  BY <1>1, <1>3, ReadsGoes DEF Keeps, Points
<1>4. ASSUME Goes(w, "admit"), workers[w].stage = "transform_verified" PROVE Keeps(w)
  <2>1. /\ Effects(w) /\ workers'[w].pc = "admit" /\ Remembers(w) /\ Informed(w)'
    BY <1>1, <1>4, ReadsGoes DEF Points, Submitting, Ended
  <2>2. Prepared(w)'
    BY <1>1, <1>4, <2>1, RunHas DEF Reads, Remembers, Knows, Prepared, Chosen, Resuming, Marking,
       Computing, Creating, Submitting, Ended, Receipted, PostTransform
  <2>3. Secured(w)'
    BY <1>1, <1>4, <2>1, RunHas DEF Reads, Remembers, Knows, Secured, Prepared, Finished, Durable, Key,
       Creating, Submitting, Receipted, Resuming
  <2> QED
    BY <2>1, <2>2, <2>3 DEF Keeps, Knows
<1>5. ASSUME Goes(w, "mark_input"), workers[w].stage # "transform_verified" PROVE Keeps(w)
  <2>1. /\ Effects(w) /\ workers'[w].pc = "mark_input" /\ Remembers(w) /\ Informed(w)'
    BY <1>1, <1>5, ReadsGoes DEF Points, Submitting, Ended
  <2>2. Prepared(w)'
    BY <1>1, <1>5, <2>1, RunHas DEF Reads, Remembers, Knows, Prepared, Chosen, Resuming, Marking,
       Computing, Creating, Submitting, Ended, Receipted, PostTransform
  <2>3. Secured(w)'
    BY <1>1, <1>5, <2>1, RunHas DEF Reads, Remembers, Knows, Secured, Prepared, Finished, Durable, Key,
       Creating, Submitting, Receipted, Resuming
  <2> QED
    BY <2>1, <2>2, <2>3 DEF Keeps, Knows
<1> QED
  BY <1>2, <1>3, <1>4, <1>5

LEMMA StepAdmit ==
  ASSUME IInv, NEW w \in Workers, Admit(w) PROVE Keeps(w)
<1>1. Reads /\ workers[w].pc = "admit" /\ Knows(w)
  BY PassesReads, RunHas DEF Admit, Passes, At
<1>2. \/ Goes(w, "fail")
      \/ Goes(w, "transform")
  BY DEF Admit, Passes
<1>3. ASSUME Goes(w, "fail") PROVE Keeps(w)
  BY <1>1, <1>3, ReadsGoes DEF Keeps, Points
<1>4. ASSUME Goes(w, "transform") PROVE Keeps(w)
  <2>1. /\ Effects(w) /\ workers'[w].pc = "transform" /\ Remembers(w) /\ Informed(w)'
    BY <1>1, <1>4, ReadsGoes DEF Points, Submitting, Ended
  <2>2. Prepared(w)'
    BY <1>1, <1>4, <2>1, RunHas DEF Reads, Remembers, Knows, Prepared, Chosen, Resuming, Marking,
       Computing, Creating, Submitting, Ended, Receipted, PostTransform
  <2>3. Secured(w)'
    BY <1>1, <1>4, <2>1, RunHas DEF Reads, Remembers, Knows, Secured, Prepared, Finished, Durable, Key,
       Creating, Submitting, Receipted, Resuming
  <2> QED
    BY <2>1, <2>2, <2>3 DEF Keeps, Knows
<1> QED
  BY <1>2, <1>3, <1>4

LEMMA StepGuard ==
  ASSUME IInv, NEW w \in Workers, Guard(w) PROVE Keeps(w)
<1>1. Reads /\ workers[w].pc = "guard" /\ Knows(w)
  BY PassesReads, RunHas DEF Guard, Passes, At
<1>2. \/ Goes(w, "fail")
      \/ Goes(w, "put")
  BY DEF Guard, Passes
<1>3. ASSUME Goes(w, "fail") PROVE Keeps(w)
  BY <1>1, <1>3, ReadsGoes DEF Keeps, Points
<1>4. ASSUME Goes(w, "put") PROVE Keeps(w)
  <2>1. /\ Effects(w) /\ workers'[w].pc = "put" /\ Remembers(w) /\ Informed(w)'
    BY <1>1, <1>4, ReadsGoes DEF Points, Submitting, Ended
  <2>2. Prepared(w)'
    BY <1>1, <1>4, <2>1, RunHas DEF Reads, Remembers, Knows, Prepared, Chosen, Resuming, Marking,
       Computing, Creating, Submitting, Ended, Receipted, PostTransform
  <2>3. Secured(w)'
    BY <1>1, <1>4, <2>1, RunHas DEF Reads, Remembers, Knows, Secured, Prepared, Finished, Durable, Key,
       Creating, Submitting, Receipted, Resuming
  <2> QED
    BY <2>1, <2>2, <2>3 DEF Keeps, Knows
<1> QED
  BY <1>2, <1>3, <1>4

LEMMA StepVerifyCreated ==
  ASSUME IInv, NEW w \in Workers, VerifyCreated(w) PROVE Keeps(w)
<1>1. Reads /\ workers[w].pc = "verify" /\ Knows(w)
  BY PassesReads, RunHas DEF VerifyCreated, Passes, At
<1>2. \/ Goes(w, "fail")
      \/ Goes(w, "after") /\ Key(w) \in store
  BY DEF VerifyCreated, Passes
<1>3. ASSUME Goes(w, "fail") PROVE Keeps(w)
  BY <1>1, <1>3, ReadsGoes DEF Keeps, Points
<1>4. ASSUME Goes(w, "after"), Key(w) \in store PROVE Keeps(w)
  <2>1. /\ Effects(w) /\ workers'[w].pc = "after" /\ Remembers(w) /\ Informed(w)'
    BY <1>1, <1>4, ReadsGoes DEF Points, Submitting, Ended
  <2>2. Prepared(w)'
    BY <1>1, <1>4, <2>1, RunHas DEF Reads, Remembers, Knows, Prepared, Chosen, Resuming, Marking,
       Computing, Creating, Submitting, Ended, Receipted, PostTransform
  <2>3. Secured(w)'
    BY <1>1, <1>4, <2>1, RunHas DEF Reads, Remembers, Knows, Secured, Prepared, Finished, Durable, Key,
       Creating, Submitting, Receipted, Resuming
  <2> QED
    BY <2>1, <2>2, <2>3 DEF Keeps, Knows
<1> QED
  BY <1>2, <1>3, <1>4

LEMMA StepAfterCreate ==
  ASSUME IInv, NEW w \in Workers, AfterCreate(w) PROVE Keeps(w)
<1>1. Reads /\ workers[w].pc = "after" /\ Knows(w)
  BY PassesReads, RunHas DEF AfterCreate, Passes, At
<1>2. \/ Goes(w, "fail")
      \/ Goes(w, "persist")
  BY DEF AfterCreate, Passes
<1>3. ASSUME Goes(w, "fail") PROVE Keeps(w)
  BY <1>1, <1>3, ReadsGoes DEF Keeps, Points
<1>4. ASSUME Goes(w, "persist") PROVE Keeps(w)
  <2>1. /\ Effects(w) /\ workers'[w].pc = "persist" /\ Remembers(w) /\ Informed(w)'
    BY <1>1, <1>4, ReadsGoes DEF Points, Submitting, Ended
  <2>2. Prepared(w)'
    BY <1>1, <1>4, <2>1, RunHas DEF Reads, Remembers, Knows, Prepared, Chosen, Resuming, Marking,
       Computing, Creating, Submitting, Ended, Receipted, PostTransform
  <2>3. Secured(w)'
    BY <1>1, <1>4, <2>1, RunHas DEF Reads, Remembers, Knows, Secured, Prepared, Finished, Durable, Key,
       Creating, Submitting, Receipted, Resuming
  <2> QED
    BY <2>1, <2>2, <2>3 DEF Keeps, Knows
<1> QED
  BY <1>2, <1>3, <1>4

\* A run whose point and one other field change.
WithPhase(me, pc, x) == [me EXCEPT !.pc = pc, !.phase = x]
LEMMA PhaseChanges ==
  ASSUME NEW me \in Worker, NEW pc \in Points, NEW x \in Phases
  PROVE  LET new == WithPhase(me, pc, x) IN
         /\ new \in Worker /\ new.pc = pc /\ new.phase = x
         /\ new.stage = me.stage /\ new.last = me.last /\ new.silent = me.silent
         /\ new.known = me.known /\ new.metrics = me.metrics /\ new.out = me.out
         /\ new.receipt = me.receipt
BY DEF Worker, WithPhase

WithReceipt(me, pc, x) == [me EXCEPT !.pc = pc, !.receipt = x]
LEMMA ReceiptChanges ==
  ASSUME NEW me \in Worker, NEW pc \in Points, NEW x \in Dispositions \cup {NoReceipt}
  PROVE  LET new == WithReceipt(me, pc, x) IN
         /\ new \in Worker /\ new.pc = pc /\ new.receipt = x
         /\ new.phase = me.phase /\ new.stage = me.stage /\ new.last = me.last
         /\ new.silent = me.silent /\ new.known = me.known /\ new.metrics = me.metrics
         /\ new.out = me.out
BY DEF Worker, WithReceipt

WithSilence(me, pc, x) == [me EXCEPT !.pc = pc, !.silent = x]
LEMMA SilenceChanges ==
  ASSUME NEW me \in Worker, NEW pc \in Points, NEW x \in BOOLEAN
  PROVE  LET new == WithSilence(me, pc, x) IN
         /\ new \in Worker /\ new.pc = pc /\ new.silent = x
         /\ new.phase = me.phase /\ new.stage = me.stage /\ new.last = me.last
         /\ new.known = me.known /\ new.metrics = me.metrics /\ new.out = me.out
         /\ new.receipt = me.receipt
BY DEF Worker, WithSilence

LEMMA StepRestoreOutput ==
  ASSUME IInv, NEW w \in Workers, RestoreOutput(w) PROVE Keeps(w)
<1>1. Reads /\ workers[w].pc = "restore" /\ workers[w].stage = "output_verified"
  BY PassesReads DEF RestoreOutput, At
<1>2. ASSUME Goes(w, "fail") PROVE Keeps(w)
  BY <1>1, <1>2, ReadsGoes DEF Keeps, Points
<1>3. ASSUME Moves(w, [workers[w] EXCEPT !.pc = "recall", !.phase = "manifest"])
      PROVE  Keeps(w)
  <2>1. PICK new : new = WithPhase(workers[w], "recall", "manifest")
    OBVIOUS
  <2>2. workers[w] \in Worker /\ "recall" \in Points /\ "manifest" \in Phases
    BY RunHas DEF Points, Phases
  <2>3. /\ new \in Worker /\ new.pc = "recall" /\ new.phase = "manifest"
        /\ new.stage = workers[w].stage /\ new.last = workers[w].last
        /\ new.silent = workers[w].silent /\ new.known = workers[w].known
        /\ new.metrics = workers[w].metrics
        /\ new.out = workers[w].out /\ new.receipt = workers[w].receipt
    BY <2>1, <2>2, PhaseChanges
  <2>4. /\ workers' \in [Workers -> Worker] /\ workers'[w] = new
        /\ \A v \in Workers \ {w} : workers'[v] = workers[v]
    <3>1. Moves(w, new)
      BY <1>3, <2>1 DEF WithPhase
    <3> QED
      BY <2>3, <3>1, MovesTo DEF IInv
  <2>5. Effects(w)
    BY <1>1, <2>4, ReadsEffects
  <2>6. Informed(w)'
    BY <1>1, <2>3, <2>4, RunHas DEF Reads, Knows, Informed, Current, Ended, Submitting
  <2>7. Prepared(w)'
    BY <1>1, <2>3, <2>4, RunHas DEF Reads, Knows, Prepared, Chosen, Resuming, Marking,
       Computing, Creating, Submitting, Ended, Receipted, PostTransform
  <2>8. Secured(w)'
    BY <1>1, <2>3, <2>4, RunHas DEF Reads, Knows, Secured, Durable, Creating, Submitting
  <2> QED
    BY <2>5, <2>6, <2>7, <2>8 DEF Keeps, Knows
<1> QED
  BY <1>2, <1>3 DEF RestoreOutput

\* A create that moves on with another receipt in hand.
LEMMA ReceiptGoes ==
  ASSUME IInv, NEW w \in Workers, Reads, workers[w].pc \in {"recall", "head"},
         NEW pc \in {"head", "verify"}, NEW x \in Dispositions \cup {NoReceipt},
         Moves(w, [workers[w] EXCEPT !.pc = pc, !.receipt = x]),
         pc = "verify" => x # NoReceipt
  PROVE  Keeps(w)
<1>1. PICK new : new = WithReceipt(workers[w], pc, x)
  OBVIOUS
<1>2. workers[w] \in Worker /\ pc \in Points
  BY RunHas DEF Points
<1>3. /\ new \in Worker /\ new.pc = pc /\ new.receipt = x
      /\ new.phase = workers[w].phase
      /\ new.stage = workers[w].stage /\ new.last = workers[w].last
      /\ new.silent = workers[w].silent /\ new.known = workers[w].known
      /\ new.metrics = workers[w].metrics /\ new.out = workers[w].out
  BY <1>1, <1>2, ReceiptChanges
<1>4. /\ workers' \in [Workers -> Worker] /\ workers'[w] = new
      /\ \A v \in Workers \ {w} : workers'[v] = workers[v]
  <2>1. Moves(w, new)
    BY <1>1 DEF WithReceipt
  <2> QED
    BY <1>3, <2>1, MovesTo DEF IInv
<1>5. Effects(w)
  BY <1>4, ReadsEffects
<1>6. Informed(w)'
  BY <1>3, <1>4, RunHas DEF Reads, Knows, Informed, Current, Ended, Submitting
<1>7. Prepared(w)'
  BY <1>3, <1>4, RunHas DEF Reads, Knows, Prepared, Chosen, Resuming, Marking,
     Computing, Creating, Submitting, Ended
<1>8. Secured(w)'
  BY <1>3, <1>4, RunHas DEF Reads, Knows, Secured, Durable, Creating, Submitting
<1> QED
  BY <1>5, <1>6, <1>7, <1>8 DEF Keeps, Knows

LEMMA StepRecall ==
  ASSUME IInv, NEW w \in Workers, Recall(w) PROVE Keeps(w)
<1>1. Reads /\ workers[w].pc = "recall"
  BY PassesReads DEF Recall, At
<1>2. ASSUME Goes(w, "fail") PROVE Keeps(w)
  BY <1>1, <1>2, ReadsGoes DEF Keeps, Points
<1>3. ASSUME Moves(w, [workers[w] EXCEPT !.pc = "head", !.receipt = receipts[Key(w)]])
      PROVE  Keeps(w)
  <2>1. workers[w].out \in Outputs
    BY <1>1, RunHas DEF Knows, Prepared, Creating
  <2>2. Key(w) \in Objects
    BY <2>1, RunHas DEF Key, Objects
  <2>3. PICK x \in Dispositions \cup {NoReceipt} : x = receipts[Key(w)]
    BY <2>2 DEF IInv, LaptopTypeOK
  <2> QED
    BY <1>1, <1>3, <2>3, ReceiptGoes
<1> QED
  BY <1>2, <1>3 DEF Recall

LEMMA StepHead ==
  ASSUME IInv, NEW w \in Workers, Head(w) PROVE Keeps(w)
<1>1. Reads /\ workers[w].pc = "head" /\ Knows(w)
  BY PassesReads, RunHas DEF Head, At
<1>2. ASSUME Goes(w, "fail") PROVE Keeps(w)
  BY <1>1, <1>2, ReadsGoes DEF Keeps, Points
<1>3. ASSUME Receives(w, "verify", "reused") PROVE Keeps(w)
  <2>1. Moves(w, [workers[w] EXCEPT !.pc = "verify", !.receipt = "reused"])
    BY <1>3 DEF Receives
  <2>2. "reused" \in Dispositions /\ "reused" # NoReceipt
    BY LaptopAssumption DEF Dispositions
  <2> QED
    BY <1>1, <2>1, <2>2, ReceiptGoes
<1>4. ASSUME NEW pc \in {"after", "guard"}, Goes(w, pc),
             pc = "after" => Key(w) \in store /\ workers[w].receipt # NoReceipt
      PROVE  Keeps(w)
  <2>1. /\ Effects(w) /\ workers'[w].pc = pc /\ Remembers(w) /\ Informed(w)'
    BY <1>1, <1>4, ReadsGoes DEF Points, Submitting, Ended
  <2>2. Prepared(w)'
    BY <1>1, <1>4, <2>1, RunHas DEF Reads, Remembers, Knows, Prepared, Chosen, Resuming, Marking,
       Computing, Creating, Submitting, Ended
  <2>3. Secured(w)'
    BY <1>1, <1>4, <2>1, RunHas DEF Reads, Remembers, Knows, Secured, Durable, Key,
       Creating, Submitting
  <2> QED
    BY <2>1, <2>2, <2>3 DEF Keeps, Knows
<1>5. \/ Goes(w, "fail") \/ Receives(w, "verify", "reused") \/ Goes(w, "guard")
      \/ Goes(w, "after") /\ Key(w) \in store /\ workers[w].receipt # NoReceipt
  BY DEF Head
<1> QED
  BY <1>2, <1>3, <1>4, <1>5

LEMMA StepFails ==
  ASSUME IInv, NEW w \in Workers, Fails(w) PROVE Keeps(w)
<1>1. Reads
  BY UnchangedReads DEF Fails, IInv
<1> QED
  BY <1>1, ReadsGoes DEF Keeps, Points, Fails

LEMMA StepBreaks ==
  ASSUME IInv, NEW w \in Workers, Breaks(w) PROVE Keeps(w)
<1>1. Reads /\ workers[w].pc # "idle"
  BY UnchangedReads DEF Breaks, IInv
<1>2. PICK new : new = WithSilence(workers[w], "fail", TRUE)
  OBVIOUS
<1>3. workers[w] \in Worker /\ "fail" \in Points
  BY RunHas DEF Points
<1>4. /\ new \in Worker /\ new.pc = "fail" /\ new.silent /\ new.last = workers[w].last
      /\ new.metrics = workers[w].metrics
  BY <1>2, <1>3, SilenceChanges
<1>5. /\ workers' \in [Workers -> Worker] /\ workers'[w] = new
      /\ \A v \in Workers \ {w} : workers'[v] = workers[v]
  <2>1. Moves(w, new)
    BY <1>2 DEF WithSilence, Breaks
  <2> QED
    BY <1>4, <2>1, MovesTo DEF IInv
<1>6. Effects(w)
  BY <1>1, <1>5, ReadsEffects
<1>7. Informed(w)'
  BY <1>1, <1>4, <1>5, RunHas DEF Reads, Knows, Informed, Current, Ended
<1>8. workers'[w].metrics <= spent' /\ workers'[w].last.cpu <= spent'
  BY <1>1, <1>4, <1>5, RunHas DEF Reads, Knows, Prepared
<1> QED
  BY <1>4, <1>5, <1>6, <1>7, <1>8, FailKnows DEF Keeps

LEMMA StepDies ==
  ASSUME IInv, NEW w \in Workers, Dies(w) PROVE Keeps(w)
<1>1. Reads
  BY UnchangedReads DEF Dies, IInv
<1>2. /\ workers' \in [Workers -> Worker] /\ workers'[w] = Idle
      /\ \A v \in Workers \ {w} : workers'[v] = workers[v]
  BY IdleIs, MovesTo DEF IInv, Dies
<1>3. Effects(w)
  BY <1>1, <1>2, ReadsEffects
<1> QED
  BY <1>2, <1>3, IdleKnows DEF Keeps, Effects, Records

-----------------------------------------------------------------------------
(* Checkpoints. *)

\* What a run may write over the checkpoint of the job it holds.
Writable(value) ==
  /\ value.open /\ value.cpu <= spent
  /\ checkpoint.out \in {NoOutput, value.out}
  /\ value.stage = "output_verified" => Durable(<<"output", value.out>>)
  /\ value.stage = "manifest_verified" => Finished(value.out)

LEMMA SaveEffects ==
  ASSUME IInv, NEW w \in Workers, Holds(w), workers[w].pc \notin Ended \cup Submitting,
         NEW value \in Checkpoint, Writable(value), checkpoint' \in {checkpoint, value},
         UNCHANGED <<job, result, ledger, store, budget>>, faults' \in 0..MaxFaults,
         workers' \in [Workers -> Worker],
         \A v \in Workers \ {w} : workers'[v] = workers[v]
  PROVE  Effects(w)
<1>1. UNCHANGED <<job, result, receipts, lineage, cleanup, doomed, store, spent, attemptCpu>>
  BY DEF ledger, budget
<1>2. Knows(w) /\ checkpoint.open /\ result = NoOutput /\ Current(w)
  BY DEF IInv, Knows, Informed, Holds, Ended
<1>3. LaptopTypeOK'
  BY <1>1 DEF IInv, LaptopTypeOK
<1>4. \A o \in Outputs : Chosen(o) => Chosen(o)'
  BY <1>1, <1>2, LaptopAssumption DEF Chosen, Writable
<1>5. JobSound' /\ AttemptIsAccounted' /\ DurableAsSaid'
  <2>1. JobSound'
    BY <1>1, <1>2 DEF IInv, JobSound, Writable
  <2>2. AttemptIsAccounted'
    BY <1>2 DEF AttemptIsAccounted, Writable
  <2>3. DurableAsSaid'
    BY <1>1, <1>2 DEF IInv, DurableAsSaid, Writable, Durable, Finished
  <2> QED
    BY <2>1, <2>2, <2>3
<1>6. OwnOutput'
  <2>1. \A k \in Objects : k[2] \in Outputs
    BY DEF Objects
  <2>2. lineage \subseteq Outputs
    BY DEF IInv, LaptopTypeOK
  <2> QED
    BY <1>1, <1>4, <2>1, <2>2 DEF IInv, OwnOutput
<1>7. Lasts
  <2>1. spent <= spent'
    BY <1>1, LaptopAssumption DEF IInv, LaptopTypeOK
  <2> QED
    BY <1>1, <1>4, <2>1 DEF Lasts
<1>8. \A v \in Workers \ {w} : Untouched(v)
  BY <1>1, <1>2 DEF Untouched, Current
<1> QED
  BY <1>3, <1>5, <1>6, <1>7, <1>8 DEF Effects, Records

\* A heartbeat that is refused, or a write without an answer.
LEMMA MaintainEnds ==
  ASSUME IInv, NEW w \in Workers, workers[w].pc \notin Ended \cup Submitting,
         NEW value \in Checkpoint, Holds(w) => Writable(value),
         UNCHANGED <<job, result, ledger, store, budget>>,
         \/ ~Holds(w) /\ Goes(w, "fail") /\ UNCHANGED checkpoint /\ NoFault
         \/ /\ Holds(w) /\ Fault
            /\ checkpoint' \in {checkpoint, value}
            /\ Moves(w, [workers[w] EXCEPT !.pc = "fail", !.silent = TRUE])
  PROVE  Keeps(w)
<1>1. CASE ~Holds(w) /\ Goes(w, "fail") /\ UNCHANGED checkpoint /\ NoFault
  <2>1. Reads
    BY <1>1, UnchangedReads DEF IInv, control, NoFault
  <2> QED
    BY <1>1, <2>1, ReadsGoes DEF Keeps, Points, Ended
<1>2. CASE /\ Holds(w) /\ Fault
           /\ checkpoint' \in {checkpoint, value}
           /\ Moves(w, [workers[w] EXCEPT !.pc = "fail", !.silent = TRUE])
  <2>1. PICK new : new = WithSilence(workers[w], "fail", TRUE)
    OBVIOUS
  <2>2. workers[w] \in Worker /\ "fail" \in Points
    BY RunHas DEF Points
  <2>3. /\ new \in Worker /\ new.pc = "fail" /\ new.silent /\ new.last = workers[w].last
        /\ new.metrics = workers[w].metrics
    BY <2>1, <2>2, SilenceChanges
  <2>4. Moves(w, new)
    BY <1>2, <2>1 DEF WithSilence
  <2>5. /\ workers' \in [Workers -> Worker] /\ workers'[w] = new
        /\ \A v \in Workers \ {w} : workers'[v] = workers[v]
    BY <2>3, <2>4, MovesTo DEF IInv
  <2>6. faults' \in 0..MaxFaults
    BY <1>2, LaptopAssumption DEF IInv, LaptopTypeOK, Fault
  <2>7. Effects(w)
    BY <1>2, <2>5, <2>6, SaveEffects
  <2>8. /\ UNCHANGED <<job, result, spent>> /\ checkpoint'.open /\ result = NoOutput
    BY <1>2, RunHas DEF budget, Writable, Knows, Informed, Holds, Ended
  <2>9. Informed(w)'
    BY <2>3, <2>5, <2>8 DEF Informed, Ended
  <2>10. workers'[w].metrics <= spent' /\ workers'[w].last.cpu <= spent'
    BY <2>3, <2>5, <2>8, RunHas DEF Knows, Prepared
  <2> QED
    BY <2>3, <2>5, <2>7, <2>9, <2>10, FailKnows DEF Keeps
<1> QED
  BY <1>1, <1>2

SavedRun(me, pc, value) == [[me EXCEPT !.pc = pc] EXCEPT !.last = value]
LEMMA SavedChanges ==
  ASSUME NEW me \in Worker, NEW pc \in Points, NEW value \in Checkpoint
  PROVE  LET new == SavedRun(me, pc, value) IN
         /\ new \in Worker /\ new.pc = pc /\ new.last = value
         /\ new.phase = me.phase /\ new.stage = me.stage /\ new.silent = me.silent
         /\ new.known = me.known /\ new.metrics = me.metrics
         /\ new.out = me.out /\ new.receipt = me.receipt
BY DEF Worker, SavedRun

\* The manifest's create begins with no receipt in hand.
SavedManifest(me, value) ==
  [[[me EXCEPT !.pc = "recall"] EXCEPT !.phase = "manifest", !.receipt = NoReceipt]
     EXCEPT !.last = value]
LEMMA SavedManifestChanges ==
  ASSUME NEW me \in Worker, NEW value \in Checkpoint
  PROVE  LET new == SavedManifest(me, value) IN
         /\ new \in Worker /\ new.pc = "recall" /\ new.last = value /\ new.phase = "manifest"
         /\ new.stage = me.stage /\ new.silent = me.silent
         /\ new.known = me.known /\ new.metrics = me.metrics /\ new.out = me.out
<1>1. PICK one : one = [me EXCEPT !.pc = "recall"]
  OBVIOUS
<1>2. /\ one \in Worker /\ one.pc = "recall"
      /\ one.stage = me.stage /\ one.silent = me.silent
      /\ one.known = me.known /\ one.metrics = me.metrics /\ one.out = me.out
  BY <1>1 DEF Worker, Points
<1>3. PICK two : two = [one EXCEPT !.phase = "manifest", !.receipt = NoReceipt]
  OBVIOUS
<1>4. /\ two \in Worker /\ two.pc = "recall" /\ two.phase = "manifest"
      /\ two.stage = me.stage /\ two.silent = me.silent
      /\ two.known = me.known /\ two.metrics = me.metrics /\ two.out = me.out
  BY <1>2, <1>3 DEF Worker, Phases
<1>5. PICK new : new = [two EXCEPT !.last = value]
  OBVIOUS
<1>6. /\ new \in Worker /\ new.pc = "recall" /\ new.last = value /\ new.phase = "manifest"
      /\ new.stage = me.stage /\ new.silent = me.silent
      /\ new.known = me.known /\ new.metrics = me.metrics /\ new.out = me.out
  BY <1>4, <1>5 DEF Worker
<1>7. SavedManifest(me, value) = new
  BY <1>1, <1>3, <1>5 DEF SavedManifest
<1> QED
  BY <1>6, <1>7

\* What a run that saves a checkpoint knows afterwards.
LEMMA SaveInforms ==
  ASSUME IInv, NEW w \in Workers, Holds(w), workers[w].pc \notin Ended \cup Submitting,
         NEW value \in Checkpoint, Writable(value), checkpoint' = value,
         UNCHANGED <<job, result, ledger, store, budget>>, NoFault,
         NEW new \in Worker, Moves(w, new), new.last = value, new.silent = workers[w].silent,
         new.known = workers[w].known, new.metrics = workers[w].metrics
  PROVE  /\ Effects(w) /\ Informed(w)' /\ workers'[w] = new
         /\ UNCHANGED <<receipts, lineage, cleanup, doomed, store, spent>>
         /\ new.metrics <= spent' /\ new.last.cpu <= spent'
<1>1. /\ workers' \in [Workers -> Worker] /\ workers'[w] = new
      /\ \A v \in Workers \ {w} : workers'[v] = workers[v]
  BY MovesTo DEF IInv
<1>2. faults' \in 0..MaxFaults
  BY DEF IInv, LaptopTypeOK, NoFault
<1>3. Effects(w)
  BY <1>1, <1>2, SaveEffects
<1>4. UNCHANGED <<job, result, receipts, lineage, cleanup, doomed, store, spent, attemptCpu>>
  BY DEF ledger, budget
<1>5. Current(w) /\ Knows(w)
  BY DEF IInv, Holds
<1>6. Informed(w)'
  BY <1>1, <1>4, <1>5 DEF Knows, Informed, Prepared, Current, Writable, Ended
<1>7. new.metrics <= spent' /\ new.last.cpu <= spent'
  BY <1>4, <1>5 DEF Knows, Prepared, Writable
<1> QED
  BY <1>1, <1>3, <1>4, <1>6, <1>7

LEMMA StepMarkInput ==
  ASSUME IInv, NEW w \in Workers, MarkInput(w) PROVE Keeps(w)
<1>1. /\ workers[w].pc = "mark_input" /\ Knows(w) /\ workers[w] \in Worker
      /\ workers[w].pc \notin Ended \cup Submitting /\ "mark_start" \in Points
  BY RunHas DEF MarkInput, Maintain, At, Ended, Submitting, Points
<1>2. PICK value : value = Bare("input_verified")
  OBVIOUS
<1>3. /\ value \in Checkpoint /\ value.stage = "input_verified" /\ value.open
      /\ value.out = NoOutput /\ value.cpu = 0
  BY <1>2, BareIs DEF PreTransform
<1>4. value.cpu <= spent
  BY <1>3, LaptopAssumption DEF IInv, LaptopTypeOK
<1>5. ASSUME Holds(w) PROVE Writable(value)
  <2>1. checkpoint = workers[w].last /\ result = NoOutput
    BY <1>1, <1>5 DEF Holds, Knows, Informed, Prepared, Ended, Submitting
  <2> QED
    BY <1>1, <1>3, <1>4, <2>1 DEF Writable, Knows, Prepared, Marking
<1>6. UNCHANGED <<job, result, ledger, store, budget>>
  BY DEF MarkInput, Maintain
<1>7. CASE Holds(w) /\ NoFault /\ checkpoint' = value /\ Moves(w, SavedRun(workers[w], "mark_start", value))
  <2>1. PICK new : new = SavedRun(workers[w], "mark_start", value)
    OBVIOUS
  <2>2. /\ new \in Worker /\ new.pc = "mark_start" /\ new.last = value
        /\ new.phase = workers[w].phase /\ new.stage = workers[w].stage
        /\ new.silent = workers[w].silent
        /\ new.known = workers[w].known /\ new.metrics = workers[w].metrics
        /\ new.out = workers[w].out /\ new.receipt = workers[w].receipt
    BY <1>1, <1>3, <2>1, SavedChanges
  <2>3. /\ Effects(w) /\ Informed(w)' /\ workers'[w] = new
        /\ UNCHANGED <<receipts, lineage, cleanup, doomed, store, spent>>
        /\ new.metrics <= spent' /\ new.last.cpu <= spent'
    BY <1>1, <1>3, <1>5, <1>6, <1>7, <2>1, <2>2, SaveInforms
  <2>4. Prepared(w)'
    BY <1>1, <1>3, <1>7, <2>2, <2>3 DEF Knows, Prepared, Chosen, Resuming, Marking,
       Computing, Creating, Submitting, Ended
  <2>5. Secured(w)'
    BY <1>1, <2>2, <2>3 DEF Knows, Prepared, Secured, Durable, Finished, Creating, Submitting, Resuming
  <2> QED
    BY <2>3, <2>4, <2>5 DEF Keeps, Knows
<1>8. \/ ~Holds(w) /\ Goes(w, "fail") /\ UNCHANGED checkpoint /\ NoFault
      \/ Holds(w) /\ NoFault /\ checkpoint' = value /\ Moves(w, SavedRun(workers[w], "mark_start", value))
      \/ /\ Holds(w) /\ Fault
         /\ checkpoint' \in {checkpoint, value}
         /\ Moves(w, [workers[w] EXCEPT !.pc = "fail", !.silent = TRUE])
  BY <1>2 DEF MarkInput, Maintain, Then, SavedRun
<1> QED
  BY <1>1, <1>3, <1>5, <1>6, <1>7, <1>8, MaintainEnds

LEMMA StepMarkStart ==
  ASSUME IInv, NEW w \in Workers, MarkStart(w) PROVE Keeps(w)
<1>1. /\ workers[w].pc = "mark_start" /\ Knows(w) /\ workers[w] \in Worker
      /\ workers[w].pc \notin Ended \cup Submitting /\ "admit" \in Points
  BY RunHas DEF MarkStart, Maintain, At, Ended, Submitting, Points
<1>2. PICK value : value = Bare("transform_started")
  OBVIOUS
<1>3. /\ value \in Checkpoint /\ value.stage = "transform_started" /\ value.open
      /\ value.out = NoOutput /\ value.cpu = 0
  BY <1>2, BareIs DEF PreTransform
<1>4. value.cpu <= spent
  BY <1>3, LaptopAssumption DEF IInv, LaptopTypeOK
<1>5. ASSUME Holds(w) PROVE Writable(value)
  <2>1. checkpoint = workers[w].last /\ result = NoOutput
    BY <1>1, <1>5 DEF Holds, Knows, Informed, Prepared, Ended, Submitting
  <2> QED
    BY <1>1, <1>3, <1>4, <2>1 DEF Writable, Knows, Prepared, Marking
<1>6. UNCHANGED <<job, result, ledger, store, budget>>
  BY DEF MarkStart, Maintain
<1>7. CASE Holds(w) /\ NoFault /\ checkpoint' = value /\ Moves(w, SavedRun(workers[w], "admit", value))
  <2>1. PICK new : new = SavedRun(workers[w], "admit", value)
    OBVIOUS
  <2>2. /\ new \in Worker /\ new.pc = "admit" /\ new.last = value
        /\ new.phase = workers[w].phase /\ new.stage = workers[w].stage
        /\ new.silent = workers[w].silent
        /\ new.known = workers[w].known /\ new.metrics = workers[w].metrics
        /\ new.out = workers[w].out /\ new.receipt = workers[w].receipt
    BY <1>1, <1>3, <2>1, SavedChanges
  <2>3. /\ Effects(w) /\ Informed(w)' /\ workers'[w] = new
        /\ UNCHANGED <<receipts, lineage, cleanup, doomed, store, spent>>
        /\ new.metrics <= spent' /\ new.last.cpu <= spent'
    BY <1>1, <1>3, <1>5, <1>6, <1>7, <2>1, <2>2, SaveInforms
  <2>4. Prepared(w)'
    BY <1>1, <1>3, <1>7, <2>2, <2>3 DEF Knows, Prepared, Chosen, Resuming, Marking,
       Computing, Creating, Submitting, Ended
  <2>5. Secured(w)'
    BY <1>1, <2>2, <2>3 DEF Knows, Prepared, Secured, Durable, Finished, Creating, Submitting, Resuming
  <2> QED
    BY <2>3, <2>4, <2>5 DEF Keeps, Knows
<1>8. \/ ~Holds(w) /\ Goes(w, "fail") /\ UNCHANGED checkpoint /\ NoFault
      \/ Holds(w) /\ NoFault /\ checkpoint' = value /\ Moves(w, SavedRun(workers[w], "admit", value))
      \/ /\ Holds(w) /\ Fault
         /\ checkpoint' \in {checkpoint, value}
         /\ Moves(w, [workers[w] EXCEPT !.pc = "fail", !.silent = TRUE])
  BY <1>2 DEF MarkStart, Maintain, Then, SavedRun
<1> QED
  BY <1>1, <1>3, <1>5, <1>6, <1>7, <1>8, MaintainEnds

LEMMA StepMarkVerified ==
  ASSUME IInv, NEW w \in Workers, MarkVerified(w) PROVE Keeps(w)
<1>1. /\ workers[w].pc = "mark_verified" /\ Knows(w) /\ workers[w] \in Worker
      /\ workers[w].pc \notin Ended \cup Submitting /\ "recall" \in Points
  BY RunHas DEF MarkVerified, Maintain, At, Ended, Submitting, Points
<1>2. PICK value : value = Full(w, "transform_verified")
  OBVIOUS
<1>3. workers[w].out # NoOutput /\ "transform_verified" \in PostTransform
  BY <1>1 DEF Knows, Prepared, Creating, PostTransform, Receipted
<1>4. /\ value \in Checkpoint /\ value.stage = "transform_verified" /\ value.open
      /\ value.out = workers[w].out /\ value.cpu = Cpu(w)
  BY <1>2, <1>3, FullIs DEF IInv
<1>5. value.cpu <= spent
  BY <1>1, <1>4 DEF Cpu, Knows, Prepared
<1>6. ASSUME Holds(w) PROVE Writable(value)
  <2>1. checkpoint = workers[w].last /\ result = NoOutput
    BY <1>1, <1>6 DEF Holds, Knows, Informed, Prepared, Ended, Submitting
  <2> QED
    BY <1>1, <1>4, <1>5, <2>1 DEF Writable, Knows, Prepared, Marking
<1>7. UNCHANGED <<job, result, ledger, store, budget>>
  BY DEF MarkVerified, Maintain
<1>8. CASE Holds(w) /\ NoFault /\ checkpoint' = value /\ Moves(w, SavedRun(workers[w], "recall", value))
  <2>1. PICK new : new = SavedRun(workers[w], "recall", value)
    OBVIOUS
  <2>2. /\ new \in Worker /\ new.pc = "recall" /\ new.last = value
        /\ new.phase = workers[w].phase /\ new.stage = workers[w].stage
        /\ new.silent = workers[w].silent
        /\ new.known = workers[w].known /\ new.metrics = workers[w].metrics
        /\ new.out = workers[w].out /\ new.receipt = workers[w].receipt
    BY <1>1, <1>4, <2>1, SavedChanges
  <2>3. /\ Effects(w) /\ Informed(w)' /\ workers'[w] = new
        /\ UNCHANGED <<receipts, lineage, cleanup, doomed, store, spent>>
        /\ new.metrics <= spent' /\ new.last.cpu <= spent'
    BY <1>1, <1>4, <1>6, <1>7, <1>8, <2>1, <2>2, SaveInforms
  <2>4. Prepared(w)'
    BY <1>1, <1>4, <1>8, <2>2, <2>3, <1>3 DEF Knows, Prepared, Chosen, Resuming, Marking,
       Computing, Creating, Submitting, Ended
  <2>5. Secured(w)'
    BY <1>1, <2>2, <2>3, <1>3 DEF Knows, Prepared, Secured, Durable, Finished, Creating, Submitting, Resuming
  <2> QED
    BY <2>3, <2>4, <2>5 DEF Keeps, Knows
<1>9. \/ ~Holds(w) /\ Goes(w, "fail") /\ UNCHANGED checkpoint /\ NoFault
      \/ Holds(w) /\ NoFault /\ checkpoint' = value /\ Moves(w, SavedRun(workers[w], "recall", value))
      \/ /\ Holds(w) /\ Fault
         /\ checkpoint' \in {checkpoint, value}
         /\ Moves(w, [workers[w] EXCEPT !.pc = "fail", !.silent = TRUE])
  BY <1>2 DEF MarkVerified, Maintain, Then, SavedRun
<1> QED
  BY <1>1, <1>4, <1>6, <1>7, <1>8, <1>9, MaintainEnds

LEMMA StepMarkOutput ==
  ASSUME IInv, NEW w \in Workers, MarkOutput(w) PROVE Keeps(w)
<1>1. /\ workers[w].pc = "mark_output" /\ Knows(w) /\ workers[w] \in Worker
      /\ workers[w].pc \notin Ended \cup Submitting
  BY RunHas DEF MarkOutput, Maintain, At, Ended, Submitting
<1>2. PICK value : value = Full(w, "output_verified")
  OBVIOUS
<1>3. workers[w].out # NoOutput /\ "output_verified" \in PostTransform
  BY <1>1 DEF Knows, Prepared, Creating, PostTransform, Receipted
<1>4. /\ value \in Checkpoint /\ value.stage = "output_verified" /\ value.open
      /\ value.out = workers[w].out /\ value.cpu = Cpu(w)
  BY <1>2, <1>3, FullIs DEF IInv
<1>5. value.cpu <= spent
  BY <1>1, <1>4 DEF Cpu, Knows, Prepared
<1>6. ASSUME Holds(w) PROVE Writable(value)
  <2>1. checkpoint = workers[w].last /\ result = NoOutput
    BY <1>1, <1>6 DEF Holds, Knows, Informed, Prepared, Ended, Submitting
  <2>2. checkpoint.out = workers[w].out
    BY <1>1, <1>3, <2>1 DEF Knows, Prepared, Chosen, Creating, Ended
  <2> QED
    BY <1>1, <1>4, <1>5, <2>2 DEF Writable, Knows, Secured
<1>7. UNCHANGED <<job, result, ledger, store, budget>>
  BY DEF MarkOutput, Maintain
<1>8. CASE Holds(w) /\ NoFault /\ checkpoint' = value /\ Moves(w, SavedManifest(workers[w], value))
  <2>1. PICK new : new = SavedManifest(workers[w], value)
    OBVIOUS
  <2>2. /\ new \in Worker /\ new.pc = "recall" /\ new.last = value /\ new.phase = "manifest"
        /\ new.stage = workers[w].stage /\ new.silent = workers[w].silent
        /\ new.known = workers[w].known /\ new.metrics = workers[w].metrics
        /\ new.out = workers[w].out
    BY <1>1, <1>4, <2>1, SavedManifestChanges
  <2>3. /\ Effects(w) /\ Informed(w)' /\ workers'[w] = new
        /\ UNCHANGED <<receipts, lineage, cleanup, doomed, store, spent>>
        /\ new.metrics <= spent' /\ new.last.cpu <= spent'
    BY <1>1, <1>4, <1>6, <1>7, <1>8, <2>1, <2>2, SaveInforms
  <2>4. Prepared(w)'
    BY <1>1, <1>4, <1>8, <2>2, <2>3, <1>3 DEF Knows, Prepared, Chosen, Resuming, Marking,
       Computing, Creating, Submitting, Ended
  <2>5. Secured(w)'
    BY <1>1, <2>2, <2>3, <1>3 DEF Knows, Prepared, Secured, Durable, Finished, Creating, Submitting, Resuming
  <2> QED
    BY <2>3, <2>4, <2>5 DEF Keeps, Knows
<1>9. \/ ~Holds(w) /\ Goes(w, "fail") /\ UNCHANGED checkpoint /\ NoFault
      \/ Holds(w) /\ NoFault /\ checkpoint' = value /\ Moves(w, SavedManifest(workers[w], value))
      \/ /\ Holds(w) /\ Fault
         /\ checkpoint' \in {checkpoint, value}
         /\ Moves(w, [workers[w] EXCEPT !.pc = "fail", !.silent = TRUE])
  BY <1>2 DEF MarkOutput, Maintain, Then, SavedManifest
<1> QED
  BY <1>1, <1>4, <1>6, <1>7, <1>8, <1>9, MaintainEnds

LEMMA StepMarkManifest ==
  ASSUME IInv, NEW w \in Workers, MarkManifest(w) PROVE Keeps(w)
<1>1. /\ workers[w].pc = "mark_manifest" /\ Knows(w) /\ workers[w] \in Worker
      /\ workers[w].pc \notin Ended \cup Submitting /\ "complete" \in Points
  BY RunHas DEF MarkManifest, Maintain, At, Ended, Submitting, Points
<1>2. PICK value : value = Full(w, "manifest_verified")
  OBVIOUS
<1>3. workers[w].out # NoOutput /\ "manifest_verified" \in PostTransform
  BY <1>1 DEF Knows, Prepared, Creating, PostTransform, Receipted
<1>4. /\ value \in Checkpoint /\ value.stage = "manifest_verified" /\ value.open
      /\ value.out = workers[w].out /\ value.cpu = Cpu(w)
  BY <1>2, <1>3, FullIs DEF IInv
<1>5. value.cpu <= spent
  BY <1>1, <1>4 DEF Cpu, Knows, Prepared
<1>6. ASSUME Holds(w) PROVE Writable(value)
  <2>1. checkpoint = workers[w].last /\ result = NoOutput
    BY <1>1, <1>6 DEF Holds, Knows, Informed, Prepared, Ended, Submitting
  <2>2. checkpoint.out = workers[w].out
    BY <1>1, <1>3, <2>1 DEF Knows, Prepared, Chosen, Creating, Ended
  <2> QED
    BY <1>1, <1>4, <1>5, <2>2 DEF Writable, Knows, Secured
<1>7. UNCHANGED <<job, result, ledger, store, budget>>
  BY DEF MarkManifest, Maintain
<1>8. CASE Holds(w) /\ NoFault /\ checkpoint' = value /\ Moves(w, SavedRun(workers[w], "complete", value))
  <2>1. PICK new : new = SavedRun(workers[w], "complete", value)
    OBVIOUS
  <2>2. /\ new \in Worker /\ new.pc = "complete" /\ new.last = value
        /\ new.phase = workers[w].phase /\ new.stage = workers[w].stage
        /\ new.silent = workers[w].silent
        /\ new.known = workers[w].known /\ new.metrics = workers[w].metrics
        /\ new.out = workers[w].out /\ new.receipt = workers[w].receipt
    BY <1>1, <1>4, <2>1, SavedChanges
  <2>3. /\ Effects(w) /\ Informed(w)' /\ workers'[w] = new
        /\ UNCHANGED <<receipts, lineage, cleanup, doomed, store, spent>>
        /\ new.metrics <= spent' /\ new.last.cpu <= spent'
    BY <1>1, <1>4, <1>6, <1>7, <1>8, <2>1, <2>2, SaveInforms
  <2>4. Prepared(w)'
    BY <1>1, <1>4, <1>8, <2>2, <2>3, <1>3 DEF Knows, Prepared, Chosen, Resuming, Marking,
       Computing, Creating, Submitting, Ended
  <2>5. Secured(w)'
    BY <1>1, <2>2, <2>3, <1>3 DEF Knows, Prepared, Secured, Durable, Finished, Creating, Submitting, Resuming
  <2> QED
    BY <2>3, <2>4, <2>5 DEF Keeps, Knows
<1>9. \/ ~Holds(w) /\ Goes(w, "fail") /\ UNCHANGED checkpoint /\ NoFault
      \/ Holds(w) /\ NoFault /\ checkpoint' = value /\ Moves(w, SavedRun(workers[w], "complete", value))
      \/ /\ Holds(w) /\ Fault
         /\ checkpoint' \in {checkpoint, value}
         /\ Moves(w, [workers[w] EXCEPT !.pc = "fail", !.silent = TRUE])
  BY <1>2 DEF MarkManifest, Maintain, Then, SavedRun
<1> QED
  BY <1>1, <1>4, <1>6, <1>7, <1>8, <1>9, MaintainEnds

-----------------------------------------------------------------------------
(* Objects, receipts and lineage, and the cleanup that takes them. *)

\* The claims of a job that is as before, over a ledger that only grew.
LEMMA SaidLasts ==
  ASSUME LaptopTypeOK, DurableAsSaid, Lasts, UNCHANGED <<checkpoint, result>>
  PROVE  DurableAsSaid'
<1>1. /\ checkpoint \in Checkpoint
      /\ checkpoint.stage \in Receipted => checkpoint.out \in Outputs
  BY CheckpointHas DEF LaptopTypeOK, PostTransform
<1>2. /\ checkpoint.stage = "output_verified" => Durable(<<"output", checkpoint.out>>)'
      /\ checkpoint.stage = "manifest_verified" => Finished(checkpoint.out)'
  BY <1>1, DurableLasts, SaidIs, KeyIs DEF Receipted
<1>3. result # NoOutput => Finished(result)'
  BY DurableLasts, SaidIs DEF LaptopTypeOK
<1> QED
  BY <1>2, <1>3 DEF DurableAsSaid, Durable, Finished

LEMMA LedgerRecords ==
  ASSUME IInv, UNCHANGED <<job, checkpoint, result, spent, attemptCpu>>,
         receipts' \in [Objects -> Dispositions \cup {NoReceipt}], lineage' \subseteq Outputs,
         store' \subseteq Objects, doomed' \subseteq Objects,
         cleanup' \in {"none", "deleting", "committed"}, cleanup' = "none" => doomed' = {},
         workers' \in [Workers -> Worker], faults' \in 0..MaxFaults,
         Lasts, OwnOutput'
  PROVE  Records'
<1>1. LaptopTypeOK'
  BY DEF IInv, LaptopTypeOK
<1>2. JobSound' /\ AttemptIsAccounted'
  BY DEF IInv, JobSound, AttemptIsAccounted
<1>3. DurableAsSaid'
  BY SaidLasts DEF IInv
<1> QED
  BY <1>1, <1>2, <1>3 DEF Records

LEMMA StepPut ==
  ASSUME IInv, NEW w \in Workers, Put(w) PROVE Keeps(w)
<1>1. /\ workers[w].pc = "put" /\ Knows(w) /\ workers[w] \in Worker
      /\ UNCHANGED <<job, checkpoint, result, receipts, lineage, cleanup, doomed, spent,
                     attemptCpu>>
  BY RunHas DEF Put, At, control, ledger, budget
<1>2. /\ store' \in {store, store \cup {Key(w)}}
      /\ Fault \/ NoFault
  BY DEF Put
<1>3. PICK x \in Dispositions : Moves(w, WithReceipt(workers[w], "verify", x))
  BY DEF Put, Receives, WithReceipt, Dispositions
<1>4. PICK new : new = WithReceipt(workers[w], "verify", x)
  OBVIOUS
<1>5. "verify" \in Points /\ x # NoReceipt
  BY LaptopAssumption DEF Points, Dispositions
<1>6. /\ new \in Worker /\ new.pc = "verify" /\ new.receipt = x
      /\ new.phase = workers[w].phase
      /\ new.stage = workers[w].stage /\ new.last = workers[w].last
      /\ new.silent = workers[w].silent /\ new.known = workers[w].known
      /\ new.metrics = workers[w].metrics /\ new.out = workers[w].out
  BY <1>1, <1>4, <1>5, ReceiptChanges
<1>7. /\ workers' \in [Workers -> Worker] /\ workers'[w] = new
      /\ \A v \in Workers \ {w} : workers'[v] = workers[v]
  BY <1>3, <1>4, <1>6, MovesTo DEF IInv
<1>8. workers[w].out \in Outputs /\ workers[w].phase \in Phases
  BY <1>1, RunHas DEF Knows, Prepared, Creating
<1>9. Key(w) \in Objects /\ Key(w)[2] = workers[w].out /\ Chosen(workers[w].out)
  BY <1>1, <1>8 DEF Key, Objects, Knows, Prepared, Creating, Ended
<1>10. spent <= spent' /\ faults' \in 0..MaxFaults
  BY <1>1, <1>2, LaptopAssumption DEF IInv, LaptopTypeOK, Fault, NoFault
<1>11. Lasts
  BY <1>1, <1>2, <1>10 DEF Lasts, Chosen
<1>12. OwnOutput'
  BY <1>1, <1>2, <1>9 DEF IInv, OwnOutput, Chosen
<1>13. Records'
  <2>1. store' \subseteq Objects
    BY <1>2, <1>9 DEF IInv, LaptopTypeOK
  <2> QED
    BY <1>1, <1>7, <1>10, <1>11, <1>12, <2>1, LedgerRecords DEF IInv, LaptopTypeOK, JobSound
<1>14. Effects(w)
  BY <1>1, <1>7, <1>11, <1>13 DEF Effects, Untouched
<1>15. Informed(w)'
  BY <1>1, <1>6, <1>7 DEF Knows, Informed, Current, Ended, Submitting
<1>16. Prepared(w)'
  BY <1>1, <1>6, <1>7 DEF Knows, Prepared, Chosen, Resuming, Marking, Computing, Creating,
     Submitting, Ended
<1>17. Secured(w)'
  <2>1. Durable(<<"output", workers[w].out>>) => Durable(<<"output", workers[w].out>>)'
    BY <1>6, <1>7, <1>8, <1>11, KeyIs, DurableLasts
  <2>2. workers[w].phase = "manifest" => Durable(<<"output", workers[w].out>>)
    BY <1>1 DEF Knows, Secured, Creating
  <2> QED
    BY <1>1, <1>5, <1>6, <1>7, <2>1, <2>2 DEF Secured, Creating, Submitting, Durable
<1> QED
  BY <1>14, <1>15, <1>16, <1>17 DEF Keeps, Knows

LEMMA StepPersist ==
  ASSUME IInv, NEW w \in Workers, Persist(w) PROVE Keeps(w)
<1>1. /\ workers[w].pc = "persist" /\ Knows(w) /\ workers[w] \in Worker
      /\ UNCHANGED <<job, checkpoint, result, lineage, cleanup, doomed, store, spent,
                     attemptCpu, faults>>
  BY RunHas DEF Persist, At, control, budget
<1>2. workers[w].out \in Outputs /\ workers[w].phase \in Phases
  BY <1>1, RunHas DEF Knows, Prepared, Creating
<1>3. /\ Key(w) \in Objects /\ Key(w)[2] = workers[w].out /\ Chosen(workers[w].out)
      /\ Key(w) \in store \cup doomed
      /\ workers[w].receipt \in Dispositions
  BY <1>1, <1>2, RunHas DEF Key, Objects, Knows, Prepared, Secured, Creating, Ended
<1>4. CASE UNCHANGED receipts /\ Goes(w, "fail")
  <2>1. Reads
    BY <1>1, <1>4 DEF Reads, IInv, LaptopTypeOK
  <2> QED
    BY <1>1, <1>4, <2>1, ReadsGoes DEF Keeps, Points
<1>5. CASE /\ receipts' = [receipts EXCEPT ![Key(w)] = workers[w].receipt]
           /\ Goes(w, AfterReceipt(w))
  <2>1. PICK pc : pc = AfterReceipt(w)
    OBVIOUS
  <2>2. /\ pc \in {"mark_output", "lineage"} /\ pc \in Points
        /\ pc = "mark_output" => workers[w].phase = "output"
        /\ pc = "lineage" => workers[w].phase = "manifest"
    BY <1>2, <2>1 DEF AfterReceipt, Phases, Points
  <2>3. /\ workers' \in [Workers -> Worker] /\ workers'[w].pc = pc
        /\ \A v \in Workers \ {w} : workers'[v] = workers[v]
        /\ Remembers(w)
    BY <1>5, <2>1, <2>2, GoesTo DEF IInv
  <2>4. /\ receipts' \in [Objects -> Dispositions \cup {NoReceipt}]
        /\ receipts'[Key(w)] # NoReceipt
        /\ \A k \in Objects \ {Key(w)} : receipts'[k] = receipts[k]
    BY <1>3, <1>5, LaptopAssumption DEF IInv, LaptopTypeOK, Dispositions
  <2>5. spent <= spent'
    BY <1>1, LaptopAssumption DEF IInv, LaptopTypeOK
  <2>6. Lasts
    BY <1>1, <2>4, <2>5 DEF Lasts, Chosen
  <2>7. OwnOutput'
    BY <1>1, <1>3, <2>4 DEF IInv, OwnOutput, Chosen
  <2>8. Records'
    BY <1>1, <2>3, <2>4, <2>6, <2>7, LedgerRecords DEF IInv, LaptopTypeOK, JobSound
  <2>9. Effects(w)
    BY <1>1, <2>3, <2>6, <2>8 DEF Effects, Untouched
  <2>10. Informed(w)'
    BY <1>1, <2>2, <2>3 DEF Knows, Informed, Current, Remembers, Ended, Submitting
  <2>11. Prepared(w)'
    BY <1>1, <2>2, <2>3 DEF Knows, Prepared, Chosen, Remembers, Resuming, Marking, Computing,
       Creating, Submitting, Ended
  <2>12. Durable(Key(w))'
    BY <1>1, <1>3, <2>3, <2>4 DEF Durable, Key, Remembers
  <2>13. Durable(<<"output", workers[w].out>>) => Durable(<<"output", workers[w].out>>)'
    BY <1>2, <2>3, <2>6, KeyIs, DurableLasts DEF Remembers
  <2>14. Secured(w)'
    BY <1>1, <2>2, <2>3, <2>12, <2>13 DEF Knows, Secured, Key, Remembers, Creating, Submitting
  <2> QED
    BY <2>9, <2>10, <2>11, <2>14 DEF Keeps, Knows
<1> QED
  BY <1>4, <1>5 DEF Persist

LEMMA StepPersistLineage ==
  ASSUME IInv, NEW w \in Workers, PersistLineage(w) PROVE Keeps(w)
<1>1. /\ workers[w].pc = "lineage" /\ Knows(w) /\ workers[w] \in Worker
      /\ UNCHANGED <<job, checkpoint, result, receipts, cleanup, doomed, store, spent,
                     attemptCpu, faults>>
      /\ lineage' = lineage \cup {workers[w].out}
  BY RunHas DEF PersistLineage, At, control, budget
<1>2. workers[w].out \in Outputs /\ Chosen(workers[w].out)
  BY <1>1, RunHas DEF Knows, Prepared, Creating, Ended
<1>3. /\ workers' \in [Workers -> Worker] /\ workers'[w].pc = "mark_manifest"
      /\ \A v \in Workers \ {w} : workers'[v] = workers[v]
      /\ Remembers(w)
  BY GoesTo DEF IInv, PersistLineage, Points
<1>4. spent <= spent'
  BY <1>1, LaptopAssumption DEF IInv, LaptopTypeOK
<1>5. Lasts
  BY <1>1, <1>4 DEF Lasts, Chosen
<1>6. OwnOutput'
  BY <1>1, <1>2 DEF IInv, OwnOutput, Chosen
<1>7. Records'
  BY <1>1, <1>2, <1>3, <1>5, <1>6, LedgerRecords DEF IInv, LaptopTypeOK, JobSound
<1>8. Effects(w)
  BY <1>1, <1>3, <1>5, <1>7 DEF Effects, Untouched
<1>9. Informed(w)'
  BY <1>1, <1>3 DEF Knows, Informed, Current, Remembers, Ended, Submitting
<1>10. Prepared(w)'
  BY <1>1, <1>3 DEF Knows, Prepared, Chosen, Remembers, Resuming, Marking, Computing,
     Creating, Submitting, Ended
<1>11. Secured(w)'
  BY <1>1, <1>3 DEF Knows, Secured, Durable, Finished, Remembers, Creating, Submitting
<1> QED
  BY <1>8, <1>9, <1>10, <1>11 DEF Keeps, Knows

\* Steps of no run: every run is untouched.
Outside == Records' /\ Lasts /\ \A v \in Workers : Untouched(v)

LEMMA StepStartCleanup == ASSUME IInv, StartCleanup PROVE Outside
<1>1. /\ UNCHANGED <<job, checkpoint, result, receipts, lineage, workers, spent, attemptCpu,
                     faults>>
      /\ cleanup = "none" /\ cleanup' = "deleting"
      /\ doomed' = {k \in Objects : receipts[k] # NoReceipt} /\ store' = store \ doomed'
  BY DEF StartCleanup, control, budget
<1>2. doomed = {} /\ doomed' \subseteq Objects
  BY <1>1 DEF IInv, JobSound
<1>3. spent <= spent'
  BY <1>1, LaptopAssumption DEF IInv, LaptopTypeOK
<1>4. Lasts
  BY <1>1, <1>2, <1>3 DEF Lasts, Chosen
<1>5. OwnOutput'
  BY <1>1 DEF IInv, OwnOutput, Chosen
<1>6. Records'
  BY <1>1, <1>2, <1>4, <1>5, LedgerRecords DEF IInv, LaptopTypeOK
<1> QED
  BY <1>1, <1>4, <1>6 DEF Outside, Untouched

LEMMA StepCommitTombstones == ASSUME IInv, CommitTombstones PROVE Outside
<1>1. /\ UNCHANGED <<job, checkpoint, result, receipts, lineage, doomed, store, workers, spent,
                     attemptCpu, faults>>
      /\ cleanup' = "committed"
  BY DEF CommitTombstones, control, budget
<1>2. spent <= spent'
  BY <1>1, LaptopAssumption DEF IInv, LaptopTypeOK
<1>3. Lasts
  BY <1>1, <1>2 DEF Lasts, Chosen
<1>4. OwnOutput'
  BY <1>1 DEF IInv, OwnOutput, Chosen
<1>5. Records'
  BY <1>1, <1>3, <1>4, LedgerRecords DEF IInv, LaptopTypeOK
<1> QED
  BY <1>1, <1>3, <1>5 DEF Outside, Untouched

-----------------------------------------------------------------------------
(* The lease, the end of a claim and what an operator settles. *)

LEMMA StepExpire == ASSUME IInv, Expire PROVE Outside
<1>1. /\ UNCHANGED <<checkpoint, result, receipts, lineage, cleanup, doomed, store, workers,
                     spent, attemptCpu>>
      /\ job' = [job EXCEPT !.expired = TRUE]
      /\ Fault \/ NoFault
  BY DEF Expire, ledger, budget
<1>2. job' \in Job /\ job'.holder = job.holder /\ job'.state = job.state
  BY <1>1 DEF IInv, LaptopTypeOK, Job
<1>3. faults' \in 0..MaxFaults /\ spent <= spent'
  BY <1>1, LaptopAssumption DEF IInv, LaptopTypeOK, Fault, NoFault
<1>4. LaptopTypeOK'
  BY <1>1, <1>2, <1>3 DEF IInv, LaptopTypeOK
<1>5. JobSound' /\ OwnOutput' /\ AttemptIsAccounted' /\ DurableAsSaid'
  BY <1>1 DEF IInv, JobSound, OwnOutput, AttemptIsAccounted, DurableAsSaid, Chosen
<1>6. Lasts
  BY <1>1, <1>3 DEF Lasts, Chosen
<1> QED
  BY <1>1, <1>2, <1>4, <1>5, <1>6 DEF Outside, Records, Untouched

LEMMA StepResume == ASSUME IInv, Resume PROVE Outside
<1>1. /\ UNCHANGED <<checkpoint, result, receipts, lineage, cleanup, doomed, store, workers,
                     spent, attemptCpu, faults>>
      /\ job.state = "blocked" /\ job' = [job EXCEPT !.state = "queued"]
  BY DEF Resume, ledger, budget
<1>2. job' \in Job /\ job'.holder = job.holder /\ job'.state = "queued"
  BY <1>1 DEF IInv, LaptopTypeOK, Job
<1>3. spent <= spent'
  BY <1>1, LaptopAssumption DEF IInv, LaptopTypeOK
<1>4. LaptopTypeOK'
  BY <1>1, <1>2 DEF IInv, LaptopTypeOK
<1>5. JobSound' /\ OwnOutput' /\ AttemptIsAccounted' /\ DurableAsSaid'
  BY <1>1 DEF IInv, JobSound, OwnOutput, AttemptIsAccounted, DurableAsSaid, Chosen
<1>6. Lasts
  BY <1>1, <1>3 DEF Lasts, Chosen
<1> QED
  BY <1>1, <1>2, <1>4, <1>5, <1>6 DEF Outside, Records, Untouched

\* The checkpoint is closed with all the CPU on record.
LEMMA ClosedRecords ==
  ASSUME IInv, NEW cpu \in 0..MaxRuns, cpu <= spent, cpu >= attemptCpu,
         checkpoint' = ClosedAs(checkpoint, cpu),
         UNCHANGED <<result, receipts, lineage, cleanup, doomed, store, spent, attemptCpu>>,
         job' \in Job, (job'.state = "leased") = (job'.holder # NoWorker),
         workers' \in [Workers -> Worker], faults' \in 0..MaxFaults
  PROVE  Records' /\ Lasts
<1>1. checkpoint \in Checkpoint
  BY DEF IInv, LaptopTypeOK
<1>2. PICK d : d = checkpoint'
  OBVIOUS
<1>3. /\ d \in Checkpoint /\ d.out = checkpoint.out /\ d.cpu = cpu /\ ~d.open
      /\ d.stage \in PostTransform => d.stage = checkpoint.stage
  <2>1. PICK c \in Checkpoint : c = checkpoint
    BY <1>1
  <2>2. d = ClosedAs(c, cpu)
    BY <1>2, <2>1
  <2> QED
    BY <2>1, <2>2, ClosingKeeps
<1>4. LaptopTypeOK'
  BY <1>2, <1>3 DEF IInv, LaptopTypeOK
<1>5. JobSound' /\ AttemptIsAccounted'
  BY <1>2, <1>3 DEF IInv, JobSound, AttemptIsAccounted
<1>6. OwnOutput'
  BY <1>2, <1>3 DEF IInv, OwnOutput, Chosen
<1>7. DurableAsSaid'
  BY <1>2, <1>3 DEF IInv, DurableAsSaid, PostTransform, Receipted
<1>8. spent <= spent'
  BY LaptopAssumption DEF IInv, LaptopTypeOK
<1>9. Lasts
  BY <1>2, <1>3, <1>8 DEF Lasts, Chosen
<1> QED
  BY <1>4, <1>5, <1>6, <1>7, <1>9 DEF Records

LEMMA StepReconcile == ASSUME IInv, Reconcile PROVE Outside
<1>1. /\ UNCHANGED <<job, result, receipts, lineage, cleanup, doomed, store, workers, spent,
                     attemptCpu, faults>>
      /\ job.state = "blocked"
  BY DEF Reconcile, ledger, budget
<1>2. /\ spent \in 0..MaxRuns /\ attemptCpu <= spent /\ spent <= spent
      /\ job.holder = NoWorker
  BY <1>1, LaptopAssumption DEF IInv, LaptopTypeOK, JobSound
<1>3. PICK cpu \in 0..MaxRuns : cpu = spent
  BY <1>2
<1>4. cpu >= attemptCpu /\ cpu <= spent
  BY <1>2, <1>3, LaptopAssumption DEF IInv, LaptopTypeOK
<1>5. checkpoint' = ClosedAs(checkpoint, cpu)
  BY <1>3 DEF Reconcile, ClosedAs
<1>6. Records' /\ Lasts
  BY <1>1, <1>4, <1>5, ClosedRecords DEF IInv, LaptopTypeOK
<1>7. \A v \in Workers : Untouched(v)
  BY <1>1, <1>2, LaptopAssumption DEF Untouched
<1> QED
  BY <1>6, <1>7 DEF Outside

LEMMA LeavesIs ==
  ASSUME LaptopTypeOK, NEW w \in Workers, NEW state \in {"blocked", "completed"},
         Leaves(w, state) \/ UNCHANGED job
  PROVE  /\ job' \in Job /\ (job'.state = "leased") = (job'.holder # NoWorker)
         /\ job'.holder \in {job.holder, NoWorker}
         /\ job'.holder # NoWorker => job' = job
<1>1. CASE job' = job
  BY <1>1 DEF LaptopTypeOK
<1>2. CASE job' = [state |-> state, holder |-> NoWorker, expired |-> FALSE]
  BY <1>2 DEF Job
<1> QED
  BY <1>1, <1>2 DEF Leaves

\* A result is stored by a run that holds the job.
LEMMA StoredRecords ==
  ASSUME IInv, NEW w \in Workers, workers[w].pc = "complete",
         result' \in {result, workers[w].out},
         UNCHANGED <<checkpoint, receipts, lineage, cleanup, doomed, store, spent, attemptCpu>>,
         job' \in Job, (job'.state = "leased") = (job'.holder # NoWorker),
         workers' \in [Workers -> Worker], faults' \in 0..MaxFaults
  PROVE  Records' /\ Lasts
<1>1. /\ workers[w].out \in Outputs /\ Chosen(workers[w].out) /\ Finished(workers[w].out)
  BY RunHas DEF Knows, Prepared, Secured, Submitting, Ended
<1>2. LaptopTypeOK'
  BY <1>1 DEF IInv, LaptopTypeOK
<1>3. \A o \in Outputs : Chosen(o) => Chosen(o)'
  BY <1>1, LaptopAssumption DEF IInv, JobSound, Chosen
<1>4. JobSound' /\ AttemptIsAccounted'
  BY <1>1 DEF IInv, JobSound, AttemptIsAccounted, Chosen
<1>5. OwnOutput'
  <2>1. \A k \in Objects : k[2] \in Outputs
    BY DEF Objects
  <2>2. lineage \subseteq Outputs
    BY DEF IInv, LaptopTypeOK
  <2> QED
    BY <1>3, <2>1, <2>2 DEF IInv, OwnOutput
<1>6. DurableAsSaid'
  BY <1>1 DEF IInv, DurableAsSaid, Durable, Finished
<1>7. spent <= spent'
  BY LaptopAssumption DEF IInv, LaptopTypeOK
<1>8. Lasts
  BY <1>3, <1>7 DEF Lasts
<1> QED
  BY <1>2, <1>4, <1>5, <1>6, <1>8 DEF Records

LEMMA StepComplete ==
  ASSUME IInv, NEW w \in Workers, Complete(w) PROVE Keeps(w)
<1>1. /\ workers[w].pc = "complete" /\ Knows(w)
      /\ UNCHANGED <<checkpoint, receipts, lineage, cleanup, doomed, store, spent, attemptCpu>>
  BY RunHas DEF Complete, At, ledger, budget
<1>2. CASE Current(w) /\ NoFault /\ result' = workers[w].out /\ Leaves(w, "completed")
           /\ Moves(w, Idle)
  <2>1. /\ workers' \in [Workers -> Worker] /\ workers'[w] = Idle
        /\ \A v \in Workers \ {w} : workers'[v] = workers[v]
    BY <1>2, IdleIs, MovesTo DEF IInv
  <2>2. /\ job' \in Job /\ (job'.state = "leased") = (job'.holder # NoWorker)
        /\ job'.holder = NoWorker
    BY <1>2, LeavesIs DEF IInv, Leaves
  <2>3. faults' \in 0..MaxFaults
    BY <1>2 DEF IInv, LaptopTypeOK, NoFault
  <2>4. Records' /\ Lasts
    BY <1>1, <1>2, <2>1, <2>2, <2>3, StoredRecords
  <2>5. Effects(w)
    BY <2>1, <2>2, <2>4, LaptopAssumption DEF Effects, Untouched
  <2> QED
    BY <2>1, <2>4, <2>5, IdleKnows DEF Keeps, Records
<1>3. CASE ~Current(w) /\ NoFault /\ Goes(w, "fail") /\ UNCHANGED <<job, result>>
  <2>1. Reads
    BY <1>1, <1>3 DEF Reads, IInv, LaptopTypeOK, NoFault
  <2> QED
    BY <1>1, <1>3, <2>1, ReadsGoes DEF Keeps, Points
<1>4. CASE /\ Current(w) /\ Fault /\ result' \in {result, workers[w].out}
           /\ UNCHANGED job /\ Goes(w, "fail")
  <2>1. /\ workers' \in [Workers -> Worker] /\ workers'[w].pc = "fail"
        /\ \A v \in Workers \ {w} : workers'[v] = workers[v]
        /\ Remembers(w)
    BY <1>4, GoesTo DEF IInv, Points
  <2>2. faults' \in 0..MaxFaults
    BY <1>4, LaptopAssumption DEF IInv, LaptopTypeOK, Fault
  <2>3. Records' /\ Lasts
    BY <1>1, <1>4, <2>1, <2>2, StoredRecords DEF IInv, LaptopTypeOK
  <2>4. Effects(w)
    BY <1>4, <2>1, <2>3 DEF Effects, Untouched, Current
  <2>5. Informed(w)'
    BY <1>1, <1>4, <2>1 DEF Knows, Informed, Remembers, Current, Ended
  <2>6. workers'[w].metrics <= spent' /\ workers'[w].last.cpu <= spent'
    BY <1>1, <2>1 DEF Knows, Prepared, Remembers
  <2> QED
    BY <2>1, <2>4, <2>5, <2>6, FailKnows DEF Keeps
<1> QED
  BY <1>2, <1>3, <1>4 DEF Complete

LEMMA StepEndClaim ==
  ASSUME IInv, NEW w \in Workers, EndClaim(w) PROVE Keeps(w)
<1>1. /\ workers[w].pc = "fail" /\ Knows(w)
      /\ UNCHANGED <<result, receipts, lineage, cleanup, doomed, store, spent, attemptCpu>>
  BY RunHas DEF EndClaim, At, ledger, budget
<1>2. /\ workers' \in [Workers -> Worker] /\ workers'[w] = Idle
      /\ \A v \in Workers \ {w} : workers'[v] = workers[v]
  BY IdleIs, MovesTo DEF IInv, EndClaim
<1>3. Leaves(w, "blocked") \/ UNCHANGED job
  BY DEF EndClaim
<1>4. /\ job' \in Job /\ (job'.state = "leased") = (job'.holder # NoWorker)
      /\ job'.holder \in {job.holder, NoWorker}
  BY <1>3, LeavesIs DEF IInv
<1>5. faults' \in 0..MaxFaults
  BY LaptopAssumption DEF EndClaim, IInv, LaptopTypeOK, Fault, NoFault
<1>6. CASE UNCHANGED checkpoint
  <2>1. spent <= spent'
    BY <1>1, LaptopAssumption DEF IInv, LaptopTypeOK
  <2>2. Lasts
    BY <1>1, <1>6, <2>1 DEF Lasts, Chosen
  <2>3. LaptopTypeOK'
    BY <1>1, <1>2, <1>4, <1>5, <1>6 DEF IInv, LaptopTypeOK
  <2>4. JobSound' /\ OwnOutput' /\ AttemptIsAccounted' /\ DurableAsSaid'
    BY <1>1, <1>6 DEF IInv, JobSound, OwnOutput, AttemptIsAccounted, DurableAsSaid, Chosen
  <2>5. Effects(w)
    BY <1>1, <1>2, <1>4, <1>6, <2>2, <2>3, <2>4, LaptopAssumption DEF Effects, Records, Untouched
  <2> QED
    BY <1>2, <2>3, <2>5, IdleKnows DEF Keeps
<1>7. CASE ~workers[w].silent /\ Current(w) /\ checkpoint' = Closed(w)
  <2>1. checkpoint = workers[w].last
    BY <1>1, <1>7 DEF Knows, Informed
  <2>2. /\ workers[w].last.cpu \in 0..MaxRuns /\ workers[w].metrics \in 0..MaxRuns
        /\ workers[w].last.cpu <= spent /\ workers[w].metrics <= spent
        /\ attemptCpu \in 0..MaxRuns
    BY <1>1, RunHas, CheckpointHas DEF Knows, Prepared, IInv, LaptopTypeOK
  <2>3. PICK cpu : cpu = ClosedCpu(w)
    OBVIOUS
  <2>4. cpu \in 0..MaxRuns /\ cpu <= spent
    BY <2>2, <2>3 DEF ClosedCpu, Larger, Cpu
  <2>5. cpu >= attemptCpu
    BY <1>1, <1>7, <2>2, <2>3, LaptopAssumption DEF ClosedCpu, Larger, Cpu, Knows, Informed
  <2>6. checkpoint' = ClosedAs(checkpoint, cpu)
    BY <1>7, <2>1, <2>3 DEF Closed, ClosedAs
  <2>7. Records' /\ Lasts
    BY <1>1, <1>2, <1>4, <1>5, <2>4, <2>5, <2>6, ClosedRecords
  <2>8. \A v \in Workers \ {w} : Untouched(v)
    BY <1>2, <1>4, <1>7, LaptopAssumption DEF Untouched, Current
  <2> QED
    BY <1>2, <2>7, <2>8, IdleKnows DEF Keeps, Effects, Records
<1> QED
  BY <1>6, <1>7 DEF EndClaim

-----------------------------------------------------------------------------
(* The transformation. *)

LEMMA CapturedIs ==
  ASSUME NEW w \in Workers, workers[w] \in Worker, NEW used \in {0, 1},
         workers[w].metrics + used <= MaxRuns
  PROVE  /\ Captured(w, used) \in Worker /\ Captured(w, used).known
         /\ Captured(w, used).metrics = workers[w].metrics + used
         /\ Captured(w, used).pc = workers[w].pc
         /\ Captured(w, used).phase = workers[w].phase
         /\ Captured(w, used).stage = workers[w].stage
         /\ Captured(w, used).last = workers[w].last
         /\ Captured(w, used).silent = workers[w].silent
         /\ Captured(w, used).out = workers[w].out
         /\ Captured(w, used).receipt = workers[w].receipt
<1>1. workers[w].metrics + used \in 0..MaxRuns
  BY LaptopAssumption DEF Worker
<1>2. PICK total \in 0..MaxRuns : total = workers[w].metrics + used
  BY <1>1
<1>3. PICK one : one = [workers[w] EXCEPT !.known = TRUE]
  OBVIOUS
<1>4. /\ one \in Worker /\ one.known /\ one.metrics = workers[w].metrics
      /\ one.pc = workers[w].pc /\ one.phase = workers[w].phase
      /\ one.stage = workers[w].stage /\ one.last = workers[w].last
      /\ one.silent = workers[w].silent /\ one.out = workers[w].out
      /\ one.receipt = workers[w].receipt
  BY <1>3 DEF Worker
<1>5. PICK two : two = [one EXCEPT !.metrics = total]
  OBVIOUS
<1>6. /\ two \in Worker /\ two.known /\ two.metrics = total
      /\ two.pc = workers[w].pc /\ two.phase = workers[w].phase
      /\ two.stage = workers[w].stage /\ two.last = workers[w].last
      /\ two.silent = workers[w].silent /\ two.out = workers[w].out
      /\ two.receipt = workers[w].receipt
  BY <1>4, <1>5 DEF Worker
<1>7. Captured(w, used) = two
  BY <1>2, <1>3, <1>4, <1>5 DEF Captured
<1> QED
  BY <1>2, <1>6, <1>7

WithOut(me, pc, x) == [me EXCEPT !.pc = pc, !.out = x]
LEMMA OutChanges ==
  ASSUME NEW me \in Worker, NEW pc \in Points, NEW x \in Outputs
  PROVE  LET new == WithOut(me, pc, x) IN
         /\ new \in Worker /\ new.pc = pc /\ new.out = x
         /\ new.phase = me.phase /\ new.stage = me.stage /\ new.last = me.last
         /\ new.silent = me.silent /\ new.known = me.known /\ new.metrics = me.metrics
         /\ new.receipt = me.receipt
BY DEF Worker, WithOut

\* A unit of CPU is paid for by a run that holds the job.
LEMMA SpentRecords ==
  ASSUME IInv, NEW w \in Workers, workers[w].pc = "transform", Holds(w), spent < MaxRuns,
         spent' = spent + 1, attemptCpu' = attemptCpu + 1,
         UNCHANGED <<job, checkpoint, result, receipts, lineage, cleanup, doomed, store>>,
         workers' \in [Workers -> Worker], faults' \in 0..MaxFaults
  PROVE  Records' /\ Lasts
<1>1. /\ spent \in 0..MaxRuns /\ attemptCpu \in 0..MaxRuns /\ attemptCpu <= spent
      /\ checkpoint.cpu <= spent /\ checkpoint.cpu \in 0..MaxRuns
  BY CheckpointHas DEF IInv, LaptopTypeOK, JobSound
<1>2. /\ spent' \in 0..MaxRuns /\ attemptCpu' \in 0..MaxRuns /\ attemptCpu' <= spent'
      /\ checkpoint.cpu <= spent' /\ spent <= spent'
  BY <1>1, LaptopAssumption
<1>3. checkpoint.open
  BY RunHas DEF Knows, Informed, Holds
<1>4. LaptopTypeOK'
  BY <1>2 DEF IInv, LaptopTypeOK
<1>5. JobSound' /\ OwnOutput' /\ AttemptIsAccounted' /\ DurableAsSaid'
  BY <1>2, <1>3 DEF IInv, JobSound, OwnOutput, AttemptIsAccounted, DurableAsSaid, Chosen
<1>6. Lasts
  BY <1>2 DEF Lasts, Chosen
<1> QED
  BY <1>4, <1>5, <1>6 DEF Records

LEMMA StepTransform ==
  ASSUME IInv, NEW w \in Workers, Transform(w) PROVE Keeps(w)
<1>1. /\ workers[w].pc = "transform" /\ Knows(w) /\ workers[w] \in Worker
      /\ UNCHANGED <<job, checkpoint, result, receipts, lineage, cleanup, doomed, store>>
      /\ workers[w].metrics \in 0..MaxRuns /\ workers[w].last.cpu \in 0..MaxRuns
      /\ workers[w].metrics <= spent /\ workers[w].last.cpu <= spent
      /\ spent \in 0..MaxRuns /\ attemptCpu \in 0..MaxRuns
  BY RunHas, CheckpointHas
     DEF Transform, At, control, ledger, Knows, Prepared, IInv, LaptopTypeOK
<1>2. "fail" \in Points
  BY DEF Points
<1>3. CASE Goes(w, "fail") /\ UNCHANGED <<budget, faults>>
  <2>1. Reads
    BY <1>1, <1>3 DEF Reads, budget, IInv, LaptopTypeOK
  <2> QED
    BY <1>1, <1>3, <2>1, ReadsGoes DEF Keeps, Points
<1>4. CASE Moves(w, [Captured(w, 0) EXCEPT !.pc = "fail"]) /\ UNCHANGED <<budget, faults>>
  <2>1. PICK c : c = Captured(w, 0)
    OBVIOUS
  <2>2. /\ c \in Worker /\ c.known /\ c.metrics = workers[w].metrics
        /\ c.last = workers[w].last /\ c.silent = workers[w].silent
    BY <1>1, <2>1, CapturedIs
  <2>3. PICK new : new = [c EXCEPT !.pc = "fail"]
    OBVIOUS
  <2>4. /\ new \in Worker /\ new.known /\ new.metrics = workers[w].metrics
        /\ new.last = workers[w].last /\ new.silent = workers[w].silent /\ new.pc = "fail"
    BY <1>2, <2>2, <2>3, PcOnly
  <2>5. Moves(w, new)
    BY <1>4, <2>1, <2>3
  <2>6. /\ workers' \in [Workers -> Worker] /\ workers'[w] = new
        /\ \A v \in Workers \ {w} : workers'[v] = workers[v]
    BY <2>4, <2>5, MovesTo DEF IInv
  <2>7. Reads
    BY <1>1, <1>4 DEF Reads, budget, IInv, LaptopTypeOK
  <2>8. Effects(w)
    BY <2>6, <2>7, ReadsEffects
  <2>9. Informed(w)'
    BY <1>1, <2>4, <2>6, <2>7 DEF Reads, Knows, Informed, Current, Ended
  <2> QED
    BY <1>1, <2>4, <2>6, <2>7, <2>8, <2>9, FailKnows DEF Keeps, Reads
<1>5. CASE /\ workers[w].metrics < MaxCpu /\ Holds(w) /\ spent < MaxRuns
           /\ spent' = spent + 1 /\ attemptCpu' = attemptCpu + 1
           /\ \/ Moves(w, [Captured(w, 1) EXCEPT !.pc = "fail"]) /\ Fault
              \/ \E o \in Outputs :
                   /\ Moves(w, IF Reproduces(w, o)
                                 THEN [Captured(w, 1) EXCEPT !.pc = "mark_verified", !.out = o]
                                 ELSE [Captured(w, 1) EXCEPT !.pc = "fail"])
                   /\ NoFault
  <2>1. /\ Holds(w) /\ spent < MaxRuns /\ spent' = spent + 1 /\ attemptCpu' = attemptCpu + 1
        /\ Fault \/ NoFault
    BY <1>5
  <2>2. PICK c : c = Captured(w, 1)
    OBVIOUS
  <2>3. /\ c \in Worker /\ c.known /\ c.metrics = workers[w].metrics + 1
        /\ c.phase = workers[w].phase /\ c.stage = workers[w].stage
        /\ c.last = workers[w].last /\ c.silent = workers[w].silent
    <3>1. workers[w].metrics + 1 <= MaxRuns
      BY <1>1, <2>1, LaptopAssumption
    <3> QED
      BY <1>1, <2>2, <3>1, CapturedIs
  <2>4. faults' \in 0..MaxFaults
    BY <2>1, LaptopAssumption DEF IInv, LaptopTypeOK, Fault, NoFault
  <2>5. /\ checkpoint = workers[w].last /\ checkpoint.open /\ result = NoOutput
        /\ attemptCpu = 0 \/ workers[w].metrics >= attemptCpu
        /\ ~workers[w].silent /\ Current(w)
    BY <1>1, <2>1 DEF Knows, Informed, Prepared, Holds, Ended, Submitting
  <2>6. /\ workers[w].metrics + 1 <= spent' /\ workers[w].last.cpu <= spent'
        /\ workers[w].metrics + 1 >= attemptCpu'
    BY <1>1, <2>1, <2>5, LaptopAssumption
  <2>7. ASSUME NEW new \in Worker, Moves(w, new), new.known, new.metrics = c.metrics,
               new.last = c.last, new.silent = c.silent, new.pc # "idle"
        PROVE  /\ Effects(w) /\ Informed(w)' /\ workers'[w] = new
    <3>1. /\ workers' \in [Workers -> Worker] /\ workers'[w] = new
          /\ \A v \in Workers \ {w} : workers'[v] = workers[v]
      BY <2>7, MovesTo DEF IInv
    <3>2. Records' /\ Lasts
      BY <1>1, <2>1, <2>4, <3>1, SpentRecords
    <3>3. Effects(w)
      BY <1>1, <2>5, <3>1, <3>2, LaptopAssumption DEF Effects, Untouched, Current
    <3>4. Informed(w)'
      BY <1>1, <2>3, <2>5, <2>6, <2>7, <3>1 DEF Informed
    <3> QED
      BY <3>1, <3>3, <3>4
  <2>8. ASSUME Moves(w, [c EXCEPT !.pc = "fail"]) PROVE Keeps(w)
    <3>1. PICK new : new = [c EXCEPT !.pc = "fail"]
      OBVIOUS
    <3>2. /\ new \in Worker /\ new.known /\ new.metrics = c.metrics
          /\ new.last = c.last /\ new.silent = c.silent /\ new.pc = "fail"
      BY <1>2, <2>3, <3>1, PcOnly
    <3>3. Effects(w) /\ Informed(w)' /\ workers'[w] = new
      BY <2>7, <2>8, <3>1, <3>2
    <3> QED
      BY <2>3, <2>6, <3>2, <3>3, FailKnows DEF Keeps
  <2>9. ASSUME NEW o \in Outputs, Reproduces(w, o),
               Moves(w, [c EXCEPT !.pc = "mark_verified", !.out = o])
        PROVE  Keeps(w)
    <3>1. PICK new : new = WithOut(c, "mark_verified", o)
      OBVIOUS
    <3>2. "mark_verified" \in Points
      BY DEF Points
    <3>3. /\ new \in Worker /\ new.pc = "mark_verified" /\ new.out = o
          /\ new.phase = c.phase /\ new.stage = c.stage /\ new.last = c.last
          /\ new.silent = c.silent /\ new.known = c.known /\ new.metrics = c.metrics
      BY <2>3, <3>1, <3>2, OutChanges
    <3>4. Moves(w, new)
      BY <2>9, <3>1 DEF WithOut
    <3>5. Effects(w) /\ Informed(w)' /\ workers'[w] = new
      BY <2>3, <2>7, <3>3, <3>4
    <3>6. /\ workers[w].last.out \in {NoOutput, o} /\ o # NoOutput
          /\ workers[w].phase = "output"
      BY <1>1, <2>9, LaptopAssumption DEF Knows, Prepared, Reproduces, Computing
    <3>7. Prepared(w)'
      BY <2>3, <2>5, <2>6, <3>3, <3>5, <3>6 DEF Prepared, Resuming, Marking, Computing, Creating,
         Submitting, Ended
    <3>8. Secured(w)'
      BY <3>3, <3>5 DEF Secured, Creating, Submitting
    <3> QED
      BY <3>5, <3>7, <3>8 DEF Keeps, Knows
  <2> QED
    BY <1>5, <2>2, <2>8, <2>9
<1> QED
  BY <1>3, <1>4, <1>5 DEF Transform

-----------------------------------------------------------------------------
(* Claiming. *)

LEMMA ResumedIs ==
  ASSUME IInv
  PROVE  /\ Resumed \in Checkpoint /\ Resumed.cpu <= spent
         /\ result = NoOutput => Resumed = checkpoint
         /\ result # NoOutput => Resumed = NoCheckpoint
BY NoCheckpointIs, LaptopAssumption DEF Resumed, IInv, LaptopTypeOK, JobSound

LEMMA AttemptIs ==
  ASSUME Resumed \in Checkpoint
  PROVE  /\ Attempt \in Checkpoint /\ Attempt.open /\ Attempt.stage = Started(Resumed.stage)
         /\ Attempt.out = Resumed.out /\ Attempt.cpu = Resumed.cpu
<1>1. PICK r \in Checkpoint : r = Resumed
  OBVIOUS
<1>2. /\ r.stage \in Stages /\ r.open \in BOOLEAN /\ r.out \in Outputs \cup {NoOutput}
      /\ r.cpu \in 0..MaxRuns
      /\ (r.out # NoOutput <=> r.stage \in PostTransform)
      /\ r.stage \in PreTransform \cup {"none"} => r.cpu = 0
  BY CheckpointHas
<1>3. CASE r.stage = "none"
  <2>1. PICK a : a = [NoCheckpoint EXCEPT !.stage = "claimed", !.open = TRUE]
    OBVIOUS
  <2>2. a = [stage |-> "claimed", open |-> TRUE, out |-> NoOutput, cpu |-> 0]
    BY <2>1 DEF NoCheckpoint
  <2>3. /\ a \in [stage : Stages, open : BOOLEAN, out : Outputs \cup {NoOutput}, cpu : 0..MaxRuns]
        /\ a.stage = "claimed" /\ a.open /\ a.out = NoOutput /\ a.cpu = 0
    BY <2>2, LaptopAssumption DEF Stages, PreTransform
  <2>4. "claimed" \in PreTransform /\ "claimed" \notin PostTransform
        /\ "none" \notin PostTransform
    BY DEF PreTransform, PostTransform, Receipted
  <2>5. a \in Checkpoint
    BY <2>3, <2>4, CheckpointIs
  <2>6. Attempt = a
    BY <1>1, <1>3, <2>1 DEF Attempt
  <2> QED
    BY <1>1, <1>2, <1>3, <2>3, <2>4, <2>5, <2>6 DEF Started
<1>4. CASE r.stage # "none"
  <2>1. PICK a : a = [r EXCEPT !.open = TRUE]
    OBVIOUS
  <2>2. /\ a \in [stage : Stages, open : BOOLEAN, out : Outputs \cup {NoOutput}, cpu : 0..MaxRuns]
        /\ a.stage = r.stage /\ a.open /\ a.out = r.out /\ a.cpu = r.cpu
    BY <1>2, <2>1 DEF Checkpoint
  <2>3. a \in Checkpoint
    BY <1>2, <2>2, CheckpointIs
  <2>4. Attempt = a
    BY <1>1, <1>4, <2>1 DEF Attempt
  <2> QED
    BY <1>1, <1>4, <2>2, <2>3, <2>4 DEF Started
<1> QED
  BY <1>3, <1>4

ClaimRun(stage, last, metrics, out, silent, pc) ==
  [Idle EXCEPT !.stage = stage, !.last = last, !.metrics = metrics, !.out = out,
               !.silent = silent, !.pc = pc]
LEMMA ClaimRunIs ==
  ASSUME NEW stage \in Stages, NEW last \in Checkpoint, NEW metrics \in 0..MaxRuns,
         NEW out \in Outputs \cup {NoOutput}, NEW silent \in BOOLEAN, NEW pc \in Points
  PROVE  LET new == ClaimRun(stage, last, metrics, out, silent, pc) IN
         /\ new \in Worker /\ new.stage = stage /\ new.last = last /\ new.metrics = metrics
         /\ new.out = out /\ new.silent = silent /\ new.pc = pc /\ new.phase = "output"
<1>1. PICK a : a = [Idle EXCEPT !.stage = stage]
  OBVIOUS
<1>2. a \in Worker /\ a.stage = stage /\ a.phase = "output"
  BY <1>1, IdleIs DEF Worker
<1>3. PICK b : b = [a EXCEPT !.last = last]
  OBVIOUS
<1>4. b \in Worker /\ b.stage = stage /\ b.phase = "output" /\ b.last = last
  BY <1>2, <1>3 DEF Worker
<1>5. PICK c : c = [b EXCEPT !.metrics = metrics]
  OBVIOUS
<1>6. c \in Worker /\ c.stage = stage /\ c.phase = "output" /\ c.last = last
      /\ c.metrics = metrics
  BY <1>4, <1>5 DEF Worker
<1>7. PICK d : d = [c EXCEPT !.out = out]
  OBVIOUS
<1>8. d \in Worker /\ d.stage = stage /\ d.phase = "output" /\ d.last = last
      /\ d.metrics = metrics /\ d.out = out
  BY <1>6, <1>7 DEF Worker
<1>9. PICK e : e = [d EXCEPT !.silent = silent]
  OBVIOUS
<1>10. e \in Worker /\ e.stage = stage /\ e.phase = "output" /\ e.last = last
       /\ e.metrics = metrics /\ e.out = out /\ e.silent = silent
  BY <1>8, <1>9 DEF Worker
<1>11. PICK f : f = [e EXCEPT !.pc = pc]
  OBVIOUS
<1>12. f \in Worker /\ f.stage = stage /\ f.phase = "output" /\ f.last = last
       /\ f.metrics = metrics /\ f.out = out /\ f.silent = silent /\ f.pc = pc
  BY <1>10, <1>11 DEF Worker
<1>13. ClaimRun(stage, last, metrics, out, silent, pc) = f
  BY <1>1, <1>3, <1>5, <1>7, <1>9, <1>11 DEF ClaimRun
<1> QED
  BY <1>12, <1>13

LEMMA StepClaim ==
  ASSUME IInv, NEW w \in Workers, Claim(w) PROVE Keeps(w)
<1> DEFINE pc == IF result # NoOutput THEN "recheck"
                 ELSE IF Unreconciled THEN "fail" ELSE "input"
           out == IF result # NoOutput THEN result ELSE Resumed.out
<1>1. /\ Resumed \in Checkpoint /\ Resumed.cpu <= spent
      /\ result = NoOutput => Resumed = checkpoint
      /\ result # NoOutput => Resumed = NoCheckpoint
  BY ResumedIs
<1>2. /\ Resumed.stage \in Stages /\ Resumed.out \in Outputs \cup {NoOutput}
      /\ Resumed.open \in BOOLEAN /\ Resumed.cpu \in 0..MaxRuns
      /\ Resumed.stage \in PostTransform <=> Resumed.out # NoOutput
  BY <1>1, CheckpointHas
<1>3. /\ Attempt \in Checkpoint /\ Attempt.open /\ Attempt.stage = Started(Resumed.stage)
      /\ Attempt.out = Resumed.out /\ Attempt.cpu = Resumed.cpu
  BY <1>1, AttemptIs
<1>4. /\ job' = [state |-> "leased", holder |-> w, expired |-> FALSE]
      /\ checkpoint' = Attempt
      /\ attemptCpu' = IF Resumed.open THEN attemptCpu ELSE 0
      /\ UNCHANGED <<result, receipts, lineage, cleanup, doomed, store, spent, faults>>
  BY DEF Claim, ledger
<1>5. PICK new : new = ClaimRun(Resumed.stage, Attempt, Resumed.cpu, out, Unreconciled, pc)
  OBVIOUS
<1>6. /\ new \in Worker /\ new.stage = Resumed.stage /\ new.last = Attempt
      /\ new.metrics = Resumed.cpu /\ new.out = out /\ new.silent = Unreconciled /\ new.pc = pc
      /\ new.phase = "output"
  <2>1. /\ pc \in Points /\ Unreconciled \in BOOLEAN /\ out \in Outputs \cup {NoOutput}
    BY <1>2 DEF Points, Unreconciled, IInv, LaptopTypeOK
  <2>2. PICK p \in Points, u \in BOOLEAN, o \in Outputs \cup {NoOutput} :
          p = pc /\ u = Unreconciled /\ o = out
    BY <2>1
  <2>3. PICK st \in Stages, la \in Checkpoint, me \in 0..MaxRuns :
          st = Resumed.stage /\ la = Attempt /\ me = Resumed.cpu
    BY <1>2, <1>3
  <2>4. new = ClaimRun(st, la, me, o, u, p)
    BY <1>5, <2>2, <2>3
  <2>5. /\ new \in Worker /\ new.stage = st /\ new.last = la /\ new.metrics = me
        /\ new.out = o /\ new.silent = u /\ new.pc = p /\ new.phase = "output"
    BY <2>4, ClaimRunIs
  <2> QED
    BY <2>2, <2>3, <2>5
<1>7. /\ workers' \in [Workers -> Worker] /\ workers'[w] = new
      /\ \A v \in Workers \ {w} : workers'[v] = workers[v]
  <2>1. Moves(w, new)
    BY <1>5 DEF Claim, ClaimRun
  <2> QED
    BY <1>6, <2>1, MovesTo DEF IInv
<1> HIDE DEF pc, out
<1>8. /\ result \in Outputs \cup {NoOutput} /\ spent \in 0..MaxRuns /\ attemptCpu \in 0..MaxRuns
      /\ attemptCpu <= spent
  BY DEF IInv, LaptopTypeOK, JobSound
<1>9. \A o \in Outputs : Chosen(o) => Chosen(o)'
  <2>1. CASE result = NoOutput
    BY <1>1, <1>3, <1>4, <2>1, LaptopAssumption DEF Chosen
  <2>2. CASE result # NoOutput
    BY <1>4, <2>2, LaptopAssumption DEF Chosen, IInv, JobSound
  <2> QED
    BY <2>1, <2>2
<1>10. LaptopTypeOK'
  <2>1. job' \in Job /\ (job'.state = "leased") = (job'.holder # NoWorker)
    BY <1>4, LaptopAssumption DEF Job
  <2>2. attemptCpu' \in 0..MaxRuns
    BY <1>4, <1>8, LaptopAssumption
  <2> QED
    BY <1>3, <1>4, <1>7, <2>1, <2>2 DEF IInv, LaptopTypeOK
<1>11. JobSound'
  <2>1. checkpoint'.out # NoOutput => result = NoOutput
    BY <1>1, <1>3, <1>4, NoCheckpointIs
  <2>2. checkpoint'.cpu <= spent' /\ attemptCpu' <= spent'
    BY <1>1, <1>3, <1>4, <1>8, LaptopAssumption
  <2> QED
    BY <1>4, <2>1, <2>2 DEF IInv, JobSound
<1>12. AttemptIsAccounted'
  BY <1>3, <1>4 DEF AttemptIsAccounted
<1>13. OwnOutput'
  <2>1. \A k \in Objects : k[2] \in Outputs
    BY DEF Objects
  <2>2. lineage \subseteq Outputs
    BY DEF IInv, LaptopTypeOK
  <2> QED
    BY <1>4, <1>9, <2>1, <2>2 DEF IInv, OwnOutput
<1>14. /\ Resumed.stage = "output_verified" => Durable(<<"output", Resumed.out>>)
       /\ Resumed.stage = "manifest_verified" => Finished(Resumed.out)
  BY <1>1, NoCheckpointIs, SaidIs DEF IInv
<1>15. DurableAsSaid'
  BY <1>3, <1>4, <1>14, SaidIs DEF IInv, DurableAsSaid, Durable, Finished, Started
<1>16. Lasts
  <2>1. spent <= spent'
    BY <1>4, <1>8, LaptopAssumption
  <2> QED
    BY <1>4, <1>9, <2>1 DEF Lasts
<1>17. Effects(w)
  BY <1>4, <1>7, <1>10, <1>11, <1>12, <1>13, <1>15, <1>16 DEF Effects, Records, Untouched
<1>18. /\ new.pc \in {"recheck", "fail", "input"}
       /\ result # NoOutput => new.pc = "recheck" /\ new.out = result /\ ~Unreconciled
       /\ result = NoOutput => new.out = Resumed.out
       /\ result = NoOutput /\ Unreconciled => new.pc = "fail"
       /\ result = NoOutput /\ ~Unreconciled => new.pc = "input"
  BY <1>1, <1>6, NoCheckpointIs DEF pc, out, Unreconciled
<1>19. Informed(w)'
  <2>1. ~new.silent => attemptCpu' = 0
    BY <1>4, <1>6 DEF Unreconciled
  <2>2. new.pc \notin Ended \cup Submitting => result' = NoOutput
    BY <1>4, <1>18 DEF Ended, Submitting
  <2> QED
    BY <1>3, <1>4, <1>6, <1>7, <2>1, <2>2 DEF Informed
<1>20. Prepared(w)'
  <2>1. new.metrics <= spent' /\ new.last.cpu <= spent'
    BY <1>1, <1>3, <1>4, <1>6
  <2>2. new.silent => new.pc = "fail"
    BY <1>6, <1>18
  <2>3. new.pc = "input" => new.last.out = new.out
    BY <1>3, <1>6, <1>18
  <2>4. new.pc = "recheck" => new.out # NoOutput
    BY <1>18
  <2>5. new.pc \in {"recheck", "input"} => checkpoint'.out = new.out \/ result' = new.out
    BY <1>3, <1>4, <1>6, <1>18
  <2> QED
    BY <1>3, <1>6, <1>7, <1>18, <2>1, <2>2, <2>3, <2>4, <2>5
       DEF Prepared, Chosen, Resuming, Marking, Computing, Creating, Submitting, Ended
<1>21. Secured(w)'
  <2>1. result # NoOutput => Finished(result)
    BY SaidIs DEF IInv
  <2>2. new.pc = "recheck" => Finished(new.out)
    BY <1>18, <2>1
  <2>3. new.pc = "input" => new.out = Resumed.out
    BY <1>18
  <2> QED
    BY <1>4, <1>6, <1>7, <1>14, <1>18, <2>2, <2>3
       DEF Secured, Durable, Finished, Creating, Submitting
<1> QED
  BY <1>17, <1>19, <1>20, <1>21 DEF Keeps, Knows

-----------------------------------------------------------------------------
(* The theorems. *)

LEMMA InitIInv == Init => IInv
<1> SUFFICES ASSUME Init PROVE IInv
  OBVIOUS
<1>1. LaptopTypeOK
  <2>1. job \in Job /\ (job.state = "leased") = (job.holder # NoWorker)
    BY DEF Init, Job
  <2>2. receipts \in [Objects -> Dispositions \cup {NoReceipt}]
    BY DEF Init
  <2>3. workers \in [Workers -> Worker]
    BY IdleIs DEF Init
  <2> QED
    BY <2>1, <2>2, <2>3, NoCheckpointIs, LaptopAssumption DEF Init, LaptopTypeOK
<1>2. JobSound /\ OwnOutput /\ AttemptIsAccounted
  BY NoCheckpointIs, LaptopAssumption DEF Init, JobSound, OwnOutput, AttemptIsAccounted
<1>3. DurableAsSaid
  BY NoCheckpointIs DEF Init, DurableAsSaid
<1>4. ASSUME NEW w \in Workers PROVE Knows(w)
  <2>1. workers[w].pc = "idle" /\ ~workers[w].silent /\ workers[w].metrics = 0
        /\ workers[w].last.cpu = 0 /\ spent = 0
    BY IdleIs, NoCheckpointIs DEF Init
  <2>2. Informed(w)
    BY <2>1 DEF Informed
  <2>3. Prepared(w)
    BY <2>1 DEF Prepared, Resuming, Marking, Computing, Creating, Submitting, Ended
  <2>4. Secured(w)
    BY <2>1 DEF Secured, Creating, Submitting
  <2> QED
    BY <2>2, <2>3, <2>4 DEF Knows
<1> QED
  BY <1>1, <1>2, <1>3, <1>4 DEF IInv

LEMMA KeepsIInv == ASSUME IInv, NEW w \in Workers, Keeps(w) PROVE IInv'
<1>1. \A v \in Workers \ {w} : Knows(v)'
  BY OthersKnow DEF IInv, Keeps, Effects, Records
<1> QED
  BY <1>1 DEF IInv, Keeps, Effects, Records

LEMMA OutsideIInv == ASSUME IInv, Outside PROVE IInv'
<1>1. \A v \in Workers : Knows(v)'
  BY OthersKnow DEF IInv, Outside, Records
<1> QED
  BY <1>1 DEF IInv, Outside, Records

LEMMA NextIInv == IInv /\ [Next]_vars => IInv'
<1> SUFFICES ASSUME IInv, [Next]_vars PROVE IInv'
  OBVIOUS
<1>1. ASSUME NEW w \in Workers, Claim(w) \/ Fails(w) \/ Breaks(w) \/ Dies(w) PROVE IInv'
  BY <1>1, StepClaim, StepFails, StepBreaks, StepDies, KeepsIInv
<1>2. ASSUME NEW w \in Workers, Advance(w) PROVE IInv'
  <2>1. Keeps(w)
    BY <1>2, StepRecheckResult, StepCheckInput, StepRestoreOutput, StepRestoreManifest,
       StepDownload, StepMarkInput, StepMarkStart, StepAdmit, StepTransform, StepMarkVerified,
       StepRecall, StepHead, StepGuard, StepPut, StepVerifyCreated, StepAfterCreate,
       StepPersist, StepPersistLineage, StepMarkOutput, StepMarkManifest, StepComplete,
       StepEndClaim DEF Advance
  <2> QED
    BY <2>1, KeepsIInv
<1>3. ASSUME Expire \/ Reconcile \/ Resume \/ StartCleanup \/ CommitTombstones PROVE IInv'
  BY <1>3, StepExpire, StepReconcile, StepResume, StepStartCleanup, StepCommitTombstones,
     OutsideIInv
<1>4. CASE UNCHANGED vars
  <2>1. /\ UNCHANGED <<job, checkpoint, result, receipts, lineage, store, cleanup, doomed,
                       workers, spent, attemptCpu, faults>>
    BY <1>4 DEF vars
  <2>2. Records'
    BY <2>1 DEF IInv, Records, LaptopTypeOK, JobSound, OwnOutput, AttemptIsAccounted,
              DurableAsSaid, Chosen
  <2>3. Lasts
    BY <2>1, LaptopAssumption DEF IInv, LaptopTypeOK, Lasts, Chosen
  <2> QED
    BY <2>1, <2>2, <2>3, OutsideIInv DEF Outside, Untouched
<1> QED
  BY <1>1, <1>2, <1>3, <1>4 DEF Next

LEMMA IInvHolds == Spec => []IInv
<1> QED
  BY InitIInv, NextIInv, PTL DEF Spec

\* The state of the job, of the ledger and of every run keeps its type, and
\* the job is leased exactly while a worker holds it (claim_one, complete,
\* release, expiry).
THEOREM LaptopTypeCorrect == Spec => []LaptopTypeOK
<1>1. IInv => LaptopTypeOK
  BY DEF IInv
<1> QED
  BY IInvHolds, <1>1, PTL

\* Whatever a transformer gives each time, and however many workers come to
\* hold the job, at once or after one another, its objects and receipts are
\* of one output: _transform reproduces the checkpointed one or fails.
THEOREM OneOutputHolds == Spec => []OneOutputPerJob
<1>1. IInv => OneOutputPerJob
  <2> SUFFICES ASSUME IInv,
                      NEW j \in store \cup {i \in Objects : receipts[i] # NoReceipt},
                      NEW k \in store \cup {i \in Objects : receipts[i] # NoReceipt}
               PROVE  j[2] = k[2]
    BY DEF OneOutputPerJob
  <2>1. j \in Objects /\ k \in Objects
    BY DEF IInv, LaptopTypeOK
  <2>2. j[2] \in Outputs /\ k[2] \in Outputs
    BY <2>1 DEF Objects
  <2>3. Chosen(j[2]) /\ Chosen(k[2])
    BY <2>1 DEF IInv, OwnOutput
  <2> QED
    BY <2>2, <2>3, LaptopAssumption DEF Chosen, IInv, JobSound
<1> QED
  BY IInvHolds, <1>1, PTL

\* A closed attempt has its CPU on record, whichever replies were lost and
\* whichever worker closed it.
THEOREM AttemptsAreAccounted == Spec => []AttemptIsAccounted
<1>1. IInv => AttemptIsAccounted
  BY DEF IInv
<1> QED
  BY IInvHolds, <1>1, PTL

\* What a checkpoint or a result says is durable, is: also after a resumption
\* that reads the receipts another worker recorded, and under a cleanup.
THEOREM SaidIsDurable == Spec => []DurableAsSaid
<1>1. IInv => DurableAsSaid
  BY DEF IInv
<1> QED
  BY IInvHolds, <1>1, PTL

=============================================================================
