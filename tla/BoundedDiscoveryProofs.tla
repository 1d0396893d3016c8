------------------------ MODULE BoundedDiscoveryProofs ------------------------
(***************************************************************************)
(* Proofs about BoundedDiscovery: for every number of calls, every plan    *)
(* and every source, the bounds hold, the stored run agrees with the pages *)
(* that were committed, and a report agrees with the stored run.           *)
(***************************************************************************)
EXTENDS BoundedDiscovery, FiniteSetTheorems, TLAPS

Sending == [sequence : Nat, page : Nat]

(* What the steps read and write has its type; the sets are finite.        *)
Typed ==
  /\ checkpoint \in Checkpoint
  /\ report \in Report \cup {NoReport}
  /\ facts \subseteq Fact /\ IsFiniteSet(facts)
  /\ observations \subseteq Ids \X Values /\ IsFiniteSet(observations)
  /\ lapsed \in BOOLEAN /\ expired \in BOOLEAN
  /\ runners \in [Runners -> Runner]
  /\ sent \in Seq(Sending)
  /\ committed \in Seq(Pages)

(* The stored checkpoint keeps to the plan, and a request is reserved only *)
(* for a page that may still be asked for.                                 *)
WithinPlan ==
  /\ checkpoint.pages <= MaxPages
  /\ checkpoint.requests <= MaxRequests
  /\ checkpoint.bytes <= MaxBytes
  /\ Pending(checkpoint) => checkpoint.pages < MaxPages /\ ~checkpoint.terminal
  /\ report = NoReport => checkpoint.retries <= MaxRetries

Requesting(r) == runners[r].pc \in {"send", "await"}

(* What a call's copy of the checkpoint says about the stored one: it is   *)
(* never ahead of it; a reservation it holds is the stored one until an    *)
(* interruption takes it away, and with it ends the run.                   *)
CopyOK(r) ==
  LET c == runners[r].cp  pc == runners[r].pc IN
  /\ c.requests <= checkpoint.requests
  /\ c.pages <= checkpoint.pages
  /\ c.terminal => c = checkpoint
  /\ pc = "stale" => Pending(c) /\ (SamePending(c) => checkpoint = c)
  /\ pc \in {"begin", "loop", "finish", "reserve"} => ~Pending(c)
  /\ pc = "reserve" => c.pages < MaxPages /\ c.requests < MaxRequests /\ ~c.terminal
  /\ Requesting(r) =>
       /\ c.owner = r /\ ~c.terminal
       /\ checkpoint = c \/ (report # NoReport /\ checkpoint = Unreserved(c))

OneRequester == \A r, q \in Runners : Requesting(r) /\ Requesting(q) => r = q

Core == Typed /\ WithinPlan /\ (\A r \in Runners : CopyOK(r)) /\ OneRequester

-----------------------------------------------------------------------------
(***************************************************************************)
(* The operators on checkpoints and reports                                *)
(***************************************************************************)
LEMMA InitialIsCheckpoint == InitialCheckpoint \in Checkpoint
BY DEF InitialCheckpoint, Checkpoint

(* Taking the reservation away changes nothing else.                       *)
LEMMA UnreservedFields ==
  ASSUME NEW c \in Checkpoint
  PROVE  LET u == Unreserved(c) IN
         /\ u \in Checkpoint /\ ~Pending(u)
         /\ u.pages = c.pages /\ u.requests = c.requests /\ u.retries = c.retries
         /\ u.bytes = c.bytes /\ u.duplicates = c.duplicates /\ u.total = c.total
         /\ u.terminal = c.terminal /\ u.owner = NoRunner
BY DEF Checkpoint, Unreserved, Pending

(* A report has its type, and the numbers of its checkpoint.               *)
LEMMA ReportFields ==
  ASSUME NEW c \in Checkpoint, NEW reason \in Reasons, IsFiniteSet(observations)
  PROVE  LET d == ReportOf(c, reason) IN
         /\ d \in Report /\ d # NoReport
         /\ d.reason = reason /\ d.requests = c.requests /\ d.pages = c.pages
         /\ d.unique = Cardinality(observations) /\ d.duplicates = c.duplicates
<1>1. Cardinality(observations) \in Nat BY FS_CardinalityType
<1>2. ReportOf(c, reason) \in Report BY <1>1 DEF ReportOf, Report, Checkpoint
<1>3. QED BY <1>2, NullAssumption DEF ReportOf

(* A page is a list of records, so its ids are finitely many, and no more  *)
(* of them than records.                                                   *)
LEMMA PageFields ==
  ASSUME NEW p \in Pages
  PROVE  /\ p \in Page
         /\ p.records \in Seq(Ids \X Values)
         /\ IsFiniteSet(IdsOf(p)) /\ Cardinality(IdsOf(p)) <= Len(p.records)
         /\ IsFiniteSet({p.records[i] : i \in DOMAIN p.records})
         /\ {p.records[i] : i \in DOMAIN p.records} \subseteq Ids \X Values
<1>1. p \in Page BY PagesAssumption
<1>2. p.records \in Seq(Ids \X Values) BY <1>1 DEF Page
<1>3. DOMAIN p.records = 1..Len(p.records) /\ Len(p.records) \in Nat BY <1>2
<1>4. /\ IsFiniteSet(DOMAIN p.records)
      /\ Cardinality(DOMAIN p.records) = Len(p.records)
  BY <1>3, FS_Interval
<1>5. /\ IsFiniteSet(IdsOf(p))
      /\ Cardinality(IdsOf(p)) <= Cardinality(DOMAIN p.records)
  <2> DEFINE f == [i \in DOMAIN p.records |-> p.records[i][1]]
  <2>1. f \in Surjection(DOMAIN p.records, IdsOf(p))
    BY DEF IdsOf, Surjection
  <2>2. QED BY <2>1, <1>4, FS_Surjection
<1>6. IsFiniteSet({p.records[i] : i \in DOMAIN p.records})
  <2> DEFINE T == {p.records[i] : i \in DOMAIN p.records}
             f == [i \in DOMAIN p.records |-> p.records[i]]
  <2>1. f \in Surjection(DOMAIN p.records, T)
    BY DEF Surjection
  <2>2. QED BY <2>1, <1>4, FS_Surjection
<1>7. {p.records[i] : i \in DOMAIN p.records} \subseteq Ids \X Values
  BY <1>2, <1>3
<1>8. QED BY <1>1, <1>2, <1>4, <1>5, <1>6, <1>7

-----------------------------------------------------------------------------
(***************************************************************************)
(* The kinds of steps                                                      *)
(***************************************************************************)
(* Call r goes on as new, and no other call moves.                         *)
LEMMA OneMoves ==
  ASSUME Typed, NEW r \in Runners, NEW new \in Runner,
         runners' = [runners EXCEPT ![r] = new]
  PROVE  /\ runners' \in [Runners -> Runner]
         /\ runners'[r] = new
         /\ \A q \in Runners : q # r => runners'[q] = runners[q]
BY DEF Typed

(* A call that is over keeps nothing.                                      *)
LEMMA EndsFields ==
  ASSUME Typed, NEW r \in Runners, Ends(r)
  PROVE  /\ runners' \in [Runners -> Runner]
         /\ runners'[r].pc = "done" /\ runners'[r].cp = InitialCheckpoint
         /\ \A q \in Runners : q # r => runners'[q] = runners[q]
<1> DEFINE new == [pc |-> "done", cp |-> InitialCheckpoint, draft |-> NoReport]
<1>1. new \in Runner BY InitialIsCheckpoint DEF Runner
<1>2. runners' = [runners EXCEPT ![r] = new] BY DEF Ends, Goes
<1>3. QED BY <1>1, <1>2, OneMoves

LEMMA GoesFields ==
  ASSUME Typed, NEW r \in Runners, NEW c \in Checkpoint,
         NEW pc \in {"stale", "begin", "loop", "reserve", "send", "await"}, Goes(r, pc, c)
  PROVE  /\ runners' \in [Runners -> Runner]
         /\ runners'[r].pc = pc /\ runners'[r].cp = c
         /\ \A q \in Runners : q # r => runners'[q] = runners[q]
<1> DEFINE new == [pc |-> pc, cp |-> c, draft |-> NoReport]
<1>1. new \in Runner BY DEF Runner
<1>2. runners' = [runners EXCEPT ![r] = new] BY DEF Goes
<1>3. QED BY <1>1, <1>2, OneMoves

(* A call that resolves a request it holds: the run ends with a report,    *)
(* the request is to be tried again, or its page is committed.             *)
Concludes(r) ==
  \E c \in Checkpoint, reason \in Reasons \ {"terminal_page"} :
    /\ Mine(r) /\ Ends(r)
    /\ c.pages = runners[r].cp.pages /\ c.requests = runners[r].cp.requests
    /\ c.terminal = runners[r].cp.terminal /\ c.duplicates = runners[r].cp.duplicates
    /\ c.bytes <= MaxBytes
    /\ facts' = facts \cup {OwnFact(r)}
    /\ checkpoint' = Unreserved(c)
    /\ report' = ReportOf(c, reason)
    /\ UNCHANGED <<observations, committed>>

TriesAgain(r) == LET c == Retried(runners[r].cp) IN
  /\ Mine(r) /\ runners[r].cp.retries < MaxRetries
  /\ facts' = facts \cup {OwnFact(r)}
  /\ checkpoint' = Unreserved(c)
  /\ Goes(r, "loop", Unreserved(c))
  /\ UNCHANGED <<report, observations, committed>>

Commits(r) ==
  \E p \in Pages, after \in Checkpoint : LET c == runners[r].cp  new == IdsOf(p) \ Seen IN
    /\ Mine(r) /\ ~Conflict(p) /\ ~Exceeds(p)
    /\ after.pages = c.pages + 1 /\ after.requests = c.requests /\ after.retries = 0
    /\ after.bytes <= MaxBytes /\ after.owner = NoRunner
    /\ after.terminal = (p.next = "terminal")
    /\ after.duplicates = c.duplicates + Len(p.records) - Cardinality(new)
    /\ facts' = facts \cup {OwnFact(r)}
    /\ observations' = observations \cup {p.records[i] : i \in DOMAIN p.records}
    /\ checkpoint' = after
    /\ committed' = Append(committed, p)
    /\ Goes(r, "loop", after)
    /\ UNCHANGED report

GivesUp(r) == Ends(r) /\ UNCHANGED <<stored, committed>>

(* FinishWithFact concludes the run, or finds that the request is no       *)
(* longer this call's and gives up.                                        *)
LEMMA FinishKinds ==
  ASSUME Typed, NEW r \in Runners, NEW c \in Checkpoint, NEW reason \in Reasons \ {"terminal_page"},
         c.pages = runners[r].cp.pages, c.requests = runners[r].cp.requests,
         c.terminal = runners[r].cp.terminal, c.duplicates = runners[r].cp.duplicates,
         c.bytes <= MaxBytes,
         FinishWithFact(r, c, reason)
  PROVE  Concludes(r) \/ GivesUp(r)
<1>1. CASE Mine(r) BY <1>1 DEF FinishWithFact, Concludes
<1>2. CASE ~Mine(r) BY <1>2 DEF FinishWithFact, GivesUp, stored
<1>3. QED BY <1>1, <1>2

(* The checkpoint after a page: everything but bytes and total moves on.   *)
PageDone(c, ended, repeated) ==
  [c EXCEPT !.pages = @ + 1, !.retries = 0, !.terminal = ended, !.owner = NoRunner,
            !.duplicates = repeated]

LEMMA PageDoneFields ==
  ASSUME NEW c \in Checkpoint, NEW ended \in BOOLEAN, NEW repeated \in Nat, NEW after,
         after = PageDone(c, ended, repeated)
  PROVE  /\ after \in Checkpoint
         /\ after.pages = c.pages + 1 /\ after.requests = c.requests /\ after.retries = 0
         /\ after.bytes = c.bytes /\ after.owner = NoRunner
         /\ after.terminal = ended /\ after.duplicates = repeated
<1> DEFINE c1 == [c EXCEPT !.pages = @ + 1]
           c2 == [c1 EXCEPT !.retries = 0]
           c3 == [c2 EXCEPT !.terminal = ended]
           c4 == [c3 EXCEPT !.owner = NoRunner]
           c5 == [c4 EXCEPT !.duplicates = repeated]
<1>1. /\ c1 \in Checkpoint /\ c1.pages = c.pages + 1
      /\ c1.requests = c.requests /\ c1.bytes = c.bytes
  BY DEF Checkpoint
<1> HIDE DEF c1
<1>2. /\ c2 \in Checkpoint /\ c2.retries = 0 /\ c2.pages = c1.pages
      /\ c2.requests = c1.requests /\ c2.bytes = c1.bytes
  BY <1>1 DEF Checkpoint
<1> HIDE DEF c2
<1>3. /\ c3 \in Checkpoint /\ c3.terminal = ended /\ c3.pages = c2.pages
      /\ c3.requests = c2.requests /\ c3.bytes = c2.bytes /\ c3.retries = c2.retries
  BY <1>2 DEF Checkpoint
<1> HIDE DEF c3
<1>4. /\ c4 \in Checkpoint /\ c4.owner = NoRunner /\ c4.pages = c3.pages
      /\ c4.requests = c3.requests /\ c4.bytes = c3.bytes /\ c4.retries = c3.retries
      /\ c4.terminal = c3.terminal
  BY <1>3 DEF Checkpoint
<1> HIDE DEF c4
<1>5. /\ c5 \in Checkpoint /\ c5.duplicates = repeated /\ c5.pages = c4.pages
      /\ c5.requests = c4.requests /\ c5.bytes = c4.bytes /\ c5.retries = c4.retries
      /\ c5.terminal = c4.terminal /\ c5.owner = c4.owner
  BY <1>4 DEF Checkpoint
<1>6. c5 = after
  BY Zenon DEF c1, c2, c3, c4, c5, PageDone
<1> HIDE DEF c5
<1>7. QED BY <1>1, <1>2, <1>3, <1>4, <1>5, <1>6

(* A committed page has a checkpoint of the right type.                    *)
LEMMA CommitKinds ==
  ASSUME Typed, NEW r \in Runners, NEW p \in Pages, NEW c \in Checkpoint,
         c.pages = runners[r].cp.pages, c.requests = runners[r].cp.requests,
         c.duplicates = runners[r].cp.duplicates, c.bytes <= MaxBytes,
         ~Conflict(p), ~Exceeds(p), CommitPage(r, p, c)
  PROVE  Commits(r) \/ GivesUp(r)
<1>1. CASE ~Mine(r) BY <1>1 DEF CommitPage, GivesUp, stored
<1>2. CASE Mine(r)
  <2> DEFINE new == IdsOf(p) \ Seen
  <2>1. IsFiniteSet(new) /\ Cardinality(new) <= Cardinality(IdsOf(p))
    BY PageFields, FS_Subset
  <2>2. /\ Cardinality(new) \in Nat /\ Cardinality(IdsOf(p)) \in Nat
        /\ Len(p.records) \in Nat /\ Cardinality(IdsOf(p)) <= Len(p.records)
    <3> HIDE DEF new
    <3>1. Len(p.records) \in Nat BY PageFields
    <3>2. QED BY <2>1, <3>1, PageFields, FS_CardinalityType
  <2> HIDE DEF new
  <2>3. PICK repeated \in Nat :
          repeated = c.duplicates + Len(p.records) - Cardinality(new)
    BY <2>1, <2>2 DEF Checkpoint
  <2>4. PICK ended \in BOOLEAN : ended = (p.next = "terminal") OBVIOUS
  <2>5. PICK after : after = PageDone(c, ended, repeated)
    OBVIOUS
  <2>6. after = [c EXCEPT !.pages = @ + 1, !.retries = 0,
                  !.terminal = p.next = "terminal", !.owner = NoRunner,
                  !.duplicates = @ + Len(p.records) - Cardinality(new)]
    BY <2>3, <2>4, <2>5, Zenon DEF PageDone
  <2>7. /\ facts' = facts \cup {OwnFact(r)}
        /\ observations' = observations \cup {p.records[i] : i \in DOMAIN p.records}
        /\ checkpoint' = after
        /\ committed' = Append(committed, p)
        /\ Goes(r, "loop", after)
        /\ UNCHANGED report
    BY <1>2, <2>6 DEF CommitPage, new
  <2>8. /\ after \in Checkpoint
        /\ after.pages = c.pages + 1 /\ after.requests = c.requests /\ after.retries = 0
        /\ after.bytes = c.bytes /\ after.owner = NoRunner
        /\ after.terminal = ended /\ after.duplicates = repeated
    BY <2>5, PageDoneFields
  <2>9. QED BY <1>2, <2>3, <2>4, <2>7, <2>8 DEF Commits, new
<1>3. QED BY <1>1, <1>2

(* Whatever the source answers, Resolve is one of these.                   *)
LEMMA ResolveKinds ==
  ASSUME Core, NEW r \in Runners, Resolve(r)
  PROVE  Concludes(r) \/ TriesAgain(r) \/ Commits(r) \/ GivesUp(r)
<1> DEFINE c == runners[r].cp
<1>1. /\ c \in Checkpoint /\ c.bytes <= MaxBytes /\ runners[r].pc = "await"
  BY UnreservedFields DEF Core, Typed, Runner, Resolve, WithinPlan, CopyOK, Requesting
<1> HIDE DEF c
<1>2. CASE Retryable(r)
  <2>1. /\ Retried(c) \in Checkpoint
        /\ Retried(c).pages = c.pages /\ Retried(c).requests = c.requests
        /\ Retried(c).terminal = c.terminal /\ Retried(c).duplicates = c.duplicates
        /\ Retried(c).bytes = c.bytes
    BY <1>1 DEF Retried, Checkpoint
  <2>2. CASE FinishWithFact(r, Retried(c), "retry_after_exceeds_limit")
    BY <1>1, <2>1, <2>2, FinishKinds DEF Core, c, Reasons, BlockedReasons
  <2>3. CASE FinishWithFact(r, Retried(c), "retry_exhausted")
    BY <1>1, <2>1, <2>3, FinishKinds DEF Core, c, Reasons, BlockedReasons
  <2>4. CASE /\ c.retries < MaxRetries
             /\ IF Mine(r)
                  THEN /\ facts' = facts \cup {OwnFact(r)}
                       /\ checkpoint' = Unreserved(Retried(c))
                       /\ Goes(r, "loop", Unreserved(Retried(c)))
                  ELSE Ends(r) /\ UNCHANGED <<facts, checkpoint>>
             /\ UNCHANGED <<report, observations, committed>>
    BY <2>4 DEF TriesAgain, GivesUp, stored, c
  <2>5. c.retries \in Nat /\ MaxRetries \in Nat BY <1>1, LimitsAssumption DEF Checkpoint
  <2>6. QED BY <1>2, <2>2, <2>3, <2>4, <2>5 DEF Retryable, c
<1>3. CASE Refused(r)
  <2>1. PICK reason \in Reasons \ {"terminal_page"} : FinishWithFact(r, c, reason)
    BY <1>3 DEF Refused, c, Reasons, BlockedReasons, PartialReasons
  <2>2. QED BY <1>1, <2>1, FinishKinds DEF Core, c
<1>4. CASE \E size \in Sizes, p \in Pages : Response(r, size, p)
  <2>1. PICK size \in Sizes, p \in Pages : Response(r, size, p) BY <1>4
  <2> DEFINE counted == [c EXCEPT !.bytes = @ + size]
             totalled == [counted EXCEPT !.total = IF p.total = NoTotal THEN @ ELSE p.total]
  <2>2. size \in Nat /\ MaxBytes \in Nat BY LimitsAssumption
  <2>3. /\ counted \in Checkpoint
        /\ counted.pages = c.pages /\ counted.requests = c.requests
        /\ counted.terminal = c.terminal /\ counted.duplicates = c.duplicates
        /\ counted.bytes = c.bytes + size
    BY <1>1, <2>2 DEF Checkpoint
  <2>4. p.total \in Nat \cup {NoTotal} BY PageFields DEF Page
  <2>5. /\ totalled \in Checkpoint
        /\ totalled.pages = c.pages /\ totalled.requests = c.requests
        /\ totalled.terminal = c.terminal /\ totalled.duplicates = c.duplicates
        /\ totalled.bytes = counted.bytes
    BY <2>3, <2>4 DEF Checkpoint
  <2> HIDE DEF counted, totalled
  <2>6. CASE c.bytes + size > MaxBytes
    <3>1. FinishWithFact(r, c, "aggregate_byte_budget_exhausted")
      BY <2>1, <2>6 DEF Response, c
    <3>2. QED BY <1>1, <3>1, FinishKinds DEF Core, c, Reasons, PartialReasons
  <2>7. CASE ~(c.bytes + size > MaxBytes)
    <3>1. counted.bytes <= MaxBytes /\ totalled.bytes <= MaxBytes
      BY <1>1, <2>2, <2>3, <2>5, <2>7 DEF Checkpoint
    <3>2. \/ \E reason \in {"shape_drift", "record_changed", "expected_total_changed"} :
               FinishWithFact(r, counted, reason)
          \/ \E reason \in {"expected_total_changed", "pagination_loop", "unsafe_cursor"} :
               FinishWithFact(r, totalled, reason)
          \/ ~Conflict(p) /\ ~Exceeds(p) /\ CommitPage(r, p, totalled)
      BY <2>1, <2>7 DEF Response, c, counted, totalled
    <3>3. CASE \E reason \in {"shape_drift", "record_changed", "expected_total_changed"} :
                 FinishWithFact(r, counted, reason)
      BY <2>3, <3>1, <3>3, FinishKinds DEF Core, c, Reasons, ChangedReasons
    <3>4. CASE \E reason \in {"expected_total_changed", "pagination_loop", "unsafe_cursor"} :
                 FinishWithFact(r, totalled, reason)
      BY <2>5, <3>1, <3>4, FinishKinds DEF Core, c, Reasons, ChangedReasons, BlockedReasons
    <3>5. CASE ~Conflict(p) /\ ~Exceeds(p) /\ CommitPage(r, p, totalled)
      BY <2>5, <3>1, <3>5, CommitKinds DEF Core, c
    <3>6. QED BY <3>2, <3>3, <3>4, <3>5
  <2>8. QED BY <2>6, <2>7
<1>5. QED BY <1>2, <1>3, <1>4 DEF Resolve

-----------------------------------------------------------------------------
(***************************************************************************)
(* The reservation: type correctness, the plan's limits, and at most one   *)
(* call between a reservation and its resolution                           *)
(***************************************************************************)
LEMMA CoreInit == Init => Core
<1> SUFFICES ASSUME Init PROVE Core OBVIOUS
<1> DEFINE new == [pc |-> "new", cp |-> InitialCheckpoint, draft |-> NoReport]
<1>1. /\ new \in Runner /\ runners = [r \in Runners |-> new]
  BY InitialIsCheckpoint DEF Init, Runner
<1>2. \A r \in Runners : runners[r].pc = "new" /\ runners[r].cp = InitialCheckpoint
  BY <1>1
<1>3. Typed
  <2>1. /\ checkpoint \in Checkpoint /\ report \in Report \cup {NoReport}
        /\ lapsed \in BOOLEAN /\ expired \in BOOLEAN
        /\ runners \in [Runners -> Runner]
    BY <1>1, InitialIsCheckpoint DEF Init
  <2>2. /\ facts \subseteq Fact /\ IsFiniteSet(facts)
        /\ observations \subseteq Ids \X Values /\ IsFiniteSet(observations)
    BY FS_EmptySet DEF Init
  <2>3. sent \in Seq(Sending) /\ committed \in Seq(Pages)
    BY DEF Init
  <2>4. QED BY <2>1, <2>2, <2>3 DEF Typed
<1>4. {MaxPages, MaxRequests, MaxRetries, MaxBytes} \subseteq Nat BY LimitsAssumption
<1>5. WithinPlan
  BY <1>4 DEF Init, WithinPlan, InitialCheckpoint, Pending
<1>6. \A r \in Runners : CopyOK(r)
  BY <1>2 DEF Init, CopyOK, InitialCheckpoint, Requesting
<1>7. OneRequester BY <1>2 DEF OneRequester, Requesting
<1>8. QED BY <1>3, <1>5, <1>6, <1>7 DEF Core

(* A call that does not move keeps its invariant while the stored          *)
(* checkpoint does, and a report that is there stays.                      *)
LEMMA CopyKept ==
  ASSUME NEW q, CopyOK(q), runners'[q] = runners[q], UNCHANGED checkpoint,
         report # NoReport => report' # NoReport
  PROVE  CopyOK(q)'
BY DEF CopyOK, Requesting, SamePending

(* A call that is over has nothing left to keep.                           *)
LEMMA CopyEnded ==
  ASSUME NEW r, runners'[r].pc = "done", runners'[r].cp = InitialCheckpoint,
         checkpoint' \in Checkpoint
  PROVE  CopyOK(r)' /\ ~Requesting(r)'
BY DEF CopyOK, Requesting, InitialCheckpoint, Checkpoint

(* Only a reservation makes a call a requester.                            *)
LEMMA RequesterKept ==
  ASSUME OneRequester, NEW r \in Runners, Requesting(r)' => Requesting(r),
         \A q \in Runners : q # r => runners'[q] = runners[q]
  PROVE  OneRequester'
BY DEF OneRequester, Requesting

(* A step of r that leaves the stored checkpoint, the facts and the        *)
(* observations alone.                                                     *)
LEMMA LocalStep ==
  ASSUME Core, NEW r \in Runners,
         UNCHANGED <<checkpoint, facts, observations, lapsed, expired, committed>>,
         report' \in Report \cup {NoReport}, report # NoReport => report' # NoReport,
         sent' \in Seq(Sending),
         runners' \in [Runners -> Runner],
         \A q \in Runners : q # r => runners'[q] = runners[q],
         CopyOK(r)', Requesting(r)' => Requesting(r)
  PROVE  Core'
<1>1. Typed' BY DEF Core, Typed
<1>2. WithinPlan' BY DEF Core, WithinPlan, Pending
<1>3. \A q \in Runners : CopyOK(q)'
  BY CopyKept DEF Core
<1>4. OneRequester' BY RequesterKept DEF Core
<1>5. QED BY <1>1, <1>2, <1>3, <1>4 DEF Core

LEMMA CoreStart == ASSUME Core, NEW r \in Runners, Start(r) PROVE Core'
<1>1. Typed /\ checkpoint \in Checkpoint BY DEF Core, Typed
<1>2. CASE Ends(r)
  <2>1. /\ runners' \in [Runners -> Runner]
        /\ \A q \in Runners : q # r => runners'[q] = runners[q]
        /\ CopyOK(r)' /\ ~Requesting(r)'
    BY <1>1, <1>2, EndsFields, CopyEnded DEF Start, stored
  <2>2. QED BY <1>1, <2>1, LocalStep DEF Start, stored, Typed
<1>3. CASE Goes(r, IF Pending(checkpoint) THEN "stale" ELSE "begin", checkpoint)
  <2>1. /\ runners' \in [Runners -> Runner]
        /\ runners'[r].pc = (IF Pending(checkpoint) THEN "stale" ELSE "begin")
        /\ runners'[r].cp = checkpoint
        /\ \A q \in Runners : q # r => runners'[q] = runners[q]
    BY <1>1, <1>3, GoesFields
  <2>2. CopyOK(r)' /\ ~Requesting(r)'
    BY <1>1, <2>1 DEF CopyOK, Requesting, Start, stored, Checkpoint
  <2>3. QED BY <1>1, <2>1, <2>2, LocalStep DEF Start, stored, Typed
<1>4. QED BY <1>2, <1>3 DEF Start

(* Deciding leaves the copy alone; a call that proceeds is within bounds.  *)
LEMMA DecideFields ==
  ASSUME Core, NEW r \in Runners, Decide(r)
  PROVE  LET c == runners[r].cp IN
         /\ runners' \in [Runners -> Runner]
         /\ \A q \in Runners : q # r => runners'[q] = runners[q]
         /\ runners'[r].cp = c /\ ~Pending(c)
         /\ \/ /\ runners'[r].pc = "reserve"
               /\ c.pages < MaxPages /\ c.requests < MaxRequests /\ ~c.terminal
            \/ \E reason \in PartialReasons \cup {"authority_expired", "terminal_page"} :
                 /\ runners'[r].pc = "finish"
                 /\ runners'[r].draft = ReportOf(c, reason)
                 /\ reason = "terminal_page" => c.terminal
<1> DEFINE c == runners[r].cp
<1>1. /\ Typed /\ c \in Checkpoint /\ runners[r] \in Runner BY DEF Core, Typed, Runner
<1>2. ~Pending(c) BY DEF Core, CopyOK, Decide
<1>3. PICK reason \in Stops(r) :
        IF reason = "proceed"
          THEN Goes(r, "reserve", c)
          ELSE runners' = [runners EXCEPT ![r].pc = "finish", ![r].draft = ReportOf(c, reason)]
  BY DEF Decide
<1>4. CASE reason = "proceed"
  <2>1. /\ ~Reached(c.pages, MaxPages) /\ ~Reached(c.requests, MaxRequests) /\ ~c.terminal
    BY <1>3, <1>4 DEF Stops
  <2>2. {MaxPages, MaxRequests} \subseteq Nat BY LimitsAssumption
  <2>3. c.pages < MaxPages /\ c.requests < MaxRequests
    BY <1>1, <2>1, <2>2 DEF Reached, Checkpoint
  <2>4. Goes(r, "reserve", c) BY <1>3, <1>4
  <2>5. /\ runners' \in [Runners -> Runner]
        /\ runners'[r].pc = "reserve" /\ runners'[r].cp = c
        /\ \A q \in Runners : q # r => runners'[q] = runners[q]
    BY <1>1, <2>4, GoesFields
  <2>6. QED BY <1>2, <2>1, <2>3, <2>5
<1>5. CASE reason # "proceed"
  <2>1. /\ reason \in PartialReasons \cup {"authority_expired", "terminal_page"}
        /\ reason = "terminal_page" => c.terminal
    BY <1>3, <1>5 DEF Stops, PartialReasons
  <2>2. ReportOf(c, reason) \in Report
    BY <1>1, <2>1, ReportFields DEF Typed, Reasons, BlockedReasons
  <2> DEFINE new == [runners[r] EXCEPT !.pc = "finish", !.draft = ReportOf(c, reason)]
  <2>3. runners' = [runners EXCEPT ![r] = new]
    BY <1>1, <1>3, <1>5 DEF Typed
  <2>4. /\ new \in Runner /\ new.pc = "finish" /\ new.cp = c /\ new.draft = ReportOf(c, reason)
    <3> HIDE DEF c
    <3>1. QED BY <1>1, <2>2 DEF Runner, c
  <2> HIDE DEF new
  <2>5. /\ runners' \in [Runners -> Runner] /\ runners'[r] = new
        /\ \A q \in Runners : q # r => runners'[q] = runners[q]
    BY <1>1, <2>3, <2>4, OneMoves
  <2>6. QED BY <1>2, <2>1, <2>4, <2>5
<1>6. QED BY <1>4, <1>5

LEMMA CoreDecide == ASSUME Core, NEW r \in Runners, Decide(r) PROVE Core'
<1>1. CopyOK(r) BY DEF Core
<1>2. CopyOK(r)' /\ ~Requesting(r)'
  BY <1>1, DecideFields DEF CopyOK, Requesting, Decide, stored
<1>3. QED BY <1>2, DecideFields, LocalStep DEF Decide, stored, Core, Typed

(* A call that finishes has a report, of its own or the stored one.        *)
LEMMA CoreFinish == ASSUME Core, NEW r \in Runners, Finish(r) PROVE Core'
<1>1. Typed /\ runners[r].draft \in Report \cup {NoReport} BY DEF Core, Typed, Runner
<1>2. /\ runners' \in [Runners -> Runner]
      /\ \A q \in Runners : q # r => runners'[q] = runners[q]
      /\ CopyOK(r)' /\ ~Requesting(r)'
  BY <1>1, EndsFields, CopyEnded DEF Finish, Typed
<1>3. /\ report' \in Report \cup {NoReport}
      /\ report # NoReport => report' # NoReport
  BY <1>1 DEF Finish, Terminalized, Typed
<1>4. QED BY <1>1, <1>2, <1>3, LocalStep DEF Finish, Typed

LEMMA CoreSend == ASSUME Core, NEW r \in Runners, Send(r) PROVE Core'
<1> DEFINE c == runners[r].cp
<1>1. /\ Typed /\ c \in Checkpoint /\ CopyOK(r) BY DEF Core, Typed, Runner
<1>2. /\ runners' \in [Runners -> Runner]
      /\ runners'[r].pc = "await" /\ runners'[r].cp = c
      /\ \A q \in Runners : q # r => runners'[q] = runners[q]
  BY <1>1, GoesFields DEF Send
<1>3. CopyOK(r)' /\ Requesting(r)
  BY <1>1, <1>2 DEF CopyOK, Requesting, Send, stored
<1>4. sent' \in Seq(Sending)
  <2>1. [sequence |-> c.requests, page |-> c.pages + 1] \in Sending
    BY <1>1 DEF Checkpoint, Sending
  <2>2. QED BY <1>1, <2>1 DEF Send, Typed
<1>5. /\ UNCHANGED <<checkpoint, facts, observations, lapsed, expired, committed>>
      /\ report' \in Report \cup {NoReport} /\ report' = report
  BY <1>1 DEF Send, stored, Typed
<1> HIDE DEF c
<1>6. QED BY <1>2, <1>3, <1>4, <1>5, LocalStep

LEMMA CoreDies ==
  ASSUME Core, NEW r \in Runners, Ends(r), UNCHANGED <<stored, lapsed, expired, sent, committed>>
  PROVE  Core'
<1>1. Typed BY DEF Core
<1>2. /\ runners' \in [Runners -> Runner]
      /\ \A q \in Runners : q # r => runners'[q] = runners[q]
      /\ CopyOK(r)' /\ ~Requesting(r)'
  BY <1>1, EndsFields, CopyEnded DEF Typed, stored
<1>3. QED BY <1>1, <1>2, LocalStep DEF stored, Typed

(* Reserving adds a request, and names the call that will send it.         *)
LEMMA ReservedFields ==
  ASSUME NEW c \in Checkpoint, NEW r \in Runners
  PROVE  LET reserved == [c EXCEPT !.requests = @ + 1, !.owner = r] IN
         /\ reserved \in Checkpoint /\ Pending(reserved)
         /\ reserved.requests = c.requests + 1 /\ reserved.owner = r
         /\ reserved.pages = c.pages /\ reserved.retries = c.retries
         /\ reserved.bytes = c.bytes /\ reserved.duplicates = c.duplicates
         /\ reserved.terminal = c.terminal
<1> DEFINE c1 == [c EXCEPT !.requests = @ + 1]
           c2 == [c1 EXCEPT !.owner = r]
<1>1. /\ c1 \in Checkpoint /\ c1.requests = c.requests + 1
      /\ c1.pages = c.pages /\ c1.retries = c.retries /\ c1.bytes = c.bytes
      /\ c1.duplicates = c.duplicates /\ c1.terminal = c.terminal
  BY DEF Checkpoint
<1> HIDE DEF c1
<1>2. /\ c2 \in Checkpoint /\ c2.owner = r /\ c2.requests = c1.requests
      /\ c2.pages = c1.pages /\ c2.retries = c1.retries /\ c2.bytes = c1.bytes
      /\ c2.duplicates = c1.duplicates /\ c2.terminal = c1.terminal
  BY <1>1 DEF Checkpoint
<1>3. c2 = [c EXCEPT !.requests = @ + 1, !.owner = r] BY DEF c1
<1>4. Pending(c2) BY <1>2, NullAssumption DEF Pending
<1> HIDE DEF c2
<1>5. QED BY <1>1, <1>2, <1>3, <1>4

(* What a reservation finds, and leaves.                                   *)
Reserves(r) == LET c == runners[r].cp IN
  /\ runners[r].pc = "reserve" /\ MayReserve(c)
  /\ checkpoint' = [c EXCEPT !.requests = @ + 1, !.owner = r] /\ lapsed' = FALSE
  /\ Goes(r, "send", checkpoint')
  /\ UNCHANGED <<report, facts, observations, expired, sent, committed>>

LEMMA ReserveKinds ==
  ASSUME NEW r \in Runners, Reserve(r)
  PROVE  Reserves(r) \/ (Ends(r) /\ UNCHANGED <<stored, lapsed, expired, sent, committed>>)
BY DEF Reserve, Reserves, stored

(* Nobody is between a reservation and its resolution when one is made.    *)
LEMMA ReservesFields ==
  ASSUME Core, NEW r \in Runners, Reserves(r)
  PROVE  /\ checkpoint \in Checkpoint /\ ~Pending(checkpoint) /\ report = NoReport
         /\ checkpoint.pages < MaxPages /\ checkpoint.requests < MaxRequests
         /\ ~checkpoint.terminal
         /\ \A q \in Runners : ~Requesting(q)
         /\ checkpoint' \in Checkpoint /\ Pending(checkpoint')
         /\ checkpoint'.requests = checkpoint.requests + 1 /\ checkpoint'.owner = r
         /\ checkpoint'.pages = checkpoint.pages /\ checkpoint'.retries = checkpoint.retries
         /\ checkpoint'.bytes = checkpoint.bytes
         /\ checkpoint'.duplicates = checkpoint.duplicates
         /\ checkpoint'.terminal = checkpoint.terminal
         /\ runners' \in [Runners -> Runner]
         /\ runners'[r].pc = "send" /\ runners'[r].cp = checkpoint'
         /\ \A q \in Runners : q # r => runners'[q] = runners[q]
<1> DEFINE c == runners[r].cp
<1>1. /\ Typed /\ CopyOK(r) /\ checkpoint \in Checkpoint BY DEF Core, Typed
<1>2. checkpoint = c /\ report = NoReport BY DEF Reserves, MayReserve
<1>3. ~Pending(checkpoint) /\ c.pages < MaxPages /\ c.requests < MaxRequests /\ ~c.terminal
  BY <1>1, <1>2 DEF CopyOK, Reserves
<1>4. checkpoint' = [checkpoint EXCEPT !.requests = @ + 1, !.owner = r]
  BY <1>2 DEF Reserves
<1>5. /\ checkpoint' \in Checkpoint /\ Pending(checkpoint')
      /\ checkpoint'.requests = checkpoint.requests + 1 /\ checkpoint'.owner = r
      /\ checkpoint'.pages = checkpoint.pages /\ checkpoint'.retries = checkpoint.retries
      /\ checkpoint'.bytes = checkpoint.bytes
      /\ checkpoint'.duplicates = checkpoint.duplicates
      /\ checkpoint'.terminal = checkpoint.terminal
  BY <1>1, <1>4, ReservedFields
<1>6. /\ runners' \in [Runners -> Runner]
      /\ runners'[r].pc = "send" /\ runners'[r].cp = checkpoint'
      /\ \A q \in Runners : q # r => runners'[q] = runners[q]
  BY <1>1, <1>5, GoesFields DEF Reserves
<1>7. \A q \in Runners : ~Requesting(q)
  BY <1>2, <1>3, NullAssumption DEF Core, CopyOK, Pending
<1>8. QED BY <1>1, <1>2, <1>3, <1>5, <1>6, <1>7

LEMMA CoreReserves == ASSUME Core, NEW r \in Runners, Reserves(r) PROVE Core'
<1>1. Typed'
  BY ReservesFields DEF Core, Typed, Reserves
<1>2. /\ {MaxPages, MaxRequests} \subseteq Nat /\ Typed BY LimitsAssumption DEF Core
<1>3. WithinPlan'
  BY <1>2, ReservesFields DEF Core, WithinPlan, Checkpoint, Typed
<1>4. CopyOK(r)'
  BY ReservesFields DEF CopyOK, Requesting, Checkpoint
<1>5. ASSUME NEW q \in Runners, q # r PROVE CopyOK(q)'
  <2>1. /\ CopyOK(q) /\ ~Requesting(q) /\ runners'[q] = runners[q]
        /\ runners[q].cp \in Checkpoint
    BY <1>5, ReservesFields DEF Core, Typed, Runner
  <2>2. ~Requesting(q)' BY <2>1 DEF Requesting
  <2>3. ~runners[q].cp.terminal BY <2>1, ReservesFields DEF CopyOK
  <2>4. ~SamePending(runners[q].cp)'
    BY <2>1, ReservesFields DEF SamePending, CopyOK, Checkpoint
  <2>5. QED BY <2>1, <2>2, <2>3, <2>4, ReservesFields DEF CopyOK, Checkpoint
<1>6. OneRequester'
  BY ReservesFields DEF OneRequester, Requesting
<1>7. QED BY <1>1, <1>3, <1>4, <1>5, <1>6 DEF Core

-----------------------------------------------------------------------------
(* A call that may write holds the stored reservation.                     *)
LEMMA MineHolds ==
  ASSUME Core, NEW r \in Runners, runners[r].pc = "await", Mine(r)
  PROVE  /\ checkpoint = runners[r].cp /\ report = NoReport
         /\ checkpoint \in Checkpoint /\ Pending(checkpoint) /\ checkpoint.owner = r
         /\ checkpoint.pages < MaxPages /\ ~checkpoint.terminal
         /\ checkpoint.retries <= MaxRetries
         /\ \A q \in Runners : q # r => ~Requesting(q)
BY NullAssumption DEF Core, Typed, CopyOK, Requesting, Mine, Pending, WithinPlan, OneRequester

(* Once a reservation is resolved, no copy of another call is ahead.       *)
LEMMA CopyResolved ==
  ASSUME Core, Pending(checkpoint), NEW q \in Runners, ~Requesting(q), runners'[q] = runners[q],
         checkpoint' \in Checkpoint, ~Pending(checkpoint'),
         checkpoint'.requests = checkpoint.requests, checkpoint'.pages >= checkpoint.pages
  PROVE  CopyOK(q)'
<1>1. /\ CopyOK(q) /\ runners[q].cp \in Checkpoint /\ checkpoint \in Checkpoint
  BY DEF Core, Typed, Runner
<1>2. ~Requesting(q)' BY DEF Requesting
<1>3. ~runners[q].cp.terminal BY <1>1 DEF CopyOK, Core, WithinPlan
<1>4. runners[q].pc = "stale" => ~SamePending(runners[q].cp)'
  BY <1>1 DEF SamePending, CopyOK, Pending
<1>5. QED BY <1>1, <1>2, <1>3, <1>4 DEF CopyOK, Checkpoint

(* A resolution by r, which is then at pc with the new checkpoint or over. *)
LEMMA CoreResolved ==
  ASSUME Core, NEW r \in Runners, runners[r].pc = "await", Mine(r),
         Typed', checkpoint'.pages <= MaxPages, checkpoint'.bytes <= MaxBytes,
         report' = NoReport => checkpoint'.retries <= MaxRetries,
         ~Pending(checkpoint'),
         checkpoint'.requests = checkpoint.requests, checkpoint'.pages >= checkpoint.pages,
         runners'[r].pc \in {"done", "loop"},
         runners'[r].cp \in {InitialCheckpoint, checkpoint'},
         runners'[r].pc = "loop" => runners'[r].cp = checkpoint',
         \A q \in Runners : q # r => runners'[q] = runners[q]
  PROVE  Core'
<1>1. checkpoint' \in Checkpoint BY DEF Typed
<1>2. WithinPlan' BY DEF Core, WithinPlan, Pending
<1>3. CopyOK(r)' /\ ~Requesting(r)'
  BY <1>1 DEF CopyOK, Requesting, InitialCheckpoint, Checkpoint
<1>4. ASSUME NEW q \in Runners, q # r PROVE CopyOK(q)'
  BY <1>1, <1>4, MineHolds, CopyResolved
<1>5. OneRequester' BY <1>3, RequesterKept DEF Core
<1>6. QED BY <1>2, <1>3, <1>4, <1>5 DEF Core

(* The fact of the reservation is a fact.                                  *)
LEMMA OwnFactType ==
  ASSUME Typed, NEW r \in Runners
  PROVE  OwnFact(r) \in Fact /\ OwnFact(r).sequence = runners[r].cp.requests
BY DEF Typed, OwnFact, FactOf, Fact, Runner, Checkpoint

LEMMA CoreConcludes ==
  ASSUME Core, NEW r \in Runners, runners[r].pc = "await", Concludes(r),
         UNCHANGED <<lapsed, expired, sent>>
  PROVE  Core' /\ report' # NoReport
<1>1. PICK c \in Checkpoint, reason \in Reasons \ {"terminal_page"} :
    /\ Mine(r) /\ Ends(r)
    /\ c.pages = runners[r].cp.pages /\ c.requests = runners[r].cp.requests
    /\ c.terminal = runners[r].cp.terminal /\ c.duplicates = runners[r].cp.duplicates
    /\ c.bytes <= MaxBytes
    /\ facts' = facts \cup {OwnFact(r)}
    /\ checkpoint' = Unreserved(c)
    /\ report' = ReportOf(c, reason)
    /\ UNCHANGED <<observations, committed>>
  BY DEF Concludes
<1>2. /\ checkpoint = runners[r].cp /\ checkpoint \in Checkpoint BY <1>1, MineHolds
<1>3. /\ checkpoint' \in Checkpoint /\ ~Pending(checkpoint')
      /\ checkpoint'.requests = checkpoint.requests /\ checkpoint'.pages = checkpoint.pages
      /\ checkpoint'.bytes <= MaxBytes
  BY <1>1, <1>2, UnreservedFields
<1>4. report' \in Report /\ report' # NoReport
  BY <1>1, ReportFields DEF Core, Typed
<1>5. /\ runners' \in [Runners -> Runner]
      /\ runners'[r].pc = "done" /\ runners'[r].cp = InitialCheckpoint
      /\ \A q \in Runners : q # r => runners'[q] = runners[q]
  BY <1>1, EndsFields DEF Core
<1>6. facts' \subseteq Fact /\ IsFiniteSet(facts')
  BY <1>1, OwnFactType, FS_AddElement DEF Core, Typed
<1>7. Typed' BY <1>1, <1>3, <1>4, <1>5, <1>6 DEF Core, Typed
<1>8. checkpoint'.pages <= MaxPages /\ checkpoint'.pages >= checkpoint.pages
  BY <1>2, <1>3 DEF Core, WithinPlan, Checkpoint
<1>9. QED BY <1>1, <1>3, <1>4, <1>5, <1>7, <1>8, CoreResolved

LEMMA CoreTriesAgain ==
  ASSUME Core, NEW r \in Runners, runners[r].pc = "await", TriesAgain(r),
         UNCHANGED <<lapsed, expired, sent>>
  PROVE  Core'
<1> DEFINE c == Retried(runners[r].cp)
<1>1. /\ checkpoint = runners[r].cp /\ checkpoint \in Checkpoint /\ Mine(r)
  BY MineHolds DEF TriesAgain
<1>2. /\ c \in Checkpoint /\ c.pages = checkpoint.pages /\ c.requests = checkpoint.requests
      /\ c.bytes = checkpoint.bytes /\ c.retries = checkpoint.retries + 1
  BY <1>1 DEF Retried, Checkpoint
<1> HIDE DEF c
<1>3. /\ checkpoint' \in Checkpoint /\ ~Pending(checkpoint')
      /\ checkpoint'.requests = checkpoint.requests /\ checkpoint'.pages = checkpoint.pages
      /\ checkpoint'.bytes = checkpoint.bytes /\ checkpoint'.retries = checkpoint.retries + 1
      /\ checkpoint' = Unreserved(c)
  BY <1>1, <1>2, UnreservedFields DEF TriesAgain, c
<1>4. /\ runners' \in [Runners -> Runner]
      /\ runners'[r].pc = "loop" /\ runners'[r].cp = checkpoint'
      /\ \A q \in Runners : q # r => runners'[q] = runners[q]
  BY <1>3, GoesFields DEF Core, TriesAgain, c
<1>5. facts' \subseteq Fact /\ IsFiniteSet(facts')
  BY OwnFactType, FS_AddElement DEF Core, Typed, TriesAgain
<1>6. Typed' BY <1>3, <1>4, <1>5 DEF Core, Typed, TriesAgain
<1>7. /\ checkpoint'.pages <= MaxPages /\ checkpoint'.pages >= checkpoint.pages
      /\ checkpoint'.bytes <= MaxBytes /\ checkpoint'.retries <= MaxRetries
  BY <1>1, <1>3, LimitsAssumption DEF Core, WithinPlan, Checkpoint, TriesAgain
<1>8. QED BY <1>1, <1>3, <1>4, <1>6, <1>7, CoreResolved

LEMMA CoreCommits ==
  ASSUME Core, NEW r \in Runners, runners[r].pc = "await", Commits(r),
         UNCHANGED <<lapsed, expired, sent>>
  PROVE  Core'
<1>1. PICK p \in Pages, after \in Checkpoint :
    /\ Mine(r)
    /\ after.pages = runners[r].cp.pages + 1 /\ after.requests = runners[r].cp.requests
    /\ after.retries = 0 /\ after.bytes <= MaxBytes /\ after.owner = NoRunner
    /\ facts' = facts \cup {OwnFact(r)}
    /\ observations' = observations \cup {p.records[i] : i \in DOMAIN p.records}
    /\ checkpoint' = after
    /\ committed' = Append(committed, p)
    /\ Goes(r, "loop", after)
    /\ UNCHANGED report
  BY DEF Commits
<1>2. /\ checkpoint = runners[r].cp /\ checkpoint \in Checkpoint /\ checkpoint.pages < MaxPages
  BY <1>1, MineHolds
<1>3. /\ runners' \in [Runners -> Runner]
      /\ runners'[r].pc = "loop" /\ runners'[r].cp = checkpoint'
      /\ \A q \in Runners : q # r => runners'[q] = runners[q]
  BY <1>1, GoesFields DEF Core
<1>4. facts' \subseteq Fact /\ IsFiniteSet(facts')
  BY <1>1, OwnFactType, FS_AddElement DEF Core, Typed
<1>5. observations' \subseteq Ids \X Values /\ IsFiniteSet(observations')
  BY <1>1, PageFields, FS_Union DEF Core, Typed
<1>6. committed' \in Seq(Pages) BY <1>1 DEF Core, Typed
<1>7. Typed' BY <1>1, <1>3, <1>4, <1>5, <1>6 DEF Core, Typed
<1>8. /\ checkpoint'.pages <= MaxPages /\ checkpoint'.pages >= checkpoint.pages
      /\ checkpoint'.bytes <= MaxBytes /\ checkpoint'.retries <= MaxRetries
      /\ checkpoint'.requests = checkpoint.requests /\ ~Pending(checkpoint')
  <2>1. /\ checkpoint'.pages = checkpoint.pages + 1 /\ checkpoint'.retries = 0
        /\ checkpoint'.bytes <= MaxBytes /\ checkpoint'.owner = NoRunner
        /\ checkpoint'.requests = checkpoint.requests
    BY <1>1, <1>2
  <2>2. /\ checkpoint.pages \in Nat /\ MaxPages \in Nat /\ MaxRetries \in Nat
        /\ checkpoint.pages < MaxPages
    BY <1>2, LimitsAssumption DEF Checkpoint
  <2>3. ~Pending(checkpoint') BY <2>1 DEF Pending
  <2>4. QED BY <2>1, <2>2, <2>3
<1>9. QED BY <1>1, <1>3, <1>7, <1>8, CoreResolved

(* An interruption that is allowed ends the run and takes the reservation. *)
Interrupts(r) == LET c == runners[r].cp IN
  /\ runners[r].pc = "stale" /\ MayInterrupt(c) /\ Ends(r)
  /\ facts' = facts \cup {FactOf(c, c.retries + 1)}
  /\ checkpoint' = Unreserved(c)
  /\ report' = ReportOf(c, "request_interrupted")
  /\ UNCHANGED <<observations, lapsed, expired, sent, committed>>

LEMMA InterruptKinds ==
  ASSUME NEW r \in Runners, InterruptStale(r)
  PROVE  Interrupts(r) \/ (Ends(r) /\ UNCHANGED <<stored, lapsed, expired, sent, committed>>)
BY DEF InterruptStale, Interrupts, stored

LEMMA InterruptsFields ==
  ASSUME Core, NEW r \in Runners, Interrupts(r)
  PROVE  /\ checkpoint = runners[r].cp /\ checkpoint \in Checkpoint /\ Pending(checkpoint)
         /\ report = NoReport /\ ~checkpoint.terminal
         /\ checkpoint' = Unreserved(checkpoint)
         /\ facts' = facts \cup {FactOf(checkpoint, checkpoint.retries + 1)}
         /\ report' = ReportOf(checkpoint, "request_interrupted")
         /\ report' \in Report /\ report' # NoReport
         /\ runners' \in [Runners -> Runner]
         /\ runners'[r].pc = "done" /\ runners'[r].cp = InitialCheckpoint
         /\ \A q \in Runners : q # r => runners'[q] = runners[q]
<1>1. /\ Typed /\ CopyOK(r) /\ checkpoint \in Checkpoint /\ WithinPlan BY DEF Core, Typed
<1>2. /\ checkpoint = runners[r].cp /\ Pending(checkpoint) /\ report = NoReport
      /\ ~checkpoint.terminal
  BY <1>1 DEF Interrupts, MayInterrupt, CopyOK, WithinPlan
<1>3. /\ checkpoint' = Unreserved(checkpoint)
      /\ facts' = facts \cup {FactOf(checkpoint, checkpoint.retries + 1)}
      /\ report' = ReportOf(checkpoint, "request_interrupted")
  BY <1>2 DEF Interrupts
<1>4. report' \in Report /\ report' # NoReport
  BY <1>1, <1>3, ReportFields DEF Typed, Reasons, BlockedReasons
<1>5. QED BY <1>1, <1>2, <1>3, <1>4, EndsFields DEF Interrupts

LEMMA CoreInterrupts == ASSUME Core, NEW r \in Runners, Interrupts(r) PROVE Core'
<1>1. /\ checkpoint \in Checkpoint /\ checkpoint = runners[r].cp
      /\ checkpoint' = Unreserved(checkpoint) /\ report' # NoReport
  BY InterruptsFields
<1>2. /\ checkpoint' \in Checkpoint /\ ~Pending(checkpoint')
      /\ checkpoint'.requests = checkpoint.requests /\ checkpoint'.pages = checkpoint.pages
      /\ checkpoint'.bytes = checkpoint.bytes /\ checkpoint'.terminal = checkpoint.terminal
      /\ checkpoint'.owner = NoRunner
  BY <1>1, UnreservedFields
<1>3. facts' \subseteq Fact /\ IsFiniteSet(facts')
  <2>1. FactOf(checkpoint, checkpoint.retries + 1) \in Fact
    BY <1>1 DEF FactOf, Fact, Checkpoint
  <2>2. facts' = facts \cup {FactOf(checkpoint, checkpoint.retries + 1)}
    BY InterruptsFields
  <2>3. QED BY <2>1, <2>2, FS_AddElement DEF Core, Typed
<1>4. Typed' BY <1>2, <1>3, InterruptsFields DEF Core, Typed, Interrupts
<1>5. WithinPlan' BY <1>1, <1>2 DEF Core, WithinPlan
<1>6. CopyOK(r)' /\ ~Requesting(r)' BY <1>2, InterruptsFields, CopyEnded
<1>7. ASSUME NEW q \in Runners, q # r PROVE CopyOK(q)'
  <2>1. /\ CopyOK(q) /\ runners'[q] = runners[q] /\ runners[q].cp \in Checkpoint
        /\ report = NoReport /\ Pending(checkpoint) /\ ~checkpoint.terminal
    BY <1>7, InterruptsFields DEF Core, Typed, Runner
  <2>2. CASE Requesting(q)
    <3>1. checkpoint = runners[q].cp BY <2>1, <2>2 DEF CopyOK
    <3>2. runners'[q].pc \in {"send", "await"} /\ Requesting(q)'
      BY <2>1, <2>2 DEF Requesting
    <3>3. QED BY <1>1, <1>2, <2>1, <2>2, <3>1, <3>2 DEF CopyOK, Checkpoint
  <2>3. CASE ~Requesting(q)
    BY <1>1, <1>2, <2>1, <2>3, CopyResolved DEF Checkpoint
  <2>4. QED BY <2>2, <2>3
<1>8. OneRequester' BY <1>6, InterruptsFields, RequesterKept DEF Core
<1>9. QED BY <1>4, <1>5, <1>6, <1>7, <1>8 DEF Core

-----------------------------------------------------------------------------
(***************************************************************************)
(* The steps by their effect on the stored run                             *)
(***************************************************************************)
Resolves(r) ==
  /\ runners[r].pc = "await" /\ UNCHANGED <<lapsed, expired, sent>>
  /\ Concludes(r) \/ TriesAgain(r) \/ Commits(r)

Leaves(r) == Ends(r) /\ UNCHANGED <<stored, lapsed, expired, sent, committed>>

Clocks == /\ lapsed' \in BOOLEAN /\ expired' \in BOOLEAN
          /\ UNCHANGED <<stored, runners, sent, committed>>

LEMMA StepKinds ==
  ASSUME Core, [Next]_vars
  PROVE  \/ \E r \in Runners :
              \/ Start(r) \/ Decide(r) \/ Finish(r) \/ Send(r) \/ Leaves(r)
              \/ Reserves(r) \/ Interrupts(r) \/ Resolves(r)
         \/ Clocks
<1>1. CASE \E r \in Runners : Start(r) \/ Decide(r) \/ Finish(r) \/ Send(r)
  BY <1>1
<1>2. ASSUME NEW r \in Runners, InterruptStale(r) \/ Reserve(r) \/ Dies(r)
      PROVE  Interrupts(r) \/ Reserves(r) \/ Leaves(r)
  BY <1>2, InterruptKinds, ReserveKinds DEF Leaves, Dies
<1>3. ASSUME NEW r \in Runners, Resolve(r)
      PROVE  Resolves(r) \/ Leaves(r)
  BY <1>3, ResolveKinds DEF Resolves, Leaves, GivesUp, Resolve, stored
<1>4. CASE ReservationLapses \/ AuthorityExpires \/ UNCHANGED vars
  BY <1>4 DEF ReservationLapses, AuthorityExpires, vars, stored, Clocks, Core, Typed
<1>5. QED BY <1>1, <1>2, <1>3, <1>4 DEF Next

LEMMA CoreClocks == ASSUME Core, Clocks PROVE Core'
BY DEF Core, Clocks, stored, Typed, WithinPlan, CopyOK, OneRequester, Requesting, SamePending,
       Pending

LEMMA CoreNext == Core /\ [Next]_vars => Core'
<1> SUFFICES ASSUME Core, [Next]_vars PROVE Core' OBVIOUS
<1>1. ASSUME NEW r \in Runners, Resolves(r) PROVE Core'
  BY <1>1, CoreConcludes, CoreTriesAgain, CoreCommits DEF Resolves
<1>2. ASSUME NEW r \in Runners, Leaves(r) PROVE Core'
  BY <1>2, CoreDies DEF Leaves
<1>3. QED
  BY <1>1, <1>2, StepKinds, CoreStart, CoreDecide, CoreFinish, CoreSend, CoreReserves,
     CoreInterrupts, CoreClocks

(* Every variable of a run has its type and its counters keep to the plan, *)
(* whatever calls of run_bounded_discovery, crashes, lapses and answers    *)
(* there are.                                                              *)
THEOREM DiscoveryTypeCorrect == Spec => []DiscoveryTypeOK
<1>1. Core => DiscoveryTypeOK
  BY DEF Core, Typed, WithinPlan, DiscoveryTypeOK
<1>2. QED BY <1>1, CoreInit, CoreNext, PTL DEF Spec

-----------------------------------------------------------------------------
(***************************************************************************)
(* What the source is asked                                                *)
(***************************************************************************)
(* The sequences sent are those of reservations, one request each; the     *)
(* reservation a call is about to send has not been sent.                  *)
SentOnce ==
  /\ Len(sent) <= checkpoint.requests
  /\ \A i \in DOMAIN sent : sent[i].sequence \in 1..checkpoint.requests
                           /\ sent[i].page \in 1..checkpoint.pages + 1
  /\ \A i, j \in DOMAIN sent : sent[i].sequence = sent[j].sequence => i = j
  /\ \A r \in Runners : runners[r].pc = "send" =>
       /\ Len(sent) < checkpoint.requests
       /\ \A i \in DOMAIN sent : sent[i].sequence < checkpoint.requests

(* The requests for page n, sent or about to be, come within b and         *)
(* b + MaxRetries + 1.                                                     *)
InWindow(n, b) ==
  /\ \A i \in DOMAIN sent : sent[i].page = n =>
       b < sent[i].sequence /\ sent[i].sequence <= b + MaxRetries + 1
  /\ \A r \in Runners : runners[r].pc = "send" /\ runners[r].cp.pages + 1 = n =>
       b < runners[r].cp.requests /\ runners[r].cp.requests <= b + MaxRetries + 1

(* The reservations made for the page the checkpoint asks for.             *)
Attempts(c) == c.retries + (IF Pending(c) THEN 1 ELSE 0)

Windows ==
  /\ \A n \in 1..MaxPages : \E b \in Int : InWindow(n, b)
  /\ report = NoReport => \A i \in DOMAIN sent : sent[i].page = checkpoint.pages + 1 =>
       sent[i].sequence > checkpoint.requests - Attempts(checkpoint)

Paced == SentOnce /\ Windows

LEMMA PacedInit == Init => Paced
<1> SUFFICES ASSUME Init PROVE Paced OBVIOUS
<1>1. sent = <<>> /\ \A r \in Runners : runners[r].pc = "new" BY DEF Init
<1>2. DOMAIN sent = {} /\ Len(sent) = 0 BY <1>1
<1>3. SentOnce BY <1>1, <1>2 DEF SentOnce, Init, InitialCheckpoint
<1>4. \A n \in 1..MaxPages : InWindow(n, 0) BY <1>1, <1>2 DEF InWindow
<1>5. Windows BY <1>2, <1>4 DEF Windows
<1>6. QED BY <1>3, <1>5 DEF Paced

(* A step that sends and reserves nothing, and either ends the run, or     *)
(* counts the attempt it resolves, or goes on to another page.             *)
LEMMA PacedQuiet ==
  ASSUME Core, Core', Paced, UNCHANGED sent,
         checkpoint'.requests = checkpoint.requests,
         checkpoint'.pages >= checkpoint.pages,
         \A q \in Runners : runners'[q].pc = "send" => runners'[q] = runners[q],
         report' = NoReport =>
           /\ report = NoReport
           /\ \/ /\ checkpoint'.pages = checkpoint.pages
                 /\ Attempts(checkpoint') = Attempts(checkpoint)
              \/ checkpoint'.pages = checkpoint.pages + 1
  PROVE  Paced'
<1>1. /\ checkpoint \in Checkpoint /\ checkpoint' \in Checkpoint /\ sent \in Seq(Sending)
      /\ DOMAIN sent = 1..Len(sent)
  BY DEF Core, Typed
<1>2. \A i \in DOMAIN sent : sent[i] \in Sending BY <1>1
<1>3. SentOnce'
  <2>1. SentOnce BY DEF Paced
  <2>2. \A i \in DOMAIN sent : sent[i].sequence \in 1..checkpoint'.requests
                             /\ sent[i].page \in 1..checkpoint'.pages + 1
    <3> SUFFICES ASSUME NEW i \in DOMAIN sent
                 PROVE  /\ sent[i].sequence \in 1..checkpoint'.requests
                        /\ sent[i].page \in 1..checkpoint'.pages + 1
      OBVIOUS
    <3>1. /\ sent[i].sequence \in 1..checkpoint.requests
          /\ sent[i].page \in 1..checkpoint.pages + 1
      BY <2>1 DEF SentOnce
    <3>2. checkpoint.pages \in Nat /\ checkpoint'.pages \in Nat
      BY <1>1 DEF Checkpoint
    <3>3. QED BY <3>1, <3>2
  <2>3. ASSUME NEW q \in Runners, runners'[q].pc = "send"
        PROVE  runners[q].pc = "send"
    BY <2>3
  <2>4. \A q \in Runners : runners'[q].pc = "send" =>
          /\ Len(sent) < checkpoint'.requests
          /\ \A i \in DOMAIN sent : sent[i].sequence < checkpoint'.requests
    BY <2>1, <2>3 DEF SentOnce
  <2>5. Len(sent) <= checkpoint'.requests BY <2>1 DEF SentOnce
  <2>6. \A i, j \in DOMAIN sent : sent[i].sequence = sent[j].sequence => i = j
    BY <2>1 DEF SentOnce
  <2>7. QED BY <2>2, <2>4, <2>5, <2>6 DEF SentOnce
<1>4. \A n \in 1..MaxPages : \E b \in Int : InWindow(n, b)'
  <2> SUFFICES ASSUME NEW n \in 1..MaxPages PROVE \E b \in Int : InWindow(n, b)'
    OBVIOUS
  <2>1. PICK b \in Int : InWindow(n, b) BY DEF Paced, Windows
  <2>2. InWindow(n, b)' BY <2>1 DEF InWindow
  <2>3. QED BY <2>2
<1>5. ASSUME report' = NoReport, NEW i \in DOMAIN sent, sent[i].page = checkpoint'.pages + 1
      PROVE  sent[i].sequence > checkpoint'.requests - Attempts(checkpoint')
  <2>1. CASE /\ checkpoint'.pages = checkpoint.pages
             /\ Attempts(checkpoint') = Attempts(checkpoint)
    <3>1. report = NoReport /\ sent[i].page = checkpoint.pages + 1 BY <1>5, <2>1
    <3>2. sent[i].sequence > checkpoint.requests - Attempts(checkpoint)
      BY <1>5, <3>1 DEF Paced, Windows
    <3>3. QED BY <2>1, <3>2
  <2>2. CASE checkpoint'.pages = checkpoint.pages + 1
    <3>1. sent[i].page \in 1..checkpoint.pages + 1 BY <1>5 DEF Paced, SentOnce
    <3>2. checkpoint.pages \in Nat BY <1>1 DEF Checkpoint
    <3>3. QED BY <1>5, <2>2, <3>1, <3>2
  <2>3. QED BY <1>5, <2>1, <2>2
<1>6. Windows' BY <1>4, <1>5 DEF Windows
<1>7. QED BY <1>3, <1>6 DEF Paced

(* A reservation: the page's attempts so far are one less than it.         *)
LEMMA PacedReserves == ASSUME Core, Core', Paced, NEW r \in Runners, Reserves(r) PROVE Paced'
<1> DEFINE c == checkpoint
<1>1. /\ c \in Checkpoint /\ ~Pending(c) /\ report = NoReport /\ c.requests < MaxRequests
      /\ c.retries <= MaxRetries
      /\ c' \in Checkpoint /\ Pending(c') /\ c'.requests = c.requests + 1
      /\ c'.pages = c.pages /\ c'.retries = c.retries
      /\ runners'[r].pc = "send" /\ runners'[r].cp = c'
      /\ \A q \in Runners : q # r => runners'[q] = runners[q] /\ ~Requesting(q)
  BY ReservesFields DEF Core, WithinPlan
<1>2. /\ sent' = sent /\ sent \in Seq(Sending) /\ DOMAIN sent = 1..Len(sent)
      /\ \A i \in DOMAIN sent : sent[i] \in Sending
  BY DEF Core, Typed, Reserves
<1>3. \A q \in Runners : runners'[q].pc = "send" => q = r
  BY <1>1 DEF Requesting
<1>4. SentOnce BY DEF Paced
<1>5. \A i \in DOMAIN sent : sent[i].sequence \in 1..c.requests
                           /\ sent[i].page \in 1..c.pages + 1
  BY <1>4 DEF SentOnce
<1>6. SentOnce'
  <2>1. \A i \in DOMAIN sent : /\ sent[i].sequence \in 1..c'.requests
                             /\ sent[i].page \in 1..c'.pages + 1
                             /\ sent[i].sequence < c'.requests
    <3> SUFFICES ASSUME NEW i \in DOMAIN sent
                 PROVE  /\ sent[i].sequence \in 1..c'.requests
                        /\ sent[i].page \in 1..c'.pages + 1
                        /\ sent[i].sequence < c'.requests
      OBVIOUS
    <3>1. sent[i].sequence \in 1..c.requests /\ sent[i].page \in 1..c.pages + 1
      BY <1>5
    <3>2. c.requests \in Nat /\ c'.requests = c.requests + 1 /\ c'.pages = c.pages
      BY <1>1 DEF Checkpoint
    <3>3. QED BY <3>1, <3>2
  <2>2. Len(sent) < c'.requests /\ Len(sent) <= c'.requests
    BY <1>1, <1>2, <1>4 DEF SentOnce, Checkpoint
  <2>3. QED BY <1>2, <1>4, <2>1, <2>2 DEF SentOnce
<1>7. \A n \in 1..MaxPages : \E b \in Int : InWindow(n, b)'
  <2> SUFFICES ASSUME NEW n \in 1..MaxPages PROVE \E b \in Int : InWindow(n, b)'
    OBVIOUS
  <2>1. MaxRetries \in Nat /\ MaxPages \in Nat BY LimitsAssumption
  <2>2. CASE n = c.pages + 1
    <3>1. PICK b \in Int : b = c.requests - c.retries BY <1>1 DEF Checkpoint
    <3>2. ASSUME NEW i \in DOMAIN sent, sent[i].page = n
          PROVE  b < sent[i].sequence /\ sent[i].sequence <= b + MaxRetries + 1
      <4>1. sent[i].sequence > c.requests - Attempts(c)
        BY <1>1, <2>2, <3>2 DEF Paced, Windows
      <4>2. Attempts(c) = c.retries BY <1>1 DEF Attempts, Checkpoint
      <4>3. sent[i].sequence \in Nat /\ sent[i].sequence <= c.requests
        BY <1>2, <1>5, <3>2 DEF Sending
      <4>4. c.requests \in Nat /\ c.retries \in Nat BY <1>1 DEF Checkpoint
      <4>5. QED BY <1>1, <2>1, <3>1, <4>1, <4>2, <4>3, <4>4
    <3>3. b < c'.requests /\ c'.requests <= b + MaxRetries + 1
      BY <1>1, <2>1, <3>1 DEF Checkpoint
    <3>4. InWindow(n, b)'
      BY <1>1, <1>2, <1>3, <3>2, <3>3 DEF InWindow
    <3>5. QED BY <3>4
  <2>3. CASE n # c.pages + 1
    <3>1. PICK b \in Int : InWindow(n, b) BY DEF Paced, Windows
    <3>2. InWindow(n, b)' BY <1>1, <1>2, <1>3, <2>3, <3>1 DEF InWindow
    <3>3. QED BY <3>2
  <2>4. QED BY <2>2, <2>3
<1>8. ASSUME NEW i \in DOMAIN sent, sent[i].page = c'.pages + 1
      PROVE  sent[i].sequence > c'.requests - Attempts(c')
  <2>1. sent[i].sequence > c.requests - Attempts(c)
    BY <1>1, <1>8 DEF Paced, Windows
  <2>2. Attempts(c) = c.retries /\ Attempts(c') = c.retries + 1
    BY <1>1 DEF Attempts, Checkpoint
  <2>3. QED BY <1>1, <1>2, <2>1, <2>2 DEF Checkpoint, Sending
<1>9. Windows' BY <1>2, <1>7, <1>8 DEF Windows
<1>10. QED BY <1>6, <1>9 DEF Paced

(* Sending: the request was reserved, and is in its page's window.         *)
LEMMA PacedSend == ASSUME Core, Core', Paced, NEW r \in Runners, Send(r) PROVE Paced'
<1> DEFINE c == runners[r].cp
           new == [sequence |-> c.requests, page |-> c.pages + 1]
<1>1. /\ c \in Checkpoint /\ checkpoint \in Checkpoint /\ CopyOK(r) /\ runners[r].pc = "send"
      /\ SentOnce /\ Requesting(r)
  BY DEF Core, Typed, Runner, Paced, Send, Requesting
<1>2. checkpoint.requests = c.requests /\ checkpoint.pages = c.pages
  BY <1>1, UnreservedFields DEF CopyOK
<1>3. /\ runners'[r].pc = "await" /\ \A q \in Runners : q # r => runners'[q] = runners[q]
  BY <1>1, GoesFields DEF Send, Core
<1>4. \A q \in Runners : runners'[q].pc # "send"
  BY <1>1, <1>3 DEF Core, OneRequester, Requesting
<1>5. /\ sent \in Seq(Sending) /\ new \in Sending /\ sent' = Append(sent, new)
      /\ new.sequence = c.requests /\ new.page = c.pages + 1
      /\ UNCHANGED <<checkpoint, report>>
  BY <1>1 DEF Core, Typed, Send, stored, Sending, Checkpoint
<1> HIDE DEF new
<1>6. /\ Len(sent) \in Nat /\ Len(sent') = Len(sent) + 1
      /\ DOMAIN sent = 1..Len(sent) /\ DOMAIN sent' = 1..Len(sent) + 1
      /\ sent'[Len(sent) + 1] = new /\ \A i \in 1..Len(sent) : sent'[i] = sent[i]
      /\ \A i \in 1..Len(sent) : sent[i] \in Sending
  BY <1>5
<1>7. /\ Len(sent) < checkpoint.requests
      /\ \A i \in DOMAIN sent : sent[i].sequence < checkpoint.requests
  BY <1>1 DEF SentOnce
<1>8. \A i \in DOMAIN sent' : i \in DOMAIN sent \/ i = Len(sent) + 1
  BY <1>6
<1>9. SentOnce'
  <2>1. Len(sent') <= checkpoint'.requests
    BY <1>1, <1>5, <1>6, <1>7 DEF Checkpoint
  <2>2. ASSUME NEW i \in DOMAIN sent'
        PROVE  /\ sent'[i].sequence \in 1..checkpoint'.requests
               /\ sent'[i].page \in 1..checkpoint'.pages + 1
    <3>1. CASE i \in DOMAIN sent BY <1>1, <1>5, <1>6, <3>1 DEF SentOnce
    <3>2. CASE i = Len(sent) + 1
      <4>1. sent'[i].sequence = c.requests /\ sent'[i].page = c.pages + 1
        BY <1>5, <1>6, <3>2
      <4>2. c.requests \in Nat /\ c.pages \in Nat BY <1>1 DEF Checkpoint
      <4>3. Len(sent) < c.requests BY <1>2, <1>7
      <4>4. checkpoint'.requests = c.requests /\ checkpoint'.pages = c.pages
        BY <1>2, <1>5
      <4>5. QED BY <1>6, <4>1, <4>2, <4>3, <4>4
    <3>3. QED BY <1>8, <3>1, <3>2
  <2>3. ASSUME NEW i \in DOMAIN sent', NEW j \in DOMAIN sent',
               sent'[i].sequence = sent'[j].sequence
        PROVE  i = j
    <3>1. CASE i \in DOMAIN sent /\ j \in DOMAIN sent
      BY <1>1, <1>6, <2>3, <3>1 DEF SentOnce
    <3>2. ASSUME NEW k \in DOMAIN sent
          PROVE  sent'[k].sequence # sent'[Len(sent) + 1].sequence
      <4>1. sent'[k] = sent[k] /\ sent[k].sequence \in Nat BY <1>6 DEF Sending
      <4>2. sent[k].sequence < c.requests /\ c.requests \in Nat
        BY <1>1, <1>2, <1>7 DEF Checkpoint
      <4>3. sent'[Len(sent) + 1].sequence = c.requests BY <1>5, <1>6
      <4>4. QED BY <4>1, <4>2, <4>3
    <3>3. QED BY <1>8, <2>3, <3>1, <3>2
  <2>4. QED BY <1>4, <2>1, <2>2, <2>3 DEF SentOnce
<1>10. \A n \in 1..MaxPages : \E b \in Int : InWindow(n, b)'
  <2> SUFFICES ASSUME NEW n \in 1..MaxPages PROVE \E b \in Int : InWindow(n, b)'
    OBVIOUS
  <2>1. PICK b \in Int : InWindow(n, b) BY DEF Paced, Windows
  <2>2. ASSUME NEW i \in DOMAIN sent', sent'[i].page = n
        PROVE  b < sent'[i].sequence /\ sent'[i].sequence <= b + MaxRetries + 1
    <3>1. CASE i \in DOMAIN sent BY <1>6, <2>1, <2>2, <3>1 DEF InWindow
    <3>2. CASE i = Len(sent) + 1 BY <1>1, <1>5, <1>6, <2>1, <2>2, <3>2 DEF InWindow
    <3>3. QED BY <1>8, <3>1, <3>2
  <2>3. InWindow(n, b)' BY <1>4, <2>2 DEF InWindow
  <2>4. QED BY <2>3
<1>11. ASSUME report' = NoReport, NEW i \in DOMAIN sent', sent'[i].page = checkpoint'.pages + 1
      PROVE  sent'[i].sequence > checkpoint'.requests - Attempts(checkpoint')
  <2>1. CASE i \in DOMAIN sent BY <1>5, <1>6, <1>11, <2>1 DEF Paced, Windows
  <2>2. CASE i = Len(sent) + 1
    <3>1. checkpoint = c BY <1>1, <1>5, <1>11 DEF CopyOK
    <3>2. c.owner = r BY <1>1 DEF CopyOK
    <3>3. Attempts(checkpoint) = c.retries + 1
      BY <3>1, <3>2, NullAssumption DEF Attempts, Pending
    <3>4. sent'[i].sequence = c.requests BY <1>5, <1>6, <2>2
    <3>5. c.requests \in Nat /\ c.retries \in Nat BY <1>1 DEF Checkpoint
    <3>6. checkpoint' = c BY <1>5, <3>1
    <3>7. Attempts(checkpoint') = c.retries + 1 BY <3>1, <3>3, <3>6
    <3>8. QED BY <3>4, <3>5, <3>6, <3>7
  <2>3. QED BY <1>8, <1>11, <2>1, <2>2
<1>12. Windows' BY <1>10, <1>11 DEF Windows
<1>13. QED BY <1>9, <1>12 DEF Paced

(* What a resolution does to the counters.                                 *)
LEMMA ResolvesFields ==
  ASSUME Core, Core', NEW r \in Runners, Resolves(r)
  PROVE  /\ checkpoint = runners[r].cp /\ report = NoReport
         /\ Pending(checkpoint) /\ ~Pending(checkpoint')
         /\ checkpoint'.requests = checkpoint.requests
         /\ facts' = facts \cup {OwnFact(r)}
         /\ OwnFact(r).sequence = checkpoint.requests
         /\ runners'[r].pc \in {"done", "loop"}
         /\ runners'[r].cp \in {InitialCheckpoint, checkpoint'}
         /\ \A q \in Runners : q # r => runners'[q] = runners[q]
         /\ \/ /\ report' # NoReport /\ checkpoint'.pages = checkpoint.pages
               /\ checkpoint'.duplicates = checkpoint.duplicates
               /\ ~checkpoint'.terminal
               /\ UNCHANGED <<observations, committed>>
            \/ /\ report' = NoReport /\ checkpoint'.pages = checkpoint.pages
               /\ checkpoint'.retries = checkpoint.retries + 1
               /\ checkpoint'.duplicates = checkpoint.duplicates
               /\ ~checkpoint'.terminal
               /\ UNCHANGED <<observations, committed>>
            \/ /\ report' = NoReport /\ checkpoint'.pages = checkpoint.pages + 1
               /\ Commits(r)
<1>1. /\ Mine(r) /\ runners[r].pc = "await" BY DEF Resolves, Concludes, TriesAgain, Commits
<1>2. /\ checkpoint = runners[r].cp /\ report = NoReport /\ Pending(checkpoint)
      /\ checkpoint \in Checkpoint /\ ~checkpoint.terminal
  BY <1>1, MineHolds
<1>3. Typed /\ OwnFact(r).sequence = checkpoint.requests BY <1>2, OwnFactType DEF Core
<1>4. CASE Concludes(r)
  <2>1. PICK c \in Checkpoint, reason \in Reasons \ {"terminal_page"} :
    /\ Ends(r)
    /\ c.pages = runners[r].cp.pages /\ c.requests = runners[r].cp.requests
    /\ c.terminal = runners[r].cp.terminal /\ c.duplicates = runners[r].cp.duplicates
    /\ facts' = facts \cup {OwnFact(r)}
    /\ checkpoint' = Unreserved(c)
    /\ report' = ReportOf(c, reason)
    /\ UNCHANGED <<observations, committed>>
    BY <1>4 DEF Concludes
  <2>2. report' # NoReport BY <2>1, <1>3, ReportFields DEF Typed
  <2>3. /\ ~Pending(checkpoint') /\ checkpoint'.requests = checkpoint.requests
        /\ checkpoint'.pages = checkpoint.pages /\ ~checkpoint'.terminal
        /\ checkpoint'.duplicates = checkpoint.duplicates
    BY <1>2, <2>1, UnreservedFields
  <2>4. QED BY <1>2, <1>3, <2>1, <2>2, <2>3, EndsFields
<1>5. CASE TriesAgain(r)
  <2> DEFINE c == Retried(runners[r].cp)
  <2>1. /\ c \in Checkpoint /\ c.pages = checkpoint.pages /\ c.requests = checkpoint.requests
        /\ c.retries = checkpoint.retries + 1 /\ c.terminal = checkpoint.terminal
        /\ c.duplicates = checkpoint.duplicates
    BY <1>2 DEF Retried, Checkpoint
  <2>2. /\ facts' = facts \cup {OwnFact(r)} /\ checkpoint' = Unreserved(c)
        /\ Goes(r, "loop", Unreserved(c)) /\ UNCHANGED <<report, observations, committed>>
    BY <1>5 DEF TriesAgain
  <2> HIDE DEF c
  <2>3. /\ checkpoint' \in Checkpoint /\ ~Pending(checkpoint')
        /\ checkpoint'.requests = checkpoint.requests
        /\ checkpoint'.pages = checkpoint.pages /\ ~checkpoint'.terminal
        /\ checkpoint'.retries = checkpoint.retries + 1
        /\ checkpoint'.duplicates = checkpoint.duplicates
    BY <1>2, <2>1, <2>2, UnreservedFields
  <2>4. /\ runners'[r].pc = "loop" /\ runners'[r].cp = checkpoint'
        /\ \A q \in Runners : q # r => runners'[q] = runners[q]
    BY <1>3, <2>2, <2>3, GoesFields
  <2>5. QED BY <1>2, <1>3, <2>2, <2>3, <2>4
<1>6. CASE Commits(r)
  <2>1. PICK p \in Pages, after \in Checkpoint :
    /\ after.pages = runners[r].cp.pages + 1 /\ after.requests = runners[r].cp.requests
    /\ after.owner = NoRunner
    /\ facts' = facts \cup {OwnFact(r)}
    /\ checkpoint' = after
    /\ Goes(r, "loop", after)
    /\ UNCHANGED report
    BY <1>6 DEF Commits
  <2>2. /\ runners'[r].pc = "loop" /\ runners'[r].cp = checkpoint'
        /\ \A q \in Runners : q # r => runners'[q] = runners[q]
    BY <1>3, <2>1, GoesFields
  <2>3. QED BY <1>2, <1>3, <1>6, <2>1, <2>2 DEF Pending
<1>7. QED BY <1>4, <1>5, <1>6 DEF Resolves

LEMMA PacedNext == Core /\ Core' /\ Paced /\ [Next]_vars => Paced'
<1> SUFFICES ASSUME Core, Core', Paced, [Next]_vars PROVE Paced' OBVIOUS
<1>1. checkpoint \in Checkpoint /\ checkpoint' \in Checkpoint BY DEF Core, Typed
<1>2. ASSUME NEW r \in Runners, Start(r) \/ Leaves(r) \/ Decide(r) \/ Finish(r)
      PROVE  Paced'
  <2>1. UNCHANGED <<checkpoint, sent>> /\ (report' = NoReport => report = NoReport)
    BY <1>2 DEF Start, Leaves, Decide, Finish, stored, Terminalized
  <2>2. \A q \in Runners : runners'[q].pc = "send" => runners'[q] = runners[q]
    <3>1. CASE Start(r) \/ Leaves(r) \/ Finish(r)
      <4>1. \/ Ends(r)
            \/ Goes(r, "stale", checkpoint) \/ Goes(r, "begin", checkpoint)
        BY <3>1 DEF Start, Leaves, Finish
      <4>2. QED BY <1>1, <4>1, EndsFields, GoesFields DEF Core
    <3>2. CASE Decide(r) BY <3>2, DecideFields
    <3>3. QED BY <1>2, <3>1, <3>2
  <2>3. QED BY <1>1, <2>1, <2>2, PacedQuiet DEF Checkpoint
<1>3. ASSUME NEW r \in Runners, Interrupts(r) PROVE Paced'
  <2>1. /\ checkpoint' = Unreserved(checkpoint) /\ report' # NoReport /\ sent' = sent
        /\ \A q \in Runners : runners'[q].pc = "send" => runners'[q] = runners[q]
    BY <1>3, InterruptsFields DEF Interrupts
  <2>2. checkpoint'.requests = checkpoint.requests /\ checkpoint'.pages = checkpoint.pages
    BY <1>1, <2>1, UnreservedFields
  <2>3. QED BY <1>1, <2>1, <2>2, PacedQuiet DEF Checkpoint
<1>4. ASSUME NEW r \in Runners, Resolves(r) PROVE Paced'
  <2>1. /\ sent' = sent /\ checkpoint'.requests = checkpoint.requests
        /\ \A q \in Runners : runners'[q].pc = "send" => runners'[q] = runners[q]
    BY <1>4, ResolvesFields DEF Resolves
  <2>2. checkpoint'.pages >= checkpoint.pages
    BY <1>1, <1>4, ResolvesFields DEF Checkpoint
  <2>3. report' = NoReport =>
           /\ report = NoReport
           /\ \/ /\ checkpoint'.pages = checkpoint.pages
                 /\ Attempts(checkpoint') = Attempts(checkpoint)
              \/ checkpoint'.pages = checkpoint.pages + 1
    BY <1>1, <1>4, ResolvesFields DEF Attempts, Checkpoint
  <2>4. QED BY <2>1, <2>2, <2>3, PacedQuiet
<1>5. CASE Clocks
  BY <1>1, <1>5, PacedQuiet DEF Clocks, stored, Checkpoint
<1>6. QED BY <1>2, <1>3, <1>4, <1>5, StepKinds, PacedSend, PacedReserves

-----------------------------------------------------------------------------
(* Numbers that are apart are no more than the interval they lie in.       *)
LEMMA WindowCount ==
  ASSUME NEW n \in 1..MaxPages, NEW b \in Int, Typed, SentOnce, InWindow(n, b)
  PROVE  Cardinality({i \in DOMAIN sent : sent[i].page = n}) <= MaxRetries + 1
<1> DEFINE S == {i \in DOMAIN sent : sent[i].page = n}
           T == b + 1 .. b + MaxRetries + 1
           f == [i \in S |-> sent[i].sequence]
<1>1. MaxRetries \in Nat BY LimitsAssumption
<1>2. IsFiniteSet(T) /\ Cardinality(T) = MaxRetries + 1
  BY <1>1, FS_Interval
<1>3. ASSUME NEW i \in S PROVE sent[i].sequence \in Nat /\ sent[i] \in Sending
  <2>1. sent \in Seq(Sending) /\ i \in DOMAIN sent BY DEF Typed
  <2>2. sent[i] \in Sending BY <2>1
  <2>3. QED BY <2>2 DEF Sending
<1>4. f \in [S -> T]
  BY <1>1, <1>3 DEF InWindow
<1>5. \A i, j \in S : f[i] = f[j] => i = j BY DEF SentOnce
<1> HIDE DEF S, T, f
<1>6. f \in Injection(S, T) BY <1>4, <1>5 DEF Injection, IsInjective
<1>7. Cardinality(S) <= MaxRetries + 1 BY <1>2, <1>6, FS_Injection
<1>8. QED BY <1>7 DEF S

(* However many calls there are and whenever they die or are overtaken     *)
(* (reservation and recovery of _DiscoveryStore), the source gets no       *)
(* request twice, at most max_requests, and at most 1 + max_retries for    *)
(* one page.                                                               *)
THEOREM RequestsAreWithinBounds == Spec => []RequestsWithinBounds
<1>1. Core /\ Paced => RequestsWithinBounds
  <2> SUFFICES ASSUME Core, Paced PROVE RequestsWithinBounds OBVIOUS
  <2>1. Typed /\ SentOnce /\ WithinPlan /\ checkpoint \in Checkpoint
    BY DEF Core, Paced, Typed
  <2>2. Len(sent) <= MaxRequests
    BY <2>1, LimitsAssumption DEF SentOnce, WithinPlan, Checkpoint, Typed
  <2>3. \A n \in 1..MaxPages :
          Cardinality({i \in DOMAIN sent : sent[i].page = n}) <= MaxRetries + 1
    BY <2>1, WindowCount DEF Paced, Windows
  <2>4. QED BY <2>1, <2>2, <2>3 DEF RequestsWithinBounds, SentOnce
<1>2. QED BY <1>1, CoreInit, CoreNext, PacedInit, PacedNext, PTL DEF Spec

-----------------------------------------------------------------------------
(***************************************************************************)
(* What the checkpoint counts                                              *)
(***************************************************************************)
(* Every reservation that is not pending has one fact.                     *)
Booked ==
  /\ \A f \in facts : f.sequence <= checkpoint.requests
  /\ Pending(checkpoint) => \A f \in facts : f.sequence < checkpoint.requests
  /\ Cardinality(facts) = checkpoint.requests - (IF Pending(checkpoint) THEN 1 ELSE 0)

LEMMA BookedInit == Init => Booked
BY FS_EmptySet DEF Init, Booked, InitialCheckpoint, Pending

(* Resolving a reservation adds its fact, which was not there.             *)
LEMMA BookedResolved ==
  ASSUME Core, Core', Booked, Pending(checkpoint), ~Pending(checkpoint'),
         checkpoint'.requests = checkpoint.requests,
         NEW fact \in Fact, fact.sequence = checkpoint.requests, facts' = facts \cup {fact}
  PROVE  Booked'
<1>1. /\ checkpoint.requests \in Nat /\ facts \subseteq Fact /\ IsFiniteSet(facts)
  BY DEF Core, Typed, Checkpoint
<1>2. \A f \in facts : f.sequence < checkpoint.requests BY DEF Booked
<1>3. fact \notin facts BY <1>1, <1>2
<1>4. Cardinality(facts') = Cardinality(facts) + 1 BY <1>1, <1>3, FS_AddElement
<1>5. Cardinality(facts) = checkpoint.requests - 1 BY DEF Booked
<1>6. \A f \in facts' : f.sequence <= checkpoint'.requests
  BY <1>1, <1>2 DEF Fact
<1>7. QED BY <1>1, <1>4, <1>5, <1>6 DEF Booked

LEMMA BookedNext == Core /\ Core' /\ Booked /\ [Next]_vars => Booked'
<1> SUFFICES ASSUME Core, Core', Booked, [Next]_vars PROVE Booked' OBVIOUS
<1>1. checkpoint \in Checkpoint /\ facts \subseteq Fact BY DEF Core, Typed
<1>2. ASSUME UNCHANGED <<checkpoint, facts>> PROVE Booked'
  BY <1>2 DEF Booked, Pending
<1>3. ASSUME NEW r \in Runners, Reserves(r) PROVE Booked'
  <2>1. /\ ~Pending(checkpoint) /\ Pending(checkpoint') /\ facts' = facts
        /\ checkpoint'.requests = checkpoint.requests + 1
    BY <1>3, ReservesFields DEF Reserves
  <2>2. \A f \in facts : f.sequence \in Nat BY <1>1 DEF Fact
  <2>3. \A f \in facts : f.sequence < checkpoint'.requests
    BY <1>1, <2>1, <2>2 DEF Booked, Checkpoint
  <2>4. QED BY <1>1, <2>1, <2>2, <2>3 DEF Booked, Checkpoint
<1>4. ASSUME NEW r \in Runners, Interrupts(r) PROVE Booked'
  <2> DEFINE fact == FactOf(checkpoint, checkpoint.retries + 1)
  <2>1. /\ checkpoint' = Unreserved(checkpoint) /\ Pending(checkpoint)
        /\ facts' = facts \cup {fact}
    BY <1>4, InterruptsFields
  <2>2. ~Pending(checkpoint') /\ checkpoint'.requests = checkpoint.requests
    BY <1>1, <2>1, UnreservedFields
  <2>3. fact \in Fact /\ fact.sequence = checkpoint.requests
    BY <1>1 DEF FactOf, Fact, Checkpoint
  <2> HIDE DEF fact
  <2>4. QED BY <2>1, <2>2, <2>3, BookedResolved
<1>5. ASSUME NEW r \in Runners, Resolves(r) PROVE Booked'
  <2>1. /\ Pending(checkpoint) /\ ~Pending(checkpoint')
        /\ checkpoint'.requests = checkpoint.requests
        /\ facts' = facts \cup {OwnFact(r)} /\ OwnFact(r).sequence = checkpoint.requests
    BY <1>5, ResolvesFields
  <2>2. OwnFact(r) \in Fact BY OwnFactType DEF Core
  <2>3. QED BY <2>1, <2>2, BookedResolved
<1>6. ASSUME NEW r \in Runners, Start(r) \/ Leaves(r) \/ Decide(r) \/ Finish(r) \/ Send(r)
      PROVE  Booked'
  BY <1>2, <1>6 DEF Start, Leaves, Decide, Finish, Send, stored
<1>7. CASE Clocks BY <1>2, <1>7 DEF Clocks, stored
<1>8. QED BY <1>3, <1>4, <1>5, <1>6, <1>7, StepKinds

(* The records of the pages up to each committed one: the recursive        *)
(* function of PagesCountedOnce, of which each step adds the last value.   *)
Totals(f) ==
  f = [i \in 0..Len(committed) |-> IF i = 0 THEN 0 ELSE f[i - 1] + Len(committed[i].records)]

Committed(i) == UNION {IdsOf(committed[j]) : j \in 1..i}

(* The observations and duplicates of the checkpoint are the records of    *)
(* the committed pages, each observed once.                                *)
Counted ==
  /\ checkpoint.pages = Len(committed)
  /\ \A o, q \in observations : o[1] = q[1] => o = q
  /\ Seen = UNION {IdsOf(committed[i]) : i \in DOMAIN committed}
  /\ \E f : Totals(f)
  /\ \A f : Totals(f) =>
       f[Len(committed)] = Cardinality(observations) + checkpoint.duplicates
  /\ \A i \in DOMAIN committed :
       committed[i].total # NoTotal => Cardinality(Committed(i)) <= committed[i].total
  /\ checkpoint.terminal => committed # <<>> /\ committed[Len(committed)].next = "terminal"

LEMMA CountedInit == Init => Counted
<1> SUFFICES ASSUME Init PROVE Counted OBVIOUS
<1>1. /\ committed = <<>> /\ observations = {} /\ checkpoint = InitialCheckpoint
  BY DEF Init
<1>2. Len(committed) = 0 /\ DOMAIN committed = {} BY <1>1
<1>3. Cardinality(observations) = 0 BY <1>1, FS_EmptySet
<1>4. /\ checkpoint.pages = 0 /\ checkpoint.duplicates = 0 /\ checkpoint.terminal = FALSE
  BY <1>1 DEF InitialCheckpoint
<1>5. Totals([i \in 0..0 |-> 0]) BY <1>2 DEF Totals
<1>6. ASSUME NEW f, Totals(f) PROVE f[Len(committed)] = 0
  BY <1>2, <1>6 DEF Totals
<1>7. QED BY <1>1, <1>2, <1>3, <1>4, <1>5, <1>6 DEF Counted, Seen

(* Pairs that agree where they have the same first element are as many as  *)
(* their first elements.                                                   *)
LEMMA FirstsCount ==
  ASSUME NEW S, IsFiniteSet(S), \A o, q \in S : o[1] = q[1] => o = q
  PROVE  /\ IsFiniteSet({o[1] : o \in S})
         /\ Cardinality({o[1] : o \in S}) = Cardinality(S)
<1> DEFINE T == {o[1] : o \in S}
           f == [o \in S |-> o[1]]
<1>1. f \in Surjection(S, T) BY DEF Surjection
<1>2. f \in Injection(S, T) BY DEF Injection, IsInjective
<1> HIDE DEF T, f
<1>3. IsFiniteSet(T) /\ Cardinality(T) = Cardinality(S) BY <1>1, <1>2, FS_Surjection
<1>4. QED BY <1>3 DEF T

(* The invariant depends on these variables only.                          *)
LEMMA CountedKept ==
  ASSUME Counted, UNCHANGED <<observations, committed>>,
         checkpoint'.pages = checkpoint.pages,
         checkpoint'.duplicates = checkpoint.duplicates,
         checkpoint'.terminal => checkpoint.terminal
  PROVE  Counted'
<1>1. \A f : Totals(f)' <=> Totals(f) BY DEF Totals
<1>2. \A i : Committed(i)' = Committed(i) BY DEF Committed, IdsOf
<1>3. Seen' = Seen BY DEF Seen
<1>4. QED BY <1>1, <1>2, <1>3 DEF Counted

(* Appending a page keeps the pages before it.                             *)
LEMMA Appended ==
  ASSUME NEW pages \in Seq(Pages), NEW p \in Pages, NEW more, more = Append(pages, p)
  PROVE  /\ Len(pages) \in Nat /\ DOMAIN pages = 1..Len(pages)
         /\ Len(more) = Len(pages) + 1 /\ DOMAIN more = 1..Len(pages) + 1
         /\ more[Len(pages) + 1] = p
         /\ \A i \in 1..Len(pages) : more[i] = pages[i]
         /\ more # <<>>
OBVIOUS

LEMMA CountedCommits ==
  ASSUME Core, Core', Counted, NEW r \in Runners, runners[r].pc = "await", Commits(r)
  PROVE  Counted'
<1> DEFINE n == Len(committed)
<1>1. PICK p \in Pages, after \in Checkpoint :
    /\ Mine(r) /\ ~Conflict(p) /\ ~Exceeds(p)
    /\ after.pages = runners[r].cp.pages + 1
    /\ after.terminal = (p.next = "terminal")
    /\ after.duplicates
         = runners[r].cp.duplicates + Len(p.records) - Cardinality(IdsOf(p) \ Seen)
    /\ observations' = observations \cup {p.records[i] : i \in DOMAIN p.records}
    /\ checkpoint' = after
    /\ committed' = Append(committed, p)
  BY DEF Commits
<1>2. checkpoint = runners[r].cp /\ checkpoint \in Checkpoint BY <1>1, MineHolds
<1>3. /\ committed \in Seq(Pages) /\ IsFiniteSet(observations)
      /\ IsFiniteSet(observations') /\ observations' \subseteq Ids \X Values
  BY DEF Core, Typed
<1>4. /\ n \in Nat /\ DOMAIN committed = 1..n
      /\ Len(committed') = n + 1 /\ DOMAIN committed' = 1..n + 1
      /\ committed'[n + 1] = p
      /\ \A i \in 1..n : committed'[i] = committed[i]
      /\ committed' # <<>>
  BY <1>1, <1>3, Appended
<1> HIDE DEF n
<1>5. IsFiniteSet(IdsOf(p)) /\ Len(p.records) \in Nat
  <2>1. IsFiniteSet(IdsOf(p)) /\ p.records \in Seq(Ids \X Values) BY PageFields
  <2>2. Len(p.records) \in Nat BY <2>1
  <2>3. QED BY <2>1, <2>2
<1>6. checkpoint'.pages = Len(committed')
  BY <1>1, <1>2, <1>4 DEF Counted, n
<1>7. \A o, q \in observations' : o[1] = q[1] => o = q
  <2> SUFFICES ASSUME NEW o \in observations', NEW q \in observations', o[1] = q[1]
               PROVE  o = q
    OBVIOUS
  <2>1. o[2] = q[2] BY <1>1 DEF Conflict
  <2>2. o \in Ids \X Values /\ q \in Ids \X Values BY <1>3
  <2>3. QED BY <2>1, <2>2
<1>8. Seen' = Seen \cup IdsOf(p)
  <2>1. Seen = {o[1] : o \in observations} /\ Seen' = {o[1] : o \in observations'}
    BY DEF Seen
  <2>2. IdsOf(p) = {p.records[i][1] : i \in DOMAIN p.records} BY DEF IdsOf
  <2>3. observations' = observations \cup {p.records[i] : i \in DOMAIN p.records}
    BY <1>1
  <2>4. QED BY <2>1, <2>2, <2>3
<1>9. /\ IsFiniteSet(Seen) /\ Cardinality(Seen) = Cardinality(observations)
      /\ Cardinality(Seen') = Cardinality(observations')
  BY <1>3, <1>7, FirstsCount DEF Seen, Counted
<1>10. /\ Cardinality(observations) \in Nat /\ Cardinality(IdsOf(p) \ Seen) \in Nat
       /\ Cardinality(observations') = Cardinality(observations) + Cardinality(IdsOf(p) \ Seen)
  <2>1. IsFiniteSet(IdsOf(p) \ Seen) BY <1>5, FS_Difference
  <2>2. Seen' = Seen \cup (IdsOf(p) \ Seen) /\ Seen \cap (IdsOf(p) \ Seen) = {} BY <1>8
  <2>3. Cardinality(Seen') = Cardinality(Seen) + Cardinality(IdsOf(p) \ Seen) - Cardinality({})
    BY <1>9, <2>1, <2>2, FS_Union
  <2>4. /\ Cardinality(Seen) \in Nat /\ Cardinality(IdsOf(p) \ Seen) \in Nat
        /\ Cardinality({}) = 0
    BY <1>9, <2>1, FS_CardinalityType, FS_EmptySet
  <2> HIDE DEF Conflict
  <2>5. QED BY <1>9, <2>3, <2>4
<1>11. Seen' = UNION {IdsOf(committed'[i]) : i \in DOMAIN committed'}
  BY <1>4, <1>8 DEF Counted
<1>12. \E f : Totals(f)'
  <2>1. PICK f : Totals(f) BY DEF Counted
  <2>2. PICK g : g = [i \in 0..n + 1 |-> IF i <= n THEN f[i] ELSE f[n] + Len(p.records)]
    OBVIOUS
  <2>3. ASSUME NEW i \in 0..n + 1
        PROVE  g[i] = IF i = 0 THEN 0 ELSE g[i - 1] + Len(committed'[i].records)
    <3>1. CASE i = 0 BY <1>4, <2>1, <2>2, <3>1 DEF Totals, n
    <3>2. CASE i \in 1..n
      <4>1. f = [j \in 0..n |->
                  IF j = 0 THEN 0 ELSE f[j - 1] + Len(committed[j].records)]
        BY <2>1 DEF Totals, n
      <4>2. f[i] = f[i - 1] + Len(committed[i].records)
        BY <1>4, <3>2, <4>1
      <4>3. g[i] = f[i] /\ g[i - 1] = f[i - 1] BY <1>4, <2>2, <3>2
      <4>4. QED BY <1>4, <3>2, <4>2, <4>3
    <3>3. CASE i = n + 1 BY <1>4, <2>2, <3>3
    <3>4. QED BY <1>4, <3>1, <3>2, <3>3
  <2>4. g = [i \in 0..n + 1 |->
               IF i = 0 THEN 0 ELSE g[i - 1] + Len(committed'[i].records)]
    BY <2>2, <2>3
  <2>5. QED BY <1>4, <2>4 DEF Totals
<1>13. ASSUME NEW f, Totals(f)'
       PROVE  f[Len(committed')] = Cardinality(observations') + checkpoint'.duplicates
  <2>1. f = [i \in 0..n + 1 |->
               IF i = 0 THEN 0 ELSE f[i - 1] + Len(committed'[i].records)]
    BY <1>4, <1>13 DEF Totals
  <2>2. PICK g : g = [i \in 0..n |-> f[i]] OBVIOUS
  <2>3. ASSUME NEW i \in 0..n
        PROVE  g[i] = IF i = 0 THEN 0 ELSE g[i - 1] + Len(committed[i].records)
    <3>1. CASE i = 0 BY <1>4, <2>1, <2>2, <3>1
    <3>2. CASE i \in 1..n
      <4>1. f[i] = f[i - 1] + Len(committed'[i].records) BY <1>4, <2>1, <3>2
      <4>2. g[i] = f[i] /\ g[i - 1] = f[i - 1] BY <1>4, <2>2, <3>2
      <4>3. QED BY <1>4, <3>2, <4>1, <4>2
    <3>3. QED BY <1>4, <3>1, <3>2
  <2>4. Totals(g) BY <1>4, <2>2, <2>3 DEF Totals, n
  <2>5. g[n] = Cardinality(observations) + checkpoint.duplicates
    BY <2>4 DEF Counted, n
  <2>6. f[n + 1] = f[n] + Len(p.records) /\ f[n] = g[n] BY <1>4, <2>1, <2>2
  <2>7. checkpoint'.duplicates
          = checkpoint.duplicates + Len(p.records) - Cardinality(IdsOf(p) \ Seen)
    BY <1>1, <1>2
  <2>8. checkpoint.duplicates \in Nat BY <1>2 DEF Checkpoint
  <2>9. f[n + 1] = Cardinality(observations) + checkpoint.duplicates + Len(p.records)
    BY <2>5, <2>6
  <2>10. QED BY <1>4, <1>5, <1>10, <2>7, <2>8, <2>9
<1>14. ASSUME NEW i \in DOMAIN committed', committed'[i].total # NoTotal
       PROVE  Cardinality(Committed(i)') <= committed'[i].total
  <2>1. CASE i \in 1..n
    <3>1. Committed(i)' = Committed(i) BY <1>4, <2>1 DEF Committed
    <3>2. QED BY <1>4, <1>14, <2>1, <3>1 DEF Counted
  <2>2. CASE i = n + 1
    <3>1. Committed(i)' = Seen \cup IdsOf(p)
      BY <1>4, <1>8, <1>11, <2>2 DEF Committed
    <3>2. p.total # NoTotal BY <1>4, <1>14, <2>2
    <3>3. p.total \in Nat BY <3>2, PageFields DEF Page
    <3>4. IsFiniteSet(Seen \cup IdsOf(p)) BY <1>5, <1>9, FS_Union
    <3>5. Cardinality(Seen \cup IdsOf(p)) \in Nat BY <3>4, FS_CardinalityType
    <3>6. Cardinality(Seen \cup IdsOf(p)) <= p.total
      BY <1>1, <3>2, <3>3, <3>5 DEF Exceeds
    <3>7. QED BY <1>4, <2>2, <3>1, <3>6
  <2>3. QED BY <1>4, <2>1, <2>2
<1>15. checkpoint'.terminal =>
         committed' # <<>> /\ committed'[Len(committed')].next = "terminal"
  BY <1>1, <1>4
<1>16. QED BY <1>6, <1>7, <1>11, <1>12, <1>13, <1>14, <1>15 DEF Counted

LEMMA CountedNext == Core /\ Core' /\ Counted /\ [Next]_vars => Counted'
<1> SUFFICES ASSUME Core, Core', Counted, [Next]_vars PROVE Counted' OBVIOUS
<1>1. checkpoint \in Checkpoint BY DEF Core, Typed
<1>2. ASSUME UNCHANGED <<checkpoint, observations, committed>> PROVE Counted'
  BY <1>2, CountedKept
<1>3. ASSUME NEW r \in Runners, Reserves(r) PROVE Counted'
  BY <1>3, ReservesFields, CountedKept DEF Reserves
<1>4. ASSUME NEW r \in Runners, Interrupts(r) PROVE Counted'
  <2>1. checkpoint' = Unreserved(checkpoint) /\ UNCHANGED <<observations, committed>>
    BY <1>4, InterruptsFields DEF Interrupts
  <2>2. QED BY <1>1, <2>1, UnreservedFields, CountedKept
<1>5. ASSUME NEW r \in Runners, Resolves(r) PROVE Counted'
  BY <1>5, ResolvesFields, CountedKept, CountedCommits DEF Resolves
<1>6. ASSUME NEW r \in Runners, Start(r) \/ Leaves(r) \/ Decide(r) \/ Finish(r) \/ Send(r)
      PROVE  Counted'
  BY <1>2, <1>6 DEF Start, Leaves, Decide, Finish, Send, stored
<1>7. CASE Clocks BY <1>2, <1>7 DEF Clocks, stored
<1>8. QED BY <1>3, <1>4, <1>5, <1>6, <1>7, StepKinds

(* Whatever the source answers and whichever calls die, the stored         *)
(* checkpoint agrees with the pages committed: none is lost or counted     *)
(* twice, every record is observed once or is a duplicate, and every       *)
(* resolved request has its fact.                                          *)
THEOREM PagesAreCountedOnce == Spec => []PagesCountedOnce
<1>1. Core /\ Booked /\ Counted => PagesCountedOnce
  <2> SUFFICES ASSUME Core, Booked, Counted PROVE PagesCountedOnce OBVIOUS
  <2> DEFINE records(i) == Len(committed[i].records)
             total[i \in 0..Len(committed)] ==
               IF i = 0 THEN 0 ELSE total[i - 1] + records(i)
  <2>1. Totals(total) BY DEF Counted, Totals
  <2> HIDE DEF total
  <2>2. Cardinality(observations) + checkpoint.duplicates = total[Len(committed)]
    BY <2>1 DEF Counted
  <2>3. Cardinality(Seen) = Cardinality(observations)
    BY FirstsCount DEF Seen, Counted, Core, Typed
  <2>4. QED BY <2>2, <2>3 DEF PagesCountedOnce, Counted, Booked, total
<1>2. QED BY <1>1, CoreInit, CoreNext, BookedInit, BookedNext, CountedInit, CountedNext,
             PTL DEF Spec

-----------------------------------------------------------------------------
(***************************************************************************)
(* What a report says                                                      *)
(***************************************************************************)
(* The report a call is about to store has the numbers of its copy; one    *)
(* that says the endpoint is complete has those of the stored run.         *)
DraftOK(r) ==
  LET c == runners[r].cp  d == runners[r].draft IN
  runners[r].pc = "finish" =>
    /\ d \in Report /\ d.requests = c.requests /\ d.pages = c.pages
    /\ d.unique <= Cardinality(observations)
    /\ d.reason \in PartialReasons \cup {"authority_expired", "terminal_page"}
    /\ d.reason = "terminal_page" => c.terminal /\ d = ReportOf(checkpoint, "terminal_page")

FinalReasons == ChangedReasons \cup {"terminal_page", "request_interrupted"}

ReportOK ==
  report # NoReport =>
    /\ report.requests <= checkpoint.requests /\ report.pages <= checkpoint.pages
    /\ report.unique <= Cardinality(observations)
    /\ report.reason \in FinalReasons => report = ReportOf(checkpoint, report.reason)
    /\ report.reason = "terminal_page" => checkpoint.terminal

Reported == (\A r \in Runners : DraftOK(r)) /\ ReportOK

LEMMA ReportedInit == Init => Reported
<1> SUFFICES ASSUME Init PROVE Reported OBVIOUS
<1>1. \A r \in Runners : runners[r].pc = "new" BY DEF Init
<1>2. QED BY <1>1 DEF Init, Reported, DraftOK, ReportOK

(* Steps that leave the report and the drafts alone.                       *)
LEMMA ReportedKept ==
  ASSUME Reported, UNCHANGED <<checkpoint, observations, report>>,
         \A q \in Runners : runners'[q].pc = "finish" => runners'[q] = runners[q]
  PROVE  Reported'
<1>1. \A c, reason : ReportOf(c, reason)' = ReportOf(c', reason) BY DEF ReportOf
<1>2. ReportOf(checkpoint, "terminal_page")' = ReportOf(checkpoint, "terminal_page")
  BY DEF ReportOf
<1>3. ReportOK'
  BY DEF Reported, ReportOK, ReportOf
<1>4. ASSUME NEW q \in Runners PROVE DraftOK(q)'
  BY <1>2 DEF Reported, DraftOK
<1>5. QED BY <1>3, <1>4 DEF Reported

(* While a reservation is made or resolved no draft says the endpoint is   *)
(* complete, so the other calls' drafts hold however the run goes on.      *)
LEMMA DraftsKept ==
  ASSUME Core, Core', Reported, ~checkpoint.terminal, observations \subseteq observations',
         \A q \in Runners : runners'[q].pc = "finish" => runners'[q] = runners[q]
  PROVE  \A q \in Runners : DraftOK(q)'
<1> SUFFICES ASSUME NEW q \in Runners, runners'[q].pc = "finish" PROVE DraftOK(q)'
  BY DEF DraftOK
<1>1. runners'[q] = runners[q] /\ runners[q].pc = "finish" OBVIOUS
<1>2. runners[q].draft.reason # "terminal_page"
  BY <1>1 DEF Reported, DraftOK, Core, CopyOK
<1>3. Cardinality(observations) <= Cardinality(observations')
  BY FS_Subset DEF Core, Typed
<1>4. /\ Cardinality(observations) \in Nat /\ Cardinality(observations') \in Nat
  BY FS_CardinalityType DEF Core, Typed
<1>5. runners[q].draft.unique <= Cardinality(observations) BY <1>1 DEF Reported, DraftOK
<1>6. runners[q].draft.unique \in Nat
  BY <1>1 DEF Reported, DraftOK, Report
<1>7. QED BY <1>1, <1>2, <1>3, <1>4, <1>5, <1>6 DEF Reported, DraftOK

(* A call that decides to end the run counts what it knows.                *)
LEMMA ReportedDecide == ASSUME Core, Core', Reported, NEW r \in Runners, Decide(r) PROVE Reported'
<1> DEFINE c == runners[r].cp
<1>1. /\ UNCHANGED <<checkpoint, observations, report>> /\ c \in Checkpoint /\ CopyOK(r)
      /\ IsFiniteSet(observations)
  BY DEF Decide, stored, Core, Typed, Runner
<1>2. CASE runners'[r].pc = "reserve"
  BY <1>1, <1>2, DecideFields, ReportedKept
<1>3. CASE runners'[r].pc # "reserve"
  <2>1. PICK reason \in PartialReasons \cup {"authority_expired", "terminal_page"} :
          /\ runners'[r].pc = "finish" /\ runners'[r].cp = c
          /\ runners'[r].draft = ReportOf(c, reason)
          /\ reason = "terminal_page" => c.terminal
    BY <1>3, DecideFields
  <2>2. reason \in Reasons BY DEF Reasons, BlockedReasons
  <2> DEFINE d == ReportOf(c, reason)
  <2>3. /\ d \in Report /\ d.reason = reason /\ d.requests = c.requests /\ d.pages = c.pages
        /\ d.unique = Cardinality(observations) /\ d.unique \in Nat
    BY <1>1, <2>2, ReportFields, FS_CardinalityType
  <2>4. reason = "terminal_page" => c.terminal /\ d = ReportOf(checkpoint, "terminal_page")
    BY <1>1, <2>1 DEF CopyOK
  <2>5. ReportOf(checkpoint, "terminal_page")' = ReportOf(checkpoint, "terminal_page")
    BY <1>1 DEF ReportOf
  <2> HIDE DEF d
  <2>6. DraftOK(r)'
    BY <1>1, <2>1, <2>3, <2>4, <2>5 DEF DraftOK, d
  <2>7. ASSUME NEW q \in Runners, q # r PROVE DraftOK(q)'
    <3>1. runners'[q] = runners[q] BY <2>7, DecideFields
    <3>2. QED BY <1>1, <2>5, <3>1 DEF Reported, DraftOK
  <2>8. ReportOK' BY <1>1 DEF Reported, ReportOK, ReportOf
  <2>9. QED BY <2>6, <2>7, <2>8 DEF Reported
<1>4. QED BY <1>2, <1>3

(* The report that is stored is the call's, unless there is one.           *)
LEMMA ReportedFinish == ASSUME Core, Core', Reported, NEW r \in Runners, Finish(r) PROVE Reported'
<1> DEFINE c == runners[r].cp  d == runners[r].draft
<1>1. /\ UNCHANGED <<checkpoint, observations>> /\ CopyOK(r) /\ DraftOK(r)
      /\ runners[r].pc = "finish" /\ report' = Terminalized(d)
      /\ c \in Checkpoint /\ checkpoint \in Checkpoint
  BY DEF Finish, Core, Typed, Runner, Reported
<1>2. /\ runners'[r].pc = "done" /\ \A q \in Runners : q # r => runners'[q] = runners[q]
  BY EndsFields DEF Finish, Core
<1>3. \A reason : ReportOf(checkpoint, reason)' = ReportOf(checkpoint, reason')
  BY <1>1 DEF ReportOf
<1>4. \A q \in Runners : DraftOK(q)'
  BY <1>1, <1>2 DEF Reported, DraftOK, ReportOf
<1>5. CASE report = NoReport
  <2>1. report' = d BY <1>1, <1>5 DEF Terminalized
  <2>2. d.requests <= checkpoint.requests /\ d.pages <= checkpoint.pages
    BY <1>1 DEF DraftOK, CopyOK
  <2>3. d.reason \in FinalReasons => d.reason = "terminal_page"
    BY <1>1 DEF DraftOK, FinalReasons, ChangedReasons, PartialReasons
  <2>4. d.reason = "terminal_page" => checkpoint.terminal /\ d = ReportOf(checkpoint, d.reason)
    BY <1>1 DEF DraftOK, CopyOK
  <2>5. d.unique <= Cardinality(observations) BY <1>1 DEF DraftOK
  <2>6. ReportOf(checkpoint, report.reason)' = ReportOf(checkpoint, d.reason)
    BY <1>1, <2>1 DEF ReportOf
  <2>7. ReportOK' BY <1>1, <2>1, <2>2, <2>3, <2>4, <2>5, <2>6 DEF ReportOK
  <2>8. QED BY <1>4, <2>7 DEF Reported
<1>6. CASE report # NoReport
  <2>1. report' = report BY <1>1, <1>6 DEF Terminalized
  <2>2. ReportOK' BY <1>1, <2>1 DEF Reported, ReportOK, ReportOf
  <2>3. QED BY <1>4, <2>2 DEF Reported
<1>7. QED BY <1>5, <1>6

(* A report written with the end of a reservation has the stored numbers.  *)
LEMMA ReportedEnded ==
  ASSUME Core, Core', NEW c \in Checkpoint, NEW reason \in Reasons \ {"terminal_page"},
         checkpoint' = Unreserved(c), UNCHANGED observations, report' = ReportOf(c, reason)
  PROVE  ReportOK'
<1>1. /\ checkpoint'.requests = c.requests /\ checkpoint'.pages = c.pages
      /\ checkpoint'.duplicates = c.duplicates /\ checkpoint' \in Checkpoint
  BY UnreservedFields
<1>2. /\ report'.reason = reason /\ report'.requests = c.requests /\ report'.pages = c.pages
      /\ report'.unique = Cardinality(observations)
  BY ReportFields DEF Core, Typed
<1>3. Cardinality(observations) \in Nat BY FS_CardinalityType DEF Core, Typed
<1>4. ReportOf(checkpoint, report.reason)' = report'
  BY <1>1, <1>2 DEF ReportOf
<1>5. QED BY <1>1, <1>2, <1>3, <1>4 DEF ReportOK, Checkpoint

LEMMA ReportedNext == Core /\ Core' /\ Reported /\ [Next]_vars => Reported'
<1> SUFFICES ASSUME Core, Core', Reported, [Next]_vars PROVE Reported' OBVIOUS
<1>1. checkpoint \in Checkpoint /\ checkpoint' \in Checkpoint /\ Typed BY DEF Core, Typed
<1>2. ASSUME NEW r \in Runners, Start(r) \/ Leaves(r) \/ Send(r) PROVE Reported'
  <2>1. UNCHANGED <<checkpoint, observations, report>>
    BY <1>2 DEF Start, Leaves, Send, stored
  <2>2. \/ Ends(r) \/ Goes(r, "await", runners[r].cp)
        \/ Goes(r, "stale", checkpoint) \/ Goes(r, "begin", checkpoint)
    BY <1>2 DEF Start, Leaves, Send
  <2>3. runners[r].cp \in Checkpoint BY DEF Core, Typed, Runner
  <2>4. \A q \in Runners : runners'[q].pc = "finish" => runners'[q] = runners[q]
    BY <1>1, <2>2, <2>3, EndsFields, GoesFields
  <2>5. QED BY <2>1, <2>4, ReportedKept
<1>3. ASSUME NEW r \in Runners, Reserves(r) PROVE Reported'
  <2>1. /\ ~checkpoint.terminal /\ report' = NoReport /\ UNCHANGED observations
        /\ \A q \in Runners : runners'[q].pc = "finish" => runners'[q] = runners[q]
    BY <1>3, ReservesFields DEF Reserves
  <2>2. QED BY <2>1, DraftsKept DEF Reported, ReportOK
<1>4. ASSUME NEW r \in Runners, Interrupts(r) PROVE Reported'
  <2>1. /\ ~checkpoint.terminal /\ UNCHANGED observations
        /\ checkpoint' = Unreserved(checkpoint)
        /\ report' = ReportOf(checkpoint, "request_interrupted")
        /\ \A q \in Runners : runners'[q].pc = "finish" => runners'[q] = runners[q]
    BY <1>4, InterruptsFields DEF Interrupts
  <2>2. ReportOK'
    BY <1>1, <2>1, ReportedEnded DEF Reasons, BlockedReasons
  <2>3. QED BY <2>1, <2>2, DraftsKept DEF Reported
<1>5. ASSUME NEW r \in Runners, Resolves(r) PROVE Reported'
  <2>1. /\ report = NoReport /\ ~checkpoint.terminal
        /\ \A q \in Runners : runners'[q].pc = "finish" => runners'[q] = runners[q]
    BY <1>5, ResolvesFields DEF Core, WithinPlan
  <2>2. observations \subseteq observations' /\ ReportOK'
    <3>1. CASE Concludes(r)
      <4>1. PICK c \in Checkpoint, reason \in Reasons \ {"terminal_page"} :
              /\ checkpoint' = Unreserved(c) /\ report' = ReportOf(c, reason)
              /\ UNCHANGED observations
        BY <3>1 DEF Concludes
      <4>2. QED BY <4>1, ReportedEnded
    <3>2. CASE TriesAgain(r) BY <2>1, <3>2 DEF TriesAgain, ReportOK
    <3>3. CASE Commits(r) BY <2>1, <3>3 DEF Commits, ReportOK
    <3>4. QED BY <1>5, <3>1, <3>2, <3>3 DEF Resolves
  <2>3. QED BY <2>1, <2>2, DraftsKept DEF Reported
<1>6. CASE Clocks BY <1>6, ReportedKept DEF Clocks, stored
<1>7. QED
  BY <1>2, <1>3, <1>4, <1>5, <1>6, StepKinds, ReportedDecide, ReportedFinish

(* A report that ends a reservation, or says the endpoint is complete, has *)
(* the numbers of the stored run, only a terminal page completes it, and   *)
(* no committed page has a total that the records by then exceed.          *)
THEOREM ReportsDoAddUp == Spec => []ReportsAddUp
<1>1. Core /\ Counted /\ Reported => ReportsAddUp
  <2> SUFFICES ASSUME Core, Counted, Reported PROVE ReportsAddUp OBVIOUS
  <2>1. \A i \in DOMAIN committed : committed[i].total # NoTotal =>
          Cardinality(UNION {IdsOf(committed[j]) : j \in 1..i}) <= committed[i].total
    BY DEF Counted, Committed
  <2>2. report # NoReport => report.pages <= Len(committed)
    BY DEF Counted, Reported, ReportOK
  <2>3. QED BY <2>1, <2>2 DEF ReportsAddUp, Reported, ReportOK, FinalReasons, Counted
<1>2. QED BY <1>1, CoreInit, CoreNext, CountedInit, CountedNext, ReportedInit, ReportedNext,
             PTL DEF Spec

=============================================================================
