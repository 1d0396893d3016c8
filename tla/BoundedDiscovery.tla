----------------------------- MODULE BoundedDiscovery -----------------------------
(***************************************************************************)
(* One bounded discovery run (src/src/performing_fire_corpus/              *)
(* bounded_discovery.py): the row of the run, its request facts and its    *)
(* observations in SQLite, and several calls of run_bounded_discovery, in  *)
(* different processes, for the same plan.                                 *)
(*                                                                         *)
(* Every transaction of _DiscoveryStore is one action.  A call works on a  *)
(* copy of the checkpoint it read or wrote last; it raises when the stored *)
(* row is no longer what it expects, which ends the call.  Reads a call    *)
(* makes while the stored reservation is its own are part of the           *)
(* transaction that resolves it: nobody else can change what they read     *)
(* unless that transaction has no effect.  Where no reservation protects a *)
(* call, its reads are steps of their own.                                 *)
(*                                                                         *)
(* Time: reservations lapse, authority expires and the elapsed budget runs *)
(* out at any moment.                                                      *)
(***************************************************************************)
EXTENDS Integers, Sequences, FiniteSets

CONSTANTS
  Runners,     \* calls, each with a runner_id of its own
  MaxPages, MaxRequests, MaxRetries, MaxBytes,   \* the plan's limits
  Sizes,       \* byte sizes of responses
  Pages,       \* what a source may answer: records, continuation, total
  Ids, Values, \* stable record ids, and their metadata
  NoRunner, NoTotal, NoReport

\* "malformed" is refused before its records are looked at, "loop" (a page
\* that repeats, skips or ambiguously ends) and "unsafe" after.
Continuations == {"next", "terminal", "malformed", "loop", "unsafe"}
Page == [records : Seq(Ids \X Values), next : Continuations,
         total : Nat \cup {NoTotal}]

ASSUME LimitsAssumption ==
  /\ {MaxPages, MaxRequests, MaxRetries, MaxBytes} \subseteq Nat \ {0}
  /\ Sizes \subseteq Nat
ASSUME PagesAssumption == Pages \subseteq Page

(***************************************************************************)
(* The checkpoint.  next_cursor and next_ordinal follow from page_sequence *)
(* (a cursor that does not is a "loop"); the pending request fact is       *)
(* <<requests_attempted, retries + 1>> of the checkpoint that reserved it. *)
(***************************************************************************)
Checkpoint == [pages : Nat, requests : Nat, retries : Nat, bytes : Nat,
               duplicates : Nat, total : Nat \cup {NoTotal}, terminal : BOOLEAN,
               owner : Runners \cup {NoRunner}]
InitialCheckpoint ==
  [pages |-> 0, requests |-> 0, retries |-> 0, bytes |-> 0, duplicates |-> 0,
   total |-> NoTotal, terminal |-> FALSE, owner |-> NoRunner]

\* Why a run stopped, and the state of the report that says so.
PartialReasons == {"page_budget_exhausted", "request_budget_exhausted",
                   "elapsed_budget_exhausted", "aggregate_byte_budget_exhausted"}
ChangedReasons == {"shape_drift", "record_changed", "expected_total_changed",
                   "pagination_loop"}
BlockedReasons == {"authority_expired", "transport_error", "response_refused",
                   "retry_exhausted", "retry_after_exceeds_limit",
                   "unsafe_cursor", "request_interrupted"}
Reasons ==
  PartialReasons \cup ChangedReasons \cup BlockedReasons \cup {"terminal_page"}
Report == [reason : Reasons, requests : Nat, pages : Nat, unique : Nat,
           duplicates : Nat]
Fact == [sequence : Nat, attempt : Nat]
ASSUME NullAssumption ==
  NoRunner \notin Runners /\ NoTotal \notin Nat /\ NoReport \notin Report

VARIABLES
  checkpoint,    \* the stored checkpoint of the run
  report,        \* the stored report, NoReport while the run is open
  facts,         \* table discovery_request_facts
  observations,  \* table discovery_observations: stable record id and value
  lapsed,        \* the stored reservation's expiry has passed
  expired,       \* the policy or robots evidence of the plan has expired
  runners,       \* the local state of each call
  sent,          \* history: the requests that went to the source
  committed      \* history: the pages committed

vars == <<checkpoint, report, facts, observations, lapsed, expired, runners,
          sent, committed>>
stored == <<checkpoint, report, facts, observations>>

Runner == [pc : {"new", "stale", "begin", "loop", "finish", "reserve", "send",
                 "await", "done"},
           cp : Checkpoint, draft : Report \cup {NoReport}]

Init ==
  /\ checkpoint = InitialCheckpoint /\ report = NoReport
  /\ facts = {} /\ observations = {}
  /\ lapsed = FALSE /\ expired = FALSE
  /\ runners = [r \in Runners |->
       [pc |-> "new", cp |-> InitialCheckpoint, draft |-> NoReport]]
  /\ sent = <<>> /\ committed = <<>>

-----------------------------------------------------------------------------
Pending(c) == c.owner # NoRunner
Unreserved(c) == [c EXCEPT !.owner = NoRunner]

\* The call goes on at pc with checkpoint c; a call that is over keeps nothing.
Goes(r, pc, c) ==
  runners' = [runners EXCEPT ![r] = [pc |-> pc, cp |-> c, draft |-> NoReport]]
Ends(r) == Goes(r, "done", InitialCheckpoint)

ReportOf(c, reason) ==
  [reason |-> reason, requests |-> c.requests, pages |-> c.pages,
   unique |-> Cardinality(observations), duplicates |-> c.duplicates]

(***************************************************************************)
(* Starting, and recovering a reservation nobody resolved                  *)
(***************************************************************************)
\* A finished run answers with its report; a live reservation makes the call
\* raise "busy"; a lapsed one must be recorded as interrupted.
Start(r) ==
  /\ runners[r].pc = "new"
  /\ IF report # NoReport \/ (Pending(checkpoint) /\ ~lapsed)
       THEN Ends(r)
       ELSE Goes(r, IF Pending(checkpoint) THEN "stale" ELSE "begin", checkpoint)
  /\ UNCHANGED <<stored, lapsed, expired, sent, committed>>

\* The stored reservation is the one in c.
SamePending(c) ==
  /\ checkpoint.owner = c.owner
  /\ checkpoint.requests = c.requests

MutInterruptsLive(c) == report = NoReport
MayInterrupt(c) == report = NoReport /\ SamePending(c) /\ lapsed

\* The sequence and attempt that name the fact of c's reservation.
FactOf(c, attempt) == [sequence |-> c.requests, attempt |-> attempt]

InterruptStale(r) == LET c == runners[r].cp IN
  /\ runners[r].pc = "stale"
  /\ Ends(r)
  /\ IF MayInterrupt(c)
       THEN /\ facts' = facts \cup {FactOf(c, c.retries + 1)}
            /\ checkpoint' = Unreserved(c)
            /\ report' = ReportOf(c, "request_interrupted")
       ELSE UNCHANGED <<facts, checkpoint, report>>
  /\ UNCHANGED <<observations, lapsed, expired, sent, committed>>

-----------------------------------------------------------------------------
(***************************************************************************)
(* The loop between requests                                               *)
(***************************************************************************)
Reached(count, limit) == count >= limit

\* What the checks before a request may find, given the clocks.  A call that
\* has just started checks the authority before all else.  Of several limits
\* reached at once the code names the first it looks at, the model any.
Stops(r) ==
  LET c == runners[r].cp
      due == (IF Reached(c.pages, MaxPages) THEN {"page_budget_exhausted"} ELSE {})
        \cup (IF Reached(c.requests, MaxRequests) THEN {"request_budget_exhausted"} ELSE {})
        \cup (IF Reached(c.bytes, MaxBytes)
                THEN {"aggregate_byte_budget_exhausted"} ELSE {})
        \cup (IF expired THEN {"authority_expired"} ELSE {})
  IN  IF expired /\ runners[r].pc = "begin" THEN {"authority_expired"}
      ELSE IF c.terminal THEN {"terminal_page"}
      ELSE due \cup {"elapsed_budget_exhausted"}
               \cup (IF due = {} THEN {"proceed"} ELSE {})

Decide(r) ==
  /\ runners[r].pc \in {"begin", "loop"}
  /\ \E reason \in Stops(r) :
       IF reason = "proceed"
         THEN Goes(r, "reserve", runners[r].cp)
         ELSE runners' = [runners EXCEPT ![r].pc = "finish",
                            ![r].draft = ReportOf(runners[r].cp, reason)]
  /\ UNCHANGED <<stored, lapsed, expired, sent, committed>>

\* A report already there stays; nothing else about the run is looked at.
Terminalized(draft) == IF report = NoReport THEN draft ELSE report

Finish(r) ==
  /\ runners[r].pc = "finish"
  /\ report' = Terminalized(runners[r].draft)
  /\ Ends(r)
  /\ UNCHANGED <<checkpoint, facts, observations, lapsed, expired, sent, committed>>

\* The stored checkpoint must still be the one this call has.
MayReserve(c) == report = NoReport /\ checkpoint = c

Reserve(r) ==
  LET c == runners[r].cp
      reserved == [c EXCEPT !.requests = @ + 1, !.owner = r]
  IN  /\ runners[r].pc = "reserve"
      /\ IF MayReserve(c)
           THEN /\ checkpoint' = reserved /\ lapsed' = FALSE
                /\ Goes(r, "send", reserved)
           ELSE Ends(r) /\ UNCHANGED <<checkpoint, lapsed>>
      /\ UNCHANGED <<report, facts, observations, expired, sent, committed>>

Send(r) == LET c == runners[r].cp IN
  /\ runners[r].pc = "send"
  /\ sent' = Append(sent, [sequence |-> c.requests, page |-> c.pages + 1])
  /\ Goes(r, "await", c)
  /\ UNCHANGED <<stored, lapsed, expired, committed>>

-----------------------------------------------------------------------------
(***************************************************************************)
(* Resolving the request                                                   *)
(***************************************************************************)
\* _assert_stored_pending: the reservation is this call's and the run is open.
\* It may have lapsed: only an interruption takes it away.
Mine(r) == report = NoReport /\ SamePending(runners[r].cp) /\ checkpoint.owner = r

\* The fact of the reservation this call holds.
OwnFact(r) == FactOf(runners[r].cp, runners[r].cp.retries + 1)

\* commit_fact_and_finish, with the checkpoint as the call has changed it.
FinishWithFact(r, c, reason) ==
  /\ Ends(r)
  /\ IF Mine(r)
       THEN /\ facts' = facts \cup {OwnFact(r)}
            /\ checkpoint' = Unreserved(c)
            /\ report' = ReportOf(c, reason)
       ELSE UNCHANGED <<facts, checkpoint, report>>
  /\ UNCHANGED <<observations, committed>>

MutRetryForgotten(c) == c
Retried(c) == [c EXCEPT !.retries = @ + 1]

\* The source asks for another attempt.
Retryable(r) ==
  LET c == Retried(runners[r].cp)
      exhausted == runners[r].cp.retries >= MaxRetries
  IN  \/ FinishWithFact(r, c, "retry_after_exceeds_limit")
      \/ exhausted /\ FinishWithFact(r, c, "retry_exhausted")
      \/ /\ ~exhausted
         /\ IF Mine(r)
              THEN /\ facts' = facts \cup {OwnFact(r)}
                   /\ checkpoint' = Unreserved(c)
                   /\ Goes(r, "loop", Unreserved(c))
              ELSE Ends(r) /\ UNCHANGED <<facts, checkpoint>>
         /\ UNCHANGED <<report, observations, committed>>

\* The request fails, or its response is refused unparsed.
Refused(r) ==
  \E reason \in {"transport_error", "response_refused", "elapsed_budget_exhausted"}
                  \cup (IF expired THEN {"authority_expired"} ELSE {}) :
    FinishWithFact(r, runners[r].cp, reason)

IdsOf(p) == {p.records[i][1] : i \in DOMAIN p.records}
Seen == {o[1] : o \in observations}

\* A record already observed, in this page or before, has other facts now.
Conflict(p) ==
  \E o, q \in observations \cup {p.records[i] : i \in DOMAIN p.records} :
    o[1] = q[1] /\ o[2] # q[2]

\* The page states a total, and the records observed with it are more.
MutPageAlone(p) == p.total # NoTotal /\ Cardinality(IdsOf(p)) > p.total
Exceeds(p) == p.total # NoTotal /\ Cardinality(Seen \cup IdsOf(p)) > p.total

\* commit_page: the first occurrence of a record is observed, others counted.
CommitPage(r, p, c) ==
  LET new == IdsOf(p) \ Seen
      after == [c EXCEPT !.pages = @ + 1, !.retries = 0,
                  !.terminal = p.next = "terminal", !.owner = NoRunner,
                  !.duplicates = @ + Len(p.records) - Cardinality(new)]
  IN  IF Mine(r)
        THEN /\ facts' = facts \cup {OwnFact(r)}
             /\ observations' = observations \cup {p.records[i] : i \in DOMAIN p.records}
             /\ checkpoint' = after
             /\ committed' = Append(committed, p)
             /\ Goes(r, "loop", after)
             /\ UNCHANGED report
        ELSE Ends(r) /\ UNCHANGED <<stored, committed>>

\* A page within the byte budget: counted before it is parsed, its total
\* recorded before the checks that follow.
Response(r, size, p) ==
  LET c == runners[r].cp
      counted == [c EXCEPT !.bytes = @ + size]
      totalled == [counted EXCEPT !.total = IF p.total = NoTotal THEN @ ELSE p.total]
  IN  IF c.bytes + size > MaxBytes
        THEN FinishWithFact(r, c, "aggregate_byte_budget_exhausted")
      ELSE IF p.next = "malformed" THEN FinishWithFact(r, counted, "shape_drift")
      ELSE IF Conflict(p) THEN FinishWithFact(r, counted, "record_changed")
      ELSE IF p.total # NoTotal /\ c.total \notin {NoTotal, p.total}
        THEN FinishWithFact(r, counted, "expected_total_changed")
      ELSE IF Exceeds(p) THEN FinishWithFact(r, totalled, "expected_total_changed")
      ELSE IF p.next = "loop" THEN FinishWithFact(r, totalled, "pagination_loop")
      ELSE IF p.next = "unsafe" THEN FinishWithFact(r, totalled, "unsafe_cursor")
      ELSE CommitPage(r, p, totalled)

Resolve(r) ==
  /\ runners[r].pc = "await"
  /\ \/ Retryable(r)
     \/ Refused(r)
     \/ \E size \in Sizes, p \in Pages : Response(r, size, p)
  /\ UNCHANGED <<lapsed, expired, sent>>

-----------------------------------------------------------------------------
\* A process dies, or its call raises for a reason outside this model.
Dies(r) ==
  /\ runners[r].pc \notin {"new", "done"}
  /\ Ends(r)
  /\ UNCHANGED <<stored, lapsed, expired, sent, committed>>

ReservationLapses ==
  /\ Pending(checkpoint) /\ ~lapsed /\ lapsed' = TRUE
  /\ UNCHANGED <<stored, expired, runners, sent, committed>>

AuthorityExpires ==
  /\ ~expired /\ expired' = TRUE
  /\ UNCHANGED <<stored, lapsed, runners, sent, committed>>

Next ==
  \/ \E r \in Runners :
       \/ Start(r) \/ InterruptStale(r) \/ Decide(r) \/ Finish(r)
       \/ Reserve(r) \/ Send(r) \/ Resolve(r) \/ Dies(r)
  \/ ReservationLapses \/ AuthorityExpires

Spec == Init /\ [][Next]_vars

-----------------------------------------------------------------------------
(***************************************************************************)
(* Properties                                                              *)
(***************************************************************************)
\* Types; the stored counters never pass the limits of the plan.
DiscoveryTypeOK ==
  /\ checkpoint \in Checkpoint /\ report \in Report \cup {NoReport}
  /\ checkpoint.pages <= MaxPages /\ checkpoint.requests <= MaxRequests
  /\ checkpoint.bytes <= MaxBytes
  /\ facts \subseteq Fact /\ observations \subseteq Ids \X Values
  /\ {lapsed, expired} \subseteq BOOLEAN
  /\ runners \in [Runners -> Runner]

\* Whatever crashes, restarts and concurrent calls there are, the source gets
\* no request twice, at most max_requests in all, and at most 1 + max_retries
\* for one page (reserve_request, current_page_retries).
RequestsWithinBounds ==
  /\ \A i, j \in DOMAIN sent : sent[i].sequence = sent[j].sequence => i = j
  /\ Len(sent) <= MaxRequests
  /\ \A n \in 1..MaxPages :
       Cardinality({i \in DOMAIN sent : sent[i].page = n}) <= MaxRetries + 1

\* The checkpoint agrees with the pages that were ever committed: none is
\* lost or counted twice, every record is observed once or is a duplicate,
\* and every request reserved and not pending has its fact (commit_page).
PagesCountedOnce ==
  LET records(i) == Len(committed[i].records)
      total[i \in 0..Len(committed)] ==
        IF i = 0 THEN 0 ELSE total[i - 1] + records(i)
  IN  /\ checkpoint.pages = Len(committed)
      /\ Cardinality(observations) + checkpoint.duplicates = total[Len(committed)]
      /\ Seen = UNION {IdsOf(committed[i]) : i \in DOMAIN committed}
      /\ Cardinality(Seen) = Cardinality(observations)
      /\ Cardinality(facts) = checkpoint.requests - (IF Pending(checkpoint) THEN 1 ELSE 0)

\* A report that ends a reservation, or says the endpoint is complete, has the
\* numbers of the stored run; only a terminal page makes a run complete; and
\* no page was accepted whose total the records observed by then exceed.
ReportsAddUp ==
  /\ \A i \in DOMAIN committed : committed[i].total # NoTotal =>
       Cardinality(UNION {IdsOf(committed[j]) : j \in 1..i}) <= committed[i].total
  /\ report # NoReport =>
       /\ report.pages <= Len(committed) /\ report.unique <= Cardinality(observations)
       /\ report.requests <= checkpoint.requests
       /\ report.reason \in ChangedReasons \cup {"terminal_page", "request_interrupted"} =>
            report = ReportOf(checkpoint, report.reason)
       /\ report.reason = "terminal_page" =>
            committed # <<>> /\ committed[Len(committed)].next = "terminal"

\* docs/bounded-discovery.md, "A concurrent runner that encounters a live lease
\* returns busy without mutating the run": only the owner of a reservation that
\* has not lapsed writes the report of the run.  finish does not look at it.
LiveLeaseKeepsTheRun ==
  [][report' # report /\ Pending(checkpoint) /\ ~lapsed =>
       runners'[checkpoint.owner] # runners[checkpoint.owner]]_vars

=============================================================================
