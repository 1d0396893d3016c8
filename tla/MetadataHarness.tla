--------------------------- MODULE MetadataHarness ---------------------------
(***************************************************************************)
(* The adapter conformance harness (adapter_conformance.py): the bounded,  *)
(* checkpointed traversal of one metadata endpoint that every source       *)
(* adapter is driven through.  It does no I/O, so the module has no        *)
(* variables: a harness is a record, and each method is an operator from a *)
(* harness and its input to the harness it leaves.  YouTubeRun and         *)
(* PublicInventory hold harnesses in their own variables.                  *)
(*                                                                         *)
(* A page token is an opaque value; its ordinal is a field of its own, as  *)
(* the cursor "opaque-<ordinal>~<token>" carries both.  Records are the    *)
(* stable record identifiers.                                              *)
(***************************************************************************)
EXTENDS Integers, Sequences, FiniteSets, SequencesExt

CONSTANTS
    NoToken,    \* next_cursor is None
    NoTotal     \* the endpoint reported no expected_total

-----------------------------------------------------------------------------
(* The state of a harness and what each method leaves behind.              *)

NewHarness ==
    [state |-> "ready", reason |-> "none", active |-> FALSE,
     cursor |-> NoToken, ordinal |-> 0, seen |-> << >>,
     pages |-> 0, requests |-> 0, retries |-> 0,
     duplicates |-> 0, rejected |-> 0, total |-> NoTotal, records |-> {}]

Stopped(h, state, reason) ==
    [h EXCEPT !.active = FALSE, !.state = state, !.reason = reason]

(* Why next_request stops before the adapter builds a request, or "none".  *)
(* b holds the bounds of the run, robots the observation it was given.     *)
RequestRefusal(h, b, robotsRequired) ==
    CASE b.requests = 0                       -> "zero_request_budget"
      [] robotsRequired /\ ~b.robots          -> "robots_denied"
      [] h.requests >= b.requests             -> "request_budget_exhausted"
      [] h.pages >= b.pages                   -> "page_budget_exhausted"
      [] OTHER                                -> "none"

RefusalState(reason) ==
    IF reason = "robots_denied" THEN "blocked" ELSE "bounded_partial"

CanAsk(h) == h.state = "ready" /\ ~h.active

Asked(h) ==
    [h EXCEPT !.requests = @ + 1, !.reason = "none", !.active = TRUE]

MutRetryOverspent(h, b) ==   \* mutant: the bound is checked one retry late
    LET n == [h EXCEPT !.active = FALSE, !.retries = @ + 1]
    IN  IF h.retries > b.retries
        THEN Stopped(n, "blocked", "retry_exhausted")
        ELSE [n EXCEPT !.reason = "retry_pending"]

Retried(h, b) ==
    LET n == [h EXCEPT !.active = FALSE, !.retries = @ + 1]
    IN  IF n.retries > b.retries
        THEN Stopped(n, "blocked", "retry_exhausted")
        ELSE [n EXCEPT !.reason = "retry_pending"]

MutTotalMayChange(h, page) ==   \* mutant: a declared total may change
    LET total == IF page.total = NoTotal THEN h.total ELSE page.total
    IN  CASE page.token # NoToken /\ page.token \in ToSet(h.seen)
               -> "pagination_loop"
          [] page.edited /\ page.ids \cap h.records # {}
               -> "stable_id_collision"
          [] total # NoTotal /\ Cardinality(h.records \cup page.ids) > total
               -> "expected_total_changed"
          [] OTHER -> "none"

(* What makes a page unacceptable, in the order the code looks: pagination *)
(* first, then the declared total, then identity.                          *)
PageDefect(h, page) ==
    LET total == IF page.total = NoTotal THEN h.total ELSE page.total
    IN  CASE page.token # NoToken /\ page.token \in ToSet(h.seen)
               -> "pagination_loop"
          [] page.total # NoTotal /\ h.total # NoTotal /\ page.total # h.total
               -> "expected_total_changed"
          [] page.edited /\ page.ids \cap h.records # {}
               -> "stable_id_collision"
          [] total # NoTotal /\ Cardinality(h.records \cup page.ids) > total
               -> "expected_total_changed"
          [] OTHER -> "none"

Committed(h, page) ==
    LET n == [h EXCEPT !.active = FALSE,
                       !.records = @ \cup page.ids,
                       !.duplicates = @ + Cardinality(h.records \cap page.ids),
                       !.rejected = @ + page.rejected,
                       !.total = IF page.total = NoTotal THEN @ ELSE page.total,
                       !.pages = @ + 1,
                       !.retries = 0,
                       !.cursor = page.token]
    IN  IF page.token = NoToken
        THEN Stopped([n EXCEPT !.ordinal = -1], "complete", "terminal_page")
        ELSE [n EXCEPT !.ordinal = @ + 1, !.seen = Append(@, page.token),
                       !.reason = "none"]

(* A response is a stop ("blocked" for access and HTTP outcomes, "changed" *)
(* for shape, MIME, size and redirect) or a parsed page.                   *)
Ingested(h, response) ==
    CASE response.kind # "page" -> Stopped(h, response.kind, response.reason)
      [] response.kind = "page" /\ PageDefect(h, response) # "none"
           -> Stopped(h, "changed", PageDefect(h, response))
      [] OTHER -> Committed(h, response)

-----------------------------------------------------------------------------
(* Checkpoints.                                                            *)

CanCheckpoint(h) == ~h.active

Remainder(h) ==
    IF h.total = NoTotal \/ h.total < Cardinality(h.records) THEN 0
    ELSE h.total - Cardinality(h.records)

(* _restore: only a resumable state, consistent pagination, within bounds, *)
(* a total that still covers the records, and counters that can have       *)
(* happened.                                                               *)
CursorRestores(h) ==
    /\ IsInjective(h.seen)
    /\ \/ h.cursor = NoToken /\ h.ordinal = 0
       \/ h.cursor \in ToSet(h.seen) /\ h.ordinal >= 1

CountersRestore(h, b) ==
    /\ h.requests <= b.requests /\ h.pages <= b.pages /\ h.retries <= b.retries
    /\ h.total = NoTotal \/ h.total >= Cardinality(h.records)
    /\ h.requests >= h.pages + h.retries
    /\ Len(h.seen) = h.pages
    /\ h.ordinal = h.pages

RestoreAccepts(h, b) ==
    /\ h.state = "ready" /\ h.reason \in {"none", "retry_pending"}
    /\ CursorRestores(h)
    /\ CountersRestore(h, b)
=============================================================================
