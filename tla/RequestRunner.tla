---------------------------- MODULE RequestRunner ----------------------------
(***************************************************************************)
(* The bounded request runner of the public inventories                    *)
(* (acquisition.py: BoundedRequestRunner), with the retry plan (retry.py)  *)
(* and the per-host rate limiter (rate_limit.py) it waits on.  A runner is *)
(* a record of one run; get(url) is a loop of one request at a time, so    *)
(* the operators below are its steps: ask, send, answer.  Time is counted  *)
(* in units since the run started; the host is the one reviewed host.      *)
(***************************************************************************)
EXTENDS Integers

CONSTANTS
    MaxRequests,    \* config.max_requests
    MaxElapsed,     \* config.max_elapsed_seconds, also the backoff budget
    Interval,       \* config.rate_limit_seconds
    Timeout,        \* config.timeout_seconds, also the longest Retry-After
    BaseDelay,      \* min(1.0, timeout)
    MaxRetries,     \* config.max_retries
    MaxRedirects    \* 3 in the code

ASSUME RunnerAssumption ==
    /\ MaxRequests \in Nat \ {0} /\ MaxElapsed \in Nat \ {0}
    /\ Interval \in Nat /\ Timeout \in Nat \ {0} /\ BaseDelay \in Nat \ {0}
    /\ MaxRetries \in Nat /\ MaxRedirects \in Nat

Never == -1         \* no request yet
NoAnswer == [kind |-> "none"]

NewRunner ==
    [phase |-> "idle", count |-> 0, elapsed |-> 0, last |-> Never,
     url |-> "none", attempts |-> 0, backoff |-> 0, redirects |-> 0,
     failure |-> "none", answer |-> NoAnswer]

Got(r, url) ==
    [r EXCEPT !.phase = "asking", !.url = url, !.attempts = 0, !.backoff = 0,
              !.redirects = 0, !.failure = "none", !.answer = NoAnswer]

Remaining(r) == MaxElapsed - r.elapsed
Larger(a, b) == IF a > b THEN a ELSE b
Smaller(a, b) == IF a < b THEN a ELSE b

(* _wait: a delay is slept only when it fits, and some time must remain.   *)
CanWait(r, delay) == delay = 0 \/ delay < Remaining(r)

(* HostRateLimiter.acquire.                                                *)
LimiterDelay(r) ==
    IF r.last = Never THEN 0 ELSE Larger(0, r.last + Interval - r.elapsed)

Failed(r, failure) == [r EXCEPT !.phase = "done", !.failure = failure]

(* What stops the next request before it is sent.                          *)
AskFailure(r) ==
    CASE r.count >= MaxRequests                         -> "request_budget_exhausted"
      [] r.count < MaxRequests /\ Remaining(r) <= 0     -> "elapsed_time_exhausted"
      [] r.count < MaxRequests /\ Remaining(r) > 0
           /\ ~CanWait(r, LimiterDelay(r))              -> "elapsed_time_exhausted"
      [] OTHER                                          -> "none"

Sent(r) ==
    LET at == r.elapsed + LimiterDelay(r)
    IN  [r EXCEPT !.phase = "wire", !.elapsed = at, !.last = at]

Answered(r, answer, took) ==
    [r EXCEPT !.count = @ + 1, !.elapsed = @ + took, !.answer = answer]

(* plan_retry: exponential delays, a server's Retry-After only when it is  *)
(* within the policy, and both the attempts and the backoff are bounded.   *)
RetryDelay(r, after) ==
    Larger(BaseDelay * (2 ^ r.attempts), IF after <= Timeout THEN after ELSE 0)

PlansRetry(r, after) ==
    /\ r.attempts + 1 < MaxRetries + 1
    /\ r.backoff + RetryDelay(r, after) <= MaxElapsed

MutRetryUncounted(r) == PlansRetry(r, r.answer.after)   \* mutant: forgets the budget
CanRetry(r) == PlansRetry(r, r.answer.after) /\ r.count < MaxRequests

Transient(r) == r.answer.kind \in {"network_error", "http_429", "http_5xx"}

(* The label of the request's evidence record.                             *)
Label(r) ==
    CASE r.answer.kind = "redirect" -> "redirect"
      [] Transient(r) -> IF CanRetry(r) THEN "retry_scheduled" ELSE "retry_exhausted"
      [] OTHER -> "not_retried"

Exhausted(kind) ==
    CASE kind = "network_error" -> "request_failed"
      [] kind = "http_429"      -> "rate_limit_exhausted"
      [] kind = "http_5xx"      -> "retry_exhausted"

Retrying(r) ==
    LET delay == RetryDelay(r, r.answer.after)
    IN  IF CanWait(r, delay)
        THEN [r EXCEPT !.phase = "asking", !.attempts = @ + 1,
                       !.backoff = @ + delay, !.elapsed = @ + delay]
        ELSE Failed(r, "elapsed_time_exhausted")

Redirected(r) ==
    IF r.answer.allowed /\ r.redirects < MaxRedirects
    THEN [r EXCEPT !.phase = "asking", !.url = "elsewhere", !.redirects = @ + 1]
    ELSE Failed(r, "redirect_blocked")

(* What get does after it recorded the answer.                             *)
Resolved(r) ==
    CASE r.answer.kind = "redirect"       -> Redirected(r)
      [] Transient(r) /\ CanRetry(r)      -> Retrying(r)
      [] Transient(r) /\ ~CanRetry(r)     -> Failed(r, Exhausted(r.answer.kind))
      [] OTHER                            -> [r EXCEPT !.phase = "done"]
=============================================================================
