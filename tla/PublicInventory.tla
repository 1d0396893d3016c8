--------------------------- MODULE PublicInventory ---------------------------
(***************************************************************************)
(* The two public ANTIEGG inventories over one ledger: the article lane    *)
(* (acquisition.py: inventory_public_source), which stores one terminal    *)
(* answer and replays it, and the posts lane (antiegg_posts_inventory.py), *)
(* which pages through the whole catalogue again on every run.  A run is a *)
(* process; each ledger transaction and each request is a step, a run may  *)
(* die between any two of them, a later or a concurrent run finds what it  *)
(* left, wall-clock time passes and the catalogue changes.                 *)
(***************************************************************************)
EXTENDS MetadataHarness, RequestRunner

CONSTANTS
    Commands,       \* invocations of the command
    Lanes,          \* "article", "posts": the source the ledger is used for
    RobotsAnswers,  \* among allowed, not_found, denied, refused (any other)
    Editions,       \* what the article page may read as at different times
    Posts,          \* public post identities
    Catalogues,     \* post lists the endpoint may start from
    PageSize,       \* posts per page
    Bounds,         \* request, page and retry bounds of the harness
    Troubles,       \* transient outcomes: network_error, http_429, http_5xx
    RetryAfters,    \* Retry-After values of a transient outcome, 0 for none
    Latencies,      \* times a request may take, within the timeout
    TTL,            \* life of an allowing robots observation
    MaxTime,        \* bound: wall clock
    MaxChanges,     \* bound: changes of the catalogue
    MaxCrashes      \* bound: runs that die

ASSUME InventoryAssumption ==
    /\ TTL \in Nat /\ PageSize \in Nat \ {0} /\ Latencies \subseteq 0..Timeout
    /\ Lanes \subseteq {"article", "posts"}
    /\ RobotsAnswers \subseteq {"allowed", "not_found", "denied", "refused"}
    /\ Troubles \subseteq {"network_error", "http_429", "http_5xx"}

(* A token is where the next page starts; neither None is a value of its   *)
(* kind.                                                                   *)
ASSUME CatalogueAssumption ==
    /\ Catalogues \subseteq Seq(Posts)
    /\ NoToken \notin Nat \ {0} /\ NoTotal \notin Nat

NoRun == [at |-> "absent"]
None == "none"
NoBody == <<"none", "none">>                \* what the page said, at which URL
BlockedBody == <<"blocked_asset", "page">>
NoAsset == [state |-> "none", body |-> NoBody]
NoBlocker == <<"none", 0>>                  \* code, recorded_at

VARIABLES
    lane,
    now,        \* wall clock, in the unit of TTL
    catalogue,  \* the posts endpoint's list, newest first
    history,    \* ghost: the posts the catalogue held, change by change
    asset,      \* row of the article: state and body
    blocker,    \* evidence_antiegg_fluxus_blocker
    job,        \* status of the inventory job's row
    bounds,     \* evidence with the bounds of the terminal result
    trail,      \* sanitized request evidence, by index
    robots,     \* robots observations, each with the index of its request
    verdicts,   \* evidence of the posts runs' verdicts
    run,        \* the processes
    manifest,   \* the sanitized manifest file
    crashes

ledger == <<asset, blocker, job, bounds, trail, robots, verdicts>>
inventoryVars == <<lane, now, catalogue, history, ledger, run, manifest, crashes>>

InventoryInit ==
    /\ lane \in Lanes
    /\ now = 0
    /\ catalogue \in (IF lane = "posts" THEN Catalogues ELSE {<< >>})
    /\ history = <<ToSet(catalogue)>>
    /\ asset = NoAsset /\ blocker = NoBlocker /\ job = None /\ bounds = None
    /\ trail = << >> /\ robots = {} /\ verdicts = << >>
    /\ run = [p \in Commands |-> [at |-> "waiting"]]
    /\ manifest = [result |-> None]
    /\ crashes = 0

At(p, step) == run[p].at = step
Keep(p, r) == run' = [run EXCEPT ![p] = r]
Leave(p) == Keep(p, NoRun)

-----------------------------------------------------------------------------
(* The robots observation a run may rely on.                               *)

Allows(o) == o.outcome \in {"allowed", "not_found"}

(* _request_supports_robots_observation: the request the observation rests *)
(* on was a direct, final answer of the same status to robots.txt.         *)
Supports(entry, o) ==
    /\ entry.url = "robots" /\ entry.label = "not_retried"
    /\ entry.at = o.at /\ entry.what = o.outcome

Latest(o) == \A other \in robots : other.index <= o.index

MutEverFresh ==   \* mutant: an observation does not age
    \E o \in robots : Latest(o) /\ Allows(o) /\ Supports(trail[o.index], o)

FreshObservation ==
    \E o \in robots :
        /\ Latest(o) /\ Allows(o)
        /\ o.at <= now /\ now - o.at <= TTL
        /\ Supports(trail[o.index], o)

-----------------------------------------------------------------------------
(* A run starts.  The article lane answers from the stored result when the *)
(* asset is terminal; the posts lane always asks again.                    *)

Terminal(state) == state \in {"metadata_verified", "blocked"}

ArticleManifest(replayed) ==
    [result |-> IF blocker # NoBlocker THEN "blocked" ELSE "completed",
     state |-> asset.state, job |-> job, bounds |-> bounds, replayed |-> replayed]

Replay(p) ==
    /\ lane = "article" /\ At(p, "waiting") /\ Terminal(asset.state)
    /\ manifest' = ArticleManifest(TRUE)
    /\ Leave(p)
    /\ UNCHANGED <<lane, now, catalogue, history, ledger, crashes>>

Open(p) ==
    /\ At(p, "waiting")
    /\ lane = "article" => ~Terminal(asset.state)
    /\ Keep(p, [at |-> "opened"])
    /\ UNCHANGED <<lane, now, catalogue, history, ledger, manifest, crashes>>

Working(stage, harness, runner) ==
    [at |-> "asking", stage |-> stage, opened |-> now, prior |-> Len(trail),
     index |-> Len(trail), runner |-> runner, harness |-> harness, code |-> None,
     since |-> Len(history)]                \* ghost: the catalogue it met

(* The runner loads the request facts; the article lane may skip robots.   *)
(* The robots observation is a second read.  A run that writes between the *)
(* two leaves this one an index that is taken, so its first answer raises  *)
(* unless it is the same record: one step stands for both reads.           *)
Load(p) ==
    /\ At(p, "opened")
    /\ LET stage == IF lane = "article" /\ FreshObservation THEN "page" ELSE "robots"
       IN  Keep(p, Working(stage, NewHarness, Got(NewRunner, stage)))
    /\ UNCHANGED <<lane, now, catalogue, history, ledger, manifest, crashes>>

-----------------------------------------------------------------------------
(* Requests.                                                               *)

Ask(p) ==
    /\ At(p, "asking") /\ run[p].runner.phase = "asking"
    /\ LET r == run[p].runner
       IN  Keep(p, [run[p] EXCEPT !.runner =
              IF AskFailure(r) = "none" THEN Sent(r) ELSE Failed(r, AskFailure(r))])
    /\ UNCHANGED <<lane, now, catalogue, history, ledger, manifest, crashes>>

PostsPage(h) ==
    LET k == IF h.cursor = NoToken THEN 0 ELSE h.cursor
        total == Len(catalogue)
        last == Smaller(k + PageSize, total)
    IN  [kind |-> "page", edited |-> FALSE, rejected |-> 0, total |-> total,
         ids |-> {catalogue[i] : i \in (k + 1)..last},
         token |-> IF last < total THEN last ELSE NoToken]

(* parse_page: an empty page inside the declared pagination is drift; any  *)
(* other status or shape stops the harness in the same way.                *)
PostsAnswer(h) ==
    IF PostsPage(h).ids = {} /\ catalogue # << >>
    THEN [kind |-> "changed", reason |-> "shape_drift"] ELSE PostsPage(h)

Final(what) == [kind |-> "final", what |-> what, page |-> NoAnswer]

Finals(stage, h) ==
    CASE stage = "robots" -> {Final(w) : w \in RobotsAnswers}
      [] stage = "page" /\ lane = "article" -> {Final(e) : e \in Editions \cup {"refused"}}
      [] stage = "page" /\ lane = "posts" ->
           {[kind |-> "final", what |-> "page", page |-> PostsAnswer(h)],
            Final("oversized")}

Answers(stage, h) ==
    Finals(stage, h)
      \cup {[kind |-> k, after |-> a] : k \in Troubles, a \in RetryAfters}
      \cup {[kind |-> "redirect", allowed |-> b] : b \in BOOLEAN}

What(answer) == IF answer.kind = "final" THEN answer.what ELSE answer.kind

Entry(r) ==
    [url |-> r.url, what |-> What(r.answer), label |-> Label(r), at |-> now]

(* upsert of the request evidence under the run's own next index: the same *)
(* body is stored once, another body under that index is a LedgerError.    *)
(* Bodies that differ in recorded_at alone, by less than an instant here,  *)
(* raise too in the code: the run then ends as in Crash.                   *)
Recordable(index, entry) ==
    IF index <= Len(trail) THEN trail[index] = entry ELSE index = Len(trail) + 1

Answer(p) ==
    /\ At(p, "asking") /\ run[p].runner.phase = "wire"
    /\ \E answer \in Answers(run[p].stage, run[p].harness),
          latency \in Latencies :
          LET asked == run[p].runner
              r == Answered(asked, answer, Smaller(latency, Remaining(asked)))
              index == run[p].index + 1
          IN  IF Recordable(index, Entry(r))
              THEN /\ trail' = IF index > Len(trail) THEN Append(trail, Entry(r)) ELSE trail
                   /\ Keep(p, [run[p] EXCEPT !.index = index, !.runner = Resolved(r)])
              ELSE Leave(p) /\ UNCHANGED trail
    /\ UNCHANGED <<lane, now, catalogue, history, asset, blocker, job, bounds,
                   robots, verdicts, manifest, crashes>>

Done(p, stage) ==
    At(p, "asking") /\ run[p].stage = stage /\ run[p].runner.phase = "done"

-----------------------------------------------------------------------------
(* What the robots answer leads to.                                        *)

Observation(p) ==
    [index |-> run[p].index, outcome |-> run[p].runner.answer.what,
     at |-> trail[run[p].index].at]

(* Both lanes record the observation before they act on it.                *)
Observes(p) ==
    /\ run[p].runner.failure = "none"
    /\ run[p].runner.answer.what \in {"allowed", "not_found", "denied"}

(* The records an article run goes on to store; a posts run's verdict.     *)
Storing(step, code, body) == [at |-> step, code |-> code, body |-> body]

Stopping(p, code) ==
    IF lane = "article" THEN Storing("block_asset", code, NoBody)
    ELSE [run[p] EXCEPT !.at = "verdict", !.code = code]

AfterRobots(p) ==
    CASE run[p].runner.failure # "none" -> Stopping(p, run[p].runner.failure)
      [] run[p].runner.failure = "none" /\ run[p].runner.answer.what = "refused"
           -> Stopping(p, "refused")
      [] run[p].runner.failure = "none" /\ run[p].runner.answer.what = "denied"
           -> Stopping(p, "robots_denied")
      [] OTHER -> [run[p] EXCEPT !.stage = "page",
                      !.at = IF lane = "article" THEN "asking" ELSE "paging",
                      !.runner = IF lane = "article" THEN Got(@, "page") ELSE @]

JudgeRobots(p) ==
    /\ Done(p, "robots")
    /\ robots' = robots \cup (IF Observes(p) THEN {Observation(p)} ELSE {})
    /\ Keep(p, AfterRobots(p))
    /\ UNCHANGED <<lane, now, catalogue, history, asset, blocker, job, bounds,
                   trail, verdicts, manifest, crashes>>

-----------------------------------------------------------------------------
(* The article lane: the page's answer, then one transaction per record.   *)

JudgeArticle(p) ==
    /\ lane = "article" /\ Done(p, "page")
    /\ LET r == run[p].runner
       IN  Keep(p, CASE r.failure # "none" -> Stopping(p, r.failure)
                     [] r.failure = "none" /\ r.answer.what = "refused"
                          -> Stopping(p, "refused")
                     [] OTHER -> Storing("store", None, <<r.answer.what, r.url>>))
    /\ UNCHANGED <<lane, now, catalogue, history, ledger, manifest, crashes>>

(* A LedgerError while storing ends as response_structure_changed.         *)
StoreAsset(p) ==
    /\ At(p, "store")
    /\ IF asset.body \in {NoBody, run[p].body}
       THEN /\ asset' = IF asset.state = "none"
                        THEN [state |-> "discovered", body |-> run[p].body] ELSE asset
            /\ Keep(p, [run[p] EXCEPT !.at = "verify"])
       ELSE /\ Keep(p, Stopping(p, "response_structure_changed"))
            /\ UNCHANGED asset
    /\ UNCHANGED <<lane, now, catalogue, history, blocker, job, bounds, trail,
                   robots, verdicts, manifest, crashes>>

MayVerify == {"discovered", "metadata_verified"}

Verify(p) ==
    /\ At(p, "verify")
    /\ IF asset.state \in MayVerify
       THEN /\ asset' = [asset EXCEPT !.state = "metadata_verified"]
            /\ Keep(p, [run[p] EXCEPT !.at = "job"])
       ELSE /\ Keep(p, Stopping(p, "response_structure_changed"))
            /\ UNCHANGED asset
    /\ UNCHANGED <<lane, now, catalogue, history, blocker, job, bounds, trail,
                   robots, verdicts, manifest, crashes>>

(* _finish_blocked, one transaction per record.  The asset is looked up    *)
(* before it is upserted: one that appears in between is the same record,  *)
(* which is stored once, or another, which raises as in Crash.             *)
BlockAsset(p) ==
    /\ At(p, "block_asset")
    /\ asset' = IF asset.state = "none"
                THEN [state |-> "discovered", body |-> BlockedBody] ELSE asset
    /\ Keep(p, [run[p] EXCEPT !.at = "block_state"])
    /\ UNCHANGED <<lane, now, catalogue, history, blocker, job, bounds, trail,
                   robots, verdicts, manifest, crashes>>

BlockState(p) ==
    /\ At(p, "block_state")
    /\ asset' = [asset EXCEPT !.state = "blocked"]
    /\ Keep(p, [run[p] EXCEPT !.at = "block_evidence"])
    /\ UNCHANGED <<lane, now, catalogue, history, blocker, job, bounds, trail,
                   robots, verdicts, manifest, crashes>>

BlockEvidence(p) ==
    /\ At(p, "block_evidence")
    /\ LET record == <<run[p].code, now>>
       IN  IF blocker \in {NoBlocker, record}
           THEN blocker' = record /\ Keep(p, [run[p] EXCEPT !.at = "job"])
           ELSE Leave(p) /\ UNCHANGED blocker
    /\ UNCHANGED <<lane, now, catalogue, history, asset, job, bounds, trail,
                   robots, verdicts, manifest, crashes>>

(* create_job returns the job that is there; record_bounds keeps the first *)
StoreJob(p) ==
    /\ At(p, "job")
    /\ job' = IF job # None THEN job
              ELSE IF run[p].code = None THEN "completed" ELSE "blocked"
    /\ Keep(p, [run[p] EXCEPT !.at = "bounds"])
    /\ UNCHANGED <<lane, now, catalogue, history, asset, blocker, bounds, trail,
                   robots, verdicts, manifest, crashes>>

StoreBounds(p) ==
    /\ At(p, "bounds")
    /\ bounds' = IF bounds = None THEN p ELSE bounds
    /\ Keep(p, [run[p] EXCEPT !.at = "manifest"])
    /\ UNCHANGED <<lane, now, catalogue, history, asset, blocker, job, trail,
                   robots, verdicts, manifest, crashes>>

WriteArticle(p) ==
    /\ lane = "article" /\ At(p, "manifest")
    /\ manifest' = ArticleManifest(FALSE)
    /\ Leave(p)
    /\ UNCHANGED <<lane, now, catalogue, history, ledger, crashes>>

-----------------------------------------------------------------------------
(* The posts lane: page until the harness or a bound stops the run.        *)

NextPage(p) ==
    /\ At(p, "paging")
    /\ LET h == run[p].harness
           refusal == RequestRefusal(h, Bounds, TRUE)
       IN  Keep(p, CASE ~CanAsk(h) -> [run[p] EXCEPT !.at = "verdict"]
                     [] CanAsk(h) /\ refusal # "none" ->
                          [run[p] EXCEPT !.at = "verdict",
                             !.harness = Stopped(h, RefusalState(refusal), refusal)]
                     [] OTHER -> [run[p] EXCEPT !.at = "asking",
                             !.harness = Asked(h), !.runner = Got(@, "page")])
    /\ UNCHANGED <<lane, now, catalogue, history, ledger, manifest, crashes>>

(* A page that was reached through a redirect is not the page asked for.   *)
PageResponse(r) ==
    IF r.url = "page" THEN r.answer.page
    ELSE [kind |-> "changed", reason |-> "redirect_mismatch"]

JudgePosts(p) ==
    /\ lane = "posts" /\ Done(p, "page")
    /\ LET r == run[p].runner
       IN  Keep(p, CASE r.failure # "none" -> Stopping(p, r.failure)
                     [] r.failure = "none" /\ r.answer.what = "oversized"
                          -> Stopping(p, "response_oversized")
                     [] OTHER -> [run[p] EXCEPT !.at = "paging",
                             !.harness = Ingested(@, PageResponse(r))])
    /\ UNCHANGED <<lane, now, catalogue, history, ledger, manifest, crashes>>

BoundStops == {"elapsed_time_exhausted", "page_budget_exhausted",
               "request_budget_exhausted", "zero_request_budget"}

StopResult(reason, state) ==
    IF reason \in BoundStops \/ state = "bounded_partial"
    THEN "bounded_partial" ELSE "blocked"

MutLastPage(h, failure) ==   \* mutant: the last page is taken for all records
    CASE failure # None          -> StopResult(failure, "none")
      [] failure = None /\ h.state = "complete" -> "complete"
      [] OTHER                   -> StopResult(h.reason, h.state)

(* _verdict: the last page is not the same fact as every record.           *)
Verdict(h, failure) ==
    CASE failure # None          -> StopResult(failure, "none")
      [] failure = None /\ h.state = "complete" ->
           IF h.total # NoTotal /\ Cardinality(h.records) = h.total
           THEN "complete" ELSE "blocked"
      [] OTHER                   -> StopResult(h.reason, h.state)

PostsManifest(p) ==
    [result |-> Verdict(run[p].harness, run[p].code), ids |-> run[p].harness.records,
     changes |-> Len(history) - run[p].since]    \* ghost: while the run was reading

(* _record_verdict appends at the first free index.  Of two runs that find  *)
(* the same index at once one gets a LedgerError, which is a Crash here.   *)
RecordVerdict(p) ==
    /\ At(p, "verdict")
    /\ verdicts' = Append(verdicts, PostsManifest(p))
    /\ Keep(p, [at |-> "manifest", verdict |-> PostsManifest(p)])
    /\ UNCHANGED <<lane, now, catalogue, history, asset, blocker, job, bounds,
                   trail, robots, manifest, crashes>>

WritePosts(p) ==
    /\ lane = "posts" /\ At(p, "manifest")
    /\ manifest' = run[p].verdict
    /\ Leave(p)
    /\ UNCHANGED <<lane, now, catalogue, history, ledger, crashes>>

-----------------------------------------------------------------------------
(* The world around the runs.                                              *)

Crash(p) ==
    /\ run[p].at \notin {"waiting", "absent"} /\ crashes < MaxCrashes
    /\ crashes' = crashes + 1
    /\ Leave(p)
    /\ UNCHANGED <<lane, now, catalogue, history, ledger, manifest>>

Tick ==
    /\ lane = "article" /\ now < MaxTime    \* the posts lane compares no times
    /\ now' = now + 1
    /\ UNCHANGED <<lane, catalogue, history, ledger, run, manifest, crashes>>

(* A post is published in front, one is taken down, or both at once.       *)
Published(list) == {<<v>> \o list : v \in Posts \ ToSet(list)}
TakenDown(list) == {RemoveAt(list, i) : i \in DOMAIN list}

ChangeCatalogue ==
    /\ lane = "posts" /\ Len(history) <= MaxChanges
    /\ \E list \in Published(catalogue) \cup TakenDown(catalogue)
               \cup UNION {Published(l) : l \in TakenDown(catalogue)} :
          /\ catalogue' = list
          /\ history' = Append(history, ToSet(list))
    /\ UNCHANGED <<lane, now, ledger, run, manifest, crashes>>

Ended == \A p \in Commands : run[p] = NoRun
Rest == Ended /\ UNCHANGED inventoryVars

InventoryNext ==
    \/ Tick \/ ChangeCatalogue \/ Rest
    \/ \E p \in Commands :
          \/ Replay(p) \/ Open(p) \/ Load(p) \/ Ask(p) \/ Answer(p) \/ JudgeRobots(p)
          \/ JudgeArticle(p) \/ StoreAsset(p) \/ Verify(p) \/ BlockAsset(p)
          \/ BlockState(p) \/ BlockEvidence(p) \/ StoreJob(p) \/ StoreBounds(p)
          \/ WriteArticle(p) \/ NextPage(p) \/ JudgePosts(p) \/ RecordVerdict(p)
          \/ WritePosts(p) \/ Crash(p)

InventorySpec == InventoryInit /\ [][InventoryNext]_inventoryVars

-----------------------------------------------------------------------------
(* Properties.                                                             *)

(* Whenever a page request is on the wire, the ledger holds a request for  *)
(* robots.txt that allowed it, made by this run or no longer ago than the  *)
(* TTL when this run started, however many runs came and died in between   *)
(* (_fresh_robots_observation, _check_robots).                             *)
PageUnderRobots ==
    \A p \in Commands :
        At(p, "asking") /\ run[p].stage = "page" /\ run[p].runner.phase = "wire" =>
            \E i \in 1..run[p].index :
                /\ trail[i].what \in {"allowed", "not_found"}
                /\ \/ i > run[p].prior
                   \/ run[p].opened - trail[i].at <= TTL

(* The evidence label of a request tells what happened next: one labelled  *)
(* retry_scheduled is retried, unless the run ran out of time waiting, and *)
(* one labelled retry_exhausted is the run's last of that get (get).       *)
LabelsTell ==
    \A p \in Commands :
        At(p, "asking") /\ run[p].runner.phase = "done" /\ run[p].index > run[p].prior =>
            CASE trail[run[p].index].label = "retry_scheduled" ->
                   run[p].runner.failure = "elapsed_time_exhausted"
              [] trail[run[p].index].label = "retry_exhausted" ->
                   run[p].runner.failure \in
                     {"request_failed", "rate_limit_exhausted", "retry_exhausted"}
              [] OTHER -> TRUE

(* A posts run that calls its answer complete read every page of it under  *)
(* one declared total (_verdict, ingest): what it holds was listed at one  *)
(* time or another, and when the catalogue changed at most once while it   *)
(* was reading, it holds the whole catalogue as it stood at some moment.   *)
(* After two changes it may hold a mix that was never listed together.     *)
CompleteIsWhole ==
    \A i \in DOMAIN verdicts : verdicts[i].result = "complete" =>
        /\ verdicts[i].ids \subseteq UNION ToSet(history)
        /\ verdicts[i].changes <= 1 => verdicts[i].ids \in ToSet(history)

(* The article manifest says completed only of a verified article          *)
(* (docs/network-acquisition-smoke.md).                                    *)
CompletedMeansVerified ==
    lane = "article" /\ manifest.result = "completed"
        => manifest.state = "metadata_verified"
=============================================================================
