-------------------------- MODULE ConsentLifecycle --------------------------
(***************************************************************************)
(* Consent, use, withdrawal and deletion of project-native contributions:  *)
(* src/performing_fire_corpus/project_native_lifecycle.py, with the        *)
(* consent transition of governance.py.                                    *)
(*                                                                         *)
(* The functions are pure.  What they read and what is kept of their       *)
(* results lives outside the repository, behind the authority resolver:    *)
(* `graph` is the inventory of the current lineage snapshot, `authority`   *)
(* the consent, retention and deletion record of each consent, `hold` the  *)
(* legal reviewer's hold, `works` the planned deletions.  A new record is  *)
(* built in one step and saved in a later one (`drafts`), a use is granted *)
(* in one step and carried out in a later one (`granted`); anything may    *)
(* happen in between.  A save issues a new snapshot.                       *)
(***************************************************************************)
EXTENDS Integers, FiniteSets

CONSTANTS
    Consents,       \* consent records
    Terms,          \* [Consents -> what each consent allows]
    Direct,         \* participant contributions
    Request,        \* [Direct -> the contribution a participant makes]
    Derived,        \* generated scores and visual-system records
    Uses, Audiences,
    DerivedDays,    \* longest retention of a derived record
    Window,         \* longest life of a legal-hold resolution (five minutes)
    HoldScopes,     \* what a legal reviewer may place under hold
    Review, Term,   \* a hold is to be reviewed, and ends, so long after it
    MaxTime, MaxInputs,
    Tightenable,    \* consents whose terms a reviewer may tighten
    MaxPending,     \* new records and uses under way at once
    Indexable       \* contributions the index asks for; bounds of the model

Classes == 0..2   \* public, restricted, sensitive

ASSUME BoundsAssumption == Window \in Nat /\ Term \in Nat
ASSUME TermsAssumption ==
    \A c \in Consents : Terms[c].cls \in Classes /\ Terms[c].until \in Nat
ASSUME RequestAssumption ==
    \A p \in Direct : /\ Request[p].consent \in Consents
                       /\ Request[p].cls \in Classes
                       /\ Request[p].days \in Nat

Ids == Direct \union Derived
NoHold == [scope |-> {}, decided |-> 0, state |-> "none"]
NoWork == [state |-> "none", targets |-> <<>>, removed |-> {}]
NoResolution == [ids |-> {}, state |-> "none", at |-> 0]

VARIABLES
    now,
    authority,   \* [Consents -> [state, tight, trigger, status]]
    hold,        \* the hold on record: a reviewer places one, which runs out
    graph,       \* the current snapshot's inventory: contribution -> record
    drafts,      \* records built and not yet saved: contribution -> record
    granted,     \* contributions found eligible for indexing, not yet indexed
    works,       \* [Consents -> deletion work]
    resolution,  \* the legal-hold resolution issued last
    stored,      \* <<contribution, artifact>> the stores and indexes hold
    tombs        \* [Consents -> contributions tombstoned for that consent]

vars == <<now, authority, hold, graph, drafts, granted, works, resolution,
          stored, tombs>>

Least(S) == CHOOSE x \in S : \A y \in S : x <= y
Greatest(S) == CHOOSE x \in S : \A y \in S : x >= y
With(f, id, row) == [x \in DOMAIN f \union {id} |-> IF x = id THEN row ELSE f[x]]
Meet(sets) == {x \in UNION sets : \A s \in sets : x \in s}

(***************************************************************************)
(* The lineage graph.                                                      *)
(***************************************************************************)
\* Every contribution reached from r through inputs.  Ids are fresh and
\* inputs exist when a record is saved, so the graph has no cycle.
Ancestors(g, r) ==
    LET up[x \in DOMAIN g] ==
          g[x].inputs \union UNION {up[y] : y \in g[x].inputs}
    IN up[r]

Descendants(g, S) ==
    {r \in DOMAIN g : r \in S \/ Ancestors(g, r) \cap S # {}}

\* What _validate_authoritative_graph still has to find in a snapshot's own
\* records: every input is there, and consents are inherited from inputs.
GraphValid(g) ==
    /\ g # <<>>
    /\ \A r \in DOMAIN g :
         /\ g[r].inputs \subseteq DOMAIN g
         /\ g[r].inputs # {} =>
              g[r].consents = UNION {g[i].consents : i \in g[r].inputs}

\* The class a consent requires and the end of the retention it allows; a
\* reviewer may tighten both while contributions exist.
ClassNow(c) == IF authority[c].tight THEN 2 ELSE Terms[c].cls
RetainNow(c) == IF authority[c].tight THEN Terms[c].until - 1
                                      ELSE Terms[c].until
Effective(c) == /\ Terms[c].decided <= now
                /\ now < Terms[c].until

PublicOnly(r, op, aud) ==
    op = "public_retrieval" => aud = "public" /\ r.cls = 0

(***************************************************************************)
(* Use: one participant contribution against its consent, and a            *)
(* contribution with everything it was derived from.                       *)
(***************************************************************************)
DirectEligible(r, op, aud, redacted) ==
    \E c \in r.consents :
       LET own == authority[c] IN
       /\ own.state = "active" /\ r.state = own.state
       /\ op \in Terms[c].uses \cap r.uses
       /\ aud \in Terms[c].audiences \cap r.audiences
       /\ PublicOnly(r, op, aud)
       /\ Terms[c].redact => redacted
       /\ Effective(c)
       /\ now < RetainNow(c)
       /\ r.until <= RetainNow(c)
       /\ now < r.until
       /\ r.cls >= ClassNow(c)
       /\ own.trigger = "none" /\ own.status = "not_requested"
       /\ ~r.withdrawn
       /\ r.deletion = "active"

InheritsExactly(g, r) ==
    LET from == {g[i] : i \in r.inputs} IN
    /\ \A f \in from : f.purpose = r.purpose
    /\ r.consents = UNION {f.consents : f \in from}
    /\ r.uses = Meet({f.uses : f \in from})
    /\ r.audiences = Meet({f.audiences : f \in from})
    /\ r.cls = Greatest({f.cls : f \in from})
    /\ r.until = Least({f.until : f \in from})

DerivedEligible(g, r, op, aud) ==
    /\ InheritsExactly(g, r)
    /\ op \in r.uses
    /\ aud \in r.audiences
    /\ PublicOnly(r, op, aud)
    /\ now < r.until
    /\ ~r.withdrawn
    /\ r.deletion = "active"

\* Mutant: what a derived record inherited is taken to settle its use.
MutEligibleAsInherited(g, id, op, aud, redacted) ==
    /\ GraphValid(g) /\ id \in DOMAIN g
    /\ IF g[id].inputs = {}
       THEN DirectEligible(g[id], op, aud, redacted)
       ELSE DerivedEligible(g, g[id], op, aud)

Eligible(g, id, op, aud, redacted) ==
    LET ok[x \in DOMAIN g] ==
          IF g[x].inputs = {}
          THEN DirectEligible(g[x], op, aud, redacted)
          ELSE /\ DerivedEligible(g, g[x], op, aud)
               /\ \A i \in g[x].inputs : ok[i]
    IN GraphValid(g) /\ id \in DOMAIN g /\ ok[id]

(***************************************************************************)
(* Records.                                                                *)
(***************************************************************************)
\* build_project_native_contribution: within the consent, and no longer than
\* the consent or the class's default.
Contribution(p) ==
    LET q == Request[p]
        c == q.consent IN
    [inputs |-> {}, consents |-> {c}, purpose |-> Terms[c].purpose,
     state |-> "active", uses |-> q.uses, audiences |-> q.audiences,
     cls |-> q.cls, until |-> Least({now + q.days, Terms[c].until}),
     withdrawn |-> FALSE, deletion |-> "active",
     artifacts |-> {"body"}]

Admissible(p) ==
    LET q == Request[p]
        c == q.consent IN
    /\ authority[c].state = "active"
    /\ q.cls = ClassNow(c)
    /\ q.uses \subseteq Terms[c].uses
    /\ q.audiences \subseteq Terms[c].audiences
    /\ Effective(c)

\* derive_project_native_contribution: the least of what the inputs allow.
DerivedFrom(g, inputs) ==
    LET from == {g[i] : i \in inputs} IN
    [inputs |-> inputs, consents |-> UNION {f.consents : f \in from},
     purpose |-> (CHOOSE f \in from : TRUE).purpose,
     state |-> "active", uses |-> Meet({f.uses : f \in from}),
     audiences |-> Meet({f.audiences : f \in from}),
     cls |-> Greatest({f.cls : f \in from}),
     until |-> Least({f.until : f \in from}),
     withdrawn |-> FALSE, deletion |-> "active",
     artifacts |-> {"body"}]

\* The code asks for the first common audience in sorted order.  Every input
\* and, as audiences only narrow along a lineage, every ancestor has them all,
\* so whichever is asked for decides the same.
Derivable(g, inputs, redacted) ==
    LET common == Meet({g[i].audiences : i \in inputs}) IN
    /\ inputs # {}
    /\ inputs \union UNION {Ancestors(g, i) : i \in inputs} = DOMAIN g
    /\ common # {}
    /\ \A i \in inputs :
         /\ Eligible(g, i, "derived_processing",
                     CHOOSE a \in common : TRUE, redacted)
         /\ g[i].state = "active"
    /\ Cardinality({g[i].purpose : i \in inputs}) = 1
    /\ Meet({g[i].uses : i \in inputs}) # {}
    /\ LET until == Least({g[i].until : i \in inputs}) IN
         now < until /\ until <= now + DerivedDays

(***************************************************************************)
(* Holds and deletion work.                                                *)
(***************************************************************************)
HoldRuns == /\ hold.state = "active"
            /\ now < hold.decided + Term

\* _validate_legal_hold
HoldCovers(ids) == /\ HoldRuns
                   /\ now < hold.decided + Review
                   /\ ids \subseteq hold.scope

\* How reviewers keep the retention record: held while a running hold names a
\* contribution of the consent.
RetentionHeld(c) ==
    /\ HoldRuns
    /\ \E r \in hold.scope \cap DOMAIN graph : c \in graph[r].consents

TargetsOf(g, ids) == [r \in ids |-> g[r].artifacts]

\* What a deletion plan names: the consent's own contributions and everything
\* derived from them.
Linked(g, c) ==
    Descendants(g, {r \in DOMAIN g : g[r].inputs = {} /\ c \in g[r].consents})

\* build_project_native_deletion_work
Plannable(c) ==
    /\ authority[c].trigger # "none"
    /\ authority[c].status \in {"pending", "under_legal_hold_review"}
    /\ GraphValid(graph)
    /\ Linked(graph, c) # {}
    /\ authority[c].status = "under_legal_hold_review" =>
         HoldCovers(Linked(graph, c))

Plan(c) ==
    [state |-> IF authority[c].status = "pending" THEN "pending"
                                                  ELSE "legal_hold_review",
     targets |-> TargetsOf(graph, Linked(graph, c)),
     removed |-> {}]

-----------------------------------------------------------------------------
Init ==
    /\ now = 0
    /\ authority = [c \in Consents |->
         [state |-> "active", tight |-> FALSE,
          trigger |-> "none", status |-> "not_requested"]]
    /\ hold = NoHold
    /\ graph = <<>>
    /\ drafts = <<>>
    /\ granted = {}
    /\ works = [c \in Consents |-> NoWork]
    /\ resolution = NoResolution
    /\ stored = {}
    /\ tombs = [c \in Consents |-> {}]

Tick ==
    /\ now < MaxTime
    /\ now' = now + 1
    /\ UNCHANGED <<authority, hold, graph, drafts, granted, works,
                   resolution, stored, tombs>>

RoomForOne == Cardinality(DOMAIN drafts) + Cardinality(granted) < MaxPending

Fresh(id) == /\ id \notin DOMAIN graph \union DOMAIN drafts
             /\ \A c \in Consents : id \notin tombs[c]

Draft(id, row) ==
    /\ drafts' = With(drafts, id, row)
    /\ UNCHANGED <<now, authority, hold, graph, granted,
                   works, resolution, stored, tombs>>

Intake(p) ==
    /\ RoomForOne
    /\ Fresh(p)
    /\ Admissible(p)
    /\ Draft(p, Contribution(p))

\* Ids are issued in a fixed order.
Derive(inputs, redacted) ==
    LET fresh == {x \in Derived : Fresh(x)}
        d == CHOOSE x \in fresh : TRUE IN
    /\ RoomForOne
    /\ fresh # {}
    /\ GraphValid(graph)
    /\ inputs \subseteq DOMAIN graph
    /\ Derivable(graph, inputs, redacted)
    /\ Draft(d, DerivedFrom(graph, inputs))

\* The record is added to the inventory, whose rows refer to rows.
Save(id) ==
    /\ drafts[id].inputs \subseteq DOMAIN graph
    /\ graph' = With(graph, id, drafts[id])
    /\ drafts' = [i \in DOMAIN drafts \ {id} |-> drafts[i]]
    /\ stored' = stored \union {<<id, "body">>}
    /\ UNCHANGED <<now, authority, hold, granted, works,
                   resolution, tombs>>

\* A use is granted by an evaluation and carried out later.
Grant(id, aud, redacted) ==
    /\ Eligible(graph, id, "indexing", aud, redacted)
    /\ RoomForOne
    /\ id \in Indexable
    /\ id \notin granted /\ "index" \notin graph[id].artifacts
    /\ granted' = granted \union {id}
    /\ UNCHANGED <<now, authority, hold, graph, drafts,
                   works, resolution, stored, tombs>>

Index(id) ==
    /\ id \in granted \cap DOMAIN graph
    /\ granted' = granted \ {id}
    /\ graph' = [graph EXCEPT ![id].artifacts = @ \union {"index"}]
    /\ stored' = stored \union {<<id, "index">>}
    /\ UNCHANGED <<now, authority, hold, drafts, works,
                   resolution, tombs>>

-----------------------------------------------------------------------------
\* transition_consent: a revocation before the consent's expiry, an expiry
\* after it, and the deletion request that goes with either.
Transition(c, state) ==
    /\ authority[c].state = "active"
    /\ Terms[c].decided <= now
    /\ (state = "expired") <=> now >= Terms[c].until
    /\ authority' = [authority EXCEPT
         ![c].state = state,
         ![c].trigger = IF state = "revoked" THEN "consent_revoked"
                                             ELSE "consent_expired",
         ![c].status = IF RetentionHeld(c) THEN "under_legal_hold_review"
                                           ELSE "pending"]
    /\ UNCHANGED <<now, hold, graph, drafts, granted,
                   works, resolution, stored, tombs>>

Revoke(c) == Transition(c, "revoked")
Expire(c) == Transition(c, "expired")

\* A reviewer tightens a consent's terms.
Tighten(c) ==
    /\ c \in Tightenable
    /\ ~authority[c].tight
    /\ authority[c].state = "active"
    /\ authority' = [authority EXCEPT ![c].tight = TRUE]
    /\ UNCHANGED <<now, hold, graph, drafts, granted,
                   works, resolution, stored, tombs>>

\* The deletion record's status follows the hold when its owner looks at it.
ReviewStatus(c) ==
    /\ authority[c].status \in {"pending", "under_legal_hold_review"}
    /\ authority' = [authority EXCEPT ![c].status =
         IF RetentionHeld(c) THEN "under_legal_hold_review" ELSE "pending"]
    /\ authority' # authority
    /\ UNCHANGED <<now, hold, graph, drafts, granted,
                   works, resolution, stored, tombs>>

PlaceHold(scope) ==
    /\ hold = NoHold
    /\ scope \cap DOMAIN graph # {}
    /\ hold' = [scope |-> scope, decided |-> now, state |-> "active"]
    /\ UNCHANGED <<now, authority, graph, drafts, granted, works,
                   resolution, stored, tombs>>

-----------------------------------------------------------------------------
\* apply_project_native_withdrawal: the records linked to the revoked consent
\* and the work that removes them.
Affected(g, c) ==
    {r \in DOMAIN g : c \in g[r].consents}
      \union Descendants(g, {r \in DOMAIN g : g[r].inputs = {} /\ c \in g[r].consents})

WithdrawnRow(row, plan) ==
    [row EXCEPT !.state = "revoked", !.uses = {}, !.withdrawn = TRUE,
                !.deletion = plan.state]

\* The fields the withdrawal sets are saved, with the work it planned.
Withdraw(c) ==
    /\ authority[c].state = "revoked"
    /\ authority[c].trigger = "consent_revoked"
    /\ works[c].state = "none"
    /\ Plannable(c)
    /\ graph' = [r \in DOMAIN graph |->
         IF r \in Affected(graph, c) THEN WithdrawnRow(graph[r], Plan(c))
                                     ELSE graph[r]]
    /\ works' = [works EXCEPT ![c] = Plan(c)]
    /\ UNCHANGED <<now, authority, hold, drafts, granted, resolution,
                   stored, tombs>>

\* build_project_native_deletion_work alone: an expired consent, or work
\* planned again after the inventory or the hold changed.
PlanDeletion(c) ==
    /\ authority[c].state = "expired" \/ works[c].state # "none"
    /\ Plannable(c)
    /\ [Plan(c) EXCEPT !.removed = works[c].removed] # works[c]
    /\ works' = [works EXCEPT ![c] = Plan(c)]
    /\ UNCHANGED <<now, authority, hold, graph, drafts,
                   granted, resolution, stored, tombs>>

\* The deletion worker removes the next target's artifacts, as planned.
RemoveTarget(c) ==
    LET left == DOMAIN works[c].targets \ works[c].removed
        id == CHOOSE x \in left : TRUE IN
    /\ works[c].state = "pending"
    /\ left # {}
    /\ works' = [works EXCEPT ![c].removed = @ \union {id}]
    /\ stored' = stored \ ({id} \X works[c].targets[id])
    /\ UNCHANGED <<now, authority, hold, graph, drafts,
                   granted, resolution, tombs>>

\* issue_project_native_legal_hold_resolution: the resolver passes the hold
\* that runs over a target; one that does not cover them all is refused.
Resolve(c) ==
    LET ids == DOMAIN works[c].targets
        held == HoldRuns /\ ids \cap hold.scope # {} IN
    /\ works[c].state = "pending" /\ works[c].removed = ids
    /\ held => HoldCovers(ids)
    /\ resolution' = [ids |-> ids, at |-> now,
                       state |-> IF held THEN "held" ELSE "clear"]
    /\ resolution' # resolution
    /\ UNCHANGED <<now, authority, hold, graph, drafts,
                   granted, works, stored, tombs>>

\* Mutant: a clear resolution stays good however old it is.
MutResolvedEver(ids) ==
    /\ resolution.ids = ids
    /\ resolution.state = "clear"

\* _validate_current_hold_resolution
ResolvedClear(ids) ==
    /\ resolution.ids = ids
    /\ resolution.state = "clear"
    /\ resolution.at <= now /\ now < resolution.at + Window

\* Mutant: the planned contributions are looked up, not their targets.
MutPlanNamesThem(c, affected) ==
    works[c].targets # <<>> /\ DOMAIN works[c].targets \subseteq affected

\* The plan is rebound to the targets of the current inventory.
PlanIsCurrent(c, affected) == works[c].targets = TargetsOf(graph, affected)

\* complete_project_native_deletion: everything that carries the consent now
\* is what was planned, all of it is gone, and no hold was resolved.
Complete(c) ==
    LET affected == {r \in DOMAIN graph : c \in graph[r].consents} IN
    /\ works[c].state = "pending"
    /\ GraphValid(graph)
    /\ ResolvedClear(DOMAIN works[c].targets)
    /\ PlanIsCurrent(c, affected)
    /\ works[c].removed = DOMAIN works[c].targets
    /\ tombs' = [tombs EXCEPT ![c] = @ \union affected]
    /\ graph' = [r \in DOMAIN graph \ affected |-> graph[r]]
    /\ works' = [works EXCEPT ![c] = NoWork]
    /\ authority' = [authority EXCEPT ![c].status = "completed"]
    /\ resolution' = NoResolution
    /\ UNCHANGED <<now, hold, drafts, granted, stored>>

-----------------------------------------------------------------------------
\* Mutant: a derivative counts as the subject's when one input is.
MutSubjectOnly(ids, consents) == consents # {}

\* No derivative in the copy rests on another subject's consent.
SubjectOnly(ids, consents) ==
    \A r \in ids : graph[r].consents \subseteq consents

\* build_subject_export_job: the contributions of one subject's copy, or none
\* when the job is refused.
ExportJob(s) ==
    LET own == {r \in DOMAIN graph :
                  /\ graph[r].inputs = {}
                  /\ \A c \in graph[r].consents : Terms[c].subject = s}
        consents == UNION {graph[r].consents : r \in own}
        ids == Descendants(graph, own)
        granting(c) == /\ authority[c].state = "active"
                       /\ "subject_export" \in Terms[c].uses
                       /\ Effective(c)
    IN IF /\ GraphValid(graph)
          /\ own # {}
          /\ SubjectOnly(ids, consents)
          /\ \A c \in consents : granting(c)
          /\ \A r \in ids : now < graph[r].until
       THEN ids ELSE {}

Next ==
    \/ Tick
    \/ \E p \in Direct : Intake(p)
    \/ \E inputs \in SUBSET DOMAIN graph : \E redacted \in BOOLEAN :
         Cardinality(inputs) <= MaxInputs /\ Derive(inputs, redacted)
    \/ \E id \in DOMAIN drafts : Save(id)
    \/ \E id \in DOMAIN graph : \E aud \in Audiences :
         \E redacted \in BOOLEAN : Grant(id, aud, redacted)
    \/ \E id \in granted : Index(id)
    \/ \E c \in Consents : Revoke(c) \/ Expire(c) \/ Tighten(c)
                           \/ ReviewStatus(c)
    \/ \E scope \in HoldScopes : PlaceHold(scope)
    \/ \E c \in Consents : Withdraw(c) \/ PlanDeletion(c)
                           \/ RemoveTarget(c) \/ Resolve(c) \/ Complete(c)

Spec == Init /\ [][Next]_vars

-----------------------------------------------------------------------------
\* The participants' contributions a record was made from, itself included.
Roots(g, r) == {x \in {r} \union Ancestors(g, r) : g[x].inputs = {}}

\* Whatever a contribution was derived from, and however long ago, a use is
\* eligible only while every participant's consent behind it allows that use
\* to that audience, and only as public and as long as each allows.
UseNeedsEveryAuthority ==
    GraphValid(graph) => \A r \in DOMAIN graph : \A op \in Uses : \A aud \in Audiences :
      \A redacted \in BOOLEAN :
        Eligible(graph, r, op, aud, redacted) =>
          \A p \in Roots(graph, r) : \A c \in graph[p].consents :
            /\ authority[c].state = "active"
            /\ op \in Terms[c].uses /\ aud \in Terms[c].audiences
            /\ op = "public_retrieval" => ClassNow(c) = 0
            /\ graph[r].cls >= ClassNow(c)
            /\ graph[r].until <= RetainNow(c)
            /\ Effective(c)
            /\ Terms[c].redact => redacted

\* A tombstone attests that nothing of the contribution is left in a store or
\* an index and that nothing derived from it survives.
DeletionIsWhole ==
    \A c \in Consents : \A id \in tombs[c] :
      /\ \A x \in stored : x[1] # id
      /\ \A r \in DOMAIN graph : id \notin graph[r].inputs

\* A hold that has run for as long as a resolution can live stops the
\* deletion of whatever it names: also of work planned before it, and of a
\* batch it covers only in part.
HoldStopsDeletion ==
    [][\A id \in DOMAIN graph \ DOMAIN graph' :
         ~(HoldRuns /\ id \in hold.scope /\ hold.decided + Window <= now)]_vars

\* A subject's copy holds what the subject contributed and what was made of
\* it alone, and nothing of a withdrawn contribution.
ExportsAreOwn ==
    \A s \in {Terms[c].subject : c \in Consents} :
      \A r \in ExportJob(s) :
        /\ ~graph[r].withdrawn
        /\ \A p \in Roots(graph, r) : \A c \in graph[p].consents :
             Terms[c].subject = s
=============================================================================
