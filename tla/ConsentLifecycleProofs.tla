-------------------------- MODULE ConsentLifecycleProofs --------------------------
(***************************************************************************)
(* Theorems about ConsentLifecycle, for any consents, contributions,       *)
(* lineages, holds and instants: holds stop deletions, uses need every     *)
(* authority behind them, deletions are whole, exports are the subject's   *)
(* own.                                                                    *)
(***************************************************************************)
EXTENDS ConsentLifecycle, WellFoundedInduction, TLAPS

\* A clear resolution that still lives was issued when no hold ran over its
\* contributions: one that covers them now came later, or ran out before.
Cleared ==
    resolution.state = "clear" /\ hold.state = "active"
      /\ resolution.ids \cap hold.scope # {} =>
        hold.decided >= resolution.at \/ now >= hold.decided + Term

HoldInv ==
    /\ now \in Nat /\ hold.decided \in Nat /\ resolution.at \in Nat
    /\ resolution.at <= now
    /\ hold.state \in {"none", "active"}
    /\ hold.state = "none" => hold = NoHold
    /\ Cleared

LEMMA HoldInit == Init => HoldInv
BY DEF Init, HoldInv, Cleared, NoHold, NoResolution

\* Most steps touch neither the hold nor the resolution.
LEMMA SameHold ==
    ASSUME HoldInv, UNCHANGED <<now, hold, resolution>>
    PROVE  HoldInv'
BY DEF HoldInv, Cleared

LEMMA ResolveKeepsHold ==
    ASSUME HoldInv, NEW c \in Consents, Resolve(c)
    PROVE  HoldInv'
<1> DEFINE ids == DOMAIN works[c].targets
           held == HoldRuns /\ ids \cap hold.scope # {}
<1>1. /\ resolution' = [ids |-> ids, at |-> now,
                         state |-> IF held THEN "held" ELSE "clear"]
      /\ now' = now /\ hold' = hold
  BY DEF Resolve
<1>2. /\ resolution'.ids = ids /\ resolution'.at = now
      /\ resolution'.state = "clear" => ~held
  BY <1>1
<1>3. ~held /\ hold.state = "active" /\ ids \cap hold.scope # {} =>
        now >= hold.decided + Term
  BY BoundsAssumption DEF HoldInv, HoldRuns
<1> HIDE DEF ids, held
<1> QED
  BY <1>1, <1>2, <1>3 DEF HoldInv, Cleared

LEMMA HoldStep == HoldInv /\ [Next]_vars => HoldInv'
<1> SUFFICES ASSUME HoldInv, [Next]_vars PROVE HoldInv'
  OBVIOUS
<1>1. CASE Tick
  BY <1>1, BoundsAssumption DEF Tick, HoldInv, Cleared
<1>2. ASSUME NEW scope \in HoldScopes, PlaceHold(scope)
      PROVE  HoldInv'
  BY <1>2 DEF PlaceHold, HoldInv, Cleared
<1>3. ASSUME NEW c \in Consents, Resolve(c)
      PROVE  HoldInv'
  BY <1>3, ResolveKeepsHold
<1>4. ASSUME NEW c \in Consents, Complete(c)
      PROVE  HoldInv'
  BY <1>4 DEF Complete, NoResolution, HoldInv, Cleared
<1>5. ASSUME NEW p \in Direct, Intake(p)
      PROVE  HoldInv'
  BY <1>5, SameHold DEF Intake, Draft
<1>6. ASSUME NEW inputs, NEW redacted, Derive(inputs, redacted)
      PROVE  HoldInv'
  BY <1>6, SameHold DEF Derive, Draft
<1>7. ASSUME NEW id, Save(id) \/ Index(id)
      PROVE  HoldInv'
  BY <1>7, SameHold DEF Save, Index
<1>8. ASSUME NEW id, NEW aud, NEW redacted, Grant(id, aud, redacted)
      PROVE  HoldInv'
  BY <1>8, SameHold DEF Grant
<1>9. ASSUME NEW c \in Consents,
             \/ Revoke(c) \/ Expire(c) \/ Tighten(c) \/ ReviewStatus(c)
             \/ Withdraw(c) \/ PlanDeletion(c) \/ RemoveTarget(c)
      PROVE  HoldInv'
  BY <1>9, SameHold DEF Revoke, Expire, Transition, Tighten, ReviewStatus,
     Withdraw, PlanDeletion, RemoveTarget
<1>10. CASE UNCHANGED vars
  BY <1>10, SameHold DEF vars
<1> QED
  BY <1>1, <1>2, <1>3, <1>4, <1>5, <1>6, <1>7, <1>8, <1>9, <1>10 DEF Next

\* What a step may not take out of the inventory.
Spared == \A id \in DOMAIN graph \ DOMAIN graph' :
            ~(HoldRuns /\ id \in hold.scope /\ hold.decided + Window <= now)

\* Only a completion takes contributions out, and only ones its plan names.
LEMMA CompleteSpares ==
    ASSUME HoldInv, NEW c \in Consents, Complete(c)
    PROVE  Spared
<1> DEFINE affected == {r \in DOMAIN graph : c \in graph[r].consents}
<1>1. /\ graph' = [r \in DOMAIN graph \ affected |-> graph[r]]
      /\ works[c].targets = TargetsOf(graph, affected)
      /\ ResolvedClear(DOMAIN works[c].targets)
  BY DEF Complete, PlanIsCurrent
<1>2. DOMAIN works[c].targets = affected
  BY <1>1 DEF TargetsOf
<1>3. /\ resolution.ids = affected /\ resolution.state = "clear"
      /\ now < resolution.at + Window
  BY <1>1, <1>2 DEF ResolvedClear
<1>4. DOMAIN graph \ DOMAIN graph' \subseteq affected
  BY <1>1
<1> HIDE DEF affected
<1>5. ASSUME NEW id \in affected, HoldRuns, id \in hold.scope,
             hold.decided + Window <= now
      PROVE  FALSE
  <2>1. hold.state = "active" /\ now < hold.decided + Term
    BY <1>5 DEF HoldRuns
  <2>2. hold.decided >= resolution.at
    <3>1. resolution.ids \cap hold.scope # {}
      BY <1>3, <1>5
    <3> QED
      BY <1>3, <2>1, <3>1, BoundsAssumption DEF HoldInv, Cleared
  <2> QED
    BY <1>3, <1>5, <2>2, BoundsAssumption DEF HoldInv
<1> QED
  BY <1>4, <1>5 DEF Spared

LEMMA OthersSpare ==
    ASSUME [Next]_vars, \A c \in Consents : ~Complete(c)
    PROVE  DOMAIN graph \subseteq DOMAIN graph'
<1>1. ASSUME NEW id, Save(id)
      PROVE  DOMAIN graph \subseteq DOMAIN graph'
  BY <1>1 DEF Save, With
<1>2. ASSUME NEW id, Index(id)
      PROVE  DOMAIN graph \subseteq DOMAIN graph'
  BY <1>2 DEF Index
<1>3. ASSUME NEW c \in Consents, Withdraw(c)
      PROVE  DOMAIN graph \subseteq DOMAIN graph'
  BY <1>3 DEF Withdraw
<1>4. CASE Tick \/ \E p \in Direct : Intake(p)
  BY <1>4 DEF Tick, Intake, Draft
<1>5. ASSUME NEW inputs, NEW redacted, Derive(inputs, redacted)
      PROVE  DOMAIN graph \subseteq DOMAIN graph'
  BY <1>5 DEF Derive, Draft
<1>6. ASSUME NEW id, NEW aud, NEW redacted, Grant(id, aud, redacted)
      PROVE  DOMAIN graph \subseteq DOMAIN graph'
  BY <1>6 DEF Grant
<1>7. ASSUME NEW c \in Consents,
             \/ Revoke(c) \/ Expire(c) \/ Tighten(c) \/ ReviewStatus(c)
             \/ PlanDeletion(c) \/ RemoveTarget(c) \/ Resolve(c)
      PROVE  DOMAIN graph \subseteq DOMAIN graph'
  BY <1>7 DEF Revoke, Expire, Transition, Tighten, ReviewStatus, PlanDeletion,
     RemoveTarget, Resolve
<1>8. ASSUME NEW scope, PlaceHold(scope)
      PROVE  DOMAIN graph \subseteq DOMAIN graph'
  BY <1>8 DEF PlaceHold
<1>9. CASE UNCHANGED vars
  BY <1>9 DEF vars
<1> QED
  BY <1>1, <1>2, <1>3, <1>4, <1>5, <1>6, <1>7, <1>8, <1>9 DEF Next

\* Whatever is planned, resolved, saved and completed in whichever order, no
\* completed deletion takes out a contribution that a hold names, once the
\* hold has run for as long as a resolution lives.
THEOREM HoldSpares == Spec => HoldStopsDeletion
<1>1. Spec => []HoldInv
  BY HoldInit, HoldStep, PTL DEF Spec
<1>2. HoldInv /\ [Next]_vars => [Spared]_vars
  <2> SUFFICES ASSUME HoldInv, [Next]_vars PROVE Spared
    OBVIOUS
  <2>1. CASE \E c \in Consents : Complete(c)
    BY <2>1, CompleteSpares
  <2>2. CASE \A c \in Consents : ~Complete(c)
    BY <2>2, OthersSpare DEF Spared
  <2> QED
    BY <2>1, <2>2
<1> QED
  BY <1>1, <1>2, PTL DEF Spec, HoldStopsDeletion, Spared

-----------------------------------------------------------------------------
(***************************************************************************)
(* The lineage graph.                                                      *)
(***************************************************************************)
RowFields == {"inputs", "consents", "state", "uses", "cls", "until",
              "withdrawn", "deletion", "artifacts"}

\* A record of the inventory; a participant's own rests on one consent.
RowSound(row) ==
    /\ RowFields \subseteq DOMAIN row
    /\ row.cls \in Classes /\ row.until \in Nat
    /\ row.withdrawn \in BOOLEAN
    /\ row.consents \subseteq Consents
    /\ row.inputs = {} => \E c \in Consents : row.consents = {c}

\* A derived record is saved after its inputs: whatever records are chosen,
\* one of them is made of none of the others.
Founded(g) ==
    \A S \in SUBSET DOMAIN g :
      S # {} => \E m \in S : g[m].inputs \cap S = {}

Lines(g, up) ==
    up = [x \in DOMAIN g |-> g[x].inputs \union UNION {up[y] : y \in g[x].inputs}]

\* The recursion that defines the ancestors has a solution.
Climbs(g) == \E up : Lines(g, up)

RowsSound(g) ==
    \A r \in DOMAIN g : RowSound(g[r]) /\ g[r].inputs \subseteq DOMAIN g

LineageSound(g) == RowsSound(g) /\ Founded(g) /\ Climbs(g)

DraftSound(row) ==
    RowSound(row) /\ ~row.withdrawn /\ row.artifacts = {"body"}

\* A withdrawn record rests on a consent that is no longer active.
WithdrawnForCause ==
    \A r \in DOMAIN graph :
      graph[r].withdrawn =>
        \E c \in graph[r].consents : authority[c].state # "active"

RecordsSound ==
    /\ DOMAIN authority = Consents
    /\ \A c \in Consents :
         {"state", "tight", "trigger", "status"} \subseteq DOMAIN authority[c]
    /\ now \in Nat
    /\ LineageSound(graph)
    /\ \A id \in DOMAIN drafts : DraftSound(drafts[id])
    /\ WithdrawnForCause

\* An id that was ever saved.
Known(id) == id \in DOMAIN graph \/ \E b \in Consents : id \in tombs[b]

\* What the deletions leave behind.  An id is new, current or tombstoned;
\* the stores hold what the current records name; a target that is removed
\* holds nothing of its plan any more, and no use that is under way puts it
\* back, because the plan names no artifact that the record has yet to get.
WorkSound(work) ==
    /\ {"state", "targets", "removed"} \subseteq DOMAIN work
    /\ work.removed \subseteq DOMAIN work.targets
    /\ \A id \in DOMAIN work.targets : Known(id)
    /\ \A id \in DOMAIN work.targets \cap DOMAIN graph :
         work.targets[id] \subseteq graph[id].artifacts
    /\ \A id \in work.removed \cap DOMAIN graph :
         \A a \in work.targets[id] : <<id, a>> \notin stored

StoresSound ==
    /\ DOMAIN drafts \cap DOMAIN graph = {}
    /\ DOMAIN tombs = Consents
    /\ \A c \in Consents : tombs[c] \cap (DOMAIN graph \union DOMAIN drafts) = {}
    /\ \A x \in stored : /\ x = <<x[1], x[2]>> /\ x[1] \in DOMAIN graph
                         /\ x[2] \in graph[x[1]].artifacts
    /\ \A id \in granted : Known(id)
    /\ \A id \in granted \cap DOMAIN graph : "index" \notin graph[id].artifacts

DeletionSound ==
    /\ StoresSound
    /\ DOMAIN works = Consents
    /\ \A c \in Consents : WorkSound(works[c])

-----------------------------------------------------------------------------
\* The strictest of some classes, and the earliest of some instants, exist.
LEMMA GreatestClass ==
    ASSUME NEW S, S \subseteq Classes, S # {}
    PROVE  Greatest(S) \in S /\ \A y \in S : y <= Greatest(S)
<1>1. PICK x \in S : \A y \in S : x >= y
  <2>1. S \subseteq {0, 1, 2}
    BY DEF Classes
  <2>2. CASE 2 \in S
    BY <2>1, <2>2
  <2>3. CASE 2 \notin S /\ 1 \in S
    BY <2>1, <2>3
  <2>4. CASE 2 \notin S /\ 1 \notin S
    <3>1. S = {0}
      BY <2>1, <2>4
    <3> QED
      BY <3>1
  <2> QED
    BY <2>2, <2>3, <2>4
<1>2. Greatest(S) \in S /\ \A y \in S : Greatest(S) >= y
  BY <1>1 DEF Greatest
<1> QED
  BY <1>2 DEF Classes

LEMMA LeastInstant ==
    ASSUME NEW S, S \subseteq Nat, S # {}
    PROVE  Least(S) \in S /\ \A y \in S : Least(S) <= y
<1> DEFINE R == OpToRel(<, Nat)
<1>1. PICK x \in S : \A y \in S : ~(<<y, x>> \in R)
  <2> IsWellFoundedOn(R, Nat)
    BY NatLessThanWellFounded, Zenon
  <2> HIDE DEF R
  <2> QED
    BY WFMin
<1>2. ASSUME NEW y \in S
      PROVE  x <= y
  <2>1. y \in Nat /\ x \in Nat
    OBVIOUS
  <2>2. y < x => <<y, x>> \in R
    BY <2>1, Zenon DEF OpToRel
  <2>3. ~(y < x)
    BY <1>1, <2>2
  <2> QED
    BY <2>1, <2>3
<1> QED
  BY <1>2 DEF Least

\* The contributions behind a record are its inputs and those behind them.
LEMMA AncestorsStep ==
    ASSUME NEW g, LineageSound(g), NEW r \in DOMAIN g
    PROVE  Ancestors(g, r) =
             g[r].inputs \union UNION {Ancestors(g, y) : y \in g[r].inputs}
<1> DEFINE up[x \in DOMAIN g] ==
             g[x].inputs \union UNION {up[y] : y \in g[x].inputs}
<1>1. Lines(g, up)
  BY DEF LineageSound, Climbs, Lines
<1>2. \A x : Ancestors(g, x) = up[x]
  BY DEF Ancestors
<1> HIDE DEF up
<1>3. up[r] = g[r].inputs \union UNION {up[y] : y \in g[r].inputs}
  BY <1>1 DEF Lines
<1> QED
  BY <1>2, <1>3

LEMMA AncestorsInside ==
    ASSUME NEW g, LineageSound(g), NEW r \in DOMAIN g
    PROVE  Ancestors(g, r) \subseteq DOMAIN g
<1> DEFINE S == {x \in DOMAIN g : ~(Ancestors(g, x) \subseteq DOMAIN g)}
<1>1. SUFFICES ASSUME S # {} PROVE FALSE
  OBVIOUS
<1>2. PICK m \in S : g[m].inputs \cap S = {}
  BY <1>1 DEF LineageSound, Founded
<1>3. g[m].inputs \subseteq DOMAIN g
  BY DEF LineageSound, RowsSound
<1>4. \A y \in g[m].inputs : Ancestors(g, y) \subseteq DOMAIN g
  BY <1>2, <1>3
<1>5. Ancestors(g, m) =
        g[m].inputs \union UNION {Ancestors(g, y) : y \in g[m].inputs}
  BY AncestorsStep
<1> QED
  BY <1>3, <1>4, <1>5

\* A record carries the consents of everything it was derived from.
LEMMA ConsentsInherited ==
    ASSUME NEW g, LineageSound(g), GraphValid(g), NEW r \in DOMAIN g,
           NEW p \in Ancestors(g, r)
    PROVE  g[p].consents \subseteq g[r].consents
<1> DEFINE S == {x \in DOMAIN g : \E q \in Ancestors(g, x) :
                   ~(g[q].consents \subseteq g[x].consents)}
<1>1. SUFFICES ASSUME S # {} PROVE FALSE
  OBVIOUS
<1>2. PICK m \in S : g[m].inputs \cap S = {}
  BY <1>1 DEF LineageSound, Founded
<1>3. PICK q \in Ancestors(g, m) : ~(g[q].consents \subseteq g[m].consents)
  OBVIOUS
<1>4. g[m].inputs \subseteq DOMAIN g
  BY DEF LineageSound, RowsSound
<1>5. \A i \in g[m].inputs : g[i].consents \subseteq g[m].consents
  BY DEF GraphValid
<1>6. q \notin g[m].inputs
  BY <1>3, <1>5
<1>7. PICK y \in g[m].inputs : q \in Ancestors(g, y)
  BY <1>3, <1>6, AncestorsStep
<1>8. g[q].consents \subseteq g[y].consents
  BY <1>2, <1>4, <1>7
<1> QED
  BY <1>3, <1>5, <1>7, <1>8

-----------------------------------------------------------------------------
(***************************************************************************)
(* A record is saved, changed where its lineage is not, or taken out with  *)
(* everything made of it.                                                  *)
(***************************************************************************)
LEMMA SavedLineage ==
    ASSUME NEW g, LineageSound(g), NEW id, id \notin DOMAIN g,
           NEW row, RowSound(row), row.inputs \subseteq DOMAIN g
    PROVE  LineageSound(With(g, id, row))
<1> DEFINE h == With(g, id, row)
<1>1. /\ DOMAIN h = DOMAIN g \union {id} /\ h[id] = row
      /\ \A x \in DOMAIN g : h[x] = g[x]
  BY DEF With
<1> HIDE DEF h
<1>2. RowsSound(h)
  BY <1>1 DEF LineageSound, RowsSound
<1>3. Founded(h)
  <2> SUFFICES ASSUME NEW S \in SUBSET DOMAIN h, S # {}
               PROVE  \E m \in S : h[m].inputs \cap S = {}
    BY DEF Founded
  <2>1. CASE S \cap DOMAIN g = {}
    BY <1>1, <2>1
  <2>2. CASE S \cap DOMAIN g # {}
    <3>1. PICK m \in S \cap DOMAIN g : g[m].inputs \cap (S \cap DOMAIN g) = {}
      BY <2>2 DEF LineageSound, Founded
    <3>2. g[m].inputs \subseteq DOMAIN g
      BY DEF LineageSound, RowsSound
    <3> QED
      BY <1>1, <3>1, <3>2
  <2> QED
    BY <2>1, <2>2
<1>4. Climbs(h)
  <2>1. PICK up : Lines(g, up)
    BY DEF LineageSound, Climbs
  <2> DEFINE new == With(up, id, row.inputs \union UNION {up[y] : y \in row.inputs})
  <2>2. DOMAIN up = DOMAIN g
    BY <2>1 DEF Lines
  <2>3. /\ new = [x \in DOMAIN h |-> new[x]]
        /\ new[id] = row.inputs \union UNION {up[y] : y \in row.inputs}
        /\ \A x \in DOMAIN g : new[x] = up[x]
    BY <1>1, <2>2 DEF With
  <2> HIDE DEF new
  <2>4. ASSUME NEW x \in DOMAIN h
        PROVE  new[x] = h[x].inputs \union UNION {new[y] : y \in h[x].inputs}
    <3>1. CASE x = id
      <4>1. {new[y] : y \in h[x].inputs} = {up[y] : y \in row.inputs}
        BY <1>1, <2>3, <3>1
      <4> QED
        BY <1>1, <2>3, <3>1, <4>1
    <3>2. CASE x \in DOMAIN g
      <4>1. up[x] = g[x].inputs \union UNION {up[y] : y \in g[x].inputs}
        BY <2>1, <3>2 DEF Lines
      <4>2. g[x].inputs \subseteq DOMAIN g
        BY <3>2 DEF LineageSound, RowsSound
      <4>3. {new[y] : y \in h[x].inputs} = {up[y] : y \in g[x].inputs}
        <5>1. h[x].inputs = g[x].inputs
          BY <1>1, <3>2
        <5>2. \A y \in g[x].inputs : new[y] = up[y]
          BY <2>3, <4>2
        <5> QED
          BY <5>1, <5>2
      <4> QED
        BY <1>1, <2>3, <3>2, <4>1, <4>3
    <3> QED
      BY <1>1, <3>1, <3>2
  <2>5. new = [x \in DOMAIN h |->
                 h[x].inputs \union UNION {new[y] : y \in h[x].inputs}]
    BY <2>3, <2>4
  <2> QED
    BY <2>5 DEF Climbs, Lines
<1> QED
  BY <1>2, <1>3, <1>4 DEF LineageSound, h

SameLines(g, h) ==
    /\ DOMAIN h = DOMAIN g
    /\ \A r \in DOMAIN g : RowSound(h[r]) /\ h[r].inputs = g[r].inputs

LEMMA ChangedLineage ==
    ASSUME NEW g, LineageSound(g), NEW h, SameLines(g, h)
    PROVE  LineageSound(h)
<1>1. RowsSound(h) /\ Founded(h)
  BY DEF SameLines, LineageSound, RowsSound, Founded
<1>2. PICK up : Lines(g, up)
  BY DEF LineageSound, Climbs
<1>3. Lines(h, up)
  <2>1. [x \in DOMAIN h |-> h[x].inputs \union UNION {up[y] : y \in h[x].inputs}] =
        [x \in DOMAIN g |-> g[x].inputs \union UNION {up[y] : y \in g[x].inputs}]
    BY DEF SameLines
  <2> QED
    BY <1>2, <2>1 DEF Lines
<1> QED
  BY <1>1, <1>3 DEF LineageSound, Climbs

LEMMA CutLineage ==
    ASSUME NEW g, LineageSound(g), NEW S \in SUBSET DOMAIN g,
           \A r \in S : g[r].inputs \subseteq S
    PROVE  LineageSound([r \in S |-> g[r]])
<1> DEFINE h == [r \in S |-> g[r]]
<1>1. DOMAIN h = S /\ \A r \in S : h[r] = g[r]
  OBVIOUS
<1> HIDE DEF h
<1>2. RowsSound(h) /\ Founded(h)
  BY <1>1 DEF LineageSound, RowsSound, Founded
<1>3. PICK up : Lines(g, up)
  BY DEF LineageSound, Climbs
<1> DEFINE new == [x \in S |-> up[x]]
<1>4. \A x \in S : new[x] = up[x]
  OBVIOUS
<1>5. ASSUME NEW x \in S
      PROVE  new[x] = h[x].inputs \union UNION {new[y] : y \in h[x].inputs}
  <2>1. up[x] = g[x].inputs \union UNION {up[y] : y \in g[x].inputs}
    BY <1>3, <1>5 DEF Lines
  <2> HIDE DEF new
  <2>2. {new[y] : y \in h[x].inputs} = {up[y] : y \in g[x].inputs}
    BY <1>1, <1>4
  <2> QED
    BY <1>1, <1>4, <2>1, <2>2
<1>6. new = [x \in DOMAIN h |-> new[x]]
  BY <1>1
<1> HIDE DEF new
<1>7. Lines(h, new)
  BY <1>1, <1>5, <1>6 DEF Lines
<1> QED
  BY <1>2, <1>7 DEF LineageSound, Climbs, h

-----------------------------------------------------------------------------
\* What intake and derivation build.
LEMMA ContributionSound ==
    ASSUME now \in Nat, NEW p \in Direct
    PROVE  DraftSound(Contribution(p)) /\ Contribution(p).inputs = {}
<1> DEFINE q == Request[p]
           ends == {now + q.days, Terms[q.consent].until}
<1>1. q.consent \in Consents /\ q.cls \in Classes
  BY RequestAssumption
<1>2. ends \subseteq Nat /\ ends # {}
  BY <1>1, TermsAssumption, RequestAssumption
<1>3. Least(ends) \in Nat
  BY <1>2, LeastInstant
<1> HIDE DEF ends
<1>4. PICK row : row = Contribution(p)
  OBVIOUS
<1>5. /\ row.inputs = {} /\ row.consents = {q.consent} /\ row.cls = q.cls
      /\ row.until = Least(ends) /\ row.withdrawn = FALSE
      /\ row.artifacts = {"body"} /\ RowFields \subseteq DOMAIN row
  BY <1>4 DEF Contribution, RowFields, ends
<1> QED
  BY <1>1, <1>3, <1>4, <1>5 DEF DraftSound, RowSound

LEMMA DerivedSound ==
    ASSUME NEW g, LineageSound(g), NEW inputs \in SUBSET DOMAIN g, inputs # {}
    PROVE  DraftSound(DerivedFrom(g, inputs))
<1> DEFINE from == {g[i] : i \in inputs}
           classes == {f.cls : f \in from}
           ends == {f.until : f \in from}
<1>1. \A f \in from : RowSound(f)
  BY DEF LineageSound, RowsSound
<1>2. from # {}
  OBVIOUS
<1> HIDE DEF from
<1>3. classes \subseteq Classes /\ classes # {} /\ ends \subseteq Nat /\ ends # {}
  BY <1>1, <1>2 DEF RowSound
<1>4. UNION {f.consents : f \in from} \subseteq Consents
  BY <1>1 DEF RowSound
<1> HIDE DEF classes, ends
<1>5. Greatest(classes) \in Classes /\ Least(ends) \in Nat
  BY <1>3, GreatestClass, LeastInstant
<1>6. PICK row : row = DerivedFrom(g, inputs)
  OBVIOUS
<1>7. /\ row.inputs = inputs /\ row.consents = UNION {f.consents : f \in from}
      /\ row.cls = Greatest(classes) /\ row.until = Least(ends)
      /\ row.withdrawn = FALSE
      /\ row.artifacts = {"body"} /\ RowFields \subseteq DOMAIN row
  BY <1>6 DEF DerivedFrom, RowFields, classes, ends, from
<1> QED
  BY <1>4, <1>5, <1>6, <1>7 DEF DraftSound, RowSound

-----------------------------------------------------------------------------
\* No consent becomes active again.
AuthorityKeeps ==
    /\ DOMAIN authority' = Consents
    /\ \A c \in Consents :
         /\ {"state", "tight", "trigger", "status"} \subseteq DOMAIN authority'[c]
         /\ authority'[c].state = "active" => authority[c].state = "active"

LEMMA AuthorityStep ==
    ASSUME RecordsSound, [Next]_vars
    PROVE  AuthorityKeeps
<1>1. CASE UNCHANGED authority
  BY <1>1 DEF AuthorityKeeps, RecordsSound
<1>2. ASSUME NEW c \in Consents, NEW state \in {"revoked", "expired"},
             Transition(c, state)
      PROVE  AuthorityKeeps
  BY <1>2 DEF Transition, AuthorityKeeps, RecordsSound
<1>3. ASSUME NEW c \in Consents, Tighten(c) \/ ReviewStatus(c) \/ Complete(c)
      PROVE  AuthorityKeeps
  BY <1>3 DEF Tighten, ReviewStatus, Complete, AuthorityKeeps, RecordsSound
<1>4. CASE Tick \/ UNCHANGED vars
  BY <1>1, <1>4 DEF Tick, vars
<1>5. ASSUME NEW p \in Direct, Intake(p)
      PROVE  AuthorityKeeps
  BY <1>1, <1>5 DEF Intake, Draft
<1>6. ASSUME NEW inputs, NEW redacted, Derive(inputs, redacted)
      PROVE  AuthorityKeeps
  BY <1>1, <1>6 DEF Derive, Draft
<1>7. ASSUME NEW id, Save(id) \/ Index(id) \/ PlaceHold(id)
      PROVE  AuthorityKeeps
  BY <1>1, <1>7 DEF Save, Index, PlaceHold
<1>8. ASSUME NEW id, NEW aud, NEW redacted, Grant(id, aud, redacted)
      PROVE  AuthorityKeeps
  BY <1>1, <1>8 DEF Grant
<1>9. ASSUME NEW c \in Consents,
             Withdraw(c) \/ PlanDeletion(c) \/ RemoveTarget(c) \/ Resolve(c)
      PROVE  AuthorityKeeps
  BY <1>1, <1>9 DEF Withdraw, PlanDeletion, RemoveTarget, Resolve
<1> QED
  BY <1>2, <1>3, <1>4, <1>5, <1>6, <1>7, <1>8, <1>9 DEF Next, Revoke, Expire

LEMMA SameRecords ==
    ASSUME RecordsSound, AuthorityKeeps, now' \in Nat,
           UNCHANGED <<graph, drafts>>
    PROVE  RecordsSound'
<1>1. LineageSound(graph)' /\ \A id \in DOMAIN drafts' : DraftSound(drafts[id])'
  BY DEF RecordsSound
<1>2. WithdrawnForCause'
  BY DEF RecordsSound, LineageSound, RowsSound, RowSound, WithdrawnForCause,
     AuthorityKeeps
<1> QED
  BY <1>1, <1>2 DEF RecordsSound, AuthorityKeeps

LEMMA DraftRecords ==
    ASSUME RecordsSound, AuthorityKeeps, NEW id, NEW row, DraftSound(row),
           Draft(id, row)
    PROVE  RecordsSound'
<1>1. /\ graph' = graph /\ now' = now
      /\ drafts' = With(drafts, id, row)
  BY DEF Draft
<1>2. LineageSound(graph)' /\ now' \in Nat
  BY <1>1 DEF RecordsSound
<1>3. \A x \in DOMAIN drafts' : DraftSound(drafts'[x])
  BY <1>1 DEF RecordsSound, With
<1>4. WithdrawnForCause'
  BY <1>1 DEF RecordsSound, LineageSound, RowsSound, RowSound,
     WithdrawnForCause, AuthorityKeeps
<1> QED
  BY <1>2, <1>3, <1>4 DEF RecordsSound, AuthorityKeeps, DraftSound, RowSound

LEMMA SaveRecords ==
    ASSUME RecordsSound, AuthorityKeeps, DOMAIN drafts \cap DOMAIN graph = {},
           NEW id \in DOMAIN drafts, Save(id)
    PROVE  RecordsSound'
<1> PICK row : row = drafts[id]
  OBVIOUS
<1>1. /\ row.inputs \subseteq DOMAIN graph
      /\ graph' = With(graph, id, row)
      /\ drafts' = [i \in DOMAIN drafts \ {id} |-> drafts[i]]
      /\ now' = now
  BY DEF Save
<1>2. DraftSound(row)
  BY DEF RecordsSound
<1>3. LineageSound(graph)'
  BY <1>1, <1>2, SavedLineage DEF RecordsSound, DraftSound
<1>4. \A x \in DOMAIN drafts' : DraftSound(drafts'[x])
  BY <1>1 DEF RecordsSound
<1>5. WithdrawnForCause'
  BY <1>1, <1>2 DEF RecordsSound, LineageSound, RowsSound, RowSound, DraftSound,
     WithdrawnForCause, AuthorityKeeps, With
<1> QED
  BY <1>1, <1>3, <1>4, <1>5 DEF RecordsSound, AuthorityKeeps, DraftSound, RowSound

\* What indexing and withdrawal leave of a record.
Kept(old, new) ==
    /\ DOMAIN new = DOMAIN old
    /\ new.inputs = old.inputs /\ new.consents = old.consents
    /\ new.cls = old.cls /\ new.until = old.until

LEMMA IndexRecords ==
    ASSUME RecordsSound, AuthorityKeeps, NEW id, Index(id)
    PROVE  RecordsSound'
<1>1. /\ id \in DOMAIN graph
      /\ graph' = [graph EXCEPT ![id].artifacts = @ \union {"index"}]
      /\ drafts' = drafts /\ now' = now
  BY DEF Index
<1>2. ASSUME NEW r \in DOMAIN graph
      PROVE  Kept(graph[r], graph'[r]) /\ graph'[r].withdrawn = graph[r].withdrawn
  <2>1. RowFields \subseteq DOMAIN graph[r]
    BY DEF RecordsSound, LineageSound, RowsSound, RowSound
  <2> QED
    BY <1>1, <2>1 DEF Kept, RowFields
<1>3. DOMAIN graph' = DOMAIN graph
  BY <1>1
<1>4. SameLines(graph, graph')
  BY <1>2, <1>3 DEF SameLines, Kept, RecordsSound, LineageSound, RowsSound, RowSound
<1>5. LineageSound(graph)'
  BY <1>4, ChangedLineage DEF RecordsSound
<1>6. WithdrawnForCause'
  BY <1>2, <1>3 DEF RecordsSound, LineageSound, RowsSound, RowSound, Kept,
     WithdrawnForCause, AuthorityKeeps
<1> QED
  BY <1>1, <1>5, <1>6 DEF RecordsSound, AuthorityKeeps, DraftSound, RowSound

\* A withdrawal reaches exactly the records that carry the consent.
LEMMA AffectedCarry ==
    ASSUME NEW g, LineageSound(g), GraphValid(g), NEW c, NEW r \in Affected(g, c)
    PROVE  r \in DOMAIN g /\ c \in g[r].consents
<1> DEFINE S == {x \in DOMAIN g : g[x].inputs = {} /\ c \in g[x].consents}
<1>1. CASE r \in DOMAIN g /\ c \in g[r].consents
  BY <1>1
<1>2. CASE r \in Descendants(g, S)
  <2>1. r \in DOMAIN g /\ (r \in S \/ Ancestors(g, r) \cap S # {})
    BY <1>2 DEF Descendants
  <2>2. CASE r \in S
    BY <2>2
  <2>3. CASE Ancestors(g, r) \cap S # {}
    <3>1. PICK p \in Ancestors(g, r) : p \in S
      BY <2>3
    <3>2. g[p].consents \subseteq g[r].consents
      BY <2>1, <3>1, ConsentsInherited
    <3> QED
      BY <2>1, <3>1, <3>2
  <2> QED
    BY <2>1, <2>2, <2>3
<1> QED
  BY <1>1, <1>2 DEF Affected

LEMMA WithdrawRecords ==
    ASSUME RecordsSound, AuthorityKeeps, NEW c \in Consents, Withdraw(c)
    PROVE  RecordsSound'
<1> PICK plan : plan = Plan(c)
  OBVIOUS
<1>1. /\ graph' = [r \in DOMAIN graph |->
           IF r \in Affected(graph, c) THEN WithdrawnRow(graph[r], plan)
                                       ELSE graph[r]]
      /\ drafts' = drafts /\ now' = now /\ authority' = authority
      /\ authority[c].state = "revoked" /\ GraphValid(graph)
  BY DEF Withdraw, Plannable
<1>2. DOMAIN graph' = DOMAIN graph
  BY <1>1
<1>3. ASSUME NEW r \in DOMAIN graph
      PROVE  /\ Kept(graph[r], graph'[r])
             /\ graph'[r].withdrawn \in BOOLEAN
             /\ graph'[r].withdrawn => graph[r].withdrawn \/ c \in graph[r].consents
  <2>1. RowFields \subseteq DOMAIN graph[r] /\ graph[r].withdrawn \in BOOLEAN
    BY DEF RecordsSound, LineageSound, RowsSound, RowSound
  <2>2. CASE r \notin Affected(graph, c)
    BY <1>1, <2>1, <2>2 DEF Kept
  <2>3. CASE r \in Affected(graph, c)
    <3>1. graph'[r] = WithdrawnRow(graph[r], plan)
      BY <1>1, <2>3
    <3>2. Kept(graph[r], graph'[r]) /\ graph'[r].withdrawn = TRUE
      BY <2>1, <3>1 DEF WithdrawnRow, Kept, RowFields
    <3>3. c \in graph[r].consents
      BY <1>1, <2>3, AffectedCarry DEF RecordsSound
    <3> QED
      BY <3>2, <3>3
  <2> QED
    BY <2>2, <2>3
<1>4. SameLines(graph, graph')
  BY <1>2, <1>3 DEF SameLines, Kept, RecordsSound, LineageSound, RowsSound, RowSound
<1>5. LineageSound(graph)'
  BY <1>4, ChangedLineage DEF RecordsSound
<1>6. WithdrawnForCause'
  BY <1>1, <1>2, <1>3 DEF RecordsSound, WithdrawnForCause, Kept
<1> QED
  BY <1>1, <1>5, <1>6 DEF RecordsSound, AuthorityKeeps, DraftSound, RowSound

\* A completion takes out, with a record, whatever was made of it.
LEMMA CompletionIsClosed ==
    ASSUME NEW c \in Consents, GraphValid(graph),
           NEW r \in DOMAIN graph, c \notin graph[r].consents,
           NEW i \in graph[r].inputs
    PROVE  i \in DOMAIN graph /\ c \notin graph[i].consents
BY DEF GraphValid

LEMMA CompleteRecords ==
    ASSUME RecordsSound, AuthorityKeeps, NEW c \in Consents, Complete(c)
    PROVE  RecordsSound'
<1> DEFINE left == {r \in DOMAIN graph : c \notin graph[r].consents}
<1>1. /\ graph' = [r \in left |-> graph[r]] /\ GraphValid(graph)
      /\ drafts' = drafts /\ now' = now
  <2>1. DOMAIN graph \ {r \in DOMAIN graph : c \in graph[r].consents} = left
    OBVIOUS
  <2> QED
    BY <2>1 DEF Complete
<1>2. \A r \in left : graph[r].inputs \subseteq left
  BY <1>1, CompletionIsClosed
<1>3. left \in SUBSET DOMAIN graph
  OBVIOUS
<1> HIDE DEF left
<1>4. LineageSound(graph)'
  BY <1>1, <1>2, <1>3, CutLineage DEF RecordsSound
<1>5. WithdrawnForCause'
  BY <1>1, <1>3 DEF RecordsSound, LineageSound, RowsSound, RowSound,
     WithdrawnForCause, AuthorityKeeps
<1> QED
  BY <1>1, <1>4, <1>5 DEF RecordsSound, AuthorityKeeps, DraftSound, RowSound

LEMMA DeriveDrafts ==
    ASSUME RecordsSound, NEW inputs, NEW redacted, Derive(inputs, redacted)
    PROVE  \E id : Fresh(id) /\ \E row : DraftSound(row) /\ Draft(id, row)
<1> DEFINE fresh == {x \in Derived : Fresh(x)}
           d == CHOOSE x \in fresh : TRUE
<1>1. fresh # {}
  BY DEF Derive
<1>2. Fresh(d)
  BY <1>1
<1>3. /\ inputs \subseteq DOMAIN graph /\ inputs # {}
      /\ Draft(d, DerivedFrom(graph, inputs))
  BY DEF Derive, Derivable
<1>4. DraftSound(DerivedFrom(graph, inputs))
  BY <1>3, DerivedSound DEF RecordsSound
<1> QED
  BY <1>2, <1>3, <1>4

LEMMA IntakeDrafts ==
    ASSUME RecordsSound, NEW p \in Direct, Intake(p)
    PROVE  \E id : Fresh(id) /\ \E row : DraftSound(row) /\ Draft(id, row)
BY ContributionSound DEF Intake, RecordsSound

\* A step drafts a record, saves one, carries a use out, withdraws, completes
\* a deletion, or leaves the records alone.
DraftsOne == \E id : Fresh(id) /\ \E row : DraftSound(row) /\ Draft(id, row)

Untouched == UNCHANGED <<graph, drafts, tombs>> /\ now' \in Nat

LEMMA RecordKinds ==
    ASSUME RecordsSound, [Next]_vars
    PROVE  \/ DraftsOne \/ Untouched
           \/ \E id \in DOMAIN drafts : Save(id)
           \/ \E id : Index(id)
           \/ \E c \in Consents : Withdraw(c) \/ Complete(c)
<1>1. CASE Tick \/ UNCHANGED vars
  BY <1>1 DEF Tick, vars, Untouched, RecordsSound
<1>2. ASSUME NEW p \in Direct, Intake(p)
      PROVE  DraftsOne
  BY <1>2, IntakeDrafts DEF DraftsOne
<1>3. ASSUME NEW inputs, NEW redacted, Derive(inputs, redacted)
      PROVE  DraftsOne
  BY <1>3, DeriveDrafts DEF DraftsOne
<1>4. ASSUME NEW id, NEW aud, NEW redacted, Grant(id, aud, redacted)
      PROVE  Untouched
  BY <1>4 DEF Grant, Untouched, RecordsSound
<1>5. ASSUME NEW c \in Consents,
             \/ Revoke(c) \/ Expire(c) \/ Tighten(c) \/ ReviewStatus(c)
             \/ PlanDeletion(c) \/ RemoveTarget(c) \/ Resolve(c)
      PROVE  Untouched
  BY <1>5 DEF Revoke, Expire, Transition, Tighten, ReviewStatus, PlanDeletion,
     RemoveTarget, Resolve, Untouched, RecordsSound
<1>6. ASSUME NEW scope, PlaceHold(scope)
      PROVE  Untouched
  BY <1>6 DEF PlaceHold, Untouched, RecordsSound
<1> QED
  BY <1>1, <1>2, <1>3, <1>4, <1>5, <1>6 DEF Next

LEMMA RecordsInit == Init => RecordsSound
<1> SUFFICES ASSUME Init PROVE RecordsSound
  OBVIOUS
<1>1. /\ graph = <<>> /\ drafts = <<>> /\ now = 0
      /\ authority = [c \in Consents |->
           [state |-> "active", tight |-> FALSE,
            trigger |-> "none", status |-> "not_requested"]]
  BY DEF Init
<1>2. DOMAIN graph = {} /\ DOMAIN drafts = {}
  BY <1>1
<1>3. Lines(graph, [x \in {} |-> {}])
  BY <1>2 DEF Lines
<1>4. LineageSound(graph)
  BY <1>2, <1>3 DEF LineageSound, RowsSound, Founded, Climbs
<1> QED
  BY <1>1, <1>2, <1>4 DEF RecordsSound, WithdrawnForCause

LEMMA RecordsNext ==
    ASSUME RecordsSound, DOMAIN drafts \cap DOMAIN graph = {}, [Next]_vars
    PROVE  RecordsSound'
BY RecordKinds, AuthorityStep, SameRecords, DraftRecords, SaveRecords,
   IndexRecords, WithdrawRecords, CompleteRecords DEF DraftsOne, Untouched

-----------------------------------------------------------------------------
(***************************************************************************)
(* What a deletion leaves behind.                                          *)
(***************************************************************************)
LEMMA DeletionInit == Init => DeletionSound
BY DEF Init, DeletionSound, StoresSound, WorkSound, Known, NoWork

LEMMA SameDeletion ==
    ASSUME DeletionSound, UNCHANGED <<graph, drafts, granted, works, stored, tombs>>
    PROVE  DeletionSound'
BY DEF DeletionSound, StoresSound, WorkSound, Known

LEMMA DraftDeletion ==
    ASSUME DeletionSound, NEW id, Fresh(id), NEW row, Draft(id, row)
    PROVE  DeletionSound'
<1>1. /\ drafts' = With(drafts, id, row)
      /\ UNCHANGED <<graph, granted, works, stored, tombs>>
  BY DEF Draft
<1>2. DOMAIN drafts' = DOMAIN drafts \union {id}
  BY <1>1 DEF With
<1>3. StoresSound'
  BY <1>1, <1>2 DEF DeletionSound, StoresSound, Fresh, Known
<1> QED
  BY <1>1, <1>3 DEF DeletionSound, WorkSound, Known

LEMMA SaveDeletion ==
    ASSUME DeletionSound, RecordsSound, NEW id \in DOMAIN drafts, Save(id)
    PROVE  DeletionSound'
<1> PICK row : row = drafts[id]
  OBVIOUS
<1>1. /\ graph' = With(graph, id, row)
      /\ drafts' = [i \in DOMAIN drafts \ {id} |-> drafts[i]]
      /\ stored' = stored \union {<<id, "body">>}
      /\ UNCHANGED <<granted, works, tombs>>
  BY DEF Save
<1>2. row.artifacts = {"body"}
  BY DEF RecordsSound, DraftSound
<1>3. /\ id \notin DOMAIN graph /\ ~Known(id)
      /\ \A c \in Consents : id \notin tombs[c]
  BY DEF DeletionSound, StoresSound, Known
<1>4. /\ DOMAIN graph' = DOMAIN graph \union {id} /\ graph'[id] = row
      /\ \A r \in DOMAIN graph : graph'[r] = graph[r]
      /\ DOMAIN drafts' = DOMAIN drafts \ {id}
  BY <1>1, <1>3 DEF With
<1>5. \A x : Known(x) => Known(x)'
  BY <1>1, <1>4 DEF Known
<1>6. StoresSound'
  <2>1. /\ DOMAIN drafts' \cap DOMAIN graph' = {}
        /\ DOMAIN tombs' = Consents
        /\ \A c \in Consents : tombs'[c] \cap (DOMAIN graph' \union DOMAIN drafts') = {}
    BY <1>1, <1>3, <1>4 DEF DeletionSound, StoresSound
  <2>2. \A x \in stored' : /\ x = <<x[1], x[2]>> /\ x[1] \in DOMAIN graph'
                            /\ x[2] \in graph'[x[1]].artifacts
    BY <1>1, <1>2, <1>4 DEF DeletionSound, StoresSound
  <2>3. /\ \A x \in granted' : Known(x)'
        /\ \A x \in granted' \cap DOMAIN graph' : "index" \notin graph'[x].artifacts
    BY <1>1, <1>2, <1>3, <1>4, <1>5 DEF DeletionSound, StoresSound
  <2> QED
    BY <2>1, <2>2, <2>3 DEF StoresSound
<1>7. ASSUME NEW c \in Consents
      PROVE  WorkSound(works[c])'
  <2>1. id \notin DOMAIN works[c].targets
    BY <1>3 DEF DeletionSound, WorkSound
  <2> QED
    BY <1>1, <1>4, <1>5, <2>1 DEF DeletionSound, WorkSound
<1> QED
  BY <1>1, <1>6, <1>7 DEF DeletionSound

LEMMA GrantDeletion ==
    ASSUME DeletionSound, NEW id, NEW aud, NEW redacted, Grant(id, aud, redacted)
    PROVE  DeletionSound'
<1>1. /\ id \in DOMAIN graph /\ "index" \notin graph[id].artifacts
      /\ granted' = granted \union {id}
      /\ UNCHANGED <<graph, drafts, works, stored, tombs>>
  BY DEF Grant, Eligible
<1>2. StoresSound'
  BY <1>1 DEF DeletionSound, StoresSound, Known
<1> QED
  BY <1>1, <1>2 DEF DeletionSound, WorkSound, Known

LEMMA IndexDeletion ==
    ASSUME DeletionSound, RecordsSound, NEW id, Index(id)
    PROVE  DeletionSound'
<1>1. /\ id \in granted \cap DOMAIN graph /\ granted' = granted \ {id}
      /\ graph' = [graph EXCEPT ![id].artifacts = @ \union {"index"}]
      /\ stored' = stored \union {<<id, "index">>}
      /\ UNCHANGED <<drafts, works, tombs>>
  BY DEF Index
<1>2. "artifacts" \in DOMAIN graph[id]
  BY <1>1 DEF RecordsSound, LineageSound, RowsSound, RowSound, RowFields
<1>3. /\ DOMAIN graph' = DOMAIN graph
      /\ graph'[id].artifacts = graph[id].artifacts \union {"index"}
      /\ \A r \in DOMAIN graph : r # id => graph'[r] = graph[r]
  BY <1>1, <1>2
<1>4. "index" \notin graph[id].artifacts
  BY <1>1 DEF DeletionSound, StoresSound
<1>5. \A x : Known(x) => Known(x)'
  BY <1>1, <1>3 DEF Known
<1>6. StoresSound'
  <2>1. /\ DOMAIN drafts' \cap DOMAIN graph' = {}
        /\ DOMAIN tombs' = Consents
        /\ \A c \in Consents : tombs'[c] \cap (DOMAIN graph' \union DOMAIN drafts') = {}
    BY <1>1, <1>3 DEF DeletionSound, StoresSound
  <2>2. \A x \in stored' : /\ x = <<x[1], x[2]>> /\ x[1] \in DOMAIN graph'
                            /\ x[2] \in graph'[x[1]].artifacts
    BY <1>1, <1>3 DEF DeletionSound, StoresSound
  <2>3. /\ \A x \in granted' : Known(x)'
        /\ \A x \in granted' \cap DOMAIN graph' : "index" \notin graph'[x].artifacts
    BY <1>1, <1>3, <1>5 DEF DeletionSound, StoresSound
  <2> QED
    BY <2>1, <2>2, <2>3 DEF StoresSound
<1>7. ASSUME NEW c \in Consents
      PROVE  WorkSound(works[c])'
  <2>1. WorkSound(works[c])
    BY DEF DeletionSound
  <2>2. \A x \in DOMAIN works[c].targets \cap DOMAIN graph :
          works[c].targets[x] \subseteq graph'[x].artifacts
    BY <1>3, <2>1 DEF WorkSound
  <2>3. \A x \in works[c].removed \cap DOMAIN graph :
          \A a \in works[c].targets[x] : <<x, a>> \notin stored'
    <3>1. id \in DOMAIN works[c].targets => "index" \notin works[c].targets[id]
      BY <1>1, <1>4, <2>1 DEF WorkSound
    <3> QED
      BY <1>1, <2>1, <3>1 DEF WorkSound
  <2> QED
    BY <1>1, <1>3, <1>5, <2>1, <2>2, <2>3 DEF WorkSound
<1> QED
  BY <1>1, <1>6, <1>7 DEF DeletionSound

LEMMA PlanSound ==
    ASSUME NEW c, DOMAIN graph' = DOMAIN graph, UNCHANGED <<tombs, stored>>,
           \A r \in DOMAIN graph : graph'[r].artifacts = graph[r].artifacts,
           NEW w, w = Plan(c)
    PROVE  WorkSound(w)'
<1>1. Linked(graph, c) \subseteq DOMAIN graph
  BY DEF Linked, Descendants
<1>2. /\ {"state", "targets", "removed"} \subseteq DOMAIN w /\ w.removed = {}
      /\ w.targets = [r \in Linked(graph, c) |-> graph[r].artifacts]
  BY DEF Plan, TargetsOf
<1> QED
  BY <1>1, <1>2 DEF WorkSound, Known

LEMMA SameWork ==
    ASSUME DOMAIN graph' = DOMAIN graph, UNCHANGED <<tombs, stored>>,
           \A r \in DOMAIN graph : graph'[r].artifacts = graph[r].artifacts,
           NEW w, WorkSound(w)
    PROVE  WorkSound(w)'
BY DEF WorkSound, Known

LEMMA SameStores ==
    ASSUME StoresSound, DOMAIN graph' = DOMAIN graph,
           UNCHANGED <<drafts, granted, stored, tombs>>,
           \A r \in DOMAIN graph : graph'[r].artifacts = graph[r].artifacts
    PROVE  StoresSound'
BY DEF StoresSound, Known

LEMMA PlanDeletionDeletion ==
    ASSUME DeletionSound, NEW c \in Consents, PlanDeletion(c)
    PROVE  DeletionSound'
<1> PICK plan : plan = Plan(c)
  OBVIOUS
<1>1. /\ works' = [works EXCEPT ![c] = plan]
      /\ UNCHANGED <<graph, drafts, granted, stored, tombs>>
  BY DEF PlanDeletion
<1>2. WorkSound(plan)'
  BY <1>1, PlanSound
<1>3. \A b \in Consents : WorkSound(works[b]) => works'[b] = plan \/ works'[b] = works[b]
  BY <1>1 DEF DeletionSound
<1>4. ASSUME NEW b \in Consents
      PROVE  WorkSound(works[b])'
  <2>1. WorkSound(works[b])
    BY DEF DeletionSound
  <2> PICK w : w = works[b]
    OBVIOUS
  <2>2. WorkSound(w)'
    BY <1>1, <2>1, SameWork
  <2> QED
    BY <1>2, <1>3, <2>1, <2>2
<1> QED
  BY <1>1, <1>4, SameStores DEF DeletionSound

LEMMA WithdrawDeletion ==
    ASSUME DeletionSound, RecordsSound, NEW c \in Consents, Withdraw(c)
    PROVE  DeletionSound'
<1> PICK plan : plan = Plan(c)
  OBVIOUS
<1>1. /\ works' = [works EXCEPT ![c] = plan]
      /\ graph' = [r \in DOMAIN graph |->
           IF r \in Affected(graph, c) THEN WithdrawnRow(graph[r], plan)
                                       ELSE graph[r]]
      /\ UNCHANGED <<drafts, granted, stored, tombs>>
  BY DEF Withdraw
<1>2. DOMAIN graph' = DOMAIN graph
  BY <1>1
<1>3. ASSUME NEW r \in DOMAIN graph
      PROVE  graph'[r].artifacts = graph[r].artifacts
  <2>1. RowFields \subseteq DOMAIN graph[r]
    BY DEF RecordsSound, LineageSound, RowsSound, RowSound
  <2>2. WithdrawnRow(graph[r], plan).artifacts = graph[r].artifacts
    BY <2>1 DEF WithdrawnRow, RowFields
  <2> QED
    BY <1>1, <2>2
<1>4. WorkSound(plan)'
  BY <1>1, <1>2, <1>3, PlanSound
<1>5. ASSUME NEW b \in Consents
      PROVE  WorkSound(works[b])'
  <2>1. WorkSound(works[b]) /\ (works'[b] = plan \/ works'[b] = works[b])
    BY <1>1 DEF DeletionSound
  <2> PICK w : w = works[b]
    OBVIOUS
  <2>2. WorkSound(w)'
    BY <1>1, <1>2, <1>3, <2>1, SameWork
  <2> QED
    BY <1>4, <2>1, <2>2
<1> QED
  BY <1>1, <1>2, <1>3, <1>5, SameStores DEF DeletionSound

LEMMA RemoveDeletion ==
    ASSUME DeletionSound, NEW c \in Consents, RemoveTarget(c)
    PROVE  DeletionSound'
<1> DEFINE left == DOMAIN works[c].targets \ works[c].removed
           id == CHOOSE x \in left : TRUE
<1>1. /\ left # {}
      /\ works' = [works EXCEPT ![c].removed = @ \union {id}]
      /\ stored' = stored \ ({id} \X works[c].targets[id])
      /\ UNCHANGED <<graph, drafts, granted, tombs>>
  BY DEF RemoveTarget
<1>2. id \in DOMAIN works[c].targets
  BY <1>1
<1> HIDE DEF id, left
<1>3. StoresSound'
  BY <1>1 DEF DeletionSound, StoresSound, Known
<1>4. ASSUME NEW b \in Consents
      PROVE  WorkSound(works[b])'
  <2>1. WorkSound(works[b]) /\ WorkSound(works[c])
    BY DEF DeletionSound
  <2>2. \A x \in DOMAIN works[b].targets : Known(x) => Known(x)'
    BY <1>1 DEF Known
  <2>3. CASE b # c
    <3>1. works'[b] = works[b]
      BY <1>1, <2>3 DEF DeletionSound
    <3> QED
      BY <1>1, <2>1, <2>2, <3>1 DEF WorkSound
  <2>4. CASE b = c
    <3>1. /\ {"state", "targets", "removed"} \subseteq DOMAIN works'[c]
          /\ works'[c].targets = works[c].targets
          /\ works'[c].removed = works[c].removed \union {id}
      BY <1>1, <2>1 DEF DeletionSound, WorkSound
    <3>2. \A a \in works[c].targets[id] : <<id, a>> \notin stored'
      BY <1>1
    <3>3. \A x \in works[c].removed \cap DOMAIN graph :
            \A a \in works[c].targets[x] : <<x, a>> \notin stored'
      BY <1>1, <2>1 DEF WorkSound
    <3> QED
      BY <1>1, <1>2, <2>1, <2>2, <2>4, <3>1, <3>2, <3>3 DEF WorkSound
  <2> QED
    BY <2>3, <2>4
<1> QED
  BY <1>1, <1>3, <1>4 DEF DeletionSound

\* All that a plan names is gone when its deletion completes, and the plan is
\* of everything that carries the consent.
LEMMA CompleteDeletion ==
    ASSUME DeletionSound, NEW c \in Consents, Complete(c)
    PROVE  DeletionSound'
<1> DEFINE affected == {r \in DOMAIN graph : c \in graph[r].consents}
<1>1. /\ works[c].targets = TargetsOf(graph, affected)
      /\ works[c].removed = DOMAIN works[c].targets
      /\ tombs' = [tombs EXCEPT ![c] = @ \union affected]
      /\ graph' = [r \in DOMAIN graph \ affected |-> graph[r]]
      /\ works' = [works EXCEPT ![c] = NoWork]
      /\ UNCHANGED <<drafts, granted, stored>>
  BY DEF Complete, PlanIsCurrent
<1>2. affected \subseteq DOMAIN graph
  OBVIOUS
<1> HIDE DEF affected
<1>3. /\ DOMAIN graph' = DOMAIN graph \ affected
      /\ \A r \in DOMAIN graph' : graph'[r] = graph[r]
  BY <1>1
<1>4. /\ DOMAIN works[c].targets = affected
      /\ \A r \in affected : works[c].targets[r] = graph[r].artifacts
  BY <1>1 DEF TargetsOf
<1>5. \A x \in stored : x[1] \notin affected
  <2>1. \A r \in affected : \A a \in graph[r].artifacts : <<r, a>> \notin stored
    BY <1>1, <1>2, <1>4 DEF DeletionSound, WorkSound
  <2> QED
    BY <1>2, <2>1 DEF DeletionSound, StoresSound
<1>6. /\ DOMAIN tombs' = Consents
      /\ \A b \in Consents :
           tombs'[b] = IF b = c THEN tombs[b] \union affected ELSE tombs[b]
  BY <1>1 DEF DeletionSound, StoresSound
<1>7. \A x : Known(x) => Known(x)'
  BY <1>3, <1>6 DEF Known
<1>8. StoresSound'
  <2>1. /\ DOMAIN drafts' \cap DOMAIN graph' = {}
        /\ \A b \in Consents : tombs'[b] \cap (DOMAIN graph' \union DOMAIN drafts') = {}
    BY <1>1, <1>2, <1>3, <1>6 DEF DeletionSound, StoresSound
  <2>2. \A x \in stored' : /\ x = <<x[1], x[2]>> /\ x[1] \in DOMAIN graph'
                            /\ x[2] \in graph'[x[1]].artifacts
    BY <1>1, <1>3, <1>5 DEF DeletionSound, StoresSound
  <2>3. /\ \A x \in granted' : Known(x)'
        /\ \A x \in granted' \cap DOMAIN graph' : "index" \notin graph'[x].artifacts
    BY <1>1, <1>3, <1>7 DEF DeletionSound, StoresSound
  <2> QED
    BY <1>6, <2>1, <2>2, <2>3 DEF StoresSound
<1>9. ASSUME NEW b \in Consents
      PROVE  WorkSound(works[b])'
  <2>1. CASE b = c
    <3>1. works'[b] = NoWork
      BY <1>1, <2>1 DEF DeletionSound
    <3> QED
      BY <3>1 DEF WorkSound, NoWork
  <2>2. CASE b # c
    <3>1. works'[b] = works[b] /\ WorkSound(works[b])
      BY <1>1, <2>2 DEF DeletionSound
    <3> QED
      BY <1>1, <1>3, <1>7, <3>1 DEF WorkSound
  <2> QED
    BY <2>1, <2>2
<1>10. DOMAIN works' = Consents
  BY <1>1 DEF DeletionSound
<1> QED
  BY <1>8, <1>9, <1>10 DEF DeletionSound

LEMMA DeletionNext ==
    ASSUME DeletionSound, RecordsSound, [Next]_vars
    PROVE  DeletionSound'
<1>1. ASSUME NEW p \in Direct, Intake(p)
      PROVE  DeletionSound'
  BY <1>1, IntakeDrafts, DraftDeletion
<1>2. ASSUME NEW inputs, NEW redacted, Derive(inputs, redacted)
      PROVE  DeletionSound'
  BY <1>2, DeriveDrafts, DraftDeletion
<1>3. ASSUME NEW id \in DOMAIN drafts, Save(id)
      PROVE  DeletionSound'
  BY <1>3, SaveDeletion
<1>4. ASSUME NEW id, NEW aud, NEW redacted, Grant(id, aud, redacted)
      PROVE  DeletionSound'
  BY <1>4, GrantDeletion
<1>5. ASSUME NEW id, Index(id)
      PROVE  DeletionSound'
  BY <1>5, IndexDeletion
<1>6. ASSUME NEW c \in Consents, Revoke(c) \/ Expire(c) \/ Tighten(c)
                                \/ ReviewStatus(c) \/ Resolve(c)
      PROVE  DeletionSound'
  BY <1>6, SameDeletion DEF Revoke, Expire, Transition, Tighten, ReviewStatus, Resolve
<1>7. ASSUME NEW c \in Consents, Withdraw(c)
      PROVE  DeletionSound'
  BY <1>7, WithdrawDeletion
<1>8. ASSUME NEW c \in Consents, PlanDeletion(c)
      PROVE  DeletionSound'
  BY <1>8, PlanDeletionDeletion
<1>9. ASSUME NEW c \in Consents, RemoveTarget(c)
      PROVE  DeletionSound'
  BY <1>9, RemoveDeletion
<1>10. ASSUME NEW c \in Consents, Complete(c)
       PROVE  DeletionSound'
  BY <1>10, CompleteDeletion
<1>11. ASSUME NEW scope, PlaceHold(scope)
       PROVE  DeletionSound'
  BY <1>11, SameDeletion DEF PlaceHold
<1>12. CASE Tick \/ UNCHANGED vars
  BY <1>12, SameDeletion DEF Tick, vars
<1> QED
  BY <1>1, <1>2, <1>3, <1>4, <1>5, <1>6, <1>7, <1>8, <1>9, <1>10, <1>11, <1>12
  DEF Next

LEMMA SoundAlways == Spec => [](RecordsSound /\ DeletionSound)
<1>1. Init => RecordsSound /\ DeletionSound
  BY RecordsInit, DeletionInit
<1>2. RecordsSound /\ DeletionSound /\ [Next]_vars => (RecordsSound /\ DeletionSound)'
  <2>1. DeletionSound => DOMAIN drafts \cap DOMAIN graph = {}
    BY DEF DeletionSound, StoresSound
  <2> QED
    BY <2>1, RecordsNext, DeletionNext
<1> QED
  BY <1>1, <1>2, PTL DEF Spec

\* However drafts, uses, withdrawals and deletions interleave, a tombstone is
\* never written over something that is still stored or still derived from:
\* whatever carries the consent was planned as it is now and removed since.
THEOREM TombstonesAttest == Spec => []DeletionIsWhole
<1>1. RecordsSound /\ DeletionSound => DeletionIsWhole
  BY DEF RecordsSound, LineageSound, RowsSound, DeletionSound, StoresSound,
     DeletionIsWhole
<1> QED
  BY <1>1, SoundAlways, PTL

-----------------------------------------------------------------------------
(***************************************************************************)
(* What an eligible use rests on.                                          *)
(***************************************************************************)
\* A contribution is eligible on its own record, and through everything it
\* was derived from.
LEMMA EligibleStep ==
    ASSUME NEW g, LineageSound(g), NEW r, NEW op, NEW aud, NEW redacted,
           Eligible(g, r, op, aud, redacted)
    PROVE  /\ GraphValid(g) /\ r \in DOMAIN g
           /\ g[r].inputs = {} => DirectEligible(g[r], op, aud, redacted)
           /\ g[r].inputs # {} =>
                /\ DerivedEligible(g, g[r], op, aud)
                /\ \A i \in g[r].inputs : Eligible(g, i, op, aud, redacted)
<1> DEFINE own(x) == DirectEligible(g[x], op, aud, redacted)
           inherited(x) == DerivedEligible(g, g[x], op, aud)
           ok[x \in DOMAIN g] ==
             IF g[x].inputs = {} THEN own(x)
             ELSE inherited(x) /\ \A i \in g[x].inputs : ok[i]
           Solves(f) ==
             f = [x \in DOMAIN g |->
                    IF g[x].inputs = {} THEN own(x)
                    ELSE inherited(x) /\ \A i \in g[x].inputs : f[i]]
<1>1. \A x : own(x) \in BOOLEAN /\ inherited(x) \in BOOLEAN
  BY DEF DirectEligible, DerivedEligible
<1>2. /\ GraphValid(g) /\ r \in DOMAIN g /\ ok[r]
      /\ \A i : Eligible(g, i, op, aud, redacted) <=>
                 GraphValid(g) /\ i \in DOMAIN g /\ ok[i]
  BY DEF Eligible
<1>3. \A x \in DOMAIN g : g[x].inputs \subseteq DOMAIN g
  BY DEF LineageSound, RowsSound
<1>4. \E f : Solves(f)
  <2>1. PICK up : Lines(g, up)
    BY DEF LineageSound, Climbs
  <2> DEFINE here(x) == IF g[x].inputs = {} THEN own(x) ELSE inherited(x)
             f == [x \in DOMAIN g |-> \A y \in {x} \union up[x] : here(y)]
  <2>2. \A x \in DOMAIN g : f[x] <=> \A y \in {x} \union up[x] : here(y)
    OBVIOUS
  <2>3. \A x \in DOMAIN g : f[x] \in BOOLEAN
    OBVIOUS
  <2>4. f = [x \in DOMAIN g |-> f[x]]
    OBVIOUS
  <2> HIDE DEF f, own, inherited
  <2>5. ASSUME NEW x \in DOMAIN g
        PROVE  f[x] <=> (here(x) /\ \A i \in g[x].inputs : f[i])
    <3>1. up[x] = g[x].inputs \union UNION {up[y] : y \in g[x].inputs}
      BY <2>1 DEF Lines
    <3>2. \A i \in g[x].inputs : f[i] <=> \A y \in {i} \union up[i] : here(y)
      BY <1>3, <2>2
    <3>3. f[x] <=> \A y \in {x} \union up[x] : here(y)
      BY <2>2
    <3> HIDE DEF here
    <3> QED
      BY <3>1, <3>2, <3>3
  <2>6. ASSUME NEW x \in DOMAIN g
        PROVE  f[x] = IF g[x].inputs = {} THEN own(x)
                      ELSE inherited(x) /\ \A i \in g[x].inputs : f[i]
    BY <1>1, <2>3, <2>5
  <2>7. f = [x \in DOMAIN g |->
              IF g[x].inputs = {} THEN own(x)
              ELSE inherited(x) /\ \A i \in g[x].inputs : f[i]]
    BY <2>4, <2>6
  <2> QED
    BY <2>7
<1>5. Solves(ok)
  BY <1>4
<1> HIDE DEF ok, own, inherited
<1>6. ok[r] <=> IF g[r].inputs = {} THEN own(r)
                ELSE inherited(r) /\ \A i \in g[r].inputs : ok[i]
  BY <1>2, <1>5
<1>7. /\ g[r].inputs = {} => own(r)
      /\ g[r].inputs # {} => inherited(r) /\ \A i \in g[r].inputs : ok[i]
  BY <1>2, <1>6
<1> QED
  BY <1>2, <1>3, <1>7 DEF own, inherited

\* A derived record is at least as confidential as its inputs, and is kept no
\* longer.
LEMMA InputsBound ==
    ASSUME NEW g, LineageSound(g), NEW r \in DOMAIN g, NEW op, NEW aud,
           DerivedEligible(g, g[r], op, aud), NEW i \in g[r].inputs
    PROVE  /\ i \in DOMAIN g
           /\ g[i].cls <= g[r].cls /\ g[r].until <= g[i].until
<1> DEFINE from == {g[x] : x \in g[r].inputs}
           classes == {f.cls : f \in from}
           ends == {f.until : f \in from}
<1>1. g[r].inputs \subseteq DOMAIN g
  BY DEF LineageSound, RowsSound
<1>2. \A f \in from : f.cls \in Classes /\ f.until \in Nat
  BY <1>1 DEF LineageSound, RowsSound, RowSound
<1>3. g[r].cls = Greatest(classes) /\ g[r].until = Least(ends)
  BY DEF DerivedEligible, InheritsExactly
<1>4. g[i].cls \in classes /\ g[i].until \in ends
  OBVIOUS
<1>5. classes \subseteq Classes /\ ends \subseteq Nat
  BY <1>2
<1> HIDE DEF classes, ends
<1>6. g[i].cls <= Greatest(classes) /\ Least(ends) <= g[i].until
  BY <1>4, <1>5, GreatestClass, LeastInstant
<1> QED
  BY <1>1, <1>3, <1>6

LEMMA EligibleThroughout ==
    ASSUME NEW g, LineageSound(g), NEW r, NEW op, NEW aud, NEW redacted,
           Eligible(g, r, op, aud, redacted), NEW p \in Ancestors(g, r)
    PROVE  /\ Eligible(g, p, op, aud, redacted)
           /\ g[p].cls <= g[r].cls /\ g[r].until <= g[p].until
<1> DEFINE Fits(x, q) == /\ Eligible(g, q, op, aud, redacted)
                         /\ g[q].cls <= g[x].cls /\ g[x].until <= g[q].until
           S == {x \in DOMAIN g : /\ Eligible(g, x, op, aud, redacted)
                                  /\ \E q \in Ancestors(g, x) : ~Fits(x, q)}
<1>1. r \in DOMAIN g
  BY EligibleStep
<1>2. SUFFICES ASSUME S # {} PROVE FALSE
  BY <1>1
<1>3. PICK m \in S : g[m].inputs \cap S = {}
  BY <1>2 DEF LineageSound, Founded
<1>4. PICK q \in Ancestors(g, m) : ~Fits(m, q)
  OBVIOUS
<1>5. Eligible(g, m, op, aud, redacted) /\ m \in DOMAIN g
  OBVIOUS
<1>6. Ancestors(g, m) =
        g[m].inputs \union UNION {Ancestors(g, y) : y \in g[m].inputs}
  BY <1>5, AncestorsStep
<1>7. g[m].inputs # {}
  BY <1>4, <1>6
<1>8. ASSUME NEW i \in g[m].inputs
      PROVE  Fits(m, i) /\ i \in DOMAIN g
  <2>1. DerivedEligible(g, g[m], op, aud) /\ Eligible(g, i, op, aud, redacted)
    BY <1>5, <1>7, EligibleStep
  <2> QED
    BY <1>5, <2>1, InputsBound
<1>9. PICK y \in g[m].inputs : q \in Ancestors(g, y)
  BY <1>4, <1>6, <1>8
<1>10. Fits(y, q)
  BY <1>3, <1>8, <1>9
<1>11. q \in DOMAIN g /\ y \in DOMAIN g
  BY <1>8, <1>9, <1>10, EligibleStep
<1>12. \A x \in {m, q, y} : g[x].cls \in 0..2 /\ g[x].until \in Nat
  BY <1>5, <1>11 DEF LineageSound, RowsSound, RowSound, Classes
<1>13. Fits(m, q)
  BY <1>8, <1>9, <1>10, <1>12
<1> QED
  BY <1>4, <1>13

\* A participant's contribution is used as its one consent allows.
LEMMA DirectGrounds ==
    ASSUME RecordsSound, NEW p \in DOMAIN graph, graph[p].inputs = {},
           NEW op, NEW aud, NEW redacted,
           DirectEligible(graph[p], op, aud, redacted),
           NEW c \in graph[p].consents
    PROVE  /\ authority[c].state = "active"
           /\ op \in Terms[c].uses /\ aud \in Terms[c].audiences
           /\ op = "public_retrieval" => ClassNow(c) = 0
           /\ graph[p].cls >= ClassNow(c)
           /\ graph[p].until <= RetainNow(c)
           /\ Effective(c)
           /\ Terms[c].redact => redacted
           /\ ClassNow(c) \in Nat /\ RetainNow(c) \in Int
<1>1. PICK b \in Consents : graph[p].consents = {b}
  BY DEF RecordsSound, LineageSound, RowsSound, RowSound
<1>2. c \in Consents /\ b = c
  BY <1>1
<1>3. ClassNow(c) \in Nat /\ RetainNow(c) \in Int
  BY <1>2, TermsAssumption DEF ClassNow, RetainNow, Classes
<1>4. /\ authority[c].state = "active"
      /\ op \in Terms[c].uses /\ aud \in Terms[c].audiences
      /\ PublicOnly(graph[p], op, aud)
      /\ graph[p].cls >= ClassNow(c)
      /\ graph[p].until <= RetainNow(c)
      /\ Effective(c)
      /\ Terms[c].redact => redacted
  BY <1>1, <1>2 DEF DirectEligible
<1>5. op = "public_retrieval" => ClassNow(c) = 0
  BY <1>3, <1>4 DEF PublicOnly
<1> QED
  BY <1>3, <1>4, <1>5

\* No chain of derivations, however long, carries a use past a consent: every
\* record is found eligible through all it was derived from, as confidential
\* and as short-lived as the strictest of it.
THEOREM EveryAuthorityAllows == Spec => []UseNeedsEveryAuthority
<1>1. RecordsSound => UseNeedsEveryAuthority
  <2> SUFFICES ASSUME RecordsSound, NEW r \in DOMAIN graph, NEW op \in Uses,
                      NEW aud \in Audiences, NEW redacted \in BOOLEAN,
                      Eligible(graph, r, op, aud, redacted),
                      NEW p \in Roots(graph, r), NEW c \in graph[p].consents
               PROVE  /\ authority[c].state = "active"
                      /\ op \in Terms[c].uses /\ aud \in Terms[c].audiences
                      /\ op = "public_retrieval" => ClassNow(c) = 0
                      /\ graph[r].cls >= ClassNow(c)
                      /\ graph[r].until <= RetainNow(c)
                      /\ Effective(c)
                      /\ Terms[c].redact => redacted
    BY DEF UseNeedsEveryAuthority
  <2>1. LineageSound(graph)
    BY DEF RecordsSound
  <2>2. /\ p = r \/ p \in Ancestors(graph, r)
        /\ graph[p].inputs = {}
    BY DEF Roots
  <2>3. \A x \in DOMAIN graph : graph[x].cls \in 0..2 /\ graph[x].until \in Nat
    BY <2>1 DEF LineageSound, RowsSound, RowSound, Classes
  <2>4. /\ Eligible(graph, p, op, aud, redacted)
        /\ graph[p].cls <= graph[r].cls /\ graph[r].until <= graph[p].until
    BY <2>1, <2>2, <2>3, EligibleThroughout
  <2>5. p \in DOMAIN graph /\ DirectEligible(graph[p], op, aud, redacted)
    BY <2>1, <2>2, <2>4, EligibleStep
  <2>6. /\ authority[c].state = "active"
        /\ op \in Terms[c].uses /\ aud \in Terms[c].audiences
        /\ op = "public_retrieval" => ClassNow(c) = 0
        /\ graph[p].cls >= ClassNow(c)
        /\ graph[p].until <= RetainNow(c)
        /\ Effective(c)
        /\ Terms[c].redact => redacted
        /\ ClassNow(c) \in Nat /\ RetainNow(c) \in Int
    BY <2>2, <2>5, DirectGrounds
  <2> QED
    BY <2>3, <2>4, <2>5, <2>6
<1> QED
  BY <1>1, SoundAlways, PTL

\* A copy holds nothing that rests on another subject's consent, however it
\* was derived, and nothing withdrawn: a withdrawn record carries a consent
\* that no longer grants, and the copy is refused with it.
THEOREM ExportsOwnMaterial == Spec => []ExportsAreOwn
<1>1. RecordsSound => ExportsAreOwn
  <2> SUFFICES ASSUME RecordsSound, NEW s, NEW r \in ExportJob(s)
               PROVE  /\ ~graph[r].withdrawn
                      /\ \A p \in Roots(graph, r) : \A c \in graph[p].consents :
                           Terms[c].subject = s
    BY DEF ExportsAreOwn
  <2> DEFINE own == {x \in DOMAIN graph :
                      /\ graph[x].inputs = {}
                      /\ \A c \in graph[x].consents : Terms[c].subject = s}
             consents == UNION {graph[x].consents : x \in own}
             ids == Descendants(graph, own)
  <2>1. /\ GraphValid(graph) /\ r \in ids
        /\ SubjectOnly(ids, consents)
        /\ \A c \in consents : authority[c].state = "active"
    BY DEF ExportJob
  <2>2. r \in DOMAIN graph
    BY <2>1 DEF Descendants
  <2>3. graph[r].consents \subseteq consents
    BY <2>1 DEF SubjectOnly
  <2>4. \A c \in consents : Terms[c].subject = s
    OBVIOUS
  <2> HIDE DEF consents, ids, own
  <2>5. ~graph[r].withdrawn
    BY <2>1, <2>2, <2>3 DEF RecordsSound, WithdrawnForCause
  <2>6. ASSUME NEW p \in Roots(graph, r)
        PROVE  graph[p].consents \subseteq graph[r].consents
    <3>1. p = r \/ p \in Ancestors(graph, r)
      BY DEF Roots
    <3> QED
      BY <2>1, <2>2, <3>1, ConsentsInherited DEF RecordsSound
  <2> QED
    BY <2>3, <2>4, <2>5, <2>6
<1> QED
  BY <1>1, SoundAlways, PTL
=============================================================================
