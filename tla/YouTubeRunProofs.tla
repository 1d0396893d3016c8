--------------------------- MODULE YouTubeRunProofs ---------------------------
(***************************************************************************)
(* Proofs about YouTubeRun: what the durable quota row and the artifact    *)
(* rows promise, that a kept checkpoint can be resumed, and that an issued *)
(* inventory is the playlist as it once stood, whichever coordinators,     *)
(* crashes, restored checkpoints, replaced stores and changes of the       *)
(* playlist there are, for every maximum, page size and playlist.          *)
(*                                                                         *)
(* IInv is about the rows alone; RInv adds the coordinators' memory, the   *)
(* kept checkpoint and how far each listing of the playlist stands.        *)
(***************************************************************************)
EXTENDS YouTubeRun, FiniteSetTheorems, SequenceTheorems, TLAPS

Authority == [authority : Nat, counts : [Stages -> Nat]]

(* The rows the steps of a run read: the quota row is typed and covers     *)
(* what was handed out, and the artifact row has its two fields.           *)
RowsTyped ==
    /\ quota \in Authority
    /\ handed \in [Stages -> Nat]
    /\ artifact = [channel |-> artifact.channel, uploads |-> artifact.uploads]

IInv == RowsTyped /\ QuotaCoversRequests

-----------------------------------------------------------------------------
(* A reservation that HasUnits allows adds one unit to one method and      *)
(* stays within the maximum (YouTubeQuotaStore.reserve).                   *)
LEMMA ReservationPays ==
  ASSUME NEW q \in Authority, NEW s \in Stages
  PROVE  /\ Reserved(q, s) \in Authority
         /\ Reserved(q, s).authority = q.authority
         /\ Reserved(q, s).counts = [q.counts EXCEPT ![s] = @ + 1]
         /\ HasUnits(q) => Consumed(Reserved(q, s)) <= MaxUnits
         /\ CountsWithin(q.counts, Reserved(q, s).counts)
<1>1. q.counts \in [Stages -> Nat] BY DEF Authority
<1>2. Reserved(q, s) = [q EXCEPT !.counts = [q.counts EXCEPT ![s] = q.counts[s] + 1]]
  BY DEF Reserved
<1>3. Reserved(q, s).counts = [q.counts EXCEPT ![s] = q.counts[s] + 1]
  BY <1>2 DEF Authority
<1>4. /\ Reserved(q, s) \in Authority
      /\ Reserved(q, s).authority = q.authority
  BY <1>1, <1>2 DEF Authority
<1>5. Consumed(Reserved(q, s)) = Consumed(q) + 1
  BY <1>1, <1>3 DEF Consumed, Stages
<1>6. CountsWithin(q.counts, Reserved(q, s).counts)
  BY <1>1, <1>3 DEF CountsWithin
<1>7. QED BY <1>3, <1>4, <1>5, <1>6 DEF HasUnits

(* What a step may do to the quota row and the requests handed out.        *)
Pays(s) ==
    /\ HasUnits(quota)
    /\ quota' = Reserved(quota, s)
    /\ \/ handed' = [handed EXCEPT ![s] = @ + 1]
       \/ UNCHANGED handed
    /\ UNCHANGED artifact

(* What it may do to the artifacts: bind a kind that is not bound yet.     *)
Issues ==
    /\ UNCHANGED <<quota, handed>>
    /\ \E kind \in {"channel", "uploads"} : \E payload :
         /\ Binds(artifact[kind], payload)
         /\ artifact' = [artifact EXCEPT ![kind] = payload]

Keeps == UNCHANGED <<quota, handed, artifact>>

LEMMA AskingPays ==
  ASSUME NEW c, NEW s \in Stages, NEW h, NEW p, AskWith(c, s, h, p), UNCHANGED artifact
  PROVE  Pays(s) \/ Keeps
BY DEF AskWith, Pays, Keeps

LEMMA IngestIssues ==
  ASSUME NEW c, NEW s \in Stages, Ingest(c, s)
  PROVE  Issues \/ Keeps
<1>1. PICK h : Finalize(c, s, h) BY DEF Ingest
<1>2. UNCHANGED <<quota, handed>> BY DEF Ingest
<1>3. CASE FinalizeChannel(c, h)
  <2>1. CASE UNCHANGED artifact BY <1>2, <2>1 DEF Keeps
  <2>2. CASE ~UNCHANGED artifact
    <3> DEFINE payload == CHOOSE ch \in h.records : TRUE
    <3>1. Binds(artifact["channel"], payload)
          /\ artifact' = [artifact EXCEPT !["channel"] = payload]
      BY <1>3, <2>2 DEF FinalizeChannel
    <3>2. QED BY <1>2, <3>1 DEF Issues
  <2>3. QED BY <2>1, <2>2
<1>4. CASE FinalizeUploads(c, h)
  <2>1. CASE UNCHANGED artifact BY <1>2, <2>1 DEF Keeps
  <2>2. CASE ~UNCHANGED artifact
    <3>1. Binds(artifact["uploads"], Inventory(c, h))
          /\ artifact' = [artifact EXCEPT !["uploads"] = Inventory(c, h)]
      BY <1>4, <2>2 DEF FinalizeUploads
    <3>2. QED BY <1>2, <3>1 DEF Issues
  <2>3. QED BY <2>1, <2>2
<1>5. CASE UNCHANGED artifact BY <1>2, <1>5 DEF Keeps
<1>6. QED BY <1>1, <1>3, <1>4, <1>5 DEF Finalize

(* Every step pays for one request, issues one artifact, replaces the      *)
(* store, or leaves the three rows alone.                                  *)
LEMMA StepKinds ==
  ASSUME [Next]_vars
  PROVE  (\E s \in Stages : Pays(s)) \/ Issues \/ ReplaceStore \/ Keeps
<1>1. CASE UNCHANGED vars BY <1>1 DEF vars, Keeps
<1>2. CASE ReplaceStore BY <1>2
<1>3. CASE ChangePlaylist BY <1>3 DEF ChangePlaylist, Keeps
<1>4. ASSUME NEW c \in Coordinators, Start(c) \/ Crash(c) PROVE Keeps
  BY <1>4 DEF Start, Crash, Keeps
<1>5. ASSUME NEW c \in Coordinators, NEW s \in Stages, Begin(c, s)
      PROVE  Pays(s) \/ Keeps
  BY <1>5, AskingPays DEF Begin
<1>6. ASSUME NEW c \in Coordinators, NEW s \in Stages, NextRequest(c, s)
      PROVE  Pays(s) \/ Keeps
  BY <1>6, AskingPays DEF NextRequest
<1>7. ASSUME NEW c \in Coordinators, NEW s \in Stages, ReserveThenCrash(c, s)
      PROVE  Pays(s)
  BY <1>7 DEF ReserveThenCrash, Pays
<1>8. ASSUME NEW c \in Coordinators, NEW s \in Stages, Ingest(c, s)
      PROVE  Issues \/ Keeps
  BY <1>8, IngestIssues
<1>9. ASSUME NEW c \in Coordinators, NEW s \in Stages,
             RecordRetry(c, s) \/ SaveCheckpoint(c, s) \/ Resume(c, s)
      PROVE  Keeps
  BY <1>9 DEF RecordRetry, SaveCheckpoint, Resume, Keeps
<1>10. QED BY <1>1, <1>2, <1>3, <1>4, <1>5, <1>6, <1>7, <1>8, <1>9 DEF Next

-----------------------------------------------------------------------------
LEMMA InitIInv == Init => IInv
<1> SUFFICES ASSUME Init PROVE IInv OBVIOUS
<1> USE QuotaAssumption
<1>1. quota = [authority |-> 1, counts |-> [s \in Stages |-> 0]]
  BY DEF Init, EmptyRun, NoCounts
<1>2. handed = [s \in Stages |-> 0] BY DEF Init, NoCounts
<1>3. RowsTyped
  BY <1>1, <1>2 DEF Init, RowsTyped, Authority, NoArtifacts
<1>4. Consumed(quota) = 0 BY <1>1 DEF Consumed, Stages
<1>5. QED BY <1>1, <1>2, <1>3, <1>4 DEF IInv, QuotaCoversRequests

LEMMA NextIInv == IInv /\ [Next]_vars => IInv'
<1> SUFFICES ASSUME IInv, [Next]_vars PROVE IInv' OBVIOUS
<1> USE QuotaAssumption
<1>1. CASE \E s \in Stages : Pays(s)
  <2>1. PICK s \in Stages : Pays(s) BY <1>1
  <2>2. /\ quota' \in Authority
        /\ quota'.counts = [quota.counts EXCEPT ![s] = @ + 1]
        /\ Consumed(quota') <= MaxUnits
    BY <2>1, ReservationPays DEF Pays, IInv, RowsTyped
  <2>3. quota.counts \in [Stages -> Nat] BY DEF IInv, RowsTyped, Authority
  <2>4. /\ handed' \in [Stages -> Nat]
        /\ \A t \in Stages : handed'[t] <= quota'.counts[t]
    BY <2>1, <2>2, <2>3 DEF Pays, IInv, RowsTyped, QuotaCoversRequests
  <2>5. QED
    BY <2>1, <2>2, <2>4 DEF Pays, IInv, RowsTyped, QuotaCoversRequests, Consumed
<1>2. CASE Issues
  <2>1. UNCHANGED <<quota, handed>> BY <1>2 DEF Issues
  <2>2. artifact' = [channel |-> artifact'.channel, uploads |-> artifact'.uploads]
    BY <1>2 DEF Issues, IInv, RowsTyped
  <2>3. QED BY <2>1, <2>2 DEF IInv, RowsTyped, QuotaCoversRequests, Consumed
<1>3. CASE ReplaceStore
  <2>1. /\ quota' = [authority |-> quota.authority + 1, counts |-> [s \in Stages |-> 0]]
        /\ handed' = [s \in Stages |-> 0]
        /\ artifact' = [channel |-> NoArtifact, uploads |-> NoArtifact]
    BY <1>3 DEF ReplaceStore, EmptyRun, NoCounts, NoArtifacts
  <2>2. quota.authority + 1 \in Nat BY DEF IInv, RowsTyped, Authority
  <2>3. Consumed(quota') = 0 BY <2>1 DEF Consumed, Stages
  <2>4. RowsTyped' BY <2>1, <2>2 DEF RowsTyped, Authority
  <2>5. QED BY <2>1, <2>3, <2>4 DEF IInv, QuotaCoversRequests, Consumed
<1>4. CASE Keeps
  BY <1>4 DEF Keeps, IInv, RowsTyped, QuotaCoversRequests, Consumed
<1>5. QED BY <1>1, <1>2, <1>3, <1>4, StepKinds

(* Every request handed out under the present authority is paid for in the *)
(* durable row of its method, and the row never passes the run's maximum   *)
(* (YouTubeQuotaStore.reserve): for any number of coordinators, crashes,   *)
(* restored checkpoints and replaced stores.                               *)
THEOREM QuotaIsCovered == Spec => []QuotaCoversRequests
<1>1. IInv => QuotaCoversRequests BY DEF IInv
<1>2. QED BY InitIInv, NextIInv, <1>1, PTL DEF Spec

(* What a step leaves alone under one authority.                            *)
LEMMA StepKeeps ==
  ASSUME IInv, [Next]_vars, quota'.authority = quota.authority
  PROVE  /\ artifact.channel # NoArtifact => artifact'.channel = artifact.channel
         /\ artifact.uploads # NoArtifact => artifact'.uploads = artifact.uploads
         /\ CountsWithin(quota.counts, quota'.counts)
<1>1. quota.counts \in [Stages -> Nat] BY DEF IInv, RowsTyped, Authority
<1>2. CASE \E s \in Stages : Pays(s)
  BY <1>2, ReservationPays DEF Pays, IInv, RowsTyped
<1>3. CASE Issues
  <2>1. CountsWithin(quota.counts, quota'.counts) BY <1>1, <1>3 DEF Issues, CountsWithin
  <2>2. QED BY <1>3, <2>1 DEF Issues, Binds, IInv, RowsTyped
<1>4. CASE ReplaceStore
  <2>1. quota'.authority = quota.authority + 1 BY <1>4 DEF ReplaceStore, EmptyRun
  <2>2. quota.authority \in Nat BY DEF IInv, RowsTyped, Authority
  <2>3. QED BY <2>1, <2>2
<1>5. CASE Keeps BY <1>1, <1>5 DEF Keeps, CountsWithin
<1>6. QED BY <1>2, <1>3, <1>4, <1>5, StepKinds

(* Under one authority no artifact is ever replaced and no unit refunded,  *)
(* whichever coordinators finish a stage, in whatever order and with       *)
(* whatever answers (_bind_artifact, merge_checkpoint).                    *)
THEOREM IssuedForGood == Spec => IssuedOnce
<1> DEFINE Step == quota'.authority = quota.authority =>
      /\ artifact.channel # NoArtifact => artifact'.channel = artifact.channel
      /\ artifact.uploads # NoArtifact => artifact'.uploads = artifact.uploads
      /\ CountsWithin(quota.counts, quota'.counts)
<1>1. IInv /\ [Next]_vars => [Step]_vars BY StepKeeps
<1>2. QED BY InitIInv, NextIInv, <1>1, PTL DEF Spec, IssuedOnce

-----------------------------------------------------------------------------
(***************************************************************************)
(* Harnesses.                                                              *)
(***************************************************************************)
HarnessFields(h) ==
    h = [state |-> h.state, reason |-> h.reason, active |-> h.active,
         cursor |-> h.cursor, ordinal |-> h.ordinal, seen |-> h.seen,
         pages |-> h.pages, requests |-> h.requests, retries |-> h.retries,
         duplicates |-> h.duplicates, rejected |-> h.rejected, total |-> h.total,
         records |-> h.records]

States == {"ready", "complete", "blocked", "changed", "bounded_partial"}

Typed(h) ==
    /\ HarnessFields(h)
    /\ h.state \in States /\ h.active \in BOOLEAN
    /\ h.pages \in Nat /\ h.requests \in Nat /\ h.retries \in Nat
    /\ h.rejected \in Nat /\ h.ordinal \in Int
    /\ h.seen \in Seq(Nat)
    /\ h.total \in Nat \cup {NoTotal}
    /\ IsFiniteSet(h.records)

(* The request that is out has been counted, and its page still fits.      *)
Resumes(h) ==
    /\ h.reason \in {"none", "retry_pending"}
    /\ CursorRestores(h)
    /\ CountersRestore(h, Bounds)
    /\ h.active => h.requests > h.pages + h.retries /\ h.pages < Bounds.pages

Good(h) ==
    /\ Typed(h)
    /\ h.active => h.state = "ready"
    /\ h.state = "ready" => Resumes(h)

(***************************************************************************)
(* Listings.                                                               *)
(***************************************************************************)
Items == Videos \cup {BadItem}

(* The videos at the positions i to j of a list.                           *)
Part(list, i, j) == {list[x] : x \in i .. j} \cap Videos

Longer(P, Q) == Len(Q) = Len(P) + 1 /\ \A j \in 1 .. Len(P) : Q[j + 1] = P[j]
Shorter(P, Q) ==
    /\ Len(Q) = Len(P) - 1
    /\ \E i \in 1 .. Len(P) : \A j \in 1 .. Len(Q) :
         Q[j] = IF j < i THEN P[j] ELSE P[j + 1]

SameTail(P, Q, k) == \A j \in k + 1 .. Len(P) : Q[j] = P[j]

(* What the playlist Q has become after c changes, seen from a listing     *)
(* that has read k items of P after a of them.  After two changes that     *)
(* keep the length, either nothing moved behind position k or the item     *)
(* last read comes next again.                                             *)
Became(P, a, k, Q, c) ==
    \/ c = a /\ Q = P
    \/ c = a + 1 /\ (Longer(P, Q) \/ Shorter(P, Q))
    \/ /\ c = a + 2
       /\ Len(Q) \in {Len(P) - 2, Len(P), Len(P) + 2}
       /\ Len(Q) = Len(P) => SameTail(P, Q, k) \/ Q[k + 1] = P[k]
    \/ c = a + 3 /\ Len(Q) # Len(P)
    \/ c >= 4

(* A listing that missed or repeated an item never adds up to its total.   *)
Doomed(h) == Cardinality(h.records) < h.cursor

Listing(h) ==
    h.state = "ready" =>
      /\ h.cursor = NoToken => h.records = {} /\ h.total = NoTotal
      /\ ~api.reports => h.total = NoTotal
      /\ h.cursor # NoToken /\ api.reports /\ api.changes < 4 =>
           \E P \in Seq(Items), a \in Nat :
             /\ h.cursor \in 1 .. Len(P) - 1
             /\ h.total = Len(P) + api.hidden
             /\ \/ Doomed(h)
                \/ /\ h.records = Part(P, 1, h.cursor)
                   /\ Part(P, 1, Len(P)) \in history
                   /\ Became(P, a, h.cursor, api.playlist, api.changes)

(***************************************************************************)
(* Coordinators, the checkpoint and the issued inventory.                  *)
(***************************************************************************)
SourceTyped ==
    /\ api \in [playlist : Seq(Items), reports : BOOLEAN, hidden : Nat, changes : Nat]
    /\ Part(api.playlist, 1, Len(api.playlist)) \in history

Uploads == "playlistItems.list"

(* A stage's harness and what it is bound to, under the authority a.       *)
StageSound(s, h, lineage, a) ==
    h # NoHarness =>
      /\ Good(h)
      /\ s = "videos.list" => IsFiniteSet(lineage)
      /\ s = Uploads => Listing(h)
      /\ s = Uploads /\ a = quota.authority =>
           artifact.channel # NoArtifact /\ lineage = artifact.channel

ProcSound(p) ==
    /\ p = [authority |-> p.authority, harness |-> p.harness, lineage |-> p.lineage]
    /\ p.harness = [s \in Stages |-> p.harness[s]]
    /\ p.lineage = [s \in Stages |-> p.lineage[s]]
    /\ p.authority \in Nat /\ p.authority <= quota.authority
    /\ \A s \in Stages : StageSound(s, p.harness[s], p.lineage[s], p.authority)

ProcsSound ==
    /\ proc = [c \in Coordinators |-> proc[c]]
    /\ \A c \in Coordinators : proc[c] # NoProc => ProcSound(proc[c])

(* What a checkpoint recorded was paid for, and still is.                  *)
SavedPaid ==
    /\ saved.quota \in Authority
    /\ Consumed(saved.quota) <= MaxUnits
    /\ saved.quota.authority <= quota.authority
    /\ saved.quota.authority = quota.authority =>
         CountsWithin(saved.quota.counts, quota.counts)

SavedSound ==
    saved # NoCheckpoint =>
      /\ saved.stage \in Stages
      /\ SavedPaid
      /\ Good(saved.harness)
      /\ saved.harness.state = "ready" /\ ~saved.harness.active
      /\ saved.stage = Uploads => Listing(saved.harness)

IssuedSound ==
    artifact.uploads # NoArtifact =>
      /\ artifact.channel # NoArtifact
      /\ IsFiniteSet(artifact.uploads.videos)

RInv == IInv /\ SourceTyped /\ ProcsSound /\ SavedSound /\ IssuedSound /\ IssuedInventoryIsWhole
-----------------------------------------------------------------------------
(***************************************************************************)
(* Operators of the harness.                                               *)
(***************************************************************************)
LEMMA NewIsGood == Good(NewHarness) /\ Listing(NewHarness) /\ NewHarness.state = "ready"
<1> USE InputsAssumption
<1>1. PICK h : h = NewHarness OBVIOUS
<1>2. /\ HarnessFields(h) /\ h.state = "ready" /\ h.active = FALSE
      /\ h.reason = "none" /\ h.cursor = NoToken /\ h.ordinal = 0 /\ h.seen = << >>
      /\ h.pages = 0 /\ h.requests = 0 /\ h.retries = 0 /\ h.rejected = 0
      /\ h.total = NoTotal /\ h.records = {}
  BY <1>1 DEF NewHarness, HarnessFields
<1>3. Typed(h)
  <2>1. h.state \in States /\ h.active \in BOOLEAN BY <1>2 DEF States
  <2>2. /\ h.pages \in Nat /\ h.requests \in Nat /\ h.retries \in Nat
        /\ h.rejected \in Nat /\ h.ordinal \in Int
    BY <1>2
  <2>3. h.seen \in Seq(Nat) /\ h.total \in Nat \cup {NoTotal} BY <1>2
  <2>4. IsFiniteSet(h.records) BY <1>2, FS_EmptySet
  <2>5. QED BY <1>2, <2>1, <2>2, <2>3, <2>4 DEF Typed
<1>4. CursorRestores(h) BY <1>2 DEF CursorRestores, IsInjective
<1>5. CountersRestore(h, Bounds) BY <1>2 DEF CountersRestore
<1>6. Good(h) BY <1>2, <1>3, <1>4, <1>5 DEF Good, Resumes
<1>7. Listing(h) BY <1>2 DEF Listing
<1>8. QED BY <1>1, <1>2, <1>6, <1>7

(* A harness that differs only in fields of the right kind stays typed.    *)
LEMMA TypedLike ==
  ASSUME NEW h, Typed(h), NEW n, HarnessFields(n),
         n.state \in States, n.active \in BOOLEAN,
         n.requests \in Nat, n.retries \in Nat,
         n.pages = h.pages, n.rejected = h.rejected, n.ordinal = h.ordinal,
         n.seen = h.seen, n.total = h.total, n.records = h.records
  PROVE  Typed(n)
<1>1. n.pages \in Nat /\ n.rejected \in Nat /\ n.ordinal \in Int BY DEF Typed
<1>2. n.seen \in Seq(Nat) /\ n.total \in Nat \cup {NoTotal} BY DEF Typed
<1>3. IsFiniteSet(n.records) BY DEF Typed
<1>4. QED BY <1>1, <1>2, <1>3 DEF Typed

(* A harness that stops makes no further claim.                            *)
LEMMA StoppedIsGood ==
  ASSUME NEW h, Typed(h), NEW state \in States \ {"ready"}, NEW reason
  PROVE  /\ Good(Stopped(h, state, reason)) /\ Listing(Stopped(h, state, reason))
         /\ Stopped(h, state, reason).state = state
         /\ Stopped(h, state, reason).records = h.records
         /\ Stopped(h, state, reason).total = h.total
         /\ Stopped(h, state, reason).rejected = h.rejected
<1>1. PICK n : n = Stopped(h, state, reason) OBVIOUS
<1>2. /\ HarnessFields(n) /\ n.state = state /\ n.active = FALSE
      /\ n.pages = h.pages /\ n.requests = h.requests /\ n.retries = h.retries
      /\ n.rejected = h.rejected /\ n.ordinal = h.ordinal /\ n.seen = h.seen
      /\ n.total = h.total /\ n.records = h.records
  <2>1. PICK h1 : h1 = [h EXCEPT !.active = FALSE] OBVIOUS
  <2>2. PICK h2 : h2 = [h1 EXCEPT !.state = state] OBVIOUS
  <2>3. n = [h2 EXCEPT !.reason = reason] BY <1>1, <2>1, <2>2 DEF Stopped
  <2>4. QED BY <2>1, <2>2, <2>3 DEF Typed, HarnessFields
<1>3. Typed(n) BY <1>2 DEF Typed
<1>4. Good(n) /\ Listing(n) BY <1>2, <1>3 DEF Good, Listing
<1>5. QED BY <1>1, <1>2, <1>4

(* A request is let through only when its page would still fit.            *)
LEMMA AskedIsGood ==
  ASSUME NEW h, Good(h), CanAsk(h), RequestRefusal(h, Bounds, FALSE) = "none"
  PROVE  /\ Good(Asked(h))
         /\ Listing(h) => Listing(Asked(h))
<1>1. PICK n : n = Asked(h) OBVIOUS
<1>2. Typed(h) /\ Resumes(h) /\ h.state = "ready" /\ h.active = FALSE
  BY DEF Good, CanAsk, Typed
<1>3. /\ HarnessFields(n) /\ n.state = h.state /\ n.active = TRUE
      /\ n.reason = "none" /\ n.cursor = h.cursor /\ n.ordinal = h.ordinal
      /\ n.seen = h.seen /\ n.pages = h.pages /\ n.requests = h.requests + 1
      /\ n.retries = h.retries /\ n.rejected = h.rejected
      /\ n.total = h.total /\ n.records = h.records
  <2>1. PICK h1 : h1 = [h EXCEPT !.requests = h.requests + 1] OBVIOUS
  <2>2. PICK h2 : h2 = [h1 EXCEPT !.reason = "none"] OBVIOUS
  <2>3. n = [h2 EXCEPT !.active = TRUE] BY <1>1, <2>1, <2>2 DEF Asked
  <2>4. QED BY <1>2, <2>1, <2>2, <2>3 DEF Typed, HarnessFields
<1>4. h.requests < Bounds.requests /\ h.pages < Bounds.pages
  <2>1. ~(h.requests >= Bounds.requests) /\ ~(h.pages >= Bounds.pages)
    BY DEF RequestRefusal
  <2>2. /\ h.requests \in Nat /\ h.pages \in Nat
        /\ Bounds.requests \in Nat /\ Bounds.pages \in Nat
    BY <1>2, InputsAssumption DEF Typed
  <2>3. QED BY <2>1, <2>2
<1>5. Typed(n)
  <2>1. n.state \in States /\ n.active \in BOOLEAN /\ n.retries \in Nat
    BY <1>2, <1>3 DEF Typed
  <2>2. n.requests \in Nat
    <3>1. h.requests \in Nat /\ n.requests = h.requests + 1 BY <1>2, <1>3 DEF Typed
    <3>2. QED BY <3>1
  <2>3. QED BY <1>2, <1>3, <2>1, <2>2, TypedLike
<1>6. CursorRestores(n) BY <1>2, <1>3 DEF Resumes, CursorRestores
<1>7. CountersRestore(n, Bounds) /\ n.requests > n.pages + n.retries
  <2>1. /\ h.pages \in Nat /\ h.requests \in Nat /\ h.retries \in Nat
        /\ Bounds.requests \in Nat
    BY <1>2, InputsAssumption DEF Typed
  <2>2. CountersRestore(h, Bounds) BY <1>2 DEF Resumes
  <2>3. /\ n.pages = h.pages /\ n.requests = h.requests + 1 /\ n.retries = h.retries
        /\ n.seen = h.seen /\ n.ordinal = h.ordinal
        /\ n.total = h.total /\ n.records = h.records
    BY <1>3
  <2>4. /\ n.requests <= Bounds.requests /\ n.requests >= n.pages + n.retries
        /\ n.requests > n.pages + n.retries
    BY <1>4, <2>1, <2>2, <2>3 DEF CountersRestore
  <2>5. QED BY <2>2, <2>3, <2>4 DEF CountersRestore
<1>8. Good(n) BY <1>2, <1>3, <1>4, <1>5, <1>6, <1>7 DEF Good, Resumes
<1>9. Listing(h) => Listing(n) BY <1>3 DEF Listing, Doomed
<1>10. QED BY <1>1, <1>8, <1>9

(* A retry that is within its bound has its request counted already.       *)
LEMMA RetriedIsGood ==
  ASSUME NEW h, Good(h), h.active
  PROVE  /\ Good(Retried(h, Bounds))
         /\ Listing(h) => Listing(Retried(h, Bounds))
<1>1. PICK n : n = [h EXCEPT !.active = FALSE, !.retries = h.retries + 1] OBVIOUS
<1>2. Typed(h) /\ Resumes(h) /\ h.state = "ready" BY DEF Good
<1>3. /\ HarnessFields(n) /\ n.state = h.state /\ n.active = FALSE
      /\ n.reason = h.reason /\ n.cursor = h.cursor /\ n.ordinal = h.ordinal
      /\ n.seen = h.seen /\ n.pages = h.pages /\ n.requests = h.requests
      /\ n.retries = h.retries + 1 /\ n.rejected = h.rejected
      /\ n.total = h.total /\ n.records = h.records
  <2>1. PICK h1 : h1 = [h EXCEPT !.active = FALSE] OBVIOUS
  <2>2. n = [h1 EXCEPT !.retries = h.retries + 1] BY <1>1, <2>1
  <2>3. QED BY <1>2, <2>1, <2>2 DEF Typed, HarnessFields
<1>4. Typed(n)
  <2>1. n.state \in States /\ n.active \in BOOLEAN /\ n.requests \in Nat
    BY <1>2, <1>3 DEF Typed
  <2>2. n.retries \in Nat BY <1>2, <1>3 DEF Typed
  <2>3. QED BY <1>2, <1>3, <2>1, <2>2, TypedLike
<1>5. CASE n.retries > Bounds.retries
  <2>1. Retried(h, Bounds) = Stopped(n, "blocked", "retry_exhausted")
    BY <1>1, <1>5 DEF Retried
  <2>2. "blocked" \in States \ {"ready"} BY DEF States
  <2>3. QED BY <1>4, <2>1, <2>2, StoppedIsGood
<1>6. CASE ~(n.retries > Bounds.retries)
  <2>1. PICK m : m = [n EXCEPT !.reason = "retry_pending"] OBVIOUS
  <2>2. Retried(h, Bounds) = m BY <1>1, <1>6, <2>1 DEF Retried
  <2>3. /\ HarnessFields(m) /\ m.state = h.state /\ m.active = FALSE
        /\ m.reason = "retry_pending" /\ m.cursor = h.cursor /\ m.ordinal = h.ordinal
        /\ m.seen = h.seen /\ m.pages = h.pages /\ m.requests = h.requests
        /\ m.retries = h.retries + 1 /\ m.rejected = h.rejected
        /\ m.total = h.total /\ m.records = h.records
    BY <1>3, <2>1 DEF HarnessFields
  <2>4. m.retries <= Bounds.retries
    <3>1. h.retries \in Nat /\ Bounds.retries \in Nat
      BY <1>2, InputsAssumption DEF Typed
    <3>2. n.retries = h.retries + 1 /\ m.retries = h.retries + 1 BY <1>3, <2>3
    <3>3. QED BY <1>6, <3>1, <3>2
  <2>5. Typed(m)
    <3>1. m.state \in States /\ m.active \in BOOLEAN /\ m.requests \in Nat
      BY <1>2, <2>3 DEF Typed
    <3>2. m.retries \in Nat
      <4>1. h.retries \in Nat /\ m.retries = h.retries + 1 BY <1>2, <2>3 DEF Typed
      <4>2. QED BY <4>1
    <3>3. QED BY <1>2, <2>3, <3>1, <3>2, TypedLike
  <2>6. CursorRestores(m) BY <1>2, <2>3 DEF Resumes, CursorRestores
  <2>7. CountersRestore(m, Bounds)
    <3>1. /\ h.pages \in Nat /\ h.requests \in Nat /\ h.retries \in Nat
          /\ h.requests > h.pages + h.retries /\ h.requests <= Bounds.requests
          /\ h.pages <= Bounds.pages /\ Len(h.seen) = h.pages /\ h.ordinal = h.pages
          /\ h.total = NoTotal \/ h.total >= Cardinality(h.records)
      BY <1>2 DEF Resumes, CountersRestore, Typed
    <3>2. /\ m.pages = h.pages /\ m.requests = h.requests /\ m.retries = h.retries + 1
          /\ m.seen = h.seen /\ m.ordinal = h.ordinal
          /\ m.total = h.total /\ m.records = h.records
      BY <2>3
    <3>3. m.requests >= m.pages + m.retries BY <3>1, <3>2
    <3>4. QED BY <2>4, <3>1, <3>2, <3>3 DEF CountersRestore
  <2>8. Good(m) BY <2>3, <2>5, <2>6, <2>7 DEF Good, Resumes
  <2>9. Listing(h) => Listing(m) BY <1>2, <2>3 DEF Listing, Doomed
  <2>10. QED BY <2>2, <2>8, <2>9
<1>7. QED BY <1>5, <1>6

(* What the harness relies on in a page an adapter hands it.               *)
PageTyped(page) ==
    /\ page.kind = "page"
    /\ page.token \in Nat \cup {NoToken}
    /\ page.total \in Nat \cup {NoTotal}
    /\ page.rejected \in Nat
    /\ IsFiniteSet(page.ids)

LEMMA NewTokenStaysInjective ==
  ASSUME NEW s \in Seq(Nat), NEW e \in Nat,
         IsInjective(s), \A i \in DOMAIN s : s[i] # e,
         NEW t, t = Append(s, e)
  PROVE  /\ t \in Seq(Nat) /\ Len(t) = Len(s) + 1
         /\ \A a, b \in DOMAIN t : t[a] = t[b] => a = b
         /\ e \in ToSet(t)
<1>1. /\ t \in Seq(Nat) /\ Len(t) = Len(s) + 1 /\ Len(s) \in Nat
      /\ DOMAIN t = 1 .. Len(s) + 1 /\ DOMAIN s = 1 .. Len(s)
      /\ t[Len(s) + 1] = e
      /\ \A i \in 1 .. Len(s) : t[i] = s[i]
  OBVIOUS
<1>2. \A i \in 1 .. Len(s) : s[i] # e BY <1>1
<1>3. ASSUME NEW a \in DOMAIN t, NEW b \in DOMAIN t, t[a] = t[b]
      PROVE  a = b
  <2>1. a \in 1 .. Len(s) \/ a = Len(s) + 1 BY <1>1
  <2>2. b \in 1 .. Len(s) \/ b = Len(s) + 1 BY <1>1
  <2>3. CASE a \in 1 .. Len(s) /\ b \in 1 .. Len(s)
    BY <1>1, <1>3, <2>3 DEF IsInjective
  <2>4. QED BY <1>1, <1>2, <1>3, <2>1, <2>2, <2>3
<1>4. e \in ToSet(t)
  <2>1. Len(s) + 1 \in DOMAIN t BY <1>1
  <2>2. QED BY <1>1, <2>1 DEF ToSet
<1>5. QED BY <1>1, <1>3, <1>4

(* What taking in a page leaves of a harness h: the harness n.             *)
TakesIn(h, page, n) ==
    /\ HarnessFields(n) /\ n.active = FALSE
    /\ n.records = h.records \cup page.ids
    /\ n.rejected = h.rejected + page.rejected
    /\ n.total = IF page.total = NoTotal THEN h.total ELSE page.total
    /\ n.pages = h.pages + 1 /\ n.retries = 0 /\ n.requests = h.requests
    /\ n.cursor = page.token
    /\ page.token = NoToken =>
         n.state = "complete" /\ n.ordinal = -1 /\ n.seen = h.seen
    /\ page.token # NoToken =>
         /\ n.state = h.state /\ n.ordinal = h.ordinal + 1
         /\ n.seen = Append(h.seen, page.token) /\ n.reason = "none"

LEMMA CommittedFields ==
  ASSUME NEW h, Typed(h), NEW page, NEW n, n = Committed(h, page)
  PROVE  TakesIn(h, page, n)
<1> SUFFICES /\ HarnessFields(n) /\ n.active = FALSE
             /\ n.records = h.records \cup page.ids
             /\ n.rejected = h.rejected + page.rejected
             /\ n.total = IF page.total = NoTotal THEN h.total ELSE page.total
             /\ n.pages = h.pages + 1 /\ n.retries = 0 /\ n.requests = h.requests
             /\ n.cursor = page.token
             /\ page.token = NoToken =>
                  n.state = "complete" /\ n.ordinal = -1 /\ n.seen = h.seen
             /\ page.token # NoToken =>
                  /\ n.state = h.state /\ n.ordinal = h.ordinal + 1
                  /\ n.seen = Append(h.seen, page.token) /\ n.reason = "none"
  BY DEF TakesIn
<1>1. PICK total : total = IF page.total = NoTotal THEN h.total ELSE page.total OBVIOUS
<1>2. PICK dup : dup = h.duplicates + Cardinality(h.records \cap page.ids) OBVIOUS
<1>3. PICK h1 : h1 = [h EXCEPT !.active = FALSE] OBVIOUS
<1>4. PICK h2 : h2 = [h1 EXCEPT !.records = h.records \cup page.ids] OBVIOUS
<1>5. PICK h3 : h3 = [h2 EXCEPT !.duplicates = dup] OBVIOUS
<1>6. PICK h4 : h4 = [h3 EXCEPT !.rejected = h.rejected + page.rejected] OBVIOUS
<1>7. PICK h5 : h5 = [h4 EXCEPT !.total = total] OBVIOUS
<1>8. PICK h6 : h6 = [h5 EXCEPT !.pages = h.pages + 1] OBVIOUS
<1>9. PICK h7 : h7 = [h6 EXCEPT !.retries = 0] OBVIOUS
<1>10. PICK h8 : h8 = [h7 EXCEPT !.cursor = page.token] OBVIOUS
<1>11. /\ HarnessFields(h3) /\ h3.active = FALSE /\ h3.state = h.state
       /\ h3.records = h.records \cup page.ids
       /\ h3.rejected = h.rejected /\ h3.total = h.total /\ h3.pages = h.pages
       /\ h3.retries = h.retries /\ h3.requests = h.requests
       /\ h3.ordinal = h.ordinal /\ h3.seen = h.seen
  BY <1>3, <1>4, <1>5 DEF Typed, HarnessFields
<1>12. /\ HarnessFields(h6) /\ h6.active = FALSE /\ h6.state = h.state
       /\ h6.records = h.records \cup page.ids
       /\ h6.rejected = h.rejected + page.rejected
       /\ h6.total = total /\ h6.pages = h.pages + 1
       /\ h6.requests = h.requests /\ h6.ordinal = h.ordinal /\ h6.seen = h.seen
  BY <1>6, <1>7, <1>8, <1>11 DEF HarnessFields
<1>13. /\ HarnessFields(h8) /\ h8.active = FALSE /\ h8.state = h.state
       /\ h8.records = h.records \cup page.ids
       /\ h8.rejected = h.rejected + page.rejected
       /\ h8.total = total /\ h8.pages = h.pages + 1 /\ h8.retries = 0
       /\ h8.requests = h.requests /\ h8.cursor = page.token
       /\ h8.ordinal = h.ordinal /\ h8.seen = h.seen
  BY <1>9, <1>10, <1>12 DEF HarnessFields
<1>14. h8 = [h EXCEPT !.active = FALSE,
                      !.records = @ \cup page.ids,
                      !.duplicates = @ + Cardinality(h.records \cap page.ids),
                      !.rejected = @ + page.rejected,
                      !.total = IF page.total = NoTotal THEN @ ELSE page.total,
                      !.pages = @ + 1,
                      !.retries = 0,
                      !.cursor = page.token]
  BY <1>1, <1>2, <1>3, <1>4, <1>5, <1>6, <1>7, <1>8, <1>9, <1>10
  DEF Typed, HarnessFields
<1>15. CASE page.token = NoToken
  <2>2. n = Stopped([h8 EXCEPT !.ordinal = -1], "complete", "terminal_page")
    BY <1>14, <1>15 DEF Committed
  <2>3. PICK g1 : g1 = [h8 EXCEPT !.ordinal = -1] OBVIOUS
  <2>4. PICK g2 : g2 = [g1 EXCEPT !.active = FALSE] OBVIOUS
  <2>5. PICK g3 : g3 = [g2 EXCEPT !.state = "complete"] OBVIOUS
  <2>6. n = [g3 EXCEPT !.reason = "terminal_page"]
    BY <2>2, <2>3, <2>4, <2>5 DEF Stopped
  <2>7. /\ HarnessFields(n) /\ n.active = FALSE /\ n.state = "complete"
        /\ n.records = h8.records /\ n.rejected = h8.rejected
        /\ n.total = h8.total /\ n.pages = h8.pages /\ n.retries = h8.retries
        /\ n.requests = h8.requests /\ n.cursor = h8.cursor
        /\ n.ordinal = -1 /\ n.seen = h8.seen
    BY <1>13, <2>3, <2>4, <2>5, <2>6 DEF HarnessFields
  <2>8. QED BY <1>1, <1>13, <1>15, <2>7
<1>16. CASE page.token # NoToken
  <2>1. n = [h8 EXCEPT !.ordinal = h8.ordinal + 1,
                       !.seen = Append(h8.seen, page.token),
                       !.reason = "none"]
    BY <1>14, <1>16 DEF Committed
  <2>3. PICK g1 : g1 = [h8 EXCEPT !.ordinal = h8.ordinal + 1] OBVIOUS
  <2>4. PICK g2 : g2 = [g1 EXCEPT !.seen = Append(h8.seen, page.token)] OBVIOUS
  <2>5. n = [g2 EXCEPT !.reason = "none"] BY <2>1, <2>3, <2>4
  <2>6. /\ HarnessFields(n) /\ n.active = FALSE /\ n.state = h8.state
        /\ n.records = h8.records /\ n.rejected = h8.rejected
        /\ n.total = h8.total /\ n.pages = h8.pages /\ n.retries = h8.retries
        /\ n.requests = h8.requests /\ n.cursor = h8.cursor
        /\ n.ordinal = h8.ordinal + 1 /\ n.seen = Append(h8.seen, page.token)
        /\ n.reason = "none"
    BY <1>13, <2>3, <2>4, <2>5 DEF HarnessFields
  <2>7. QED BY <1>1, <1>13, <1>16, <2>6
<1>17. QED BY <1>15, <1>16

(* A page without a defect: the token is new, the total is the one known   *)
(* and still covers the records.                                           *)
Fits(h, page, total, records) ==
    /\ page.token # NoToken => page.token \notin ToSet(h.seen)
    /\ page.total # NoTotal /\ h.total # NoTotal => page.total = h.total
    /\ IsFiniteSet(records)
    /\ total = NoTotal \/ total >= Cardinality(records)

LEMMA NoDefect ==
  ASSUME NEW h, Typed(h), NEW page, PageTyped(page), PageDefect(h, page) = "none",
         NEW total, total = IF page.total = NoTotal THEN h.total ELSE page.total
  PROVE  Fits(h, page, total, h.records \cup page.ids)
<1> SUFFICES
      /\ page.token # NoToken => page.token \notin ToSet(h.seen)
      /\ page.total # NoTotal /\ h.total # NoTotal => page.total = h.total
      /\ IsFiniteSet(h.records \cup page.ids)
      /\ total = NoTotal \/ total >= Cardinality(h.records \cup page.ids)
  BY DEF Fits
<1>2. IsFiniteSet(h.records \cup page.ids) BY FS_Union DEF Typed, PageTyped
<1>3. PICK n : n = Cardinality(h.records \cup page.ids) OBVIOUS
<1>4. n \in Nat BY <1>2, <1>3, FS_CardinalityType
<1>5. total \in Nat \cup {NoTotal} BY DEF Typed, PageTyped
<1>6. ~(page.token # NoToken /\ page.token \in ToSet(h.seen)) BY DEF PageDefect
<1>7. ~(page.total # NoTotal /\ h.total # NoTotal /\ page.total # h.total)
  BY <1>6 DEF PageDefect
<1>8. ~(total # NoTotal /\ n > total)
  <2>1. SUFFICES ASSUME total # NoTotal, n > total PROVE FALSE OBVIOUS
  <2>2. CASE page.edited /\ page.ids \cap h.records # {}
    BY <1>6, <1>7, <2>2 DEF PageDefect
  <2>3. CASE ~(page.edited /\ page.ids \cap h.records # {})
    BY <1>3, <1>6, <1>7, <2>1, <2>3 DEF PageDefect
  <2>4. QED BY <2>2, <2>3
<1>9. total = NoTotal \/ total >= n BY <1>4, <1>5, <1>8
<1>10. QED BY <1>2, <1>3, <1>6, <1>7, <1>9

LEMMA IngestedIsGood ==
  ASSUME NEW h, Good(h), h.active, NEW page,
         page \in Stops \/ PageTyped(page)
  PROVE  Good(Ingested(h, page))
<1>1. Typed(h) /\ Resumes(h) /\ h.state = "ready" BY DEF Good
<1>2. CASE page \in Stops
  <2>0. page.kind \in {"blocked", "changed"} BY <1>2, InputsAssumption
  <2>1. /\ page.kind \in {"blocked", "changed"}
        /\ Ingested(h, page) = Stopped(h, page.kind, page.reason)
    BY <2>0 DEF Ingested
  <2>2. page.kind \in States \ {"ready"} BY <2>1 DEF States
  <2>3. QED BY <1>1, <2>1, <2>2, StoppedIsGood
<1>3. CASE PageTyped(page) /\ PageDefect(h, page) # "none"
  <2>1. Ingested(h, page) = Stopped(h, "changed", PageDefect(h, page))
    BY <1>3 DEF Ingested, PageTyped
  <2>2. "changed" \in States \ {"ready"} BY DEF States
  <2>3. QED BY <1>1, <2>1, <2>2, StoppedIsGood
<1>4. CASE PageTyped(page) /\ PageDefect(h, page) = "none"
  <2>1. PICK n : n = Committed(h, page) OBVIOUS
  <2>2. Ingested(h, page) = n BY <1>4, <2>1 DEF Ingested, PageTyped
  <2>3. /\ HarnessFields(n) /\ n.active = FALSE
        /\ n.records = h.records \cup page.ids
        /\ n.rejected = h.rejected + page.rejected
        /\ n.total = IF page.total = NoTotal THEN h.total ELSE page.total
        /\ n.pages = h.pages + 1 /\ n.retries = 0 /\ n.requests = h.requests
        /\ n.cursor = page.token
        /\ page.token = NoToken =>
             n.state = "complete" /\ n.ordinal = -1 /\ n.seen = h.seen
        /\ page.token # NoToken =>
             /\ n.state = h.state /\ n.ordinal = h.ordinal + 1
             /\ n.seen = Append(h.seen, page.token) /\ n.reason = "none"
    <3>1. TakesIn(h, page, n) BY <1>1, <2>1, CommittedFields
    <3>2. QED BY <3>1 DEF TakesIn
  <2>4. /\ page.token # NoToken => page.token \notin ToSet(h.seen)
        /\ IsFiniteSet(n.records)
        /\ n.total = NoTotal \/ n.total >= Cardinality(n.records)
    <3>1. Fits(h, page, n.total, h.records \cup page.ids)
      BY <1>1, <1>4, <2>3, NoDefect
    <3>2. QED BY <2>3, <3>1 DEF Fits
  <2>5. /\ page.rejected \in Nat /\ page.token \in Nat \cup {NoToken}
        /\ n.total \in Nat \cup {NoTotal}
    BY <1>1, <1>4, <2>3 DEF PageTyped, Typed
  <2>6. ASSUME page.token # NoToken
        PROVE  /\ n.seen \in Seq(Nat) /\ Len(n.seen) = Len(h.seen) + 1
               /\ IsInjective(n.seen) /\ page.token \in ToSet(n.seen)
    <3>1. PICK s, e : s = h.seen /\ e = page.token OBVIOUS
    <3>2. s \in Seq(Nat) /\ IsInjective(s) BY <1>1, <3>1 DEF Resumes, CursorRestores, Typed
    <3>3. e \in Nat /\ \A i \in DOMAIN s : s[i] # e BY <2>4, <2>5, <2>6, <3>1 DEF ToSet
    <3>4. n.seen = Append(s, e) BY <2>3, <2>6, <3>1
    <3>5. /\ n.seen \in Seq(Nat) /\ Len(n.seen) = Len(s) + 1
          /\ IsInjective(n.seen) /\ e \in ToSet(n.seen)
      <4>1. \A a, b \in DOMAIN s : s[a] = s[b] => a = b BY <3>2 DEF IsInjective
      <4>2. /\ n.seen \in Seq(Nat) /\ Len(n.seen) = Len(s) + 1
            /\ \A a, b \in DOMAIN n.seen : n.seen[a] = n.seen[b] => a = b
            /\ e \in ToSet(n.seen)
        BY <3>2, <3>3, <3>4, NewTokenStaysInjective
      <4>3. QED BY <4>2 DEF IsInjective
    <3>6. QED BY <3>1, <3>5
  <2>7. Typed(n)
    <3>1. n.state \in States BY <1>1, <2>3 DEF States
    <3>2. n.ordinal \in Int
      <4>1. n.ordinal = -1 \/ n.ordinal = h.ordinal + 1 BY <2>3
      <4>2. h.ordinal \in Int BY <1>1 DEF Typed
      <4>3. QED BY <4>1, <4>2
    <3>3. n.seen \in Seq(Nat) BY <1>1, <2>3, <2>6 DEF Typed
    <3>4. /\ h.pages \in Nat /\ h.requests \in Nat /\ h.rejected \in Nat
      BY <1>1 DEF Typed
    <3>5. /\ n.pages \in Nat /\ n.requests \in Nat /\ n.retries \in Nat
          /\ n.rejected \in Nat
      <4>1. /\ n.pages = h.pages + 1 /\ n.requests = h.requests /\ n.retries = 0
            /\ n.rejected = h.rejected + page.rejected
        BY <2>3
      <4>2. page.rejected \in Nat BY <2>5
      <4>3. QED BY <3>4, <4>1, <4>2
    <3>6. n.active \in BOOLEAN BY <2>3
    <3>7. QED BY <2>3, <2>4, <2>5, <3>1, <3>2, <3>3, <3>5, <3>6 DEF Typed
  <2>8. CASE page.token = NoToken
    <3>1. n.state = "complete" /\ n.active = FALSE BY <2>3, <2>8
    <3>2. Good(n) BY <2>7, <3>1 DEF Good
    <3>3. QED BY <2>2, <3>2
  <2>9. CASE page.token # NoToken
    <3>1. /\ h.pages \in Nat /\ h.requests \in Nat /\ h.retries \in Nat
          /\ h.requests > h.pages + h.retries /\ h.pages < Bounds.pages
          /\ h.requests <= Bounds.requests
          /\ Len(h.seen) = h.pages /\ h.ordinal = h.pages
      BY <1>1 DEF Typed, Resumes, CountersRestore
    <3>2. CursorRestores(n)
      <4>1. n.cursor = page.token /\ n.ordinal = h.ordinal + 1 BY <2>3, <2>9
      <4>2. n.cursor \in ToSet(n.seen) /\ IsInjective(n.seen) BY <2>6, <2>9, <4>1
      <4>3. QED BY <3>1, <4>1, <4>2 DEF CursorRestores
    <3>3. CountersRestore(n, Bounds)
      <4>1. /\ n.pages = h.pages + 1 /\ n.requests = h.requests /\ n.retries = 0
            /\ n.ordinal = h.ordinal + 1
        BY <2>3, <2>9
      <4>2. Len(n.seen) = Len(h.seen) + 1 BY <2>6, <2>9
      <4>3. n.total = NoTotal \/ n.total >= Cardinality(n.records) BY <2>4
      <4>4. /\ n.requests <= Bounds.requests /\ n.pages <= Bounds.pages
            /\ n.requests >= n.pages + n.retries
            /\ Len(n.seen) = n.pages /\ n.ordinal = n.pages
        <5>1. Bounds.pages \in Int BY InputsAssumption
        <5>2. QED BY <3>1, <4>1, <4>2, <5>1
      <4>5. n.retries <= Bounds.retries BY <4>1, InputsAssumption
      <4>6. QED BY <4>3, <4>4, <4>5 DEF CountersRestore
    <3>4. Resumes(n) BY <2>3, <2>9, <3>2, <3>3 DEF Resumes
    <3>5. n.active = FALSE BY <2>3
    <3>6. Good(n) BY <2>7, <3>4, <3>5 DEF Good
    <3>7. QED BY <2>2, <3>6
  <2>10. QED BY <2>2, <2>8, <2>9
<1>5. QED BY <1>2, <1>3, <1>4
-----------------------------------------------------------------------------
(***************************************************************************)
(* Parts of a list.                                                        *)
(***************************************************************************)

(* A part has at most as many videos as positions.                         *)
LEMMA PartCounts ==
  ASSUME NEW list, NEW i \in Int, NEW j \in Int, i <= j + 1
  PROVE  /\ IsFiniteSet(Part(list, i, j))
         /\ Cardinality(Part(list, i, j)) <= j - i + 1
<1>1. PICK S : S = i .. j OBVIOUS
<1>2. PICK T : T = {list[x] : x \in S} OBVIOUS
<1>3. PICK f : f = [x \in S |-> list[x]] OBVIOUS
<1>4. f \in Surjection(S, T) BY <1>2, <1>3 DEF Surjection
<1>5. IsFiniteSet(S) /\ Cardinality(S) = j - i + 1
  <2>1. IsFiniteSet(S) /\ Cardinality(S) = IF i > j THEN 0 ELSE j - i + 1
    BY <1>1, FS_Interval
  <2>2. i > j => j - i + 1 = 0 OBVIOUS
  <2>3. QED BY <2>1, <2>2
<1>6. IsFiniteSet(T) /\ Cardinality(T) <= Cardinality(S)
  BY <1>4, <1>5, FS_Surjection
<1>7. PICK V : V = Part(list, i, j) OBVIOUS
<1>8. V \in SUBSET T BY <1>1, <1>2, <1>7 DEF Part
<1>9. IsFiniteSet(V) /\ Cardinality(V) <= Cardinality(T)
  BY <1>6, <1>8, FS_Subset
<1>10. Cardinality(V) \in Nat /\ Cardinality(T) \in Nat
  BY <1>6, <1>9, FS_CardinalityType
<1>11. Cardinality(V) <= j - i + 1
  <2>1. PICK a, b, c : a = Cardinality(V) /\ b = Cardinality(T) /\ c = j - i + 1
    OBVIOUS
  <2>2. a \in Nat /\ b \in Nat /\ c \in Int /\ a <= b /\ b <= c
    BY <1>5, <1>6, <1>9, <1>10, <2>1
  <2>3. a <= c BY <2>2
  <2>4. QED BY <2>1, <2>3
<1>12. QED BY <1>7, <1>9, <1>11

(* What a union of two sets counts at most.                                *)
LEMMA UnionCounts ==
  ASSUME NEW S, IsFiniteSet(S), NEW T, IsFiniteSet(T), NEW m \in Int, NEW n \in Int,
         Cardinality(S) <= m, Cardinality(T) <= n
  PROVE  /\ IsFiniteSet(S \cup T) /\ Cardinality(S \cup T) \in Nat
         /\ Cardinality(S \cup T) <= m + n
<1>1. IsFiniteSet(S \cup T) BY FS_Union
<1>2. IsFiniteSet(S \cap T)
  <2>1. PICK R : R = S \cap T OBVIOUS
  <2>2. R \in SUBSET S BY <2>1
  <2>3. IsFiniteSet(R) BY <2>2, FS_Subset
  <2>4. QED BY <2>1, <2>3
<1>3. PICK a, b, c, d : /\ a = Cardinality(S) /\ b = Cardinality(T)
                        /\ c = Cardinality(S \cap T) /\ d = Cardinality(S \cup T)
  OBVIOUS
<1>4. a \in Nat /\ b \in Nat /\ c \in Nat /\ d \in Nat
  BY <1>1, <1>2, <1>3, FS_CardinalityType
<1>5. d = a + b - c BY <1>3, FS_Union
<1>6. d <= m + n BY <1>3, <1>4, <1>5
<1>7. QED BY <1>1, <1>3, <1>4, <1>6

(* A part and the part behind it.                                          *)
LEMMA PartsJoin ==
  ASSUME NEW P, NEW k \in Nat, NEW l \in Nat, k <= l
  PROVE  Part(P, 1, k) \cup Part(P, k + 1, l) = Part(P, 1, l)
<1>1. \A x : x \in 1 .. l <=> x \in 1 .. k \/ x \in k + 1 .. l OBVIOUS
<1>2. Part(P, 1, k) \cup Part(P, k + 1, l) \subseteq Part(P, 1, l)
  BY <1>1 DEF Part
<1>3. Part(P, 1, l) \subseteq Part(P, 1, k) \cup Part(P, k + 1, l)
  BY <1>1 DEF Part
<1>4. QED BY <1>2, <1>3

(* A part that starts with the item read last counts one short.            *)
LEMMA PartRepeats ==
  ASSUME NEW P, NEW Q, NEW k \in Nat, NEW l \in Nat, 1 <= k, k < l,
         Q[k + 1] = P[k]
  PROVE  /\ IsFiniteSet(Part(P, 1, k) \cup Part(Q, k + 1, l))
         /\ Cardinality(Part(P, 1, k) \cup Part(Q, k + 1, l)) < l
<1>1. PICK S, T, U : /\ S = Part(P, 1, k) /\ T = Part(Q, k + 2, l)
                     /\ U = Part(Q, k + 1, l)
  OBVIOUS
<1>2. S \cup U = S \cup T
  <2>1. \A x : x \in k + 1 .. l <=> x = k + 1 \/ x \in k + 2 .. l OBVIOUS
  <2>2. k \in 1 .. k OBVIOUS
  <2>3. U \subseteq S \cup T BY <1>1, <2>1, <2>2 DEF Part
  <2>4. T \subseteq U BY <1>1, <2>1 DEF Part
  <2>5. QED BY <2>3, <2>4
<1>3. IsFiniteSet(S) /\ Cardinality(S) <= k
  <2>1. 1 <= k + 1 /\ k - 1 + 1 = k OBVIOUS
  <2>2. QED BY <1>1, <2>1, PartCounts
<1>4. IsFiniteSet(T) /\ Cardinality(T) <= l - k - 1
  <2>1. PICK i : i = k + 2 OBVIOUS
  <2>2. i \in Int /\ l \in Int /\ i <= l + 1 /\ l - i + 1 = l - k - 1 BY <2>1
  <2>3. IsFiniteSet(Part(Q, i, l)) /\ Cardinality(Part(Q, i, l)) <= l - i + 1
    BY <2>2, PartCounts
  <2>4. QED BY <1>1, <2>1, <2>2, <2>3
<1>5. PICK m : m = l - k - 1 OBVIOUS
<1>6. m \in Int /\ k \in Int /\ k + m = l - 1 BY <1>5
<1>7. /\ IsFiniteSet(S \cup T) /\ Cardinality(S \cup T) \in Nat
      /\ Cardinality(S \cup T) <= k + m
  BY <1>3, <1>4, <1>5, <1>6, UnionCounts
<1>8. Cardinality(S \cup T) < l BY <1>6, <1>7
<1>9. QED BY <1>1, <1>2, <1>7, <1>8

-----------------------------------------------------------------------------
(***************************************************************************)
(* Changes of the playlist.                                                *)
(***************************************************************************)
LEMMA AddedInFront ==
  ASSUME NEW P \in Seq(Items), NEW v \in Videos
  PROVE  <<v>> \o P \in Seq(Items) /\ Longer(P, <<v>> \o P)
<1>1. PICK s, Q : s = <<v>> /\ Q = s \o P OBVIOUS
<1>2. s \in Seq(Items) /\ Len(s) = 1 BY <1>1 DEF Items
<1>3. /\ Q \in Seq(Items) /\ Len(Q) = Len(s) + Len(P)
      /\ \A i \in 1 .. Len(s) + Len(P) :
           Q[i] = IF i <= Len(s) THEN s[i] ELSE P[i - Len(s)]
  BY <1>1, <1>2, ConcatProperties
<1>4. Len(P) \in Nat OBVIOUS
<1>5. \A j \in 1 .. Len(P) : Q[j + 1] = P[j] BY <1>2, <1>3, <1>4
<1>6. QED BY <1>1, <1>2, <1>3, <1>4, <1>5 DEF Longer

LEMMA TakenDown ==
  ASSUME NEW P \in Seq(Items), NEW i \in 1 .. Len(P)
  PROVE  RemoveAt(P, i) \in Seq(Items) /\ Shorter(P, RemoveAt(P, i))
<1>1. PICK s, t, Q : s = SubSeq(P, 1, i - 1) /\ t = SubSeq(P, i + 1, Len(P)) /\ Q = s \o t
  OBVIOUS
<1>2. Len(P) \in Nat /\ i \in Nat /\ 1 <= i /\ i <= Len(P) OBVIOUS
<1>3. s \in Seq(Items) /\ Len(s) = i - 1 /\ \A j \in 1 .. i - 1 : s[j] = P[j]
  <2>1. \A j \in 1 .. i - 1 : P[j] \in Items BY <1>2
  <2>2. PICK n : n = i - 1 OBVIOUS
  <2>3. n \in Int /\ 1 \in Int /\ n - 1 + 1 = n BY <1>2, <2>2
  <2>4. /\ SubSeq(P, 1, n) \in Seq(Items)
        /\ Len(SubSeq(P, 1, n)) = IF 1 <= n THEN n - 1 + 1 ELSE 0
        /\ \A j \in 1 .. n - 1 + 1 : SubSeq(P, 1, n)[j] = P[1 + j - 1]
    BY <2>1, <2>2, <2>3, SubSeqProperties
  <2>5. n \in Nat BY <1>2, <2>2
  <2>6. \A j \in 1 .. n : 1 + j - 1 = j OBVIOUS
  <2>7. QED BY <1>1, <2>2, <2>3, <2>4, <2>5, <2>6
<1>4. /\ t \in Seq(Items) /\ Len(t) = Len(P) - i
      /\ \A j \in 1 .. Len(P) - i : t[j] = P[i + j]
  <2>1. \A j \in i + 1 .. Len(P) : P[j] \in Items BY <1>2
  <2>2. PICK m, n : m = i + 1 /\ n = Len(P) OBVIOUS
  <2>3. m \in Int /\ n \in Int /\ n - m + 1 = n - i BY <1>2, <2>2
  <2>4. /\ SubSeq(P, m, n) \in Seq(Items)
        /\ Len(SubSeq(P, m, n)) = IF m <= n THEN n - m + 1 ELSE 0
        /\ \A j \in 1 .. n - m + 1 : SubSeq(P, m, n)[j] = P[m + j - 1]
    BY <2>1, <2>2, <2>3, SubSeqProperties
  <2>5. ~(m <= n) => n - i = 0 BY <1>2, <2>2
  <2>6. \A j \in 1 .. n - i : m + j - 1 = i + j BY <1>2, <2>2
  <2>7. QED BY <1>1, <2>2, <2>3, <2>4, <2>5, <2>6
<1>5. /\ Q \in Seq(Items) /\ Len(Q) = Len(s) + Len(t)
      /\ \A j \in 1 .. Len(s) + Len(t) :
           Q[j] = IF j <= Len(s) THEN s[j] ELSE t[j - Len(s)]
  <2>1. s \in Seq(Items) /\ t \in Seq(Items) /\ Q = s \o t BY <1>1, <1>3, <1>4
  <2>2. QED BY <2>1, ConcatProperties
<1>6. Len(Q) = Len(P) - 1 BY <1>2, <1>3, <1>4, <1>5
<1>7. ASSUME NEW j \in 1 .. Len(Q)
      PROVE  Q[j] = IF j < i THEN P[j] ELSE P[j + 1]
  <2>1. CASE j < i
    <3>1. j \in 1 .. i - 1 /\ j <= Len(s) /\ j \in 1 .. Len(s) + Len(t)
      BY <1>2, <1>3, <1>4, <1>5, <2>1
    <3>2. QED BY <1>3, <1>5, <2>1, <3>1
  <2>2. CASE ~(j < i)
    <3>1. PICK n : n = j - (i - 1) OBVIOUS
    <3>2. /\ n \in 1 .. Len(P) - i /\ i + n = j + 1 /\ ~(j <= Len(s))
          /\ j \in 1 .. Len(s) + Len(t) /\ j - Len(s) = n
      BY <1>2, <1>3, <1>4, <1>5, <1>6, <2>2, <3>1
    <3>3. Q[j] = t[n] BY <1>5, <3>2
    <3>4. t[n] = P[i + n] BY <1>4, <3>2
    <3>5. QED BY <2>2, <3>2, <3>3, <3>4
  <2>3. QED BY <2>1, <2>2
<1>8. Shorter(P, Q) BY <1>6, <1>7 DEF Shorter
<1>9. Q = RemoveAt(P, i) BY <1>1 DEF RemoveAt
<1>10. QED BY <1>5, <1>8, <1>9

(* One more change of the playlist, seen from a listing under way.         *)
LEMMA ChangedAgain ==
  ASSUME NEW P \in Seq(Items), NEW Q \in Seq(Items), NEW R \in Seq(Items),
         NEW a \in Nat, NEW c \in Nat, NEW k \in 1 .. Len(P) - 1,
         Became(P, a, k, Q, c), Longer(Q, R) \/ Shorter(Q, R)
  PROVE  Became(P, a, k, R, c + 1)
<1>1. /\ Len(P) \in Nat /\ Len(Q) \in Nat /\ Len(R) \in Nat
      /\ k \in Nat /\ 1 <= k /\ k < Len(P)
  OBVIOUS
<1>2. Len(R) = Len(Q) + 1 \/ Len(R) = Len(Q) - 1 BY DEF Longer, Shorter
<1>3. CASE c = a /\ Q = P
  BY <1>3 DEF Became
<1>4. CASE c = a + 1 /\ Longer(P, Q)
  <2>0. c + 1 = a + 2 BY <1>4
  <2>1. Len(Q) = Len(P) + 1 /\ \A j \in 1 .. Len(P) : Q[j + 1] = P[j]
    BY <1>4 DEF Longer
  <2>2. CASE Longer(Q, R)
    <3>1. Len(R) = Len(P) + 2 BY <1>1, <2>1, <2>2 DEF Longer
    <3>2. Len(R) # Len(P) BY <1>1, <3>1
    <3>3. QED BY <2>0, <3>1, <3>2 DEF Became
  <2>3. CASE Shorter(Q, R)
    <3>1. PICK i \in 1 .. Len(Q) : \A j \in 1 .. Len(R) :
            R[j] = IF j < i THEN Q[j] ELSE Q[j + 1]
      BY <2>3 DEF Shorter
    <3>2. Len(R) = Len(P) BY <1>1, <2>1, <2>3 DEF Shorter
    <3>3. CASE k + 1 < i
      <4>1. k + 1 \in 1 .. Len(R) /\ k \in 1 .. Len(P) BY <1>1, <3>2
      <4>2. R[k + 1] = Q[k + 1] BY <3>1, <3>3, <4>1
      <4>3. Q[k + 1] = P[k] BY <2>1, <4>1
      <4>4. QED BY <2>0, <3>2, <4>2, <4>3 DEF Became
    <3>4. CASE ~(k + 1 < i)
      <4>1. ASSUME NEW j \in k + 1 .. Len(P) PROVE R[j] = P[j]
        <5>1. j \in 1 .. Len(R) /\ j \in 1 .. Len(P) /\ ~(j < i) BY <1>1, <3>2, <3>4
        <5>2. R[j] = Q[j + 1] BY <3>1, <5>1
        <5>3. QED BY <2>1, <5>1, <5>2
      <4>2. SameTail(P, R, k) BY <4>1 DEF SameTail
      <4>3. QED BY <2>0, <3>2, <4>2 DEF Became
    <3>5. QED BY <3>3, <3>4
  <2>4. QED BY <2>2, <2>3
<1>5. CASE c = a + 1 /\ Shorter(P, Q)
  <2>0. c + 1 = a + 2 BY <1>5
  <2>1. Len(Q) = Len(P) - 1 BY <1>5 DEF Shorter
  <2>2. CASE Shorter(Q, R)
    <3>1. Len(R) = Len(P) - 2 BY <1>1, <2>1, <2>2 DEF Shorter
    <3>2. Len(R) # Len(P) BY <1>1, <3>1
    <3>3. QED BY <2>0, <3>1, <3>2 DEF Became
  <2>3. CASE Longer(Q, R)
    <3>1. PICK i \in 1 .. Len(P) : \A j \in 1 .. Len(Q) :
            Q[j] = IF j < i THEN P[j] ELSE P[j + 1]
      BY <1>5 DEF Shorter
    <3>2. Len(R) = Len(P) /\ \A j \in 1 .. Len(Q) : R[j + 1] = Q[j]
      <4>1. Len(R) = Len(Q) + 1 /\ \A j \in 1 .. Len(Q) : R[j + 1] = Q[j]
        BY <2>3 DEF Longer
      <4>2. Len(R) = Len(P) BY <1>1, <2>1, <4>1
      <4>3. QED BY <4>1, <4>2
    <3>3. CASE k < i
      <4>1. k \in 1 .. Len(Q) BY <1>1, <2>1
      <4>2. R[k + 1] = Q[k] /\ Q[k] = P[k] BY <3>1, <3>2, <3>3, <4>1
      <4>3. QED BY <2>0, <3>2, <4>2 DEF Became
    <3>4. CASE ~(k < i)
      <4>1. ASSUME NEW j \in k + 1 .. Len(P) PROVE R[j] = P[j]
        <5>1. PICK n : n = j - 1 OBVIOUS
        <5>2. n \in 1 .. Len(Q) /\ ~(n < i) /\ n + 1 = j BY <1>1, <2>1, <3>4, <5>1
        <5>3. R[n + 1] = Q[n] BY <3>2, <5>2
        <5>4. Q[n] = P[n + 1] BY <3>1, <5>2
        <5>5. QED BY <5>2, <5>3, <5>4
      <4>2. SameTail(P, R, k) BY <4>1 DEF SameTail
      <4>3. QED BY <2>0, <3>2, <4>2 DEF Became
    <3>5. QED BY <3>3, <3>4
  <2>4. QED BY <2>2, <2>3
<1>6. CASE c = a + 2 /\ Len(Q) \in {Len(P) - 2, Len(P), Len(P) + 2}
  <2>1. c + 1 = a + 3 BY <1>6
  <2>2. Len(R) # Len(P) BY <1>1, <1>2, <1>6
  <2>3. QED BY <2>1, <2>2 DEF Became
<1>7. CASE c = a + 3 \/ c >= 4
  <2>1. c + 1 >= 4 BY <1>7
  <2>2. QED BY <2>1 DEF Became
<1>8. QED BY <1>3, <1>4, <1>5, <1>6, <1>7 DEF Became
-----------------------------------------------------------------------------
(***************************************************************************)
(* Pages of the playlist.                                                  *)
(***************************************************************************)

(* The page that starts behind position k of the playlist Q ends at l.     *)
Reads(page, Q, k, l) ==
    /\ l \in Nat /\ l <= Len(Q)
    /\ k < Len(Q) => k < l
    /\ page.ids = Part(Q, k + 1, l)
    /\ page.token = NoToken => l = Len(Q)
    /\ page.token # NoToken => page.token = l /\ k < l /\ l < Len(Q)
    /\ page.total = IF api.reports THEN Len(Q) + api.hidden ELSE NoTotal

LEMMA PlaylistPageReads ==
  ASSUME SourceTyped, NEW h, Offset(h) \in Nat, NEW edited \in BOOLEAN,
         NEW page, page = PlaylistPage(h, edited)
  PROVE  PageTyped(page) /\ \E l : Reads(page, api.playlist, Offset(h), l)
<1> USE QuotaAssumption, NoneAssumption
<1>1. PICK Q, k : Q = api.playlist /\ k = Offset(h) OBVIOUS
<1>2. Q \in Seq(Items) /\ Len(Q) \in Nat /\ k \in Nat /\ api.hidden \in Nat
  BY <1>1 DEF SourceTyped
<1>3. PICK l : l = IF k + PageSize < Len(Q) THEN k + PageSize ELSE Len(Q) OBVIOUS
<1>4. PICK n : n = IF l > k THEN l - k ELSE 0 OBVIOUS
<1>5. PICK items : items = [i \in 1 .. n |-> Q[k + i]] OBVIOUS
<1>6. PICK bad : bad = {i \in DOMAIN items : items[i] = BadItem} OBVIOUS
<1>7. page = [kind |-> "page", ids |-> Listed(items), edited |-> edited,
              rejected |-> Cardinality(bad),
              token |-> IF l < Len(Q) THEN l ELSE NoToken,
              total |-> IF api.reports THEN Len(Q) + api.hidden ELSE NoTotal]
  BY <1>1, <1>3, <1>4, <1>5, <1>6 DEF PlaylistPage
<1>8. l \in Nat /\ l <= Len(Q) /\ (k < Len(Q) => k < l) /\ (l < Len(Q) => k < l)
  BY <1>2, <1>3
<1>9. n \in Nat /\ \A i \in Int : i \in 1 .. n <=> k + i \in k + 1 .. l
  BY <1>2, <1>4, <1>8
<1>10. DOMAIN items = 1 .. n BY <1>5
<1>11. Cardinality(bad) \in Nat
  <2>1. IsFiniteSet(1 .. n) BY <1>9, FS_Interval
  <2>2. bad \in SUBSET (1 .. n) BY <1>6, <1>10
  <2>3. IsFiniteSet(bad) BY <2>1, <2>2, FS_Subset
  <2>4. QED BY <2>3, FS_CardinalityType
<1>12. Listed(items) = Part(Q, k + 1, l)
  <2>1. \A x \in k + 1 .. l : x - k \in 1 .. n /\ items[x - k] = Q[x]
    <3>1. TAKE x \in k + 1 .. l
    <3>2. x - k \in 1 .. n /\ k + (x - k) = x
      <4>1. x \in Int /\ k \in Nat BY <1>2, <1>8
      <4>2. x - k \in Int /\ k + (x - k) = x BY <4>1
      <4>3. x - k \in 1 .. n <=> k + (x - k) \in k + 1 .. l BY <1>9, <4>2
      <4>4. QED BY <4>2, <4>3
    <3>3. QED BY <1>5, <3>2
  <2>2. \A i \in 1 .. n : k + i \in k + 1 .. l /\ items[i] = Q[k + i]
    BY <1>5, <1>9
  <2>3. QED BY <1>10, <2>1, <2>2 DEF Listed, Part
<1>14. /\ page.token = NoToken => l = Len(Q)
       /\ page.token # NoToken => page.token = l /\ l < Len(Q)
  <2>1. page.token = IF l < Len(Q) THEN l ELSE NoToken BY <1>7
  <2>2. l < Len(Q) => l \in Nat \ {0} BY <1>2, <1>8
  <2>3. ~(l < Len(Q)) => l = Len(Q) BY <1>2, <1>8
  <2>4. QED BY <2>1, <2>2, <2>3
<1>15. Reads(page, Q, k, l)
  <2>1. /\ page.ids = Part(Q, k + 1, l)
        /\ page.total = IF api.reports THEN Len(Q) + api.hidden ELSE NoTotal
    BY <1>7, <1>12
  <2>2. QED BY <1>8, <1>14, <2>1 DEF Reads
<1>16. PageTyped(page)
  <2>1. IsFiniteSet(Part(Q, k + 1, l))
    <3>1. CASE k <= l
      <4>1. PICK m : m = k + 1 OBVIOUS
      <4>2. m \in Int /\ l \in Int /\ m <= l + 1 BY <1>2, <1>8, <3>1, <4>1
      <4>3. IsFiniteSet(Part(Q, m, l)) BY <4>2, PartCounts
      <4>4. QED BY <4>1, <4>3
    <3>2. CASE ~(k <= l)
      <4>1. k + 1 .. l = {} BY <1>2, <1>8, <3>2
      <4>2. Part(Q, k + 1, l) = {} BY <4>1 DEF Part
      <4>3. QED BY <4>2, FS_EmptySet
    <3>3. QED BY <3>1, <3>2
  <2>2. page.kind = "page" /\ IsFiniteSet(page.ids) BY <1>7, <1>12, <2>1
  <2>3. page.rejected \in Nat BY <1>7, <1>11
  <2>4. page.token \in Nat \cup {NoToken} BY <1>7, <1>8
  <2>5. page.total \in Nat \cup {NoTotal} BY <1>2, <1>7
  <2>6. QED BY <2>2, <2>3, <2>4, <2>5 DEF PageTyped
<1>17. QED BY <1>1, <1>15, <1>16

(* How far a listing that has read l items of P stands, with the records.  *)
Stands(P, a, l, records) ==
    \/ Cardinality(records) < l
    \/ /\ records = Part(P, 1, l)
       /\ Part(P, 1, Len(P)) \in history
       /\ Became(P, a, l, api.playlist, api.changes)

(* Reading one page further.                                               *)
LEMMA ReadsOn ==
  ASSUME NEW P \in Seq(Items), NEW a \in Nat, NEW k \in 1 .. Len(P) - 1,
         NEW records, IsFiniteSet(records), Stands(P, a, k, records),
         NEW Q \in Seq(Items), Q = api.playlist, Len(Q) = Len(P),
         api.changes \in Nat, api.changes < 4, NEW l \in Nat, k < l, l <= Len(P)
  PROVE  Stands(P, a, l, records \cup Part(Q, k + 1, l))
<1>1. Len(P) \in Nat /\ k \in Nat /\ 1 <= k OBVIOUS
<1>2. CASE Cardinality(records) < k
  <2>1. PICK m, n, T : m = k - 1 /\ n = l - k /\ T = Part(Q, k + 1, l) OBVIOUS
  <2>2. IsFiniteSet(T) /\ Cardinality(T) <= n
    <3>1. PICK i : i = k + 1 OBVIOUS
    <3>2. i \in Int /\ l \in Int /\ i <= l + 1 /\ l - i + 1 = n BY <1>1, <2>1, <3>1
    <3>3. IsFiniteSet(Part(Q, i, l)) /\ Cardinality(Part(Q, i, l)) <= l - i + 1
      BY <3>2, PartCounts
    <3>4. QED BY <2>1, <3>1, <3>2, <3>3
  <2>3. Cardinality(records) \in Nat BY FS_CardinalityType
  <2>4. m \in Int /\ n \in Int /\ Cardinality(records) <= m /\ m + n = l - 1
    BY <1>1, <1>2, <2>1, <2>3
  <2>5. /\ Cardinality(records \cup T) \in Nat
        /\ Cardinality(records \cup T) <= m + n
    BY <2>2, <2>4, UnionCounts
  <2>6. Cardinality(records \cup T) < l BY <2>4, <2>5
  <2>7. QED BY <2>1, <2>6 DEF Stands
<1>3. CASE /\ records = Part(P, 1, k)
           /\ Part(P, 1, Len(P)) \in history
           /\ Became(P, a, k, Q, api.changes)
  <2>1. CASE SameTail(P, Q, k) /\ (api.changes = a \/ api.changes = a + 2)
             /\ (api.changes = a => Q = P)
    <3>1. \A j \in k + 1 .. l : Q[j] = P[j] BY <1>1, <2>1 DEF SameTail
    <3>2. records \cup Part(Q, k + 1, l) = Part(P, 1, l)
      <4>1. k <= l /\ k \in Nat BY <1>1
      <4>2. Part(P, 1, k) \cup Part(P, k + 1, l) = Part(P, 1, l)
        BY <4>1, PartsJoin
      <4>3. Part(Q, k + 1, l) = Part(P, k + 1, l) BY <3>1 DEF Part
      <4>4. QED BY <1>3, <4>2, <4>3
    <3>3. SameTail(P, Q, l) BY <1>1, <2>1 DEF SameTail
    <3>4. Became(P, a, l, Q, api.changes)
      <4>1. CASE api.changes = a BY <2>1, <4>1 DEF Became
      <4>2. CASE api.changes = a + 2 BY <3>3, <4>2 DEF Became
      <4>3. QED BY <2>1, <4>1, <4>2
    <3>5. QED BY <1>3, <3>2, <3>4 DEF Stands
  <2>2. CASE Q[k + 1] = P[k]
    <3>1. Cardinality(Part(P, 1, k) \cup Part(Q, k + 1, l)) < l
      BY <1>1, <2>2, PartRepeats
    <3>2. QED BY <1>3, <3>1 DEF Stands
  <2>3. CASE api.changes = a /\ Q = P
    <3>1. SameTail(P, Q, k) BY <2>3 DEF SameTail
    <3>2. QED BY <2>1, <2>3, <3>1
  <2>4. CASE api.changes = a + 1 /\ (Longer(P, Q) \/ Shorter(P, Q))
    <3>1. Len(Q) = Len(P) + 1 \/ Len(Q) = Len(P) - 1 BY <2>4 DEF Longer, Shorter
    <3>2. QED BY <1>1, <3>1
  <2>5. CASE api.changes = a + 2 /\ (SameTail(P, Q, k) \/ Q[k + 1] = P[k])
    <3>1. api.changes # a BY <2>5
    <3>2. QED BY <2>1, <2>2, <2>5, <3>1
  <2>6. ~(api.changes >= 4) OBVIOUS
  <2>7. QED BY <1>3, <2>3, <2>4, <2>5, <2>6 DEF Became
<1>4. QED BY <1>2, <1>3 DEF Stands

(* Taking in a page keeps the listing sound, and a listing that ends       *)
(* without a remainder has read the playlist as it stood at some moment    *)
(* (ingest, finalize_uploads).                                             *)
LEMMA ListingIngests ==
  ASSUME SourceTyped, NEW h, Good(h), h.active, Listing(h),
         NEW edited \in BOOLEAN, NEW page, page = PlaylistPage(h, edited),
         PageDefect(h, page) = "none", NEW n, n = Committed(h, page)
  PROVE  /\ Listing(n)
         /\ /\ n.state = "complete" /\ Remainder(n) = 0
            /\ n.total # NoTotal /\ api.changes < 4
            => n.records \in history
<1> USE NoneAssumption
<1>1. PICK Q, k : Q = api.playlist /\ k = Offset(h) OBVIOUS
<1>2. /\ Q \in Seq(Items) /\ Len(Q) \in Nat /\ api.hidden \in Nat
      /\ api.changes \in Nat /\ api.reports \in BOOLEAN
      /\ Part(Q, 1, Len(Q)) \in history
  BY <1>1 DEF SourceTyped
<1>3. Typed(h) /\ CursorRestores(h) /\ h.state = "ready" BY DEF Good, Resumes
<1>4. h.cursor # NoToken => h.cursor \in Nat
  <2>1. h.seen \in Seq(Nat) BY <1>3 DEF Typed
  <2>2. \A x \in ToSet(h.seen) : x \in Nat BY <2>1 DEF ToSet
  <2>3. QED BY <1>3, <2>2 DEF CursorRestores
<1>5. k \in Nat /\ (h.cursor = NoToken => k = 0) /\ (h.cursor # NoToken => k = h.cursor)
  BY <1>1, <1>4 DEF Offset
<1>6. PageTyped(page) /\ \E l : Reads(page, Q, k, l) BY <1>1, <1>5, PlaylistPageReads
<1>7. PICK l : Reads(page, Q, k, l) BY <1>6
<1>8. TakesIn(h, page, n) BY <1>3, CommittedFields
<1>9. Fits(h, page, n.total, h.records \cup page.ids)
  <2>1. n.total = IF page.total = NoTotal THEN h.total ELSE page.total
    BY <1>8 DEF TakesIn
  <2>2. QED BY <1>3, <1>6, <2>1, NoDefect
<1>10. /\ n.records = h.records \cup Part(Q, k + 1, l)
       /\ n.cursor = page.token
       /\ page.token = NoToken => n.state = "complete"
       /\ page.token # NoToken => n.state = "ready"
  BY <1>3, <1>7, <1>8 DEF TakesIn, Reads
<1>11. /\ page.total = IF api.reports THEN Len(Q) + api.hidden ELSE NoTotal
       /\ n.total = IF page.total = NoTotal THEN h.total ELSE page.total
  BY <1>7, <1>8 DEF Reads, TakesIn
<1>12. /\ l \in Nat /\ l <= Len(Q) /\ (k < Len(Q) => k < l)
       /\ page.token = NoToken => l = Len(Q)
       /\ page.token # NoToken => page.token = l /\ k < l /\ l < Len(Q)
  BY <1>7 DEF Reads
<1>13. n.state = "ready" => n.cursor # NoToken BY <1>10
<1>14. ~api.reports => n.total = NoTotal BY <1>3, <1>11 DEF Listing
<1>15. CASE ~(api.reports /\ api.changes < 4)
  <2>1. Listing(n) BY <1>13, <1>14, <1>15 DEF Listing
  <2>2. QED BY <1>14, <1>15, <2>1
<1>16. CASE api.reports /\ api.changes < 4
  <2>1. page.total = Len(Q) + api.hidden /\ page.total \in Nat /\ page.total # NoTotal
    BY <1>2, <1>11, <1>16
  <2>2. n.total = Len(Q) + api.hidden /\ n.total \in Nat BY <1>11, <2>1
  <2>3. IsFiniteSet(n.records) /\ n.total >= Cardinality(n.records)
    <3>1. /\ IsFiniteSet(h.records \cup page.ids)
          /\ n.total = NoTotal \/ n.total >= Cardinality(h.records \cup page.ids)
      BY <1>9 DEF Fits
    <3>2. n.records = h.records \cup page.ids BY <1>8 DEF TakesIn
    <3>3. QED BY <2>2, <3>1, <3>2
  <2>4. Cardinality(n.records) \in Nat BY <2>3, FS_CardinalityType
  <2>5. \E P \in Seq(Items), a \in Nat : Len(P) = Len(Q) /\ Stands(P, a, l, n.records)
    <3>1. CASE h.cursor = NoToken
      <4>1. h.records = {} /\ k = 0 BY <1>3, <1>5, <3>1 DEF Listing
      <4>2. n.records = Part(Q, 1, l) BY <1>10, <4>1
      <4>3. Became(Q, api.changes, l, Q, api.changes) BY DEF Became
      <4>4. Stands(Q, api.changes, l, n.records) BY <1>1, <1>2, <4>2, <4>3 DEF Stands
      <4>5. QED BY <1>2, <4>4
    <3>2. CASE h.cursor # NoToken
      <4>1. PICK P \in Seq(Items), a \in Nat :
              /\ h.cursor \in 1 .. Len(P) - 1
              /\ h.total = Len(P) + api.hidden
              /\ \/ Doomed(h)
                 \/ /\ h.records = Part(P, 1, h.cursor)
                    /\ Part(P, 1, Len(P)) \in history
                    /\ Became(P, a, h.cursor, api.playlist, api.changes)
        BY <1>3, <1>16, <3>2 DEF Listing
      <4>2. h.cursor = k /\ Len(P) \in Nat BY <1>5, <3>2
      <4>3. h.total \in Nat /\ h.total # NoTotal BY <1>2, <4>1, <4>2
      <4>4. page.total = h.total BY <1>9, <2>1, <4>3 DEF Fits
      <4>5. Len(P) = Len(Q) BY <1>2, <2>1, <4>1, <4>2, <4>4
      <4>6. Stands(P, a, k, h.records) BY <4>1, <4>2 DEF Stands, Doomed
      <4>7. k \in 1 .. Len(P) - 1 /\ k < l /\ l <= Len(P)
        BY <1>2, <1>5, <1>12, <4>1, <4>2, <4>5
      <4>8. IsFiniteSet(h.records) BY <1>3 DEF Typed
      <4>9. Stands(P, a, l, h.records \cup Part(Q, k + 1, l))
        BY <1>1, <1>2, <1>12, <1>16, <4>5, <4>6, <4>7, <4>8, ReadsOn
      <4>10. QED BY <1>10, <4>5, <4>9
    <3>3. QED BY <3>1, <3>2
  <2>6. PICK P \in Seq(Items), a \in Nat : Len(P) = Len(Q) /\ Stands(P, a, l, n.records)
    BY <2>5
  <2>7. CASE page.token # NoToken
    <3>1. /\ n.cursor = l /\ l \in 1 .. Len(P) - 1 /\ n.total = Len(P) + api.hidden
      BY <1>2, <1>5, <1>10, <1>12, <2>2, <2>6, <2>7
    <3>2. \/ Doomed(n)
          \/ /\ n.records = Part(P, 1, n.cursor)
             /\ Part(P, 1, Len(P)) \in history
             /\ Became(P, a, n.cursor, api.playlist, api.changes)
      BY <2>6, <3>1 DEF Stands, Doomed
    <3>3. Listing(n) BY <1>13, <1>14, <3>1, <3>2 DEF Listing
    <3>4. n.state = "ready" BY <1>10, <2>7
    <3>5. QED BY <3>3, <3>4
  <2>8. CASE page.token = NoToken
    <3>1. n.state = "complete" /\ l = Len(P) BY <1>10, <1>12, <2>6, <2>8
    <3>2. Listing(n) BY <3>1 DEF Listing
    <3>3. ASSUME Remainder(n) = 0 PROVE n.records \in history
      <4>1. ~(Cardinality(n.records) < l)
        <5>1. n.total >= l BY <1>2, <1>12, <2>2, <2>6, <3>1
        <5>2. SUFFICES ASSUME Cardinality(n.records) < l PROVE FALSE OBVIOUS
        <5>3. Remainder(n) = n.total - Cardinality(n.records)
          BY <2>2, <2>3, <2>4 DEF Remainder
        <5>4. QED BY <1>12, <2>2, <2>4, <3>3, <5>1, <5>2, <5>3
      <4>2. QED BY <2>6, <3>1, <4>1 DEF Stands
    <3>4. QED BY <3>2, <3>3
  <2>9. QED BY <2>7, <2>8
<1>17. QED BY <1>15, <1>16
-----------------------------------------------------------------------------
(***************************************************************************)
(* What the steps of a run leave of harnesses, listings and coordinators.  *)
(***************************************************************************)

(* A step under one authority that leaves the source alone.                *)
Calm ==
    /\ UNCHANGED <<api, history>>
    /\ quota'.authority = quota.authority
    /\ artifact.channel # NoArtifact => artifact'.channel = artifact.channel
    /\ CountsWithin(quota.counts, quota'.counts)

(* The stage is bound to what it was given, and its input was issued.      *)
InputSound(s, lineage) ==
    /\ s = "videos.list" => IsFiniteSet(lineage)
    /\ s = Uploads => artifact.channel # NoArtifact /\ lineage = artifact.channel

LEMMA ListingStays ==
  ASSUME NEW h, Listing(h), UNCHANGED <<api, history>>
  PROVE  Listing(h)'
<1>1. api' = api /\ history' = history OBVIOUS
<1>2. QED BY <1>1 DEF Listing

LEMMA StageStays ==
  ASSUME NEW s, NEW h, NEW lineage, NEW a, StageSound(s, h, lineage, a), Calm
  PROVE  StageSound(s, h, lineage, a)'
<1> SUFFICES ASSUME h # NoHarness
             PROVE  /\ Good(h)
                    /\ s = "videos.list" => IsFiniteSet(lineage)
                    /\ s = Uploads => Listing(h)'
                    /\ s = Uploads /\ a = quota'.authority =>
                         artifact'.channel # NoArtifact /\ lineage = artifact'.channel
  BY DEF StageSound
<1>1. s = Uploads => Listing(h)'
  BY ListingStays DEF Calm, StageSound
<1>2. QED BY <1>1 DEF Calm, StageSound

LEMMA ProcStays ==
  ASSUME NEW p, ProcSound(p), Calm
  PROVE  ProcSound(p)'
<1>1. ASSUME NEW s \in Stages
      PROVE  StageSound(s, p.harness[s], p.lineage[s], p.authority)'
  <2>1. PICK h, l, a : h = p.harness[s] /\ l = p.lineage[s] /\ a = p.authority OBVIOUS
  <2>2. StageSound(s, h, l, a) BY <2>1 DEF ProcSound
  <2>3. StageSound(s, h, l, a)' BY <2>2, StageStays
  <2>4. QED BY <2>1, <2>3
<1>2. p.authority <= quota'.authority BY DEF Calm, ProcSound
<1>3. QED BY <1>1, <1>2 DEF ProcSound

(* One coordinator changes and the others stay as they are.                *)
LEMMA ProcsChange ==
  ASSUME ProcsSound, Calm, NEW c \in Coordinators, NEW r,
         proc' = [proc EXCEPT ![c] = r], r # NoProc => ProcSound(r)'
  PROVE  ProcsSound'
<1>1. proc = [d \in Coordinators |-> proc[d]] BY DEF ProcsSound
<1>2. /\ proc' = [d \in Coordinators |-> proc'[d]]
      /\ proc'[c] = r /\ \A d \in Coordinators : d # c => proc'[d] = proc[d]
  BY <1>1
<1>3. ASSUME NEW d \in Coordinators, proc'[d] # NoProc
      PROVE  ProcSound(proc[d])'
  <2>1. PICK p : p = proc'[d] OBVIOUS
  <2>2. CASE d = c BY <1>2, <1>3, <2>2
  <2>3. CASE d # c
    <3>1. p = proc[d] /\ p # NoProc BY <1>2, <1>3, <2>1, <2>3
    <3>2. ProcSound(p) BY <3>1 DEF ProcsSound
    <3>3. ProcSound(p)' BY <3>2, ProcStays
    <3>4. QED BY <2>1, <3>3
  <2>4. QED BY <2>2, <2>3
<1>4. QED BY <1>2, <1>3 DEF ProcsSound

LEMMA ProcsStay ==
  ASSUME ProcsSound, Calm, UNCHANGED proc
  PROVE  ProcsSound'
<1>1. ASSUME NEW d \in Coordinators, proc'[d] # NoProc
      PROVE  ProcSound(proc[d])'
  <2>1. PICK p : p = proc[d] OBVIOUS
  <2>2. ProcSound(p) BY <1>1, <2>1 DEF ProcsSound
  <2>3. ProcSound(p)' BY <2>2, ProcStays
  <2>4. QED BY <2>1, <2>3
<1>2. QED BY <1>1 DEF ProcsSound

(* A coordinator whose stage s now holds the harness n, bound to l.        *)
Moved(p, s, n, l) ==
    [authority |-> p.authority, harness |-> [p.harness EXCEPT ![s] = n],
     lineage |-> [p.lineage EXCEPT ![s] = l]]

LEMMA MovedIsSound ==
  ASSUME NEW p, ProcSound(p), NEW s \in Stages, NEW n, NEW l, Calm,
         StageSound(s, n, l, p.authority)'
  PROVE  ProcSound(Moved(p, s, n, l))'
<1>1. PICK r : r = Moved(p, s, n, l) OBVIOUS
<1>2. /\ r = [authority |-> r.authority, harness |-> r.harness, lineage |-> r.lineage]
      /\ r.authority = p.authority
      /\ r.harness = [p.harness EXCEPT ![s] = n]
      /\ r.lineage = [p.lineage EXCEPT ![s] = l]
  BY <1>1 DEF Moved
<1>3. /\ p.harness = [t \in Stages |-> p.harness[t]]
      /\ p.lineage = [t \in Stages |-> p.lineage[t]]
      /\ p.authority \in Nat
  BY DEF ProcSound
<1>4. /\ r.harness = [t \in Stages |-> r.harness[t]]
      /\ r.lineage = [t \in Stages |-> r.lineage[t]]
      /\ r.harness[s] = n /\ r.lineage[s] = l
      /\ \A t \in Stages : t # s =>
           r.harness[t] = p.harness[t] /\ r.lineage[t] = p.lineage[t]
  BY <1>2, <1>3
<1>5. ProcSound(p)' BY ProcStays
<1>6. \A t \in Stages : StageSound(t, r.harness[t], r.lineage[t], r.authority)'
  <2>1. TAKE t \in Stages
  <2>2. CASE t = s BY <1>2, <1>4, <2>2
  <2>3. CASE t # s BY <1>2, <1>4, <1>5, <2>3 DEF ProcSound
  <2>4. QED BY <2>2, <2>3
<1>7. r.authority \in Nat /\ r.authority <= quota'.authority
  BY <1>2, <1>3, <1>5 DEF ProcSound
<1>8. ProcSound(r)' BY <1>2, <1>4, <1>6, <1>7 DEF ProcSound
<1>9. QED BY <1>1, <1>8

(* The same, as the actions write it.                                      *)
Moves(c, s, n, l) ==
    \/ proc' = [proc EXCEPT ![c].harness[s] = n] /\ l = proc[c].lineage[s]
    \/ proc' = [[proc EXCEPT ![c].lineage[s] = l] EXCEPT ![c].harness[s] = n]
    \/ proc' = [proc EXCEPT ![c].harness[s] = n, ![c].lineage[s] = l]

LEMMA MovesAre ==
  ASSUME ProcsSound, NEW c \in Coordinators, proc[c] # NoProc,
         NEW s \in Stages, NEW n, NEW l, Moves(c, s, n, l)
  PROVE  proc' = [proc EXCEPT ![c] = Moved(proc[c], s, n, l)]
<1>1. PICK p : p = proc[c] OBVIOUS
<1>2. /\ proc = [d \in Coordinators |-> proc[d]]
      /\ p = [authority |-> p.authority, harness |-> p.harness, lineage |-> p.lineage]
      /\ p.lineage = [t \in Stages |-> p.lineage[t]]
  BY <1>1 DEF ProcsSound, ProcSound
<1>3. [p.lineage EXCEPT ![s] = p.lineage[s]] = p.lineage BY <1>2
<1>4. [p EXCEPT !.harness[s] = n] = Moved(p, s, n, p.lineage[s])
  <2>1. [p EXCEPT !.harness[s] = n]
          = [authority |-> p.authority, harness |-> [p.harness EXCEPT ![s] = n],
             lineage |-> p.lineage]
    BY <1>2
  <2>2. QED BY <1>3, <2>1 DEF Moved
<1>5. [p EXCEPT !.lineage[s] = l]
        = [authority |-> p.authority, harness |-> p.harness,
           lineage |-> [p.lineage EXCEPT ![s] = l]]
  BY <1>2
<1>6. [[p EXCEPT !.lineage[s] = l] EXCEPT !.harness[s] = n] = Moved(p, s, n, l)
  <2>1. PICK q : q = [p EXCEPT !.lineage[s] = l] OBVIOUS
  <2>2. PICK m : m = [p.lineage EXCEPT ![s] = l] OBVIOUS
  <2>3. q = [authority |-> p.authority, harness |-> p.harness, lineage |-> m]
    BY <1>5, <2>1, <2>2
  <2>4. [q EXCEPT !.harness[s] = n]
          = [authority |-> p.authority, harness |-> [p.harness EXCEPT ![s] = n],
             lineage |-> m]
    BY <2>3
  <2>5. QED BY <2>1, <2>2, <2>4 DEF Moved
<1>7. [[p EXCEPT !.harness[s] = n] EXCEPT !.lineage[s] = l] = Moved(p, s, n, l)
  <2>1. PICK q : q = [p EXCEPT !.harness[s] = n] OBVIOUS
  <2>2. q = [authority |-> p.authority, harness |-> [p.harness EXCEPT ![s] = n],
             lineage |-> p.lineage]
    BY <1>2, <2>1
  <2>3. [q EXCEPT !.lineage[s] = l]
          = [authority |-> p.authority, harness |-> [p.harness EXCEPT ![s] = n],
             lineage |-> [p.lineage EXCEPT ![s] = l]]
    BY <2>2
  <2>4. QED BY <2>1, <2>3 DEF Moved
<1>8. [proc EXCEPT ![c].harness[s] = n] = [proc EXCEPT ![c] = [p EXCEPT !.harness[s] = n]]
  BY <1>1, <1>2
<1>9. [[proc EXCEPT ![c].lineage[s] = l] EXCEPT ![c].harness[s] = n]
        = [proc EXCEPT ![c] = [[p EXCEPT !.lineage[s] = l] EXCEPT !.harness[s] = n]]
  <2>1. PICK q : q = [p EXCEPT !.lineage[s] = l] OBVIOUS
  <2>2. PICK f : f = [proc EXCEPT ![c] = q] OBVIOUS
  <2>3. [proc EXCEPT ![c].lineage[s] = l] = f BY <1>1, <1>2, <2>1, <2>2
  <2>4. f[c] = q BY <1>2, <2>2
  <2>5. PICK g : g = [q EXCEPT !.harness[s] = n] OBVIOUS
  <2>6. [f EXCEPT ![c].harness[s] = n] = [f EXCEPT ![c] = g]
    BY <1>2, <2>2, <2>4, <2>5
  <2>7. [f EXCEPT ![c] = g] = [proc EXCEPT ![c] = g] BY <1>2, <2>2
  <2>8. QED BY <2>1, <2>3, <2>5, <2>6, <2>7
<1>10. [proc EXCEPT ![c].harness[s] = n, ![c].lineage[s] = l]
         = [proc EXCEPT ![c] = [[p EXCEPT !.harness[s] = n] EXCEPT !.lineage[s] = l]]
  <2>1. PICK q : q = [p EXCEPT !.harness[s] = n] OBVIOUS
  <2>2. PICK f : f = [proc EXCEPT ![c] = q] OBVIOUS
  <2>3. [proc EXCEPT ![c].harness[s] = n] = f BY <1>1, <1>2, <2>1, <2>2
  <2>4. f[c] = q BY <1>2, <2>2
  <2>5. PICK g : g = [q EXCEPT !.lineage[s] = l] OBVIOUS
  <2>6. [f EXCEPT ![c].lineage[s] = l] = [f EXCEPT ![c] = g]
    BY <1>2, <2>2, <2>4, <2>5
  <2>7. [f EXCEPT ![c] = g] = [proc EXCEPT ![c] = g] BY <1>2, <2>2
  <2>8. [proc EXCEPT ![c].harness[s] = n, ![c].lineage[s] = l]
          = [[proc EXCEPT ![c].harness[s] = n] EXCEPT ![c].lineage[s] = l]
    OBVIOUS
  <2>9. QED BY <2>1, <2>3, <2>5, <2>6, <2>7, <2>8
<1>11. PICK m : m = Moved(p, s, n, l) OBVIOUS
<1>12. proc' = [proc EXCEPT ![c] = m]
  <2>1. CASE proc' = [proc EXCEPT ![c].harness[s] = n] /\ l = proc[c].lineage[s]
    BY <1>1, <1>4, <1>8, <1>11, <2>1
  <2>2. CASE proc' = [[proc EXCEPT ![c].lineage[s] = l] EXCEPT ![c].harness[s] = n]
    BY <1>6, <1>9, <1>11, <2>2
  <2>3. CASE proc' = [proc EXCEPT ![c].harness[s] = n, ![c].lineage[s] = l]
    BY <1>7, <1>10, <1>11, <2>3
  <2>4. QED BY <2>1, <2>2, <2>3 DEF Moves
<1>13. QED BY <1>1, <1>11, <1>12

(* What next_request leaves of a harness that may ask.                     *)
LEMMA AskLeaves ==
  ASSUME NEW c, NEW s \in Stages, NEW h, NEW p, AskWith(c, s, h, p),
         Good(h), CanAsk(h)
  PROVE  \E n : /\ proc' = [p EXCEPT ![c].harness[s] = n]
                /\ Good(n) /\ (Listing(h) => Listing(n))
<1>1. PICK refusal : refusal = RequestRefusal(h, Bounds, FALSE) OBVIOUS
<1>2. Typed(h) BY DEF Good
<1>3. CASE proc' = [p EXCEPT ![c].harness[s] = Stopped(h, RefusalState(refusal), refusal)]
  <2>1. RefusalState(refusal) \in States \ {"ready"} BY DEF RefusalState, States
  <2>2. PICK n : n = Stopped(h, RefusalState(refusal), refusal) OBVIOUS
  <2>3. Good(n) /\ Listing(n) BY <1>2, <2>1, <2>2, StoppedIsGood
  <2>4. QED BY <1>3, <2>2, <2>3
<1>4. CASE proc' = [p EXCEPT ![c].harness[s] = Stopped(h, "blocked", "quota_exhausted")]
  <2>1. "blocked" \in States \ {"ready"} BY DEF States
  <2>2. PICK n : n = Stopped(h, "blocked", "quota_exhausted") OBVIOUS
  <2>3. Good(n) /\ Listing(n) BY <1>2, <2>1, <2>2, StoppedIsGood
  <2>4. QED BY <1>4, <2>2, <2>3
<1>5. CASE refusal = "none" /\ proc' = [p EXCEPT ![c].harness[s] = Asked(h)]
  <2>1. PICK n : n = Asked(h) OBVIOUS
  <2>2. Good(n) /\ (Listing(h) => Listing(n)) BY <1>1, <1>5, <2>1, AskedIsGood
  <2>3. QED BY <1>5, <2>1, <2>2
<1>6. CASE proc' = [p EXCEPT ![c].harness[s] = h] BY <1>6
<1>7. QED BY <1>1, <1>3, <1>4, <1>5, <1>6 DEF AskWith

(* The inputs a stage may begin with were issued by this authority.        *)
LEMMA InputsAreSound ==
  ASSUME IssuedSound, NEW c, NEW s \in Stages, NEW l \in StageInputs(c, s)
  PROVE  InputSound(s, l)
<1>1. CASE s = "channels.list" BY <1>1 DEF InputSound, Uploads
<1>2. CASE s = "playlistItems.list"
  BY <1>2 DEF StageInputs, IssuedChannel, InputSound, Uploads
<1>3. CASE s = "videos.list"
  <2>1. l \in VideoBatches BY <1>3 DEF StageInputs
  <2>2. artifact.uploads # NoArtifact /\ l \in SUBSET artifact.uploads.videos
    BY <2>1 DEF VideoBatches
  <2>3. PICK videos : videos = artifact.uploads.videos OBVIOUS
  <2>4. IsFiniteSet(videos) BY <2>2, <2>3 DEF IssuedSound
  <2>5. IsFiniteSet(l) BY <2>2, <2>3, <2>4, FS_Subset
  <2>6. QED BY <1>3, <2>5 DEF InputSound, Uploads
<1>4. QED BY <1>1, <1>2, <1>3 DEF Stages

LEMMA StageMoves ==
  ASSUME ProcsSound, Calm, NEW c \in Coordinators, proc[c] # NoProc,
         NEW s \in Stages, NEW n, NEW l, StageSound(s, n, l, proc[c].authority),
         Moves(c, s, n, l)
  PROVE  ProcsSound'
<1>1. PICK p, a, r : p = proc[c] /\ a = p.authority /\ r = Moved(p, s, n, l) OBVIOUS
<1>2. StageSound(s, n, l, a) BY <1>1
<1>3. StageSound(s, n, l, a)' BY <1>2, StageStays
<1>4. ProcSound(p) BY <1>1 DEF ProcsSound
<1>5. ProcSound(r)' BY <1>1, <1>3, <1>4, MovedIsSound
<1>6. proc' = [proc EXCEPT ![c] = r]
  <2>1. proc' = [proc EXCEPT ![c] = Moved(proc[c], s, n, l)] BY MovesAre
  <2>2. QED BY <1>1, <2>1
<1>7. QED BY <1>5, <1>6, ProcsChange

(* A harness at work: what is known of the stage that holds it.            *)
LEMMA HeldIsSound ==
  ASSUME ProcsSound, NEW c \in Coordinators, proc[c] # NoProc, NEW s \in Stages
  PROVE  StageSound(s, proc[c].harness[s], proc[c].lineage[s], proc[c].authority)
BY DEF ProcsSound, ProcSound

-----------------------------------------------------------------------------
LEMMA SavedStays ==
  ASSUME SavedSound, RowsTyped, RowsTyped', Calm, UNCHANGED saved
  PROVE  SavedSound'
<1> SUFFICES ASSUME saved # NoCheckpoint PROVE SavedSound' BY DEF SavedSound
<1>1. PICK cp : cp = saved OBVIOUS
<1>2. /\ saved' = cp /\ cp # NoCheckpoint /\ cp.stage \in Stages
      /\ Good(cp.harness) /\ cp.harness.state = "ready" /\ ~cp.harness.active
      /\ cp.stage = Uploads => Listing(cp.harness)
  BY <1>1 DEF SavedSound
<1>3. cp.stage = Uploads => Listing(cp.harness)'
  <2>1. PICK h : h = cp.harness OBVIOUS
  <2>2. Listing(h) => Listing(h)' BY ListingStays DEF Calm
  <2>3. QED BY <1>2, <2>1, <2>2
<1>4. SavedPaid'
  <2>1. /\ cp.quota \in Authority /\ Consumed(cp.quota) <= MaxUnits
        /\ cp.quota.authority <= quota.authority
        /\ cp.quota.authority = quota.authority =>
             CountsWithin(cp.quota.counts, quota.counts)
    BY <1>1 DEF SavedSound, SavedPaid
  <2>2. /\ cp.quota.counts \in [Stages -> Nat] /\ quota.counts \in [Stages -> Nat]
        /\ quota'.counts \in [Stages -> Nat]
    BY <2>1 DEF RowsTyped, Authority
  <2>3. CountsWithin(quota.counts, quota'.counts) /\ quota'.authority = quota.authority
    BY DEF Calm
  <2>4. cp.quota.authority = quota'.authority =>
          CountsWithin(cp.quota.counts, quota'.counts)
    BY <2>1, <2>2, <2>3 DEF CountsWithin
  <2>5. QED BY <1>2, <2>1, <2>3, <2>4 DEF SavedPaid, Consumed
<1>5. QED BY <1>2, <1>3, <1>4 DEF SavedSound

LEMMA IssuedStays ==
  ASSUME IssuedSound, IssuedInventoryIsWhole, UNCHANGED <<api, history, artifact>>
  PROVE  IssuedSound' /\ IssuedInventoryIsWhole'
BY DEF IssuedSound, IssuedInventoryIsWhole

LEMMA SourceStays ==
  ASSUME SourceTyped, UNCHANGED <<api, history>>
  PROVE  SourceTyped'
BY DEF SourceTyped

(* A calm step that issues nothing and saves nothing.                      *)
LEMMA CalmKeeps ==
  ASSUME RInv, IInv', Calm, UNCHANGED <<artifact, saved>>, ProcsSound'
  PROVE  RInv'
<1>1. SourceTyped' BY SourceStays DEF RInv, Calm
<1>2. SavedSound' BY SavedStays DEF RInv, IInv
<1>3. IssuedSound' /\ IssuedInventoryIsWhole' BY IssuedStays DEF RInv, Calm
<1>4. QED BY <1>1, <1>2, <1>3 DEF RInv

-----------------------------------------------------------------------------
(* Coordinators that ask.                                                  *)
LEMMA BeginKeeps ==
  ASSUME RInv, IInv', Calm, NEW c \in Coordinators, NEW s \in Stages, Begin(c, s)
  PROVE  RInv'
<1>1. PICK l \in StageInputs(c, s) :
        AskWith(c, s, NewHarness, [proc EXCEPT ![c].lineage[s] = l])
  BY DEF Begin
<1>2. PICK h : h = NewHarness OBVIOUS
<1>3. Good(h) /\ Listing(h) /\ CanAsk(h)
  <2>1. CanAsk(NewHarness) BY DEF CanAsk, NewHarness
  <2>2. QED BY <1>2, <2>1, NewIsGood
<1>4. PICK n : /\ proc' = [[proc EXCEPT ![c].lineage[s] = l] EXCEPT ![c].harness[s] = n]
               /\ Good(n) /\ Listing(n)
  <2>1. PICK p : p = [proc EXCEPT ![c].lineage[s] = l] OBVIOUS
  <2>2. AskWith(c, s, h, p) BY <1>1, <1>2, <2>1
  <2>3. PICK n : proc' = [p EXCEPT ![c].harness[s] = n] /\ Good(n) /\ Listing(n)
    BY <1>3, <2>2, AskLeaves
  <2>4. QED BY <2>1, <2>3
<1>5. proc[c] # NoProc /\ ProcsSound BY DEF Begin, Running, RInv
<1>6. Moves(c, s, n, l) BY <1>4, <1>5 DEF Moves
<1>7. InputSound(s, l) BY InputsAreSound DEF RInv
<1>8. StageSound(s, n, l, proc[c].authority) BY <1>4, <1>7 DEF StageSound, InputSound
<1>9. ProcsSound' BY <1>5, <1>6, <1>8, StageMoves
<1>10. QED BY <1>9, CalmKeeps DEF Begin

LEMMA NextRequestKeeps ==
  ASSUME RInv, IInv', Calm, NEW c \in Coordinators, NEW s \in Stages, NextRequest(c, s)
  PROVE  RInv'
<1>1. PICK h, l : h = proc[c].harness[s] /\ l = proc[c].lineage[s] OBVIOUS
<1>2. /\ h # NoHarness /\ CanAsk(h) /\ AskWith(c, s, h, proc)
      /\ proc[c] # NoProc /\ ProcsSound
  BY <1>1 DEF NextRequest, Running, RInv
<1>3. StageSound(s, h, l, proc[c].authority) BY <1>1, <1>2, HeldIsSound
<1>4. Good(h) BY <1>2, <1>3 DEF StageSound
<1>5. PICK n : /\ proc' = [proc EXCEPT ![c].harness[s] = n]
               /\ Good(n) /\ (Listing(h) => Listing(n))
  BY <1>2, <1>4, AskLeaves
<1>6. Moves(c, s, n, l) BY <1>1, <1>2, <1>5 DEF Moves
<1>7. StageSound(s, n, l, proc[c].authority) BY <1>2, <1>3, <1>5 DEF StageSound
<1>8. ProcsSound' BY <1>2, <1>6, <1>7, StageMoves
<1>9. QED BY <1>8, CalmKeeps DEF NextRequest

LEMMA RecordRetryKeeps ==
  ASSUME RInv, IInv', Calm, NEW c \in Coordinators, NEW s \in Stages, RecordRetry(c, s)
  PROVE  RInv'
<1>1. PICK h, l, n : /\ h = proc[c].harness[s] /\ l = proc[c].lineage[s]
                     /\ n = Retried(h, Bounds)
  OBVIOUS
<1>2. /\ h # NoHarness /\ h.active /\ proc[c] # NoProc /\ ProcsSound
      /\ proc' = [proc EXCEPT ![c].harness[s] = n]
  BY <1>1 DEF RecordRetry, SetHarness, Running, RInv
<1>3. StageSound(s, h, l, proc[c].authority) BY <1>1, <1>2, HeldIsSound
<1>4. Good(h) BY <1>2, <1>3 DEF StageSound
<1>5. Good(n) /\ (Listing(h) => Listing(n)) BY <1>1, <1>2, <1>4, RetriedIsGood
<1>6. Moves(c, s, n, l) BY <1>1, <1>2 DEF Moves
<1>7. StageSound(s, n, l, proc[c].authority) BY <1>2, <1>3, <1>5 DEF StageSound
<1>8. ProcsSound' BY <1>2, <1>6, <1>7, StageMoves
<1>9. QED BY <1>8, CalmKeeps DEF RecordRetry

(* Coordinators that come and go.                                          *)
LEMMA CrashKeeps ==
  ASSUME RInv, IInv', Calm, NEW c \in Coordinators,
         proc' = [proc EXCEPT ![c] = NoProc], UNCHANGED <<artifact, saved>>
  PROVE  RInv'
<1>1. PICK r : r = NoProc OBVIOUS
<1>2. proc' = [proc EXCEPT ![c] = r] /\ (r # NoProc => ProcSound(r)') BY <1>1
<1>3. ProcsSound' BY <1>2, ProcsChange DEF RInv
<1>4. QED BY <1>3, CalmKeeps

LEMMA StartKeeps ==
  ASSUME RInv, IInv', Calm, NEW c \in Coordinators, Start(c)
  PROVE  RInv'
<1>1. PICK r : r = [authority |-> quota.authority,
                    harness |-> [s \in Stages |-> NoHarness],
                    lineage |-> [s \in Stages |-> NoArtifact]]
  OBVIOUS
<1>2. proc' = [proc EXCEPT ![c] = r] BY <1>1 DEF Start
<1>3. /\ r = [authority |-> r.authority, harness |-> r.harness, lineage |-> r.lineage]
      /\ r.harness = [s \in Stages |-> r.harness[s]]
      /\ r.lineage = [s \in Stages |-> r.lineage[s]]
      /\ r.authority = quota.authority
      /\ \A s \in Stages : r.harness[s] = NoHarness
  BY <1>1
<1>4. quota.authority \in Nat /\ quota'.authority = quota.authority
  BY DEF RInv, IInv, RowsTyped, Authority, Calm
<1>5. ProcSound(r)' BY <1>3, <1>4 DEF ProcSound, StageSound
<1>6. ProcsSound' BY <1>2, <1>5, ProcsChange DEF RInv
<1>7. QED BY <1>6, CalmKeeps DEF Start

LEMMA ResumeKeeps ==
  ASSUME RInv, IInv', Calm, NEW c \in Coordinators, NEW s \in Stages, Resume(c, s)
  PROVE  RInv'
<1>1. PICK n, l : n = saved.harness /\ l = saved.lineage OBVIOUS
<1>2. /\ saved # NoCheckpoint /\ saved.stage = s /\ l \in StageInputs(c, s)
      /\ proc[c] # NoProc /\ ProcsSound
      /\ proc' = [proc EXCEPT ![c].harness[s] = n, ![c].lineage[s] = l]
  BY <1>1 DEF Resume, Running, RInv
<1>3. Good(n) /\ (s = Uploads => Listing(n)) BY <1>1, <1>2 DEF RInv, SavedSound
<1>4. InputSound(s, l) BY <1>2, InputsAreSound DEF RInv
<1>5. Moves(c, s, n, l) BY <1>2 DEF Moves
<1>6. StageSound(s, n, l, proc[c].authority) BY <1>3, <1>4 DEF StageSound, InputSound
<1>7. ProcsSound' BY <1>2, <1>5, <1>6, StageMoves
<1>8. QED BY <1>7, CalmKeeps DEF Resume

LEMMA SaveKeeps ==
  ASSUME RInv, IInv', Calm, NEW c \in Coordinators, NEW s \in Stages,
         SaveCheckpoint(c, s)
  PROVE  RInv'
<1>1. PICK h, cp, q : /\ h = proc[c].harness[s] /\ q = quota
                      /\ cp = [stage |-> s, quota |-> q, lineage |-> Lineage(c, s),
                               harness |-> h]
  OBVIOUS
<1>2. /\ h # NoHarness /\ ~h.active /\ h.state = "ready" /\ saved' = cp
      /\ proc[c] # NoProc /\ ProcsSound
      /\ UNCHANGED <<api, history, quota, artifact, proc>>
  BY <1>1 DEF SaveCheckpoint, CanCheckpoint, Running, RInv
<1>3. Good(h) /\ (s = Uploads => Listing(h)) BY <1>1, <1>2, HeldIsSound DEF StageSound
<1>4. Listing(h) => Listing(h)' BY ListingStays DEF Calm
<1>5. cp.stage = s /\ cp.quota = q /\ cp.harness = h BY <1>1
<1>6. SavedPaid'
  <2>1. /\ q \in Authority /\ q.counts \in [Stages -> Nat] /\ q.authority \in Nat
        /\ Consumed(q) <= MaxUnits
    BY <1>1 DEF RInv, IInv, RowsTyped, Authority, QuotaCoversRequests
  <2>2. q.authority <= q.authority /\ CountsWithin(q.counts, q.counts)
    BY <2>1 DEF CountsWithin
  <2>3. quota' = q /\ saved'.quota = q BY <1>1, <1>2, <1>5
  <2>4. QED BY <2>1, <2>2, <2>3 DEF SavedPaid, Consumed
<1>7. SavedSound' BY <1>2, <1>3, <1>4, <1>5, <1>6 DEF SavedSound
<1>8. ProcsSound' BY <1>2, ProcsStay
<1>9. SourceTyped' BY SourceStays DEF RInv, Calm
<1>10. IssuedSound' /\ IssuedInventoryIsWhole' BY <1>2, IssuedStays DEF RInv
<1>11. QED BY <1>7, <1>8, <1>9, <1>10 DEF RInv
-----------------------------------------------------------------------------
(***************************************************************************)
(* Answers and what taking them in leaves.                                 *)
(***************************************************************************)
LEMMA ChannelPageTyped ==
  ASSUME NEW ch
  PROVE  PageTyped(ChannelPage(ch))
<1>1. PICK page : page = ChannelPage(ch) OBVIOUS
<1>2. /\ page.kind = "page" /\ page.token = NoToken /\ page.total = 1
      /\ page.rejected = 0 /\ page.ids = {ch}
  BY <1>1 DEF ChannelPage
<1>3. IsFiniteSet(page.ids) BY <1>2, FS_Singleton
<1>4. QED BY <1>1, <1>2, <1>3 DEF PageTyped

LEMMA VideosPageTyped ==
  ASSUME NEW batch, IsFiniteSet(batch), NEW items
  PROVE  PageTyped(VideosPage(batch, items))
<1>1. PICK page : page = VideosPage(batch, items) OBVIOUS
<1>2. PICK T : T = {<<v, Availability(items[v])>> : v \in batch} OBVIOUS
<1>3. PICK f : f = [v \in batch |-> <<v, Availability(items[v])>>] OBVIOUS
<1>4. f \in Surjection(batch, T) BY <1>2, <1>3 DEF Surjection
<1>5. IsFiniteSet(T) BY <1>4, FS_Surjection
<1>6. /\ page.kind = "page" /\ page.token = NoToken /\ page.rejected = 0
      /\ page.total = Cardinality(batch) /\ page.ids = T
  BY <1>1, <1>2 DEF VideosPage
<1>7. Cardinality(batch) \in Nat BY FS_CardinalityType
<1>8. QED BY <1>1, <1>5, <1>6, <1>7 DEF PageTyped

(* A page that names the token just followed is refused as a loop.         *)
LEMMA SameTokenLoops ==
  ASSUME NEW h, Good(h), h.active, h.cursor # NoToken,
         NEW first, PageTyped(first),
         first = [kind |-> first.kind, ids |-> first.ids, edited |-> first.edited,
                  rejected |-> first.rejected, token |-> first.token,
                  total |-> first.total],
         NEW page, page = [first EXCEPT !.token = h.cursor]
  PROVE  PageTyped(page) /\ PageDefect(h, page) # "none"
<1>1. Typed(h) /\ CursorRestores(h) BY DEF Good, Resumes
<1>2. h.cursor \in ToSet(h.seen) BY <1>1 DEF CursorRestores
<1>3. h.cursor \in Nat
  <2>1. h.seen \in Seq(Nat) BY <1>1 DEF Typed
  <2>2. \A x \in ToSet(h.seen) : x \in Nat BY <2>1 DEF ToSet
  <2>3. QED BY <1>2, <2>2
<1>4. /\ page.token = h.cursor /\ page.kind = first.kind /\ page.ids = first.ids
      /\ page.rejected = first.rejected /\ page.total = first.total
  OBVIOUS
<1>5. PageTyped(page) BY <1>3, <1>4 DEF PageTyped
<1>6. page.token # NoToken /\ page.token \in ToSet(h.seen) BY <1>2, <1>4
<1>7. PageDefect(h, page) # "none"
  <2>1. SUFFICES ASSUME PageDefect(h, page) = "none" PROVE FALSE OBVIOUS
  <2>2. ~(page.token # NoToken /\ page.token \in ToSet(h.seen))
    BY <2>1 DEF PageDefect
  <2>3. QED BY <1>6, <2>2
<1>8. QED BY <1>5, <1>7

(* What ingest leaves of the harness, and of a listing that it completes.  *)
Whole(n) ==
    n.state = "complete" /\ Remainder(n) = 0 /\ n.total # NoTotal /\ api.changes < 4
      => n.records \in history

LEMMA UploadsIngests ==
  ASSUME SourceTyped, NEW h, Good(h), h.active, Listing(h), NEW page,
         \/ page \in Stops
         \/ \E edited \in BOOLEAN : page = PlaylistPage(h, edited)
         \/ h.cursor # NoToken /\ page = [PlaylistPage(h, FALSE) EXCEPT !.token = h.cursor],
         NEW n, n = Ingested(h, page)
  PROVE  Good(n) /\ Listing(n) /\ Whole(n)
<1> USE InputsAssumption
<1>1. Typed(h) BY DEF Good
<1>2. Offset(h) \in Nat
  <2>1. h.cursor # NoToken => h.cursor \in ToSet(h.seen)
    BY DEF Good, Resumes, CursorRestores
  <2>2. h.seen \in Seq(Nat) BY <1>1 DEF Typed
  <2>3. \A x \in ToSet(h.seen) : x \in Nat BY <2>2 DEF ToSet
  <2>4. QED BY <2>1, <2>3 DEF Offset
<1>3. CASE page \in Stops
  <2>1. page.kind \in {"blocked", "changed"} BY <1>3
  <2>2. n = Stopped(h, page.kind, page.reason) BY <2>1 DEF Ingested
  <2>3. page.kind \in States \ {"ready"} BY <2>1 DEF States
  <2>4. Good(n) /\ Listing(n) /\ n.state = page.kind BY <1>1, <2>2, <2>3, StoppedIsGood
  <2>5. QED BY <2>1, <2>4 DEF Whole
<1>4. CASE PageTyped(page) /\ PageDefect(h, page) # "none"
  <2>1. n = Stopped(h, "changed", PageDefect(h, page))
    BY <1>4 DEF Ingested, PageTyped
  <2>2. "changed" \in States \ {"ready"} BY DEF States
  <2>3. Good(n) /\ Listing(n) /\ n.state = "changed" BY <1>1, <2>1, <2>2, StoppedIsGood
  <2>4. QED BY <2>3 DEF Whole
<1>5. CASE /\ PageTyped(page) /\ PageDefect(h, page) = "none"
           /\ \E edited \in BOOLEAN : page = PlaylistPage(h, edited)
  <2>1. n = Committed(h, page) BY <1>5 DEF Ingested, PageTyped
  <2>2. Good(n) BY <1>5, IngestedIsGood
  <2>3. PICK edited \in BOOLEAN : page = PlaylistPage(h, edited) BY <1>5
  <2>4. /\ Listing(n)
        /\ /\ n.state = "complete" /\ Remainder(n) = 0
           /\ n.total # NoTotal /\ api.changes < 4
           => n.records \in history
    BY <1>5, <2>1, <2>3, ListingIngests
  <2>5. QED BY <2>2, <2>4 DEF Whole
<1>6. CASE \E edited \in BOOLEAN : page = PlaylistPage(h, edited)
  <2>1. PageTyped(page) BY <1>2, <1>6, PlaylistPageReads
  <2>2. QED BY <1>4, <1>5, <1>6, <2>1
<1>7. CASE h.cursor # NoToken /\ page = [PlaylistPage(h, FALSE) EXCEPT !.token = h.cursor]
  <2>1. PICK first : first = PlaylistPage(h, FALSE) OBVIOUS
  <2>2. PageTyped(first) BY <1>2, <2>1, PlaylistPageReads
  <2>3. first = [kind |-> first.kind, ids |-> first.ids, edited |-> first.edited,
                 rejected |-> first.rejected, token |-> first.token,
                 total |-> first.total]
    BY <2>1 DEF PlaylistPage
  <2>4. page = [first EXCEPT !.token = h.cursor] BY <1>7, <2>1
  <2>5. PageTyped(page) /\ PageDefect(h, page) # "none"
    BY <1>7, <2>2, <2>3, <2>4, SameTokenLoops
  <2>6. QED BY <1>4, <2>5
<1>8. QED BY <1>3, <1>6, <1>7

(* What a stage may be answered, by kind.                                  *)
Answers(s, h, page) ==
    /\ s # Uploads => page \in Stops \/ PageTyped(page)
    /\ s = Uploads =>
         \/ page \in Stops
         \/ \E edited \in BOOLEAN : page = PlaylistPage(h, edited)
         \/ /\ h.cursor # NoToken
            /\ page = [PlaylistPage(h, FALSE) EXCEPT !.token = h.cursor]

LEMMA AnswersAre ==
  ASSUME NEW c, NEW s \in Stages, NEW h, NEW l, h = proc[c].harness[s],
         l = proc[c].lineage[s], s = "videos.list" => IsFiniteSet(l),
         NEW page \in Responses(c, s)
  PROVE  Answers(s, h, page)
<1>1. CASE s = "channels.list"
  <2>1. page \in Stops \/ \E ch \in Channels : page = ChannelPage(ch)
    BY <1>1 DEF Responses
  <2>2. QED BY <1>1, <2>1, ChannelPageTyped DEF Answers, Uploads
<1>2. CASE s = "playlistItems.list"
  <2>1. page \in Stops \/ page \in
          {PlaylistPage(h, e) : e \in BOOLEAN}
            \cup (IF h.cursor = NoToken THEN {}
                  ELSE {[PlaylistPage(h, FALSE) EXCEPT !.token = h.cursor]})
    BY <1>2 DEF Responses
  <2>2. QED BY <1>2, <2>1 DEF Answers, Uploads
<1>3. CASE s = "videos.list"
  <2>1. page \in Stops \/ \E items : page = VideosPage(l, items)
    BY <1>3 DEF Responses, Lineage
  <2>2. QED BY <1>3, <2>1, VideosPageTyped DEF Answers, Uploads
<1>4. QED BY <1>1, <1>2, <1>3 DEF Stages

LEMMA IngestKeeps ==
  ASSUME RInv, IInv', Calm, NEW c \in Coordinators, NEW s \in Stages, Ingest(c, s)
  PROVE  RInv'
<1>1. PICK h, l, a : /\ h = proc[c].harness[s] /\ l = proc[c].lineage[s]
                     /\ a = proc[c].authority
  OBVIOUS
<1>2. PICK page \in Responses(c, s) :
        SetHarness(c, s, Ingested(h, page)) /\ Finalize(c, s, Ingested(h, page))
  BY <1>1 DEF Ingest
<1>3. PICK n : n = Ingested(h, page) OBVIOUS
<1>4. /\ h # NoHarness /\ h.active /\ proc[c] # NoProc /\ ProcsSound
      /\ proc' = [proc EXCEPT ![c].harness[s] = n] /\ Finalize(c, s, n)
      /\ UNCHANGED <<api, history, quota, saved>>
  BY <1>1, <1>2, <1>3 DEF Ingest, SetHarness, Running, RInv
<1>5. StageSound(s, h, l, a) BY <1>1, <1>4, HeldIsSound
<1>6. /\ Good(h) /\ (s = "videos.list" => IsFiniteSet(l)) /\ (s = Uploads => Listing(h))
      /\ s = Uploads /\ a = quota.authority =>
           artifact.channel # NoArtifact /\ l = artifact.channel
  BY <1>4, <1>5 DEF StageSound
<1>7. /\ s # Uploads => page \in Stops \/ PageTyped(page)
      /\ s = Uploads =>
           \/ page \in Stops
           \/ \E edited \in BOOLEAN : page = PlaylistPage(h, edited)
           \/ /\ h.cursor # NoToken
              /\ page = [PlaylistPage(h, FALSE) EXCEPT !.token = h.cursor]
  <2>1. Answers(s, h, page) BY <1>1, <1>2, <1>6, AnswersAre
  <2>2. QED BY <2>1 DEF Answers
<1>8. Good(n) /\ (s = Uploads => Listing(n) /\ Whole(n))
  <2>1. CASE s = Uploads BY <1>3, <1>4, <1>6, <1>7, <2>1, UploadsIngests DEF RInv
  <2>2. CASE s # Uploads BY <1>3, <1>4, <1>6, <1>7, <2>2, IngestedIsGood
  <2>3. QED BY <2>1, <2>2
<1>9. Moves(c, s, n, l) BY <1>1, <1>4 DEF Moves
<1>10. StageSound(s, n, l, a) BY <1>6, <1>8 DEF StageSound
<1>11. ProcsSound' BY <1>1, <1>4, <1>9, <1>10, StageMoves
<1>12. SourceTyped' BY SourceStays DEF RInv, Calm
<1>13. SavedSound' BY <1>4, SavedStays DEF RInv, IInv
<1>14. IssuedSound' /\ IssuedInventoryIsWhole'
  <2>1. CASE UNCHANGED artifact BY <1>4, <2>1, IssuedStays DEF RInv
  <2>2. CASE s = "channels.list" /\ FinalizeChannel(c, n) /\ ~UNCHANGED artifact
    <3>1. PICK ch : artifact' = [artifact EXCEPT !.channel = ch]
      BY <2>2 DEF FinalizeChannel
    <3>2. artifact'.uploads = artifact.uploads BY <3>1 DEF RInv, IInv, RowsTyped
    <3>3. artifact.uploads # NoArtifact =>
            artifact.channel # NoArtifact /\ artifact'.channel = artifact.channel
      BY DEF RInv, IssuedSound, Calm
    <3>4. QED BY <1>4, <3>2, <3>3 DEF RInv, IssuedSound, IssuedInventoryIsWhole
  <2>3. CASE /\ s = Uploads /\ n.state = "complete"
             /\ FinalizeUploads(c, n) /\ ~UNCHANGED artifact
    <3>1. PICK inventory : inventory = Inventory(c, n) OBVIOUS
    <3>2. /\ Remainder(n) = 0 /\ Owns(c)
          /\ artifact' = [artifact EXCEPT !.uploads = inventory]
      BY <2>3, <3>1 DEF FinalizeUploads
    <3>3. artifact'.uploads = inventory /\ artifact'.channel = artifact.channel
      BY <3>2 DEF RInv, IInv, RowsTyped
    <3>4. /\ inventory.channel = l /\ inventory.videos = n.records
          /\ inventory.manifest.total = n.total
      BY <1>1, <2>3, <3>1 DEF Inventory, Manifest, Lineage, Uploads
    <3>5. artifact.channel # NoArtifact /\ l = artifact.channel
      BY <1>1, <1>6, <2>3, <3>2 DEF Owns
    <3>6. n.total # NoTotal /\ api.changes < 4 => n.records \in history
      BY <1>8, <2>3, <3>2 DEF Whole
    <3>7. IsFiniteSet(n.records) BY <1>8 DEF Good, Typed
    <3>8. IssuedSound' BY <3>3, <3>4, <3>5, <3>7 DEF IssuedSound
    <3>9. IssuedInventoryIsWhole'
      BY <1>4, <3>3, <3>4, <3>5, <3>6 DEF IssuedInventoryIsWhole
    <3>10. QED BY <3>8, <3>9
  <2>4. QED BY <1>4, <2>1, <2>2, <2>3 DEF Finalize, Uploads
<1>15. QED BY <1>11, <1>12, <1>13, <1>14 DEF RInv

-----------------------------------------------------------------------------
(***************************************************************************)
(* The store is replaced, the playlist changes.                            *)
(***************************************************************************)
LEMMA ReplaceStoreKeeps ==
  ASSUME RInv, IInv', ReplaceStore
  PROVE  RInv'
<1>1. /\ UNCHANGED <<api, history, proc, saved>> /\ artifact' = NoArtifacts
      /\ quota'.authority = quota.authority + 1
  BY DEF ReplaceStore, EmptyRun
<1>2. quota.authority \in Nat BY DEF RInv, IInv, RowsTyped, Authority
<1>3. \A h : Listing(h) => Listing(h)' BY <1>1, ListingStays
<1>4. ProcsSound'
  <2>1. ASSUME NEW d \in Coordinators, proc[d] # NoProc
        PROVE  ProcSound(proc[d])'
    <3>1. PICK p : p = proc[d] OBVIOUS
    <3>2. ProcSound(p) BY <2>1, <3>1 DEF RInv, ProcsSound
    <3>3. p.authority \in Nat /\ p.authority <= quota.authority BY <3>2 DEF ProcSound
    <3>4. p.authority <= quota'.authority /\ p.authority # quota'.authority
      BY <1>1, <1>2, <3>3
    <3>5. ASSUME NEW s \in Stages
          PROVE  StageSound(s, p.harness[s], p.lineage[s], p.authority)'
      <4>1. PICK h, l, a : h = p.harness[s] /\ l = p.lineage[s] /\ a = p.authority OBVIOUS
      <4>2. StageSound(s, h, l, a) BY <3>2, <4>1 DEF ProcSound
      <4>3. a # quota'.authority BY <3>4, <4>1
      <4>4. StageSound(s, h, l, a)' BY <1>3, <4>2, <4>3 DEF StageSound
      <4>5. QED BY <4>1, <4>4
    <3>6. ProcSound(p)' BY <3>2, <3>4, <3>5 DEF ProcSound
    <3>7. QED BY <1>1, <3>1, <3>6
  <2>2. QED BY <1>1, <2>1 DEF RInv, ProcsSound
<1>5. SavedSound'
  <2>1. SUFFICES ASSUME saved # NoCheckpoint PROVE SavedSound'
    BY <1>1 DEF SavedSound
  <2>2. PICK cp : cp = saved /\ cp = saved' BY <1>1
  <2>3. PICK h : h = cp.harness OBVIOUS
  <2>4. /\ cp.stage \in Stages /\ Good(h) /\ h.state = "ready" /\ ~h.active
        /\ cp.stage = Uploads => Listing(h)'
    BY <1>3, <2>1, <2>2, <2>3 DEF RInv, SavedSound
  <2>5. SavedPaid'
    <3>1. /\ cp.quota \in Authority /\ Consumed(cp.quota) <= MaxUnits
          /\ cp.quota.authority <= quota.authority
      BY <2>1, <2>2 DEF RInv, SavedSound, SavedPaid
    <3>2. cp.quota.authority \in Nat BY <3>1 DEF Authority
    <3>3. cp.quota.authority <= quota'.authority /\ cp.quota.authority # quota'.authority
      BY <1>1, <1>2, <3>1, <3>2
    <3>4. QED BY <2>2, <3>1, <3>3 DEF SavedPaid, Consumed
  <2>6. QED BY <2>2, <2>3, <2>4, <2>5 DEF SavedSound
<1>6. SourceTyped' BY <1>1, SourceStays DEF RInv
<1>7. artifact'.uploads = NoArtifact BY <1>1 DEF NoArtifacts
<1>8. IssuedSound' /\ IssuedInventoryIsWhole'
  BY <1>7 DEF IssuedSound, IssuedInventoryIsWhole
<1>9. QED BY <1>4, <1>5, <1>6, <1>8 DEF RInv

(* The list that a change leaves.                                          *)
LEMMA PlaylistChanges ==
  ASSUME SourceTyped, ChangePlaylist
  PROVE  \E R \in Seq(Items) :
           /\ Longer(api.playlist, R) \/ Shorter(api.playlist, R)
           /\ api' = [api EXCEPT !.playlist = R, !.changes = @ + 1]
           /\ history' = history \cup {Part(R, 1, Len(R))}
<1>1. PICK Q : Q = api.playlist OBVIOUS
<1>2. Q \in Seq(Items) BY <1>1 DEF SourceTyped
<1>3. PICK R \in {<<v>> \o Q : v \in Videos \ Listed(Q)}
                   \cup {RemoveAt(Q, i) : i \in DOMAIN Q} :
        /\ api' = [api EXCEPT !.playlist = R, !.changes = @ + 1]
        /\ history' = history \cup {Listed(R)}
  BY <1>1 DEF ChangePlaylist
<1>4. R \in Seq(Items) /\ (Longer(Q, R) \/ Shorter(Q, R))
  <2>1. CASE R \in {<<v>> \o Q : v \in Videos \ Listed(Q)}
    <3>1. PICK v \in Videos : R = <<v>> \o Q BY <2>1
    <3>2. QED BY <1>2, <3>1, AddedInFront
  <2>2. CASE R \in {RemoveAt(Q, i) : i \in DOMAIN Q}
    <3>1. PICK i \in 1 .. Len(Q) : R = RemoveAt(Q, i) BY <1>2, <2>2
    <3>2. QED BY <1>2, <3>1, TakenDown
  <2>3. QED BY <1>3, <2>1, <2>2
<1>5. Listed(R) = Part(R, 1, Len(R))
  <2>1. DOMAIN R = 1 .. Len(R) BY <1>4
  <2>2. QED BY <2>1 DEF Listed, Part
<1>6. QED BY <1>1, <1>3, <1>4, <1>5

LEMMA ChangePlaylistKeeps ==
  ASSUME RInv, IInv', ChangePlaylist
  PROVE  RInv'
<1>1. UNCHANGED <<quota, artifact, proc, saved>> BY DEF ChangePlaylist
<1>2. SourceTyped BY DEF RInv
<1>3. PICK Q, k : Q = api.playlist /\ k = api.changes OBVIOUS
<1>4. PICK R \in Seq(Items) :
        /\ Longer(Q, R) \/ Shorter(Q, R)
        /\ api' = [api EXCEPT !.playlist = R, !.changes = @ + 1]
        /\ history' = history \cup {Part(R, 1, Len(R))}
  BY <1>2, <1>3, PlaylistChanges
<1>5. /\ Q \in Seq(Items) /\ k \in Nat
      /\ api'.playlist = R /\ api'.changes = k + 1
      /\ api'.reports = api.reports /\ api'.hidden = api.hidden
  BY <1>2, <1>3, <1>4 DEF SourceTyped
<1>6. SourceTyped'
  <2>1. api' \in [playlist : Seq(Items), reports : BOOLEAN, hidden : Nat, changes : Nat]
    <3>1. PICK b : b = [api EXCEPT !.playlist = R] OBVIOUS
    <3>2. b \in [playlist : Seq(Items), reports : BOOLEAN, hidden : Nat, changes : Nat]
          /\ b.changes = k
      BY <1>2, <1>3, <3>1 DEF SourceTyped
    <3>3. api' = [b EXCEPT !.changes = k + 1] BY <1>3, <1>4, <3>1
    <3>4. k + 1 \in Nat BY <1>5
    <3>5. QED BY <3>2, <3>3, <3>4
  <2>2. QED BY <1>4, <1>5, <2>1 DEF SourceTyped
<1>7. ASSUME NEW h, Listing(h) PROVE Listing(h)'
  <2>1. SUFFICES ASSUME h.state = "ready" PROVE Listing(h)' BY DEF Listing
  <2>2. /\ h.cursor = NoToken => h.records = {} /\ h.total = NoTotal
        /\ ~api'.reports => h.total = NoTotal
    BY <1>5, <1>7, <2>1 DEF Listing
  <2>3. ASSUME h.cursor # NoToken, api'.reports, api'.changes < 4
        PROVE  \E P \in Seq(Items), a \in Nat :
                 /\ h.cursor \in 1 .. Len(P) - 1
                 /\ h.total = Len(P) + api'.hidden
                 /\ \/ Doomed(h)
                    \/ /\ h.records = Part(P, 1, h.cursor)
                       /\ Part(P, 1, Len(P)) \in history'
                       /\ Became(P, a, h.cursor, api'.playlist, api'.changes)
    <3>1. api.reports /\ api.changes < 4 BY <1>3, <1>5, <2>3
    <3>2. PICK P \in Seq(Items), a \in Nat :
            /\ h.cursor \in 1 .. Len(P) - 1
            /\ h.total = Len(P) + api.hidden
            /\ \/ Doomed(h)
               \/ /\ h.records = Part(P, 1, h.cursor)
                  /\ Part(P, 1, Len(P)) \in history
                  /\ Became(P, a, h.cursor, api.playlist, api.changes)
      BY <1>7, <2>1, <2>3, <3>1 DEF Listing
    <3>3. CASE Doomed(h) BY <1>5, <3>2, <3>3
    <3>4. CASE /\ h.records = Part(P, 1, h.cursor)
               /\ Part(P, 1, Len(P)) \in history
               /\ Became(P, a, h.cursor, Q, k)
      <4>1. PICK i : i = h.cursor OBVIOUS
      <4>2. Became(P, a, i, Q, k) /\ i \in 1 .. Len(P) - 1 BY <3>2, <3>4, <4>1
      <4>3. Became(P, a, i, R, k + 1) BY <1>4, <1>5, <4>2, ChangedAgain
      <4>4. Part(P, 1, Len(P)) \in history' BY <1>4, <3>4
      <4>5. QED BY <1>5, <3>2, <3>4, <4>1, <4>3, <4>4
    <3>5. QED BY <1>3, <3>2, <3>3, <3>4
  <2>4. QED BY <2>2, <2>3 DEF Listing
<1>8. ProcsSound'
  <2>1. ASSUME NEW d \in Coordinators, proc[d] # NoProc
        PROVE  ProcSound(proc[d])'
    <3>1. PICK p : p = proc[d] OBVIOUS
    <3>2. ProcSound(p) BY <2>1, <3>1 DEF RInv, ProcsSound
    <3>3. ASSUME NEW s \in Stages
          PROVE  StageSound(s, p.harness[s], p.lineage[s], p.authority)'
      <4>1. PICK h, l, a : h = p.harness[s] /\ l = p.lineage[s] /\ a = p.authority OBVIOUS
      <4>2. StageSound(s, h, l, a) BY <3>2, <4>1 DEF ProcSound
      <4>3. Listing(h) => Listing(h)' BY <1>7
      <4>4. StageSound(s, h, l, a)' BY <1>1, <4>2, <4>3 DEF StageSound
      <4>5. QED BY <4>1, <4>4
    <3>4. ProcSound(p)' BY <1>1, <3>2, <3>3 DEF ProcSound
    <3>5. QED BY <1>1, <3>1, <3>4
  <2>2. QED BY <1>1, <2>1 DEF RInv, ProcsSound
<1>9. SavedSound'
  <2>1. SUFFICES ASSUME saved # NoCheckpoint PROVE SavedSound'
    BY <1>1 DEF SavedSound
  <2>2. PICK cp : cp = saved /\ cp = saved' BY <1>1
  <2>3. PICK h : h = cp.harness OBVIOUS
  <2>4. /\ cp.stage \in Stages /\ Good(h) /\ h.state = "ready" /\ ~h.active
        /\ cp.stage = Uploads => Listing(h)
    BY <2>1, <2>2, <2>3 DEF RInv, SavedSound
  <2>5. Listing(h) => Listing(h)' BY <1>7
  <2>6. SavedPaid' BY <1>1, <2>1, <2>2 DEF RInv, SavedSound, SavedPaid, Consumed
  <2>7. QED BY <2>2, <2>3, <2>4, <2>5, <2>6 DEF SavedSound
<1>10. IssuedSound' BY <1>1 DEF RInv, IssuedSound
<1>11. IssuedInventoryIsWhole'
  <2>1. api'.changes < 4 => api.changes < 4 BY <1>3, <1>5
  <2>2. \A x \in history : x \in history' BY <1>4
  <2>3. QED BY <1>1, <2>1, <2>2 DEF RInv, IssuedInventoryIsWhole
<1>12. QED BY <1>6, <1>8, <1>9, <1>10, <1>11 DEF RInv

-----------------------------------------------------------------------------
LEMMA InitRInv == Init => RInv
<1> SUFFICES ASSUME Init PROVE RInv OBVIOUS
<1> USE InputsAssumption
<1>1. IInv BY InitIInv
<1>2. api \in [playlist : Seq(Items), reports : BOOLEAN, hidden : Nat, changes : {0}]
  BY DEF Init, Items
<1>3. PICK Q : Q = api.playlist OBVIOUS
<1>4. Listed(Q) = Part(Q, 1, Len(Q))
  <2>1. Q \in Seq(Items) BY <1>2, <1>3
  <2>2. DOMAIN Q = 1 .. Len(Q) BY <2>1
  <2>3. QED BY <2>2 DEF Listed, Part
<1>5. SourceTyped BY <1>2, <1>3, <1>4 DEF Init, SourceTyped
<1>6. ProcsSound BY DEF Init, ProcsSound
<1>7. SavedSound BY DEF Init, SavedSound
<1>8. artifact.uploads = NoArtifact BY DEF Init, NoArtifacts
<1>9. IssuedSound /\ IssuedInventoryIsWhole
  BY <1>8 DEF IssuedSound, IssuedInventoryIsWhole
<1>10. QED BY <1>1, <1>5, <1>6, <1>7, <1>9 DEF RInv

(* Steps that leave the source and the authority alone are calm.           *)
LEMMA CalmStep ==
  ASSUME IInv, [Next]_vars, UNCHANGED <<api, history>>,
         quota' = quota \/ \E s \in Stages : quota' = Reserved(quota, s)
  PROVE  Calm
<1>1. quota'.authority = quota.authority
  <2>1. quota \in Authority BY DEF IInv, RowsTyped
  <2>2. ASSUME NEW s \in Stages, quota' = Reserved(quota, s)
        PROVE  quota'.authority = quota.authority
    BY <2>1, <2>2, ReservationPays
  <2>3. QED BY <2>2
<1>2. QED BY <1>1, StepKeeps DEF Calm

LEMMA NextRInv == RInv /\ [Next]_vars => RInv'
<1> SUFFICES ASSUME RInv, [Next]_vars PROVE RInv' OBVIOUS
<1>1. IInv /\ IInv' BY NextIInv DEF RInv
<1>2. CASE UNCHANGED vars
  <2>1. UNCHANGED <<api, history, quota, artifact, proc, saved>> BY <1>2 DEF vars
  <2>2. Calm BY <1>1, <2>1, CalmStep
  <2>3. ProcsSound' BY <2>1, <2>2, ProcsStay DEF RInv
  <2>4. QED BY <1>1, <2>1, <2>2, <2>3, CalmKeeps
<1>3. CASE ReplaceStore BY <1>1, <1>3, ReplaceStoreKeeps
<1>4. CASE ChangePlaylist BY <1>1, <1>4, ChangePlaylistKeeps
<1>5. ASSUME NEW c \in Coordinators, Start(c) PROVE RInv'
  <2>1. Calm BY <1>1, <1>5, CalmStep DEF Start
  <2>2. QED BY <1>1, <1>5, <2>1, StartKeeps
<1>6. ASSUME NEW c \in Coordinators, Crash(c) PROVE RInv'
  <2>1. /\ proc' = [proc EXCEPT ![c] = NoProc]
        /\ UNCHANGED <<api, history, quota, artifact, saved>>
    BY <1>6 DEF Crash
  <2>2. Calm BY <1>1, <2>1, CalmStep
  <2>3. QED BY <1>1, <2>1, <2>2, CrashKeeps
<1>7. ASSUME NEW c \in Coordinators, NEW s \in Stages, Begin(c, s) PROVE RInv'
  <2>1. UNCHANGED <<api, history>> BY <1>7 DEF Begin
  <2>2. quota' = quota \/ quota' = Reserved(quota, s) BY <1>7 DEF Begin, AskWith
  <2>3. Calm BY <1>1, <2>1, <2>2, CalmStep
  <2>4. QED BY <1>1, <1>7, <2>3, BeginKeeps
<1>8. ASSUME NEW c \in Coordinators, NEW s \in Stages, NextRequest(c, s) PROVE RInv'
  <2>1. UNCHANGED <<api, history>> BY <1>8 DEF NextRequest
  <2>2. quota' = quota \/ quota' = Reserved(quota, s) BY <1>8 DEF NextRequest, AskWith
  <2>3. Calm BY <1>1, <2>1, <2>2, CalmStep
  <2>4. QED BY <1>1, <1>8, <2>3, NextRequestKeeps
<1>9. ASSUME NEW c \in Coordinators, NEW s \in Stages, ReserveThenCrash(c, s) PROVE RInv'
  <2>1. /\ proc' = [proc EXCEPT ![c] = NoProc]
        /\ UNCHANGED <<api, history, artifact, saved>>
        /\ quota' = Reserved(quota, s)
    BY <1>9 DEF ReserveThenCrash
  <2>2. Calm BY <1>1, <2>1, CalmStep
  <2>3. QED BY <1>1, <2>1, <2>2, CrashKeeps
<1>10. ASSUME NEW c \in Coordinators, NEW s \in Stages, Ingest(c, s) PROVE RInv'
  <2>1. Calm BY <1>1, <1>10, CalmStep DEF Ingest
  <2>2. QED BY <1>1, <1>10, <2>1, IngestKeeps
<1>11. ASSUME NEW c \in Coordinators, NEW s \in Stages, RecordRetry(c, s) PROVE RInv'
  <2>1. Calm BY <1>1, <1>11, CalmStep DEF RecordRetry
  <2>2. QED BY <1>1, <1>11, <2>1, RecordRetryKeeps
<1>12. ASSUME NEW c \in Coordinators, NEW s \in Stages, SaveCheckpoint(c, s) PROVE RInv'
  <2>1. Calm BY <1>1, <1>12, CalmStep DEF SaveCheckpoint
  <2>2. QED BY <1>1, <1>12, <2>1, SaveKeeps
<1>13. ASSUME NEW c \in Coordinators, NEW s \in Stages, Resume(c, s) PROVE RInv'
  <2>1. Calm BY <1>1, <1>13, CalmStep DEF Resume
  <2>2. QED BY <1>1, <1>13, <2>1, ResumeKeeps
<1>14. QED
  BY <1>2, <1>3, <1>4, <1>5, <1>6, <1>7, <1>8, <1>9, <1>10, <1>11, <1>12, <1>13
  DEF Next

(* An issued uploads inventory hangs on the channel that was issued and,   *)
(* when the source reported totals and changed less than four times, is    *)
(* the whole playlist as it stood at some moment: for every page size,     *)
(* playlist, coordinator, crash and resumed checkpoint (ingest,            *)
(* finalize_uploads, require_issued).                                      *)
THEOREM InventoryIsWhole == Spec => []IssuedInventoryIsWhole
<1>1. RInv => IssuedInventoryIsWhole BY DEF RInv
<1>2. QED BY InitRInv, NextRInv, <1>1, PTL DEF Spec

(* Whatever sequence of requests, retries and pages wrote it, and whatever *)
(* happened since, a checkpoint saved while its harness was ready is       *)
(* accepted by resume as long as the authority that paid for it exists     *)
(* (checkpoint, _restore, YouTubeQuotaLedger.resume).                      *)
THEOREM CheckpointsResume == Spec => []ReadyCheckpointsResume
<1>1. RInv => ReadyCheckpointsResume
  <2> SUFFICES ASSUME RInv, saved # NoCheckpoint,
                      saved.quota.authority = quota.authority
               PROVE  QuotaAccepts(saved) /\ RestoreAccepts(saved.harness, Bounds)
    BY DEF ReadyCheckpointsResume
  <2>1. PICK q, m : q = saved.quota.counts /\ m = quota.counts OBVIOUS
  <2>2. /\ saved.quota \in Authority /\ Consumed(saved.quota) <= MaxUnits
        /\ CountsWithin(q, m)
    BY <2>1 DEF RInv, SavedSound, SavedPaid
  <2>3. q \in [Stages -> Nat] /\ m \in [Stages -> Nat]
    BY <2>1, <2>2 DEF RInv, IInv, RowsTyped, Authority
  <2>4. Consumed(saved.quota) <= Consumed(quota)
    BY <2>1, <2>2, <2>3 DEF Consumed, CountsWithin, Stages
  <2>5. QuotaAccepts(saved) BY <2>1, <2>2, <2>4 DEF QuotaAccepts
  <2>6. saved.harness.state = "ready" /\ Resumes(saved.harness)
    BY DEF RInv, SavedSound, Good
  <2>7. RestoreAccepts(saved.harness, Bounds) BY <2>6 DEF RestoreAccepts, Resumes
  <2>8. QED BY <2>5, <2>7
<1>2. QED BY InitRInv, NextRInv, <1>1, PTL DEF Spec
=============================================================================
