------------------------------ MODULE CorpusObjects ------------------------------
(***************************************************************************)
(* Immutable corpus objects and their exact cleanup                        *)
(* (src/src/performing_fire_corpus/corpus_objects.py) over the asset       *)
(* register of the ledger and a shared object store.                       *)
(*                                                                         *)
(* Creators run immutable_create_and_verify and then upsert the receipt;   *)
(* one cleaner runs execute_exact_cleanup.  The ledger reads, the store    *)
(* requests and the ledger writes of a call are separate steps, so calls   *)
(* interleave between them; a store request may fail before or after its   *)
(* effect, and a process may die between any two steps.  The cleanup guard *)
(* is an open BEGIN IMMEDIATE transaction: it keeps other ledger writes    *)
(* out, but not ledger reads and not the store.                            *)
(***************************************************************************)
EXTENDS LedgerAssets

CONSTANTS
  Creators,      \* concurrent calls of immutable_create_and_verify
  Runs,          \* creation_run_id values
  WorkIds,       \* retention_work_id values
  KeyAsset,      \* the asset an object key names
  KeyKind,       \* the object kind an object key names
  KeyDecision,   \* how restrictive the rights its receipt carries are
  Derivations,   \* the derivation manifests jobs may record, each with the
                 \* key it is stored under, or NoKey to leave that object out
  Instants,      \* the seconds a cleanup may be evaluated in
  Expiry,        \* expires_at of the retention authority
  Authorities,   \* successive versions of the retention authority
  Held,          \* the versions with an active legal hold
  Valid,         \* the instants from its decided_at to its valid_until
  Faults,        \* whether store requests may fail and processes may die
  NoKey, NoRun, NoWork

Dispositions == {"created", "reused", "reused_after_ambiguous_create"}

\* An exact key is absent, holds other bytes, or holds the bytes its name
\* demands, put there by a run or found there.
Contents == {"absent", "foreign", "found"} \cup Runs
Matching(content) == content \notin {"absent", "foreign"}

\* bind_object_receipt: the receipt id is a digest of the receipt's facts.
Receipt(k, run, disposition) ==
  [type |-> "object_receipt", id |-> <<k, run, disposition>>,
   asset |-> KeyAsset[k], source |-> "s1", key |-> k, kind |-> KeyKind[k],
   body |-> [run |-> run, disposition |-> disposition]]

ASSUME CorpusAssumption ==
  /\ KeyAsset \in [Keys -> AssetIds]
  /\ KeyKind \in [Keys -> {"raw", "derived", "manifest"}]
  /\ Runs \cap {"absent", "foreign", "found", NoRun} = {}
  /\ \A k \in Keys, run \in Runs, d \in Dispositions :
       Receipt(k, run, d) \in ObjectRecord
  /\ WorkIds \X Instants \subseteq Works
  /\ Instants \subseteq Nat /\ 0 \in Instants /\ Expiry \in Nat
  /\ Authorities \subseteq Nat /\ 0 \in Authorities /\ Held \subseteq Authorities
  /\ Valid \in [Authorities -> SUBSET Nat]
  /\ KeyDecision \in [Keys -> Nat]
  /\ \A d \in Derivations : /\ d.inputs \subseteq Keys /\ d.outputs \subseteq Keys
                            /\ d.stored \in Keys => KeyKind[d.stored] = "manifest"
  /\ NoKey \notin Keys /\ NoWork \notin WorkIds /\ Faults \in BOOLEAN

\* The register is offered the receipts of the creators, and assets reach it
\* with approved rights.
ASSUME RegisterAssumption ==
  /\ "s1" \in Sources
  /\ \A k \in Keys, run \in Runs, d \in Dispositions : Receipt(k, run, d) \in ObjectOffers
  /\ \A a \in AssetIds : \E r \in RightsOffers : r.asset = a /\ r.state = "approved"

VARIABLES
  manifests,  \* the derivation manifests on record in the ledger
  store,      \* the bucket: what each exact key holds
  creators,   \* the local state of each create-and-verify call
  work,       \* the retention work the cleaner holds
  cleaner,    \* the local state of the cleanup; the guard is held off "idle"
  clock,      \* the second it is
  authority,  \* the current retention and legal-hold authority
  removed     \* history: the keys deleted under a cleanup so far

corpusVars == <<manifests, store, creators, work, cleaner, clock, authority, removed>>
allVars == <<vars, corpusVars>>
UnchangedLedger == UNCHANGED vars

Creator == [pc : {"idle", "tombstone", "head", "create", "verify", "commit"},
            key : Keys \cup {NoKey}, run : Runs \cup {NoRun},
            durable : BOOLEAN, disposition : Dispositions]
Work == [id : WorkIds \cup {NoWork}, asset : AssetIds, run : Runs \cup {NoRun},
         at : Instants, authority : Authorities, targets : SUBSET ObjectRecord,
         manifests : SUBSET Derivations]
Cleaner == [pc : {"idle", "head", "delete", "confirm", "recheck", "commit"},
            at : Instants, todo : SUBSET Keys, key : Keys \cup {NoKey},
            absent : SUBSET Keys, failed : SUBSET Keys]

IdleCreator == [pc |-> "idle", key |-> NoKey, run |-> NoRun, durable |-> FALSE,
                disposition |-> "reused"]
IdleCleaner(at) == [pc |-> "idle", at |-> at, todo |-> {}, key |-> NoKey,
                    absent |-> {}, failed |-> {}]

(***************************************************************************)
(* Objects are created for assets registered with approved rights and      *)
(* claimed for transfer.  Keys may hold bytes the ledger knows nothing of. *)
(***************************************************************************)
CorpusInit ==
  /\ assets = [a \in AssetIds |-> [Discovered("s1") EXCEPT !.state = "transfer_pending"]]
  /\ rights = {r \in RightsOffers : r.state = "approved"}
  /\ objects = {} /\ tombstones = {}
  /\ operations = [o \in OpIds |->
       [kind |-> "unbound", asset |-> NoAsset, state |-> NoState]]
  /\ store \in [Keys -> {"absent", "foreign", "found"}]
  /\ creators = [w \in Creators |-> IdleCreator]
  /\ \E a \in AssetIds : work = [id |-> NoWork, asset |-> a, run |-> NoRun,
                                 at |-> 0, authority |-> 0, targets |-> {},
                                 manifests |-> {}]
  /\ manifests = {}
  /\ cleaner = IdleCleaner(0)
  /\ clock = 0 /\ authority = 0 /\ removed = {}

-----------------------------------------------------------------------------
(***************************************************************************)
(* immutable_create_and_verify                                             *)
(***************************************************************************)
MutGuardIgnored == TRUE
GuardFree == cleaner.pc = "idle"

Durable(k) == {r \in objects : r.type = "object_receipt" /\ r.key = k}

Step(w, c) ==
  /\ creators' = [creators EXCEPT ![w] = c]
  /\ UNCHANGED <<manifests, work, cleaner, clock, authority, removed>>
Locally(w, c) == Step(w, c) /\ UNCHANGED store /\ UnchangedLedger
Raises(w) == Locally(w, IdleCreator)

Receipted == {r.key : r \in {x \in objects : x.type = "object_receipt"}}

\* A job transforms a receipted input, and describes receipted outputs.
Producible(k) ==
  \/ KeyKind[k] = "raw"
  \/ \E d \in Derivations :
       \/ k \in d.outputs /\ d.inputs \subseteq Receipted
       \/ k = d.stored /\ d.inputs \cup d.outputs \subseteq Receipted

\* The durable receipt of the key, if any, must be the one this call would
\* write, whatever its disposition; other calls go no further.
ReadDurable(w, k, run) ==
  /\ creators[w].pc = "idle"
  /\ Producible(k)
  /\ \A r \in Durable(k) : r.body.run = run
  /\ \E d \in Dispositions :
       /\ IF Durable(k) = {} THEN d = "created"
                             ELSE \E r \in Durable(k) : d = r.body.disposition
       /\ Locally(w, [pc |-> "tombstone", key |-> k, run |-> run,
                      durable |-> Durable(k) # {}, disposition |-> d])

ReadTombstone(w) == LET c == creators[w] IN
  /\ c.pc = "tombstone"
  /\ IF c.key \in TombstonedKeys
       THEN Raises(w)
       ELSE Locally(w, [c EXCEPT !.pc = "head"])

\* A matching object is the durable receipt's, or is reused; an absent one is
\* created, but never recreated under a durable receipt.
HeadBeforeCreate(w) == LET c == creators[w] IN
  /\ c.pc = "head"
  /\ \/ Matching(store[c.key]) /\ c.durable /\ Locally(w, [c EXCEPT !.pc = "commit"])
     \/ /\ Matching(store[c.key]) /\ ~c.durable
        /\ Locally(w, [c EXCEPT !.pc = "verify", !.disposition = "reused"])
     \/ /\ store[c.key] = "absent" /\ ~c.durable
        /\ Locally(w, [c EXCEPT !.pc = "create"])
     \/ /\ \/ Faults \/ store[c.key] = "foreign"
           \/ store[c.key] = "absent" /\ c.durable
        /\ Raises(w)

MutAmbiguousOwned(applied, replied) ==
  IF replied /\ ~applied THEN "reused" ELSE "created"
\* What a create proves: True and False are answers, an exception is not.
Disposition(applied, replied) ==
  CASE replied /\ applied -> "created"
    [] replied /\ ~applied -> "reused"
    [] OTHER -> "reused_after_ambiguous_create"

CreateIfAbsent(w) == LET c == creators[w] IN
  /\ c.pc = "create"
  /\ \E applied, replied \in BOOLEAN :
       /\ replied \/ Faults
       /\ IF store[c.key] # "absent" THEN ~applied ELSE (replied => applied)
       /\ store' = IF applied THEN [store EXCEPT ![c.key] = c.run] ELSE store
       /\ Step(w, [c EXCEPT !.pc = "verify",
                            !.disposition = Disposition(applied, replied)])
  /\ UnchangedLedger

VerifyCreated(w) == LET c == creators[w] IN
  /\ c.pc = "verify"
  /\ \/ Matching(store[c.key]) /\ Locally(w, [c EXCEPT !.pc = "commit"])
     \/ (Faults \/ ~Matching(store[c.key])) /\ Raises(w)

\* The caller's ledger.upsert(receipt); a refused receipt ends the call too.
CommitReceipt(w) == LET c == creators[w]
                        r == Receipt(c.key, c.run, c.disposition) IN
  /\ c.pc = "commit" /\ GuardFree
  /\ Step(w, IdleCreator) /\ UNCHANGED store
  /\ UpsertObject(r, NoOp) \/ (~KeyFree(r) /\ UnchangedLedger)

CreatorDies(w) == Faults /\ creators[w].pc # "idle" /\ Raises(w)

-----------------------------------------------------------------------------
(***************************************************************************)
(* Derivation manifests and lineage                                        *)
(***************************************************************************)
WellFormed(d) == d.inputs # {} /\ d.outputs # {}

\* Outputs carry the most restrictive decision of the inputs.
Inherits(d) ==
  \A k \in d.outputs :
    /\ \A i \in d.inputs : KeyDecision[i] <= KeyDecision[k]
    /\ \E i \in d.inputs : KeyDecision[i] = KeyDecision[k]

Derives(d) ==
  /\ \A k \in d.inputs, l \in d.outputs : KeyAsset[k] = KeyAsset[l]
  /\ \A k \in d.outputs : KeyKind[k] = "derived"

\* A job builds its manifest from durable receipts, stores it as an object
\* with a receipt of its own, and only then records it.
RecordManifest(d) ==
  /\ GuardFree
  /\ WellFormed(d) /\ Inherits(d) /\ Derives(d)
  /\ d.inputs \cup d.outputs \cup ({d.stored} \ {NoKey}) \subseteq Receipted
  /\ manifests' = manifests \cup {d}
  /\ UNCHANGED <<store, creators, work, cleaner, clock, authority, removed>>
  /\ UnchangedLedger

ManifestsOf(a) == {d \in manifests : \A k \in d.inputs : KeyAsset[k] = a}
LineageOf(a) == <<Receipts(a), ManifestsOf(a)>>

\* What follows from the keys in found by the recorded derivations: the least
\* set that holds them and the outputs of every manifest whose inputs it has.
Derivable(found, ms, keys) ==
  LET closed == {s \in SUBSET keys :
                   /\ found \subseteq s
                   /\ \A d \in ms : d.inputs \subseteq s =>
                        d.outputs \cup ({d.stored} \cap keys) \subseteq s}
  IN {k \in keys : \A s \in closed : k \in s}

\* build_derivation_lineage: one raw root from which every receipt of the
\* asset is derivable, each derived one through a single recorded manifest.
CompleteLineage(a) ==
  LET keys == {r.key : r \in Receipts(a)}
      ms   == ManifestsOf(a)
      raw  == {k \in keys : KeyKind[k] = "raw"}
  IN /\ Cardinality(raw) = 1
     /\ \A d \in ms : d.inputs \cup d.outputs \subseteq keys /\ Inherits(d)
     /\ \A d \in ms : d.stored \in keys =>
          \A k \in d.outputs : KeyDecision[d.stored] = KeyDecision[k]
     /\ \A d, e \in ms : d.outputs \cap e.outputs # {} => d = e
     /\ Derivable(raw, ms, keys) = keys
     /\ {k \in keys : KeyKind[k] = "derived"} = UNION {d.outputs : d \in ms}
     /\ {k \in keys : KeyKind[k] = "manifest"} \subseteq {d.stored : d \in ms}

-----------------------------------------------------------------------------
(***************************************************************************)
(* build_retention_work                                                    *)
(***************************************************************************)
CleanerStep(c) ==
  /\ cleaner' = c
  /\ UNCHANGED <<manifests, creators, work, clock, authority>>
KeepStore == UNCHANGED <<store, removed>>

\* The retention and legal-hold authority of the moment lets objects go.
MayDelete == authority \notin Held /\ clock >= Expiry /\ clock \in Valid[authority]

\* Only work in state ready_exact_cleanup is kept: no other is executable.
BuildWork(id, a, run) ==
  /\ cleaner.pc = "idle"
  /\ CompleteLineage(a)
  /\ \A r \in Receipts(a) : r.body.run = run /\ r.body.disposition = "created"
  /\ MayDelete
  /\ work' = [id |-> id, asset |-> a, run |-> run, at |-> clock,
              authority |-> authority, targets |-> Receipts(a),
              manifests |-> ManifestsOf(a)]
  /\ UNCHANGED <<manifests, store, creators, cleaner, clock, authority, removed>>
  /\ UnchangedLedger

-----------------------------------------------------------------------------
(***************************************************************************)
(* execute_exact_cleanup                                                   *)
(***************************************************************************)
Earlier(k) == {t \in tombstones : t.key = k}

\* The durable tombstone of the key, or the one this work would write.
TombstoneFor(r) ==
  IF Earlier(r.key) # {} THEN CHOOSE t \in Earlier(r.key) : TRUE
                         ELSE Planned(r, <<work.id, work.at>>)

\* The id stands for what else is compared: the work's reason and evidence, and
\* the receipt, which is the target's own for a tombstone under its key.
MutAnyTombstone(t) == TRUE
BindsWork(t) == t.work[1] = work.id

\* Every target is durable and was created by the run the work names.
Preflighted ==
  \A r \in work.targets :
    /\ r \in Durable(r.key) /\ r.asset = work.asset
    /\ r.body.run = work.run /\ r.body.disposition = "created"

\* The guard opens, and everything is validated before the first request.
BeginCleanup ==
  /\ cleaner.pc = "idle" /\ work.id # NoWork
  /\ <<work.targets, work.manifests>> = LineageOf(work.asset)
  /\ CompleteLineage(work.asset)
  /\ work.authority = authority /\ MayDelete
  /\ Preflighted
  /\ \A r \in work.targets : BindsWork(TombstoneFor(r))
  /\ CleanerStep([IdleCleaner(clock) EXCEPT
       !.pc = "head", !.todo = {r.key : r \in work.targets}])
  /\ KeepStore /\ UnchangedLedger

\* Descendants come before the root.
NextTargets == LET later == {k \in cleaner.todo : KeyKind[k] = "raw"}
               IN IF later = cleaner.todo THEN later ELSE cleaner.todo \ later

Outcome(k, field) ==
  LET c == [cleaner EXCEPT !.todo = @ \ {k}, !.key = NoKey,
              !.absent = IF field = "absent" THEN @ \cup {k} ELSE @,
              !.failed = IF field = "failed" THEN @ \cup {k} ELSE @]
  IN [c EXCEPT !.pc = IF c.todo # {} THEN "head"
                      ELSE IF c.absent # {} THEN "recheck" ELSE "idle"]

HeadTarget(k) ==
  /\ cleaner.pc = "head" /\ k \in NextTargets
  /\ \/ /\ \/ Faults \/ store[k] = "foreign"
           \/ store[k] # "absent" /\ k \in TombstonedKeys
        /\ CleanerStep(Outcome(k, "failed"))
     \/ store[k] = "absent" /\ CleanerStep(Outcome(k, "absent"))
     \/ /\ Matching(store[k]) /\ k \notin TombstonedKeys
        /\ CleanerStep([cleaner EXCEPT !.pc = "delete", !.key = k])
  /\ KeepStore /\ UnchangedLedger

DeleteTarget == LET k == cleaner.key IN
  /\ cleaner.pc = "delete"
  /\ \E applied, replied \in BOOLEAN :
       /\ replied \/ Faults
       /\ replied => applied
       /\ store' = IF applied THEN [store EXCEPT ![k] = "absent"] ELSE store
       /\ removed' = IF applied THEN removed \cup {k} ELSE removed
       /\ CleanerStep(IF replied THEN [cleaner EXCEPT !.pc = "confirm"]
                                 ELSE Outcome(k, "failed"))
  /\ UnchangedLedger

ConfirmAbsent == LET k == cleaner.key IN
  /\ cleaner.pc = "confirm"
  /\ \/ store[k] = "absent" /\ CleanerStep(Outcome(k, "absent"))
     \/ /\ Faults \/ store[k] # "absent"
        /\ CleanerStep(Outcome(k, "failed"))
  /\ KeepStore /\ UnchangedLedger

\* validate_cleanup_commit_context rebuilds the work, evaluation time
\* included, and must find it unchanged; then every key is checked once more.
StillAbsent == \A k \in cleaner.absent : store[k] = "absent"
SameEvaluation == cleaner.at = work.at

Recheck ==
  /\ cleaner.pc = "recheck"
  /\ SameEvaluation /\ StillAbsent
  /\ CleanerStep([cleaner EXCEPT !.pc = "commit"])
  /\ KeepStore /\ UnchangedLedger

CommitTombstones ==
  /\ cleaner.pc = "commit"
  /\ CommitCleanup({TombstoneFor(r) : r \in {x \in work.targets : x.key \in cleaner.absent}})
  /\ CleanerStep(IdleCleaner(0))
  /\ KeepStore

\* tombstone_commit_failed: the guard's transaction rolls back.
CommitFails ==
  /\ cleaner.pc = "recheck"
  /\ Faults \/ ~SameEvaluation \/ ~StillAbsent
  /\ CleanerStep(IdleCleaner(0))
  /\ KeepStore /\ UnchangedLedger

CleanerDies ==
  /\ Faults /\ cleaner.pc # "idle"
  /\ CleanerStep(IdleCleaner(0))
  /\ KeepStore /\ UnchangedLedger

-----------------------------------------------------------------------------
Tick ==
  /\ clock + 1 \in Instants /\ clock' = clock + 1
  /\ UNCHANGED <<manifests, store, creators, work, cleaner, authority, removed>>
  /\ UnchangedLedger

Decide ==
  /\ authority + 1 \in Authorities /\ authority' = authority + 1
  /\ UNCHANGED <<manifests, store, creators, work, cleaner, clock, removed>>
  /\ UnchangedLedger

CorpusNext ==
  \/ \E w \in Creators :
       \/ \E k \in Keys, run \in Runs : ReadDurable(w, k, run)
       \/ ReadTombstone(w) \/ HeadBeforeCreate(w) \/ CreateIfAbsent(w)
       \/ VerifyCreated(w) \/ CommitReceipt(w) \/ CreatorDies(w)
  \/ \E d \in Derivations : RecordManifest(d)
  \/ \E id \in WorkIds, a \in AssetIds, run \in Runs : BuildWork(id, a, run)
  \/ BeginCleanup \/ DeleteTarget \/ ConfirmAbsent \/ Recheck
  \/ \E k \in Keys : HeadTarget(k)
  \/ CommitTombstones \/ CommitFails \/ CleanerDies
  \/ Tick \/ Decide

CorpusSpec == CorpusInit /\ [][CorpusNext]_allVars

-----------------------------------------------------------------------------
(***************************************************************************)
(* Properties                                                              *)
(***************************************************************************)

\* Every variable holds values of its type: sanity of the model.
CorpusTypeOK ==
  /\ TypeOK
  /\ manifests \subseteq Derivations
  /\ store \in [Keys -> Contents]
  /\ creators \in [Creators -> Creator]
  /\ work \in Work /\ cleaner \in Cleaner
  /\ clock \in Instants /\ authority \in Authorities /\ removed \subseteq Keys

\* Until a cleanup deletes it, a receipted object is in the bucket with the
\* right bytes, and a receipt that says "created" says so of the run that put
\* it there: whatever replies were lost, whoever else was creating the key,
\* no object gets deletion authority under a run that did not make it.
ReceiptsTellTheTruth ==
  \A r \in objects : r.key \notin removed =>
    /\ Matching(store[r.key])
    /\ r.body.disposition = "created" => store[r.key] = r.body.run

\* While the cleaner works, the lineage it validated stays the complete one:
\* no receipt and no derivation manifest of the asset is recorded between the
\* validation and the tombstones, though jobs are at work in other processes.
LineageFrozen ==
  cleaner.pc # "idle" =>
    <<work.targets, work.manifests>> = LineageOf(work.asset)

\* All tombstones of an asset bind the same retention work, so that a cleanup
\* interrupted after some targets can be finished: a target bound to another
\* work stops execute_exact_cleanup for good.
OneWorkPerAsset ==
  \A t, u \in tombstones : t.asset = u.asset => t.work[1] = u.work[1]

\* docs/full-corpus-object-storage.md: "Deleted and already absent objects
\* converge on the same immutable absent_exact_key tombstone, so reruns [...]
\* return the authoritative tombstone".  Where no request fails, a cleanup
\* that passed its checks and found every target absent, before and after,
\* gets its tombstones committed.
RerunsReconcile ==
  [][cleaner.pc = "recheck" /\ cleaner.failed = {} /\ StillAbsent
       => cleaner'.pc # "idle"]_allVars

\* docs/full-corpus-object-storage.md: "A durable tombstone is terminal for
\* that exact key and stops before any storage request."
TombstonesAreTerminal ==
  [][\A k \in TombstonedKeys : store[k] = "absent" => store'[k] = "absent"]_allVars

=============================================================================
