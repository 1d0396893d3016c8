------------------------------ MODULE LedgerAssets ------------------------------
(***************************************************************************)
(* The asset register of the durable ledger                                *)
(* (src/src/performing_fire_corpus/ledger.py): asset, rights and object    *)
(* records, cleanup tombstones, and the lifecycle an asset may follow only *)
(* while those records support it.                                         *)
(*                                                                         *)
(* As in LedgerQueue, a call is one transaction and so one action; a call  *)
(* that raises, or that replays a bound operation id, changes nothing.     *)
(***************************************************************************)
EXTENDS Integers, FiniteSets

CONSTANTS
  AssetIds,      \* asset_id values
  Sources,       \* source_id values
  RightsIds,     \* rights_id values
  ObjectIds,     \* object_id and receipt_id values
  Keys,          \* immutable object keys
  Bodies,        \* what else a receipt binds (creation run, disposition, ...)
  AssetOffers,   \* the records upsert may be called with, by record type
  RightsOffers,
  ObjectOffers,
  Works,         \* what a tombstone binds of the cleanup work that wrote it
  OpIds,         \* operation_id values
  NoSource, NoState, NoBlocker, NoAsset, NoOp

Stages == {"discovered", "metadata_verified", "approved_for_ingest",
           "transfer_pending", "raw_in_object_store", "extraction_pending",
           "extracting", "derived_in_object_store", "indexed"}
FailureStates == {"blocked", "failed_retryable", "failed_final"}
AllStates == Stages \cup FailureStates

\* The position of a stage in ASSET_STATES.
Rank == [s \in Stages |->
  CASE s = "discovered" -> 0          [] s = "metadata_verified" -> 1
    [] s = "approved_for_ingest" -> 2 [] s = "transfer_pending" -> 3
    [] s = "raw_in_object_store" -> 4 [] s = "extraction_pending" -> 5
    [] s = "extracting" -> 6          [] s = "derived_in_object_store" -> 7
    [] s = "indexed" -> 8]

Blockers == {NoBlocker, "reason", "object_tombstoned"}

\* The record of an asset and its row of asset_states; both or neither exist.
Asset == [source : Sources \cup {NoSource}, state : AllStates \cup {NoState},
          resume : AllStates \cup {NoState}, blocker : Blockers]
AssetRecord == [id : AssetIds, source : Sources]
RightsRecord == [id : RightsIds, asset : AssetIds,
                 state : {"pending", "approved", "blocked"}]
ObjectRecord == [type : {"object", "object_receipt"}, id : ObjectIds,
                 asset : AssetIds, source : Sources, key : Keys,
                 kind : {"raw", "derived", "manifest"}, body : Bodies]
Tombstone == [receipt : ObjectIds, asset : AssetIds, key : Keys, work : Works]
Operation == [kind : {"unbound", "upsert", "transition"},
              asset : AssetIds \cup {NoAsset}, state : AllStates \cup {NoState}]

ASSUME OffersAssumption ==
  /\ AssetOffers \subseteq AssetRecord
  /\ RightsOffers \subseteq RightsRecord
  /\ ObjectOffers \subseteq ObjectRecord
ASSUME NullAssumption ==
  /\ NoSource \notin Sources /\ NoAsset \notin AssetIds /\ NoOp \notin OpIds
  /\ NoState \notin AllStates /\ NoBlocker \notin {"reason", "object_tombstoned"}

VARIABLES
  assets,      \* records of type asset, with table asset_states
  rights,      \* records of type rights
  objects,     \* records of types object and object_receipt
  tombstones,  \* records of type object_tombstone
  operations   \* table operations

vars == <<assets, rights, objects, tombstones, operations>>

Init ==
  /\ assets = [a \in AssetIds |-> [source |-> NoSource, state |-> NoState,
                                   resume |-> NoState, blocker |-> NoBlocker]]
  /\ rights = {} /\ objects = {} /\ tombstones = {}
  /\ operations = [o \in OpIds |->
       [kind |-> "unbound", asset |-> NoAsset, state |-> NoState]]

-----------------------------------------------------------------------------
Fresh(o) == o # NoOp => operations[o].kind = "unbound"

RecordOperation(o, kind, a, s) ==
  operations' = IF o = NoOp THEN operations
    ELSE [operations EXCEPT ![o] = [kind |-> kind, asset |-> a, state |-> s]]

(***************************************************************************)
(* Records.  A stable identifier never changes its content.                *)
(***************************************************************************)
Discovered(source) == [source |-> source, state |-> "discovered",
                       resume |-> NoState, blocker |-> NoBlocker]

UpsertAsset(r, o) ==
  /\ Fresh(o)
  /\ assets[r.id].source \in {NoSource, r.source}
  /\ assets' = IF assets[r.id].source = NoSource
                 THEN [assets EXCEPT ![r.id] = Discovered(r.source)]
                 ELSE assets
  /\ RecordOperation(o, "upsert", r.id, NoState)
  /\ UNCHANGED <<rights, objects, tombstones>>

UpsertRights(r, o) ==
  /\ Fresh(o)
  /\ \A q \in rights : q.id = r.id => q = r
  /\ rights' = rights \cup {r}
  /\ RecordOperation(o, "upsert", r.asset, NoState)
  /\ UNCHANGED <<assets, objects, tombstones>>

RightsApproved(a) == \E r \in rights : r.asset = a /\ r.state = "approved"

\* The key scan spans both record types.
MutKeyFreeInType(r) ==
  \A q \in objects : q.key = r.key /\ q.type = r.type => q.id = r.id
KeyFree(r) ==
  \A q \in objects : q.key = r.key => q.type = r.type /\ q.id = r.id

UpsertObject(r, o) ==
  /\ Fresh(o)
  /\ \A q \in objects : q.type = r.type /\ q.id = r.id => q = r
  /\ RightsApproved(r.asset)
  /\ r.type = "object_receipt" => assets[r.asset].source = r.source
  /\ KeyFree(r)
  /\ objects' = objects \cup {r}
  /\ RecordOperation(o, "upsert", r.asset, NoState)
  /\ UNCHANGED <<assets, rights, tombstones>>

-----------------------------------------------------------------------------
(***************************************************************************)
(* The lifecycle of an asset                                               *)
(***************************************************************************)
TombstonedKeys == {t.key : t \in tombstones}

HasLiveObject(a, kind) ==
  \E r \in objects :
    r.asset = a /\ r.kind = kind /\ r.key \notin TombstonedKeys

\* What transition_asset demands of the records before it enters a stage.
Gates(a, s) ==
  /\ Rank[s] >= Rank["approved_for_ingest"] => RightsApproved(a)
  /\ s = "raw_in_object_store" => HasLiveObject(a, "raw")
  /\ s = "derived_in_object_store" => HasLiveObject(a, "derived")

Moved(row, s, resume, b) ==
  [source |-> row.source, state |-> s, resume |-> resume, blocker |-> b]

MoveAsset(a, s, resume, b, o) ==
  /\ assets' = [assets EXCEPT ![a] = Moved(assets[a], s, resume, b)]
  /\ RecordOperation(o, "transition", a, s)
  /\ UNCHANGED <<rights, objects, tombstones>>

KeepState(a, s, o) ==
  /\ assets[a].state = s
  /\ RecordOperation(o, "transition", a, s)
  /\ UNCHANGED <<assets, rights, objects, tombstones>>

MutRetryFromFinal(s) == s # "indexed"
MayFail(s) == s \notin {"indexed", "failed_final"}

FailAsset(a, s, b, o) ==
  /\ s \in FailureStates
  /\ assets[a].state # s
  /\ MayFail(assets[a].state)
  /\ s = "blocked" => b # NoBlocker
  /\ MoveAsset(a, s, IF s = "failed_retryable" THEN assets[a].state
                                               ELSE NoState, b, o)

ResumeAsset(a, s, b, o) ==
  /\ s \in Stages
  /\ assets[a].state = "failed_retryable"
  /\ assets[a].resume = s
  /\ Gates(a, s)
  /\ MoveAsset(a, s, NoState, b, o)

MutSkipsStage(s, t) == Rank[t] \in {Rank[s] + 1, Rank[s] + 2}
Follows(s, t) == Rank[t] = Rank[s] + 1

AdvanceAsset(a, s, b, o) ==
  /\ s \in Stages
  /\ assets[a].state \in Stages
  /\ Follows(assets[a].state, s)
  /\ Gates(a, s)
  /\ MoveAsset(a, s, NoState, b, o)

TransitionAsset(a, s, b, o) ==
  /\ Fresh(o)
  /\ assets[a].state # NoState
  /\ \/ KeepState(a, s, o)
     \/ FailAsset(a, s, b, o)
     \/ ResumeAsset(a, s, b, o)
     \/ AdvanceAsset(a, s, b, o)

-----------------------------------------------------------------------------
(***************************************************************************)
(* The commit of a confirmed cleanup.  It runs inside the cleanup guard,   *)
(* whose checks of lineage, retention and absence are CorpusObjects' part; *)
(* its tombstones are for distinct receipts of one asset.                  *)
(***************************************************************************)
MutStateOnly(row) ==
  /\ row.state \in Stages
  /\ Rank[row.state] >= Rank["raw_in_object_store"]

ClaimsPresence(row) ==
  \/ /\ row.state \in Stages
     /\ Rank[row.state] >= Rank["raw_in_object_store"]
  \/ /\ row.state = "failed_retryable"
     /\ row.resume \in Stages
     /\ Rank[row.resume] >= Rank["raw_in_object_store"]

Blocked(row) == Moved(row, "blocked", NoState, "object_tombstoned")

\* Two tombstones of one key, or one that no receipt matches, fail the commit.
Committable(values) ==
  /\ values # {}
  /\ \A t \in values, u \in tombstones \cup values : t.key = u.key => t = u
  /\ \A t \in values : \E r \in objects :
       /\ r.type = "object_receipt" /\ r.id = t.receipt
       /\ r.asset = t.asset /\ r.key = t.key

CommitCleanup(values) ==
  /\ Committable(values)
  /\ tombstones' = tombstones \cup values
  /\ assets' = [a \in AssetIds |->
       IF a \in {t.asset : t \in values} /\ ClaimsPresence(assets[a])
         THEN Blocked(assets[a]) ELSE assets[a]]
  /\ UNCHANGED <<rights, objects, operations>>

\* A tombstone a work would write; an existing one of the same work is kept.
Planned(r, w) == [receipt |-> r.id, asset |-> r.asset, key |-> r.key, work |-> w]
Receipts(a) == {r \in objects : r.type = "object_receipt" /\ r.asset = a}

Next ==
  \/ \E o \in OpIds \cup {NoOp} :
       \/ \E r \in AssetOffers : UpsertAsset(r, o)
       \/ \E r \in RightsOffers : UpsertRights(r, o)
       \/ \E r \in ObjectOffers : UpsertObject(r, o)
       \/ \E a \in AssetIds, s \in AllStates, b \in {NoBlocker, "reason"} :
            TransitionAsset(a, s, b, o)
  \/ \E a \in AssetIds, w \in Works : \E cleaned \in SUBSET Receipts(a) :
       CommitCleanup({Planned(r, w) : r \in cleaned})

Spec == Init /\ [][Next]_vars

-----------------------------------------------------------------------------
(***************************************************************************)
(* Properties                                                              *)
(***************************************************************************)

\* Every table holds rows of its schema: sanity of the model.
TypeOK ==
  /\ assets \in [AssetIds -> Asset]
  /\ rights \subseteq RightsRecord
  /\ objects \subseteq ObjectRecord
  /\ tombstones \subseteq Tombstone
  /\ operations \in [OpIds -> Operation]

\* How far an asset has come: the stage it is in, or would resume.
Reached(row) ==
  CASE row.state \in Stages -> Rank[row.state]
    [] row.state = "failed_retryable" /\ row.resume \in Stages -> Rank[row.resume]
    [] OTHER -> -1

\* An asset that can never be in a stage again.
Retired(row) ==
  \/ row.state \in {"blocked", "failed_final"}
  \/ row.state = "failed_retryable" /\ row.resume = "blocked"

\* transition_asset checks its gates on entry only; what they demanded must
\* stay true for as long as the asset is in, or may resume, a later stage:
\* rights are approved, and a raw (later also a derived) object is recorded
\* whose key no cleanup has tombstoned.  Only the blocking that
\* _commit_confirmed_cleanup does in the transaction of the tombstones keeps
\* this; it fails if the asset waits in failed_retryable unnoticed.
GatesStayHeld ==
  \A a \in AssetIds :
    /\ Reached(assets[a]) >= Rank["approved_for_ingest"] => RightsApproved(a)
    /\ Reached(assets[a]) >= Rank["raw_in_object_store"] => HasLiveObject(a, "raw")
    /\ Reached(assets[a]) >= Rank["derived_in_object_store"] =>
         HasLiveObject(a, "derived")

\* One key, one durable receipt: no two object records of either type share
\* a key, a key has one tombstone, and it names the key's own receipt; every
\* object belongs to an asset with approved rights, and a receipt to an asset
\* of its own source.  (upsert, _commit_confirmed_cleanup)
KeysHaveOneOwner ==
  /\ \A q, r \in objects : q.key = r.key => q = r
  /\ \A t, u \in tombstones : t.key = u.key => t = u
  /\ \A t \in tombstones : \E r \in objects :
       r.type = "object_receipt" /\ r.id = t.receipt /\ r.key = t.key
                                 /\ r.asset = t.asset
  /\ \A r \in objects :
       /\ RightsApproved(r.asset)
       /\ r.type = "object_receipt" => assets[r.asset].source = r.source

\* Whatever mixture of failures, retries and cleanups an asset goes through,
\* it enters the stages one at a time and never leaves one backwards, and one
\* that was blocked (by a caller or by a cleanup) or failed for good, even if
\* marked retryable afterwards, never reaches a stage again.
StagesInOrder ==
  [][\A a \in AssetIds :
       /\ Retired(assets[a]) => Retired(assets'[a])
       /\ ~Retired(assets[a]) /\ ~Retired(assets'[a]) =>
            Reached(assets'[a]) \in {Reached(assets[a]), Reached(assets[a]) + 1}
       /\ assets[a].state \in {"indexed", "failed_final"} =>
            assets'[a].state \in {assets[a].state, "blocked"}]_vars

\* A transition whose operation id is bound did happen and was not undone: a
\* replay that answers "state s" is told about an asset at or past s, or since
\* retired.
RepliesHold ==
  \A o \in OpIds : LET op == operations[o] IN
    op.kind = "transition" =>
      /\ assets[op.asset].state # NoState
      /\ op.state \in Stages =>
           Retired(assets[op.asset]) \/ Reached(assets[op.asset]) >= Rank[op.state]
      /\ op.state = "blocked" => Retired(assets[op.asset])
      /\ op.state = "failed_final" => assets[op.asset].state = "failed_final"

=============================================================================
