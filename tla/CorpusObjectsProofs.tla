--------------------------- MODULE CorpusObjectsProofs ---------------------------
(***************************************************************************)
(* Theorems about LedgerAssets and about CorpusObjects, which works over   *)
(* its tables, for every value of their constants: any number of creators, *)
(* runs, assets and keys. The first half speaks of LedgerAssets' own       *)
(* specification, the second of CorpusObjects', and its last part shows    *)
(* that CorpusObjects keeps to LedgerAssets' steps.                        *)
(***************************************************************************)
EXTENDS CorpusObjects, TLAPS

-----------------------------------------------------------------------------
(***************************************************************************)
(* The tables of LedgerAssets, for every value of its constants.           *)
(*                                                                         *)
(* The inductive invariant Core adds to the checked invariants what the    *)
(* rows owe to one another: an asset's record and state row exist          *)
(* together, failed_retryable always has somewhere to go, and a bound      *)
(* transition names a registered asset.                                    *)
(***************************************************************************)

SoundRow(row) ==
  /\ row.source = NoSource <=> row.state = NoState
  /\ row.state = "failed_retryable" =>
       row.resume \in (Stages \ {"indexed"}) \cup {"blocked"}

BoundToAsset(op) ==
  op.kind = "transition" => op.asset \in AssetIds /\ op.state \in AllStates

Core ==
  /\ TypeOK
  /\ \A a \in AssetIds : SoundRow(assets[a])
  /\ \A o \in OpIds : BoundToAsset(operations[o])
  /\ GatesStayHeld
  /\ KeysHaveOneOwner
  /\ RepliesHold

\* What one step may do to the row of an asset.
Ahead(row, new) ==
  /\ Retired(row) => Retired(new)
  /\ ~Retired(new) => Reached(new) \in {Reached(row), Reached(row) + 1}
  /\ row.state = "failed_final" => new.state = "failed_final"
  /\ row.state = "indexed" => new.state \in {"indexed", "blocked"}
  /\ row.state # NoState => new.state # NoState

-----------------------------------------------------------------------------
(* Stages *)

LEMMA RankFacts ==
  /\ Rank \in [Stages -> 0..8]
  /\ Rank["discovered"] = 0 /\ Rank["metadata_verified"] = 1
  /\ Rank["approved_for_ingest"] = 2 /\ Rank["transfer_pending"] = 3
  /\ Rank["raw_in_object_store"] = 4 /\ Rank["extraction_pending"] = 5
  /\ Rank["extracting"] = 6 /\ Rank["derived_in_object_store"] = 7
  /\ Rank["indexed"] = 8
BY DEF Rank, Stages

LEMMA RankIsInjective ==
  ASSUME NEW s \in Stages, NEW t \in Stages, Rank[s] = Rank[t]
  PROVE  s = t
BY RankFacts DEF Stages

LEMMA StatesDiffer ==
  /\ Stages \cap FailureStates = {}
  /\ NoState \notin Stages /\ NoState \notin FailureStates
  /\ "discovered" \in Stages /\ "approved_for_ingest" \in Stages
  /\ "raw_in_object_store" \in Stages /\ "derived_in_object_store" \in Stages
  /\ "indexed" \in Stages
  /\ FailureStates = {"blocked", "failed_retryable", "failed_final"}
  /\ AllStates = Stages \cup FailureStates
BY NullAssumption DEF Stages, FailureStates, AllStates

LEMMA ReachedFacts ==
  ASSUME NEW row
  PROVE  /\ Reached(row) \in -1..8
         /\ row.state \in Stages => Reached(row) = Rank[row.state]
         /\ row.state = "failed_retryable" /\ row.resume \in Stages =>
              Reached(row) = Rank[row.resume]
         /\ Retired(row) => Reached(row) = -1
         /\ row.state = NoState => Reached(row) = -1 /\ ~Retired(row)
         /\ row.state \in Stages => ~Retired(row)
         /\ ClaimsPresence(row) <=> Reached(row) >= 4
<1> USE RankFacts, StatesDiffer
<1>1. CASE row.state \in Stages
  BY <1>1 DEF Reached, Retired, ClaimsPresence
<1>2. CASE row.state \notin Stages /\ row.state = "failed_retryable"
            /\ row.resume \in Stages
  BY <1>2 DEF Reached, Retired, ClaimsPresence
<1>3. CASE row.state \notin Stages
            /\ ~(row.state = "failed_retryable" /\ row.resume \in Stages)
  BY <1>3 DEF Reached, Retired, ClaimsPresence
<1> QED
  BY <1>1, <1>2, <1>3

-----------------------------------------------------------------------------
(* The rows the methods write *)

LEMMA MovedRow ==
  ASSUME NEW row, NEW s, NEW resume, NEW b
  PROVE  LET new == Moved(row, s, resume, b)
         IN  /\ new.source = row.source /\ new.state = s
             /\ new.resume = resume /\ new.blocker = b
BY DEF Moved

LEMMA MovedType ==
  ASSUME NEW row \in Asset, NEW s \in AllStates,
         NEW resume \in AllStates \cup {NoState}, NEW b \in Blockers
  PROVE  Moved(row, s, resume, b) \in Asset
BY DEF Moved, Asset

LEMMA AheadReflexive ==
  ASSUME NEW row
  PROVE  Ahead(row, row)
BY ReachedFacts DEF Ahead

LEMMA FailedRow ==
  ASSUME NEW row \in Asset, SoundRow(row), row.state # NoState,
         NEW s \in FailureStates, NEW b \in Blockers,
         row.state # s, MayFail(row.state)
  PROVE  LET new == Moved(row, s, IF s = "failed_retryable" THEN row.state
                                                          ELSE NoState, b)
         IN  /\ new \in Asset /\ SoundRow(new) /\ Ahead(row, new)
             /\ new.source = row.source /\ new.state = s
             /\ Reached(new) <= Reached(row)
             /\ s \in {"blocked", "failed_final"} => Retired(new)
<1> DEFINE resume == IF s = "failed_retryable" THEN row.state ELSE NoState
           new == Moved(row, s, resume, b)
<1>1. row.state \in AllStates /\ resume \in AllStates \cup {NoState}
      /\ row.source # NoSource
  BY DEF Asset, SoundRow
<1> HIDE DEF resume
<1>2. new \in Asset /\ new.source = row.source /\ new.state = s
      /\ new.resume = resume
  <2>1. s \in AllStates
    BY StatesDiffer
  <2>2. new \in Asset
    BY <1>1, <2>1, MovedType
  <2> QED
    BY <2>2, MovedRow
<1> USE DEF resume
<1> HIDE DEF new
<1>3. row.state \in (Stages \ {"indexed"}) \cup {"blocked", "failed_retryable"}
  BY <1>1, StatesDiffer DEF MayFail
<1>4. CASE s \in {"blocked", "failed_final"}
  <2>1. Retired(new)
    BY <1>2, <1>4 DEF Retired
  <2>2. Reached(new) = -1 /\ Reached(row) >= -1
    BY <2>1, ReachedFacts
  <2>3. Ahead(row, new)
    BY <1>2, <1>3, <1>4, <2>1, <2>2, StatesDiffer DEF Ahead
  <2> QED
    BY <1>1, <1>2, <1>4, <2>1, <2>2, <2>3, StatesDiffer DEF SoundRow, new, resume
<1>5. CASE s = "failed_retryable"
  <2>1. row.state \in (Stages \ {"indexed"}) \cup {"blocked"}
    BY <1>3, <1>5
  <2>2. new.resume = row.state
    BY <1>2, <1>5
  <2>3. SoundRow(new)
    BY <1>1, <1>2, <1>5, <2>1, <2>2, StatesDiffer DEF SoundRow
  <2>4. CASE row.state = "blocked"
    <3>1. Retired(new)
      BY <1>2, <1>5, <2>2, <2>4 DEF Retired
    <3>2. Reached(new) = -1 /\ Reached(row) >= -1
      BY <3>1, ReachedFacts
    <3>3. Ahead(row, new)
      BY <1>2, <1>5, <2>4, <3>1, <3>2, StatesDiffer DEF Ahead
    <3> QED
      BY <1>2, <1>5, <2>3, <3>2, <3>3, StatesDiffer DEF new, resume
  <2>5. CASE row.state \in Stages \ {"indexed"}
    <3>1. Reached(new) = Rank[row.state] /\ Reached(row) = Rank[row.state]
      BY <1>2, <1>5, <2>2, <2>5, ReachedFacts
    <3>2. ~Retired(row) /\ Reached(row) \in -1..8
      BY <2>5, ReachedFacts
    <3>3. Ahead(row, new)
      BY <1>2, <1>5, <2>5, <3>1, <3>2, StatesDiffer DEF Ahead
    <3> QED
      BY <1>2, <1>5, <2>3, <3>1, <3>2, <3>3, StatesDiffer DEF new, resume
  <2> QED
    BY <2>1, <2>4, <2>5
<1> QED
  BY <1>4, <1>5, StatesDiffer

LEMMA StageRow ==
  ASSUME NEW row \in Asset, SoundRow(row), NEW s \in Stages, NEW b \in Blockers,
         \/ row.state = "failed_retryable" /\ row.resume = s
         \/ row.state \in Stages /\ Follows(row.state, s)
  PROVE  LET new == Moved(row, s, NoState, b)
         IN  /\ new \in Asset /\ SoundRow(new) /\ Ahead(row, new)
             /\ new.source = row.source /\ new.state = s
             /\ Reached(new) = Rank[s]
             /\ Reached(new) = Reached(row) \/ Reached(new) = Reached(row) + 1
<1> DEFINE new == Moved(row, s, NoState, b)
<1>1. new \in Asset /\ new.source = row.source /\ new.state = s
  BY MovedRow, MovedType, StatesDiffer
<1> HIDE DEF new
<1>2. row.state # NoState /\ row.source # NoSource /\ row.state # "failed_final"
  BY StatesDiffer DEF SoundRow
<1>3. SoundRow(new)
  BY <1>1, <1>2, StatesDiffer DEF SoundRow
<1>4. Reached(new) = Rank[s] /\ ~Retired(new) /\ Reached(row) \in -1..8
  BY <1>1, ReachedFacts
<1>5. CASE row.state = "failed_retryable" /\ row.resume = s
  <2>1. Reached(row) = Rank[s]
    BY <1>5, ReachedFacts
  <2>2. ~Retired(row) /\ row.state # "indexed"
    BY <1>5, StatesDiffer DEF Retired
  <2>3. Ahead(row, new)
    BY <1>1, <1>2, <1>4, <2>1, <2>2, StatesDiffer DEF Ahead
  <2> QED
    BY <1>1, <1>3, <1>4, <2>1, <2>3 DEF new
<1>6. CASE row.state \in Stages /\ Follows(row.state, s)
  <2>1. Reached(row) = Rank[row.state] /\ ~Retired(row)
    BY <1>6, ReachedFacts
  <2>2. Rank[s] = Rank[row.state] + 1 /\ row.state # "indexed"
    BY <1>6, RankFacts DEF Follows
  <2>3. Ahead(row, new)
    BY <1>1, <1>2, <1>4, <2>1, <2>2, StatesDiffer DEF Ahead
  <2> QED
    BY <1>1, <1>3, <1>4, <2>1, <2>2, <2>3 DEF new
<1> QED
  BY <1>5, <1>6

LEMMA BlockedRow ==
  ASSUME NEW row \in Asset, SoundRow(row), ClaimsPresence(row)
  PROVE  LET new == Blocked(row)
         IN  /\ new \in Asset /\ SoundRow(new) /\ Ahead(row, new)
             /\ new.source = row.source /\ Reached(new) = -1
<1> DEFINE new == Blocked(row)
<1>1. row.state # NoState /\ row.source # NoSource
  BY StatesDiffer DEF ClaimsPresence, SoundRow
<1>2. new \in Asset /\ new.source = row.source /\ new.state = "blocked"
  <2>1. "blocked" \in AllStates /\ "object_tombstoned" \in Blockers
    BY StatesDiffer DEF Blockers
  <2> QED
    BY <2>1, MovedRow, MovedType DEF Blocked
<1> HIDE DEF new
<1>3. Retired(new) /\ SoundRow(new)
  BY <1>1, <1>2, StatesDiffer DEF Retired, SoundRow
<1>4. Reached(new) = -1
  BY <1>3, ReachedFacts
<1>5. row.state # "failed_final"
  BY StatesDiffer DEF ClaimsPresence
<1>6. Ahead(row, new)
  BY <1>2, <1>3, <1>4, <1>5, StatesDiffer DEF Ahead
<1> QED
  BY <1>2, <1>3, <1>4, <1>6 DEF new

LEMMA DiscoveredRow ==
  ASSUME NEW row \in Asset, SoundRow(row), row.source = NoSource,
         NEW source \in Sources
  PROVE  LET new == Discovered(source)
         IN  /\ new \in Asset /\ SoundRow(new) /\ Ahead(row, new)
             /\ new.source = source /\ Reached(new) = 0
<1> DEFINE new == Discovered(source)
<1>1. row.state = NoState
  BY DEF SoundRow
<1>2. new \in Asset /\ new.source = source /\ new.state = "discovered"
  BY StatesDiffer DEF Discovered, Asset, Blockers
<1> HIDE DEF new
<1>3. SoundRow(new)
  BY <1>2, NullAssumption, StatesDiffer DEF SoundRow
<1>4. Reached(new) = 0 /\ Reached(row) = -1 /\ ~Retired(row) /\ ~Retired(new)
  BY <1>1, <1>2, ReachedFacts, RankFacts, StatesDiffer
<1>5. Ahead(row, new)
  BY <1>1, <1>2, <1>4, StatesDiffer DEF Ahead
<1> QED
  BY <1>2, <1>3, <1>4, <1>5 DEF new

-----------------------------------------------------------------------------
(* Type correctness of one step *)

LEMMA RecordType ==
  ASSUME TypeOK, NEW o \in OpIds \cup {NoOp},
         NEW kind \in {"upsert", "transition"}, NEW a \in AssetIds,
         NEW s \in AllStates \cup {NoState}, RecordOperation(o, kind, a, s)
  PROVE  operations' \in [OpIds -> Operation]
BY DEF RecordOperation, TypeOK, Operation

\* A transition's new row, whatever branch of transition_asset wrote it.
LEMMA TransitionRow ==
  ASSUME Core, NEW a \in AssetIds, NEW s \in AllStates,
         NEW b \in {NoBlocker, "reason"}, NEW o \in OpIds \cup {NoOp},
         TransitionAsset(a, s, b, o)
  PROVE  /\ assets' \in [AssetIds -> Asset]
         /\ \A c \in AssetIds \ {a} : assets'[c] = assets[c]
         /\ SoundRow(assets'[a]) /\ Ahead(assets[a], assets'[a])
         /\ assets'[a].source = assets[a].source
         /\ assets'[a].state = s
         /\ s \in {"blocked", "failed_final"} => Retired(assets'[a])
         /\ RecordOperation(o, "transition", a, s)
         /\ UNCHANGED <<rights, objects, tombstones>>
         /\ \/ Reached(assets'[a]) <= Reached(assets[a])
            \/ /\ s \in Stages /\ Gates(a, s) /\ Reached(assets'[a]) = Rank[s]
               /\ Rank[s] = Reached(assets[a]) + 1
<1>1. assets \in [AssetIds -> Asset] /\ SoundRow(assets[a]) /\ b \in Blockers
  BY DEF Core, TypeOK, Blockers
<1>2. assets[a] \in Asset /\ assets[a].state # NoState
  BY <1>1 DEF TransitionAsset
<1>3. CASE KeepState(a, s, o)
  <2>1. assets' = assets /\ assets[a].state = s
    BY <1>3 DEF KeepState
  <2>2. s \in {"blocked", "failed_final"} => Retired(assets[a])
    BY <2>1 DEF Retired
  <2>3. Reached(assets[a]) <= Reached(assets[a])
    BY ReachedFacts
  <2> QED
    BY <1>1, <1>3, <2>1, <2>2, <2>3, AheadReflexive DEF KeepState
<1>4. CASE FailAsset(a, s, b, o)
  <2> DEFINE resume == IF s = "failed_retryable" THEN assets[a].state ELSE NoState
             new == Moved(assets[a], s, resume, b)
  <2>1. assets' = [assets EXCEPT ![a] = new]
        /\ RecordOperation(o, "transition", a, s)
        /\ UNCHANGED <<rights, objects, tombstones>>
    BY <1>4 DEF FailAsset, MoveAsset
  <2>2. s \in FailureStates /\ assets[a].state # s /\ MayFail(assets[a].state)
    BY <1>4 DEF FailAsset
  <2>3. new \in Asset /\ SoundRow(new) /\ Ahead(assets[a], new)
        /\ new.source = assets[a].source /\ new.state = s
        /\ Reached(new) <= Reached(assets[a])
        /\ (s \in {"blocked", "failed_final"} => Retired(new))
    BY <1>1, <1>2, <2>2, FailedRow
  <2> HIDE DEF new
  <2> QED
    BY <1>1, <2>1, <2>3
<1>5. CASE ResumeAsset(a, s, b, o) \/ AdvanceAsset(a, s, b, o)
  <2> DEFINE new == Moved(assets[a], s, NoState, b)
  <2>1. assets' = [assets EXCEPT ![a] = new]
        /\ RecordOperation(o, "transition", a, s)
        /\ UNCHANGED <<rights, objects, tombstones>>
    BY <1>5 DEF ResumeAsset, AdvanceAsset, MoveAsset
  <2>2. s \in Stages /\ Gates(a, s)
        /\ \/ assets[a].state = "failed_retryable" /\ assets[a].resume = s
           \/ assets[a].state \in Stages /\ Follows(assets[a].state, s)
    BY <1>5 DEF ResumeAsset, AdvanceAsset
  <2>3. new \in Asset /\ SoundRow(new) /\ Ahead(assets[a], new)
        /\ new.source = assets[a].source /\ new.state = s
        /\ Reached(new) = Rank[s]
        /\ (Reached(new) = Reached(assets[a])
            \/ Reached(new) = Reached(assets[a]) + 1)
    BY <1>1, <1>2, <2>2, StageRow
  <2>4. s \notin {"blocked", "failed_final"} /\ Reached(assets[a]) \in -1..8
    BY <2>2, StatesDiffer, ReachedFacts
  <2> HIDE DEF new
  <2> QED
    BY <1>1, <2>1, <2>2, <2>3, <2>4
<1> QED
  BY <1>3, <1>4, <1>5 DEF TransitionAsset

\* The rows after a cleanup commit: those that claimed presence are blocked.
LEMMA CleanupRows ==
  ASSUME Core, NEW values, CommitCleanup(values)
  PROVE  /\ assets' \in [AssetIds -> Asset]
         /\ \A a \in AssetIds :
              /\ SoundRow(assets'[a]) /\ Ahead(assets[a], assets'[a])
              /\ assets'[a].source = assets[a].source
              /\ Reached(assets'[a]) <= Reached(assets[a])
              /\ a \in {t.asset : t \in values} => Reached(assets'[a]) < 4
<1>1. assets \in [AssetIds -> Asset] /\ \A a \in AssetIds : SoundRow(assets[a])
  BY DEF Core, TypeOK
<1>2. ASSUME NEW a \in AssetIds
      PROVE  /\ assets'[a] \in Asset
             /\ SoundRow(assets'[a]) /\ Ahead(assets[a], assets'[a])
             /\ assets'[a].source = assets[a].source
             /\ Reached(assets'[a]) <= Reached(assets[a])
             /\ a \in {t.asset : t \in values} => Reached(assets'[a]) < 4
  <2>1. assets'[a] = IF a \in {t.asset : t \in values} /\ ClaimsPresence(assets[a])
                       THEN Blocked(assets[a]) ELSE assets[a]
    BY DEF CommitCleanup
  <2>2. Reached(assets[a]) \in -1..8
        /\ (ClaimsPresence(assets[a]) <=> Reached(assets[a]) >= 4)
    BY ReachedFacts
  <2>3. CASE a \in {t.asset : t \in values} /\ ClaimsPresence(assets[a])
    BY <1>1, <2>1, <2>2, <2>3, BlockedRow
  <2>4. CASE ~(a \in {t.asset : t \in values} /\ ClaimsPresence(assets[a]))
    BY <1>1, <2>1, <2>2, <2>4, AheadReflexive
  <2> QED
    BY <2>3, <2>4
<1>3. assets' = [a \in AssetIds |-> assets'[a]]
  BY DEF CommitCleanup
<1> QED
  BY <1>2, <1>3

\* The row of an asset after upsert.
LEMMA UpsertRow ==
  ASSUME Core, NEW r \in AssetOffers, NEW o \in OpIds \cup {NoOp},
         UpsertAsset(r, o)
  PROVE  /\ assets' \in [AssetIds -> Asset] /\ r.id \in AssetIds
         /\ \A a \in AssetIds :
              /\ SoundRow(assets'[a]) /\ Ahead(assets[a], assets'[a])
              /\ assets[a].source # NoSource => assets'[a] = assets[a]
              /\ Reached(assets'[a]) <= Reached(assets[a])
                   \/ Reached(assets'[a]) = 0
<1>1. assets \in [AssetIds -> Asset] /\ \A a \in AssetIds : SoundRow(assets[a])
  BY DEF Core, TypeOK
<1>2. r.id \in AssetIds /\ r.source \in Sources
  BY OffersAssumption DEF AssetRecord
<1>3. \A a \in AssetIds : Reached(assets[a]) \in -1..8
  BY ReachedFacts
<1>4. CASE assets[r.id].source = NoSource
  <2> DEFINE new == Discovered(r.source)
  <2>1. assets' = [assets EXCEPT ![r.id] = new]
    BY <1>4 DEF UpsertAsset
  <2>2. new \in Asset /\ SoundRow(new) /\ Ahead(assets[r.id], new)
        /\ Reached(new) = 0
    BY <1>1, <1>2, <1>4, DiscoveredRow
  <2> HIDE DEF new
  <2> QED
    BY <1>1, <1>2, <1>3, <1>4, <2>1, <2>2, AheadReflexive
<1>5. CASE assets[r.id].source # NoSource
  BY <1>1, <1>2, <1>3, <1>5, AheadReflexive DEF UpsertAsset
<1> QED
  BY <1>4, <1>5

-----------------------------------------------------------------------------
(* Records only accumulate *)

LEMMA RightsLast ==
  ASSUME rights \subseteq rights', NEW a, RightsApproved(a)
  PROVE  RightsApproved(a)'
BY DEF RightsApproved

LEMMA LiveObjectsLast ==
  ASSUME objects \subseteq objects', tombstones' = tombstones,
         NEW a, NEW kind, HasLiveObject(a, kind)
  PROVE  HasLiveObject(a, kind)'
BY DEF HasLiveObject, TombstonedKeys

\* A cleanup of other assets leaves an asset's live objects alone, because a
\* key has one receipt and the tombstone names its asset.
LEMMA OthersStayLive ==
  ASSUME KeysHaveOneOwner, NEW values, CommitCleanup(values),
         NEW a, a \notin {t.asset : t \in values},
         NEW kind, HasLiveObject(a, kind)
  PROVE  HasLiveObject(a, kind)'
<1>1. PICK r \in objects :
        r.asset = a /\ r.kind = kind /\ r.key \notin TombstonedKeys
  BY DEF HasLiveObject
<1>2. ASSUME NEW t \in values, t.key = r.key
      PROVE  FALSE
  <2>1. PICK q \in objects : q.asset = t.asset /\ q.key = t.key
    BY DEF CommitCleanup, Committable
  <2>2. q = r
    BY <1>2, <2>1 DEF KeysHaveOneOwner
  <2> QED
    BY <1>1, <2>1, <2>2
<1>3. r.key \notin TombstonedKeys'
  BY <1>1, <1>2 DEF CommitCleanup, TombstonedKeys
<1>4. r \in objects'
  BY DEF CommitCleanup
<1> QED
  BY <1>1, <1>3, <1>4 DEF HasLiveObject

-----------------------------------------------------------------------------
(* The inductive invariant *)

\* One step of any method, as the rest of the argument sees it: rows only
\* move ahead, rights and objects accumulate.
Onward ==
  /\ assets' \in [AssetIds -> Asset]
  /\ \A a \in AssetIds :
       /\ SoundRow(assets'[a]) /\ Ahead(assets[a], assets'[a])
       /\ assets[a].source # NoSource => assets'[a].source = assets[a].source
  /\ rights \subseteq rights' /\ rights' \subseteq RightsRecord
  /\ objects \subseteq objects' /\ objects' \subseteq ObjectRecord

\* Bound operations stay truthful while rows move ahead.
LEMMA RepliesStayTrue ==
  ASSUME Core, Onward, NEW o \in OpIds, operations'[o] = operations[o]
  PROVE  BoundToAsset(operations'[o]) /\ (operations'[o].kind = "transition" =>
           LET op == operations'[o] IN
           /\ assets'[op.asset].state # NoState
           /\ op.state \in Stages =>
                Retired(assets'[op.asset]) \/ Reached(assets'[op.asset]) >= Rank[op.state]
           /\ op.state = "blocked" => Retired(assets'[op.asset])
           /\ op.state = "failed_final" => assets'[op.asset].state = "failed_final")
<1> SUFFICES ASSUME operations[o].kind = "transition"
             PROVE  LET op == operations[o] IN
           /\ BoundToAsset(op)
           /\ assets'[op.asset].state # NoState
           /\ op.state \in Stages =>
                Retired(assets'[op.asset]) \/ Reached(assets'[op.asset]) >= Rank[op.state]
           /\ op.state = "blocked" => Retired(assets'[op.asset])
           /\ op.state = "failed_final" => assets'[op.asset].state = "failed_final"
  BY DEF BoundToAsset
<1> DEFINE op == operations[o]
           a == op.asset
<1>1. BoundToAsset(op) /\ a \in AssetIds /\ op.state \in AllStates
  BY DEF Core, BoundToAsset
<1>2. /\ assets[a].state # NoState
      /\ op.state \in Stages =>
           Retired(assets[a]) \/ Reached(assets[a]) >= Rank[op.state]
      /\ op.state = "blocked" => Retired(assets[a])
      /\ op.state = "failed_final" => assets[a].state = "failed_final"
  BY DEF Core, RepliesHold
<1>3. Ahead(assets[a], assets'[a])
  BY <1>1 DEF Onward
<1>4. Reached(assets[a]) \in -1..8 /\ Reached(assets'[a]) \in -1..8
  BY ReachedFacts
<1>5. op.state \in Stages => Rank[op.state] \in 0..8
  BY RankFacts
<1> HIDE DEF op, a
<1>6. /\ assets'[a].state # NoState
      /\ op.state \in Stages =>
           Retired(assets'[a]) \/ Reached(assets'[a]) >= Rank[op.state]
      /\ op.state = "blocked" => Retired(assets'[a])
      /\ op.state = "failed_final" => assets'[a].state = "failed_final"
  BY <1>2, <1>3, <1>4, <1>5 DEF Ahead
<1> QED
  BY <1>1, <1>6 DEF op, a

\* RepliesHold after a step that binds at most o, to kind "upsert".
LEMMA UpsertReplies ==
  ASSUME Core, Onward, NEW o \in OpIds \cup {NoOp}, NEW a \in AssetIds,
         RecordOperation(o, "upsert", a, NoState)
  PROVE  RepliesHold' /\ \A p \in OpIds : BoundToAsset(operations'[p])
<1>1. ASSUME NEW p \in OpIds
      PROVE  operations'[p] = operations[p] \/ operations'[p].kind = "upsert"
  BY <1>1 DEF RecordOperation, Core, TypeOK
<1> QED
  BY <1>1, RepliesStayTrue DEF RepliesHold, BoundToAsset

LEMMA UnrecordedReplies ==
  ASSUME Core, Onward, UNCHANGED operations
  PROVE  RepliesHold' /\ \A p \in OpIds : BoundToAsset(operations'[p])
BY RepliesStayTrue DEF RepliesHold

LEMMA TransitionReplies ==
  ASSUME Core, Onward, NEW o \in OpIds \cup {NoOp}, NEW a \in AssetIds,
         NEW s \in AllStates, RecordOperation(o, "transition", a, s),
         assets'[a].state = s,
         s \in {"blocked", "failed_final"} => Retired(assets'[a])
  PROVE  RepliesHold' /\ \A p \in OpIds : BoundToAsset(operations'[p])
<1>1. s # NoState
  BY StatesDiffer
<1>2. s \in Stages => Reached(assets'[a]) >= Rank[s]
  BY ReachedFacts, RankFacts
<1>3. ASSUME NEW p \in OpIds
      PROVE  \/ operations'[p] = operations[p]
             \/ operations'[p] = [kind |-> "transition", asset |-> a, state |-> s]
  BY <1>3 DEF RecordOperation, Core, TypeOK
<1>4. ASSUME NEW p \in OpIds,
             operations'[p] = [kind |-> "transition", asset |-> a, state |-> s]
      PROVE  LET op == operations'[p] IN
             /\ BoundToAsset(op) /\ assets'[op.asset].state # NoState
             /\ op.state \in Stages =>
                  Retired(assets'[op.asset]) \/ Reached(assets'[op.asset]) >= Rank[op.state]
             /\ op.state = "blocked" => Retired(assets'[op.asset])
             /\ op.state = "failed_final" => assets'[op.asset].state = "failed_final"
  BY <1>1, <1>2, <1>4 DEF BoundToAsset
<1> QED
  BY <1>3, <1>4, RepliesStayTrue DEF RepliesHold

\* The gates of assets that did not enter a stage.
LEMMA GatesLast ==
  ASSUME Core, NEW a \in AssetIds, rights \subseteq rights',
         objects \subseteq objects', tombstones' = tombstones,
         Reached(assets'[a]) <= Reached(assets[a]) \/ Reached(assets'[a]) = 0
  PROVE  /\ Reached(assets'[a]) >= 2 => RightsApproved(a)'
         /\ Reached(assets'[a]) >= 4 => HasLiveObject(a, "raw")'
         /\ Reached(assets'[a]) >= 7 => HasLiveObject(a, "derived")'
<1>1. Reached(assets'[a]) \in -1..8 /\ Reached(assets[a]) \in -1..8
  BY ReachedFacts
<1>2. /\ Reached(assets[a]) >= 2 => RightsApproved(a)
      /\ Reached(assets[a]) >= 4 => HasLiveObject(a, "raw")
      /\ Reached(assets[a]) >= 7 => HasLiveObject(a, "derived")
  BY RankFacts DEF Core, GatesStayHeld
<1> QED
  BY <1>1, <1>2, RightsLast, LiveObjectsLast

\* The key and ownership facts survive steps that add neither object nor
\* tombstone.
LEMMA OwnersLast ==
  ASSUME Core, Onward, objects' = objects, tombstones' = tombstones
  PROVE  KeysHaveOneOwner'
<1>1. ASSUME NEW r \in objects
      PROVE  RightsApproved(r.asset)' /\ (r.type = "object_receipt" =>
               assets'[r.asset].source = r.source)
  <2>1. RightsApproved(r.asset)'
    BY RightsLast DEF Core, KeysHaveOneOwner, Onward
  <2>2. r.asset \in AssetIds /\ r.source \in Sources
    BY DEF Core, TypeOK, ObjectRecord
  <2>3. r.type = "object_receipt" => assets[r.asset].source = r.source
    BY DEF Core, KeysHaveOneOwner
  <2> QED
    BY <2>1, <2>2, <2>3, NullAssumption DEF Onward
<1>2. /\ \A q, r \in objects : q.key = r.key => q = r
      /\ \A t, u \in tombstones : t.key = u.key => t = u
      /\ \A t \in tombstones : \E r \in objects :
           r.type = "object_receipt" /\ r.id = t.receipt /\ r.key = t.key
                                     /\ r.asset = t.asset
  BY DEF Core, KeysHaveOneOwner
<1> QED
  BY <1>1, <1>2 DEF KeysHaveOneOwner

LEMMA CoreInit == Init => Core
<1> SUFFICES ASSUME Init PROVE Core
  OBVIOUS
<1>1. TypeOK
  BY DEF Init, TypeOK, Asset, Operation, Blockers
<1>2. ASSUME NEW a \in AssetIds
      PROVE  SoundRow(assets[a]) /\ Reached(assets[a]) = -1
  <2>1. assets[a].state = NoState /\ assets[a].source = NoSource
    BY DEF Init
  <2> QED
    BY <2>1, ReachedFacts, StatesDiffer DEF SoundRow
<1>3. GatesStayHeld
  BY <1>2, RankFacts DEF GatesStayHeld
<1>4. KeysHaveOneOwner
  BY DEF Init, KeysHaveOneOwner
<1>5. \A o \in OpIds : operations[o].kind = "unbound"
  BY DEF Init
<1> QED
  BY <1>1, <1>2, <1>3, <1>4, <1>5 DEF Core, RepliesHold, BoundToAsset

LEMMA CoreUpsertAsset ==
  ASSUME Core, NEW r \in AssetOffers, NEW o \in OpIds \cup {NoOp},
         UpsertAsset(r, o)
  PROVE  Core' /\ Onward
<1>1. /\ assets' \in [AssetIds -> Asset] /\ r.id \in AssetIds
      /\ \A a \in AssetIds :
           /\ SoundRow(assets'[a]) /\ Ahead(assets[a], assets'[a])
           /\ assets[a].source # NoSource => assets'[a] = assets[a]
           /\ Reached(assets'[a]) <= Reached(assets[a])
                \/ Reached(assets'[a]) = 0
  BY UpsertRow
<1>2. /\ RecordOperation(o, "upsert", r.id, NoState)
      /\ rights' = rights /\ objects' = objects /\ tombstones' = tombstones
  BY DEF UpsertAsset
<1>3. Onward
  BY <1>1, <1>2 DEF Onward, Core, TypeOK
<1>4. TypeOK'
  BY <1>1, <1>2, RecordType DEF Core, TypeOK
<1>5. GatesStayHeld'
  BY <1>1, <1>2, GatesLast, RankFacts DEF GatesStayHeld
<1> QED
  BY <1>1, <1>2, <1>3, <1>4, <1>5, OwnersLast, UpsertReplies DEF Core

LEMMA CoreUpsertRights ==
  ASSUME Core, NEW r \in RightsOffers, NEW o \in OpIds \cup {NoOp},
         UpsertRights(r, o)
  PROVE  Core' /\ Onward
<1>1. r \in RightsRecord /\ r.asset \in AssetIds
  BY OffersAssumption DEF RightsRecord
<1>2. /\ RecordOperation(o, "upsert", r.asset, NoState)
      /\ rights' = rights \cup {r} /\ assets' = assets
      /\ objects' = objects /\ tombstones' = tombstones
  BY DEF UpsertRights
<1>3. Onward
  BY <1>1, <1>2, AheadReflexive DEF Onward, Core, TypeOK
<1>4. TypeOK'
  BY <1>1, <1>2, RecordType DEF Core, TypeOK
<1>5. \A a \in AssetIds : Reached(assets'[a]) <= Reached(assets[a])
  BY <1>2, ReachedFacts
<1>6. GatesStayHeld'
  BY <1>2, <1>5, GatesLast, RankFacts DEF GatesStayHeld
<1> QED
  BY <1>1, <1>2, <1>3, <1>4, <1>6, OwnersLast, UpsertReplies DEF Core, Onward

LEMMA CoreUpsertObject ==
  ASSUME Core, NEW r \in ObjectOffers, NEW o \in OpIds \cup {NoOp},
         UpsertObject(r, o)
  PROVE  Core' /\ Onward
<1>1. r \in ObjectRecord /\ r.asset \in AssetIds
  BY OffersAssumption DEF ObjectRecord
<1>2. /\ RecordOperation(o, "upsert", r.asset, NoState)
      /\ objects' = objects \cup {r} /\ assets' = assets
      /\ rights' = rights /\ tombstones' = tombstones
  BY DEF UpsertObject
<1>3. Onward
  BY <1>1, <1>2, AheadReflexive DEF Onward, Core, TypeOK
<1>4. TypeOK'
  BY <1>1, <1>2, RecordType DEF Core, TypeOK
<1>5. \A a \in AssetIds : Reached(assets'[a]) <= Reached(assets[a])
  BY <1>2, ReachedFacts
<1>6. GatesStayHeld'
  BY <1>2, <1>5, GatesLast, RankFacts DEF GatesStayHeld
<1>7. KeysHaveOneOwner'
  <2>1. \A q \in objects : q.key = r.key => q = r
    BY DEF UpsertObject, KeyFree
  <2>2. \A p, q \in objects' : p.key = q.key => p = q
    BY <1>2, <2>1 DEF Core, KeysHaveOneOwner
  <2>3. \A q \in objects' : RightsApproved(q.asset)
          /\ (q.type = "object_receipt" => assets[q.asset].source = q.source)
    BY <1>2 DEF Core, KeysHaveOneOwner, UpsertObject
  <2>4. \A a : RightsApproved(a) => RightsApproved(a)'
    BY <1>2, RightsLast
  <2>5. /\ \A t, u \in tombstones : t.key = u.key => t = u
        /\ \A t \in tombstones : \E q \in objects' :
             q.type = "object_receipt" /\ q.id = t.receipt /\ q.key = t.key
                                       /\ q.asset = t.asset
    BY <1>2 DEF Core, KeysHaveOneOwner
  <2> QED
    BY <1>2, <2>2, <2>3, <2>4, <2>5 DEF KeysHaveOneOwner
<1> QED
  BY <1>1, <1>2, <1>3, <1>4, <1>6, <1>7, UpsertReplies DEF Core, Onward

LEMMA CoreTransition ==
  ASSUME Core, NEW a \in AssetIds, NEW s \in AllStates,
         NEW b \in {NoBlocker, "reason"}, NEW o \in OpIds \cup {NoOp},
         TransitionAsset(a, s, b, o)
  PROVE  Core' /\ Onward
<1>1. /\ assets' \in [AssetIds -> Asset]
      /\ \A c \in AssetIds \ {a} : assets'[c] = assets[c]
      /\ SoundRow(assets'[a]) /\ Ahead(assets[a], assets'[a])
      /\ assets'[a].source = assets[a].source
      /\ assets'[a].state = s
      /\ s \in {"blocked", "failed_final"} => Retired(assets'[a])
      /\ RecordOperation(o, "transition", a, s)
      /\ rights' = rights /\ objects' = objects /\ tombstones' = tombstones
  BY TransitionRow
<1>2. \/ Reached(assets'[a]) <= Reached(assets[a])
      \/ /\ s \in Stages /\ Gates(a, s) /\ Reached(assets'[a]) = Rank[s]
         /\ Rank[s] = Reached(assets[a]) + 1
  BY TransitionRow
<1>3. Onward
  BY <1>1, AheadReflexive DEF Onward, Core, TypeOK
<1>4. TypeOK'
  BY <1>1, RecordType DEF Core, TypeOK
<1>5. ASSUME NEW c \in AssetIds \ {a}
      PROVE  Reached(assets'[c]) <= Reached(assets[c])
  BY <1>1, ReachedFacts
<1>6. ASSUME s \in Stages, Gates(a, s), Reached(assets'[a]) = Rank[s],
             Rank[s] = Reached(assets[a]) + 1
      PROVE  /\ Reached(assets'[a]) >= 2 => RightsApproved(a)'
             /\ Reached(assets'[a]) >= 4 => HasLiveObject(a, "raw")'
             /\ Reached(assets'[a]) >= 7 => HasLiveObject(a, "derived")'
  <2>1. /\ Rank[s] >= 2 => RightsApproved(a)
        /\ Rank[s] = 4 => HasLiveObject(a, "raw")
        /\ Rank[s] = 7 => HasLiveObject(a, "derived")
    BY <1>6, RankFacts, RankIsInjective, StatesDiffer DEF Gates
  <2>2. /\ Reached(assets[a]) >= 4 => HasLiveObject(a, "raw")
        /\ Reached(assets[a]) >= 7 => HasLiveObject(a, "derived")
    BY RankFacts DEF Core, GatesStayHeld
  <2>3. Reached(assets[a]) \in -1..8
    BY ReachedFacts
  <2>4. /\ Rank[s] >= 4 => HasLiveObject(a, "raw")
        /\ Rank[s] >= 7 => HasLiveObject(a, "derived")
    BY <1>6, <2>1, <2>2, <2>3
  <2> QED
    BY <1>1, <1>6, <2>1, <2>4, RightsLast, LiveObjectsLast
<1>7. GatesStayHeld'
  BY <1>1, <1>2, <1>5, <1>6, GatesLast, RankFacts DEF GatesStayHeld
<1> QED
  BY <1>1, <1>3, <1>4, <1>7, OwnersLast, TransitionReplies DEF Core, Onward

LEMMA CoreCleanup ==
  ASSUME Core, NEW a \in AssetIds, NEW w \in Works,
         NEW cleaned \in SUBSET Receipts(a),
         CommitCleanup({Planned(r, w) : r \in cleaned})
  PROVE  Core' /\ Onward
<1> DEFINE values == {Planned(r, w) : r \in cleaned}
<1>1. values \subseteq Tombstone
  BY DEF Core, TypeOK, Receipts, Planned, Tombstone, ObjectRecord
<1>2. CommitCleanup(values)
  OBVIOUS
<1> HIDE DEF values
<1>3. /\ assets' \in [AssetIds -> Asset]
      /\ \A c \in AssetIds :
           /\ SoundRow(assets'[c]) /\ Ahead(assets[c], assets'[c])
           /\ assets'[c].source = assets[c].source
           /\ Reached(assets'[c]) <= Reached(assets[c])
           /\ c \in {t.asset : t \in values} => Reached(assets'[c]) < 4
  BY <1>2, CleanupRows
<1>4. /\ rights' = rights /\ objects' = objects /\ operations' = operations
      /\ tombstones' = tombstones \cup values
  BY <1>2 DEF CommitCleanup
<1>5. Onward
  BY <1>3, <1>4 DEF Onward, Core, TypeOK
<1>6. TypeOK'
  BY <1>1, <1>3, <1>4 DEF Core, TypeOK
<1>7. ASSUME NEW c \in AssetIds
      PROVE  /\ Reached(assets'[c]) >= 2 => RightsApproved(c)'
             /\ Reached(assets'[c]) >= 4 => HasLiveObject(c, "raw")'
             /\ Reached(assets'[c]) >= 7 => HasLiveObject(c, "derived")'
  <2>1. Reached(assets'[c]) \in -1..8 /\ Reached(assets[c]) \in -1..8
    BY ReachedFacts
  <2>2. Reached(assets'[c]) <= Reached(assets[c])
        /\ (c \in {t.asset : t \in values} => Reached(assets'[c]) < 4)
    BY <1>3
  <2>3. /\ Reached(assets[c]) >= 2 => RightsApproved(c)
        /\ Reached(assets[c]) >= 4 => HasLiveObject(c, "raw")
        /\ Reached(assets[c]) >= 7 => HasLiveObject(c, "derived")
    BY RankFacts DEF Core, GatesStayHeld
  <2>4. RightsApproved(c) => RightsApproved(c)'
    BY <1>4, RightsLast
  <2>5. CASE c \in {t.asset : t \in values}
    BY <2>1, <2>2, <2>3, <2>4, <2>5
  <2>6. CASE c \notin {t.asset : t \in values}
    BY <1>2, <2>1, <2>2, <2>3, <2>4, <2>6, OthersStayLive DEF Core
  <2> QED
    BY <2>5, <2>6
<1>8. GatesStayHeld'
  BY <1>7, RankFacts DEF GatesStayHeld
<1>9. KeysHaveOneOwner'
  <2>1. \A t, u \in tombstones' : t.key = u.key => t = u
    BY <1>2, <1>4 DEF CommitCleanup, Committable, Core, KeysHaveOneOwner
  <2>2. \A t \in tombstones' : \E r \in objects' :
          r.type = "object_receipt" /\ r.id = t.receipt /\ r.key = t.key
                                    /\ r.asset = t.asset
    BY <1>2, <1>4 DEF CommitCleanup, Committable, Core, KeysHaveOneOwner
  <2>3. ASSUME NEW r \in objects
        PROVE  RightsApproved(r.asset)' /\ (r.type = "object_receipt" =>
                 assets'[r.asset].source = r.source)
    <3>1. r.asset \in AssetIds
      BY DEF Core, TypeOK, ObjectRecord
    <3>2. RightsApproved(r.asset)
          /\ (r.type = "object_receipt" => assets[r.asset].source = r.source)
      BY DEF Core, KeysHaveOneOwner
    <3> QED
      BY <1>3, <1>4, <3>1, <3>2, RightsLast
  <2>4. \A q, r \in objects' : q.key = r.key => q = r
    BY <1>4 DEF Core, KeysHaveOneOwner
  <2> QED
    BY <1>4, <2>1, <2>2, <2>3, <2>4 DEF KeysHaveOneOwner
<1> QED
  BY <1>3, <1>4, <1>5, <1>6, <1>8, <1>9, UnrecordedReplies DEF Core

LEMMA CoreStutter ==
  ASSUME Core, UNCHANGED vars
  PROVE  Core' /\ Onward
<1>1. /\ assets' = assets /\ rights' = rights /\ objects' = objects
      /\ tombstones' = tombstones /\ operations' = operations
  BY DEF vars
<1>2. Onward
  BY <1>1, AheadReflexive DEF Onward, Core, TypeOK
<1>3. \A a \in AssetIds : Reached(assets'[a]) <= Reached(assets[a])
  BY <1>1, ReachedFacts
<1>4. GatesStayHeld'
  BY <1>1, <1>3, GatesLast, RankFacts DEF GatesStayHeld
<1>5. TypeOK'
  BY <1>1 DEF Core, TypeOK
<1> QED
  BY <1>1, <1>2, <1>4, <1>5, OwnersLast, UnrecordedReplies DEF Core, Onward

LEMMA CoreStep == Core /\ [Next]_vars => Core' /\ Onward
<1> SUFFICES ASSUME Core, [Next]_vars PROVE Core' /\ Onward
  OBVIOUS
<1>1. ASSUME NEW o \in OpIds \cup {NoOp}, NEW r \in AssetOffers, UpsertAsset(r, o)
      PROVE  Core' /\ Onward
  BY <1>1, CoreUpsertAsset
<1>2. ASSUME NEW o \in OpIds \cup {NoOp}, NEW r \in RightsOffers, UpsertRights(r, o)
      PROVE  Core' /\ Onward
  BY <1>2, CoreUpsertRights
<1>3. ASSUME NEW o \in OpIds \cup {NoOp}, NEW r \in ObjectOffers, UpsertObject(r, o)
      PROVE  Core' /\ Onward
  BY <1>3, CoreUpsertObject
<1>4. ASSUME NEW o \in OpIds \cup {NoOp}, NEW a \in AssetIds, NEW s \in AllStates,
             NEW b \in {NoBlocker, "reason"}, TransitionAsset(a, s, b, o)
      PROVE  Core' /\ Onward
  BY <1>4, CoreTransition
<1>5. ASSUME NEW a \in AssetIds, NEW w \in Works, NEW cleaned \in SUBSET Receipts(a),
             CommitCleanup({Planned(r, w) : r \in cleaned})
      PROVE  Core' /\ Onward
  BY <1>5, CoreCleanup
<1>6. CASE UNCHANGED vars
  BY <1>6, CoreStutter
<1> QED
  BY <1>1, <1>2, <1>3, <1>4, <1>5, <1>6 DEF Next

-----------------------------------------------------------------------------
(* The theorems *)

LEMMA CoreHolds == Spec => []Core
<1>1. Core /\ [Next]_vars => Core'
  BY CoreStep
<1> QED
  BY CoreInit, <1>1, PTL DEF Spec

\* The tables always hold rows of their types.
THEOREM AssetsTypeCorrect == Spec => []TypeOK
<1>1. Core => TypeOK
  BY DEF Core
<1> QED
  BY CoreHolds, <1>1, PTL

\* What let an asset into its stage, transition_asset's rights and object
\* gates, is true for as long as it stays there or may resume there.
THEOREM GatesHold == Spec => []GatesStayHeld
<1>1. Core => GatesStayHeld
  BY DEF Core
<1> QED
  BY CoreHolds, <1>1, PTL

\* upsert and the cleanup commit keep every object key with one receipt, one
\* tombstone and one rights-approved asset.
THEOREM KeysHoldOneOwner == Spec => []KeysHaveOneOwner
<1>1. Core => KeysHaveOneOwner
  BY DEF Core
<1> QED
  BY CoreHolds, <1>1, PTL

\* Replays of transition operation ids never mislead.
THEOREM RepliesAreTrue == Spec => []RepliesHold
<1>1. Core => RepliesHold
  BY DEF Core
<1> QED
  BY CoreHolds, <1>1, PTL

\* No sequence of calls skips, repeats or leaves backwards a lifecycle stage,
\* or revives an asset that was blocked or failed for good.
THEOREM LifecycleInOrder == Spec => StagesInOrder
<1> DEFINE InOrder ==
      \A a \in AssetIds :
       /\ Retired(assets[a]) => Retired(assets'[a])
       /\ ~Retired(assets[a]) /\ ~Retired(assets'[a]) =>
            Reached(assets'[a]) \in {Reached(assets[a]), Reached(assets[a]) + 1}
       /\ assets[a].state \in {"indexed", "failed_final"} =>
            assets'[a].state \in {assets[a].state, "blocked"}
<1>1. Core /\ [Next]_vars => InOrder
  <2> SUFFICES ASSUME Core, [Next]_vars, NEW a \in AssetIds
               PROVE  Ahead(assets[a], assets'[a])
    BY DEF Ahead
  <2> QED
    BY CoreStep DEF Onward
<1>2. Core /\ [Next]_vars => [InOrder]_vars
  BY <1>1
<1> QED
  BY CoreHolds, <1>2, PTL DEF Spec, StagesInOrder

-----------------------------------------------------------------------------
(***************************************************************************)
(* CorpusObjects: the creators, runs and cleanups over those tables.       *)
(***************************************************************************)

(* The guard freezes the lineage a cleanup validated. *)

LEMMA FrozenInit == CorpusInit => LineageFrozen
BY DEF CorpusInit, LineageFrozen, IdleCleaner

\* What a cleanup validated: its work and the records its lineage is made of.
Validated == <<objects, manifests, work>>

\* Only CommitReceipt records receipts and only RecordManifest manifests, and
\* neither while the guard is held.
LEMMA ReceiptsUnderGuard ==
  ASSUME [CorpusNext]_allVars, cleaner.pc # "idle"
  PROVE  UNCHANGED Validated
<1> USE DEF UnchangedLedger, vars, Validated
<1>1. ASSUME NEW w \in Creators, NEW k \in Keys, NEW run \in Runs,
             ReadDurable(w, k, run)
      PROVE  UNCHANGED Validated
  BY <1>1 DEF ReadDurable, Locally, Step
<1>2. ASSUME NEW w \in Creators,
             \/ ReadTombstone(w) \/ HeadBeforeCreate(w) \/ VerifyCreated(w)
             \/ CreatorDies(w)
      PROVE  UNCHANGED Validated
  BY <1>2 DEF ReadTombstone, HeadBeforeCreate, VerifyCreated, CreatorDies,
              Raises, Locally, Step
<1>3. ASSUME NEW w \in Creators, CreateIfAbsent(w)
      PROVE  UNCHANGED Validated
  BY <1>3 DEF CreateIfAbsent, Step
<1>4. ASSUME NEW w \in Creators, CommitReceipt(w)
      PROVE  FALSE
  BY <1>4 DEF CommitReceipt, GuardFree
<1>5. ASSUME NEW id \in WorkIds, NEW a \in AssetIds, NEW run \in Runs,
             BuildWork(id, a, run)
      PROVE  FALSE
  BY <1>5 DEF BuildWork
<1>6. CASE \/ BeginCleanup \/ DeleteTarget \/ ConfirmAbsent \/ Recheck
           \/ CommitFails \/ CleanerDies \/ Tick \/ Decide
  BY <1>6 DEF BeginCleanup, DeleteTarget, ConfirmAbsent, Recheck, CommitFails,
              CleanerDies, Tick, Decide, CleanerStep
<1>7. ASSUME NEW k \in Keys, HeadTarget(k)
      PROVE  UNCHANGED Validated
  BY <1>7 DEF HeadTarget, CleanerStep
<1>8. CASE CommitTombstones
  BY <1>8 DEF CommitTombstones, CommitCleanup, CleanerStep
<1>9. ASSUME NEW d \in Derivations, RecordManifest(d)
      PROVE  FALSE
  BY <1>9 DEF RecordManifest, GuardFree
<1>10. CASE UNCHANGED allVars
  BY <1>10 DEF allVars, corpusVars
<1> QED
  BY <1>1, <1>2, <1>3, <1>4, <1>5, <1>6, <1>7, <1>8, <1>9, <1>10 DEF CorpusNext

\* A cleaner that was idle works only after BeginCleanup has validated.
LEMMA CleanerStarts ==
  ASSUME [CorpusNext]_allVars, cleaner.pc = "idle", cleaner'.pc # "idle"
  PROVE  /\ <<work.targets, work.manifests>> = LineageOf(work.asset)
         /\ UNCHANGED Validated
<1> USE DEF UnchangedLedger, vars
<1>1. ASSUME NEW w \in Creators,
             \/ \E k \in Keys, run \in Runs : ReadDurable(w, k, run)
             \/ ReadTombstone(w) \/ HeadBeforeCreate(w) \/ VerifyCreated(w)
             \/ CreatorDies(w)
      PROVE  FALSE
  BY <1>1 DEF ReadDurable, ReadTombstone, HeadBeforeCreate, VerifyCreated,
              CreatorDies, Raises, Locally, Step
<1>2. ASSUME NEW w \in Creators, CreateIfAbsent(w) \/ CommitReceipt(w)
      PROVE  FALSE
  BY <1>2 DEF CreateIfAbsent, CommitReceipt, Step
<1>3. ASSUME NEW id \in WorkIds, NEW a \in AssetIds, NEW run \in Runs,
             BuildWork(id, a, run)
      PROVE  FALSE
  BY <1>3 DEF BuildWork
<1>4. CASE BeginCleanup
  BY <1>4 DEF BeginCleanup, CleanerStep, Validated
<1>5. CASE \/ DeleteTarget \/ ConfirmAbsent \/ Recheck \/ CommitTombstones
           \/ CommitFails \/ CleanerDies \/ Tick \/ Decide
  BY <1>5 DEF DeleteTarget, ConfirmAbsent, Recheck, CommitTombstones,
              CommitFails, CleanerDies, Tick, Decide
<1>6. ASSUME NEW k \in Keys, HeadTarget(k)
      PROVE  FALSE
  BY <1>6 DEF HeadTarget
<1>7. ASSUME NEW d \in Derivations, RecordManifest(d)
      PROVE  FALSE
  BY <1>7 DEF RecordManifest
<1>8. CASE UNCHANGED allVars
  BY <1>8 DEF allVars, corpusVars
<1> QED
  BY <1>1, <1>2, <1>3, <1>4, <1>5, <1>6, <1>7, <1>8 DEF CorpusNext

\* From validation to tombstones, the cleanup's targets are the complete
\* lineage of the asset: exact_cleanup_guard keeps every receipt and every
\* derivation manifest out.
THEOREM LineageIsFrozen == CorpusSpec => []LineageFrozen
<1>1. LineageFrozen /\ [CorpusNext]_allVars => LineageFrozen'
  <2> SUFFICES ASSUME LineageFrozen, [CorpusNext]_allVars, cleaner'.pc # "idle"
               PROVE  (<<work.targets, work.manifests>> = LineageOf(work.asset))'
    BY DEF LineageFrozen
  <2>1. /\ <<work.targets, work.manifests>> = LineageOf(work.asset)
        /\ objects' = objects /\ manifests' = manifests /\ work' = work
    BY ReceiptsUnderGuard, CleanerStarts DEF LineageFrozen, Validated
  <2> QED
    BY <2>1 DEF LineageOf, ManifestsOf, Receipts
<1> QED
  BY FrozenInit, <1>1, PTL DEF CorpusSpec

-----------------------------------------------------------------------------
(***************************************************************************)
(* Receipts tell the truth.  The inductive invariant says what a call of   *)
(* immutable_create_and_verify knows at each point: a durable receipt it   *)
(* found is in the ledger; one about to be verified as "created" is the    *)
(* run's own; one about to be committed has been seen in the bucket.       *)
(***************************************************************************)
Truthful(st, rm, obs) ==
  \A r \in obs :
    /\ r.key \in Keys
    /\ r.key \notin rm =>
         /\ Matching(st[r.key])
         /\ r.body.disposition = "created" => st[r.key] = r.body.run

Knows(c, st, rm, obs) ==
  /\ c.pc # "idle" => c.key \in Keys /\ c.run \in Runs
  /\ c.pc \in {"create", "verify"} => ~c.durable
  /\ c.pc \in {"tombstone", "head"} /\ c.durable =>
       \E r \in obs : r.key = c.key /\ r.body.run = c.run
                                    /\ r.body.disposition = c.disposition
  /\ c.key \notin rm =>
       /\ c.pc \in {"verify", "commit"} /\ c.disposition = "created" =>
            st[c.key] = c.run
       /\ c.pc = "commit" => Matching(st[c.key])

TruthCore ==
  /\ store \in [Keys -> Contents]
  /\ creators \in [Creators -> Creator]
  /\ \A w \in Creators : Knows(creators[w], store, removed, objects)
  /\ Truthful(store, removed, objects)

\* The bucket changes only at removed keys and at absent ones.
Settles(st, rm, st2, rm2) ==
  /\ rm \subseteq rm2
  /\ \A k \in Keys : k \notin rm2 => st2[k] = st[k] \/ st[k] = "absent"

LEMMA ContentsDiffer ==
  /\ ~Matching("absent") /\ ~Matching("foreign")
  /\ \A run \in Runs : Matching(run) /\ run # "absent"
BY CorpusAssumption DEF Matching

LEMMA KnowledgeLasts ==
  ASSUME NEW c, NEW st, NEW rm, NEW obs, NEW st2, NEW rm2, NEW obs2,
         Knows(c, st, rm, obs), Settles(st, rm, st2, rm2), obs \subseteq obs2
  PROVE  Knows(c, st2, rm2, obs2)
BY ContentsDiffer DEF Knows, Settles

LEMMA TruthLasts ==
  ASSUME NEW st, NEW rm, NEW obs, NEW st2, NEW rm2,
         Truthful(st, rm, obs), Settles(st, rm, st2, rm2)
  PROVE  Truthful(st2, rm2, obs)
BY ContentsDiffer DEF Truthful, Settles

\* A step of one creator that records nothing.
LEMMA CreatorSteps ==
  ASSUME TruthCore, NEW w \in Creators, NEW c \in Creator,
         creators' = [creators EXCEPT ![w] = c],
         store' \in [Keys -> Contents], objects' = objects,
         Settles(store, removed, store', removed'),
         Knows(c, store', removed', objects)
  PROVE  TruthCore'
<1>1. \A v \in Creators : Knows(creators'[v], store', removed', objects')
  BY KnowledgeLasts DEF TruthCore
<1>2. Truthful(store', removed', objects')
  BY TruthLasts DEF TruthCore
<1> QED
  BY <1>1, <1>2 DEF TruthCore

\* A step that leaves creators and receipts alone.
LEMMA OthersStep ==
  ASSUME TruthCore, creators' = creators, objects' = objects,
         store' \in [Keys -> Contents], Settles(store, removed, store', removed')
  PROVE  TruthCore'
<1>1. \A v \in Creators : Knows(creators'[v], store', removed', objects')
  BY KnowledgeLasts DEF TruthCore
<1>2. Truthful(store', removed', objects')
  BY TruthLasts DEF TruthCore
<1> QED
  BY <1>1, <1>2 DEF TruthCore

LEMMA NothingSettles ==
  ASSUME store' = store, removed' = removed
  PROVE  Settles(store, removed, store', removed')
BY DEF Settles

LEMMA IdleKnows ==
  /\ IdleCreator \in Creator
  /\ \A st, rm, obs : Knows(IdleCreator, st, rm, obs)
BY DEF IdleCreator, Creator, Knows, Dispositions

LEMMA RaisesKeepsTruth ==
  ASSUME TruthCore, NEW w \in Creators, Raises(w)
  PROVE  TruthCore'
BY IdleKnows, NothingSettles, CreatorSteps
   DEF Raises, Locally, Step, UnchangedLedger, vars, TruthCore

\* A step that only changes what one creator knows.
LEMMA LocalSteps ==
  ASSUME TruthCore, NEW w \in Creators, NEW c \in Creator, Locally(w, c),
         Knows(c, store, removed, objects)
  PROVE  TruthCore'
<1>1. /\ creators' = [creators EXCEPT ![w] = c] /\ store' = store
      /\ removed' = removed /\ objects' = objects
  BY DEF Locally, Step, UnchangedLedger, vars
<1> QED
  BY <1>1, NothingSettles, CreatorSteps DEF TruthCore

LEMMA CreatorRow ==
  ASSUME TruthCore, NEW w \in Creators
  PROVE  creators[w] \in Creator /\ Knows(creators[w], store, removed, objects)
BY DEF TruthCore

\* A creator's record after it moves on to pc, and with another disposition.
LEMMA MovedOn ==
  ASSUME NEW c \in Creator, NEW pc \in {"head", "create", "verify", "commit"}
  PROVE  LET new == [c EXCEPT !.pc = pc]
         IN  /\ new \in Creator /\ new.pc = pc /\ new.key = c.key
             /\ new.run = c.run /\ new.durable = c.durable
             /\ new.disposition = c.disposition
BY DEF Creator

LEMMA ReadDurableKeepsTruth ==
  ASSUME TruthCore, NEW w \in Creators, NEW k \in Keys, NEW run \in Runs,
         ReadDurable(w, k, run)
  PROVE  TruthCore'
<1>1. PICK d \in Dispositions :
        /\ IF Durable(k) = {} THEN d = "created"
                              ELSE \E r \in Durable(k) : d = r.body.disposition
        /\ Locally(w, [pc |-> "tombstone", key |-> k, run |-> run,
                       durable |-> Durable(k) # {}, disposition |-> d])
  BY DEF ReadDurable
<1> DEFINE found == Durable(k) # {}
           c == [pc |-> "tombstone", key |-> k, run |-> run,
                 durable |-> found, disposition |-> d]
<1>2. found => \E r \in objects : r.key = k /\ r.body.run = run
                                          /\ r.body.disposition = d
  BY <1>1 DEF ReadDurable, Durable
<1>3. found \in BOOLEAN
  OBVIOUS
<1>4. Locally(w, c)
  BY <1>1
<1> HIDE DEF found
<1>5. c \in Creator
  BY <1>3 DEF Creator
<1>6. Knows(c, store, removed, objects)
  BY <1>2, <1>3 DEF Knows
<1> QED
  BY <1>4, <1>5, <1>6, LocalSteps

LEMMA ReadTombstoneKeepsTruth ==
  ASSUME TruthCore, NEW w \in Creators, ReadTombstone(w)
  PROVE  TruthCore'
<1> DEFINE c == creators[w]
           new == [c EXCEPT !.pc = "head"]
<1>1. c.pc = "tombstone" /\ c \in Creator /\ Knows(c, store, removed, objects)
  BY CreatorRow DEF ReadTombstone
<1>2. CASE Raises(w)
  BY <1>2, RaisesKeepsTruth
<1>3. CASE Locally(w, new)
  <2>1. /\ new \in Creator /\ new.pc = "head" /\ new.key = c.key /\ new.run = c.run
        /\ new.durable = c.durable /\ new.disposition = c.disposition
    BY <1>1, MovedOn
  <2> HIDE DEF new
  <2>2. Knows(new, store, removed, objects)
    BY <1>1, <2>1 DEF Knows
  <2> QED
    BY <1>3, <2>1, <2>2, LocalSteps
<1> QED
  BY <1>2, <1>3 DEF ReadTombstone

LEMMA HeadKeepsTruth ==
  ASSUME TruthCore, NEW w \in Creators, HeadBeforeCreate(w)
  PROVE  TruthCore'
<1> DEFINE c == creators[w]
<1>1. c.pc = "head" /\ c \in Creator /\ Knows(c, store, removed, objects)
  BY CreatorRow DEF HeadBeforeCreate
<1>2. CASE Raises(w)
  BY <1>2, RaisesKeepsTruth
<1>3. CASE /\ Matching(store[c.key]) /\ c.durable
           /\ Locally(w, [c EXCEPT !.pc = "commit"])
  <2> DEFINE new == [c EXCEPT !.pc = "commit"]
  <2>1. /\ new \in Creator /\ new.pc = "commit" /\ new.key = c.key /\ new.run = c.run
        /\ new.durable = c.durable /\ new.disposition = c.disposition
    BY <1>1, MovedOn
  <2>2. Locally(w, new)
    BY <1>3
  <2> HIDE DEF new
  <2>3. PICK r \in objects : r.key = c.key /\ r.body.run = c.run
                                        /\ r.body.disposition = c.disposition
    BY <1>1, <1>3 DEF Knows
  <2>4. Truthful(store, removed, objects)
    BY DEF TruthCore
  <2>5. Knows(new, store, removed, objects)
    BY <1>1, <1>3, <2>1, <2>3, <2>4 DEF Knows, Truthful
  <2> QED
    BY <2>1, <2>2, <2>5, LocalSteps
<1>4. CASE /\ Matching(store[c.key]) /\ ~c.durable
           /\ Locally(w, [c EXCEPT !.pc = "verify", !.disposition = "reused"])
  <2> DEFINE new == [c EXCEPT !.pc = "verify", !.disposition = "reused"]
  <2>1. /\ new \in Creator /\ new.pc = "verify" /\ new.key = c.key /\ new.run = c.run
        /\ new.durable = c.durable /\ new.disposition = "reused"
    <3>1. c \in Creator /\ "reused" \in Dispositions
      BY <1>1 DEF Dispositions
    <3>2. PICK row, n : row = c /\ n = [row EXCEPT !.pc = "verify", !.disposition = "reused"]
      OBVIOUS
    <3>3. /\ n \in Creator /\ n.pc = "verify" /\ n.key = row.key /\ n.run = row.run
          /\ n.durable = row.durable /\ n.disposition = "reused"
      BY <3>1, <3>2 DEF Creator
    <3>4. QED
      BY <3>2, <3>3
  <2>2. Locally(w, new)
    BY <1>4
  <2> HIDE DEF new
  <2>3. Knows(new, store, removed, objects)
    BY <1>1, <1>4, <2>1 DEF Knows
  <2> QED
    BY <2>1, <2>2, <2>3, LocalSteps
<1>5. CASE ~c.durable /\ Locally(w, [c EXCEPT !.pc = "create"])
  <2> DEFINE new == [c EXCEPT !.pc = "create"]
  <2>1. /\ new \in Creator /\ new.pc = "create" /\ new.key = c.key /\ new.run = c.run
        /\ new.durable = c.durable /\ new.disposition = c.disposition
    BY <1>1, MovedOn
  <2>2. Locally(w, new)
    BY <1>5
  <2> HIDE DEF new
  <2>3. Knows(new, store, removed, objects)
    BY <1>1, <1>5, <2>1 DEF Knows
  <2> QED
    BY <2>1, <2>2, <2>3, LocalSteps
<1> QED
  BY <1>2, <1>3, <1>4, <1>5 DEF HeadBeforeCreate

LEMMA CreateKeepsTruth ==
  ASSUME TruthCore, NEW w \in Creators, CreateIfAbsent(w)
  PROVE  TruthCore'
<1> DEFINE c == creators[w]
<1>1. c.pc = "create" /\ c \in Creator /\ Knows(c, store, removed, objects)
  BY CreatorRow DEF CreateIfAbsent
<1>2. PICK applied, replied \in BOOLEAN :
        /\ IF store[c.key] # "absent" THEN ~applied ELSE (replied => applied)
        /\ store' = IF applied THEN [store EXCEPT ![c.key] = c.run] ELSE store
        /\ Step(w, [c EXCEPT !.pc = "verify",
                             !.disposition = Disposition(applied, replied)])
  BY DEF CreateIfAbsent
<1> DEFINE d == Disposition(applied, replied)
           new == [c EXCEPT !.pc = "verify", !.disposition = d]
<1>3. d \in Dispositions /\ (d = "created" => applied)
  BY DEF Disposition, Dispositions
<1> HIDE DEF d
<1>4. /\ new \in Creator /\ new.pc = "verify" /\ new.key = c.key /\ new.run = c.run
      /\ new.durable = c.durable /\ new.disposition = d
  <2>1. PICK row, n : row = c /\ n = [row EXCEPT !.pc = "verify", !.disposition = d]
    OBVIOUS
  <2>2. /\ n \in Creator /\ n.pc = "verify" /\ n.key = row.key /\ n.run = row.run
        /\ n.durable = row.durable /\ n.disposition = d
    BY <1>1, <1>3, <2>1 DEF Creator
  <2>3. QED
    BY <2>1, <2>2
<1>5. creators' = [creators EXCEPT ![w] = new] /\ removed' = removed
  BY <1>2 DEF Step, d
<1>6. objects' = objects
  BY DEF CreateIfAbsent, UnchangedLedger, vars
<1> HIDE DEF new
<1>7. c.key \in Keys /\ c.run \in Runs /\ store \in [Keys -> Contents]
      /\ ~c.durable
  BY <1>1 DEF Knows, TruthCore
<1>8. store' \in [Keys -> Contents]
  BY <1>2, <1>7 DEF Contents
<1>9. Settles(store, removed, store', removed')
  BY <1>2, <1>5, <1>7 DEF Settles
<1>10. applied => store'[c.key] = c.run
  BY <1>2, <1>7
<1>11. Knows(new, store', removed', objects)
  BY <1>3, <1>4, <1>5, <1>7, <1>10 DEF Knows
<1> QED
  BY <1>4, <1>5, <1>6, <1>8, <1>9, <1>11, CreatorSteps

LEMMA VerifyKeepsTruth ==
  ASSUME TruthCore, NEW w \in Creators, VerifyCreated(w)
  PROVE  TruthCore'
<1> DEFINE c == creators[w]
           new == [c EXCEPT !.pc = "commit"]
<1>1. c.pc = "verify" /\ c \in Creator /\ Knows(c, store, removed, objects)
  BY CreatorRow DEF VerifyCreated
<1>2. CASE Raises(w)
  BY <1>2, RaisesKeepsTruth
<1>3. CASE Matching(store[c.key]) /\ Locally(w, new)
  <2>1. /\ new \in Creator /\ new.pc = "commit" /\ new.key = c.key /\ new.run = c.run
        /\ new.durable = c.durable /\ new.disposition = c.disposition
    BY <1>1, MovedOn
  <2> HIDE DEF new
  <2>2. Knows(new, store, removed, objects)
    BY <1>1, <1>3, <2>1 DEF Knows
  <2> QED
    BY <1>3, <2>1, <2>2, LocalSteps
<1> QED
  BY <1>2, <1>3 DEF VerifyCreated

LEMMA CommitKeepsTruth ==
  ASSUME TruthCore, NEW w \in Creators, CommitReceipt(w)
  PROVE  TruthCore'
<1> DEFINE c == creators[w]
           r == Receipt(c.key, c.run, c.disposition)
<1>1. c.pc = "commit" /\ c \in Creator /\ Knows(c, store, removed, objects)
  BY CreatorRow DEF CommitReceipt
<1>2. /\ creators' = [creators EXCEPT ![w] = IdleCreator]
      /\ store' = store /\ removed' = removed
  BY DEF CommitReceipt, Step
<1>3. objects' = objects \/ objects' = objects \cup {r}
  BY DEF CommitReceipt, UpsertObject, UnchangedLedger, vars
<1>4. r.key = c.key /\ r.body.run = c.run /\ r.body.disposition = c.disposition
  BY DEF Receipt
<1> HIDE DEF r
<1>5. Truthful(store', removed', objects')
  BY <1>1, <1>2, <1>3, <1>4 DEF Knows, Truthful, TruthCore
<1>6. \A v \in Creators : Knows(creators'[v], store', removed', objects')
  <2>1. Settles(store, removed, store', removed') /\ objects \subseteq objects'
    BY <1>2, <1>3, NothingSettles
  <2>2. \A v \in Creators : creators'[v] \in {creators[v], IdleCreator}
    BY <1>2 DEF TruthCore
  <2> QED
    BY <2>1, <2>2, IdleKnows, KnowledgeLasts DEF TruthCore
<1> QED
  BY <1>2, <1>5, <1>6, IdleKnows DEF TruthCore

LEMMA DeleteKeepsTruth ==
  ASSUME TruthCore, DeleteTarget
  PROVE  TruthCore'
<1>1. PICK applied \in BOOLEAN :
        /\ store' = IF applied THEN [store EXCEPT ![cleaner.key] = "absent"] ELSE store
        /\ removed' = IF applied THEN removed \cup {cleaner.key} ELSE removed
  BY DEF DeleteTarget
<1>2. creators' = creators /\ objects' = objects
  BY DEF DeleteTarget, CleanerStep, UnchangedLedger, vars
<1>3. store \in [Keys -> Contents]
  BY DEF TruthCore
<1>4. store' \in [Keys -> Contents] /\ Settles(store, removed, store', removed')
  BY <1>1, <1>3 DEF Settles, Contents
<1> QED
  BY <1>2, <1>4, OthersStep

LEMMA TruthInit == CorpusInit => TruthCore
<1> SUFFICES ASSUME CorpusInit PROVE TruthCore
  OBVIOUS
<1>1. store \in [Keys -> Contents]
  BY DEF CorpusInit, Contents
<1>2. creators = [w \in Creators |-> IdleCreator] /\ objects = {}
  BY DEF CorpusInit
<1> QED
  BY <1>1, <1>2, IdleKnows DEF TruthCore, Truthful

LEMMA TruthStep == TruthCore /\ [CorpusNext]_allVars => TruthCore'
<1> SUFFICES ASSUME TruthCore, [CorpusNext]_allVars PROVE TruthCore'
  OBVIOUS
<1>1. ASSUME NEW w \in Creators, NEW k \in Keys, NEW run \in Runs,
             ReadDurable(w, k, run)
      PROVE  TruthCore'
  BY <1>1, ReadDurableKeepsTruth
<1>2. ASSUME NEW w \in Creators,
             \/ ReadTombstone(w) \/ HeadBeforeCreate(w) \/ CreateIfAbsent(w)
             \/ VerifyCreated(w) \/ CommitReceipt(w)
      PROVE  TruthCore'
  BY <1>2, ReadTombstoneKeepsTruth, HeadKeepsTruth, CreateKeepsTruth,
     VerifyKeepsTruth, CommitKeepsTruth
<1>3. ASSUME NEW w \in Creators, CreatorDies(w)
      PROVE  TruthCore'
  BY <1>3, RaisesKeepsTruth DEF CreatorDies
<1>4. CASE DeleteTarget
  BY <1>4, DeleteKeepsTruth
<1>5. ASSUME creators' = creators, objects' = objects, store' = store,
             removed' = removed
      PROVE  TruthCore'
  BY <1>5, NothingSettles, OthersStep DEF TruthCore
<1>6. ASSUME NEW id \in WorkIds, NEW a \in AssetIds, NEW run \in Runs,
             BuildWork(id, a, run)
      PROVE  TruthCore'
  BY <1>5, <1>6 DEF BuildWork, UnchangedLedger, vars
<1>7. CASE \/ BeginCleanup \/ ConfirmAbsent \/ Recheck \/ CommitFails
           \/ CleanerDies \/ Tick \/ Decide
  BY <1>5, <1>7 DEF BeginCleanup, ConfirmAbsent, Recheck, CommitFails,
     CleanerDies, Tick, Decide, CleanerStep, KeepStore, UnchangedLedger, vars
<1>8. ASSUME NEW k \in Keys, HeadTarget(k)
      PROVE  TruthCore'
  BY <1>5, <1>8 DEF HeadTarget, CleanerStep, KeepStore, UnchangedLedger, vars
<1>9. CASE CommitTombstones
  BY <1>5, <1>9 DEF CommitTombstones, CommitCleanup, CleanerStep, KeepStore
<1>10. ASSUME NEW d \in Derivations, RecordManifest(d)
       PROVE  TruthCore'
  BY <1>5, <1>10 DEF RecordManifest, UnchangedLedger, vars
<1>11. CASE UNCHANGED allVars
  BY <1>5, <1>11 DEF allVars, corpusVars, vars
<1> QED
  BY <1>1, <1>2, <1>3, <1>4, <1>6, <1>7, <1>8, <1>9, <1>10, <1>11 DEF CorpusNext

\* Until a cleanup deletes its key, a receipt's object is in the bucket with
\* the right bytes, and a "created" receipt names the run that put it there:
\* immutable_create_and_verify never turns a lost or ambiguous reply into
\* ownership, whatever other creators and the cleaner do meanwhile.
THEOREM ReceiptsAreTrue == CorpusSpec => []ReceiptsTellTheTruth
<1>1. TruthCore => ReceiptsTellTheTruth
  BY DEF TruthCore, Truthful, ReceiptsTellTheTruth
<1> QED
  BY TruthInit, TruthStep, <1>1, PTL DEF CorpusSpec

-----------------------------------------------------------------------------
(***************************************************************************)
(* One work per asset.  A tombstone's key keeps its receipt, so a cleanup  *)
(* that validated the complete lineage of an asset has compared every      *)
(* earlier tombstone of it with its own work; the guard keeps it so.       *)
(***************************************************************************)
Keyed ==
  /\ \A r \in objects : r.type = "object_receipt" /\ r.asset = KeyAsset[r.key]
  /\ \A t \in tombstones : /\ t.asset = KeyAsset[t.key]
                           /\ \E r \in objects : r.key = t.key

Bound ==
  cleaner.pc # "idle" =>
    /\ \A r \in work.targets : r \in objects /\ r.asset = work.asset
    /\ \A t \in tombstones : t.asset = work.asset => t.work[1] = work.id

OneWorkInv == Keyed /\ OneWorkPerAsset /\ Bound

LEMMA OneWorkInit == CorpusInit => OneWorkInv
BY DEF CorpusInit, OneWorkInv, Keyed, OneWorkPerAsset, Bound, IdleCleaner

\* A step that neither records, tombstones, plans nor starts a cleanup.
LEMMA QuietStep ==
  ASSUME OneWorkInv, objects' = objects, tombstones' = tombstones,
         work' = work \/ cleaner'.pc = "idle",
         cleaner.pc = "idle" => cleaner'.pc = "idle"
  PROVE  OneWorkInv'
BY DEF OneWorkInv, Keyed, OneWorkPerAsset, Bound

LEMMA ReceiptKeepsOneWork ==
  ASSUME OneWorkInv, NEW w \in Creators, CommitReceipt(w)
  PROVE  OneWorkInv'
<1> DEFINE r == Receipt(creators[w].key, creators[w].run, creators[w].disposition)
<1>1. /\ cleaner.pc = "idle" /\ cleaner' = cleaner /\ work' = work
      /\ tombstones' = tombstones
      /\ objects' = objects \/ objects' = objects \cup {r}
  BY DEF CommitReceipt, GuardFree, Step, UpsertObject, UnchangedLedger, vars
<1>2. r.type = "object_receipt" /\ r.asset = KeyAsset[r.key]
  BY DEF Receipt
<1> HIDE DEF r
<1> QED
  BY <1>1, <1>2 DEF OneWorkInv, Keyed, OneWorkPerAsset, Bound

LEMMA BeginKeepsOneWork ==
  ASSUME OneWorkInv, BeginCleanup
  PROVE  OneWorkInv'
<1>1. /\ objects' = objects /\ tombstones' = tombstones /\ work' = work
      /\ work.targets = Receipts(work.asset)
      /\ \A r \in work.targets : BindsWork(TombstoneFor(r))
  BY DEF BeginCleanup, CleanerStep, UnchangedLedger, vars, LineageOf
<1>2. \A r \in work.targets : r \in objects /\ r.asset = work.asset
  BY <1>1 DEF Receipts
<1>3. ASSUME NEW t \in tombstones, t.asset = work.asset
      PROVE  t.work[1] = work.id
  <2>1. PICK r \in objects : r.key = t.key
    BY DEF OneWorkInv, Keyed
  <2>2. r \in work.targets
    BY <1>1, <1>3, <2>1 DEF OneWorkInv, Keyed, Receipts
  <2>3. TombstoneFor(r) \in tombstones /\ TombstoneFor(r).key = r.key
    BY <2>1 DEF TombstoneFor, Earlier
  <2>4. TombstoneFor(r).asset = t.asset
    BY <2>1, <2>3 DEF OneWorkInv, Keyed
  <2>5. TombstoneFor(r).work[1] = work.id
    BY <1>1, <2>2 DEF BindsWork
  <2> QED
    BY <2>3, <2>4, <2>5 DEF OneWorkInv, OneWorkPerAsset
<1> QED
  BY <1>1, <1>2, <1>3 DEF OneWorkInv, Keyed, OneWorkPerAsset, Bound

LEMMA CommitKeepsOneWork ==
  ASSUME OneWorkInv, CommitTombstones
  PROVE  OneWorkInv'
<1> DEFINE values == {TombstoneFor(r) : r \in {x \in work.targets : x.key \in cleaner.absent}}
<1>1. /\ tombstones' = tombstones \cup values /\ objects' = objects
      /\ cleaner.pc = "commit" /\ cleaner'.pc = "idle"
  BY DEF CommitTombstones, CommitCleanup, CleanerStep, IdleCleaner
<1>2. ASSUME NEW t \in values, t \notin tombstones
      PROVE  /\ t.asset = work.asset /\ t.work[1] = work.id
             /\ t.asset = KeyAsset[t.key] /\ \E r \in objects : r.key = t.key
  <2>1. PICK r \in work.targets : t = TombstoneFor(r)
    BY <1>2
  <2>2. t = Planned(r, <<work.id, work.at>>)
    BY <1>2, <2>1 DEF TombstoneFor, Earlier
  <2>3. r \in objects /\ r.asset = work.asset /\ r.asset = KeyAsset[r.key]
    BY <1>1, <2>1 DEF OneWorkInv, Bound, Keyed
  <2> QED
    BY <2>2, <2>3 DEF Planned
<1>3. \A t \in tombstones : t.asset = work.asset => t.work[1] = work.id
  BY <1>1 DEF OneWorkInv, Bound
<1> HIDE DEF values
<1> QED
  BY <1>1, <1>2, <1>3 DEF OneWorkInv, Keyed, OneWorkPerAsset, Bound

LEMMA OneWorkStep == OneWorkInv /\ [CorpusNext]_allVars => OneWorkInv'
<1> SUFFICES ASSUME OneWorkInv, [CorpusNext]_allVars PROVE OneWorkInv'
  OBVIOUS
<1> USE DEF UnchangedLedger, vars
<1>1. ASSUME NEW w \in Creators,
             \/ \E k \in Keys, run \in Runs : ReadDurable(w, k, run)
             \/ ReadTombstone(w) \/ HeadBeforeCreate(w) \/ CreateIfAbsent(w)
             \/ VerifyCreated(w) \/ CreatorDies(w)
      PROVE  OneWorkInv'
  BY <1>1, QuietStep DEF ReadDurable, ReadTombstone, HeadBeforeCreate,
     CreateIfAbsent, VerifyCreated, CreatorDies, Raises, Locally, Step
<1>2. ASSUME NEW d \in Derivations, RecordManifest(d)
      PROVE  OneWorkInv'
  BY <1>2, QuietStep DEF RecordManifest
<1>3. ASSUME NEW id \in WorkIds, NEW a \in AssetIds, NEW run \in Runs,
             BuildWork(id, a, run)
      PROVE  OneWorkInv'
  BY <1>3, QuietStep DEF BuildWork
<1>4. CASE \/ DeleteTarget \/ ConfirmAbsent \/ Recheck
           \/ CommitFails \/ CleanerDies \/ Tick \/ Decide
  BY <1>4, QuietStep DEF DeleteTarget, ConfirmAbsent, Recheck, CommitFails,
     CleanerDies, Tick, Decide, CleanerStep, IdleCleaner
<1>5. ASSUME NEW k \in Keys, HeadTarget(k)
      PROVE  OneWorkInv'
  BY <1>5, QuietStep DEF HeadTarget, CleanerStep
<1>6. CASE UNCHANGED allVars
  BY <1>6, QuietStep DEF allVars, corpusVars
<1> QED
  BY <1>1, <1>2, <1>3, <1>4, <1>5, <1>6, ReceiptKeepsOneWork, BeginKeepsOneWork,
     CommitKeepsOneWork DEF CorpusNext

\* However often a cleanup is interrupted, resumed or replaced by another
\* work, the tombstones of an asset all bind the same retention work.
THEOREM OneWorkBinds == CorpusSpec => []OneWorkPerAsset
<1>1. OneWorkInv => OneWorkPerAsset
  BY DEF OneWorkInv
<1> QED
  BY OneWorkInit, OneWorkStep, <1>1, PTL DEF CorpusSpec

-----------------------------------------------------------------------------
(***************************************************************************)
(* The creators and the cleaner keep to the register: whatever they do to  *)
(* its tables is a call LedgerAssets allows.                               *)
(***************************************************************************)

\* The rest of the state: its types, and the key a cleaner is about to delete.
Locals ==
  /\ manifests \subseteq Derivations
  /\ work \in Work /\ cleaner \in Cleaner
  /\ clock \in Instants /\ authority \in Authorities /\ removed \subseteq Keys
  /\ cleaner.pc \in {"delete", "confirm"} => cleaner.key \in Keys
  /\ cleaner.pc # "idle" => work.id # NoWork
  /\ objects \subseteq ObjectRecord

LEMMA LocalsInit == CorpusInit => Locals
BY CorpusAssumption DEF CorpusInit, Locals, Work, Cleaner, IdleCleaner

\* No tombstone commit blocks an asset here: none claims that an object is
\* in the store yet.
Pending ==
  /\ assets \in [AssetIds -> Asset]
  /\ \A a \in AssetIds : assets[a].state = "transfer_pending"

LEMMA PendingClaimsNothing ==
  ASSUME Pending, NEW a \in AssetIds
  PROVE  ~ClaimsPresence(assets[a])
BY RankFacts, StatesDiffer DEF Pending, ClaimsPresence, Stages

LEMMA CorpusCoreInit == CorpusInit => Core /\ Pending
<1> SUFFICES ASSUME CorpusInit PROVE Core /\ Pending
  OBVIOUS
<1> DEFINE row == [Discovered("s1") EXCEPT !.state = "transfer_pending"]
<1>1. /\ assets = [a \in AssetIds |-> row]
      /\ rights = {r \in RightsOffers : r.state = "approved"}
      /\ objects = {} /\ tombstones = {}
      /\ operations = [o \in OpIds |->
           [kind |-> "unbound", asset |-> NoAsset, state |-> NoState]]
  BY DEF CorpusInit
<1>2. row = [source |-> "s1", state |-> "transfer_pending",
             resume |-> NoState, blocker |-> NoBlocker]
  BY DEF Discovered
<1> HIDE DEF row
<1>3. row \in Asset /\ SoundRow(row)
  BY <1>2, RegisterAssumption, NullAssumption
  DEF Asset, AllStates, Stages, FailureStates, Blockers, SoundRow
<1>4. TypeOK
  BY <1>1, <1>3, OffersAssumption DEF TypeOK, Operation
<1>5. \A a \in AssetIds : RightsApproved(a)
  BY <1>1, RegisterAssumption DEF RightsApproved
<1>6. Reached(row) = 3
  BY <1>2, RankFacts DEF Reached, Stages
<1>7. GatesStayHeld
  BY <1>1, <1>5, <1>6, RankFacts DEF GatesStayHeld
<1>8. KeysHaveOneOwner
  BY <1>1 DEF KeysHaveOneOwner
<1>9. RepliesHold /\ \A o \in OpIds : BoundToAsset(operations[o])
  BY <1>1 DEF RepliesHold, BoundToAsset
<1>10. Pending
  BY <1>1, <1>2, <1>3 DEF Pending
<1> QED
  BY <1>1, <1>3, <1>4, <1>7, <1>8, <1>9, <1>10 DEF Core

\* A receipt is recorded as an object record that is offered.
LEMMA ReceiptIsUpsert ==
  ASSUME TruthCore, NEW w \in Creators, CommitReceipt(w)
  PROVE  [Next]_vars /\ assets' = assets
<1> DEFINE c == creators[w]
           r == Receipt(c.key, c.run, c.disposition)
<1>1. c \in Creator /\ c.pc = "commit" /\ Knows(c, store, removed, objects)
  BY DEF TruthCore, CommitReceipt
<1>2. c.key \in Keys /\ c.run \in Runs /\ c.disposition \in Dispositions
  BY <1>1 DEF Knows, Creator
<1>3. r \in ObjectOffers
  BY <1>2, RegisterAssumption
<1>4. UpsertObject(r, NoOp) \/ UNCHANGED vars
  BY DEF CommitReceipt, UnchangedLedger
<1> HIDE DEF r
<1> QED
  BY <1>3, <1>4 DEF Next, UpsertObject, vars

\* The tombstones a cleanup commits are those of earlier attempts, which the
\* register has, and new ones of one work: the register sees a commit of the
\* new ones, or none.
LEMMA TombstonesAreCommit ==
  ASSUME Locals, Pending, OneWorkInv, CommitTombstones
  PROVE  [Next]_vars /\ assets' = assets
<1> DEFINE found == {x \in work.targets : x.key \in cleaner.absent}
           new == {r \in found : Earlier(r.key) = {}}
           w == <<work.id, work.at>>
           values == {TombstoneFor(r) : r \in found}
           planned == {Planned(r, w) : r \in new}
<1>1. /\ CommitCleanup(values) /\ cleaner.pc = "commit"
  BY DEF CommitTombstones
<1>2. w \in Works /\ work.asset \in AssetIds
  BY <1>1, CorpusAssumption DEF Locals, Work
<1>3. new \in SUBSET Receipts(work.asset)
  BY <1>1 DEF OneWorkInv, Bound, Keyed, Receipts
<1>4. /\ planned \subseteq values
      /\ \A t \in values : t \in planned \/ t \in tombstones
  BY DEF TombstoneFor, Earlier
<1> HIDE DEF values, planned, w, new, found
<1>5. /\ Committable(values) /\ tombstones' = tombstones \cup values
      /\ assets' = [a \in AssetIds |->
           IF a \in {t.asset : t \in values} /\ ClaimsPresence(assets[a])
             THEN Blocked(assets[a]) ELSE assets[a]]
      /\ UNCHANGED <<rights, objects, operations>>
  BY <1>1 DEF CommitCleanup
<1>6. \A a \in AssetIds : ~ClaimsPresence(assets[a])
  BY PendingClaimsNothing
<1>7. assets' = assets
  BY <1>5, <1>6 DEF Pending
<1>8. tombstones' = tombstones \cup planned
  BY <1>4, <1>5
<1>9. CASE planned = {}
  BY <1>5, <1>7, <1>8, <1>9 DEF vars
<1>10. CASE planned # {}
  <2>1. Committable(planned)
    BY <1>4, <1>5, <1>10 DEF Committable
  <2>2. assets' = [a \in AssetIds |->
           IF a \in {t.asset : t \in planned} /\ ClaimsPresence(assets[a])
             THEN Blocked(assets[a]) ELSE assets[a]]
    BY <1>6, <1>7 DEF Pending
  <2>3. CommitCleanup(planned)
    BY <1>5, <1>8, <2>1, <2>2 DEF CommitCleanup
  <2>4. \E a \in AssetIds, v \in Works : \E cleaned \in SUBSET Receipts(a) :
           CommitCleanup({Planned(r, v) : r \in cleaned})
    BY <1>2, <1>3, <2>3 DEF planned
  <2> QED
    BY <1>7, <2>4 DEF Next
<1> QED
  BY <1>7, <1>9, <1>10

LEMMA RegisterStep ==
  ASSUME Locals, Pending, TruthCore, OneWorkInv, [CorpusNext]_allVars
  PROVE  [Next]_vars /\ assets' = assets
<1> USE DEF UnchangedLedger, vars
<1>1. ASSUME NEW w \in Creators,
             \/ \E k \in Keys, run \in Runs : ReadDurable(w, k, run)
             \/ ReadTombstone(w) \/ HeadBeforeCreate(w) \/ CreateIfAbsent(w)
             \/ VerifyCreated(w) \/ CreatorDies(w)
      PROVE  UNCHANGED vars
  BY <1>1 DEF ReadDurable, ReadTombstone, HeadBeforeCreate, CreateIfAbsent,
     VerifyCreated, CreatorDies, Raises, Locally, Step
<1>2. ASSUME NEW d \in Derivations, RecordManifest(d)
      PROVE  UNCHANGED vars
  BY <1>2 DEF RecordManifest
<1>3. ASSUME NEW id \in WorkIds, NEW a \in AssetIds, NEW run \in Runs,
             BuildWork(id, a, run)
      PROVE  UNCHANGED vars
  BY <1>3 DEF BuildWork
<1>4. CASE \/ BeginCleanup \/ DeleteTarget \/ ConfirmAbsent \/ Recheck
           \/ CommitFails \/ CleanerDies \/ Tick \/ Decide
  BY <1>4 DEF BeginCleanup, DeleteTarget, ConfirmAbsent, Recheck, CommitFails,
     CleanerDies, Tick, Decide
<1>5. ASSUME NEW k \in Keys, HeadTarget(k)
      PROVE  UNCHANGED vars
  BY <1>5 DEF HeadTarget
<1>6. CASE UNCHANGED allVars
  BY <1>6 DEF allVars
<1> QED
  BY <1>1, <1>2, <1>3, <1>4, <1>5, <1>6, ReceiptIsUpsert, TombstonesAreCommit
  DEF CorpusNext

LEMMA OutcomeTyped ==
  ASSUME cleaner \in Cleaner, NEW k \in Keys, NEW field \in {"absent", "failed"},
         NEW c, c = Outcome(k, field)
  PROVE  c \in Cleaner /\ c.pc \in {"head", "recheck", "idle"}
<1> DEFINE base == [cleaner EXCEPT !.todo = @ \ {k}, !.key = NoKey,
                     !.absent = IF field = "absent" THEN @ \cup {k} ELSE @,
                     !.failed = IF field = "failed" THEN @ \cup {k} ELSE @]
<1>1. PICK b \in Cleaner : b = base
  BY DEF Cleaner
<1>2. c = [b EXCEPT !.pc = IF b.todo # {} THEN "head"
                           ELSE IF b.absent # {} THEN "recheck" ELSE "idle"]
  BY <1>1 DEF Outcome
<1> QED
  BY <1>1, <1>2 DEF Cleaner

\* The locals of a step that leaves the cleaner where it was, or ends it.
LEMMA QuietLocals ==
  ASSUME Locals, UNCHANGED <<manifests, authority, removed>>, clock' \in Instants,
         objects' \subseteq ObjectRecord,
         \/ work' = work /\ cleaner' = cleaner
         \/ work' \in Work /\ cleaner' = cleaner /\ cleaner.pc = "idle"
         \/ work' = work /\ cleaner' \in Cleaner /\ cleaner'.pc = "idle"
  PROVE  Locals'
BY DEF Locals

\* The locals of a step of the cleaner.
LEMMA CleanerLocals ==
  ASSUME Locals, NEW c \in Cleaner, CleanerStep(c), objects' = objects,
         removed' \subseteq Keys,
         c.pc \in {"delete", "confirm"} => c.key \in Keys,
         c.pc # "idle" => work.id # NoWork
  PROVE  Locals'
BY DEF Locals, CleanerStep

LEMMA IdleCleanerTyped ==
  ASSUME NEW at \in Instants
  PROVE  IdleCleaner(at) \in Cleaner /\ IdleCleaner(at).pc = "idle"
BY DEF IdleCleaner, Cleaner

LEMMA LocalsStep ==
  ASSUME Locals, OneWorkInv, objects' \subseteq ObjectRecord, [CorpusNext]_allVars
  PROVE  Locals'
<1> USE DEF UnchangedLedger, vars
<1>1. ASSUME NEW w \in Creators,
             \/ \E k \in Keys, run \in Runs : ReadDurable(w, k, run)
             \/ ReadTombstone(w) \/ HeadBeforeCreate(w) \/ CreateIfAbsent(w)
             \/ VerifyCreated(w) \/ CommitReceipt(w) \/ CreatorDies(w)
      PROVE  Locals'
  <2>1. UNCHANGED <<manifests, work, cleaner, clock, authority, removed>>
    BY <1>1 DEF ReadDurable, ReadTombstone, HeadBeforeCreate, CreateIfAbsent,
       VerifyCreated, CommitReceipt, CreatorDies, Raises, Locally, Step
  <2> QED
    BY <2>1, QuietLocals DEF Locals
<1>2. ASSUME NEW d \in Derivations, RecordManifest(d)
      PROVE  Locals'
  BY <1>2 DEF RecordManifest, Locals
<1>3. ASSUME NEW id \in WorkIds, NEW a \in AssetIds, NEW run \in Runs,
             BuildWork(id, a, run)
      PROVE  Locals'
  <2>1. work' \in Work
    BY <1>3 DEF BuildWork, Work, Locals, Receipts, ManifestsOf
  <2> QED
    BY <1>3, <2>1, QuietLocals DEF BuildWork, Locals
<1>4. CASE BeginCleanup
  <2> DEFINE c == [IdleCleaner(clock) EXCEPT
                     !.pc = "head", !.todo = {r.key : r \in work.targets}]
  <2>1. {r.key : r \in work.targets} \subseteq Keys
    BY DEF Locals, Work, ObjectRecord
  <2>2. c \in Cleaner /\ c.pc = "head"
    BY <2>1 DEF IdleCleaner, Cleaner, Locals
  <2>3. CleanerStep(c) /\ UNCHANGED <<objects, removed>> /\ work.id # NoWork
    BY <1>4 DEF BeginCleanup, KeepStore
  <2> HIDE DEF c
  <2> QED
    BY <2>2, <2>3, CleanerLocals DEF Locals
<1>5. ASSUME NEW k \in Keys, HeadTarget(k)
      PROVE  Locals'
  <2>1. cleaner.pc = "head" /\ UNCHANGED <<objects, removed>>
    BY <1>5 DEF HeadTarget, KeepStore
  <2>2. CASE \E field \in {"absent", "failed"} : CleanerStep(Outcome(k, field))
    <3>1. PICK field \in {"absent", "failed"} : CleanerStep(Outcome(k, field))
      BY <2>2
    <3>2. PICK c : c = Outcome(k, field)
      OBVIOUS
    <3>3. c \in Cleaner /\ c.pc \in {"head", "recheck", "idle"}
      BY <3>2, OutcomeTyped DEF Locals
    <3> QED
      BY <2>1, <3>1, <3>2, <3>3, CleanerLocals DEF Locals
  <2>3. CASE CleanerStep([cleaner EXCEPT !.pc = "delete", !.key = k])
    <3>1. PICK c : c = [cleaner EXCEPT !.pc = "delete", !.key = k]
      OBVIOUS
    <3>2. c \in Cleaner /\ c.key = k
      BY <3>1 DEF Locals, Cleaner
    <3> QED
      BY <2>1, <2>3, <3>1, <3>2, CleanerLocals DEF Locals
  <2> QED
    BY <1>5, <2>2, <2>3 DEF HeadTarget
<1>6. CASE DeleteTarget
  <2>1. cleaner.pc = "delete" /\ objects' = objects /\ cleaner.key \in Keys
    BY <1>6 DEF DeleteTarget, Locals
  <2>2. /\ removed' = removed \cup {cleaner.key} \/ removed' = removed
        /\ \/ CleanerStep([cleaner EXCEPT !.pc = "confirm"])
           \/ CleanerStep(Outcome(cleaner.key, "failed"))
    BY <1>6 DEF DeleteTarget
  <2>3. removed' \subseteq Keys
    BY <2>1, <2>2 DEF Locals
  <2>4. CASE CleanerStep([cleaner EXCEPT !.pc = "confirm"])
    <3>1. PICK c : c = [cleaner EXCEPT !.pc = "confirm"]
      OBVIOUS
    <3>2. c \in Cleaner /\ c.key = cleaner.key
      BY <3>1 DEF Locals, Cleaner
    <3> QED
      BY <2>1, <2>3, <2>4, <3>1, <3>2, CleanerLocals DEF Locals
  <2>5. CASE CleanerStep(Outcome(cleaner.key, "failed"))
    <3>1. PICK c : c = Outcome(cleaner.key, "failed")
      OBVIOUS
    <3>2. c \in Cleaner /\ c.pc \in {"head", "recheck", "idle"}
      BY <2>1, <3>1, OutcomeTyped DEF Locals
    <3> QED
      BY <2>1, <2>3, <2>5, <3>1, <3>2, CleanerLocals DEF Locals
  <2> QED
    BY <2>2, <2>4, <2>5
<1>7. CASE ConfirmAbsent
  <2>1. /\ cleaner.pc = "confirm" /\ cleaner.key \in Keys
        /\ UNCHANGED <<objects, removed>>
    BY <1>7 DEF ConfirmAbsent, KeepStore, Locals
  <2>2. PICK field \in {"absent", "failed"} : CleanerStep(Outcome(cleaner.key, field))
    BY <1>7 DEF ConfirmAbsent
  <2>3. PICK c : c = Outcome(cleaner.key, field)
    OBVIOUS
  <2>4. c \in Cleaner /\ c.pc \in {"head", "recheck", "idle"}
    BY <2>1, <2>3, OutcomeTyped DEF Locals
  <2> QED
    BY <2>1, <2>2, <2>3, <2>4, CleanerLocals DEF Locals
<1>8. CASE Recheck
  <2>1. PICK c : c = [cleaner EXCEPT !.pc = "commit"]
    OBVIOUS
  <2>2. c \in Cleaner /\ c.pc = "commit"
    BY <2>1 DEF Locals, Cleaner
  <2>3. /\ cleaner.pc = "recheck" /\ CleanerStep(c)
        /\ UNCHANGED <<objects, removed>>
    BY <1>8, <2>1 DEF Recheck, KeepStore
  <2> QED
    BY <2>2, <2>3, CleanerLocals DEF Locals
<1>9. CASE CommitTombstones \/ CommitFails \/ CleanerDies
  <2>1. /\ CleanerStep(IdleCleaner(0)) /\ UNCHANGED <<objects, removed>>
    BY <1>9 DEF CommitTombstones, CommitFails, CleanerDies, KeepStore, CommitCleanup
  <2>2. IdleCleaner(0) \in Cleaner /\ IdleCleaner(0).pc = "idle"
    BY CorpusAssumption, IdleCleanerTyped
  <2> QED
    BY <2>1, <2>2, CleanerLocals DEF Locals
<1>10. CASE Tick \/ Decide \/ UNCHANGED allVars
  BY <1>10 DEF Tick, Decide, allVars, corpusVars, Locals
<1> QED
  BY <1>1, <1>2, <1>3, <1>4, <1>5, <1>6, <1>7, <1>8, <1>9, <1>10 DEF CorpusNext

CorpusCore == Core /\ Pending /\ Locals /\ TruthCore /\ OneWorkInv

LEMMA CorpusCoreStep == CorpusCore /\ [CorpusNext]_allVars => CorpusCore' /\ [Next]_vars
<1> SUFFICES ASSUME CorpusCore, [CorpusNext]_allVars
             PROVE  CorpusCore' /\ [Next]_vars
  OBVIOUS
<1>1. [Next]_vars /\ assets' = assets
  BY RegisterStep DEF CorpusCore
<1>2. Core' /\ Pending'
  BY <1>1, CoreStep DEF CorpusCore, Pending
<1>3. objects' \subseteq ObjectRecord
  BY <1>2 DEF Core, TypeOK
<1> QED
  BY <1>1, <1>2, <1>3, LocalsStep, TruthStep, OneWorkStep DEF CorpusCore

LEMMA CorpusCoreHolds == CorpusSpec => [](CorpusCore) /\ [][Next]_vars
BY CorpusCoreInit, LocalsInit, TruthInit, OneWorkInit, CorpusCoreStep, PTL
DEF CorpusSpec, CorpusCore

\* The state always has its type.
THEOREM CorpusTypeCorrect == CorpusSpec => []CorpusTypeOK
<1>1. CorpusCore => CorpusTypeOK
  BY DEF CorpusCore, Core, Locals, TruthCore, CorpusTypeOK
<1> QED
  BY CorpusCoreHolds, <1>1, PTL

\* Creators and cleaner reach the register's tables only through calls it
\* allows: a receipt is an upsert, and a cleanup that was interrupted and run
\* again commits, of all its tombstones, those that are new, or nothing.
THEOREM CorpusKeepsRegister == CorpusSpec => [][Next]_vars
BY CorpusCoreHolds, PTL

\* However many creators of different runs race for a key, and whatever the
\* cleaner tombstones in between, each key keeps one receipt and one
\* tombstone of that receipt.
THEOREM CorpusKeysHoldOneOwner == CorpusSpec => []KeysHaveOneOwner
<1>1. CorpusCore => KeysHaveOneOwner
  BY DEF CorpusCore, Core
<1> QED
  BY CorpusCoreHolds, <1>1, PTL
=============================================================================
