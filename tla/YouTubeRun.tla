------------------------------ MODULE YouTubeRun ------------------------------
(***************************************************************************)
(* One run of the official YouTube metadata adapter                        *)
(* (youtube_metadata_adapter.py): coordinator processes that resolve the   *)
(* channel, list its uploads and enrich batches of videos, all under one   *)
(* durable SQLite authority that holds the run's quota and the artifacts   *)
(* its stages issued.  Processes crash and restart, several may serve the  *)
(* same run, checkpoints are saved and restored, the store may be replaced *)
(* and the playlist may change while it is being listed.                   *)
(***************************************************************************)
EXTENDS MetadataHarness

CONSTANTS
    Coordinators,   \* processes that may serve the run
    Channels,       \* channel identities the handle may resolve to
    Videos,         \* public video identities
    BadItem,        \* a playlist item without a valid video identity
    Sources,        \* playlists and reporting habits the run may start from
    Stops,          \* answers that stop a stage: status, access state, shape
    VideoItems,     \* shapes of one item of videos.list
    PageSize,       \* items of one playlist page
    MaxUnits,       \* quota of the run
    Bounds,         \* request, page and retry bounds of a stage
    MaxChanges,     \* bound: changes of the playlist during the run
    MaxFaults,      \* bound: coordinator crashes and replaced stores
    NoProc, NoHarness, NoArtifact, NoCheckpoint

ASSUME QuotaAssumption == MaxUnits \in Nat /\ PageSize \in Nat \ {0}

(* A token is where the next page starts; neither None is a value of its   *)
(* kind, and what is no video identity is no video.                        *)
ASSUME NoneAssumption ==
    /\ NoToken \notin Nat \ {0}
    /\ NoTotal \notin Nat
    /\ BadItem \notin Videos

(* The run starts before the playlist changes; the stops are outcomes that *)
(* are no page; the bounds are numbers.                                    *)
ASSUME InputsAssumption ==
    /\ Sources \subseteq [playlist : Seq(Videos \cup {BadItem}), reports : BOOLEAN,
                          hidden : Nat, changes : {0}]
    /\ Stops \subseteq [kind : {"blocked", "changed"}, reason : STRING]
    /\ Bounds \in [requests : Nat, pages : Nat, retries : Nat, robots : BOOLEAN]

Stages == {"channels.list", "playlistItems.list", "videos.list"}

VARIABLES
    api,        \* the source: playlist, what it reports, changes so far
    history,    \* ghost: every set of videos the playlist has held
    quota,      \* row of youtube_quota_run: authority and units per method
    artifact,   \* rows of youtube_run_artifact
    proc,       \* the coordinators' memory
    saved,      \* the checkpoint the operator kept last
    handed,     \* ghost: requests handed out under the present authority
    faults

vars == <<api, history, quota, artifact, proc, saved, handed, faults>>

Consumed(q) ==
    q.counts["channels.list"] + q.counts["playlistItems.list"]
        + q.counts["videos.list"]

NoCounts == [s \in Stages |-> 0]
EmptyRun(a) == [authority |-> a, counts |-> NoCounts]
NoArtifacts == [channel |-> NoArtifact, uploads |-> NoArtifact]

Listed(list) == {list[i] : i \in DOMAIN list} \cap Videos

Init ==
    /\ api \in Sources
    /\ history = {Listed(api.playlist)}
    /\ quota = EmptyRun(1)
    /\ artifact = NoArtifacts
    /\ proc = [c \in Coordinators |-> NoProc]
    /\ saved = NoCheckpoint
    /\ handed = NoCounts
    /\ faults = 0

-----------------------------------------------------------------------------
(* The durable authority.                                                  *)

Running(c) == proc[c] # NoProc
Owns(c) == proc[c].authority = quota.authority
MutOneUnitMore(q) == Consumed(q) <= MaxUnits   \* mutant: off by one
HasUnits(q) == Consumed(q) + 1 <= MaxUnits
Reserved(q, s) == [q EXCEPT !.counts[s] = @ + 1]
CountsWithin(a, b) == \A s \in Stages : a[s] <= b[s]

(* _bind_artifact: the first payload of a kind stays.                      *)
MutLastPayload(present, payload) == TRUE   \* mutant: the last payload stays
Binds(present, payload) == present = NoArtifact \/ present = payload

SetHarness(c, s, h) == proc' = [proc EXCEPT ![c].harness[s] = h]

(* What a stage's checkpoints and manifests are bound to.                  *)
Lineage(c, s) == proc[c].lineage[s]

-----------------------------------------------------------------------------
(* Coordinators come and go.                                               *)

Start(c) ==
    /\ ~Running(c)
    /\ proc' = [proc EXCEPT ![c] =
           [authority |-> quota.authority,
            harness |-> [s \in Stages |-> NoHarness],
            lineage |-> [s \in Stages |-> NoArtifact]]]
    /\ UNCHANGED <<api, history, quota, artifact, saved, handed, faults>>

Crash(c) ==
    /\ Running(c) /\ faults < MaxFaults
    /\ proc' = [proc EXCEPT ![c] = NoProc]
    /\ faults' = faults + 1
    /\ UNCHANGED <<api, history, quota, artifact, saved, handed>>

(* The operator deletes the run's rows; ensure_run mints a new authority.  *)
ReplaceStore ==
    /\ faults < MaxFaults
    /\ faults' = faults + 1
    /\ quota' = EmptyRun(quota.authority + 1)
    /\ artifact' = NoArtifacts
    /\ handed' = NoCounts
    /\ UNCHANGED <<api, history, proc, saved>>

-----------------------------------------------------------------------------
(* next_request: the harness's own bounds, then the durable reservation    *)
(* inside build_request, then the request is handed out.                   *)

AskWith(c, s, h, p) ==
    LET refusal == RequestRefusal(h, Bounds, FALSE)
        Leave(n) == proc' = [p EXCEPT ![c].harness[s] = n]
    IN  \/ /\ refusal # "none"
           /\ Leave(Stopped(h, RefusalState(refusal), refusal))
           /\ UNCHANGED <<quota, handed>>
        \/ /\ refusal = "none" /\ Owns(c) /\ ~HasUnits(quota)
           /\ Leave(Stopped(h, "blocked", "quota_exhausted"))
           /\ UNCHANGED <<quota, handed>>
        \/ /\ refusal = "none" /\ Owns(c) /\ HasUnits(quota)
           /\ quota' = Reserved(quota, s)
           /\ handed' = [handed EXCEPT ![s] = @ + 1]
           /\ Leave(Asked(h))
        \/ /\ refusal = "none" /\ ~Owns(c)     \* reserve raises
           /\ Leave(h)
           /\ UNCHANGED <<quota, handed>>

NextRequest(c, s) ==
    /\ Running(c) /\ proc[c].harness[s] # NoHarness
    /\ CanAsk(proc[c].harness[s])
    /\ AskWith(c, s, proc[c].harness[s], proc)
    /\ UNCHANGED <<api, history, artifact, saved, faults>>

(* The process dies between the reservation's commit and the request.      *)
ReserveThenCrash(c, s) ==
    /\ Running(c) /\ proc[c].harness[s] # NoHarness
    /\ CanAsk(proc[c].harness[s])
    /\ RequestRefusal(proc[c].harness[s], Bounds, FALSE) = "none"
    /\ Owns(c) /\ HasUnits(quota) /\ faults < MaxFaults
    /\ quota' = Reserved(quota, s)
    /\ proc' = [proc EXCEPT ![c] = NoProc]
    /\ faults' = faults + 1
    /\ UNCHANGED <<api, history, artifact, saved, handed>>

(* begin_channel, begin_uploads and a harness over videos_adapter: the     *)
(* stage must be idle and its input an artifact issued by this authority.  *)
IssuedChannel == {artifact.channel} \ {NoArtifact}
VideoBatches ==
    IF artifact.uploads = NoArtifact THEN {}
    ELSE (SUBSET artifact.uploads.videos) \ {{}}

StageInputs(c, s) ==
    CASE s = "channels.list"      -> {NoArtifact}
      [] ~Owns(c)                 -> {}
      [] s = "playlistItems.list" -> IssuedChannel
      [] s = "videos.list"        -> VideoBatches

Begin(c, s) ==
    /\ Running(c) /\ proc[c].harness[s] = NoHarness
    /\ \E lineage \in StageInputs(c, s) :
          AskWith(c, s, NewHarness, [proc EXCEPT ![c].lineage[s] = lineage])
    /\ UNCHANGED <<api, history, artifact, saved, faults>>

-----------------------------------------------------------------------------
(* What the source may answer.                                             *)

Offset(h) == IF h.cursor = NoToken THEN 0 ELSE h.cursor

PlaylistPage(h, edited) ==
    LET k == Offset(h)
        last == IF k + PageSize < Len(api.playlist) THEN k + PageSize
                ELSE Len(api.playlist)
        items == [i \in 1..(IF last > k THEN last - k ELSE 0) |-> api.playlist[k + i]]
    IN  [kind |-> "page", ids |-> Listed(items), edited |-> edited,
         rejected |-> Cardinality({i \in DOMAIN items : items[i] = BadItem}),
         token |-> IF last < Len(api.playlist) THEN last ELSE NoToken,
         total |-> IF api.reports THEN Len(api.playlist) + api.hidden ELSE NoTotal]

ChannelPage(ch) ==
    [kind |-> "page", ids |-> {ch}, edited |-> FALSE, rejected |-> 0,
     token |-> NoToken, total |-> 1]

(* The availability parse_page records for a requested video.              *)
Availability(item) ==
    CASE ~item.returned      -> "unavailable"
      [] item.aged           -> "age_gated"
      [] item.region         -> "region_blocked"
      [] OTHER               -> item.privacy

VideosPage(batch, items) ==
    [kind |-> "page", ids |-> {<<v, Availability(items[v])>> : v \in batch},
     edited |-> FALSE, rejected |-> 0, token |-> NoToken,
     total |-> Cardinality(batch)]

(* Status codes, access states and unexpected shapes (classify_error and   *)
(* the harness's own checks) end in one of the Stops.                      *)
Responses(c, s) ==
    LET h == proc[c].harness[s]
        batch == Lineage(c, s)
    IN  Stops \cup
        CASE s = "channels.list" -> {ChannelPage(ch) : ch \in Channels}
          [] s = "playlistItems.list" ->
               {PlaylistPage(h, e) : e \in BOOLEAN}
                 \cup (IF h.cursor = NoToken THEN {}
                       ELSE {[PlaylistPage(h, FALSE) EXCEPT !.token = h.cursor]})
          [] s = "videos.list" ->
               {VideosPage(batch, items) : items \in [batch -> VideoItems]}

-----------------------------------------------------------------------------
(* ingest, with the finalisation a terminal page triggers in the same call *)

Manifest(h) ==
    [requests |-> h.requests, pages |-> h.pages, duplicates |-> h.duplicates,
     total |-> h.total]

Inventory(c, h) ==
    [channel |-> Lineage(c, "playlistItems.list"), videos |-> h.records,
     manifest |-> Manifest(h)]

FinalizeChannel(c, h) ==
    LET resolution == CHOOSE ch \in h.records : TRUE
    IN  IF Owns(c) /\ Cardinality(h.records) = 1 /\ Binds(artifact.channel, resolution)
        THEN artifact' = [artifact EXCEPT !.channel = resolution]
        ELSE UNCHANGED artifact

FinalizeUploads(c, h) ==
    IF /\ Remainder(h) = 0 /\ h.rejected = 0 /\ h.records # {}
       /\ Owns(c) /\ Binds(artifact.uploads, Inventory(c, h))
    THEN artifact' = [artifact EXCEPT !.uploads = Inventory(c, h)]
    ELSE UNCHANGED artifact

Finalize(c, s, h) ==
    CASE h.state = "complete" /\ s = "channels.list"      -> FinalizeChannel(c, h)
      [] h.state = "complete" /\ s = "playlistItems.list" -> FinalizeUploads(c, h)
      [] OTHER                                            -> UNCHANGED artifact

Ingest(c, s) ==
    /\ Running(c) /\ proc[c].harness[s] # NoHarness
    /\ proc[c].harness[s].active
    /\ \E response \in Responses(c, s) :
          LET h == Ingested(proc[c].harness[s], response)
          IN  SetHarness(c, s, h) /\ Finalize(c, s, h)
    /\ UNCHANGED <<api, history, quota, saved, handed, faults>>

RecordRetry(c, s) ==
    /\ Running(c) /\ proc[c].harness[s] # NoHarness
    /\ proc[c].harness[s].active
    /\ SetHarness(c, s, Retried(proc[c].harness[s], Bounds))
    /\ UNCHANGED <<api, history, quota, artifact, saved, handed, faults>>

-----------------------------------------------------------------------------
(* Checkpoints.  The quota part is the store's row at the moment of saving. *)
(* Only a ready harness can ever be restored (_restore), so only its       *)
(* checkpoints are kept.                                                   *)

SaveCheckpoint(c, s) ==
    /\ Running(c) /\ proc[c].harness[s] # NoHarness
    /\ CanCheckpoint(proc[c].harness[s]) /\ proc[c].harness[s].state = "ready"
    /\ saved' = [stage |-> s, quota |-> quota, lineage |-> Lineage(c, s),
                 harness |-> proc[c].harness[s]]
    /\ UNCHANGED <<api, history, quota, artifact, proc, handed, faults>>

(* YouTubeQuotaLedger.resume and merge_checkpoint: the same authority, and *)
(* counters the durable row has already reached.  Nothing is refunded.     *)
QuotaAccepts(cp) ==
    /\ cp.quota.authority = quota.authority
    /\ Consumed(cp.quota) <= MaxUnits
    /\ Consumed(cp.quota) <= Consumed(quota)
    /\ CountsWithin(cp.quota.counts, quota.counts)

Resume(c, s) ==
    /\ Running(c) /\ proc[c].harness[s] = NoHarness
    /\ saved # NoCheckpoint /\ saved.stage = s
    /\ saved.lineage \in StageInputs(c, s)
    /\ QuotaAccepts(saved) /\ Owns(c)
    /\ RestoreAccepts(saved.harness, Bounds)
    /\ proc' = [proc EXCEPT ![c].harness[s] = saved.harness,
                            ![c].lineage[s] = saved.lineage]
    /\ UNCHANGED <<api, history, quota, artifact, saved, handed, faults>>

-----------------------------------------------------------------------------
(* The playlist changes under the run: one item is added in front, as a    *)
(* new upload is, or one is taken down.                                    *)

ChangePlaylist ==
    /\ api.changes < MaxChanges
    /\ \E list \in {<<v>> \o api.playlist : v \in Videos \ Listed(api.playlist)}
               \cup {RemoveAt(api.playlist, i) : i \in DOMAIN api.playlist} :
          /\ api' = [api EXCEPT !.playlist = list, !.changes = @ + 1]
          /\ history' = history \cup {Listed(list)}
    /\ UNCHANGED <<quota, artifact, proc, saved, handed, faults>>

Next ==
    \/ ReplaceStore \/ ChangePlaylist
    \/ \E c \in Coordinators :
          \/ Start(c) \/ Crash(c)
          \/ \E s \in Stages :
                \/ Begin(c, s) \/ NextRequest(c, s) \/ ReserveThenCrash(c, s)
                \/ Ingest(c, s) \/ RecordRetry(c, s)
                \/ SaveCheckpoint(c, s) \/ Resume(c, s)

Spec == Init /\ [][Next]_vars

-----------------------------------------------------------------------------
(* Properties.                                                             *)

(* Every request handed to a transport under the present authority is paid *)
(* for in the durable row of its method, whatever crashed and whatever was *)
(* restored, and the row never passes the run's maximum                    *)
(* (YouTubeQuotaStore.reserve, merge_checkpoint).                          *)
QuotaCoversRequests ==
    /\ Consumed(quota) <= MaxUnits
    /\ \A s \in Stages : handed[s] <= quota.counts[s]

(* An issued uploads inventory hangs on the channel that was issued, and,  *)
(* when the source reported totals, is the whole playlist as it stood at   *)
(* some moment, although the pages were read at different times, possibly  *)
(* by different processes (ingest, finalize_uploads).  The code compares   *)
(* totals and identities only, so this holds while the playlist changed    *)
(* less than four times: two items gone and two new ones may pass unseen.  *)
IssuedInventoryIsWhole ==
    artifact.uploads # NoArtifact =>
        /\ artifact.channel = artifact.uploads.channel
        /\ artifact.uploads.manifest.total # NoTotal /\ api.changes < 4 =>
               artifact.uploads.videos \in history

(* A checkpoint saved while its harness was ready is accepted by restore   *)
(* for as long as the authority that paid for it exists: no legal sequence *)
(* of requests, retries and pages writes one that resume refuses.          *)
ReadyCheckpointsResume ==
    /\ saved # NoCheckpoint
    /\ saved.quota.authority = quota.authority
    => QuotaAccepts(saved) /\ RestoreAccepts(saved.harness, Bounds)

(* Under one authority the artifacts, once issued, never change and units  *)
(* are never refunded, even when two coordinators finish the same stage    *)
(* with different answers (_bind_artifact, merge_checkpoint).              *)
IssuedOnce ==
    [][quota'.authority = quota.authority =>
         /\ artifact.channel # NoArtifact => artifact'.channel = artifact.channel
         /\ artifact.uploads # NoArtifact => artifact'.uploads = artifact.uploads
         /\ CountsWithin(quota.counts, quota'.counts)]_vars
=============================================================================
