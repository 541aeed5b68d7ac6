------------------------------- MODULE Feeds --------------------------------
(***************************************************************************)
(* How rows get into insurer_commission_feeds: uploads (_handle_upload of  *)
(* api/main.py and process_feed_upload), the load of a pipeline's intake   *)
(* (loader.load_feeds), which rebuilds the feed from the synthetic files   *)
(* and overlays the uploads, and the engine, which then reads the feed.    *)
(* Every transaction runs at READ COMMITTED: a DELETE removes the rows     *)
(* committed when it runs.                                                 *)
(*                                                                         *)
(* Pipelines are taken one at a time; uploads overlap them.  A file is     *)
(* read anew by every load.  A scanned one is read by a vision model,      *)
(* which may read something else each time: a file has a set of readings.  *)
(***************************************************************************)
EXTENDS Naturals, FiniteSets

CONSTANTS Keys,          \* (policy_no, insurer_name) pairs
          Synthetic,     \* the lines of the synthetic files
          Contents,      \* uploaded files: an insurer and the readings of each
          NoPolicy,      \* policy_no of a line that did not normalize
          MaxUploads,    \* bound: uploads in a behaviour
          MaxLoads,      \* bound: loads in a behaviour
          MayRaise,      \* whether a file may be unreadable or a commit raise
          MayCrash,      \* whether the server process may die
          MayLoseFiles   \* whether the upload directory may be emptied

(* A line of a file: n tells two lines about the same policy apart. *)
Line == [policy : {k.policy : k \in Keys} \cup {NoPolicy},
         insurer : {k.insurer : k \in Keys}, n : Nat]

ASSUME FilesAssumption ==
    /\ Synthetic \subseteq Line /\ IsFiniteSet(Synthetic)
    /\ \A file \in Contents :
          /\ file.readings # {} /\ file.readings \subseteq SUBSET Line
          /\ \A lines \in file.readings : IsFiniteSet(lines)
          /\ \A l \in UNION file.readings :
                /\ l.insurer = file.insurer
                /\ l.policy # NoPolicy =>
                      \E k \in Keys : l.policy = k.policy /\ l.insurer = k.insurer

ASSUME BoundsAssumption ==
    /\ MaxUploads \in Nat /\ MaxLoads \in Nat
    /\ {MayRaise, MayCrash, MayLoseFiles} \subseteq BOOLEAN

VARIABLES
    uploads,    \* insurer_feed_uploads: the status of each upload
    content,    \* the file of each upload
    stored,     \* the uploads whose file is in the upload directory
    handler,    \* where _handle_upload is, for each upload
    feed,       \* insurer_commission_feeds
    loader,     \* the pipeline: its load, then the engine's read
    loads       \* loads so far

vars == <<uploads, content, stored, handler, feed, loader, loads>>

Ids == 1..MaxUploads

NoFile == [insurer |-> "none", readings |-> {{}}]

(* A row tells its file, an upload or the synthetic files (0), and the     *)
(* load that inserted it (0 for the upload itself).                        *)
RowsOf(upload, load, lines) ==
    {[upload |-> upload, load |-> load, policy |-> l.policy, insurer |-> l.insurer,
      n |-> l.n] : l \in lines}

SameKey(row, key) == row.policy = key.policy /\ row.insurer = key.insurer

(* _normalize: a table yields its lines, a scan what the model makes of it. *)
Read(u) == content[u].readings

(* Mutation of Usable: lines without a policy number are loaded. *)
AllLines(lines) == lines

(* The lines of a file that are loaded from an upload. *)
Usable(lines) == {l \in lines : l.policy # NoPolicy}

Processed == {u \in Ids : uploads[u] = "processed"}

Loading == loader.at # "idle"
Handling == \E u \in Ids : handler[u] \notin {"none", "over"}

-----------------------------------------------------------------------------
(* An upload *)

(* The file is written and its row inserted. *)
SaveUpload(u, file) ==
    /\ uploads[u] = "none"
    /\ \A v \in Ids : v < u => uploads[v] # "none"
    /\ uploads' = [uploads EXCEPT ![u] = "uploaded"]
    /\ content' = [content EXCEPT ![u] = file]
    /\ stored' = stored \cup {u}
    /\ handler' = [handler EXCEPT ![u] = "mark"]
    /\ loader' = [loader EXCEPT !.quiet = ~Loading]
    /\ UNCHANGED <<feed, loads>>

HandlerGoesTo(u, at) == handler' = [handler EXCEPT ![u] = at]

(* Mutation of MarkProcessing: the upload counts as processed at once. *)
MarkProcessedFirst(u) ==
    /\ handler[u] = "mark"
    /\ uploads' = [uploads EXCEPT ![u] = "processed"]
    /\ HandlerGoesTo(u, "load")
    /\ UNCHANGED <<content, stored, feed, loader, loads>>

(* process_feed_upload, first commit; outside its try block. *)
MarkProcessing(u) ==
    /\ handler[u] = "mark"
    /\ \/ /\ uploads' = [uploads EXCEPT ![u] = "processing"]
          /\ HandlerGoesTo(u, "load")
       \/ /\ MayRaise
          /\ HandlerGoesTo(u, "over")
          /\ UNCHANGED uploads
    /\ UNCHANGED <<content, stored, feed, loader, loads>>

(* Mutation of LoadUpload: the rows are committed before the status. *)
LoadUploadFirst(u) ==
    /\ handler[u] = "load"
    /\ \E lines \in Read(u) : feed' = feed \cup RowsOf(u, 0, Usable(lines))
    /\ HandlerGoesTo(u, "fail")
    /\ UNCHANGED <<uploads, content, stored, loader, loads>>

(* The rows and the final status, in one transaction; if anything in it    *)
(* raises it is rolled back.                                               *)
LoadUpload(u) ==
    /\ handler[u] = "load"
    /\ \/ /\ \E lines \in Read(u) : feed' = feed \cup RowsOf(u, 0, Usable(lines))
          /\ uploads' = [uploads EXCEPT ![u] = "processed"]
          /\ HandlerGoesTo(u, "over")
       \/ /\ MayRaise
          /\ HandlerGoesTo(u, "fail")
          /\ UNCHANGED <<feed, uploads>>
    /\ UNCHANGED <<content, stored, loader, loads>>

(* The except branch, whose commit may raise like any other. *)
MarkFailed(u) ==
    /\ handler[u] = "fail"
    /\ \/ uploads' = [uploads EXCEPT ![u] = "failed"]
       \/ MayRaise /\ UNCHANGED uploads
    /\ HandlerGoesTo(u, "over")
    /\ UNCHANGED <<content, stored, feed, loader, loads>>

-----------------------------------------------------------------------------
(* A load *)

(* quiet, which no action reads, tells that no upload has overlapped the   *)
(* pipeline since it chose its source.                                     *)
Resting == [at |-> "idle", delete |-> {}, insert |-> {}, views |-> {}, keys |-> {},
            quiet |-> TRUE]

LoadState == <<uploads, content, stored, handler>>

(* intake: in a session of its own, whether any upload is processed. *)
ChooseSource ==
    /\ loader.at = "idle"
    /\ loads < MaxLoads
    /\ loads' = loads + 1
    /\ loader' = [loader EXCEPT !.at = IF Processed # {} THEN "all" ELSE "synthetic",
                                !.quiet = ~Handling]
    /\ UNCHANGED <<LoadState, feed>>

(* _load_synthetic *)
LoadSynthetic ==
    /\ loader.at \in {"all", "synthetic"}
    /\ loader' = [loader EXCEPT
                     !.at = IF loader.at = "all" THEN "overlay" ELSE "commit",
                     !.delete = feed,
                     !.insert = RowsOf(0, loads, Synthetic)]
    /\ UNCHANGED <<LoadState, feed, loads>>

(* Mutation of LatestUploads: earlier uploads are not superseded. *)
AllUploads == Processed

(* The last processed upload of each insurer. *)
LatestUploads ==
    {u \in Processed : \A v \in Processed :
        content[v].insurer = content[u].insurer => v <= u}

(* What a load overlays, if it reads its files so; files that are gone are *)
(* passed over.                                                            *)
Readings == {f \in [LatestUploads \cap stored -> UNION {Read(u) : u \in Ids}] :
                \A u \in DOMAIN f : f[u] \in Read(u)}
UploadedViews(reading) ==
    UNION {RowsOf(u, loads, Usable(reading[u])) : u \in DOMAIN reading}

(* _overlay_uploaded: the processed uploads are read. *)
ReadUploads ==
    /\ loader.at = "overlay"
    /\ \E reading \in Readings :
          LET views == UploadedViews(reading) IN
          loader' = [loader EXCEPT
                        !.at = "replace",
                        !.views = views,
                        !.keys = {k \in Keys : \E row \in views : SameKey(row, k)}]
    /\ UNCHANGED <<LoadState, feed, loads>>

(* Mutation of Superseded: the insurer is not part of the key. *)
SupersededPolicy(row, key) == row.policy = key.policy
Superseded(row, key) == SameKey(row, key)

(* One DELETE for each key of the uploads; it also removes rows this       *)
(* transaction has inserted.                                               *)
ReplaceKey(key) ==
    /\ loader.at = "replace"
    /\ key \in loader.keys
    /\ loader' = [loader EXCEPT
                     !.keys = @ \ {key},
                     !.delete = @ \cup {row \in feed : Superseded(row, key)},
                     !.insert = {row \in @ : ~Superseded(row, key)}]
    /\ UNCHANGED <<LoadState, feed, loads>>

(* The uploaded rows take their place. *)
InsertViews ==
    /\ loader.at = "replace"
    /\ loader.keys = {}
    /\ loader' = [loader EXCEPT
                     !.at = "commit",
                     !.insert = @ \cup loader.views]
    /\ UNCHANGED <<LoadState, feed, loads>>

CommitLoad ==
    /\ loader.at = "commit"
    /\ feed' = (feed \ loader.delete) \cup loader.insert
    /\ loader' = [Resting EXCEPT !.at = "reconcile", !.quiet = loader.quiet]
    /\ UNCHANGED <<LoadState, loads>>

(* The next node: the engine aggregates the feed. *)
Reconcile ==
    /\ loader.at = "reconcile"
    /\ loader' = Resting
    /\ UNCHANGED <<LoadState, feed, loads>>

(* A file cannot be parsed or the database fails: rolled back and raised. *)
AbortLoad ==
    /\ MayRaise
    /\ Loading /\ loader.at # "reconcile"
    /\ loader' = Resting
    /\ UNCHANGED <<LoadState, feed, loads>>

-----------------------------------------------------------------------------
(* The server process dies; what it was handling is not taken up again. *)
Crash ==
    /\ MayCrash
    /\ Loading \/ Handling
    /\ loader' = Resting
    /\ handler' = [u \in Ids |-> IF handler[u] = "none" THEN "none" ELSE "over"]
    /\ UNCHANGED <<uploads, content, stored, feed, loads>>

(* The upload directory is not on a volume: a new container has none. *)
LoseFiles ==
    /\ MayLoseFiles
    /\ stored # {}
    /\ ~Loading /\ ~Handling
    /\ stored' = {}
    /\ UNCHANGED <<uploads, content, handler, feed, loader, loads>>

Done ==
    /\ loads = MaxLoads
    /\ ~Loading /\ ~Handling
    /\ \A u \in Ids : uploads[u] # "none"
    /\ UNCHANGED vars

Init ==
    /\ uploads = [u \in Ids |-> "none"]
    /\ content = [u \in Ids |-> NoFile]
    /\ stored = {}
    /\ handler = [u \in Ids |-> "none"]
    /\ feed = {}
    /\ loader = Resting
    /\ loads = 0

Next ==
    \/ \E u \in Ids : \E file \in Contents : SaveUpload(u, file)
    \/ \E u \in Ids : MarkProcessing(u) \/ LoadUpload(u) \/ MarkFailed(u)
    \/ ChooseSource \/ LoadSynthetic \/ ReadUploads \/ InsertViews \/ CommitLoad \/ Reconcile
    \/ \E key \in Keys : ReplaceKey(key)
    \/ AbortLoad
    \/ Crash
    \/ LoseFiles
    \/ Done

Spec == Init /\ [][Next]_vars

-----------------------------------------------------------------------------
(* Properties *)

TypeOK ==
    /\ uploads \in [Ids -> {"none", "uploaded", "processing", "processed", "failed"}]
    /\ stored \subseteq {u \in Ids : uploads[u] # "none"}
    /\ handler \in [Ids -> {"none", "mark", "load", "fail", "over"}]
    /\ \A u \in Ids : content[u] \in Contents \cup {NoFile}
    /\ \A row \in feed \cup loader.insert :
          /\ row.upload \in {0} \cup Ids
          /\ row.load \in 0..loads
          /\ row.policy = NoPolicy => row.upload = 0
    /\ loader.keys \subseteq Keys
    /\ loads \in 0..MaxLoads

(* Rows without the load that inserted them. *)
Lines(rows) == {[row EXCEPT !.load = 0] : row \in rows}

(* The overlay as the loader documents it: a later upload of an insurer    *)
(* supersedes earlier ones, and its lines replace the synthetic lines of   *)
(* the same policy and insurer.                                            *)
Superseding(v, u) ==
    v > u /\ uploads[v] = "processed" /\ content[v].insurer = content[u].insurer

Standing ==
    {u \in stored : uploads[u] = "processed" /\ \A v \in Ids : ~Superseding(v, u)}

Overlay(reading) ==
    LET won == UNION {RowsOf(u, 0, {l \in reading[u] : l.policy # NoPolicy}) :
                         u \in Standing}
    IN  won \cup {row \in RowsOf(0, 0, Synthetic) : \A w \in won : ~SameKey(row, w)}

(* An engine that no upload has overlapped since its pipeline began reads  *)
(* exactly the overlay, of one reading of each standing upload, no line    *)
(* twice, whatever failed, was lost or was read otherwise before it.       *)
EngineReadsOverlay ==
    [][Reconcile /\ loader.quiet =>
          \E reading \in [Standing -> UNION {content[u].readings : u \in Ids}] :
             /\ \A u \in Standing : reading[u] \in content[u].readings
             /\ Lines(feed) = Overlay(reading)
             /\ Cardinality(feed) = Cardinality(Overlay(reading))]_vars

(* No payment of an uploaded statement is counted twice, however uploads   *)
(* interleave with the load of the pipeline under way: a line the upload   *)
(* inserted and the same line as overlaid by a load never stand side by    *)
(* side.                                                                   *)
NoLineTwice ==
    \A row, other \in feed :
        row.upload # 0 /\ [row EXCEPT !.load = 0] = [other EXCEPT !.load = 0] => row = other

(* The rows of an upload are in the feed only once it is called processed: *)
(* nothing of an upload that failed or was cut short is reconciled.        *)
UploadedRowsAreProcessed ==
    \A u \in Ids : uploads[u] # "processed" =>
        \A row \in feed : row.upload # u

(* A policy of the baseline never loses its last feed row, whatever upload *)
(* overlaps a load: it would be reported, and claimed, as unpaid.          *)
BaselineCovered ==
    [][\A key \in Keys :
          /\ \E l \in Synthetic : SameKey(l, key)
          /\ \E row \in feed : SameKey(row, key)
          => \E row \in feed' : SameKey(row, key)]_vars

(* An uploaded feed is not wiped by a load: once processed, the latest     *)
(* upload of an insurer has its lines in the feed.                         *)
UploadSurvives ==
    \A u \in LatestUploads \cap stored : \E lines \in Read(u) :
        RowsOf(u, 0, Usable(lines)) \subseteq Lines(feed)
=============================================================================
