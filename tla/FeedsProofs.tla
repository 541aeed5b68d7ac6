---------------------------- MODULE FeedsProofs -----------------------------
(***************************************************************************)
(* What uploads and loads guarantee for all files, insurers and numbers of *)
(* uploads and loads, whatever overlaps or fails.  The inductive invariant *)
(* follows a load: what it is about to delete and insert makes up for all  *)
(* it takes away, and leaves no line of an upload twice.                   *)
(***************************************************************************)
EXTENDS Feeds, TLAPS, FiniteSetTheorems

FeedRow ==
    [upload : {0} \cup Ids, load : Nat, policy : {k.policy : k \in Keys} \cup {NoPolicy},
     insurer : {k.insurer : k \in Keys}, n : Nat]

Stages == {"idle", "all", "synthetic", "overlay", "replace", "commit", "reconcile"}

Loader ==
    [at : Stages, delete : SUBSET FeedRow, insert : SUBSET FeedRow,
     views : SUBSET FeedRow, keys : SUBSET Keys, quiet : BOOLEAN]

Shape ==
    /\ uploads \in [Ids -> {"none", "uploaded", "processing", "processed", "failed"}]
    /\ content \in [Ids -> Contents \cup {NoFile}]
    /\ stored \subseteq {u \in Ids : uploads[u] # "none"}
    /\ handler \in [Ids -> {"none", "mark", "load", "fail", "over"}]
    /\ feed \subseteq FeedRow
    /\ loader \in Loader
    /\ loads \in 0..MaxLoads

(* The handler of an upload and its status agree about how far it is.      *)
HandlerAgrees ==
    \A u \in Ids :
        /\ uploads[u] = "none" <=> handler[u] = "none"
        /\ handler[u] = "mark" => uploads[u] = "uploaded"
        /\ handler[u] \in {"load", "fail"} => uploads[u] = "processing"
        /\ uploads[u] # "none" => content[u] \in Contents

(* Rows, in the feed or on their way, come from uploads that are processed *)
(* or from the synthetic files.                                            *)
Origins ==
    \A row \in feed \cup loader.insert \cup loader.views :
        /\ row.load <= loads
        /\ row.upload # 0 => uploads[row.upload] = "processed" /\ row.policy # NoPolicy

(* What a load has prepared at each stage. *)
Prepared ==
    /\ loader.at \in {"idle", "all", "synthetic", "reconcile"} =>
          loader.delete = {} /\ loader.insert = {} /\ loader.views = {} /\ loader.keys = {}
    /\ loader.at = "overlay" =>
          /\ loader.views = {} /\ loader.keys = {}
          /\ \A row \in loader.insert : row.upload = 0
    /\ loader.at = "commit" => loader.keys = {} /\ loader.views \subseteq loader.insert
    /\ \A k \in loader.keys : \E row \in loader.views : SameKey(row, k)
    /\ \A row \in loader.insert \cup loader.views : row.load = loads

(* A row of the feed that a line of an upload replaces is deleted, or its  *)
(* key is still to be.                                                     *)
Replaced ==
    \A row \in feed : \A w \in loader.insert \cup loader.views :
        w.upload # 0 /\ row.upload = w.upload /\ SameKey(row, w) =>
            row \in loader.delete \/ \E k \in loader.keys : SameKey(row, k)

(* What a load takes away from a policy of the baseline it puts back.      *)
HasLine(key) == \E l \in Synthetic : SameKey(l, key)
Restored ==
    loader.at \in {"overlay", "replace", "commit"} =>
        \A key \in Keys : HasLine(key) =>
            \E row \in loader.insert \cup loader.views : SameKey(row, key)

FeedsInv ==
    Shape /\ HandlerAgrees /\ Origins /\ Prepared /\ Replaced /\ Restored /\ NoLineTwice

-----------------------------------------------------------------------------
(* Rows of lines are rows of the feed. *)
LEMMA RowsOfLines ==
  ASSUME NEW u \in {0} \cup Ids, NEW load \in Nat, NEW lines \in SUBSET Line
  PROVE  /\ RowsOf(u, load, lines) \subseteq FeedRow
         /\ \A row \in RowsOf(u, load, lines) : row.upload = u /\ row.load = load
         /\ \A row \in RowsOf(u, load, lines) :
               \E l \in lines : row.policy = l.policy /\ row.insurer = l.insurer
         /\ \A l \in lines : \E row \in RowsOf(u, load, lines) :
               row.policy = l.policy /\ row.insurer = l.insurer
<1> DEFINE Row(l) == [upload |-> u, load |-> load, policy |-> l.policy,
                      insurer |-> l.insurer, n |-> l.n]
<1>1. RowsOf(u, load, lines) = {Row(l) : l \in lines}
  BY DEF RowsOf
<1>2. ASSUME NEW l \in lines PROVE Row(l) \in FeedRow
  <2>1. l \in Line
    OBVIOUS
  <2>2. l.policy \in {k.policy : k \in Keys} \cup {NoPolicy}
    BY <2>1 DEF Line
  <2>3. l.insurer \in {k.insurer : k \in Keys} /\ l.n \in Nat
    BY <2>1 DEF Line
  <2> QED BY <2>2, <2>3 DEF FeedRow
<1>3. \A l \in lines : /\ Row(l).upload = u /\ Row(l).load = load
                       /\ Row(l).policy = l.policy /\ Row(l).insurer = l.insurer
  OBVIOUS
<1> HIDE DEF Row
<1> QED BY <1>1, <1>2, <1>3

(* The usable lines of a file. *)
LEMMA UsableLines ==
  ASSUME NEW u \in Ids, content[u] \in Contents, NEW lines \in Read(u)
  PROVE  /\ Usable(lines) \in SUBSET Line
         /\ \A l \in Usable(lines) : l.policy # NoPolicy /\ \E k \in Keys : SameKey(l, k)
BY FilesAssumption DEF Read, Usable, SameKey

(* A row without its load tells its line and upload. *)
LEMMA SameLine ==
  ASSUME NEW row \in FeedRow, NEW other \in FeedRow
  PROVE  [row EXCEPT !.load = 0] = [other EXCEPT !.load = 0] =>
            /\ row.upload = other.upload /\ SameKey(row, other)
            /\ row.load = other.load => row = other
<1> SUFFICES ASSUME [row EXCEPT !.load = 0] = [other EXCEPT !.load = 0]
             PROVE  /\ row.upload = other.upload /\ SameKey(row, other)
                    /\ row.load = other.load => row = other
  OBVIOUS
<1>1. /\ row.upload = other.upload /\ row.policy = other.policy
      /\ row.insurer = other.insurer /\ row.n = other.n
  <2>1. [row EXCEPT !.load = 0] = [upload |-> row.upload, load |-> 0,
           policy |-> row.policy, insurer |-> row.insurer, n |-> row.n]
    BY DEF FeedRow
  <2>2. [other EXCEPT !.load = 0] = [upload |-> other.upload, load |-> 0,
           policy |-> other.policy, insurer |-> other.insurer, n |-> other.n]
    BY DEF FeedRow
  <2> QED BY <2>1, <2>2
<1>2. row.load = other.load => row = other
  BY <1>1 DEF FeedRow
<1> QED BY <1>1, <1>2 DEF SameKey

LEMMA FeedsInit == Init => FeedsInv
<1> SUFFICES ASSUME Init PROVE FeedsInv
  OBVIOUS
<1>1. Shape
  BY BoundsAssumption DEF Init, Shape, Loader, Resting, Stages, Ids
<1>2. HandlerAgrees /\ Origins /\ Prepared /\ Replaced /\ Restored /\ NoLineTwice
  BY DEF Init, HandlerAgrees, Origins, Prepared, Replaced, Restored, NoLineTwice, Resting
<1> QED BY <1>1, <1>2 DEF FeedsInv

-----------------------------------------------------------------------------
(* Uploads *)

LEMMA SaveUploadKeeps ==
  ASSUME FeedsInv, NEW u \in Ids, NEW file \in Contents, SaveUpload(u, file)
  PROVE  FeedsInv'
<1>1. Shape'
  <2>1. loader' \in Loader
    BY DEF FeedsInv, Shape, SaveUpload, Loader, Loading
  <2>2. /\ uploads' \in [Ids -> {"none", "uploaded", "processing", "processed", "failed"}]
        /\ content' \in [Ids -> Contents \cup {NoFile}]
        /\ handler' \in [Ids -> {"none", "mark", "load", "fail", "over"}]
    BY DEF FeedsInv, Shape, SaveUpload
  <2>3. stored' \subseteq {v \in Ids : uploads'[v] # "none"}
    BY DEF FeedsInv, Shape, SaveUpload
  <2> QED BY <2>1, <2>2, <2>3 DEF FeedsInv, Shape, SaveUpload
<1>2. HandlerAgrees'
  BY DEF FeedsInv, Shape, SaveUpload, HandlerAgrees
<1>3. Origins' /\ Prepared' /\ Replaced' /\ Restored' /\ NoLineTwice'
  <2>1. /\ UNCHANGED <<feed, loads>>
        /\ loader' = [loader EXCEPT !.quiet = ~Loading]
        /\ \A v \in Ids : uploads[v] = "processed" => uploads'[v] = "processed"
        /\ loader \in Loader /\ feed \subseteq FeedRow
    BY DEF FeedsInv, Shape, SaveUpload
  <2>2. /\ loader'.at = loader.at /\ loader'.delete = loader.delete
        /\ loader'.insert = loader.insert /\ loader'.views = loader.views
        /\ loader'.keys = loader.keys
    BY <2>1 DEF Loader
  <2>3. Origins'
    BY <2>1, <2>2 DEF FeedsInv, Origins, Loader, FeedRow
  <2>4. Prepared' /\ Replaced' /\ Restored' /\ NoLineTwice'
    BY <2>1, <2>2 DEF FeedsInv, Prepared, Replaced, Restored, NoLineTwice
  <2> QED BY <2>3, <2>4
<1> QED BY <1>1, <1>2, <1>3 DEF FeedsInv

LEMMA MarkKeeps ==
  ASSUME FeedsInv, NEW u \in Ids, MarkProcessing(u) \/ MarkFailed(u)
  PROVE  FeedsInv'
<1>1. Shape'
  BY DEF FeedsInv, Shape, MarkProcessing, MarkFailed, HandlerGoesTo
<1>2. HandlerAgrees'
  BY DEF FeedsInv, Shape, MarkProcessing, MarkFailed, HandlerGoesTo, HandlerAgrees
<1>3. /\ UNCHANGED <<feed, loader, loads>>
      /\ \A v \in Ids : uploads[v] = "processed" => uploads'[v] = "processed"
  BY DEF FeedsInv, Shape, HandlerAgrees, MarkProcessing, MarkFailed
<1>4. Origins'
  BY <1>3 DEF FeedsInv, Shape, Origins, Loader, FeedRow
<1>5. Prepared' /\ Replaced' /\ Restored' /\ NoLineTwice'
  BY <1>3 DEF FeedsInv, Prepared, Replaced, Restored, NoLineTwice
<1> QED BY <1>1, <1>2, <1>4, <1>5 DEF FeedsInv

(* The rows of an upload are the first of it, in the feed and in the load. *)
LEMMA LoadUploadKeeps ==
  ASSUME FeedsInv, NEW u \in Ids, LoadUpload(u)
  PROVE  FeedsInv'
<1>1. CASE UNCHANGED <<feed, uploads>> /\ HandlerGoesTo(u, "fail")
  <2>1. Shape'
    BY <1>1 DEF FeedsInv, Shape, LoadUpload, HandlerGoesTo
  <2>2. HandlerAgrees'
    BY <1>1 DEF FeedsInv, Shape, LoadUpload, HandlerGoesTo, HandlerAgrees
  <2>3. Origins' /\ Prepared' /\ Replaced' /\ Restored' /\ NoLineTwice'
    BY <1>1 DEF FeedsInv, LoadUpload, Origins, Prepared, Replaced, Restored, NoLineTwice
  <2> QED BY <2>1, <2>2, <2>3 DEF FeedsInv
<1>2. CASE \E lines \in Read(u) :
              /\ feed' = feed \cup RowsOf(u, 0, Usable(lines))
              /\ uploads' = [uploads EXCEPT ![u] = "processed"]
              /\ HandlerGoesTo(u, "over")
  <2>1. PICK lines \in Read(u) :
              /\ feed' = feed \cup RowsOf(u, 0, Usable(lines))
              /\ uploads' = [uploads EXCEPT ![u] = "processed"]
              /\ HandlerGoesTo(u, "over")
    BY <1>2
  <2>2. /\ uploads[u] = "processing" /\ content[u] \in Contents
        /\ UNCHANGED <<content, stored, loader, loads>>
    BY DEF FeedsInv, HandlerAgrees, LoadUpload
  <2> DEFINE rows == RowsOf(u, 0, Usable(lines))
  <2>3. /\ rows \subseteq FeedRow
        /\ \A row \in rows : row.upload = u /\ row.load = 0 /\ row.policy # NoPolicy
    <3>1. /\ Usable(lines) \in SUBSET Line
          /\ \A l \in Usable(lines) : l.policy # NoPolicy
      BY <2>2, UsableLines
    <3>2. u \in {0} \cup Ids /\ 0 \in Nat
      OBVIOUS
    <3>3. /\ rows \subseteq FeedRow
          /\ \A row \in rows : row.upload = u /\ row.load = 0
          /\ \A row \in rows : \E l \in Usable(lines) : row.policy = l.policy
      BY <3>1, <3>2, RowsOfLines
    <3> QED BY <3>1, <3>3
  <2>4. \A row \in feed \cup loader.insert \cup loader.views : row.upload # u
    BY <2>2 DEF FeedsInv, Origins, Ids
  <2>5. feed' = feed \cup rows
    BY <2>1
  <2> HIDE DEF rows
  <2>6. Shape'
    BY <2>1, <2>2, <2>3, <2>5 DEF FeedsInv, Shape, HandlerGoesTo
  <2>7. HandlerAgrees'
    BY <2>1, <2>2 DEF FeedsInv, Shape, LoadUpload, HandlerGoesTo, HandlerAgrees
  <2>8. Origins'
    BY <2>1, <2>2, <2>3, <2>5, BoundsAssumption DEF FeedsInv, Shape, Origins, Ids, FeedRow, Loader
  <2>9. Prepared' /\ Restored'
    BY <2>2 DEF FeedsInv, Prepared, Restored
  <2>10. Replaced'
    BY <2>2, <2>3, <2>4, <2>5 DEF FeedsInv, Replaced
  <2>11. NoLineTwice'
    <3> SUFFICES ASSUME NEW row \in feed', NEW other \in feed', row.upload # 0,
                        [row EXCEPT !.load = 0] = [other EXCEPT !.load = 0]
                 PROVE  row = other
      BY DEF NoLineTwice
    <3>1. row \in FeedRow /\ other \in FeedRow
      BY <2>3, <2>5 DEF FeedsInv, Shape
    <3>2. row.upload = other.upload /\ (row.load = other.load => row = other)
      BY <3>1, SameLine
    <3> QED BY <2>3, <2>4, <2>5, <3>2 DEF FeedsInv, NoLineTwice
  <2> QED BY <2>6, <2>7, <2>8, <2>9, <2>10, <2>11 DEF FeedsInv
<1> QED BY <1>1, <1>2 DEF LoadUpload

-----------------------------------------------------------------------------
(* Loads *)

(* The pipeline comes to rest, or drops what it has prepared. *)
LEMMA RestKeeps ==
  ASSUME FeedsInv, loader' = Resting, UNCHANGED <<uploads, content, stored, feed, loads>>,
         handler' = handler \/ handler' = [u \in Ids |-> IF handler[u] = "none" THEN "none"
                                                                            ELSE "over"]
  PROVE  FeedsInv'
<1>1. Shape'
  BY DEF FeedsInv, Shape, Resting, Loader, Stages
<1>2. HandlerAgrees'
  BY DEF FeedsInv, Shape, HandlerAgrees
<1>3. Origins' /\ Prepared' /\ Replaced' /\ Restored' /\ NoLineTwice'
  BY DEF FeedsInv, Origins, Prepared, Replaced, Restored, NoLineTwice, Resting
<1> QED BY <1>1, <1>2, <1>3 DEF FeedsInv

LEMMA ChooseSourceKeeps == ASSUME FeedsInv, ChooseSource PROVE FeedsInv'
<1>1. /\ loads \in 0..MaxLoads /\ loads < MaxLoads /\ loads' = loads + 1
      /\ loader.at = "idle" /\ loader \in Loader
      /\ UNCHANGED <<uploads, content, stored, handler, feed>>
  BY DEF FeedsInv, Shape, ChooseSource, LoadState
<1>2. PICK at \in {"all", "synthetic"}, quiet \in BOOLEAN :
         loader' = [loader EXCEPT !.at = at, !.quiet = quiet]
  BY DEF ChooseSource, Handling
<1>3. /\ loader' \in Loader /\ loader'.at = at
      /\ loader'.delete = {} /\ loader'.insert = {} /\ loader'.views = {}
      /\ loader'.keys = {}
  BY <1>1, <1>2 DEF FeedsInv, Prepared, Loader, Stages
<1>4. Shape'
  BY <1>1, <1>3, BoundsAssumption DEF FeedsInv, Shape
<1>5. Origins'
  BY <1>1, <1>3 DEF FeedsInv, Shape, Origins, FeedRow
<1>6. HandlerAgrees' /\ Prepared' /\ Replaced' /\ Restored' /\ NoLineTwice'
  BY <1>1, <1>3 DEF FeedsInv, HandlerAgrees, Prepared, Replaced, Restored, NoLineTwice
<1> QED BY <1>4, <1>5, <1>6 DEF FeedsInv

(* All of the feed is to go, all of the synthetic lines are to come. *)
LEMMA LoadSyntheticKeeps == ASSUME FeedsInv, LoadSynthetic PROVE FeedsInv'
<1> DEFINE rows == RowsOf(0, loads, Synthetic)
<1>1. /\ loads \in Nat /\ loader \in Loader /\ feed \subseteq FeedRow
      /\ UNCHANGED <<uploads, content, stored, handler, feed, loads>>
      /\ loader.views = {} /\ loader.keys = {}
  BY BoundsAssumption DEF FeedsInv, Shape, LoadSynthetic, LoadState, Prepared
<1>2. /\ rows \subseteq FeedRow
      /\ \A row \in rows : row.upload = 0 /\ row.load = loads
      /\ \A l \in Synthetic : \E row \in rows : SameKey(row, l)
  <2>1. 0 \in {0} \cup Ids /\ Synthetic \in SUBSET Line
    BY FilesAssumption
  <2> QED BY <1>1, <2>1, RowsOfLines DEF SameKey
<1>3. PICK at \in {"overlay", "commit"} :
         loader' = [loader EXCEPT !.at = at, !.delete = feed, !.insert = rows]
  BY DEF LoadSynthetic
<1> HIDE DEF rows
<1>4. /\ loader' \in Loader /\ loader'.at = at /\ loader'.delete = feed
      /\ loader'.insert = rows /\ loader'.views = {} /\ loader'.keys = {}
  BY <1>1, <1>2, <1>3 DEF Loader, Stages
<1>5. Shape' /\ HandlerAgrees' /\ NoLineTwice'
  BY <1>1, <1>4 DEF FeedsInv, Shape, HandlerAgrees, NoLineTwice
<1>6. Origins' /\ Prepared' /\ Replaced'
  BY <1>1, <1>2, <1>4 DEF FeedsInv, Origins, Prepared, Replaced
<1>7. Restored'
  BY <1>1, <1>2, <1>4 DEF Restored, HasLine, SameKey
<1> QED BY <1>5, <1>6, <1>7 DEF FeedsInv

(* What a reading of the uploads yields. *)
LEMMA ViewsOfReading ==
  ASSUME FeedsInv, NEW reading \in Readings
  PROVE  LET views == UploadedViews(reading)
         IN  /\ views \subseteq FeedRow
             /\ \A row \in views :
                   /\ row.upload \in Processed /\ row.load = loads /\ row.policy # NoPolicy
                   /\ \E k \in Keys : SameKey(row, k)
<1>1. loads \in Nat
  BY BoundsAssumption DEF FeedsInv, Shape
<1>2. SUFFICES ASSUME NEW u \in DOMAIN reading,
                      NEW row \in RowsOf(u, loads, Usable(reading[u]))
               PROVE  /\ row \in FeedRow
                      /\ row.upload \in Processed /\ row.load = loads
                      /\ row.policy # NoPolicy /\ \E k \in Keys : SameKey(row, k)
  BY DEF UploadedViews
<1>3. u \in Processed /\ u \in Ids /\ reading[u] \in Read(u) /\ content[u] \in Contents
  BY DEF Readings, LatestUploads, Processed, FeedsInv, HandlerAgrees
<1>4. /\ Usable(reading[u]) \in SUBSET Line
      /\ \A l \in Usable(reading[u]) : l.policy # NoPolicy /\ \E k \in Keys : SameKey(l, k)
  BY <1>3, UsableLines
<1>5. /\ row \in FeedRow /\ row.upload = u /\ row.load = loads
      /\ \E l \in Usable(reading[u]) : row.policy = l.policy /\ row.insurer = l.insurer
  BY <1>1, <1>3, <1>4, RowsOfLines
<1> QED BY <1>3, <1>4, <1>5 DEF SameKey

LEMMA ReadUploadsKeeps == ASSUME FeedsInv, ReadUploads PROVE FeedsInv'
<1>1. PICK reading \in Readings :
         loader' = [loader EXCEPT
                       !.at = "replace",
                       !.views = UploadedViews(reading),
                       !.keys = {k \in Keys : \E row \in UploadedViews(reading) : SameKey(row, k)}]
  BY DEF ReadUploads
<1> DEFINE views == UploadedViews(reading)
           keys == {k \in Keys : \E row \in views : SameKey(row, k)}
<1>2. /\ views \subseteq FeedRow
      /\ \A row \in views : /\ row.upload \in Processed /\ row.load = loads
                             /\ row.policy # NoPolicy /\ \E k \in Keys : SameKey(row, k)
  BY ViewsOfReading
<1>3. loader' = [loader EXCEPT !.at = "replace", !.views = views, !.keys = keys]
  BY <1>1
<1>4. /\ loads \in Nat /\ loader \in Loader /\ loader.at = "overlay"
      /\ UNCHANGED <<uploads, content, stored, handler, feed, loads>>
      /\ \A row \in loader.insert : row.upload = 0
  BY BoundsAssumption DEF FeedsInv, Shape, ReadUploads, LoadState, Prepared
<1>5. keys \subseteq Keys /\ \A k \in keys : \E row \in views : SameKey(row, k)
  OBVIOUS
<1>6. \A row \in views : \E k \in keys : SameKey(row, k)
  BY <1>2
<1> HIDE DEF views, keys
<1>7. /\ loader' \in Loader /\ loader'.at = "replace" /\ loader'.delete = loader.delete
      /\ loader'.insert = loader.insert /\ loader'.views = views /\ loader'.keys = keys
  BY <1>2, <1>3, <1>4, <1>5 DEF Loader, Stages
<1>8. Shape' /\ HandlerAgrees' /\ NoLineTwice'
  BY <1>4, <1>7 DEF FeedsInv, Shape, HandlerAgrees, NoLineTwice
<1>9. Origins'
  <2> SUFFICES ASSUME NEW row \in views
               PROVE  row.load <= loads /\ uploads[row.upload] = "processed"
                         /\ row.policy # NoPolicy
    BY <1>4, <1>7 DEF FeedsInv, Origins
  <2> QED BY <1>2, <1>4 DEF Processed
<1>10. Prepared' /\ Restored'
  BY <1>2, <1>4, <1>5, <1>7 DEF FeedsInv, Prepared, Restored
<1>11. Replaced'
  <2> SUFFICES ASSUME NEW row \in feed, NEW w \in views, SameKey(row, w)
               PROVE  \E k \in keys : SameKey(row, k)
    BY <1>4, <1>7 DEF Replaced
  <2> QED BY <1>6 DEF SameKey
<1> QED BY <1>8, <1>9, <1>10, <1>11 DEF FeedsInv

LEMMA ReplaceKeyKeeps == ASSUME FeedsInv, NEW key \in Keys, ReplaceKey(key) PROVE FeedsInv'
<1>1. /\ loader \in Loader /\ loader.at = "replace" /\ key \in loader.keys
      /\ feed \subseteq FeedRow
      /\ UNCHANGED <<uploads, content, stored, handler, feed, loads>>
  BY DEF FeedsInv, Shape, ReplaceKey, LoadState
<1>2. /\ loader'.at = "replace" /\ loader'.views = loader.views
      /\ loader'.keys = loader.keys \ {key}
      /\ loader'.delete = loader.delete \cup {row \in feed : SameKey(row, key)}
      /\ loader'.insert = {row \in loader.insert : ~SameKey(row, key)}
      /\ loader' \in Loader
  BY <1>1 DEF ReplaceKey, Loader, Superseded
<1>3. Shape' /\ HandlerAgrees' /\ NoLineTwice'
  BY <1>1, <1>2 DEF FeedsInv, Shape, HandlerAgrees, NoLineTwice
<1>4. Origins' /\ Prepared'
  BY <1>1, <1>2 DEF FeedsInv, Origins, Prepared
<1>5. Replaced'
  <2> SUFFICES ASSUME NEW row \in feed, NEW w \in loader.insert \cup loader.views,
                      w.upload # 0, row.upload = w.upload, SameKey(row, w)
               PROVE  row \in loader'.delete \/ \E k \in loader'.keys : SameKey(row, k)
    BY <1>1, <1>2 DEF Replaced
  <2>1. row \in loader.delete \/ \E k \in loader.keys : SameKey(row, k)
    BY DEF FeedsInv, Replaced
  <2> QED BY <1>2, <2>1
<1>6. Restored'
  <2> SUFFICES ASSUME NEW other \in Keys, HasLine(other)
               PROVE  \E row \in loader'.insert \cup loader.views : SameKey(row, other)
    BY <1>1, <1>2 DEF Restored, HasLine
  <2>1. PICK row \in loader.insert \cup loader.views : SameKey(row, other)
    BY <1>1 DEF FeedsInv, Restored
  <2>2. PICK view \in loader.views : SameKey(view, key)
    BY <1>1 DEF FeedsInv, Prepared
  <2> QED BY <1>2, <2>1, <2>2 DEF SameKey
<1> QED BY <1>3, <1>4, <1>5, <1>6 DEF FeedsInv

LEMMA InsertViewsKeeps == ASSUME FeedsInv, InsertViews PROVE FeedsInv'
<1>1. /\ loader \in Loader /\ loader.at = "replace" /\ loader.keys = {}
      /\ UNCHANGED <<uploads, content, stored, handler, feed, loads>>
      /\ loader' = [loader EXCEPT !.at = "commit", !.insert = @ \cup loader.views]
  BY DEF FeedsInv, Shape, InsertViews, LoadState
<1>2. /\ loader'.at = "commit" /\ loader'.views = loader.views
      /\ loader'.keys = loader.keys /\ loader'.delete = loader.delete
      /\ loader'.insert = loader.insert \cup loader.views
      /\ loader' \in Loader
  BY <1>1 DEF Loader, Stages
<1>3. Shape' /\ HandlerAgrees' /\ NoLineTwice'
  BY <1>1, <1>2 DEF FeedsInv, Shape, HandlerAgrees, NoLineTwice
<1>4. Origins' /\ Prepared' /\ Replaced' /\ Restored'
  BY <1>1, <1>2 DEF FeedsInv, Origins, Prepared, Replaced, Restored
<1> QED BY <1>3, <1>4 DEF FeedsInv

(* What replaces a line of an upload comes when the line goes. *)
LEMMA CommitLoadKeeps == ASSUME FeedsInv, CommitLoad PROVE FeedsInv'
<1>1. /\ loader \in Loader /\ loader.at = "commit" /\ feed \subseteq FeedRow
      /\ UNCHANGED <<uploads, content, stored, handler, loads>>
      /\ feed' = (feed \ loader.delete) \cup loader.insert
      /\ loader.keys = {}
  BY DEF FeedsInv, Shape, CommitLoad, LoadState, Prepared
<1>2. /\ loader'.at = "reconcile" /\ loader'.delete = {} /\ loader'.insert = {}
      /\ loader'.views = {} /\ loader'.keys = {} /\ loader' \in Loader
  BY <1>1 DEF CommitLoad, Resting, Loader, Stages
<1>3. feed' \subseteq FeedRow
  BY <1>1 DEF Loader
<1>4. Shape' /\ HandlerAgrees'
  BY <1>1, <1>2, <1>3 DEF FeedsInv, Shape, HandlerAgrees
<1>5. Origins' /\ Prepared' /\ Replaced' /\ Restored'
  BY <1>1, <1>2 DEF FeedsInv, Origins, Prepared, Replaced, Restored
<1>6. NoLineTwice'
  <2> SUFFICES ASSUME NEW row \in feed', NEW other \in feed', row.upload # 0,
                      [row EXCEPT !.load = 0] = [other EXCEPT !.load = 0]
               PROVE  row = other
    BY DEF NoLineTwice
  <2>1. /\ row.upload = other.upload /\ SameKey(row, other) /\ SameKey(other, row)
        /\ (row.load = other.load => row = other)
    BY <1>3, SameLine DEF SameKey
  <2>2. CASE row \in loader.insert /\ other \in loader.insert
    BY <2>1, <2>2 DEF FeedsInv, Prepared
  <2>3. CASE row \in feed \ loader.delete /\ other \in feed \ loader.delete
    BY <2>3 DEF FeedsInv, NoLineTwice
  <2>4. CASE row \in feed \ loader.delete /\ other \in loader.insert
    BY <1>1, <2>1, <2>4 DEF FeedsInv, Replaced
  <2>5. CASE row \in loader.insert /\ other \in feed \ loader.delete
    BY <1>1, <2>1, <2>5 DEF FeedsInv, Replaced
  <2> QED BY <1>1, <2>2, <2>3, <2>4, <2>5
<1> QED BY <1>4, <1>5, <1>6 DEF FeedsInv

-----------------------------------------------------------------------------
LEMMA FeedsStep == FeedsInv /\ [Next]_vars => FeedsInv'
<1> SUFFICES ASSUME FeedsInv, [Next]_vars PROVE FeedsInv'
  OBVIOUS
<1>1. ASSUME NEW u \in Ids, NEW file \in Contents, SaveUpload(u, file) PROVE FeedsInv'
  BY <1>1, SaveUploadKeeps
<1>2. ASSUME NEW u \in Ids, MarkProcessing(u) \/ LoadUpload(u) \/ MarkFailed(u) PROVE FeedsInv'
  BY <1>2, MarkKeeps, LoadUploadKeeps
<1>3. CASE ChooseSource \/ LoadSynthetic \/ ReadUploads \/ InsertViews \/ CommitLoad
  BY <1>3, ChooseSourceKeeps, LoadSyntheticKeeps, ReadUploadsKeeps, InsertViewsKeeps,
     CommitLoadKeeps
<1>4. ASSUME NEW key \in Keys, ReplaceKey(key) PROVE FeedsInv'
  BY <1>4, ReplaceKeyKeeps
<1>5. CASE Reconcile \/ AbortLoad \/ Crash
  BY <1>5, RestKeeps DEF Reconcile, AbortLoad, Crash, LoadState
<1>6. CASE LoseFiles
  <2>1. Shape'
    BY <1>6 DEF FeedsInv, Shape, LoseFiles
  <2> QED BY <1>6, <2>1 DEF FeedsInv, LoseFiles, HandlerAgrees, Origins, Prepared, Replaced,
                           Restored, NoLineTwice
<1>7. CASE UNCHANGED vars
  BY <1>7 DEF vars, FeedsInv, Shape, HandlerAgrees, Origins, Prepared, Replaced, Restored,
              NoLineTwice
<1> QED BY <1>1, <1>2, <1>3, <1>4, <1>5, <1>6, <1>7 DEF Next, Done

LEMMA FeedsInvariance == Spec => []FeedsInv
BY FeedsInit, FeedsStep, PTL DEF Spec

(* Every table, row and stage of a load is of its type, for any files. *)
THEOREM FeedsTyped == Spec => []TypeOK
<1>1. FeedsInv => TypeOK
  <2> SUFFICES ASSUME FeedsInv PROVE TypeOK
    OBVIOUS
  <2>1. /\ \A u \in Ids : content[u] \in Contents \cup {NoFile}
        /\ loader.keys \subseteq Keys /\ loads \in 0..MaxLoads
        /\ feed \cup loader.insert \subseteq FeedRow
    BY DEF FeedsInv, Shape, Loader
  <2>2. ASSUME NEW row \in feed \cup loader.insert
        PROVE  /\ row.upload \in {0} \cup Ids
               /\ row.load \in 0..loads
               /\ row.policy = NoPolicy => row.upload = 0
    BY <2>1, <2>2, BoundsAssumption DEF FeedsInv, Origins, FeedRow
  <2> QED BY <2>1, <2>2 DEF TypeOK, FeedsInv, Shape
<1> QED BY <1>1, FeedsInvariance, PTL

(* No row of an upload that is not processed is ever in the feed. *)
THEOREM UploadedRowsAreAlwaysProcessed == Spec => []UploadedRowsAreProcessed
<1>1. FeedsInv => UploadedRowsAreProcessed
  BY DEF FeedsInv, Origins, UploadedRowsAreProcessed, Ids
<1> QED BY <1>1, FeedsInvariance, PTL

(* No line of an uploaded statement ever stands twice in the feed, however *)
(* uploads overlap each other and the load under way, and whatever fails.  *)
THEOREM NoLineIsEverTwice == Spec => []NoLineTwice
<1>1. FeedsInv => NoLineTwice
  BY DEF FeedsInv
<1> QED BY <1>1, FeedsInvariance, PTL

(* A policy of the baseline that has a row in the feed never loses its     *)
(* last one.                                                               *)
THEOREM BaselineStaysCovered == Spec => BaselineCovered
<1> DEFINE Covered ==
      \A key \in Keys :
          /\ \E l \in Synthetic : SameKey(l, key)
          /\ \E row \in feed : SameKey(row, key)
          => \E row \in feed' : SameKey(row, key)
<1>1. ASSUME FeedsInv, Next PROVE Covered
  <2>1. CASE CommitLoad
    BY <1>1, <2>1 DEF FeedsInv, Restored, HasLine, Prepared, CommitLoad
  <2>2. CASE feed \subseteq feed'
    BY <2>2
  <2>3. CommitLoad \/ feed \subseteq feed'
    <3>1. ASSUME NEW u \in Ids, LoadUpload(u) PROVE feed \subseteq feed'
      BY <3>1 DEF LoadUpload
    <3> QED BY <1>1, <3>1
        DEF Next, SaveUpload, MarkProcessing, MarkFailed, ChooseSource, LoadSynthetic,
            ReadUploads, InsertViews, Reconcile, ReplaceKey, AbortLoad, Crash, LoseFiles,
            Done, vars
  <2> QED BY <2>1, <2>2, <2>3
<1>2. FeedsInv /\ [Next]_vars => [Covered]_vars
  BY <1>1
<1> QED BY <1>2, FeedsInvariance, PTL DEF Spec, BaselineCovered

-----------------------------------------------------------------------------
(* The overlay.  While no upload overlaps a pipeline, what its load has    *)
(* prepared grows into one reading of the standing uploads, over the rest  *)
(* of the synthetic files.                                                 *)

StandingReadings ==
    {reading \in [Standing -> UNION {content[u].readings : u \in Ids}] :
        \A u \in Standing : reading[u] \in content[u].readings}

Won(reading) == UNION {RowsOf(u, loads, Usable(reading[u])) : u \in Standing}
Base == RowsOf(0, loads, Synthetic)
Overlaid(reading) == Won(reading) \cup {row \in Base : \A w \in Won(reading) : ~SameKey(row, w)}

(* The keys still to be deleted are all that keeps synthetic lines of the  *)
(* uploaded policies.                                                      *)
Replacing(views) ==
    /\ loader.views = views
    /\ loader.insert \subseteq Base
    /\ \A row \in loader.insert : \A w \in views :
          SameKey(row, w) => \E k \in loader.keys : SameKey(row, k)
    /\ \A row \in Base \ loader.insert : \E w \in views : SameKey(row, w)

Undisturbed ==
    /\ loader.at # "idle" => \A u \in Ids : handler[u] \in {"none", "over"}
    /\ loader.at = "synthetic" => Processed = {}
    /\ loader.at \in {"overlay", "replace", "commit"} => feed \subseteq loader.delete
    /\ loader.at = "overlay" => loader.insert = Base
    /\ loader.at = "replace" => \E reading \in StandingReadings : Replacing(Won(reading))
    /\ loader.at = "commit" => \E reading \in StandingReadings : loader.insert = Overlaid(reading)
    /\ loader.at = "reconcile" => \E reading \in StandingReadings : feed = Overlaid(reading)

QuietInv == loader.quiet => Undisturbed

LEMMA StandingIsLatest == FeedsInv => LatestUploads \cap stored = Standing
<1> SUFFICES ASSUME FeedsInv PROVE LatestUploads \cap stored = Standing
  OBVIOUS
<1>1. Ids \subseteq Int /\ stored \subseteq Ids
  BY DEF Ids, FeedsInv, Shape
<1>2. ASSUME NEW u \in Ids
      PROVE  (\A v \in Processed : content[v].insurer = content[u].insurer => v <= u)
                <=> \A v \in Ids : ~Superseding(v, u)
  BY <1>1 DEF Processed, Superseding
<1> QED BY <1>1, <1>2 DEF LatestUploads, Processed, Standing

LEMMA ReadingsStand == FeedsInv => Readings = StandingReadings
BY StandingIsLatest DEF Readings, StandingReadings, Read

LEMMA QuietInit == Init => QuietInv
BY DEF Init, QuietInv, Undisturbed, Resting

(* Nothing but the pipeline moves while an undisturbed one is under way.   *)
LEMMA UploadsKeepQuiet ==
  ASSUME FeedsInv, QuietInv, NEW u \in Ids,
         (\E file \in Contents : SaveUpload(u, file)) \/ MarkProcessing(u) \/ LoadUpload(u)
            \/ MarkFailed(u)
  PROVE  QuietInv'
<1>1. CASE \E file \in Contents : SaveUpload(u, file)
  <2>1. loader \in Loader /\ loader' = [loader EXCEPT !.quiet = ~Loading]
    BY <1>1 DEF SaveUpload, FeedsInv, Shape
  <2>2. loader'.at = loader.at /\ (loader'.quiet => loader.at = "idle")
    BY <2>1 DEF Loader, Loading
  <2> QED BY <2>2 DEF QuietInv, Undisturbed
<1>2. CASE MarkProcessing(u) \/ LoadUpload(u) \/ MarkFailed(u)
  <2>1. loader' = loader /\ handler[u] \in {"mark", "load", "fail"}
    BY <1>2 DEF MarkProcessing, LoadUpload, MarkFailed
  <2> QED BY <2>1 DEF QuietInv, Undisturbed
<1> QED BY <1>1, <1>2

LEMMA ChooseSourceKeepsQuiet ==
  ASSUME FeedsInv, QuietInv, ChooseSource PROVE QuietInv'
<1>1. /\ loader \in Loader /\ handler \in [Ids -> {"none", "mark", "load", "fail", "over"}]
      /\ UNCHANGED <<uploads, content, stored, handler, feed>>
  BY DEF FeedsInv, Shape, ChooseSource, LoadState
<1>2. /\ loader'.at = IF Processed # {} THEN "all" ELSE "synthetic"
      /\ loader'.quiet = ~Handling
  BY <1>1 DEF ChooseSource, Loader
<1> QED BY <1>1, <1>2 DEF QuietInv, Undisturbed, Handling, Processed

LEMMA LoadSyntheticKeepsQuiet ==
  ASSUME FeedsInv, QuietInv, LoadSynthetic PROVE QuietInv'
<1> SUFFICES ASSUME loader'.quiet PROVE Undisturbed'
  BY DEF QuietInv
<1>1. /\ loader \in Loader
      /\ UNCHANGED <<uploads, content, stored, handler, feed, loads>>
  BY DEF FeedsInv, Shape, LoadSynthetic, LoadState
<1>2. /\ loader'.at = IF loader.at = "all" THEN "overlay" ELSE "commit"
      /\ loader'.delete = feed /\ loader'.insert = Base /\ loader'.quiet = loader.quiet
      /\ loader.at \in {"all", "synthetic"}
  BY <1>1 DEF LoadSynthetic, Loader, Base
<1>3. Base' = Base
  BY <1>1 DEF Base
<1>4. ASSUME loader.at = "synthetic"
      PROVE  \E reading \in StandingReadings' : loader'.insert = Overlaid(reading)'
  <2>1. Standing' = {}
    BY <1>1, <1>2, <1>4 DEF QuietInv, Undisturbed, Standing, Processed, FeedsInv, Shape
  <2> DEFINE reading == [u \in {} |-> {}]
  <2>2. reading \in StandingReadings'
    BY <2>1 DEF StandingReadings
  <2>3. Won(reading)' = {}
    BY <2>1 DEF Won
  <2> QED BY <1>2, <1>3, <2>2, <2>3 DEF Overlaid
<1> QED BY <1>1, <1>2, <1>3, <1>4 DEF QuietInv, Undisturbed

LEMMA ReadUploadsKeepsQuiet ==
  ASSUME FeedsInv, QuietInv, ReadUploads PROVE QuietInv'
<1> SUFFICES ASSUME loader'.quiet PROVE Undisturbed'
  BY DEF QuietInv
<1>1. PICK reading \in Readings :
         loader' = [loader EXCEPT
                       !.at = "replace",
                       !.views = UploadedViews(reading),
                       !.keys = {k \in Keys : \E row \in UploadedViews(reading) : SameKey(row, k)}]
  BY DEF ReadUploads
<1>2. /\ loader \in Loader /\ loader.at = "overlay"
      /\ UNCHANGED <<uploads, content, stored, handler, feed, loads>>
  BY DEF FeedsInv, Shape, ReadUploads, LoadState
<1> DEFINE views == UploadedViews(reading)
<1>3. /\ loader'.at = "replace" /\ loader'.delete = loader.delete
      /\ loader'.insert = loader.insert /\ loader'.views = views
      /\ loader'.keys = {k \in Keys : \E row \in views : SameKey(row, k)}
      /\ loader'.quiet = loader.quiet
  BY <1>1, <1>2 DEF Loader
<1>4. reading \in StandingReadings
  BY ReadingsStand
<1>5. views = Won(reading)
  <2>1. DOMAIN reading = Standing
    BY <1>4 DEF StandingReadings
  <2> QED BY <2>1 DEF UploadedViews, Won
<1>6. \A w \in views : \E k \in loader'.keys : SameKey(w, k)
  BY <1>3, ViewsOfReading
<1>7. /\ StandingReadings' = StandingReadings /\ Won(reading)' = Won(reading)
      /\ Base' = Base
  BY <1>2 DEF StandingReadings, Standing, Superseding, Won, Base
<1> HIDE DEF views
<1>8. Replacing(Won(reading))'
  <2>1. loader.insert = Base
    BY <1>2, <1>3 DEF QuietInv, Undisturbed
  <2>2. loader'.views = Won(reading)' /\ loader'.insert = Base'
    BY <1>3, <1>5, <1>7, <2>1
  <2>3. \A row \in loader'.insert : \A w \in Won(reading)' :
           SameKey(row, w) => \E k \in loader'.keys : SameKey(row, k)
    BY <1>5, <1>6, <1>7 DEF SameKey
  <2> QED BY <2>2, <2>3 DEF Replacing
<1> QED BY <1>2, <1>3, <1>4, <1>7, <1>8 DEF QuietInv, Undisturbed

LEMMA ReplaceKeyKeepsQuiet ==
  ASSUME FeedsInv, QuietInv, NEW key \in Keys, ReplaceKey(key) PROVE QuietInv'
<1> SUFFICES ASSUME loader'.quiet PROVE Undisturbed'
  BY DEF QuietInv
<1>1. /\ loader \in Loader /\ loader.at = "replace" /\ key \in loader.keys
      /\ UNCHANGED <<uploads, content, stored, handler, feed, loads>>
  BY DEF FeedsInv, Shape, ReplaceKey, LoadState
<1>2. /\ loader'.at = "replace" /\ loader'.views = loader.views
      /\ loader'.keys = loader.keys \ {key}
      /\ loader'.delete = loader.delete \cup {row \in feed : SameKey(row, key)}
      /\ loader'.insert = {row \in loader.insert : ~SameKey(row, key)}
      /\ loader'.quiet = loader.quiet
  BY <1>1 DEF ReplaceKey, Loader, Superseded
<1>3. PICK reading \in StandingReadings : Replacing(Won(reading))
  BY <1>1, <1>2 DEF QuietInv, Undisturbed
<1>4. /\ StandingReadings' = StandingReadings /\ Won(reading)' = Won(reading)
      /\ Base' = Base
  BY <1>1 DEF StandingReadings, Standing, Superseding, Won, Base
<1> DEFINE views == Won(reading)
<1>5. \E w \in views : SameKey(w, key)
  BY <1>1, <1>3 DEF FeedsInv, Prepared, Replacing
<1> HIDE DEF views
<1>6. Replacing(views)'
  <2>0. Replacing(views) /\ views' = views
    BY <1>3, <1>4 DEF views
  <2>1. \A row \in loader'.insert : \A w \in views :
           SameKey(row, w) => \E k \in loader'.keys : SameKey(row, k)
    BY <1>2, <2>0 DEF Replacing
  <2>2. \A row \in Base \ loader'.insert : \E w \in views : SameKey(row, w)
    BY <1>2, <2>0, <1>5 DEF Replacing, SameKey
  <2> QED BY <1>2, <2>0, <1>4, <2>1, <2>2 DEF Replacing
<1> QED BY <1>1, <1>2, <1>3, <1>4, <1>6 DEF QuietInv, Undisturbed, views

LEMMA InsertViewsKeepsQuiet ==
  ASSUME FeedsInv, QuietInv, InsertViews PROVE QuietInv'
<1> SUFFICES ASSUME loader'.quiet PROVE Undisturbed'
  BY DEF QuietInv
<1>1. /\ loader \in Loader /\ loader.at = "replace" /\ loader.keys = {}
      /\ UNCHANGED <<uploads, content, stored, handler, feed, loads>>
  BY DEF FeedsInv, Shape, InsertViews, LoadState
<1>2. /\ loader'.at = "commit" /\ loader'.delete = loader.delete
      /\ loader'.insert = loader.insert \cup loader.views
      /\ loader'.quiet = loader.quiet
  BY <1>1 DEF InsertViews, Loader
<1>3. PICK reading \in StandingReadings : Replacing(Won(reading))
  BY <1>1, <1>2 DEF QuietInv, Undisturbed
<1>4. /\ StandingReadings' = StandingReadings /\ Overlaid(reading)' = Overlaid(reading)
  BY <1>1 DEF StandingReadings, Standing, Superseding, Overlaid, Won, Base
<1>5. loader'.insert = Overlaid(reading)
  BY <1>1, <1>2, <1>3 DEF Replacing, Overlaid
<1> QED BY <1>1, <1>2, <1>3, <1>4, <1>5 DEF QuietInv, Undisturbed

LEMMA CommitLoadKeepsQuiet ==
  ASSUME FeedsInv, QuietInv, CommitLoad PROVE QuietInv'
<1> SUFFICES ASSUME loader'.quiet PROVE Undisturbed'
  BY DEF QuietInv
<1>1. /\ loader \in Loader /\ loader.at = "commit"
      /\ UNCHANGED <<uploads, content, stored, handler, loads>>
      /\ feed' = (feed \ loader.delete) \cup loader.insert
      /\ loader'.at = "reconcile" /\ loader'.quiet = loader.quiet
  BY DEF FeedsInv, Shape, CommitLoad, LoadState, Resting
<1>2. PICK reading \in StandingReadings : loader.insert = Overlaid(reading)
  BY <1>1 DEF QuietInv, Undisturbed
<1>3. /\ StandingReadings' = StandingReadings /\ Overlaid(reading)' = Overlaid(reading)
  BY <1>1 DEF StandingReadings, Standing, Superseding, Overlaid, Won, Base
<1>4. feed' = Overlaid(reading)
  BY <1>1, <1>2 DEF QuietInv, Undisturbed
<1> QED BY <1>1, <1>2, <1>3, <1>4 DEF QuietInv, Undisturbed

LEMMA QuietStep == FeedsInv /\ QuietInv /\ [Next]_vars => QuietInv'
<1> SUFFICES ASSUME FeedsInv, QuietInv, [Next]_vars PROVE QuietInv'
  OBVIOUS
<1>1. ASSUME NEW u \in Ids,
             (\E file \in Contents : SaveUpload(u, file)) \/ MarkProcessing(u)
                \/ LoadUpload(u) \/ MarkFailed(u)
      PROVE  QuietInv'
  BY <1>1, UploadsKeepQuiet
<1>2. CASE ChooseSource \/ LoadSynthetic \/ ReadUploads \/ InsertViews \/ CommitLoad
  BY <1>2, ChooseSourceKeepsQuiet, LoadSyntheticKeepsQuiet, ReadUploadsKeepsQuiet,
     InsertViewsKeepsQuiet, CommitLoadKeepsQuiet
<1>3. ASSUME NEW key \in Keys, ReplaceKey(key) PROVE QuietInv'
  BY <1>3, ReplaceKeyKeepsQuiet
<1>4. CASE Reconcile \/ AbortLoad \/ Crash
  BY <1>4 DEF Reconcile, AbortLoad, Crash, Resting, QuietInv, Undisturbed
<1>5. CASE LoseFiles
  BY <1>5 DEF LoseFiles, Loading, QuietInv, Undisturbed
<1>6. CASE UNCHANGED vars
  <2>1. /\ StandingReadings' = StandingReadings /\ Processed' = Processed /\ Base' = Base
        /\ \A reading : Won(reading)' = Won(reading)
    BY <1>6 DEF vars, StandingReadings, Standing, Superseding, Won, Base, Processed
  <2>2. /\ \A reading : Overlaid(reading)' = Overlaid(reading)
        /\ \A reading : Replacing(Won(reading))' <=> Replacing(Won(reading))
    BY <1>6, <2>1 DEF vars, Overlaid, Replacing
  <2> QED BY <1>6, <2>1, <2>2 DEF vars, QuietInv, Undisturbed
<1> QED BY <1>1, <1>2, <1>3, <1>4, <1>5, <1>6 DEF Next, Done

LEMMA QuietInvariance == Spec => [](FeedsInv /\ QuietInv)
BY FeedsInit, FeedsStep, QuietInit, QuietStep, PTL DEF Spec

-----------------------------------------------------------------------------
(* Only finitely many rows are overlaid. *)
LEMMA OverlaidIsFinite ==
  ASSUME FeedsInv, NEW reading \in StandingReadings
  PROVE  IsFiniteSet(Overlaid(reading))
<1>1. ASSUME NEW u, NEW lines, IsFiniteSet(lines)
      PROVE  IsFiniteSet(RowsOf(u, loads, lines))
  <2> DEFINE rows == RowsOf(u, loads, lines)
             f == [l \in lines |-> [upload |-> u, load |-> loads, policy |-> l.policy,
                                    insurer |-> l.insurer, n |-> l.n]]
  <2>1. f \in Surjection(lines, rows)
    BY DEF Surjection, RowsOf
  <2> QED BY <1>1, <2>1, FS_Surjection
<1>2. IsFiniteSet(Base)
  BY <1>1, FilesAssumption DEF Base
<1>3. ASSUME NEW u \in Standing PROVE IsFiniteSet(RowsOf(u, loads, Usable(reading[u])))
  <2>1. u \in Ids /\ content[u] \in Contents /\ reading[u] \in content[u].readings
    BY DEF StandingReadings, Standing, FeedsInv, Shape, HandlerAgrees
  <2>2. IsFiniteSet(reading[u])
    BY <2>1, FilesAssumption
  <2>3. Usable(reading[u]) \in SUBSET reading[u]
    BY DEF Usable
  <2> QED BY <1>1, <2>2, <2>3, FS_Subset
<1>4. IsFiniteSet(Won(reading))
  <2> DEFINE files == {RowsOf(u, loads, Usable(reading[u])) : u \in Standing}
             f == [u \in Standing |-> RowsOf(u, loads, Usable(reading[u]))]
  <2>1. IsFiniteSet(Ids) /\ Standing \in SUBSET Ids
    <3>1. IsFiniteSet(1..MaxUploads)
      BY BoundsAssumption, FS_Interval
    <3> QED BY <3>1 DEF Ids, Standing, FeedsInv, Shape
  <2>2. IsFiniteSet(Standing)
    BY <2>1, FS_Subset
  <2>3. f \in Surjection(Standing, files)
    BY DEF Surjection
  <2>4. IsFiniteSet(files)
    BY <2>2, <2>3, FS_Surjection
  <2>5. \A rows \in files : IsFiniteSet(rows)
    BY <1>3
  <2> HIDE DEF files
  <2>6. IsFiniteSet(UNION files)
    BY <2>4, <2>5, FS_UNION
  <2> QED BY <2>6 DEF Won, files
<1> DEFINE rest == {row \in Base : \A w \in Won(reading) : ~SameKey(row, w)}
<1>5. rest \in SUBSET Base
  OBVIOUS
<1>6. IsFiniteSet(rest)
  BY <1>2, <1>5, FS_Subset
<1> HIDE DEF rest
<1> QED BY <1>4, <1>6, FS_Union DEF Overlaid, rest

(* The lines of what is overlaid are the overlay. *)
LEMMA LinesOfOverlaid ==
  ASSUME FeedsInv, NEW reading \in StandingReadings
  PROVE  /\ Lines(Overlaid(reading)) = Overlay(reading)
         /\ \A row \in Overlaid(reading) : row.load = loads
<1> DEFINE L(row) == [row EXCEPT !.load = 0]
           won == UNION {RowsOf(u, 0, {l \in reading[u] : l.policy # NoPolicy}) : u \in Standing}
           base == RowsOf(0, 0, Synthetic)
<1>1. ASSUME NEW u, NEW lines
      PROVE  RowsOf(u, 0, lines) = {L(row) : row \in RowsOf(u, loads, lines)}
  <2> DEFINE Row(load, l) == [upload |-> u, load |-> load, policy |-> l.policy,
                              insurer |-> l.insurer, n |-> l.n]
  <2>1. \A load : RowsOf(u, load, lines) = {Row(load, l) : l \in lines}
    BY DEF RowsOf
  <2>2. \A l : L(Row(loads, l)) = Row(0, l)
    OBVIOUS
  <2> HIDE DEF Row, L
  <2> QED BY <2>1, <2>2
<1>2. ASSUME NEW row \in FeedRow, NEW w \in FeedRow
      PROVE  SameKey(L(row), L(w)) <=> SameKey(row, w)
  BY DEF FeedRow, SameKey
<1>3. Won(reading) \subseteq FeedRow /\ Base \subseteq FeedRow
  <2>1. Won(reading) = UploadedViews(reading) /\ reading \in Readings
    BY ReadingsStand DEF Won, UploadedViews, StandingReadings
  <2>2. loads \in Nat /\ 0 \in {0} \cup Ids /\ Synthetic \in SUBSET Line
    BY BoundsAssumption, FilesAssumption DEF FeedsInv, Shape
  <2> QED BY <2>1, <2>2, ViewsOfReading, RowsOfLines DEF Base
<1>4. \A rows : Lines(rows) = {L(row) : row \in rows}
  BY DEF Lines
<1>5. \A row \in Overlaid(reading) : row.load = loads
  BY DEF Overlaid, Won, Base, RowsOf
<1> HIDE DEF L
<1>6. {L(row) : row \in Won(reading)} = won
  <2>1. \A u \in Standing : RowsOf(u, 0, {l \in reading[u] : l.policy # NoPolicy})
           = {L(row) : row \in RowsOf(u, loads, Usable(reading[u]))}
    BY <1>1 DEF Usable
  <2>2. ASSUME NEW x \in won PROVE x \in {L(row) : row \in Won(reading)}
    <3>1. PICK u \in Standing : x \in RowsOf(u, 0, {l \in reading[u] : l.policy # NoPolicy})
      OBVIOUS
    <3>2. PICK row \in RowsOf(u, loads, Usable(reading[u])) : x = L(row)
      BY <2>1, <3>1
    <3>3. row \in Won(reading)
      BY <3>2 DEF Won
    <3> HIDE DEF won
    <3> QED BY <3>2, <3>3
  <2>3. ASSUME NEW row \in Won(reading) PROVE L(row) \in won
    BY <2>1 DEF Won
  <2> HIDE DEF won
  <2> QED BY <2>2, <2>3
<1>7. {L(row) : row \in Base} = base
  BY <1>1 DEF Base
<1> DEFINE rest == {row \in Base : \A w \in Won(reading) : ~SameKey(row, w)}
           left == {row \in base : \A w \in won : ~SameKey(row, w)}
<1> HIDE DEF won, base
<1>8. {L(row) : row \in rest} = left
  <2>1. ASSUME NEW row \in Base
        PROVE  (\A w \in Won(reading) : ~SameKey(row, w)) <=> \A w \in won : ~SameKey(L(row), w)
    BY <1>2, <1>3, <1>6
  <2>2. ASSUME NEW row \in rest PROVE L(row) \in left
    BY <1>7, <2>1
  <2>3. ASSUME NEW x \in left PROVE \E row \in rest : x = L(row)
    BY <1>7, <2>1
  <2> HIDE DEF rest, left
  <2> QED BY <2>2, <2>3
<1>9. Overlaid(reading) = Won(reading) \cup rest /\ Overlay(reading) = won \cup left
  BY DEF Overlaid, Overlay, won, base
<1> HIDE DEF rest, left
<1>10. Lines(Overlaid(reading)) = Overlay(reading)
  BY <1>4, <1>6, <1>8, <1>9
<1> QED BY <1>5, <1>10

(* An engine that no upload has overlapped reads exactly the overlay of    *)
(* one reading of each standing upload, no line twice, for any files and   *)
(* whatever has failed before.                                             *)
THEOREM EngineAlwaysReadsOverlay == Spec => EngineReadsOverlay
<1> DEFINE Read1 ==
      Reconcile /\ loader.quiet =>
          \E reading \in [Standing -> UNION {content[u].readings : u \in Ids}] :
             /\ \A u \in Standing : reading[u] \in content[u].readings
             /\ Lines(feed) = Overlay(reading)
             /\ Cardinality(feed) = Cardinality(Overlay(reading))
<1>1. ASSUME FeedsInv, QuietInv PROVE Read1
  <2> SUFFICES ASSUME Reconcile, loader.quiet
               PROVE  \E reading \in [Standing -> UNION {content[u].readings : u \in Ids}] :
                         /\ \A u \in Standing : reading[u] \in content[u].readings
                         /\ Lines(feed) = Overlay(reading)
                         /\ Cardinality(feed) = Cardinality(Overlay(reading))
    OBVIOUS
  <2>1. PICK reading \in StandingReadings : feed = Overlaid(reading)
    BY <1>1 DEF Reconcile, QuietInv, Undisturbed
  <2>2. Lines(feed) = Overlay(reading) /\ \A row \in feed : row.load = loads
    BY <1>1, <2>1, LinesOfOverlaid
  <2>3. IsFiniteSet(feed) /\ feed \subseteq FeedRow
    BY <1>1, <2>1, OverlaidIsFinite DEF FeedsInv, Shape
  <2> DEFINE f == [row \in feed |-> [row EXCEPT !.load = 0]]
  <2>4. f \in Injection(feed, Overlay(reading))
    <3>1. f \in [feed -> Overlay(reading)]
      BY <2>2 DEF Lines
    <3>2. ASSUME NEW row \in feed, NEW other \in feed, f[row] = f[other] PROVE row = other
      <4>1. [row EXCEPT !.load = 0] = [other EXCEPT !.load = 0]
        BY <3>2
      <4>2. row \in FeedRow /\ other \in FeedRow /\ row.load = other.load
        BY <2>2, <2>3
      <4> QED BY <4>1, <4>2, SameLine
    <3>3. DOMAIN f = feed
      OBVIOUS
    <3> HIDE DEF f
    <3>4. IsInjective(f)
      BY <3>2, <3>3 DEF IsInjective
    <3> QED BY <3>1, <3>4 DEF Injection
  <2>5. f \in Surjection(feed, Overlay(reading))
    BY <2>2 DEF Lines, Surjection
  <2>6. ExistsBijection(feed, Overlay(reading))
    BY <2>4, <2>5 DEF ExistsBijection, Bijection
  <2>7. Cardinality(feed) = Cardinality(Overlay(reading))
    BY <2>3, <2>6, FS_Bijection
  <2> QED BY <2>2, <2>7 DEF StandingReadings
<1>2. FeedsInv /\ QuietInv /\ [Next]_vars => [Read1]_vars
  BY <1>1
<1> QED BY <1>2, QuietInvariance, PTL DEF Spec, EngineReadsOverlay
=============================================================================
