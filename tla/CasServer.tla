----------------------------- MODULE CasServer -----------------------------
(***************************************************************************)
(* The content-addressed storage (CAS) server: what it keeps on disk, the  *)
(* in-memory MetadataIndex it rebuilds at startup, the HTTP handlers that  *)
(* read and write both, and the lazy conversion that replaces a raw LFS    *)
(* blob by a xorb and a shard.  An action is the code between two awaits   *)
(* of a handler, so everything that another handler, a conversion worker   *)
(* or a crash can do between two awaits is a behaviour of the model.       *)
(*                                                                         *)
(* Contents are abstracted to their identities: an oid is the hash of a    *)
(* whole file, and a shard is fixed by its hash, so the files it declares  *)
(* and the xorbs it uses are constants.                                    *)
(***************************************************************************)
CONSTANTS
  Oids,           \* whole-file hashes (LFS object ids, file ids)
  Xorbs,          \* xorb hashes
  Shards,         \* shard hashes
  Reqs,           \* slots for HTTP requests being handled at the same time
  ShardFiles,     \* ShardFiles[s]: the files that shard s declares
  ShardXorbs,     \* ShardXorbs[s]: the xorbs that shard s refers to
  GoodShards,     \* shards whose files do reconstruct from those xorbs
  ConvXorb,       \* ConvXorb[o]: the xorb that converting o builds
  ConvShard,      \* ConvShard[o]: the shard that converting o builds
  Convertible,    \* oids within min_conversion_size .. max_conversion_size
  DeleteRaw,      \* delete_raw_after_conversion
  StrictRebuild,  \* index_rebuild_strict
  None

ASSUME ContentAssumption ==
  /\ ShardFiles \in [Shards -> SUBSET Oids]
  /\ ShardXorbs \in [Shards -> SUBSET Xorbs]
  /\ GoodShards \in SUBSET Shards
  /\ ConvXorb \in [Oids -> Xorbs]
  /\ ConvShard \in [Oids -> Shards]
  /\ \A o \in Oids : /\ ConvShard[o] \in GoodShards
                     /\ ShardFiles[ConvShard[o]] = {o}
                     /\ ShardXorbs[ConvShard[o]] = {ConvXorb[o]}
  /\ Convertible \in SUBSET Oids
  /\ DeleteRaw \in BOOLEAN
  /\ StrictRebuild \in BOOLEAN
  /\ None \notin Oids \cup Xorbs \cup Shards

VARIABLES
  \* On disk, survives a crash.
  raw,        \* oids stored under lfs/objects/
  xorbs,      \* xorbs stored under xorbs/
  shardObjs,  \* objects listed under shards/: pairs <<shard, kind>>
  \* In memory.
  phase,      \* "down", "rebuilding" or "serving"
  readiness,  \* IndexReadiness: "rebuilding", "ready" or "failed"
  pending,    \* rebuild: listed keys that are not processed yet
  failures,   \* rebuild: failure_count > 0 or listing_failed
  fileIndex,  \* file_to_shards
  pc,         \* where each request slot is in its handler
  obj,        \* the object the request is about
  due,        \* history: requests whose oid was acknowledged when they began
  refs,       \* file references read from the index by a download
  conv,       \* where the conversion of each oid is
  \* History.
  acked       \* oids whose presence a client was told of with a 200

disk   == <<raw, xorbs, shardObjs>>
boot   == <<phase, readiness, pending, failures>>
slots  == <<pc, obj, due, refs>>
vars   == <<raw, xorbs, shardObjs, phase, readiness, pending, failures,
            fileIndex, pc, obj, due, refs, conv, acked>>

(***************************************************************************)
(* A shard object has its final key, or is a `<shard>.<uuid>.tmp` that a   *)
(* crash left beside it, complete or truncated.  The listing of shards/    *)
(* does not tell them apart.                                               *)
(***************************************************************************)
Kinds     == {"final", "full", "partial"}
ShardKeys == Shards \X Kinds
Final(s)  == <<s, "final">>

UploadPcs   == {"upExists", "upStore"}
DownloadPcs == {"dlExists", "dlOpen", "dlIndex", "dlFetch"}
HeadPcs     == {"hdIndex", "hdRaw"}
XorbPcs     == {"xbExists", "xbStore"}
ShardPcs    == {"shExists", "shRevalidate", "shValidate", "shStore", "shCopy",
                "shRegister"}
\* A slot is free when it has answered; only a 404 is remembered.
FreePcs     == {"idle", "dlMissing", "hdMissing"}
BusyPcs     == UploadPcs \cup DownloadPcs \cup HeadPcs \cup XorbPcs \cup ShardPcs

ConvPcs == {"idle", "queued", "xorb", "shard", "tmp", "register", "delete"}

\* One type invariant: what each variable may hold.
TypeOK ==
  /\ raw \in SUBSET Oids
  /\ xorbs \in SUBSET Xorbs
  /\ shardObjs \in SUBSET ShardKeys
  /\ phase \in {"down", "rebuilding", "serving"}
  /\ readiness \in {"rebuilding", "ready", "failed"}
  /\ pending \in SUBSET ShardKeys
  /\ failures \in BOOLEAN
  /\ fileIndex \in [Oids -> SUBSET ShardKeys]
  /\ pc \in [Reqs -> FreePcs \cup BusyPcs]
  /\ obj \in [Reqs -> Oids \cup Xorbs \cup Shards \cup {None}]
  /\ \A r \in Reqs :
       /\ pc[r] \in UploadPcs \cup DownloadPcs \cup HeadPcs => obj[r] \in Oids
       /\ pc[r] \in XorbPcs => obj[r] \in Xorbs
       /\ pc[r] \in ShardPcs => obj[r] \in Shards
  /\ due \in SUBSET Reqs
  /\ refs \in [Reqs -> SUBSET ShardKeys]
  /\ conv \in [Oids -> ConvPcs]
  /\ acked \in SUBSET Oids

EmptyIndex == [o \in Oids |-> {}]

Init ==
  /\ raw = {} /\ xorbs = {} /\ shardObjs = {}
  /\ phase = "down" /\ readiness = "rebuilding"
  /\ pending = {} /\ failures = FALSE
  /\ fileIndex = EmptyIndex
  /\ pc = [r \in Reqs |-> "idle"]
  /\ obj = [r \in Reqs |-> None]
  /\ due = {}
  /\ refs = [r \in Reqs |-> {}]
  /\ conv = [o \in Oids |-> "idle"]
  /\ acked = {}

-----------------------------------------------------------------------------
(* What the handlers share. *)

\* parse_shard_from_storage: a truncated file does not parse.
Parses(k) == k \in shardObjs /\ k[2] # "partial"

\* Mutant: the presence of the xorbs is not checked.
ValidatesWithoutXorbs(s) == s \in GoodShards

\* validate_shard_for_index: every xorb is stored and every declared file
\* reconstructs from them.
Validates(s) == s \in GoodShards /\ ShardXorbs[s] \subseteq xorbs

\* register_verified_shard, file part.  Equal file hashes have equal sizes, so
\* its FileSizeConflict cannot arise from verified contents.
Registered(index, k) ==
  [o \in Oids |-> IF o \in ShardFiles[k[1]] THEN index[o] \cup {k} ELSE index[o]]

\* reconstruct_single_file_ref_to_temp: the shard parses, and the xorbs are there.
Reconstructs(k) == Parses(k) /\ ShardXorbs[k[1]] \subseteq xorbs

Begin(r, first, o) ==
  /\ phase = "serving"
  /\ pc[r] \in FreePcs
  /\ pc' = [pc EXCEPT ![r] = first]
  /\ obj' = [obj EXCEPT ![r] = o]
  /\ due' = IF o \in acked THEN due \cup {r} ELSE due \ {r}
  /\ UNCHANGED <<disk, boot, fileIndex, refs, conv, acked>>

Goto(r, next) ==
  /\ pc' = [pc EXCEPT ![r] = next]
  /\ UNCHANGED <<obj, due, refs>>

\* The handler answers; `last` keeps a 404 visible until the slot is reused.
Respond(r, last) ==
  /\ pc' = [pc EXCEPT ![r] = last]
  /\ obj' = [obj EXCEPT ![r] = None]
  /\ due' = IF last = "idle" THEN due \ {r} ELSE due
  /\ refs' = [refs EXCEPT ![r] = {}]

-----------------------------------------------------------------------------
(* PUT /lfs/objects/{oid}: upload_lfs_object, from the verified temp file on. *)

UploadExists(r) ==
  /\ pc[r] = "upExists"
  /\ \/ /\ obj[r] \in raw
        /\ acked' = acked \cup {obj[r]}
        /\ Respond(r, "idle")
     \/ /\ obj[r] \notin raw
        /\ Goto(r, "upStore")
        /\ UNCHANGED acked
  /\ UNCHANGED <<disk, boot, fileIndex, conv>>

\* The client may be gone by the time the object is in place: no 200 then.
UploadStore(r) ==
  /\ pc[r] = "upStore"
  /\ raw' = raw \cup {obj[r]}
  /\ \E told \in BOOLEAN : acked' = IF told THEN acked \cup {obj[r]} ELSE acked
  /\ Respond(r, "idle")
  /\ UNCHANGED <<xorbs, shardObjs, boot, fileIndex, conv>>

-----------------------------------------------------------------------------
(* GET /lfs/objects/{oid}: download_lfs_object. *)

DownloadExists(r) ==
  /\ pc[r] = "dlExists"
  /\ Goto(r, IF obj[r] \in raw THEN "dlOpen" ELSE "dlIndex")
  /\ UNCHANGED <<disk, boot, fileIndex, conv, acked>>

\* Mutant: a blob deleted since the existence check is answered with 404.
DownloadOpenOrMissing(r) ==
  /\ pc[r] = "dlOpen"
  /\ \/ /\ obj[r] \in raw
        /\ \/ /\ conv[obj[r]] = "idle"
              /\ conv' = [conv EXCEPT ![obj[r]] = "queued"]
           \/ UNCHANGED conv
        /\ Respond(r, "idle")
     \/ /\ obj[r] \notin raw
        /\ Respond(r, "dlMissing")
        /\ UNCHANGED conv
  /\ UNCHANGED <<disk, boot, fileIndex, acked>>

\* serve_raw_blob opens the file; a blob deleted meanwhile falls through to the
\* index.  Serving it may enqueue a conversion (try_enqueue may also refuse).
DownloadOpen(r) ==
  /\ pc[r] = "dlOpen"
  /\ \/ /\ obj[r] \in raw
        /\ \/ /\ conv[obj[r]] = "idle"
              /\ conv' = [conv EXCEPT ![obj[r]] = "queued"]
           \/ UNCHANGED conv
        /\ Respond(r, "idle")
     \/ /\ obj[r] \notin raw
        /\ Goto(r, "dlIndex")
        /\ UNCHANGED conv
  /\ UNCHANGED <<disk, boot, fileIndex, acked>>

DownloadIndex(r) ==
  /\ pc[r] = "dlIndex"
  /\ \/ /\ fileIndex[obj[r]] = {}
        /\ Respond(r, "dlMissing")
     \/ /\ fileIndex[obj[r]] # {}
        /\ pc' = [pc EXCEPT ![r] = "dlFetch"]
        /\ refs' = [refs EXCEPT ![r] = fileIndex[obj[r]]]
        /\ UNCHANGED <<obj, due>>
  /\ UNCHANGED <<disk, boot, fileIndex, conv, acked>>

\* reconstruct_verified_file_to_temp: the first reference that reconstructs is
\* served; when all are stale the answer is 404.
DownloadFetch(r) ==
  /\ pc[r] = "dlFetch"
  /\ Respond(r, IF \E k \in refs[r] : Reconstructs(k) THEN "idle" ELSE "dlMissing")
  /\ UNCHANGED <<disk, boot, fileIndex, conv, acked>>

-----------------------------------------------------------------------------
(* HEAD /internal/blob/{oid} and GET /internal/state/{oid}: the index first,
   then the raw blob. *)

HeadIndex(r) ==
  /\ pc[r] = "hdIndex"
  /\ IF fileIndex[obj[r]] # {} THEN Respond(r, "idle") ELSE Goto(r, "hdRaw")
  /\ UNCHANGED <<disk, boot, fileIndex, conv, acked>>

HeadRaw(r) ==
  /\ pc[r] = "hdRaw"
  /\ Respond(r, IF obj[r] \in raw THEN "idle" ELSE "hdMissing")
  /\ UNCHANGED <<disk, boot, fileIndex, conv, acked>>

-----------------------------------------------------------------------------
(* POST /v1/xorbs/default/{hash}: upload_xorb, from the verified xorb on. *)

XorbExists(r) ==
  /\ pc[r] = "xbExists"
  /\ IF obj[r] \in xorbs THEN Respond(r, "idle") ELSE Goto(r, "xbStore")
  /\ UNCHANGED <<disk, boot, fileIndex, conv, acked>>

XorbStore(r) ==
  /\ pc[r] = "xbStore"
  /\ xorbs' = xorbs \cup {obj[r]}
  /\ Respond(r, "idle")
  /\ UNCHANGED <<raw, shardObjs, boot, fileIndex, conv, acked>>

-----------------------------------------------------------------------------
(* POST /v1/shards: upload_shard, from the parsed shard on. *)

ShardExists(r) ==
  /\ pc[r] = "shExists"
  /\ Goto(r, IF Final(obj[r]) \in shardObjs THEN "shRevalidate" ELSE "shValidate")
  /\ UNCHANGED <<disk, boot, fileIndex, conv, acked>>

\* A stored shard is parsed again, validated and registered before the 200.
ShardRevalidate(r) ==
  /\ pc[r] = "shRevalidate"
  /\ IF Parses(Final(obj[r])) /\ Validates(obj[r])
       THEN /\ fileIndex' = Registered(fileIndex, Final(obj[r]))
            /\ acked' = acked \cup ShardFiles[obj[r]]
       ELSE UNCHANGED <<fileIndex, acked>>
  /\ Respond(r, "idle")
  /\ UNCHANGED <<disk, boot, conv>>

ShardValidate(r) ==
  /\ pc[r] = "shValidate"
  /\ IF Validates(obj[r]) THEN Goto(r, "shStore") ELSE Respond(r, "idle")
  /\ UNCHANGED <<disk, boot, fileIndex, conv, acked>>

\* put_from_path: a rename, or, between file systems, a copy to a temporary
\* name in shards/ that is then renamed.
ShardStore(r) ==
  /\ \/ /\ pc[r] = "shStore"
        /\ Goto(r, "shCopy")
        /\ UNCHANGED shardObjs
     \/ /\ pc[r] \in {"shStore", "shCopy"}
        /\ shardObjs' = shardObjs \cup {Final(obj[r])}
        /\ Goto(r, "shRegister")
  /\ UNCHANGED <<raw, xorbs, boot, fileIndex, conv, acked>>

ShardRegister(r) ==
  /\ pc[r] = "shRegister"
  /\ fileIndex' = Registered(fileIndex, Final(obj[r]))
  /\ acked' = acked \cup ShardFiles[obj[r]]
  /\ Respond(r, "idle")
  /\ UNCHANGED <<disk, boot, conv>>

-----------------------------------------------------------------------------

\* A storage error answered with a 5xx, or a client that went away, so that the
\* handler's future is dropped at an await.  Its temporary files go with it.
Abandon(r) ==
  /\ pc[r] \in BusyPcs
  /\ Respond(r, "idle")
  /\ UNCHANGED <<disk, boot, fileIndex, conv, acked>>

BeginRequest(r) ==
  \/ \E o \in Oids : \/ Begin(r, "upExists", o)
                     \/ Begin(r, "dlExists", o)
                     \/ Begin(r, "hdIndex", o)
  \/ \E x \in Xorbs : Begin(r, "xbExists", x)
  \/ \E s \in Shards : Begin(r, "shExists", s)

-----------------------------------------------------------------------------
(* ConversionPipeline::convert, run by one worker for a queued oid. *)

\* The blob is opened (or downloaded); a missing blob or one outside the size
\* limits is an error.  The open file outlives a later deletion.
ConvertOpen(o) ==
  /\ conv[o] = "queued"
  /\ conv' = [conv EXCEPT ![o] = IF o \in raw /\ o \in Convertible
                                   THEN "xorb" ELSE "idle"]
  /\ UNCHANGED <<disk, boot, fileIndex, slots, acked>>

ConvertPutXorb(o) ==
  /\ conv[o] = "xorb"
  /\ xorbs' = xorbs \cup {ConvXorb[o]}
  /\ conv' = [conv EXCEPT ![o] = "shard"]
  /\ UNCHANGED <<raw, shardObjs, boot, fileIndex, slots, acked>>

\* Mutant: the raw blob is deleted once the xorb is stored.
ConvertWriteShardAfterDelete(o) ==
  /\ conv[o] = "shard"
  /\ raw' = raw \ {o}
  /\ conv' = [conv EXCEPT ![o] = "tmp"]
  /\ UNCHANGED <<xorbs, shardObjs, boot, fileIndex, slots, acked>>

\* LocalStorage::put writes a temporary file in shards/ ...
ConvertWriteShard(o) ==
  /\ conv[o] = "shard"
  /\ conv' = [conv EXCEPT ![o] = "tmp"]
  /\ UNCHANGED <<disk, boot, fileIndex, slots, acked>>

\* ... and renames it.
ConvertRenameShard(o) ==
  /\ conv[o] = "tmp"
  /\ shardObjs' = shardObjs \cup {Final(ConvShard[o])}
  /\ conv' = [conv EXCEPT ![o] = "register"]
  /\ UNCHANGED <<raw, xorbs, boot, fileIndex, slots, acked>>

\* Mutant: the converted file is not registered before the deletion.
ConvertWithoutRegister(o) ==
  /\ conv[o] = "register"
  /\ conv' = [conv EXCEPT ![o] = IF DeleteRaw THEN "delete" ELSE "idle"]
  /\ UNCHANGED <<disk, boot, fileIndex, slots, acked>>

ConvertRegister(o) ==
  /\ conv[o] = "register"
  /\ fileIndex' = Registered(fileIndex, Final(ConvShard[o]))
  /\ conv' = [conv EXCEPT ![o] = IF DeleteRaw THEN "delete" ELSE "idle"]
  /\ UNCHANGED <<disk, boot, slots, acked>>

ConvertDelete(o) ==
  /\ conv[o] = "delete"
  /\ raw' = raw \ {o}
  /\ conv' = [conv EXCEPT ![o] = "idle"]
  /\ UNCHANGED <<xorbs, shardObjs, boot, fileIndex, slots, acked>>

\* A storage error (non-fatal for the deletion), a panic or a cancellation at
\* an await; the guard of the temporary file removes it.
ConvertStop(o) ==
  /\ conv[o] # "idle"
  /\ conv' = [conv EXCEPT ![o] = "idle"]
  /\ UNCHANGED <<disk, boot, fileIndex, slots, acked>>

-----------------------------------------------------------------------------
(* start_server and rebuild_from_storage: nothing is served meanwhile. *)

Start ==
  /\ phase = "down"
  /\ phase' = "rebuilding"
  /\ readiness' = "rebuilding"
  /\ pending' = shardObjs
  /\ failures' = FALSE
  /\ fileIndex' = EmptyIndex
  /\ UNCHANGED <<disk, slots, conv, acked>>

\* One listed key: parsed, validated and registered under its own name.
RebuildKey(k) ==
  /\ phase = "rebuilding" /\ k \in pending
  /\ pending' = pending \ {k}
  /\ IF Parses(k) /\ Validates(k[1])
       THEN /\ fileIndex' = Registered(fileIndex, k)
            /\ UNCHANGED failures
       ELSE /\ failures' = TRUE
            /\ UNCHANGED fileIndex
  /\ UNCHANGED <<disk, phase, readiness, slots, conv, acked>>

\* The retries of a read are exhausted, or its task panics.
RebuildKeyFails(k) ==
  /\ phase = "rebuilding" /\ k \in pending
  /\ pending' = pending \ {k}
  /\ failures' = TRUE
  /\ UNCHANGED <<disk, phase, readiness, fileIndex, slots, conv, acked>>

\* The listing breaks off: the keys after it are never seen.
ListingFails ==
  /\ phase = "rebuilding"
  /\ \E seen \in SUBSET pending : pending' = seen
  /\ failures' = TRUE
  /\ UNCHANGED <<disk, phase, readiness, fileIndex, slots, conv, acked>>

\* Mutant: readiness ignores the shards that could not be indexed.
FinishRebuildAlwaysReady ==
  /\ phase = "rebuilding" /\ pending = {}
  /\ readiness' = "ready"
  /\ phase' = IF failures /\ StrictRebuild THEN "down" ELSE "serving"
  /\ UNCHANGED <<disk, pending, failures, fileIndex, slots, conv, acked>>

FinishRebuild ==
  /\ phase = "rebuilding" /\ pending = {}
  /\ readiness' = IF failures THEN "failed" ELSE "ready"
  /\ phase' = IF failures /\ StrictRebuild THEN "down" ELSE "serving"
  /\ UNCHANGED <<disk, pending, failures, fileIndex, slots, conv, acked>>

\* Temporary files being written in shards/.
Writing == {ConvShard[o] : o \in {p \in Oids : conv[p] = "tmp"}}
             \cup {obj[r] : r \in {q \in Reqs : pc[q] = "shCopy"}}

\* The process ends; `left` are the temporary files that stay behind.
Stop(left) ==
  /\ phase # "down"
  /\ phase' = "down"
  /\ shardObjs' = shardObjs \cup left
  /\ pending' = {}
  /\ pc' = [r \in Reqs |-> "idle"]
  /\ obj' = [r \in Reqs |-> None]
  /\ due' = {}
  /\ refs' = [r \in Reqs |-> {}]
  /\ conv' = [o \in Oids |-> "idle"]
  /\ UNCHANGED <<raw, xorbs, readiness, failures, fileIndex, acked>>

\* A crash leaves the temporary file of a write in progress, complete or not,
\* unless the write had not created it yet.
Crash == \E kind \in [Writing -> {"none", "full", "partial"}] :
           Stop({<<s, kind[s]>> : s \in {t \in Writing : kind[t] # "none"}})

\* scheduler.shutdown after the HTTP server has drained its requests.
Shutdown == /\ phase = "serving"
            /\ \A r \in Reqs : pc[r] \in FreePcs
            /\ Stop({})

-----------------------------------------------------------------------------

Handle(r) ==
  \/ BeginRequest(r)   \/ Abandon(r)
  \/ UploadExists(r)   \/ UploadStore(r)
  \/ DownloadExists(r) \/ DownloadOpen(r) \/ DownloadIndex(r) \/ DownloadFetch(r)
  \/ HeadIndex(r)      \/ HeadRaw(r)
  \/ XorbExists(r)     \/ XorbStore(r)
  \/ ShardExists(r)    \/ ShardRevalidate(r) \/ ShardValidate(r)
  \/ ShardStore(r)     \/ ShardRegister(r)

Convert(o) ==
  \/ ConvertOpen(o)        \/ ConvertPutXorb(o)  \/ ConvertWriteShard(o)
  \/ ConvertRenameShard(o) \/ ConvertRegister(o) \/ ConvertDelete(o)
  \/ ConvertStop(o)

Lifecycle ==
  \/ Start \/ ListingFails \/ FinishRebuild \/ Crash \/ Shutdown
  \/ \E k \in ShardKeys : RebuildKey(k) \/ RebuildKeyFails(k)

Next ==
  \/ \E r \in Reqs : Handle(r)
  \/ \E o \in Oids : Convert(o)
  \/ Lifecycle

Spec == Init /\ [][Next]_vars
-----------------------------------------------------------------------------
(* Properties. *)

\* The file o can be rebuilt from what is on disk.
OnDisk(o) ==
  \/ o \in raw
  \/ \E k \in shardObjs : /\ k[2] # "partial"
                          /\ k[1] \in GoodShards
                          /\ o \in ShardFiles[k[1]]
                          /\ ShardXorbs[k[1]] \subseteq xorbs

\* A file whose upload a client was told of (LFS upload or shard upload answered
\* with 200) can always be rebuilt from what is on disk, whatever conversions
\* delete and wherever the process crashes.
AckedDurable == \A o \in acked : OnDisk(o)

\* Only verified contents are discoverable: every reference of the MetadataIndex
\* names a stored shard that parses, that does reconstruct the file, and whose
\* xorbs are all stored.
IndexSound ==
  \A o \in Oids : \A k \in fileIndex[o] :
    Reconstructs(k) /\ k[1] \in GoodShards /\ o \in ShardFiles[k[1]]

\* While the server is ready every acknowledged file is either stored raw or
\* found through the index, at every moment of a conversion, and again after a
\* restart whose rebuild succeeded.
AckedReachable ==
  phase = "serving" /\ readiness = "ready" =>
    \A o \in acked : o \in raw \/ fileIndex[o] # {}

\* A download that begins after its file was acknowledged is never answered with
\* 404 by a ready server, although it looks for the raw blob and for the index
\* entry at different moments.
DownloadServesAcked ==
  \A r \in due : pc[r] = "dlMissing" => readiness # "ready"

\* The same of the internal blob queries, which look at the index first:
\* `404 Not Found` is documented to mean that the blob does not exist.
HeadFindsAcked ==
  \A r \in due : pc[r] = "hdMissing" => readiness # "ready"

\* No step removes a stored xorb or shard, and a raw blob is removed only when
\* the index already finds the file elsewhere: a reader that missed the blob
\* finds the reference.
DeletesAreSafe ==
  [][/\ xorbs \subseteq xorbs'
     /\ shardObjs \subseteq shardObjs'
     /\ \A o \in raw \ raw' : \E k \in fileIndex[o] : Reconstructs(k)]_vars
=============================================================================
