# A TLA+ model of xet-server

xet-server is a Rust reimplementation of the storage side of the Hugging Face
Hub: a content-addressed storage server (the **CAS**, `src/src`), a **Hub** with
repositories, commits and tokens (`src/hub/src`), and two small shared crates
(`src/xet-common`, `src/xet-auth-types`). This directory models the parts of it
whose correctness depends on the order in which things happen: handlers that
interleave at their awaits, worker tasks, lock-free counters, SQLite
transactions, S3 requests whose answers get lost, tokens that expire while a
request is under way, crashes and restarts. It also models the algorithms that
have to agree with each other although they were written separately: the one-shot
and the streaming chunker, the builders of xorbs and shards and the parsers and
validators that read them later.

`PROJECT.json` holds the machine-readable side: which definition models which
lines, the runs, the mutants that show that each property can fail, the hazards
and the findings.

## 1. The system

| Part | Sources | State | Operations | Interacts with |
|---|---|---|---|---|
| CAS object handlers | `src/api/{lfs,internal,xorb,shard}.rs`, `src/reconstruction_io.rs` | none of their own | LFS upload and download, blob HEAD, xorb and shard upload, each a sequence of awaits | storage, index, scheduler |
| MetadataIndex and rebuild | `src/index.rs`, `src/shard_io.rs`, `src/shard_validation.rs` | `file_to_shards`, `chunk_to_xorb`, readiness | register, lookup, rebuild at startup | reads storage, read by handlers |
| Lazy conversion | `src/conversion/mod.rs` | a temp file per conversion | raw blob → xorb + shard, register, delete raw | storage, index, quota |
| Conversion scheduler | `src/conversion/converting_oids.rs` | queue, `state` map, two counters, `closed`, cancellation token | `try_enqueue`, worker loop, `shutdown` | called by downloads, runs conversions |
| Storage backends | `src/storage/{local,s3}.rs` | files; bucket plus registry of multipart uploads | put, get, list, delete, abort, shutdown | everything above |
| Temporary-space quota | `xet-common/src/lib.rs`, `src/util/temp_file.rs`, `src/util/temp_path.rs` | `charged_bytes`, `reserved_bytes`, directory lock | reserve, commit, release, lock, clean up, reconcile | uploads, conversions, reads |
| Server lifecycle | `src/server.rs`, `src/main.rs` | phase, readiness | start, rebuild, serve, shut down | all of the CAS |
| Hub repositories and commits | `hub/src/services`, `hub/src/metadata/sqlite` | tables `repos`, `heads`, `revisions`, `file_tree` | create, delete, commit, list | stores blobs in the CAS |
| Authentication | `src/api/{auth,guard}.rs`, `hub/src/auth`, `xet-auth-types` | token table, hash salt, keys | create, validate, revoke, exchange, sign, verify | every request |
| Hub LFS proxy | `hub/src/lfs_proxy`, `hub/src/services/lfs_*.rs`, `hub/src/cas_client`, `src/api/batch.rs` | spooled payloads | batch, proxied upload and download, resolve | CAS, tokens |
| Chunking and hashing | `src/chunking`, `src/hash` | buffer and offset of the streaming chunker | cut a block, finalize; Merkle and file hashes | conversion, validation |
| Xorb and shard formats | `src/format`, `src/xorb_reader.rs` | running totals of the builders | build, parse, verify, extract | conversion, validation, reads |
| Reconstruction plan and API | `src/reconstruction_plan.rs`, `src/api/reconstruction.rs`, `src/api/global_dedup.rs` | — | read-only queries | index |
| Configuration, migrations | `src/config.rs`, `hub/src/{config,server,main,sqlite_pool,migrations}.rs` | tables, `schema_version` | start of servers and commands, migration | SQLite |

(Paths in the table are relative to `src/`, so `src/api` is `src/src/api`.)

What is hard about each part, and what makes it correct:

* **CAS.** A client is told "stored" once, and from then on the file has to be
  found by every download, although a conversion replaces the raw blob by a xorb
  and a shard at some moment, the index is in memory and rebuilt from a
  directory listing that may contain anything a crash left there, and readers
  look at the blob and at the index at different moments. Durable, reachable,
  and nothing unverified becomes discoverable.
* **Scheduler.** Marks, queue, counters and the closed flag are updated
  separately. Every path must take its mark back; shutdown races callers that
  have already passed the closed check, and must return although a conversion
  hangs.
* **Quota.** Two atomics without a lock; a reservation changes owner twice and
  is released by a `Drop`. The counters must add up to what the writers hold.
* **S3.** Every request may fail with or without effect, every future may be
  dropped while it waits, and four parties (future, guard task, shutdown, drop)
  clean up. An upload whose id is known must not be forgotten.
* **Hub.** Two commits on one parent, a repository deleted and recreated under
  a request, a cancelled transaction, a listing whose pages are separated by
  commits. History is linear, a commit's tree is its parent's plus its
  operations, listings are complete.
* **Tokens.** Two processes with keys and clocks, none of which asks the other:
  revocation, expiry, rotation and time-outs have to end in a bounded window of
  access, and never in access beyond the scope.
* **Contents.** A conversion registers what it built without validating it and
  deletes the raw blob, so builder, parser, validator and reader must agree to
  the last offset; clients upload xorbs and shards that say anything; the
  chunker of the conversion reads blocks of arbitrary size and must cut where
  every other client cuts.
* **Reads.** File operations run in a blocking pool that does not stop when a
  request is dropped; removals of an earlier attempt race the next one; a bucket
  may answer a listing with nonsense; a crash leaves files to the next start.
* **Hub start.** Several processes look at a database and create tables in it
  without a transaction, and may be cut off between any two statements.

## 2. The modules

| Module | Models | Checked by | Proofs |
|---|---|---|---|
| `CasServer` | handlers, index, rebuild, conversion, local storage, lifecycle | `MCCasServer` | `CasServerProofs` |
| `ConversionScheduler` | `converting_oids.rs` | `MCConversionWork` | `ConversionSchedulerProofs` |
| `TempQuota` | ledger, reservations, temp files, abandoned downloads, startup reconciliation | `MCConversionWork` | `ConversionSchedulerProofs` |
| `S3Storage` | `S3Storage::put_from_path`, multipart guard, shutdown, drop | `MCS3Storage` | `S3StorageProofs` |
| `AtomicRepos` | abstract specification: a name is an object with a head and a history; create, delete and commit are single steps | refined by `HubRepo` | `HubRepoProofs` |
| `HubRepo` | repositories, commits, listings over SQLite | `MCHubRepo` | `HubRepoProofs` |
| `TokenFlow` | token store, signers, batch, proxy, CAS guard | `MCTokenFlow` | `TokenFlowProofs` |
| `Cdc` | `Chunker::chunk_data`, the one-shot chunker, as operators | through the two below | `ContentProofs` |
| `ChunkList` | abstract specification: chunks come out as the one-shot chunker cuts them | refined by `StreamingChunker` | `ContentProofs` |
| `StreamingChunker` | `StreamingChunker` and the reading loop of `convert` | `MCStreamingChunker` | `ContentProofs` |
| `MerkleTree`, `XorbFormat`, `ShardFormat` | hashes; xorb builder, verifiers, reader; shard builder, parser, plan | through `ContentStore` | `ContentProofs` |
| `ContentStore` | contents of uploads and conversions, validation, both index maps, rebuild, reconstruction, deduplication | `MCContentStore` | `ContentProofs` |
| `HubStartup` | start of Hub servers and commands, migrations | `MCHubStartup` | `HubStartupProofs` |
| `ObjectReads` | S3 listing and downloads, retries, guards, lock and cleanup of the temporary directory | itself | `ObjectReadsProofs` |

`CasServer` and `ContentStore` model the same handlers from two sides. In
`CasServer` a handler is one step per await and a content is what its hash says
of it; in `ContentStore` a handler is one step and a content is bytes, chunks,
offsets and records. What `CasServer` takes as constants (a conversion's shard
declares its file and is good; a shard that validates reconstructs) is what
`ContentStore` shows (`IndexReconstructs`, `RebuildComplete`).

### CasServer

The disk (`raw`, `xorbs`, `shardObjs`) survives a crash; the lifecycle
(`phase`, `readiness`), the rebuild (`pending`, `failures`), the index
(`fileIndex`), the requests (`pc`, `obj`, `refs`) and the conversions (`conv`)
do not. `acked` and `due` are history: what clients were told, and which
requests began after that.

An action is the code between two awaits. An LFS upload is `UploadExists`,
`UploadStore`; a download is `DownloadExists`, `DownloadOpen`, `DownloadIndex`,
`DownloadFetch`; a shard upload is `ShardExists`, `ShardRevalidate` or
`ShardValidate`, `ShardStore`, `ShardRegister`; a conversion is `ConvertOpen`,
`ConvertPutXorb`, `ConvertWriteShard`, `ConvertRenameShard`, `ConvertRegister`,
`ConvertDelete`. `Abandon` and `ConvertStop` are an error answer or a dropped
future at any await. `Start`, `RebuildKey`, `RebuildKeyFails`, `ListingFails`
and `FinishRebuild` are the startup; `Crash` and `Shutdown` the ends.

A shard object is a pair of a shard and a kind: its final key, or the
`<key>.<uuid>.tmp` file that a crash during `put` leaves beside it, whole or
truncated; the listing returns them all, as in the code. Contents are abstracted
to hashes: what a shard declares, and whether its declarations are true, is
fixed by its hash and hence a constant. `s4` of the run is a shard whose
declarations are false; the server must never make it discoverable.

Left out: power loss (the code does not fsync; a crash is a crash of the
process), temporary leftovers under `lfs/objects/` and `xorbs/` (nothing lists
those directories), the conflict of two shards that declare different sizes for
one file (excluded once both are verified; `ContentStore` has it),
`chunk_to_xorb` (`ContentStore`), GET of a xorb, ranges, streaming. `register` takes two locks one after the other; a lookup uses
only one of them, so it is one step here.

### ConversionScheduler

One action per operation on shared state. A caller of `try_enqueue` goes through
`Enqueue` (closed check), `Mark` (the `state` map), `LockSender` (`try_lock`),
`Send` (`try_send`), `Count` and, on the failing paths, `Unmark`; a worker
through `Take`, `Uncount`, conversion, `Release`; shutdown through `Close`,
`TakeSender`, `Cancel`, `SwapQueued`, the join with its deadline, `Abort`,
`Clear`. Counters are words: a worker may decrement before the caller has
incremented, and the counter then wraps, so `QueuedCounts` is stated modulo
`Word`. The per-scheduler counter also stands for the process-wide gauge, which
is updated beside it. The server calls `shutdown` after its HTTP server has
stopped; the API permits more, and the model lets callers run during shutdown.

### TempQuota

A writer is a temp file with its `TempReservation`. `LoadCharged`,
`LoadReserved` and `CompareExchange` are the loop of `reserve`; `Write` the
write to disk; `CommitReserved`, `CommitCharged` the two halves of `commit`;
`DropReserved`, `DropCharged`, `RemoveFile` the drop. `AccountExisting` is the
reconciliation at startup, once for each of the two temporary directories.
`AbandonDownload` is a conversion that ends between the download of its blob and
the creation of the guard that would remove the file: it is cancelled at the
stat, the stat fails, or the file has not the expected size (any other size, as
the bucket sent it). The reservation is released, and the bytes go from the
writer to `left`: they are on the disk and in no counter. `DiskBalanced` says
that nothing else is lost. The next start removes such files, which is outside
of the model (`residue` is what a start finds).

`MCConversionWork` checks scheduler and ledger in one run. They share no
variable, so a behaviour is about one of the two while the other rests (`part`).

### S3Storage

The bucket is external and modelled from the requests the code sends: a request
takes effect or not, and is answered with success or failure, independently for
failures. Each request is two steps, the effect (`ServeFuture`, `ServeTask`,
`ServeShutdown`, `ServeStray`) and the caller acting on the answer
(`CreateReply`, `PartReply`, `CompleteReply`, `AbortReply`, `TaskReply`,
`DrainReply`). `Cancel` drops a future at any await: its request becomes
`stray`, and the guard's task is spawned. `Drain`, `DrainNext`, `DrainReply`
are `abort_all_active_uploads`; `Drop` is the drop of the storage. `NextEnd`
holds the part arithmetic. Left out: the SDK's own retries, parts in flight that
survive an abort, get and delete; listing and download are in `ObjectReads`. The aborts that `Drop`
spawns are done at once, any subset of them successfully. An upload whose
creation is answered but never seen by the process is nobody's: the code leaves
it to the bucket's lifecycle rule, and `KnownUploadsOwned` speaks of the ids the
process has received.

### HubRepo

The tables are functions: `named`, `heads`, `rev`, `tree`. SQLite is external:
one writing transaction at a time (`txOwner`, BEGIN IMMEDIATE), readers see
committed rows, foreign keys are on, so deleting a repository deletes its
commits and trees. A commit is `CommitBegin` (`get_repo`), `CommitHead` (the
early check), `InlineFile`, `LfsFile`, `DeletedEntry` for the operations in
order, then `TxBegin`, `TxCheck`, `TxCommit`. A commit id is taken when the
transaction commits, where it first becomes visible. A listing is `ListBegin`,
`ListRevision`, `ListPage` and, for each next link, `ListNext`; both recursive
listings and listings by directory (`non_recursive_entries`) are modelled, of
the root of the tree. What a listing has returned is a bag, so that an entry
returned twice is seen; the order within a page is left out. `Cancel` drops a
request at any point.

`AtomicRepos` is what a client may believe: it knows names, commits and
contents, and no repository ids, tables, lookups or transactions. `Visible` is the
refinement mapping (what the tables show under each name: a head, and each
commit with its parent and files), `used` the commit ids given out, `stored` the
blobs. `TxCommit` is the one step that maps to `Commit`; the steps of a request
before it, of a listing, and the abandoned ones stutter or store a blob.
`CommitsImmutable` follows from `ReposAtomic` and is kept as a theorem of its
own.

### TokenFlow

A token is its claims; `root`, the Hub token it was derived from, `asked`, when that
was looked up, and `signed`, when the first token of the chain was signed, are
history.
`ReadSalt`, `InsertSalt`, `ReselectSalt` are the first start of each Hub on a
shared database. Hub tokens are created and revoked. A request to the Hub begins
with `AuthUser`, which looks the Hub token up and compares its scope, and goes on in
a later step, since the handlers await the database in between: `exchange` signs a
user token; `resolve` signs a proxy token for a redirect, or a user token with which
the Hub reads a small file itself; `BatchStart` and the following steps are a batch at
the Hub, which forwards a user token to the CAS and replaces the token of each
action by a proxy token of its own; `ObjectStart`, `Spooled`, `CasHandles`,
`HubReply`, `GiveUp` are a proxied upload or download; `DirectAccess` and
`DirectBatch` are clients that talk to the CAS with the token they hold.
`Restart`, `RestartCas`, `RemoveOldKey` are a key rotation in the order that the
deployment documents: the CAS accepts both keys, signers change, the old key
goes once the longest lifetime has passed since the last signer changed. One clock without skew; steps take no
time. How long a handler of the Hub takes from the look-up to the signature is not
bounded; only requests of the Hub to the CAS have a time-out. Repository access rules and the internal tokens of the
Hub are left out.

### Cdc, ChunkList, StreamingChunker

`Cdc!ChunkSize` is one round of `Chunker::chunk_data`: skip `SearchSkip` bytes,
search the gear hash up to the maximum, extend to the minimum. The rolling hash
is a predicate `Match` on the bytes since the search began (a reset hasher has
seen nothing else), so a boundary may depend on bytes of an earlier block.
`ChunkList` is the abstract specification: one `Emit` per chunk.
`StreamingChunker` has the two buffers (`buffer` of the chunker,
`chunk_data_buf` of `convert`), the offset, the chunks that have been returned
and the pieces handed to the xorb builder. `ReadBlock(n)` is a read of any
size, `DrainChunk` and `DrainStops` the loop of `drain_complete_chunks`,
`AddPiece` and `AddedAll` the loop of `convert` over what came back,
`EndOfFile`, `FinalChunk` and `FinalStops` the end with `finalize`;
`ReadFails` is an I/O error. The refinement maps the abstract offset to the
bytes that have left `chunk_data_buf`.

### MerkleTree, XorbFormat, ShardFormat, ContentStore

Hashes are injective terms (a tag and what was hashed), so that a property can
ask what a hash binds; SHA-256, keyed BLAKE3 and the Merkle hash of a file are
different tags. A xorb is a sequence of regions (header fields and payload), a
footer with hashes and two kinds of offsets, and the bytes that could hide in
front of the footer or behind it; compression is a predicate on lengths
(`Lz4Len`) and the byte grouping of BG4 a permutation. A shard is a sequence of
48-byte records read as whatever the footer's offsets make of them, followed by
lookup entries. `BuildXorb`, `BuildShard` are the builders with their 32-bit
totals (`U32`), `VerifyXorb` and `VerifyXorbFromFile` the two verifiers,
`Parses`/`Parse` the parser, `Plans`/`Plan` `build_file_chunk_plan` with both of
its branches, `ChunkExtracts` the reader.

`ContentStore` puts them to work: `UploadBlob`, `UploadXorb`, `UploadShard`,
`Convert` under every compression scheme, `Restart` and `RebuildShard`.
`ShardValid` is `validate_shard_for_index`, `Register` is
`register_verified_shard` with its conflict of sizes, `FileReads` and
`FileBytes` are the reconstruction of a download, `PlannedXorbs` the answer of
the reconstruction API, `DedupAnswers` that of a deduplication query; the
specification is `StoreSpec`. Clients upload anything: `StoreAssumption` says
what every byte string reads as (`XorbFile`: regions with lengths and payloads and a
footer with equally long lists; `ShardFile`: records of numbers, lookup entries,
offsets), one convention about that, and that `MaxChunk <= MaxUnpacked`, since the chunker of the conversion
and the reader have the same `ChunkConfig::default`. The convention: what lies in
front of the lookup tables is the records, so that in a shard that parses they end
where the xorb section does. A gap between the two, which the check at
`shard.rs:574` refuses, has no representation, and the model says nothing about
that one check. Left out: magic numbers, flags, reserved fields and the LZ4 format;
a bit flip on disk; limits on the memory of a reader; failures of reads and tasks
during the rebuild, after which a server that is not strict serves without the
shard (these are in `CasServer`, as `RebuildKeyFails` and `ListingFails`).

The sizes in a reconstruction answer are those of the unpacked xorbs.
`FetchInfoTrue` takes that for right, as the test in `api/reconstruction.rs`
(line 478) does; `docs/api/cas-api.md` (192 and 228: "便于客户端直接下载", for the
client to download directly, and "Xorb 大小（字节）", the size of the xorb in bytes)
reads more like the size of the object, which differs once a xorb is compressed.

### HubStartup

`found` is the database before the first start; no code alters or drops a table,
so what is malformed stays so. A process goes through `ReadVersionTable`,
`ReadVersions`, `HasAnyHubTable`, `ValidateRequiredColumns` and one of
`ApplyV1Schema`, `CreateSchemaVersion`, `SetSchemaVersionIfEmpty`, one query per
step; a server does so twice, for its two stores (`StoreReady`), and holds the
lock of its upload directory (`StartServer`, `Release`); a `create-token`
command has no lock (`StartCommand`). `CutOff` is a kill or any other failure
during a start. SQLite's busy timeout is part of `CutOff`.

The model shows how narrow the migration is: `V1_SCHEMA` commits statement by
statement with `schema_version` first, so a start that is cut off in the middle
leaves a database that every later start refuses, and a start that falls into
another's schema creation is refused. `RefusalJustified` says that these are the
only refusals of a good database.

### ObjectReads

The bucket is external: `HonestAnswers` is what ListObjectsV2 promises,
`FaultyAnswers` what the code defends against. `ListPage`, `ListKey`,
`ListError` and `ListEnd` are `list_objects_stream`. A read is one of the four
users of `download_to_path`: `parse_shard_from_storage` (`shard`: a new destination
for every attempt), the verification of a xorb through
`download_to_path_with_retries` (`copy`: one destination for all),
`open_blob_for_streaming` of the conversion (`blob`: the same, but the guard of the
destination is made only after the check of the size) and `download_to_temp_stream`
(`stream`: no retry). `DestGuard` says what a read that ends or is dropped has to
remove its destination with. Creating, renaming and removing a file
are tasks in `pool`, run in any order (`RunCreate`, `RunRename`, `RunRemove`);
`Drop` drops a request at any await, and its guards with it, but not the task it
was waiting for. `Start` takes the lock, cleans the directory up and begins to
list; `Crash` leaves the files. `PutShard` is another server on the bucket. The
delays between retries are left out, and a read slot is used again only when
nothing of its last read is left.

Three kinds of files stay behind, and `StraysExplained` says that there are no
others. A file is *overtaken* when its read was dropped while the task that
creates or renames it was under way and the removal of the guard has run first;
the blob of a conversion is *unguarded* when the conversion ends between download
and guard; both stay until the server ends, against what the code and the
documentation say (findings 3 and 4, and the run `reads_left`). And `.part`,
`lfs-download-*` and `xorb-download-*` are not among the names that
`cleanup_temp_directory` manages, so that files of that kind left by a crash are
neither removed nor charged.

## 3. The runs

`tlc -workers 2 -config X.cfg M`; every passing run takes less than three
minutes on two workers (the largest, `tokens`, has 2.9 million states, `reads` 1.2
million, `conversion_work` 0.5 million).

| Run | Shows |
|---|---|
| `cas` | No acknowledged file is lost or unreachable (`AckedDurable`, `AckedReachable`), the index names only verified, complete contents (`IndexSound`), a download that starts after the acknowledgement is never answered 404 by a ready server (`DownloadServesAcked`), nothing is deleted before the index finds its replacement (`DeletesAreSafe`). |
| `conversion_work` | The scheduler: `QueueSound`: no oid is converted twice at once (`NoDuplicateConversion`), every mark has one owner (`MarksOwned`), the counter counts (`QueuedCounts`). Shutdown stops work and clears the marks (`ShutdownClears`) and returns (`ShutdownReturns`), accepted oids leave the queue (`AcceptedIsConverted`). The ledger: `LedgerSound`: the counters equal what the writers hold at every point of their work (`LedgerBalanced`), one file stays within the quota (`FileWithinQuota`), what the disk has lost is in the files of writers and in abandoned downloads (`DiskBalanced`). A dropped writer ends with nothing in the ledger, and its file is removed, unless it is an abandoned download (`DroppedIsFreed`). |
| `s3` | Known uploads have an owner (`KnownUploadsOwned`) and only one (`OneOwner`), a successful shutdown has cleared what it drained (`ShutdownOkClears`). `UploadsSound`: an acknowledged object is whole (`AckedIsWhole`), every file within the object limit fits into the part limit (`LargeFilesFit`). |
| `hub` | `HistorySound`: linear history (`LinearHistory`), no rows of deleted repositories (`NoOrphans`). `SnapshotsSound`: trees are parent plus operations (`SnapshotIsDelta`), contents are stored before they are visible (`TreesAreStored`). Listings return every entry of one commit exactly once although commits go on (`ListingComplete`). Seen by name, the Hub behaves like repositories with atomic commits (`ReposAtomic`). |
| `tokens` | A token of one Hub is found by the others (`TokensPortable`). `AccessSound`: derived access stays within scope, object and operation (`AccessInScope`), comes from a request that found its Hub token unrevoked, and ends a bounded time after that request signed (`RevocationTakesEffect`). Handed-out tokens work until they expire, through a rotation (`HandedOutWorks`), a confirmed upload is stored (`AckedUploadStored`). |
| `chunking` | The streaming chunker with its driver implements the one-shot chunker (`ImplementsOneShot`), its two buffers stay in step (`BuffersInStep`), pieces keep their limits (`PieceSizes`), the loop ends with nothing left over (`ConversionEnds`). |
| `store` | What was acknowledged is served byte for byte (`AckedReadable`), every reference in the index reconstructs (`IndexReconstructs`), a rebuild brings all of them back (`RebuildComplete`). `AnswersTrue`: the answers to deduplication and reconstruction queries are true (`DedupTrue`, `FetchInfoTrue`). `ObjectsBound`: a xorb hash determines the object (`XorbHashBinds`), a shard has no record, hash or count that its parse does not account for (`ShardTiles`; flags and reserved bytes are ignored by the parser and by the model). |
| `startup` | `StartsSound`: who serves has the complete schema (`ServesCompleteSchema`), locks end with their process (`LockedByRunning`). Foreign databases stay untouched (`UnknownUntouched`), a good database is refused only during or after another's unfinished creation (`RefusalJustified`), and simultaneous starts do not all refuse (`SomeStartSucceeds`). |
| `reads` | `CopiesIntact`: a destination is never a partial body (`DestIntact`), a copy stays while it is needed (`CopyStays`). Files that stay are explained or charged (`StraysExplained`), an honest listing is complete (`HonestListingComplete`). `WorkEnds`: an endpoint that does not make up tokens for ever is asked for finitely many pages (`PagesEnd`), and the files of a read that is over go (`FilesGo`), but for the two kinds that `StraysExplained` names. |
| `cas_head`, `store_wrap`, `reads_left` | Disagreements 1 to 4 of section 6. |

A property named before a colon is the conjunction of those that follow it and
of the module's type invariant, `TypeOK` (`QuotaTypeOK` in `TempQuota`, `StoreTypeOK`
in `ContentStore`; `SnapshotsSound` and `AnswersTrue` are without it; `WorkEnds` is
temporal). The type invariants of `CasServer` and
`StreamingChunker` are not in a run: they are proved for every instance.

### Bounds

* `cas`: one file, the xorb and shard its conversion builds, one false shard,
  two requests, any number of crashes and restarts. Two requests plus a
  conversion give every pairwise race on a file; files do not share state other
  than the lists of the rebuild, and the proofs hold for any number of
  everything. `delete_raw_after_conversion` is on, since nothing is deleted
  otherwise, and `index_rebuild_strict` off, since a strict server does not start
  after a failure.
* `conversion_work`, the scheduler: three oids, two callers, two workers, a queue of one. One oid can
  be queued and two converting, so that a caller meets a full queue, a held lock
  and a mark of each kind.
* `conversion_work`, the ledger: two writers, a quota of 2 with chunks of 1 and 2, a disk of 4 of which
  1 is to be kept, and a residue of 0 or 3 (above the quota) in each directory, so
  that starts succeed and fail.
* `s3`: two uploads of a file below the threshold, a file that needs the part
  size raised to fit the part limit, and one above the object limit, with two
  parts at most. That one upload is drained while another's future, task or abort
  is under way takes two.
* `hub`: one name, used for two repositories in turn, three commits, three paths
  of which two share a directory, pages of one row, two requests; four lists of
  operations that write and delete the same paths, write one twice and nothing
  at all. With pages of one row every listing has next links and a page ends
  inside the directory.
* `tokens`: two Hubs, one Hub token, scopes of read or write, two objects, one
  request in a Hub beside any number of direct accesses, clock up to 3, a user
  token that outlives a proxy token, at most one derived token kept by clients. The
  clock can move between every two steps, so that a revocation falls between a
  look-up and its signature, and the bound of `RevocationTakesEffect` is reached:
  lowered by one, it is violated.
* `chunking`: all files of at most 11 bytes over two byte values, chunks of 3 to 5
  bytes, a window of 2, reads of 1 to 7 bytes. A file has up to four chunks, a
  read may complete none, one or two, and a match depends on the byte in front
  of it, which may be in another read. The proof needs none of these bounds.
* `store`: files of two chunks, of four equal chunks and of one chunk more than a
  xorb may have; four honest shards, of which one uses part of a xorb and one has
  two files and two xorbs, and every shard and xorb that differs from an honest
  one in a single field and is not refused by the parser; at most two stored
  xorbs and two stored shards, so that a shard may meet another one's xorbs. In
  `store_wrap` a word has 16 values and a file is longer than that.
* `startup`: two servers, one command, one or two directories, three of the seven
  tables, 14 databases (new, half-made, complete, of other versions, malformed),
  one start cut off. Three processes give every pairwise race plus a bystander;
  the tables are treated alike, so three show a first, a middle and a last one.
* `reads`: three shards on pages of one, two tokens for a faulty endpoint, two
  servers on one directory, one crash, one read slot of any kind with two
  retries. Reads share no files (names are random), so that one slot is enough;
  two retries leave the removals of two attempts in the pool at once. That `Tokens`
  is finite is a restriction of the endpoint, and `PagesEnd` is meant with it: an
  endpoint that sends an empty page with a new token each time is not refused by
  `validate_next_continuation_token`, and keeps the listing going for ever.

Symmetry is over slots, Hubs, objects or uploads that the modules treat alike,
and is used in runs without liveness properties only.

### Fairness

* `ConversionScheduler!Fairness`, and the same in `MCConversionWork!WorkSpec`: weak fairness of each caller, each worker and
  of shutdown. They are tasks and threads of a multi-threaded tokio runtime,
  polled again whenever they are woken. A running conversion has none: it may
  hang. `AcceptedIsConverted` therefore assumes that conversions end;
  `ShutdownReturns` does not, the deadline of the join sees to it.
* `TempQuota!FairQuotaSpec`, and the same in `MCConversionWork!WorkSpec`: weak fairness of the steps of a writer that has
  something left to do; a drop runs to its end, and the blocking task it spawns
  for the file is run by the runtime's pool.
* `StreamingChunker!FairSpec`: weak fairness of the loop, a single task, which
  continues as long as reads are answered (`ReadFails` has none).
* `HubStartup!FairSpec`: weak fairness of every starting process: SQLite answers
  a query, or it fails after the busy timeout.
* `ObjectReads!FairSpec`: weak fairness of the pool tasks of each read, and of
  nothing else: the blocking pool runs what it was given. The endpoint may never
  answer, for the code configures no time-out of its S3 client, and a client may
  stop reading its stream; so the model promises neither that a listing nor that a
  read ends, only that pages are not asked for without end and that files go once
  their read is over.
* The other modules state no liveness, and need no fairness.

Deadlock is checked for `cas`, `hub`, `chunking`, `store` and `startup`. The
scheduler stops after its shutdown, the ledger after a failed start, `s3` after its
uploads have ended, `tokens` at the bound of the clock, `reads` when a leaked file
keeps the slot from being used again.

## 4. The proofs

`tlapm M.tla` for `CasServerProofs`, `ConversionSchedulerProofs`, `S3StorageProofs`,
`HubRepoProofs`, `TokenFlowProofs`, `HubStartupProofs`, `ObjectReadsProofs` and
`ContentProofs`; each takes a minute or two, `ContentProofs` about ten. Every safety
property of every passing run is stated by a theorem. The inductive
invariants were tried on a TLC run before they were proved; those of
`ContentProofs` quantify over all byte strings, and there TLC has checked the
properties only. The bounds that keep a run
finite (`MaxCrashes`, `MaxTime`, `MaxRepos` and their like) are arbitrary numbers in the
theorems.

**CasServerProofs**, from `ContentAssumption` (the constants have their types;
the shard that a conversion builds declares exactly its file and is good). The
theorems `TypeCorrect`, `Durability`, `IndexSoundness`, `Reachability`,
`DownloadsServe` and `DeletionsSafe` hold for any sets of files, xorbs, shards
and requests. Durability alone is not inductive: a conversion deletes the raw
blob on the strength of an index entry, a shard is registered on the strength
of a validation some awaits ago. The inductive invariant `Inv` therefore also
says what every stored shard satisfies (`StoredSound`), what each request and
each conversion has established before its next step (`RequestsSound`,
`ConversionsSound`), that nothing runs outside of serving
(`QuietUnlessServing`), and that a rebuild without failures has indexed every
key it has processed (`RebuildSound`), which is what carries reachability over
a restart. `NextInv` has one step per action.

**S3StorageProofs**, from `S3Assumption` (sizes and limits are numbers, the
limits positive). `UploadsNeverForgotten`, `EntriesHaveOneOwner` and
`ShutdownIsThorough` hold for any number of uploads and keys and any limits. The
invariant `IInv` adds to the three properties their types (`Typed`), which ids
can be known at which point, dropped futures' requests included (`Fresh`), that
a successful answer to complete or abort means that the upload is gone
(`Settled`), and what shutdown has still to do (`DrainSound`). One lemma per
action. `UploadsAreSound` has an invariant of its own, `PInv`: for every upload how
far `upload_parts` has come and what the bucket has of it (`UploadSound`), and
that a request which outlives its future is the only one of its upload
(`StraySound`), so that a late part or completion cannot meet another one. That
the parts suffice is arithmetic: `PartsAreEnough` shows that the part size which
`multipart_part_size` rounds up holds a file of any size in the parts that S3
allows, `CoversAppend` and `NextEndIs` that the parts tile the file.

**ConversionSchedulerProofs**, from `SchedulerAssumption` (finitely many callers
and workers, a positive capacity, a word larger than all of them together).
`QueueIsSound` and `ShutdownHasCleared`. `MarksOwned` counts the owners of a
mark, which is no form to reason with; the invariant has three kinds of owner
(caller, queue, worker), no two of them with the same oid (`Distinct`), each with
its mark (`Marked`), and no mark without one (`Owned`). `Over` says who may still
run when shutdown has come how far. The counter's equation modulo `Word` is
replaced by the two cases that the bounds leave, equal or a word apart
(`Counted`). Liveness, and hence that shutdown does return, stays with TLC.

The module also has the quota, `LedgerIsSound`, from `QuotaAssumption` (finitely
many writers, sizes are numbers, a word is larger than the residues and all that
the writers can hold and reserve together): for any number of writers the two counters are what the
writers hold. The invariant `LedgerInv` says for each writer what its program
counter lets it hold, in which counter, and how its reservation relates to its
file (`WriterSound`), and that files, abandoned downloads and free space make up the
disk (`DiskSound`). A sum over a set of writers would be an induction over finite
sets; the ledger is instead the cardinality of a set of pairs (writer, byte), to
which the theorems on finite sets apply: a step of one writer adds or takes away
the pairs of that writer, and nobody else's.

**HubRepoProofs**, from `HubAssumption` (operations and pages have their types,
paths of one directory are neighbours, as the sort by bytes makes them).
`HistoryIsSound`, `SnapshotsAreSound`, `ListingIsComplete`, the action property
`CommitsAreImmutable` and the refinement `ReposAreAtomic`, for any number of requests,
paths and operations.
`LinearHistory` is not inductive: a cycle of commits in a repository without a
head would satisfy it, so `Rooted` says that there are no commits without a head,
and `Fresh` that no id is given out twice. `CommitSound` says what a request
inside its transaction has checked and that it still holds. For a listing, `ListSound` says
that what was handed out is the listing of the rows up to the cursor; that a page
continues it is `PageContinues`, over `PageIsFirstPart` (the rows that ORDER BY and LIMIT
return) and `NonRecursiveEntries` (a directory is shown on the page that has its
first path, and on no other). `LeastNatural` and `MaxExists`, from the
well-foundedness of the natural numbers, take the place of induction there. For the
refinement of `AtomicRepos` the invariant grows by `NamesInv`: two names never have
one repository id and ids are not given out again (`IdsSound`), so a request that
looked its repository up before it was deleted and made anew cannot commit to
the new one; and the operations processed followed by those left are what the
client sent (`Sent`), so the commit is of all of them and in their order.

**TokenFlowProofs**, from `TokenAssumption` (lifetimes are positive and at most
`MaxLifetime`, as the Hub's configuration and the checks of the claims demand).
`TokensArePortable`, `AccessIsSound`, `HandedOutTokensWork` and
`AckedUploadsAreStored`, for any number of Hubs, tokens, objects and requests and
any lifetimes. The properties speak of tokens at the end of a chain, the invariant of
each link: one salt for all instances however they race to generate it
(`SaltSound`), an old key that outlives what it signed (`KeysSound`), for every
derived token the Hub token it comes from, that this was looked up before it was
revoked, and a bound on its expiry in terms of the first signature of its chain
(`ClaimSound`), and for every request what it has looked up and not yet signed, or the
token it holds and since when (`ReqSound`).

**HubStartupProofs**, from `StartupAssumption` (table names are distinct from
`schema_version`; a found database has versions only in a readable version
table). `StartsAreSound`, `ForeignUntouched` and the action property
`RefusalsAreJustified`, for any number of processes, any tables and any database.
The queries of a start are no transaction, so the invariant says what each
process may still conclude from the answers it had (`PlaceSound`): tables are
only added (`Grown`), the version row is written last (`Versioned`), and tables
that were not found stem from a start that is under way or was cut off
(`PartIsCreated`).

**ObjectReadsProofs**, from `ReadsAssumption` (numbers are numbers, a page is not
empty, the tokens of a faulty endpoint are keys). `CopiesAreIntact`, `StraysAreExplained` and
`HonestListingsAreComplete`, for any number of shards, reads, retries and
crashes and any size of a page. For the files the invariant says which task of
the pool may still touch which name, at which point of its read or after it
(`TaskSound`), that a read has one write under way (`OneWrite`), and why each file is there
(`FileSound`, `StaleSound`), the overtaken and the unguarded ones included; without `TaskSound` the removal of an earlier attempt could meet
the file of the next one. For the listing it says that what was returned and
what is on the page ascends and has every shard up to the token (`ListSound`).

**ContentProofs**, the chunker: from `CdcAssumption` (the sizes are numbers, the
minimum positive and at most the maximum) and `StreamingAssumption`. For any
bytes, any predicate `Match`, any files and any sizes of reads: `TypeCorrect`,
`StaysInStep`, `PiecesBounded` and `Refinement`, that the streaming chunker
implements `ChunkList`. The arithmetic is in two lemmas: `DrainIsOneShot` (a
buffer with the bytes of a largest chunk is cut where the whole file is, since
the search never looks further) and `FinalIsOneShot` (a buffer that reaches the
end of the file is too). The invariant `IInv` places both buffers in the file
(`Buffers`), says that the chunks on their way from one loop to the other lie
one behind the other and have the one-shot sizes (`Chain`), and how far each
control point has come (`Typed`); without `Chain` the sizes that `convert`
takes off its own buffer would be unrelated to the bytes in it.
`AddPieceEmits` is the one step that maps to `Emit`; all others stutter.
`DoneIsOneShot` draws the conclusion for the whole file (what was handed to the
builder at the end is `ChunkData` of the file), and `PiecesAreTheFile` says of every
moment that the pieces are the bytes up to there.

Both need what a recursive function computes. The functions recurse over
positions in a sequence; their equations come from well-founded recursion on
the natural numbers (downwards from the length, for those that run up), and
induction is on the *set* of numbers for which a fact holds (`SetInduction`,
`DownInduction`), so that no theorem with an operator as a parameter has to be
instantiated.

**ContentProofs**, the store: `IndexAlwaysReconstructs`, `RebuildIsComplete`,
`AckedIsReadable`, `AnswersAreTrue`, `ObjectsAreBound` and `StoredXorbsAreValid`, for any
uploads, any contents, any compression and any limits, from `StoreAssumption` and two
hypotheses that are written in each theorem:

* `Lz4Bounded`: compression needs no more than
  `max_compressed_len_for_chunk` (`xorb_reader.rs`) allows for; otherwise a reader
  would refuse what the builder wrote.
* `NoWrap`: a file that is small enough to be converted, and the xorb it becomes, are
  shorter than a u32 counts. It holds by a wide margin for the default of
  `max_conversion_size`, and in the run `store`; without it the theorems are
  false, which is finding 2 of section 6.

All follow from one invariant, `StoreInv` (`StoreIsSound`). A stored xorb is the one
xorb that its regions determine (`SealedIn`): verification leaves no field of it
free. A stored shard is framed as the parser reads it, parses and validates against
the stored xorbs (`GoodShards`). References and chunk places in the index are to
such objects and true of them, and every shard that the rebuild is not still
to look at is in the index (`IndexInv`). An acknowledged blob whose raw object is
gone is a file of a stored shard. Along the way:

* `XorbHashInjective`: the Merkle tree of a xorb, round by round, determines its
  leaves, so a xorb hash determines regions and hence the object.
* `ConvertedSealed` and `ConversionGood`: the xorb and the shard of a conversion, which
  the code registers without validating, would have passed, for every
  compression scheme. Here the totals of the two builders meet the sums that
  verifier and parser compute.
* `BuiltAgain`: a shard that parses and is built again has the same records,
  which is why it has no record that the parse does not account for.
* `RegisterKeeps`: registering a good shard adds its references, and never meets
  the conflict of sizes, because the hash of a file determines its bytes. The
  rebuild is complete for that reason, in whatever order it comes to the shards.
* The store only grows: whatever was good for some xorbs is good for more of
  them (`IndexKeeps` and the lemmas in front of it).

**Only model-checked.** Liveness (`AcceptedIsConverted`, `ShutdownReturns`,
`DroppedIsFreed`, `ConversionEnds`, `SomeStartSucceeds`, `WorkEnds`): fairness
is out of the prover's reach. The three runs that expect a violation are
counterexamples and stay with TLC by their nature.

## 5. Not modelled

Hash functions, LZ4 and the gear hash themselves; magic numbers and reserved
fields; range requests and response streaming; S3 get into memory; rate
limiting, metrics, configuration; HTTP parsing and status codes except where a
property is about them; repository access rules and the internal tokens of the
Hub; listings below a path; clock skew between Hub and CAS; preupload and the
size limits of streams. Most of it is sequential or pure I/O; what has logic
worth checking is in the plan.

## 6. Disagreements between the code and its documentation

1. `cas_head` — `head_blob` looks at the index and then at the raw blob. A
   conversion that registers and deletes between the two makes a blob that is
   stored at every moment a 404, documented as "the blob does not exist".
   `download_lfs_object` looks in the other order and is not exposed.
2. `store_wrap` — "Assembles raw data chunks into a valid xorb binary format": the
   running totals of the builder and of the conversion are 32-bit, and
   `max_conversion_size`, the only limit on a file, is not validated against that.
   Set above 4 GiB (the default is 512 MiB), a conversion stores a xorb that its
   verification would refuse, and deletes the raw blob.
3. `reads_left` — a `TempPathGuard` "removes it when the guard is dropped", and the
   architecture document has the temporary file deleted when a response is
   complete or cancelled. The removal is a task of the blocking pool, as are the
   creation and the renaming of the file that a dropped future was waiting for. Run
   in the other order, the removal finds nothing, and the file stays.
4. `reads_left` — `PathGuard` "ensures temporary files are cleaned up even on error
   paths", but `open_blob_for_streaming` makes it after it has downloaded the blob
   and compared its size. A failing stat, another size or a cancellation there
   leaves the blob on the disk, and its reservation is released.
5. `tokens` — `docs/api/authentication.md` (407) says that a revocation takes effect
   immediately ("撤销立即生效"). It does for the look-up of the Hub token; the CAS
   never asks for it, so derived tokens stay accepted until they expire, and a
   request that was let in before may sign after the revocation.
   `RevocationTakesEffect` states the bound that does hold.

Smaller ones, seen while modelling and without a run of their own: the comment on
`LocalStorage::put` says that a crash leaves no truncated file, but it leaves a
truncated `.tmp` in the same directory, which the listing returns and the next
rebuild counts as a failure (`CasServer` has these files); `commit` of the quota
subtracts from `reserved_bytes` before it adds to `charged_bytes`, so that a
`reserve` in between sees the bytes in neither and writers may exceed "the
configured budget" together; `account_existing` compares the value before the
addition with the quota; the free-space reserve is checked when an upload opens
and not for its chunks; the Hub replaces the token of a batch action and keeps
the `expires_in` that the CAS computed from the longer-lived user token.

## 7. Plan

Done, in this order: `CasServer` with its proofs, `ConversionScheduler`,
`TempQuota`, `HubRepo`, `S3Storage` with its proofs, `TokenFlow`;
`StreamingChunker` with its abstract specification, refinement and proofs,
`ContentStore` with the formats, `HubStartup`, `ObjectReads`; then the proofs of
every safety property of `ConversionScheduler`, `S3Storage`, `HubRepo`,
`TokenFlow`, `HubStartup` and `ObjectReads`; then `AtomicRepos` with the refinement by
`HubRepo`, and the proofs of `TempQuota` and `ContentStore`.

Left, modelling:

1. an abstract content store refined by `CasServer`;
2. the composition of scheduler and conversion: cancelling a worker at any await
   of `convert`;
3. listings below a path, repository access rules, preupload.

Left, proofs: that this refinement holds, and that `ContentStore` discharges what
`CasServer` assumes of contents (`ContentAssumption`) as one theorem rather than by the
argument of section 2.
