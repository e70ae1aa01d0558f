---------------------------- MODULE ContentStore ----------------------------
(***************************************************************************)
(* The content path of the CAS server: a raw blob is cut into chunks,      *)
(* compressed into a xorb and described by a shard (src/src/conversion),   *)
(* clients upload xorbs and shards of their own (src/src/api), the index   *)
(* remembers which shard has which file and which xorb has which chunk     *)
(* (src/src/index.rs) and is rebuilt from the stored shards at every start *)
(* and files are read back from all that (src/src/reconstruction_io.rs).   *)
(* A conversion registers its shard without validating it and deletes the  *)
(* raw blob, so what it builds has to pass the checks of later readers.    *)
(* Every handler is one step here: CasServer has their interleavings.      *)
(***************************************************************************)
EXTENDS Integers, Sequences, FiniteSets, Cdc, XorbFormat, ShardFormat

CONSTANTS
  Oids,            \* the oids that clients upload: SHA-256 or keyed BLAKE3 hashes
  MinConversion,   \* min_conversion_size
  MaxConversion,   \* max_conversion_size
  DeleteRaw,       \* delete_raw_after_conversion
  XorbUploads,     \* the xorbs that clients try to upload, valid or not
  ShardUploads,    \* the shards that clients try to upload, valid or not
  MaxXorbs,        \* bound on the stored xorbs
  MaxShards        \* bound on the stored shards

\* A list is a function on the numbers up to its length.
IsList(s) == Len(s) \in Nat /\ s = [i \in 1..Len(s) |-> s[i]]

\* What a xorb is made of, valid or not: any byte string reads this way.
Regions == [scheme : Schemes, unpacked : Nat, payload : [prefix : Nat, bytes : Seq(Byte)]]
XorbFile(x) ==
  LET n == Len(x.footer.chunk_hashes)
  IN  /\ x.regions \in Seq(Regions)
      /\ x.stray \in Nat /\ x.trailing \in Nat
      /\ IsList(x.footer.chunk_hashes)
      /\ x.footer.chunk_boundary_offsets \in [1..n -> Nat]
      /\ x.footer.unpacked_chunk_offsets \in [1..n -> Nat]
      /\ x = Xorb(x.regions, x.stray,
                  Footer(x.footer.xorb_hash, x.footer.chunk_hashes,
                         x.footer.chunk_boundary_offsets, x.footer.unpacked_chunk_offsets),
                  x.trailing)

\* What a shard is made of.  Which of the bytes in front of the footer are
\* records and which are lookup entries is what the footer makes of them: of a
\* shard that parses, the records end with the xorb section.  That is how a
\* file is written down here, and it holds of every file because the parser
\* lets nothing stand between that section and the lookups.
ShardFile(f) ==
  /\ IsList(f.records) /\ IsList(f.lookups)
  /\ \A i \in 1..Len(f.records) :
       LET r == f.records[i] IN r.a \in Nat /\ r.b \in Nat /\ r.c \in Nat /\ r.d \in Nat
  /\ f.footer.file_info_offset \in Nat /\ f.footer.file_lookup_offset \in Nat
  /\ f.footer.xorb_info_offset \in Nat /\ f.footer.xorb_lookup_offset \in Nat
  /\ Parses(f) => XorbSectionEnd(f) = ShardHeaderSize + RecordSize * Len(f.records)

ASSUME StoreAssumption ==
  /\ \A x \in XorbUploads : XorbFile(x)
  /\ \A f \in ShardUploads : ShardFile(f)
  /\ \A oid \in Oids : oid[2] \in Seq(Byte) /\ oid \in {Sha256(oid[2]), Blake3(oid[2])}
  /\ MaxChunk <= MaxUnpacked   \* chunker and reader both have ChunkConfig::default
  /\ MinConversion \in Nat /\ MaxConversion \in Nat
  /\ DeleteRaw \in BOOLEAN
  /\ MaxXorbs \in Nat /\ MaxShards \in Nat

VARIABLES
  raw,            \* lfs/objects: the oids whose raw blob is stored
  xorbs,          \* xorbs/: from hash to xorb
  shards,         \* shards/: from id to shard
  file_to_shards, \* MetadataIndex: from file hash to its references
  chunk_to_xorb,  \* MetadataIndex: from raw chunk hash to its place
  todo,           \* the shards that the rebuild has not looked at
  acked           \* the oids whose upload was acknowledged

storeVars == <<raw, xorbs, shards, file_to_shards, chunk_to_xorb, todo, acked>>

ContentOf(oid) == oid[2]

Put(f, k, v) == [x \in DOMAIN f \cup {k} |-> IF x = k THEN v ELSE f[x]]
PutIfAbsent(f, k, v) == IF k \in DOMAIN f THEN f ELSE Put(f, k, v)

NoEntries == [x \in {} |-> x]
Serving == todo = {}

StoreInit ==
  /\ raw = {}
  /\ xorbs = NoEntries
  /\ shards = NoEntries
  /\ file_to_shards = NoEntries
  /\ chunk_to_xorb = NoEntries
  /\ todo = {}
  /\ acked = {}
-----------------------------------------------------------------------------
(* Reading a file back.                                                    *)

\* The chunks of a plan can be read from the stored xorbs and have the raw
\* hashes that the shard gives them.
ChunksRead(plan) ==
  \A i \in 1..Len(plan) :
    LET p == plan[i]
    IN  /\ p.xorb_hash \in DOMAIN xorbs
        /\ ChunkExtracts(xorbs[p.xorb_hash], p.start, p.unpacked, p.serialized_hash)
        /\ DataHash(ExtractedChunk(xorbs[p.xorb_hash], p.start)) = p.raw_hash

ChunkBytes(plan) ==
  [i \in 1..Len(plan) |-> ExtractedChunk(xorbs[plan[i].xorb_hash], plan[i].start)]

\* One of the three hashes of the file that the chunks make up.
HashMatches(hash, chunks) ==
  hash \in {Sha256(Concat(chunks)), Blake3(Concat(chunks)),
            FileHash([i \in 1..Len(chunks) |-> <<DataHash(chunks[i]), Len(chunks[i])>>])}

\* reconstruct_single_file_ref_to_temp succeeds.
Reconstructs(hash, ref) ==
  /\ ref.shard \in DOMAIN shards
  /\ Parses(shards[ref.shard])
  /\ LET shard == Parse(shards[ref.shard])
     IN  /\ Plans(shard, hash, ref.file_index)
         /\ ChunksRead(Plan(shard, ref.file_index))
         /\ HashMatches(hash, ChunkBytes(Plan(shard, ref.file_index)))

Reconstruction(ref) ==
  Concat(ChunkBytes(Plan(Parse(shards[ref.shard]), ref.file_index)))

\* reconstruct_verified_file_to_temp: the first reference that works.
FileReads(hash) ==
  /\ hash \in DOMAIN file_to_shards
  /\ \E i \in 1..Len(file_to_shards[hash]) : Reconstructs(hash, file_to_shards[hash][i])
FileBytes(hash) ==
  LET works == {i \in 1..Len(file_to_shards[hash]) :
                  Reconstructs(hash, file_to_shards[hash][i])}
  IN  Reconstruction(file_to_shards[hash][CHOOSE i \in works : \A j \in works : i <= j])

\* get_reconstruction answers with the xorbs of the first reference that can
\* be planned, each with the size that the shard declares.
PlannedXorbs(hash) ==
  LET refs == file_to_shards[hash]
      plans == {i \in 1..Len(refs) :
                  /\ Parses(shards[refs[i].shard])
                  /\ Plans(Parse(shards[refs[i].shard]), hash, refs[i].file_index)}
      ref == refs[CHOOSE i \in plans : \A j \in plans : i <= j]
      shard == Parse(shards[ref.shard])
      plan == Plan(shard, ref.file_index)
      named == {plan[k].xorb_hash : k \in 1..Len(plan)}
  IN  {[hash |-> shard.xorb_entries[i].xorb_hash, size |-> shard.xorb_entries[i].in_xorb] :
         i \in {k \in 1..Len(shard.xorb_entries) : shard.xorb_entries[k].xorb_hash \in named}}

\* query_chunk_dedup: where the index says a chunk is, if that xorb exists.
DedupAnswers(chunk_hash) ==
  {chunk_to_xorb[h] : h \in {k \in DOMAIN chunk_to_xorb :
                              k = chunk_hash /\ chunk_to_xorb[k].xorb \in DOMAIN xorbs}}
-----------------------------------------------------------------------------
(* Validation and registration.                                            *)

\* The shard's entry for a xorb agrees with the stored xorb.
XorbEntryValid(shard, i) ==
  LET entry == shard.xorb_entries[i]
      info == VerifiedXorbInfo(xorbs[entry.xorb_hash])
      chunks == XorbChunks(shard, i)
  IN  /\ entry.xorb_hash \in DOMAIN xorbs
      /\ VerifyXorbFromFile(xorbs[entry.xorb_hash])
      /\ info.xorb_hash = entry.xorb_hash
      /\ Len(info.chunks) = entry.num_entries
      /\ info.total_unpacked = entry.in_xorb
      /\ info.total_compressed = entry.on_disk
      /\ \A k \in 1..Len(chunks) :
           /\ chunks[k].chunk_hash = info.chunks[k].hash
           /\ chunks[k].start = info.chunks[k].start
           /\ chunks[k].unpacked = info.chunks[k].unpacked_len

\* The xorb table: no xorb twice, and no chunk entry that no xorb claims.
XorbTableValid(shard) ==
  /\ \A i, j \in 1..Len(shard.xorb_entries) :
       shard.xorb_entries[i].xorb_hash = shard.xorb_entries[j].xorb_hash => i = j
  /\ EntriesBefore(shard.xorb_entries, Len(shard.xorb_entries) + 1)
       = Len(shard.xorb_chunk_entries)
  /\ \A i \in 1..Len(shard.xorb_entries) : XorbEntryValid(shard, i)

\* Mutant: the hash of the whole file is not computed.
FileValidByChunks(shard, i) ==
  /\ Plans(shard, shard.file_entries[i].file_hash, i)
  /\ ChunksRead(Plan(shard, i))

\* A declared file reconstructs and has the declared hash.
FileValid(shard, i) ==
  LET hash == shard.file_entries[i].file_hash
  IN  /\ Plans(shard, hash, i)
      /\ ChunksRead(Plan(shard, i))
      /\ HashMatches(hash, ChunkBytes(Plan(shard, i)))

\* validate_shard_for_index.
ShardValid(shard) ==
  /\ XorbTableValid(shard)
  /\ \A i \in 1..Len(shard.file_entries) : FileValid(shard, i)

\* The chunks that some declared file has made the validation read.
ValidatedChunks(shard) ==
  {<<p.xorb_hash, p.chunk_index>> :
     p \in UNION {{Plan(shard, i)[k] : k \in 1..Len(Plan(shard, i))} :
                    i \in 1..Len(shard.file_entries)}}

\* Their lookup entries, in the order of the shard.
ValidatedLookups(shard) ==
  LET lookups == shard.chunk_lookup_entries
      read == ValidatedChunks(shard)
  IN  Concat([i \in 1..Len(lookups) |->
        IF <<lookups[i].xorb_hash, lookups[i].chunk_index>> \in read
        THEN <<lookups[i]>> ELSE << >>])

\* Mutant: every lookup entry of a valid shard is registered.
RegistrationOfAll(shard, id) ==
  [shard |-> id,
   files |-> [i \in 1..Len(shard.file_entries) |->
                [file_hash |-> shard.file_entries[i].file_hash, file_index |-> i,
                 file_size |-> Len(Concat(ChunkBytes(Plan(shard, i))))]],
   chunks |-> shard.chunk_lookup_entries]

\* The registration that validation makes: of the lookup entries, those of
\* chunks it has read.
Registration(shard, id) ==
  [shard |-> id,
   files |-> [i \in 1..Len(shard.file_entries) |->
                [file_hash |-> shard.file_entries[i].file_hash, file_index |-> i,
                 file_size |-> Len(Concat(ChunkBytes(Plan(shard, i))))]],
   chunks |-> ValidatedLookups(shard)]

\* register_verified_shard fails: a file is known with another size.
SizeConflict(reg) ==
  \E i \in 1..Len(reg.files) :
    \/ \E j \in 1..Len(reg.files) :
         /\ reg.files[i].file_hash = reg.files[j].file_hash
         /\ reg.files[i].file_size # reg.files[j].file_size
    \/ /\ reg.files[i].file_hash \in DOMAIN file_to_shards
       /\ file_to_shards[reg.files[i].file_hash][1].file_size # reg.files[i].file_size

\* Mutant: the first reference to a file is kept, and the others are not added.
AddFirstRef(map, id, f) ==
  PutIfAbsent(map, f.file_hash,
    <<[shard |-> id, file_index |-> f.file_index, file_size |-> f.file_size]>>)

\* A reference is added unless it is there.
AddRef(map, id, f) ==
  LET refs == IF f.file_hash \in DOMAIN map THEN map[f.file_hash] ELSE << >>
      ref == [shard |-> id, file_index |-> f.file_index, file_size |-> f.file_size]
  IN  IF \E i \in 1..Len(refs) : refs[i] = ref THEN map
      ELSE Put(map, f.file_hash, Append(refs, ref))

AddRefs(map, reg) ==
  LET added[i \in 0..Len(reg.files)] ==
        IF i = 0 THEN map ELSE AddRef(added[i - 1], reg.shard, reg.files[i])
  IN  added[Len(reg.files)]

\* The last entry for a chunk hash wins.
AddPlaces(map, reg) ==
  LET added[i \in 0..Len(reg.chunks)] ==
        IF i = 0 THEN map
        ELSE Put(added[i - 1], reg.chunks[i].chunk_hash,
                 [xorb |-> reg.chunks[i].xorb_hash, index |-> reg.chunks[i].chunk_index])
  IN  added[Len(reg.chunks)]

\* register_verified_shard.
Register(reg) ==
  IF SizeConflict(reg) THEN UNCHANGED <<file_to_shards, chunk_to_xorb>>
  ELSE /\ file_to_shards' = AddRefs(file_to_shards, reg)
       /\ chunk_to_xorb' = AddPlaces(chunk_to_xorb, reg)
-----------------------------------------------------------------------------
(* Handlers.                                                               *)

\* upload_lfs_object.
UploadBlob(oid) ==
  /\ Serving
  /\ raw' = raw \cup {oid}
  /\ acked' = acked \cup {oid}
  /\ UNCHANGED <<xorbs, shards, file_to_shards, chunk_to_xorb, todo>>

\* upload_xorb, with the hash the client asks for in the path.
UploadXorb(x) ==
  /\ Serving
  /\ VerifyXorbFromFile(x)
  /\ xorbs' = PutIfAbsent(xorbs, x.footer.xorb_hash, x)
  /\ UNCHANGED <<raw, shards, file_to_shards, chunk_to_xorb, todo, acked>>

\* upload_shard.
UploadShard(f) ==
  /\ Serving
  /\ Parses(f)
  /\ ShardValid(Parse(f))
  /\ shards' = PutIfAbsent(shards, ShardHash(f), f)
  /\ Register(Registration(Parse(f), ShardHash(f)))
  /\ UNCHANGED <<raw, xorbs, todo, acked>>

\* The xorb that a conversion builds of a content.
ConvertedXorb(content, scheme) == BuildXorb(AddChunks(scheme, ChunkData(content)))

\* The chunk entries that convert writes to the shard: xorb_offset is a u32
\* of its own, beside the builder's.
ConvertedEntries(x) ==
  [i \in 1..Len(x.regions) |->
     [chunk_hash |-> RegionHash(x.regions[i]),
      start |-> U32(RegionStart(x, i)),
      unpacked |-> U32(x.regions[i].unpacked)]]

\* The shard of a converted file: one xorb, one file, one segment; its sizes
\* are u32.
ConvertedShard(oid, x) ==
  LET pieces == ChunkData(ContentOf(oid))
      hash == x.footer.xorb_hash
      raw_hashes == [i \in 1..Len(pieces) |-> DataHash(pieces[i])]
      info == VerifiedXorbInfo(x)
      segment == [xorb_hash |-> hash, start |-> 0, end |-> Len(pieces),
                  unpacked |-> U32(info.total_unpacked)]
  IN  BuildShard(<<[file_hash |-> oid, segments |-> <<segment>>]>>,
                 <<[xorb_hash |-> hash, chunks |-> ConvertedEntries(x),
                    in_xorb |-> U32(info.total_unpacked),
                    on_disk |-> U32(info.total_compressed)]>>,
                 LookupsOf(hash, raw_hashes))

\* The registration that convert makes, without a validation.
ConvertedRegistration(oid, x, f) ==
  [shard |-> ShardHash(f),
   files |-> <<[file_hash |-> oid, file_index |-> 1, file_size |-> Len(ContentOf(oid))]>>,
   chunks |-> f.lookups]

\* ConversionPipeline::convert, under the scheme that the server is configured
\* for at that time (a restart may change it between any two conversions).
\* XorbBuilder::build refuses a xorb that verify_xorb does, before anything
\* is stored; ShardBuilder::build refuses a shard that does not parse, when
\* the xorb is there already.
Convert(oid, scheme) ==
  LET x == ConvertedXorb(ContentOf(oid), scheme)
      f == ConvertedShard(oid, x)
      reg == ConvertedRegistration(oid, x, f)
  IN  /\ Serving
      /\ oid \in raw
      /\ Len(ContentOf(oid)) \in MinConversion..MaxConversion
      /\ VerifyXorb(x)
      /\ xorbs' = PutIfAbsent(xorbs, x.footer.xorb_hash, x)
      /\ IF Parses(f)
         THEN /\ shards' = Put(shards, ShardHash(f), f)
              /\ Register(reg)
              /\ raw' = IF DeleteRaw /\ ~SizeConflict(reg) THEN raw \ {oid} ELSE raw
         ELSE UNCHANGED <<shards, file_to_shards, chunk_to_xorb, raw>>
      /\ UNCHANGED <<todo, acked>>

\* The server goes down and comes up; the index is empty.
Restart ==
  /\ file_to_shards' = NoEntries
  /\ chunk_to_xorb' = NoEntries
  /\ todo' = DOMAIN shards
  /\ UNCHANGED <<raw, xorbs, shards, acked>>

\* rebuild_from_storage looks at one shard; one that is found bad is skipped.
\* That the shard or its xorbs cannot be read, or that the task fails, is in
\* CasServer (its failures and readiness) and not here.
RebuildShard(id) ==
  /\ id \in todo
  /\ todo' = todo \ {id}
  /\ IF Parses(shards[id]) /\ ShardValid(Parse(shards[id]))
     THEN Register(Registration(Parse(shards[id]), id))
     ELSE UNCHANGED <<file_to_shards, chunk_to_xorb>>
  /\ UNCHANGED <<raw, xorbs, shards, acked>>

Bounded ==
  /\ Cardinality(DOMAIN xorbs') <= MaxXorbs
  /\ Cardinality(DOMAIN shards') <= MaxShards

StoreNext ==
  \/ \E oid \in Oids : UploadBlob(oid)
  \/ \E oid \in Oids, s \in Schemes : Convert(oid, s) /\ Bounded
  \/ \E x \in XorbUploads : UploadXorb(x) /\ Bounded
  \/ \E f \in ShardUploads : UploadShard(f) /\ Bounded
  \/ Restart
  \/ \E id \in DOMAIN shards : RebuildShard(id)

StoreSpec == StoreInit /\ [][StoreNext]_storeVars
-----------------------------------------------------------------------------
\* The types of the variables, and the keys the objects are stored under.
StoreTypeOK ==
  /\ raw \subseteq Oids
  /\ acked \subseteq Oids
  /\ \A h \in DOMAIN xorbs : xorbs[h].footer.xorb_hash = h
  /\ \A id \in DOMAIN shards : ShardHash(shards[id]) = id
  /\ \A h \in DOMAIN file_to_shards : file_to_shards[h] # << >>
  /\ todo \subseteq DOMAIN shards

\* A blob whose upload was acknowledged is served byte for byte by a server
\* that has finished its rebuild: from the raw blob, or put together from
\* what the conversion has made of it, with any compression scheme and after
\* any restart.
AckedReadable ==
  Serving => \A oid \in acked \ raw : FileReads(oid) /\ FileBytes(oid) = ContentOf(oid)

\* Every reference in the index reconstructs, not just the first of a file,
\* to as many bytes as the index says: what the registration was checked for
\* still holds when the file is read, and a conversion that was not checked
\* would have passed.
IndexReconstructs ==
  \A h \in DOMAIN file_to_shards : \A i \in 1..Len(file_to_shards[h]) :
    /\ Reconstructs(h, file_to_shards[h][i])
    /\ Len(Reconstruction(file_to_shards[h][i])) = file_to_shards[h][i].file_size

\* A rebuild that can read its storage brings back every stored shard: none is
\* found bad and none conflicts with another, so that the index then has the
\* files of all of them.
RebuildComplete ==
  Serving => \A id \in DOMAIN shards :
    \A i \in 1..Len(Parse(shards[id]).file_entries) :
      LET h == Parse(shards[id]).file_entries[i].file_hash
      IN  /\ h \in DOMAIN file_to_shards
          /\ \E k \in 1..Len(file_to_shards[h]) :
               file_to_shards[h][k].shard = id /\ file_to_shards[h][k].file_index = i

\* An answer to a deduplication query is true: the chunk that it names is in
\* that xorb, at that index, and can be decompressed to bytes with that hash
\* (a client that trusts it does not upload the bytes).
DedupTrue ==
  \A h \in DOMAIN chunk_to_xorb : \A place \in DedupAnswers(h) :
    LET x == xorbs[place.xorb]
    IN  /\ place.index < Len(x.regions)
        /\ LET r == x.regions[place.index + 1]
           IN  /\ Decompresses(r.scheme, r.payload, r.unpacked)
               /\ DataHash(Decompress(r.scheme, r.payload)) = h

\* The answer of get_reconstruction is complete and true: it names all the
\* xorbs that the file needs, they are stored, and the sizes are those of their
\* unpacked contents.
FetchInfoTrue ==
  \A h \in DOMAIN file_to_shards :
    /\ \A entry \in PlannedXorbs(h) :
         /\ entry.hash \in DOMAIN xorbs
         /\ entry.size = UnpackedBefore(xorbs[entry.hash], Len(xorbs[entry.hash].regions) + 1)
    /\ FileReads(h) => \E i \in 1..Len(file_to_shards[h]) :
         LET ref == file_to_shards[h][i]
             plan == Plan(Parse(shards[ref.shard]), ref.file_index)
         IN  {entry.hash : entry \in PlannedXorbs(h)} = {plan[k].xorb_hash : k \in 1..Len(plan)}

\* What the server tells its clients about stored chunks is true.
AnswersTrue == DedupTrue /\ FetchInfoTrue

\* A xorb hash determines the object ("Same hash = same content, so
\* concurrent uploads are idempotent", upload_xorb): whatever upload would
\* be accepted under the hash of a stored xorb is that xorb.
XorbHashBinds ==
  \A x \in XorbUploads :
    VerifyXorbFromFile(x) /\ x.footer.xorb_hash \in DOMAIN xorbs
      => xorbs[x.footer.xorb_hash] = x

\* Every stored xorb passes the full verification: XorbBuilder "Assembles raw
\* data chunks into a valid xorb binary format", and uploads were verified.
StoredXorbsValid == \A h \in DOMAIN xorbs : VerifyXorbFromFile(xorbs[h])

\* A stored shard has no record that its parse does not account for: built
\* again from what was parsed, it has as many records, in the same order, with
\* the same hashes and counts.  (The parse ignores flags and reserved bytes.)
ShardTiles ==
  \A id \in DOMAIN shards :
    LET f == shards[id]
        s == Parse(f)
        files == [i \in 1..Len(s.file_entries) |->
                    [file_hash |-> s.file_entries[i].file_hash, segments |-> Segments(s, i)]]
        entries == [i \in 1..Len(s.xorb_entries) |->
                      [xorb_hash |-> s.xorb_entries[i].xorb_hash,
                       chunks |-> XorbChunks(s, i),
                       in_xorb |-> s.xorb_entries[i].in_xorb,
                       on_disk |-> s.xorb_entries[i].on_disk]]
    IN  Mapped(LAMBDA r : <<r.h, r.b>>, FileRecords(files) \o XorbRecords(entries))
          = Mapped(LAMBDA r : <<r.h, r.b>>, f.records)

\* A stored object is what it is stored as: of a xorb to the last byte, of a
\* shard to the last record that is read.
ObjectsBound == StoreTypeOK /\ XorbHashBinds /\ ShardTiles
=============================================================================
