---------------------------- MODULE ShardFormat ----------------------------
(***************************************************************************)
(* The shard: src/src/format/{shard,shard_builder}.rs, and the plan that   *)
(* src/src/reconstruction_plan.rs makes from one.  A shard is a header,    *)
(* 48-byte records, 68-byte lookup entries and a footer.  The four kinds   *)
(* of record have one layout, a hash and four numbers, and it is only the  *)
(* footer's offsets and the records' own counts that tell what a record    *)
(* is read as.  With fewer than 12 lookup entries no number of them is as  *)
(* long as a number of records (68 * 12 = 48 * 17), so that a section      *)
(* that does not end at a record boundary is always refused.               *)
(***************************************************************************)
EXTENDS Integers, Sequences, MerkleTree

ShardHeaderSize == 48
RecordSize == 48
LookupSize == 68
ShardFooterSize == 208

\* MDBShardFileHeader::default.
ShardHeader == [tag |-> "MDB", version |-> 2, footer_size |-> ShardFooterSize]

\* A record, and what each kind of record keeps in it.
Record(h, a, b, c, d) == [h |-> h, a |-> a, b |-> b, c |-> c, d |-> d]
FileHeader(file_hash, n) == Record(file_hash, 0, n, 0, 0)
FileEntry(s) == Record(s.xorb_hash, 0, s.unpacked, s.start, s.end)
XorbHeader(x) == Record(x.xorb_hash, 0, Len(x.chunks), x.in_xorb, x.on_disk)
XorbEntry(c) == Record(c.chunk_hash, c.start, c.unpacked, 0, 0)

\* The same the other way round, for the parser.
ReadFileHeader(r) == [file_hash |-> r.h, num_entries |-> r.b]
ReadFileEntry(r) == [xorb_hash |-> r.h, unpacked |-> r.b, start |-> r.c, end |-> r.d]
ReadXorbHeader(r) ==
  [xorb_hash |-> r.h, num_entries |-> r.b, in_xorb |-> r.c, on_disk |-> r.d]
ReadXorbEntry(r) == [chunk_hash |-> r.h, start |-> r.a, unpacked |-> r.b]

\* ChunkLookupEntry.
Lookup(chunk_hash, xorb_hash, index) ==
  [chunk_hash |-> chunk_hash, xorb_hash |-> xorb_hash, chunk_index |-> index]

\* The concatenation of a sequence of sequences.
Concat(ss) ==
  LET upto[i \in 0..Len(ss)] == IF i = 0 THEN << >> ELSE upto[i - 1] \o ss[i]
  IN  upto[Len(ss)]

Mapped(Op(_), s) == [i \in 1..Len(s) |-> Op(s[i])]
-----------------------------------------------------------------------------
(* ShardBuilder.                                                           *)

\* add_xorb_with_raw_chunk_hashes adds one lookup entry per chunk.
LookupsOf(xorb_hash, raw_hashes) ==
  [i \in 1..Len(raw_hashes) |-> Lookup(raw_hashes[i], xorb_hash, i - 1)]

\* The records of the file section and of the xorb section.
FileRecords(files) ==
  Concat([i \in 1..Len(files) |->
    <<FileHeader(files[i].file_hash, Len(files[i].segments))>>
      \o Mapped(FileEntry, files[i].segments)])
XorbRecords(xorbs) ==
  Concat([i \in 1..Len(xorbs) |->
    <<XorbHeader(xorbs[i])>> \o Mapped(XorbEntry, xorbs[i].chunks)])

\* The footer's offsets and counts; an empty section has offset 0.
BuildFooter(files, xorbs, lookups) ==
  LET xorb_at == ShardHeaderSize + RecordSize * Len(FileRecords(files))
      lookup_at == xorb_at + RecordSize * Len(XorbRecords(xorbs))
      footer_at == lookup_at + LookupSize * Len(lookups)
      given(s, offset) == IF s = << >> THEN 0 ELSE offset
  IN  [version |-> 2,
       file_info_offset |-> given(files, ShardHeaderSize),
       file_lookup_offset |-> given(files, xorb_at),
       file_lookup_num_entry |-> Len(files),
       xorb_info_offset |-> given(xorbs, xorb_at),
       xorb_lookup_offset |-> given(xorbs, lookup_at),
       xorb_lookup_num_entry |-> Len(xorbs),
       chunk_lookup_offset |-> given(lookups, lookup_at),
       chunk_lookup_num_entry |-> Len(lookups),
       footer_offset |-> footer_at]

\* build, without its parse of the result.
BuildShard(files, xorbs, lookups) ==
  [header |-> ShardHeader,
   records |-> FileRecords(files) \o XorbRecords(xorbs),
   lookups |-> lookups,
   footer |-> BuildFooter(files, xorbs, lookups)]
-----------------------------------------------------------------------------
(* MDBShardFile::parse_reader.                                             *)

\* Where the footer physically is.
ShardFooterStart(f) ==
  ShardHeaderSize + RecordSize * Len(f.records) + LookupSize * Len(f.lookups)

HeaderParses(f) ==
  /\ f.header = ShardHeader
  /\ f.footer.version = f.header.version
  /\ f.footer.footer_offset = ShardFooterStart(f)

\* The number of the record at an offset.
RecordAt(offset) == (offset - ShardHeaderSize) \div RecordSize + 1

\* parse_file_section and parse_xorb_section: the offsets of the headers of
\* a section, with a 0 among them when a record does not fit.
SectionHeaders(f, start, end) ==
  LET walk[p \in start..end] ==
        LET n == RecordAt(p)
            next == p + RecordSize + RecordSize * f.records[n].b
        IN  IF p = end THEN << >>
            ELSE IF p + RecordSize > end \/ n > Len(f.records) THEN <<0>>
            ELSE IF next > end THEN <<0>>
            ELSE <<p>> \o walk[next]
  IN  walk[start]

\* The headers of a section and all its entries.
Headers(f, at) == [i \in 1..Len(at) |-> f.records[RecordAt(at[i])]]
Entries(f, at) ==
  Concat([i \in 1..Len(at) |->
    SubSeq(f.records, RecordAt(at[i]) + 1, RecordAt(at[i]) + f.records[RecordAt(at[i])].b)])

\* One of the two sections: absent, or from the next offset to the one the
\* footer names, with as many headers as the footer says.
SectionParses(f, info, lookup, num, next_offset) ==
  IF info = 0 THEN lookup = 0 /\ num = 0
  ELSE /\ info = next_offset
       /\ info <= lookup /\ lookup <= ShardFooterStart(f)
       /\ \A i \in 1..Len(SectionHeaders(f, info, lookup)) :
            SectionHeaders(f, info, lookup)[i] # 0
       /\ Len(SectionHeaders(f, info, lookup)) = num

SectionAt(f, info, lookup) ==
  IF info = 0 THEN << >> ELSE SectionHeaders(f, info, lookup)
SectionEnd(info, lookup, next_offset) == IF info = 0 THEN next_offset ELSE lookup

FileSectionAt(f) == SectionAt(f, f.footer.file_info_offset, f.footer.file_lookup_offset)
XorbSectionAt(f) == SectionAt(f, f.footer.xorb_info_offset, f.footer.xorb_lookup_offset)

FileSectionEnd(f) ==
  SectionEnd(f.footer.file_info_offset, f.footer.file_lookup_offset, ShardHeaderSize)
XorbSectionEnd(f) ==
  SectionEnd(f.footer.xorb_info_offset, f.footer.xorb_lookup_offset, FileSectionEnd(f))

FileSectionParses(f) ==
  SectionParses(f, f.footer.file_info_offset, f.footer.file_lookup_offset,
                f.footer.file_lookup_num_entry, ShardHeaderSize)
XorbSectionParses(f) ==
  SectionParses(f, f.footer.xorb_info_offset, f.footer.xorb_lookup_offset,
                f.footer.xorb_lookup_num_entry, FileSectionEnd(f))

\* The lookup section reaches from the end of the xorb section exactly to
\* the footer.
LookupSectionParses(f) ==
  LET offset == f.footer.chunk_lookup_offset
      num == f.footer.chunk_lookup_num_entry
      chunks == Entries(f, XorbSectionAt(f))
  IN  IF offset = 0 THEN num = 0 /\ chunks = << >> /\ XorbSectionEnd(f) = ShardFooterStart(f)
      ELSE /\ num # 0
           /\ offset = XorbSectionEnd(f)
           /\ offset + LookupSize * num = ShardFooterStart(f)
           /\ num = Len(chunks)

Parses(f) ==
  /\ HeaderParses(f)
  /\ FileSectionParses(f)
  /\ XorbSectionParses(f)
  /\ LookupSectionParses(f)

\* The parsed MDBShardFile.
Parse(f) ==
  [file_entries |-> Mapped(ReadFileHeader, Headers(f, FileSectionAt(f))),
   file_data_entries |-> Mapped(ReadFileEntry, Entries(f, FileSectionAt(f))),
   xorb_entries |-> Mapped(ReadXorbHeader, Headers(f, XorbSectionAt(f))),
   xorb_chunk_entries |-> Mapped(ReadXorbEntry, Entries(f, XorbSectionAt(f))),
   chunk_lookup_entries |-> f.lookups]

\* compute_data_hash of the whole shard: its id.
ShardHash(f) == <<"shard", f>>
-----------------------------------------------------------------------------
(* build_file_chunk_plan.                                                  *)

\* How many entries belong to the headers in front of header i.
EntriesBefore(headers, i) ==
  SumSeq([k \in 1..(i - 1) |-> headers[k].num_entries])

Segments(shard, file_index) ==
  SubSeq(shard.file_data_entries,
         EntriesBefore(shard.file_entries, file_index) + 1,
         EntriesBefore(shard.file_entries, file_index + 1))

\* The number of the shard's xorb with a hash.
XorbNumber(shard, hash) ==
  CHOOSE i \in 1..Len(shard.xorb_entries) : shard.xorb_entries[i].xorb_hash = hash

\* The chunks of the shard's xorb i, of a shard whose tables fit.
XorbChunks(shard, i) ==
  SubSeq(shard.xorb_chunk_entries,
         EntriesBefore(shard.xorb_entries, i) + 1,
         EntriesBefore(shard.xorb_entries, i + 1))

LookupsFor(shard, xorb_hash, index) ==
  {i \in 1..Len(shard.chunk_lookup_entries) :
     /\ shard.chunk_lookup_entries[i].xorb_hash = xorb_hash
     /\ shard.chunk_lookup_entries[i].chunk_index = index}

\* The xorb and the lookup tables can be used.
TablesPlan(shard) ==
  /\ \A i, j \in 1..Len(shard.xorb_entries) :
       shard.xorb_entries[i].xorb_hash = shard.xorb_entries[j].xorb_hash => i = j
  /\ EntriesBefore(shard.xorb_entries, Len(shard.xorb_entries) + 1)
       <= Len(shard.xorb_chunk_entries)
  /\ \A i, j \in 1..Len(shard.chunk_lookup_entries) :
       LET a == shard.chunk_lookup_entries[i]
           b == shard.chunk_lookup_entries[j]
       IN  a.xorb_hash = b.xorb_hash /\ a.chunk_index = b.chunk_index => i = j

\* A segment names chunks that its xorb has, each with a raw hash, and their
\* sizes add up to the segment's (the sum is a u64, the segment's a u32).
SegmentPlans(shard, s) ==
  /\ s.start <= s.end
  /\ \E i \in 1..Len(shard.xorb_entries) : shard.xorb_entries[i].xorb_hash = s.xorb_hash
  /\ LET chunks == XorbChunks(shard, XorbNumber(shard, s.xorb_hash))
     IN  /\ s.end <= Len(chunks)
         /\ \A k \in s.start..(s.end - 1) : LookupsFor(shard, s.xorb_hash, k) # {}
         /\ SumSeq([k \in 1..(s.end - s.start) |-> chunks[s.start + k].unpacked])
              = s.unpacked

\* build_file_chunk_plan succeeds for the file with a number and a hash.
Plans(shard, file_hash, file_index) ==
  /\ file_index <= Len(shard.file_entries)
  /\ shard.file_entries[file_index].file_hash = file_hash
  /\ EntriesBefore(shard.file_entries, file_index + 1) <= Len(shard.file_data_entries)
  /\ TablesPlan(shard)
  /\ \A i \in 1..Len(Segments(shard, file_index)) :
       SegmentPlans(shard, Segments(shard, file_index)[i])

\* The planned chunks of a segment, and of a file.
PlannedChunks(shard, s) ==
  [k \in 1..(s.end - s.start) |->
     LET chunk == XorbChunks(shard, XorbNumber(shard, s.xorb_hash))[s.start + k]
         index == s.start + k - 1
         lookup == CHOOSE l \in LookupsFor(shard, s.xorb_hash, index) : TRUE
     IN  [xorb_hash |-> s.xorb_hash,
          chunk_index |-> index,
          start |-> chunk.start,
          unpacked |-> chunk.unpacked,
          serialized_hash |-> chunk.chunk_hash,
          raw_hash |-> shard.chunk_lookup_entries[lookup].chunk_hash]]

Plan(shard, file_index) ==
  LET segments == Segments(shard, file_index)
  IN  Concat([i \in 1..Len(segments) |-> PlannedChunks(shard, segments[i])])
=============================================================================
