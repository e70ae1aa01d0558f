----------------------------- MODULE XorbFormat -----------------------------
(***************************************************************************)
(* The xorb: src/src/format/{xorb,xorb_builder,compression}.rs and         *)
(* src/src/xorb_reader.rs.  The bytes in front of the footer are a         *)
(* sequence of regions, each a chunk header with the payload whose length  *)
(* it declares, and then `stray` bytes that no header accounts for; any    *)
(* byte string reads that way.  `trailing` bytes follow the footer.        *)
(***************************************************************************)
EXTENDS Integers, Sequences, MerkleTree

CONSTANTS
  Word,            \* 2^32: what a u32 wraps at
  HeaderSize,      \* XorbChunkHeader::SIZE
  MaxChunks,       \* MAX_CHUNKS_PER_XORB
  MaxUnpacked,     \* ChunkConfig::max_chunk_size, for the reader
  Lz4Len(_)        \* the length of what LZ4 makes of a sequence of bytes

ASSUME XorbAssumption ==
  /\ Word \in Nat \ {0}
  /\ HeaderSize \in Nat \ {0}
  /\ MaxChunks \in Nat
  /\ MaxUnpacked \in Nat

Schemes == {"none", "lz4", "bg4"}

\* A sum in a u32 of a release build.
U32(n) == n % Word
-----------------------------------------------------------------------------
(* Compression.                                                            *)

\* The positions of each group of four, one group after the other.
Bg4Order(len) ==
  LET group(g) == [i \in 1..((len - g + 3) \div 4) |-> 4 * (i - 1) + g + 1]
  IN  group(0) \o group(1) \o group(2) \o group(3)

Bg4Split(data) ==
  [k \in 1..Len(data) |-> data[Bg4Order(Len(data))[k]]]

\* Every group's positions are filled from the data in order.
Bg4Regroup(data) ==
  LET before(g) == SumSeq([k \in 1..g |-> (Len(data) - (k - 1) + 3) \div 4])
  IN  [p \in 1..Len(data) |->
         data[before((p - 1) % 4) + (p - 1) \div 4 + 1]]

\* LZ4 with the decompressed size in front; the first field is not there in
\* an uncompressed payload.
Compress(scheme, data) ==
  CASE scheme = "none" -> [prefix |-> 0, bytes |-> data]
    [] scheme = "lz4" -> [prefix |-> Len(data), bytes |-> data]
    [] scheme = "bg4" -> [prefix |-> Len(data), bytes |-> Bg4Split(data)]

CompressedLen(scheme, payload) ==
  IF scheme = "none" THEN Len(payload.bytes) ELSE Lz4Len(payload.bytes)

\* decompress, with check_lz4_prefix; lz4_flex yields as many bytes as the
\* prefix says or fails.
Decompresses(scheme, payload, original_size) ==
  /\ scheme # "none" => payload.prefix = original_size
  /\ Len(payload.bytes) = original_size

Decompress(scheme, payload) ==
  IF scheme = "bg4" THEN Bg4Regroup(payload.bytes) ELSE payload.bytes
-----------------------------------------------------------------------------
(* Regions and footer.                                                     *)

\* A serialized chunk: header fields and payload.
Region(scheme, unpacked, payload) ==
  [scheme |-> scheme, unpacked |-> unpacked, payload |-> payload]

PayloadLen(r) == CompressedLen(r.scheme, r.payload)
RegionLen(r) == HeaderSize + PayloadLen(r)

\* compute_data_hash of the header and the payload.
RegionHash(r) == <<"chunk", r>>

\* XorbObjectInfoV1.
Footer(hash, hashes, boundaries, unpacked) ==
  [xorb_hash |-> hash, chunk_hashes |-> hashes,
   chunk_boundary_offsets |-> boundaries, unpacked_chunk_offsets |-> unpacked]

Xorb(regions, stray, footer, trailing) ==
  [regions |-> regions, stray |-> stray, footer |-> footer, trailing |-> trailing]

\* Where a region of a xorb starts, and where its footer starts.
RegionStart(x, i) == SumSeq([k \in 1..(i - 1) |-> RegionLen(x.regions[k])])
FooterStart(x) == RegionStart(x, Len(x.regions) + 1) + x.stray

\* serialized_len_for_num_chunks, and the length of the whole file.
FooterLen(n) == 60 + 40 * n
FileLen(x) == FooterStart(x) + FooterLen(Len(x.footer.chunk_hashes)) + x.trailing

\* The hash of the bytes from `start` to `end`, which are a region only when
\* both are where a region starts and ends.
SpanHash(x, start, end) ==
  IF \E i \in 1..Len(x.regions) :
       RegionStart(x, i) = start /\ RegionStart(x, i + 1) = end
  THEN RegionHash(x.regions[CHOOSE i \in 1..Len(x.regions) :
         RegionStart(x, i) = start /\ RegionStart(x, i + 1) = end])
  ELSE <<"span", start, end>>

\* Where the chunk in front of chunk i ends, by the footer.
FooterEnd(x, i) == IF i = 0 THEN 0 ELSE x.footer.chunk_boundary_offsets[i]

\* XorbObjectInfoV1::from_bytes refuses a footer of too many chunks.
FooterReads(x) == Len(x.footer.chunk_hashes) <= MaxChunks

\* The xorb hash is that of the chunk hashes with the serialized lengths.
ComputedXorbHash(x) ==
  XorbHash([i \in 1..Len(x.footer.chunk_hashes) |->
              <<x.footer.chunk_hashes[i], FooterEnd(x, i) - FooterEnd(x, i - 1)>>])

\* Mutant: verify_xorb does not parse the footer with its limit.
VerifyXorbUnlimited(x) ==
  /\ \A i \in 1..Len(x.footer.chunk_hashes) :
       SpanHash(x, FooterEnd(x, i - 1), FooterEnd(x, i)) = x.footer.chunk_hashes[i]
  /\ ComputedXorbHash(x) = x.footer.xorb_hash

\* verify_xorb, which build uses: no header, unpacked offset or byte outside
\* the chunks is looked at.
VerifyXorb(x) ==
  /\ FooterReads(x)
  /\ \A i \in 1..Len(x.footer.chunk_hashes) :
       /\ FooterEnd(x, i) <= FileLen(x)
       /\ FooterEnd(x, i) >= FooterEnd(x, i - 1)
       /\ SpanHash(x, FooterEnd(x, i - 1), FooterEnd(x, i)) = x.footer.chunk_hashes[i]
  /\ ComputedXorbHash(x) = x.footer.xorb_hash

\* The unpacked bytes in front of chunk i, by the headers (a u64).
UnpackedBefore(x, i) == SumSeq([k \in 1..(i - 1) |-> x.regions[k].unpacked])

\* Mutant: the unpacked offsets of the footer are not compared with the
\* headers, as in verify_xorb.
VerifyXorbFromFileLoosely(x) ==
  /\ FooterReads(x)
  /\ FooterStart(x) + FooterLen(Len(x.footer.chunk_hashes)) = FileLen(x)
  /\ \A i \in 1..Len(x.footer.chunk_hashes) :
       /\ i <= Len(x.regions)
       /\ FooterEnd(x, i) - FooterEnd(x, i - 1) = RegionLen(x.regions[i])
       /\ RegionHash(x.regions[i]) = x.footer.chunk_hashes[i]
  /\ FooterEnd(x, Len(x.footer.chunk_hashes)) = FooterStart(x)
  /\ ComputedXorbHash(x) = x.footer.xorb_hash

\* verify_xorb_from_file_with_info.
VerifyXorbFromFile(x) ==
  /\ FooterReads(x)
  /\ FooterStart(x) + FooterLen(Len(x.footer.chunk_hashes)) = FileLen(x)
  /\ \A i \in 1..Len(x.footer.chunk_hashes) :
       /\ FooterEnd(x, i) <= FooterStart(x)
       /\ FooterEnd(x, i) >= FooterEnd(x, i - 1)
       /\ i <= Len(x.regions)
       /\ FooterEnd(x, i) - FooterEnd(x, i - 1) = RegionLen(x.regions[i])
       /\ x.footer.unpacked_chunk_offsets[i] = UnpackedBefore(x, i)
       /\ RegionHash(x.regions[i]) = x.footer.chunk_hashes[i]
  /\ FooterEnd(x, Len(x.footer.chunk_hashes)) = FooterStart(x)
  /\ ComputedXorbHash(x) = x.footer.xorb_hash

\* The metadata it returns: VerifiedXorbInfo.
VerifiedXorbInfo(x) ==
  [xorb_hash |-> x.footer.xorb_hash,
   chunks |-> [i \in 1..Len(x.footer.chunk_hashes) |->
                 [hash |-> x.footer.chunk_hashes[i],
                  start |-> FooterEnd(x, i - 1),
                  unpacked_len |-> x.regions[i].unpacked]],
   total_unpacked |-> UnpackedBefore(x, Len(x.regions) + 1),
   total_compressed |-> SumSeq([i \in 1..Len(x.regions) |-> PayloadLen(x.regions[i])])]
-----------------------------------------------------------------------------
(* XorbBuilder.                                                            *)

EmptyBuilder == [chunks |-> << >>, next_boundary |-> 0, next_unpacked |-> 0]

\* add_chunk: the running totals are u32.
AddChunk(b, scheme, data) ==
  LET r == Region(scheme, Len(data), Compress(scheme, data))
      boundary == U32(b.next_boundary + RegionLen(r))
  IN  [chunks |-> Append(b.chunks,
                    [region |-> r, boundary |-> boundary, unpacked |-> b.next_unpacked]),
       next_boundary |-> boundary,
       next_unpacked |-> U32(b.next_unpacked + Len(data))]

\* All chunks of a file, in order.
AddChunks(scheme, pieces) ==
  LET added[i \in 0..Len(pieces)] ==
        IF i = 0 THEN EmptyBuilder ELSE AddChunk(added[i - 1], scheme, pieces[i])
  IN  added[Len(pieces)]

\* build, without its check of the result by verify_xorb.
BuildXorb(b) ==
  LET n == Len(b.chunks)
      regions == [i \in 1..n |-> b.chunks[i].region]
      hashes == [i \in 1..n |-> RegionHash(regions[i])]
  IN  Xorb(regions, 0,
        Footer(XorbHash([i \in 1..n |-> <<hashes[i], RegionLen(regions[i])>>]),
               hashes,
               [i \in 1..n |-> b.chunks[i].boundary],
               [i \in 1..n |-> b.chunks[i].unpacked]),
        0)
-----------------------------------------------------------------------------
(* Reading one chunk.                                                      *)

\* max_compressed_len_for_chunk.
MaxCompressedLen(scheme, unpacked) ==
  IF scheme = "none" THEN unpacked ELSE unpacked + unpacked \div 255 + 20

\* The region at an offset of the file, if the offset is where one starts.
RegionsAt(x, offset) == {i \in 1..Len(x.regions) : RegionStart(x, i) = offset}

\* extract_chunk_verified_from_file succeeds.  What is read at an offset
\* that is not the start of a region does not have the expected hash.
ChunkExtracts(x, offset, unpacked, hash) ==
  /\ unpacked <= MaxUnpacked
  /\ \E i \in RegionsAt(x, offset) :
       LET r == x.regions[i]
       IN  /\ r.unpacked = unpacked
           /\ PayloadLen(r) <= MaxCompressedLen(r.scheme, unpacked)
           /\ RegionHash(r) = hash
           /\ Decompresses(r.scheme, r.payload, r.unpacked)

ExtractedChunk(x, offset) ==
  LET r == x.regions[CHOOSE i \in RegionsAt(x, offset) : TRUE]
  IN  Decompress(r.scheme, r.payload)
=============================================================================
