--------------------------- MODULE MCContentStore ---------------------------
(***************************************************************************)
(* Contents, and the xorbs and shards that clients try to upload: honest   *)
(* ones, ones that use part of a xorb or several of them, and ones with    *)
(* any one field changed.                                                  *)
(***************************************************************************)
EXTENDS ContentStore

\* A boundary is at a one that follows a one.
MCMatch(s) == Len(s) >= 2 /\ s[Len(s)] = 1 /\ s[Len(s) - 1] = 1

\* A group of the tree ends at a chunk of two distinct bytes, or at a node.
MCNaturalCut(h) == h[1] = "node"

\* Runs are compressed.
MCLz4Len(s) == 1 + Cardinality({i \in 2..Len(s) : s[i] # s[i - 1]})

\* Two chunks; four equal chunks; one chunk more than a xorb may have.
Two == <<0, 1, 1, 0, 1, 0, 1, 0>>
Four == <<0, 1, 1, 0, 1, 1, 0, 1, 1, 0, 1, 1>>
Five == Four \o <<0, 1, 1>>

\* More bytes than a word counts, in chunks that are compressed to a third.
Zeros == [i \in 1..24 |-> 0]
MCWrapOids == {Sha256(Zeros), Sha256(Two)}

MCOids == {Sha256(Two), Blake3(Four), Sha256(Five)}

\* The xorb of a content.
XorbOf(s, content) == BuildXorb(AddChunks(s, ChunkData(content)))

\* A xorb of given regions with the footer that the checks expect.
Sealed(regions) ==
  LET n == Len(regions)
      open == Xorb(regions, 0, 0, 0)
      hashes == [i \in 1..n |-> RegionHash(regions[i])]
  IN  Xorb(regions, 0,
        Footer(XorbHash([i \in 1..n |-> <<hashes[i], RegionLen(regions[i])>>]), hashes,
               [i \in 1..n |-> RegionStart(open, i + 1)],
               [i \in 1..n |-> UnpackedBefore(open, i)]), 0)

\* Its second chunk cannot be decompressed: the header lies about its size.
Lying ==
  LET x == XorbOf("lz4", Two)
  IN  Sealed([x.regions EXCEPT ![2].unpacked = @ + 1])

\* One field of a xorb changed.
TamperedXorbs(x) ==
  LET f == x.footer
      n == Len(f.chunk_hashes)
  IN  {[x EXCEPT !.stray = 1], [x EXCEPT !.trailing = 1],
       [x EXCEPT !.footer.xorb_hash = <<"sha256", Two>>],
       [x EXCEPT !.regions = SubSeq(@, 1, n - 1)],
       [x EXCEPT !.footer.chunk_hashes = SubSeq(@, 1, n - 1)],
       [x EXCEPT !.footer.chunk_hashes = [i \in 1..n |-> f.chunk_hashes[n + 1 - i]]]}
      \cup {[x EXCEPT !.footer.chunk_boundary_offsets[i] = @ + 1] : i \in 1..n}
      \cup {[x EXCEPT !.footer.unpacked_chunk_offsets[i] = @ + 1] : i \in 1..n}

MCXorbUploads ==
  {x \in {XorbOf("lz4", Two), XorbOf("none", Four), Lying}
            \cup TamperedXorbs(XorbOf("lz4", Two)) :
     VerifyXorbFromFile(x)}

\* The description of a xorb in a shard.
EntryOf(x) ==
  [xorb_hash |-> x.footer.xorb_hash,
   chunks |-> [i \in 1..Len(x.regions) |->
                 [chunk_hash |-> RegionHash(x.regions[i]), start |-> RegionStart(x, i),
                  unpacked |-> x.regions[i].unpacked]],
   in_xorb |-> UnpackedBefore(x, Len(x.regions) + 1),
   on_disk |-> SumSeq([i \in 1..Len(x.regions) |-> PayloadLen(x.regions[i])])]

\* The chunks of a xorb from one to another, as a segment of a file.
SegmentOf(x, from, to) ==
  [xorb_hash |-> x.footer.xorb_hash, start |-> from, end |-> to,
   unpacked |-> UnpackedBefore(x, to + 1) - UnpackedBefore(x, from + 1)]

RawHashes(content) ==
  [i \in 1..Len(ChunkData(content)) |-> DataHash(ChunkData(content)[i])]
NodesOf(content) ==
  [i \in 1..Len(ChunkData(content)) |->
     <<DataHash(ChunkData(content)[i]), Len(ChunkData(content)[i])>>]

\* One file of the first chunk of a xorb of two; the other chunk is there,
\* with a raw hash in the lookup section, but no file uses it.
PartShard(x, second) ==
  BuildShard(<<[file_hash |-> Sha256(SubSeq(Two, 1, 3)), segments |-> <<SegmentOf(x, 0, 1)>>]>>,
             <<EntryOf(x)>>,
             LookupsOf(x.footer.xorb_hash, <<RawHashes(Two)[1], second>>))

\* Two files, one of them made of chunks of two xorbs.
TwoFileShard ==
  LET x == XorbOf("lz4", Two)
      y == XorbOf("none", Four)
      mixed == SubSeq(Four, 4, 12) \o SubSeq(Two, 4, 8)
  IN  BuildShard(<<[file_hash |-> FileHash(NodesOf(Two)), segments |-> <<SegmentOf(x, 0, 2)>>],
                   [file_hash |-> Blake3(mixed),
                    segments |-> <<SegmentOf(y, 1, 4), SegmentOf(x, 1, 2)>>]>>,
                 <<EntryOf(x), EntryOf(y)>>,
                 LookupsOf(x.footer.xorb_hash, RawHashes(Two))
                   \o LookupsOf(y.footer.xorb_hash, RawHashes(Four)))

\* One field of a shard changed.
TamperedShards(f) ==
  LET n == Len(f.records)
      m == Len(f.lookups)
      near(v, d) == {v - d, v + d} \cap Nat
  IN  UNION {UNION {{[f EXCEPT !.records[i].b = @ + 1]},
                    {[f EXCEPT !.records[i].a = @ + 1]},
                    {[f EXCEPT !.records[i].c = @ + 1]},
                    {[f EXCEPT !.records[i].d = @ + 1]},
                    {[f EXCEPT !.records[i].h = DataHash(Two)]}} : i \in 1..n}
      \cup UNION {{[f EXCEPT !.lookups[i].chunk_hash = DataHash(Two)],
                   [f EXCEPT !.lookups[i].chunk_index = @ + 1],
                   [f EXCEPT !.lookups[i] = f.lookups[m + 1 - i]]} : i \in 1..m}
      \cup UNION {{[f EXCEPT !.footer[k] = v] :
                      v \in near(f.footer[k], 1) \cup near(f.footer[k], 48) \cup {0}} :
                    k \in DOMAIN f.footer}
      \cup {[f EXCEPT !.records = SubSeq(@, 1, n - 1)],
            [f EXCEPT !.records = Append(@, f.records[n])],
            [f EXCEPT !.lookups = SubSeq(@, 1, m - 1)],
            [f EXCEPT !.header.version = 1]}

Bases ==
  {PartShard(XorbOf("lz4", Two), RawHashes(Two)[2]),
   PartShard(XorbOf("lz4", Two), DataHash(Four)),
   PartShard(Lying, RawHashes(Two)[2]),
   TwoFileShard}

\* A record between the xorb section and the lookup section.
Padded(f) ==
  [f EXCEPT !.records = Append(@, f.records[1]),
            !.footer.chunk_lookup_offset = @ + RecordSize,
            !.footer.footer_offset = @ + RecordSize]

\* A shard that does not parse is refused, and one that parses like another
\* behaves like it: of the changed ones, those that make a difference.
MCShardUploads ==
  LET part == PartShard(XorbOf("lz4", Two), RawHashes(Two)[2])
  IN  {f \in Bases \cup {Padded(part)} : Parses(f)}
        \cup {f \in TamperedShards(part) \cup TamperedShards(TwoFileShard) :
                Parses(f) /\ \A b \in Bases : Parse(f) # Parse(b)}
=============================================================================
