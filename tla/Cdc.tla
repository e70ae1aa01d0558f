-------------------------------- MODULE Cdc --------------------------------
(***************************************************************************)
(* Content-defined chunking, src/src/chunking/cdc.rs: where the one-shot   *)
(* chunker, Chunker::chunk_data, cuts a sequence of bytes.  Offsets count  *)
(* the bytes in front, as in the code; the byte at offset o is data[o+1].  *)
(***************************************************************************)
EXTENDS Integers, Sequences

CONSTANTS
  Byte,       \* what a byte may be
  MinChunk,   \* ChunkConfig::min_chunk_size
  MaxChunk,   \* ChunkConfig::max_chunk_size
  Window,     \* hasher_window_size + 1: the bytes skipped by the search end
              \* this far in front of the minimum
  Match(_)    \* does the hash of the bytes since the last reset match the mask

ASSUME CdcAssumption ==
  /\ MinChunk \in Nat \ {0}
  /\ MaxChunk \in Nat
  /\ MinChunk <= MaxChunk
  /\ Window \in Nat \ {0}

\* usize::min
Lesser(a, b) == IF a <= b THEN a ELSE b

\* Mutant: a chunk is not extended to the minimum.
GreaterDropped(a, b) == a

\* usize::max
Greater(a, b) == IF a >= b THEN a ELSE b

\* min_chunk.saturating_sub(hasher_window_size + 1)
SearchSkip == IF MinChunk > Window THEN MinChunk - Window ELSE 0

\* gearhash::Hasher::next_match: one past the first byte at which the hash
\* matches, or 0 for None.
NextMatch(s) ==
  LET hits == {i \in 1..Len(s) : Match(SubSeq(s, 1, i))}
  IN  IF hits = {} THEN 0 ELSE CHOOSE i \in hits : \A j \in hits : i <= j

\* The size of the chunk that chunk_data cuts off at an offset.
ChunkSize(data, offset) ==
  LET remaining == Len(data) - offset
      start == offset + SearchSkip
      end == Lesser(offset + MaxChunk, Len(data))
      pos == NextMatch(SubSeq(data, start + 1, end))
      size == IF pos = 0 THEN end - offset ELSE start + pos - offset
  IN  IF remaining < MinChunk \/ start >= Len(data) \/ start >= end
      THEN remaining
      ELSE Greater(size, Lesser(MinChunk, remaining))

\* The chunks of the data from an offset on, as sequences of bytes.
ChunksFrom(data) ==
  LET from[offset \in 0..Len(data)] ==
        IF offset = Len(data) THEN << >>
        ELSE LET next == offset + ChunkSize(data, offset)
             IN  <<SubSeq(data, offset + 1, next)>> \o from[next]
  IN  from

\* Chunker::chunk_data.
ChunkData(data) == ChunksFrom(data)[0]
=============================================================================
