-------------------------- MODULE StreamingChunker --------------------------
(***************************************************************************)
(* The streaming chunker of src/src/chunking/cdc.rs, driven by the reading *)
(* loop of ConversionPipeline::convert (src/src/conversion/mod.rs).        *)
(* convert reads blocks of any size, hands each one to next_block, and     *)
(* keeps the same bytes a second time in chunk_data_buf; of a chunk that   *)
(* comes back it uses the size only, and takes that many bytes off the     *)
(* front of its own buffer.  The loops of drain_complete_chunks, finalize  *)
(* and convert are one step per round.                                     *)
(***************************************************************************)
EXTENDS Cdc

CONSTANTS
  Files,      \* the blobs that may be converted
  MaxBlock    \* the largest number of bytes one read returns

ASSUME StreamingAssumption ==
  /\ Files \subseteq Seq(Byte)
  /\ MaxBlock \in Nat \ {0}

VARIABLES
  file,           \* the blob that is read
  fed,            \* how many of its bytes have been read
  buffer,         \* StreamingChunker.buffer
  total_offset,   \* StreamingChunker.total_offset
  buf_offset,     \* local to finalize
  chunks,         \* chunks returned and not yet handled by convert
  chunk_data_buf, \* convert's own copy of the bytes
  pieces,         \* the chunk data given to XorbBuilder::add_chunk
  pc

vars == <<file, fed, buffer, total_offset, buf_offset, chunks,
          chunk_data_buf, pieces, pc>>

Init ==
  /\ file \in Files
  /\ fed = 0
  /\ buffer = << >>
  /\ total_offset = 0
  /\ buf_offset = 0
  /\ chunks = << >>
  /\ chunk_data_buf = << >>
  /\ pieces = << >>
  /\ pc = "read"

\* A read returns n bytes, which go to both buffers.
ReadBlock(n) ==
  LET block == SubSeq(file, fed + 1, fed + n)
  IN  /\ pc = "read"
      /\ fed + n <= Len(file)
      /\ fed' = fed + n
      /\ chunk_data_buf' = chunk_data_buf \o block
      /\ buffer' = buffer \o block
      /\ pc' = "drain"
      /\ UNCHANGED <<file, total_offset, buf_offset, chunks, pieces>>

\* The read fails: convert returns an error and everything is dropped.
ReadFails ==
  /\ pc = "read"
  /\ pc' = "failed"
  /\ UNCHANGED <<file, fed, buffer, total_offset, buf_offset, chunks,
                 chunk_data_buf, pieces>>

\* Mutant: a chunk is cut only when there are more bytes than a largest one.
WaitsForMore(buf) == Len(buf) <= MaxChunk

\* The loop of drain_complete_chunks stops.
Waits(buf) == Len(buf) < MinChunk \/ Len(buf) < MaxChunk

\* Mutant: the search starts at the minimum, without the window in front.
DrainSizeFromMin(buf) ==
  LET pos == NextMatch(SubSeq(buf, MinChunk + 1, MaxChunk))
  IN  IF pos = 0 THEN MaxChunk ELSE MinChunk + pos

\* The size of the chunk that drain_complete_chunks cuts off.
DrainSize(buf) ==
  LET pos == NextMatch(SubSeq(buf, SearchSkip + 1, MaxChunk))
      size == IF pos = 0 THEN MaxChunk ELSE SearchSkip + pos
  IN  Greater(size, Lesser(MinChunk, Len(buf)))

\* One round of drain_complete_chunks that finds a chunk.
DrainChunk ==
  LET size == DrainSize(buffer)
  IN  /\ pc = "drain"
      /\ ~Waits(buffer)
      /\ chunks' = Append(chunks, [offset |-> total_offset, size |-> size])
      /\ total_offset' = total_offset + size
      /\ buffer' = SubSeq(buffer, size + 1, Len(buffer))
      /\ UNCHANGED <<file, fed, buf_offset, chunk_data_buf, pieces, pc>>

DrainStops ==
  /\ pc = "drain"
  /\ Waits(buffer)
  /\ pc' = "add"
  /\ UNCHANGED <<file, fed, buffer, total_offset, buf_offset, chunks,
                 chunk_data_buf, pieces>>

\* The chunk data is cut off the front of convert's own buffer.
AddPiece ==
  LET size == Head(chunks).size
  IN  /\ pc \in {"add", "addlast"}
      /\ chunks # << >>
      /\ pieces' = Append(pieces, SubSeq(chunk_data_buf, 1, size))
      /\ chunk_data_buf' = SubSeq(chunk_data_buf, size + 1, Len(chunk_data_buf))
      /\ chunks' = Tail(chunks)
      /\ UNCHANGED <<file, fed, buffer, total_offset, buf_offset, pc>>

AddedAll ==
  /\ pc \in {"add", "addlast"}
  /\ chunks = << >>
  /\ pc' = IF pc = "add" THEN "read" ELSE "done"
  /\ UNCHANGED <<file, fed, buffer, total_offset, buf_offset, chunks,
                 chunk_data_buf, pieces>>

\* Mutant: finalize is not called.
EndOfFileUnfinalized ==
  /\ pc = "read"
  /\ fed = Len(file)
  /\ pc' = "addlast"
  /\ UNCHANGED <<file, fed, buffer, total_offset, buf_offset, chunks,
                 chunk_data_buf, pieces>>

\* A read returns no bytes: the end of the file.
EndOfFile ==
  /\ pc = "read"
  /\ fed = Len(file)
  /\ pc' = "final"
  /\ UNCHANGED <<file, fed, buffer, total_offset, buf_offset, chunks,
                 chunk_data_buf, pieces>>

\* The size of the chunk that finalize cuts off at an offset of its buffer.
FinalSize(buf, offset) ==
  LET remaining == Len(buf) - offset
      start == offset + SearchSkip
      end == Lesser(offset + MaxChunk, Len(buf))
      pos == NextMatch(SubSeq(buf, start + 1, end))
      size == IF pos = 0 THEN end - offset ELSE start + pos - offset
  IN  IF remaining < MinChunk \/ start >= Len(buf) \/ start >= end
      THEN remaining
      ELSE Greater(size, Lesser(MinChunk, remaining))

\* One round of the loop of finalize.
FinalChunk ==
  LET size == FinalSize(buffer, buf_offset)
  IN  /\ pc = "final"
      /\ buf_offset < Len(buffer)
      /\ chunks' = Append(chunks, [offset |-> total_offset + buf_offset, size |-> size])
      /\ buf_offset' = buf_offset + size
      /\ UNCHANGED <<file, fed, buffer, total_offset, chunk_data_buf, pieces, pc>>

\* finalize returns.
FinalStops ==
  /\ pc = "final"
  /\ buf_offset >= Len(buffer)
  /\ total_offset' = total_offset + Len(buffer)
  /\ buffer' = << >>
  /\ pc' = "addlast"
  /\ UNCHANGED <<file, fed, buf_offset, chunks, chunk_data_buf, pieces>>

Ended == pc \in {"done", "failed"} /\ UNCHANGED vars

Work ==
  \/ \E n \in 1..MaxBlock : ReadBlock(n)
  \/ DrainChunk
  \/ DrainStops
  \/ AddPiece
  \/ AddedAll
  \/ EndOfFile
  \/ FinalChunk
  \/ FinalStops

Next == Work \/ ReadFails \/ Ended

Spec == Init /\ [][Next]_vars

\* convert is one task, and the runtime keeps polling it while the file can
\* be read.
FairSpec == Spec /\ WF_vars(Work)
-----------------------------------------------------------------------------
\* The bytes that have become pieces.
Consumed == fed - Len(chunk_data_buf)

List == INSTANCE ChunkList WITH data <- file, offset <- Consumed, out <- pieces

\* The streaming chunker and convert's loop implement the one-shot chunker:
\* however the reads split the file, the data handed to the xorb builder is
\* cut where Chunker::chunk_data cuts the whole file ("Matches the oneshot
\* Chunker::chunk_data logic exactly", drain_complete_chunks).
ImplementsOneShot == List!ListSpec

\* The types of the variables.
TypeOK ==
  /\ file \in Files
  /\ fed \in 0..Len(file)
  /\ buffer \in Seq(Byte)
  /\ total_offset \in 0..Len(file)
  /\ buf_offset \in Nat
  /\ chunks \in Seq([offset : Nat, size : Nat])
  /\ chunk_data_buf \in Seq(Byte)
  /\ pieces \in Seq(Seq(Byte))
  /\ pc \in {"read", "drain", "add", "final", "addlast", "done", "failed"}

\* The chunker's buffer and convert's copy stay in step although each is
\* drained by other code: while blocks are read both hold the same bytes,
\* fewer than one largest chunk ("Memory usage is bounded to
\* O(max_chunk_size + block_size)").
BuffersInStep ==
  pc = "read" =>
    /\ chunk_data_buf = buffer
    /\ Len(buffer) < MaxChunk
    /\ buffer = SubSeq(file, total_offset + 1, fed)

\* Every piece but the last of the file has between MinChunk and MaxChunk
\* bytes, and the last no more than MaxChunk: the sizes that the 24-bit
\* length fields of a chunk header and the limit of
\* extract_chunk_verified_from_file count on.
PieceSizes ==
  \A i \in 1..Len(pieces) :
    /\ Len(pieces[i]) <= MaxChunk
    /\ Len(pieces[i]) >= MinChunk \/ (i = Len(pieces) /\ Consumed = Len(file))
    /\ Len(pieces[i]) > 0

\* The file has been cut up completely: nothing is left in convert's buffer
\* (the debug_assert after finalize), and the pieces are those of the one-shot
\* chunker.
CutCompletely == chunk_data_buf = << >> /\ pieces = ChunkData(file)

\* The pieces lie one behind the other in the file, from its start to where
\* convert is: no byte is lost, doubled or moved.
PiecesTile ==
  \E cut \in Seq(Nat) :
    /\ Len(cut) = Len(pieces) + 1
    /\ cut[1] = 0
    /\ cut[Len(pieces) + 1] = Consumed
    /\ \A i \in 1..Len(pieces) :
         cut[i] < cut[i + 1] /\ pieces[i] = SubSeq(file, cut[i] + 1, cut[i + 1])

\* The conversion loop comes to an end, since every round of it uses up bytes,
\* and if no read has failed the file has then been cut up completely.
ConversionEnds == <>(pc = "failed" \/ (pc = "done" /\ CutCompletely))
=============================================================================
