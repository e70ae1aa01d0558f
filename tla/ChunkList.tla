----------------------------- MODULE ChunkList -----------------------------
(***************************************************************************)
(* What chunking a file promises: its chunks come out one after the other, *)
(* exactly as Chunker::chunk_data (src/src/chunking/cdc.rs) cuts the whole *)
(* file.  The streaming chunker is shown to implement this.                *)
(***************************************************************************)
EXTENDS Cdc

VARIABLES data, offset, out
listVars == <<data, offset, out>>

Start ==
  /\ data \in Seq(Byte)
  /\ offset = 0
  /\ out = << >>

\* One round of the loop of chunk_data.
Emit ==
  /\ offset < Len(data)
  /\ LET next == offset + ChunkSize(data, offset)
     IN  /\ out' = Append(out, SubSeq(data, offset + 1, next))
         /\ offset' = next
  /\ UNCHANGED data

ListSpec == Start /\ [][Emit]_listVars
=============================================================================
