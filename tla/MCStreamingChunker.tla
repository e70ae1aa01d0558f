------------------------ MODULE MCStreamingChunker ------------------------
EXTENDS StreamingChunker

CONSTANT MaxLen

\* The hash matches at a one that does not follow a zero: what matches
\* depends on the byte in front, which may be in another block, and on
\* where the search started, as the first byte has none in front.
MCMatch(s) == s[Len(s)] = 1 /\ (Len(s) = 1 \/ s[Len(s) - 1] = 1)

MCFiles == UNION {[1..n -> Byte] : n \in 0..MaxLen}
=============================================================================
