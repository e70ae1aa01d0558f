---------------------------- MODULE ContentProofs ----------------------------
(***************************************************************************)
(* The content path.  The streaming chunker cuts a file where the one-shot *)
(* chunker does, for every file, every size of the reads, every hash       *)
(* function and all limits: the invariant says where in the file the two   *)
(* buffers and the chunks between them are.                                *)
(* And what the content store makes of the chunks can be read back, for    *)
(* all contents and uploads: its invariant says that every stored xorb is  *)
(* the one that its hash determines, that every stored shard would pass    *)
(* the validation again, whoever has built it, and that the index is true  *)
(* of both.                                                                *)
(***************************************************************************)
EXTENDS StreamingChunker, ContentStore, SequenceTheorems, WellFoundedInduction, TLAPS

\* Where the next chunk of the chunker will start.
NextCut == IF pc = "final" THEN total_offset + buf_offset ELSE total_offset

\* Where chunk i that convert has not handled starts, and the one after the
\* last of them.
Cut(i) == IF i <= Len(chunks) THEN chunks[i].offset ELSE NextCut

\* The types, and how far the reader is in each state of the loop.
Typed ==
  /\ file \in Seq(Byte) /\ file \in Files
  /\ fed \in 0..Len(file)
  /\ total_offset \in 0..fed
  /\ buf_offset \in 0..Len(file)
  /\ chunks \in Seq([offset : Nat, size : Nat])
  /\ chunk_data_buf \in Seq(Byte)
  /\ pieces \in Seq(Seq(Byte))
  /\ pc \in {"read", "drain", "add", "final", "addlast", "done", "failed"}
  /\ pc \in {"read", "done"} => chunks = << >>
  /\ pc \in {"read", "add"} => fed - total_offset < MaxChunk
  /\ pc \in {"final", "addlast", "done"} => fed = Len(file)
  /\ pc = "final" => total_offset + buf_offset <= fed
  /\ pc \in {"read", "drain", "add"} => buf_offset = 0
  /\ pc \in {"addlast", "done"} => total_offset = fed

\* The buffers are what has been read behind two places of the file.
Buffers ==
  /\ buffer = SubSeq(file, total_offset + 1, fed)
  /\ Len(chunk_data_buf) <= fed
  /\ chunk_data_buf = SubSeq(file, Consumed + 1, fed)

\* The chunks in between lie one behind the other and are the one-shot
\* chunker's.
Chain ==
  /\ Cut(1) = Consumed
  /\ \A i \in 1..Len(chunks) :
       /\ chunks[i].offset < Len(file)
       /\ chunks[i].size = ChunkSize(file, chunks[i].offset)
       /\ chunks[i].offset + chunks[i].size <= fed
       /\ Cut(i + 1) = chunks[i].offset + chunks[i].size

IInv == Typed /\ Buffers /\ Chain /\ PieceSizes
-----------------------------------------------------------------------------
\* A set of numbers that is not empty has a least one.
LEMMA LeastNumber ==
  ASSUME NEW T, T \subseteq Nat, T # {}
  PROVE  \E x \in T : \A y \in T : x <= y
<1> DEFINE R == {ss \in Nat \X Nat : ss[1] < ss[2]}
<1>1. R = OpToRel(<, Nat)
  BY DEF OpToRel
<1>2. IsWellFoundedOn(R, Nat)
  BY <1>1, NatLessThanWellFounded
<1>3. PICK x \in T : \A y \in T : ~(<<y, x>> \in R)
  BY <1>2, WFMin
<1>4. ASSUME NEW y \in T PROVE x <= y
  <2>1. x \in Nat /\ y \in Nat
    OBVIOUS
  <2>2. ~(<<y, x>> \in R)
    BY <1>3
  <2> QED BY <2>1, <2>2, SMT
<1> QED BY <1>4

\* next_match returns a position within its data.
LEMMA NextMatchRange ==
  ASSUME NEW s, Len(s) \in Nat
  PROVE  NextMatch(s) \in 0..Len(s)
<1> DEFINE hits == {i \in 1..Len(s) : Match(SubSeq(s, 1, i))}
<1>1. CASE hits = {}
  BY <1>1 DEF NextMatch
<1>2. CASE hits # {}
  <2>1. \E x \in hits : \A y \in hits : x <= y
    <3>1. hits \subseteq Nat
      OBVIOUS
    <3> HIDE DEF hits
    <3> QED BY <1>2, <3>1, LeastNumber
  <2> DEFINE least == CHOOSE x \in hits : \A y \in hits : x <= y
  <2>2. NextMatch(s) = least
    BY <1>2 DEF NextMatch
  <2>3. least \in hits
    <3> HIDE DEF hits
    <3> QED BY <2>1
  <2>4. least \in 1..Len(s)
    BY <2>3
  <2> HIDE DEF least, hits
  <2> QED BY <2>2, <2>4
<1> QED BY <1>1, <1>2

\* The search of every chunk starts in front of its minimum.
LEMMA SkipRange == SearchSkip \in Nat /\ SearchSkip < MinChunk
  BY CdcAssumption DEF SearchSkip

\* A part of a file read from an offset.
LEMMA PartOf ==
  ASSUME NEW s \in Seq(Byte), NEW m \in Nat, NEW n \in 0..Len(s), m <= n
  PROVE  /\ SubSeq(s, m + 1, n) \in Seq(Byte)
         /\ Len(SubSeq(s, m + 1, n)) = n - m
         /\ \A i \in 1..(n - m) : SubSeq(s, m + 1, n)[i] = s[m + i]
<1>1. \A i \in (m + 1)..n : s[i] \in Byte
  BY ElementOfSeq
<1>2. /\ SubSeq(s, m + 1, n) \in Seq(Byte)
      /\ Len(SubSeq(s, m + 1, n)) = IF m + 1 <= n THEN n - (m + 1) + 1 ELSE 0
      /\ \A i \in 1..(n - (m + 1) + 1) : SubSeq(s, m + 1, n)[i] = s[(m + 1) + i - 1]
  BY <1>1, SubSeqProperties
<1> QED BY <1>2

\* A part of a part.
LEMMA PartOfPart ==
  ASSUME NEW s \in Seq(Byte), NEW m \in Nat, NEW n \in 0..Len(s), m <= n,
         NEW a \in Nat, NEW b \in Nat, a <= b, m + b <= n
  PROVE  SubSeq(SubSeq(s, m + 1, n), a + 1, b) = SubSeq(s, m + a + 1, m + b)
<1> DEFINE p == SubSeq(s, m + 1, n)
<1>1. p \in Seq(Byte) /\ Len(p) = n - m /\ \A i \in 1..(n - m) : p[i] = s[m + i]
  BY PartOf
<1> HIDE DEF p
<1>2. /\ SubSeq(p, a + 1, b) \in Seq(Byte)
      /\ Len(SubSeq(p, a + 1, b)) = b - a
      /\ \A i \in 1..(b - a) : SubSeq(p, a + 1, b)[i] = p[a + i]
  BY <1>1, PartOf
<1>3. /\ SubSeq(s, (m + a) + 1, m + b) \in Seq(Byte)
      /\ Len(SubSeq(s, (m + a) + 1, m + b)) = (m + b) - (m + a)
      /\ \A i \in 1..((m + b) - (m + a)) : SubSeq(s, (m + a) + 1, m + b)[i] = s[(m + a) + i]
  <2>1. m + a \in Nat /\ m + b \in 0..Len(s) /\ m + a <= m + b
    OBVIOUS
  <2> QED BY <2>1, PartOf
<1>4. \A i \in 1..(b - a) : SubSeq(p, a + 1, b)[i] = SubSeq(s, m + a + 1, m + b)[i]
  <2> TAKE i \in 1..(b - a)
  <2>1. p[a + i] = s[m + (a + i)]
    BY <1>1
  <2> QED BY <2>1, <1>2, <1>3
<1>5. SubSeq(p, a + 1, b) = SubSeq(s, m + a + 1, m + b)
  <2> DEFINE q == SubSeq(p, a + 1, b)
             r == SubSeq(s, m + a + 1, m + b)
  <2>1. q \in Seq(Byte) /\ r \in Seq(Byte) /\ Len(q) = b - a /\ Len(r) = b - a
    BY <1>2, <1>3
  <2>2. \A i \in 1..(b - a) : q[i] = r[i]
    BY <1>4
  <2> HIDE DEF q, r
  <2>3. q = r
    BY <2>1, <2>2, SeqEqual
  <2> QED BY <2>3 DEF q, r
<1> QED BY <1>5 DEF p

\* The size of a chunk: chunk_data makes progress, stays within the data and
\* within the limits.
LEMMA ChunkSizeRange ==
  ASSUME NEW s \in Seq(Byte), NEW o \in Nat, o < Len(s)
  PROVE  /\ ChunkSize(s, o) \in 1..(Len(s) - o)
         /\ ChunkSize(s, o) <= MaxChunk
         /\ ChunkSize(s, o) >= MinChunk \/ ChunkSize(s, o) = Len(s) - o
<1> DEFINE start == o + SearchSkip
           end == Lesser(o + MaxChunk, Len(s))
           pos == NextMatch(SubSeq(s, start + 1, end))
<1>0. Len(s) \in Nat
  BY LenProperties
<1>1. CASE Len(s) - o < MinChunk
  BY <1>0, <1>1, CdcAssumption DEF ChunkSize
<1>2. CASE Len(s) - o >= MinChunk
  <2>1. start \in Nat /\ end \in 0..Len(s) /\ start < end
        /\ end <= o + MaxChunk /\ end >= o + MinChunk
    BY <1>0, <1>2, SkipRange, CdcAssumption DEF Lesser
  <2>2. Len(SubSeq(s, start + 1, end)) = end - start
    BY <2>1, PartOf
  <2>3. pos \in 0..(end - start)
    <3> DEFINE searched == SubSeq(s, start + 1, end)
    <3>1. Len(searched) = end - start /\ Len(searched) \in Nat
      BY <2>1, <2>2
    <3> HIDE DEF searched
    <3>2. NextMatch(searched) \in 0..Len(searched)
      BY <3>1, NextMatchRange
    <3> QED BY <3>1, <3>2 DEF searched
  <2> HIDE DEF pos, end
  <2>4. ChunkSize(s, o) = Greater(IF pos = 0 THEN end - o ELSE start + pos - o,
                                  Lesser(MinChunk, Len(s) - o))
    BY <1>0, <1>2, <2>1, CdcAssumption, SkipRange DEF ChunkSize, pos, end
  <2>5. Lesser(MinChunk, Len(s) - o) = MinChunk
    BY <1>0, <1>2, CdcAssumption DEF Lesser
  <2> QED BY <1>0, <1>2, <2>1, <2>3, <2>4, <2>5, CdcAssumption, SkipRange DEF Greater
<1> QED BY <1>0, <1>1, <1>2, CdcAssumption

\* drain_complete_chunks cuts where chunk_data does, once the buffer has the
\* bytes of a largest chunk.
LEMMA DrainIsOneShot ==
  ASSUME NEW s \in Seq(Byte), NEW o \in Nat, NEW n \in 0..Len(s), o <= n,
         n - o >= MaxChunk
  PROVE  DrainSize(SubSeq(s, o + 1, n)) = ChunkSize(s, o)
<1> DEFINE buf == SubSeq(s, o + 1, n)
<1>0. Len(s) \in Nat
  BY LenProperties
<1>1. Len(buf) = n - o
  BY PartOf
<1>2. SubSeq(buf, SearchSkip + 1, MaxChunk) = SubSeq(s, o + SearchSkip + 1, o + MaxChunk)
  <2>1. SearchSkip \in Nat /\ MaxChunk \in Nat /\ SearchSkip <= MaxChunk /\ o + MaxChunk <= n
    BY <1>0, SkipRange, CdcAssumption
  <2> QED BY <2>1, PartOfPart
<1>3. Lesser(o + MaxChunk, Len(s)) = o + MaxChunk
  BY <1>0, CdcAssumption DEF Lesser
<1>4. /\ Lesser(MinChunk, Len(buf)) = MinChunk
      /\ Lesser(MinChunk, Len(s) - o) = MinChunk
  BY <1>0, <1>1, CdcAssumption DEF Lesser
<1> DEFINE pos == NextMatch(SubSeq(s, o + SearchSkip + 1, o + MaxChunk))
<1>5. pos \in Nat
  <2>1. /\ o + SearchSkip \in Nat /\ o + MaxChunk \in 0..Len(s)
        /\ o + SearchSkip <= o + MaxChunk
    BY <1>0, SkipRange, CdcAssumption
  <2>2. Len(SubSeq(s, (o + SearchSkip) + 1, o + MaxChunk)) = (o + MaxChunk) - (o + SearchSkip)
    BY <2>1, PartOf
  <2>3. Len(SubSeq(s, (o + SearchSkip) + 1, o + MaxChunk)) \in Nat
    BY <2>1, <2>2
  <2> QED BY <2>3, NextMatchRange
<1> HIDE DEF pos, buf
<1>6. DrainSize(buf) = Greater(IF pos = 0 THEN MaxChunk ELSE SearchSkip + pos, MinChunk)
  BY <1>2, <1>4 DEF DrainSize, pos
<1>7. ChunkSize(s, o) = Greater(IF pos = 0 THEN o + MaxChunk - o ELSE o + SearchSkip + pos - o,
                                MinChunk)
  BY <1>0, <1>3, <1>4, SkipRange, CdcAssumption DEF ChunkSize, pos
<1>8. DrainSize(buf) = ChunkSize(s, o)
  BY <1>5, <1>6, <1>7, SkipRange, CdcAssumption
<1> QED BY <1>8 DEF buf

\* finalize cuts where chunk_data does, when the buffer reaches to the end of
\* the file.
LEMMA FinalIsOneShot ==
  ASSUME NEW s \in Seq(Byte), NEW t \in Nat, NEW o \in Nat, t + o < Len(s)
  PROVE  FinalSize(SubSeq(s, t + 1, Len(s)), o) = ChunkSize(s, t + o)
<1> DEFINE buf == SubSeq(s, t + 1, Len(s))
           start == o + SearchSkip
           end == Lesser(o + MaxChunk, Len(buf))
<1>0. Len(s) \in Nat
  BY LenProperties
<1>1. Len(buf) = Len(s) - t
  BY <1>0, PartOf
<1>2. CASE Len(s) - (t + o) < MinChunk
  <2> HIDE DEF buf
  <2>1. FinalSize(buf, o) = Len(buf) - o
    BY <1>0, <1>1, <1>2, CdcAssumption DEF FinalSize
  <2>2. ChunkSize(s, t + o) = Len(s) - (t + o)
    BY <1>2 DEF ChunkSize
  <2>3. FinalSize(buf, o) = ChunkSize(s, t + o)
    BY <1>0, <1>1, <2>1, <2>2
  <2> QED BY <2>3 DEF buf
<1>3. CASE Len(s) - (t + o) >= MinChunk
  <2>1. start \in Nat /\ end \in Nat /\ start < end /\ end <= Len(buf) /\ start < Len(buf)
    BY <1>0, <1>1, <1>3, SkipRange, CdcAssumption DEF Lesser
  <2>2. Lesser((t + o) + MaxChunk, Len(s)) = t + end
    BY <1>0, <1>1, CdcAssumption DEF Lesser
  <2>4. t + start = (t + o) + SearchSkip
    BY SkipRange
  <2> HIDE DEF start, end
  <2>3. SubSeq(buf, start + 1, end) = SubSeq(s, (t + start) + 1, t + end)
    <3>1. t <= Len(s) /\ Len(s) \in 0..Len(s) /\ start <= end /\ t + end <= Len(s)
      BY <1>0, <1>1, <2>1
    <3> QED BY <2>1, <3>1, PartOfPart
  <2> DEFINE pos == NextMatch(SubSeq(buf, start + 1, end))
  <2>5. pos \in Nat
    <3>1. /\ t + start \in Nat /\ t + end \in 0..Len(s) /\ t + start <= t + end
      BY <1>0, <1>1, <2>1
    <3>2. Len(SubSeq(s, (t + start) + 1, t + end)) = (t + end) - (t + start)
      BY <3>1, PartOf
    <3>3. (t + end) - (t + start) \in Nat
      BY <2>1
    <3>4. Len(SubSeq(buf, start + 1, end)) \in Nat
      BY <3>2, <3>3, <2>3
    <3> QED BY <3>4, NextMatchRange
  <2>6. pos = NextMatch(SubSeq(s, ((t + o) + SearchSkip) + 1, t + end))
    BY <2>3, <2>4
  <2> DEFINE u == t + o
  <2> HIDE DEF pos, buf
  <2>7. FinalSize(buf, o) = Greater(IF pos = 0 THEN end - o ELSE start + pos - o,
                                    Lesser(MinChunk, Len(buf) - o))
    <3>1. ~(Len(buf) - o < MinChunk \/ start >= Len(buf) \/ start >= end)
      BY <1>0, <1>1, <1>3, <2>1, CdcAssumption
    <3> QED BY <3>1 DEF FinalSize, pos, start, end
  <2>8. ChunkSize(s, u)
          = Greater(IF pos = 0 THEN (t + end) - u ELSE u + SearchSkip + pos - u,
                    Lesser(MinChunk, Len(s) - u))
    <3>1. ~(Len(s) - u < MinChunk \/ u + SearchSkip >= Len(s) \/ u + SearchSkip >= t + end)
      BY <1>0, <1>1, <1>3, <2>1, <2>4, SkipRange, CdcAssumption
    <3>2. pos = NextMatch(SubSeq(s, (u + SearchSkip) + 1, t + end))
      BY <2>6
    <3>3. Lesser(u + MaxChunk, Len(s)) = t + end
      BY <2>2
    <3> HIDE DEF u
    <3> QED BY <3>1, <3>2, <3>3 DEF ChunkSize
  <2>9. Len(buf) - o = Len(s) - (t + o)
    BY <1>0, <1>1
  <2>10. /\ (t + end) - u = end - o
         /\ u + SearchSkip + pos - u = start + pos - o
    BY <2>1, <2>4, <2>5, SkipRange
  <2>11. FinalSize(buf, o) = ChunkSize(s, u)
    BY <2>7, <2>8, <2>9, <2>10
  <2> QED BY <2>11 DEF buf
<1> QED BY <1>0, <1>2, <1>3, CdcAssumption
-----------------------------------------------------------------------------
\* The numbers that the buffers stand for.
LEMMA Lengths ==
  ASSUME Typed, Buffers
  PROVE  /\ Len(file) \in Nat /\ fed \in Nat /\ total_offset \in Nat
         /\ Len(buffer) = fed - total_offset
         /\ Len(chunk_data_buf) \in Nat
         /\ Consumed \in 0..fed /\ Len(chunk_data_buf) = fed - Consumed
<1>1. Len(file) \in Nat /\ Len(chunk_data_buf) \in Nat
  BY LenProperties DEF Typed
<1>2. fed \in Nat /\ total_offset \in Nat /\ total_offset <= fed
  BY <1>1 DEF Typed
<1>3. Len(buffer) = fed - total_offset
  BY <1>1, <1>2, PartOf DEF Typed, Buffers
<1> QED BY <1>1, <1>2, <1>3 DEF Consumed, Buffers

\* The invariant holds when the conversion starts.
LEMMA InitInv == Init => IInv
<1> SUFFICES ASSUME Init PROVE IInv
  OBVIOUS
<1>1. file \in Seq(Byte) /\ Len(file) \in Nat
  BY StreamingAssumption, LenProperties DEF Init
<1>2. SubSeq(file, 1, 0) = << >>
  BY <1>1, SubSeqEmpty
<1>3. Consumed = 0
  <2>1. fed = 0 /\ chunk_data_buf = << >>
    BY DEF Init
  <2>2. Len(<< >>) = 0
    BY EmptySeq
  <2>3. Len(chunk_data_buf) = 0
    BY <2>1, <2>2, Zenon
  <2>4. fed = 0
    BY <2>1
  <2> QED BY <2>3, <2>4, SMT DEF Consumed
<1>4. Typed
  BY <1>1, CdcAssumption DEF Init, Typed
<1>5. Buffers
  BY <1>2, <1>3 DEF Init, Buffers
<1>6. Chain
  BY <1>3 DEF Init, Chain, Cut, NextCut
<1>7. PieceSizes
  BY DEF Init, PieceSizes
<1> QED BY <1>4, <1>5, <1>6, <1>7 DEF IInv

\* A step that leaves the chunks and how far everything is alone.
LEMMA QuietKeeps ==
  ASSUME IInv, Typed', NextCut' = NextCut,
         UNCHANGED <<file, fed, buffer, total_offset, chunks, chunk_data_buf, pieces>>
  PROVE  IInv'
<1>1. Consumed' = Consumed
  BY DEF Consumed
<1>2. Buffers'
  BY <1>1 DEF IInv, Buffers
<1>3. Chain'
  BY <1>1 DEF IInv, Chain, Cut
<1>4. PieceSizes'
  BY <1>1 DEF IInv, PieceSizes
<1> QED BY <1>2, <1>3, <1>4 DEF IInv

\* The invariant across a read.
LEMMA ReadBlockKeeps ==
  ASSUME IInv, NEW n \in 1..MaxBlock, ReadBlock(n)
  PROVE  IInv' /\ Consumed' = Consumed
<1> USE DEF IInv
<1>0. n \in Nat
  BY StreamingAssumption
<1>1. /\ Len(file) \in Nat /\ fed \in Nat /\ total_offset \in Nat
      /\ Consumed \in 0..fed /\ Len(chunk_data_buf) = fed - Consumed
      /\ fed + n <= Len(file) /\ total_offset <= fed
  BY Lengths DEF ReadBlock, Typed
<1>2. ASSUME NEW k \in 0..fed
      PROVE  SubSeq(file, k + 1, fed) \o SubSeq(file, fed + 1, fed + n)
               = SubSeq(file, k + 1, fed + n)
  <2>1. k + 1 \in 1..(Len(file) + 1) /\ fed \in ((k + 1) - 1)..Len(file)
        /\ fed + n \in fed..Len(file)
    BY <1>0, <1>1
  <2> QED BY <2>1, ConcatAdjacentSubSeq DEF Typed
<1>3. buffer' = SubSeq(file, total_offset + 1, fed + n)
  <2>1. total_offset \in 0..fed /\ buffer = SubSeq(file, total_offset + 1, fed)
    BY <1>1 DEF Buffers
  <2>2. buffer' = buffer \o SubSeq(file, fed + 1, fed + n)
    BY DEF ReadBlock
  <2> QED BY <1>2, <2>1, <2>2
<1>4. chunk_data_buf' = SubSeq(file, Consumed + 1, fed + n)
  <2>1. chunk_data_buf = SubSeq(file, Consumed + 1, fed)
    BY DEF Buffers
  <2>2. chunk_data_buf' = chunk_data_buf \o SubSeq(file, fed + 1, fed + n)
    BY DEF ReadBlock
  <2> QED BY <1>1, <1>2, <2>1, <2>2
<1>5. chunk_data_buf' \in Seq(Byte) /\ Len(chunk_data_buf') = (fed + n) - Consumed
  <2>1. Consumed \in Nat /\ fed + n \in 0..Len(file) /\ Consumed <= fed + n
    BY <1>0, <1>1
  <2>2. file \in Seq(Byte)
    BY DEF Typed
  <2>3. /\ SubSeq(file, Consumed + 1, fed + n) \in Seq(Byte)
        /\ Len(SubSeq(file, Consumed + 1, fed + n)) = (fed + n) - Consumed
    BY ONLY <2>1, <2>2, PartOf
  <2> QED BY ONLY <1>4, <2>3
<1>6. Consumed' = Consumed
  BY <1>0, <1>1, <1>5 DEF Consumed, ReadBlock
<1>7. Typed'
  BY <1>0, <1>1, <1>5 DEF Typed, ReadBlock
<1>8. Buffers'
  <2>1. fed' = fed + n /\ file' = file /\ total_offset' = total_offset
    BY DEF ReadBlock
  <2>2. Len(chunk_data_buf') <= fed + n
    BY <1>0, <1>1, <1>5
  <2> QED BY <1>3, <1>4, <1>6, <2>1, <2>2 DEF Buffers
<1>9. Chain'
  BY <1>0, <1>1, <1>6 DEF Chain, Cut, NextCut, ReadBlock, Typed
<1>10. PieceSizes'
  BY <1>6 DEF PieceSizes, ReadBlock
<1> QED BY <1>6, <1>7, <1>8, <1>9, <1>10

\* A chunk is added behind the last one.
LEMMA AppendKeepsChain ==
  ASSUME Chain, Typed, Typed', Consumed' = Consumed, UNCHANGED <<file, fed>>,
         NEW z \in Nat,
         chunks' = Append(chunks, [offset |-> NextCut, size |-> z]),
         z = ChunkSize(file, NextCut), NextCut \in Nat, NextCut < Len(file),
         NextCut' = NextCut + z, NextCut + z <= fed
  PROVE  Chain'
<1> DEFINE c == [offset |-> NextCut, size |-> z]
<1>1. c \in [offset : Nat, size : Nat]
  OBVIOUS
<1>2. /\ Len(chunks) \in Nat /\ Len(chunks') = Len(chunks) + 1
      /\ \A i \in 1..Len(chunks) : chunks'[i] = chunks[i]
      /\ chunks'[Len(chunks) + 1] = c
  BY <1>1, AppendProperties, LenProperties DEF Typed
<1>3. c.offset = NextCut /\ c.size = z
  OBVIOUS
<1> HIDE DEF c
<1>4. ASSUME NEW i \in 1..(Len(chunks) + 1) PROVE Cut(i)' = Cut(i)
  BY <1>2, <1>3, <1>4 DEF Cut
<1>5. Cut(1)' = Consumed'
  BY <1>2, <1>4 DEF Chain
<1>6. ASSUME NEW i \in 1..Len(chunks')
      PROVE  /\ chunks'[i].offset < Len(file)
             /\ chunks'[i].size = ChunkSize(file, chunks'[i].offset)
             /\ chunks'[i].offset + chunks'[i].size <= fed
             /\ Cut(i + 1)' = chunks'[i].offset + chunks'[i].size
  <2>1. CASE i <= Len(chunks)
    <3>1. i \in 1..Len(chunks) /\ i + 1 \in 1..(Len(chunks) + 1)
      BY <1>2, <2>1
    <3> QED BY <1>2, <1>4, <3>1 DEF Chain
  <2>2. CASE i = Len(chunks) + 1
    <3>1. Cut(i + 1)' = NextCut'
      BY <1>2, <2>2 DEF Cut
    <3> QED BY <1>2, <1>3, <2>2, <3>1
  <2> QED BY <1>2, <2>1, <2>2
<1> QED BY <1>5, <1>6 DEF Chain

\* The invariant across a round of drain_complete_chunks.
LEMMA DrainChunkKeeps ==
  ASSUME IInv, DrainChunk
  PROVE  IInv' /\ Consumed' = Consumed
<1> USE DEF IInv
<1> DEFINE size == DrainSize(buffer)
<1>1. /\ Len(file) \in Nat /\ fed \in Nat /\ total_offset \in Nat
      /\ total_offset <= fed /\ fed <= Len(file)
      /\ Len(buffer) = fed - total_offset
  BY Lengths DEF Typed
<1>2. fed - total_offset >= MaxChunk
  BY <1>1, CdcAssumption DEF DrainChunk, Waits
<1>3. size = ChunkSize(file, total_offset)
  <2>1. buffer = SubSeq(file, total_offset + 1, fed) /\ file \in Seq(Byte)
    BY DEF Buffers, Typed
  <2>2. fed \in 0..Len(file)
    BY <1>1
  <2> QED BY <1>1, <1>2, <2>1, <2>2, DrainIsOneShot
<1> HIDE DEF size
<1>4. total_offset < Len(file)
  BY <1>1, <1>2, CdcAssumption
<1>5. size \in Nat /\ size <= MaxChunk /\ size >= 1
  <2>1. file \in Seq(Byte)
    BY DEF Typed
  <2>2. ChunkSize(file, total_offset) \in 1..(Len(file) - total_offset)
        /\ ChunkSize(file, total_offset) <= MaxChunk
    BY <1>1, <1>4, <2>1, ChunkSizeRange
  <2> QED BY <1>1, <1>3, <2>2
<1>6. /\ chunks' = Append(chunks, [offset |-> total_offset, size |-> size])
      /\ total_offset' = total_offset + size
      /\ buffer' = SubSeq(buffer, size + 1, Len(buffer))
      /\ pc = "drain" /\ pc' = "drain"
      /\ UNCHANGED <<file, fed, buf_offset, chunk_data_buf, pieces>>
  BY DEF DrainChunk, size
<1>7. Consumed' = Consumed
  BY <1>6 DEF Consumed
<1>8. total_offset + size <= fed
  BY <1>1, <1>2, <1>5, CdcAssumption
<1>9. Typed'
  <2>1. [offset |-> total_offset, size |-> size] \in [offset : Nat, size : Nat]
    BY <1>1, <1>5
  <2>2. chunks' \in Seq([offset : Nat, size : Nat])
    BY <1>6, <2>1, AppendProperties DEF Typed
  <2>3. total_offset' \in 0..fed
    BY <1>1, <1>5, <1>6, <1>8
  <2> QED BY <1>6, <2>2, <2>3 DEF Typed
<1>10. Buffers'
  <2>1. buffer = SubSeq(file, total_offset + 1, fed) /\ file \in Seq(Byte)
    BY DEF Buffers, Typed
  <2>2. SubSeq(buffer, size + 1, fed - total_offset)
          = SubSeq(file, total_offset + size + 1, total_offset + (fed - total_offset))
    <3>1. /\ fed \in 0..Len(file) /\ fed - total_offset \in Nat
          /\ size <= fed - total_offset /\ total_offset + (fed - total_offset) <= fed
      BY <1>1, <1>5, <1>8
    <3> QED BY <1>1, <1>5, <2>1, <3>1, PartOfPart
  <2>3. total_offset + (fed - total_offset) = fed
    BY <1>1
  <2>4. buffer' = SubSeq(file, total_offset' + 1, fed)
    BY <1>1, <1>6, <2>2, <2>3
  <2> QED BY <1>6, <1>7, <2>4 DEF Buffers
<1>11. Chain'
  <2>1. NextCut = total_offset /\ NextCut' = total_offset + size
    BY <1>6 DEF NextCut
  <2> QED BY <1>1, <1>3, <1>4, <1>5, <1>6, <1>7, <1>8, <1>9, <2>1, AppendKeepsChain
<1>12. PieceSizes'
  BY <1>6, <1>7 DEF PieceSizes
<1> QED BY <1>7, <1>9, <1>10, <1>11, <1>12

\* The invariant across a round of finalize.
LEMMA FinalChunkKeeps ==
  ASSUME IInv, FinalChunk
  PROVE  IInv' /\ Consumed' = Consumed
<1> USE DEF IInv
<1> DEFINE size == FinalSize(buffer, buf_offset)
           cut == total_offset + buf_offset
<1>1. /\ Len(file) \in Nat /\ fed = Len(file) /\ total_offset \in Nat
      /\ buf_offset \in Nat /\ total_offset <= fed /\ cut <= fed
      /\ Len(buffer) = fed - total_offset /\ buf_offset < Len(buffer)
  BY Lengths DEF Typed, FinalChunk
<1>2. cut \in Nat /\ cut < Len(file)
  BY <1>1
<1>3. size = ChunkSize(file, cut)
  <2>1. buffer = SubSeq(file, total_offset + 1, Len(file)) /\ file \in Seq(Byte)
    BY <1>1 DEF Buffers, Typed
  <2> QED BY <1>1, <1>2, <2>1, FinalIsOneShot
<1>4. size \in 1..(Len(file) - cut)
  BY <1>2, <1>3, ChunkSizeRange DEF Typed
<1>5. NextCut = cut
  BY DEF NextCut, FinalChunk
<1>6. /\ chunks' = Append(chunks, [offset |-> cut, size |-> size])
      /\ buf_offset' = buf_offset + size
      /\ pc = "final" /\ pc' = "final"
      /\ UNCHANGED <<file, fed, buffer, total_offset, chunk_data_buf, pieces>>
  BY DEF FinalChunk
<1> HIDE DEF size
<1>7. Consumed' = Consumed
  BY <1>6 DEF Consumed
<1>8. size \in Nat /\ cut + size <= fed /\ total_offset + (buf_offset + size) = cut + size
  BY <1>1, <1>2, <1>4
<1>9. Typed'
  <2>1. [offset |-> cut, size |-> size] \in [offset : Nat, size : Nat]
    BY <1>2, <1>8
  <2>2. chunks' \in Seq([offset : Nat, size : Nat])
    BY <1>6, <2>1, AppendProperties DEF Typed
  <2>3. buf_offset' \in 0..Len(file) /\ total_offset + buf_offset' <= fed
    BY <1>1, <1>6, <1>8
  <2> QED BY <1>6, <2>2, <2>3 DEF Typed
<1>10. Buffers'
  BY <1>6, <1>7 DEF Buffers
<1>11. Chain'
  <2>1. NextCut' = cut + size
    BY <1>6, <1>8 DEF NextCut
  <2> HIDE DEF cut
  <2> QED BY <1>2, <1>3, <1>5, <1>6, <1>7, <1>8, <1>9, <2>1, AppendKeepsChain
<1>12. PieceSizes'
  BY <1>6, <1>7 DEF PieceSizes
<1> QED BY <1>7, <1>9, <1>10, <1>11, <1>12

\* The invariant across the end of finalize.
LEMMA FinalStopsKeeps ==
  ASSUME IInv, FinalStops
  PROVE  IInv' /\ Consumed' = Consumed
<1> USE DEF IInv
<1>1. /\ Len(file) \in Nat /\ fed = Len(file) /\ total_offset \in Nat
      /\ buf_offset \in Nat /\ total_offset + buf_offset <= fed
      /\ Len(buffer) = fed - total_offset /\ buf_offset >= Len(buffer)
  BY Lengths DEF Typed, FinalStops
<1>2. total_offset + buf_offset = fed /\ total_offset + Len(buffer) = fed
  BY <1>1
<1>3. /\ total_offset' = fed /\ buffer' = << >> /\ pc = "final" /\ pc' = "addlast"
      /\ UNCHANGED <<file, fed, buf_offset, chunks, chunk_data_buf, pieces>>
  BY <1>2 DEF FinalStops
<1>4. Consumed' = Consumed
  BY <1>3 DEF Consumed
<1>5. Typed'
  BY <1>1, <1>3 DEF Typed
<1>6. Buffers'
  <2>1. SubSeq(file, fed + 1, fed) = << >>
    BY <1>1, SubSeqEmpty
  <2> QED BY <1>3, <1>4, <2>1 DEF Buffers
<1>7. Chain'
  <2>1. NextCut' = NextCut
    BY <1>2, <1>3 DEF NextCut
  <2> QED BY <1>3, <1>4, <2>1 DEF Chain, Cut
<1>8. PieceSizes'
  BY <1>3, <1>4 DEF PieceSizes
<1> QED BY <1>4, <1>5, <1>6, <1>7, <1>8

\* What handing a chunk to the builder does: the next chunk of the one-shot
\* chunker is taken off the file.
LEMMA AddPieceEmits ==
  ASSUME IInv, AddPiece
  PROVE  LET size == ChunkSize(file, Consumed)
         IN  /\ Consumed < Len(file)
             /\ size = Head(chunks).size
             /\ size \in 1..(fed - Consumed)
             /\ Consumed' = Consumed + size
             /\ pieces' = Append(pieces, SubSeq(file, Consumed + 1, Consumed + size))
             /\ chunk_data_buf' = SubSeq(file, Consumed + size + 1, fed)
             /\ chunk_data_buf' \in Seq(Byte)
             /\ Len(chunk_data_buf') = fed - (Consumed + size)
<1> USE DEF IInv
<1> DEFINE size == ChunkSize(file, Consumed)
<1>1. /\ Len(file) \in Nat /\ fed \in Nat /\ fed <= Len(file) /\ file \in Seq(Byte)
      /\ Consumed \in Nat /\ Consumed <= fed
      /\ Len(chunk_data_buf) = fed - Consumed
  BY Lengths DEF Typed
<1>2. Len(chunks) \in Nat /\ 1 \in 1..Len(chunks) /\ Head(chunks) = chunks[1]
  <2>1. chunks # << >> /\ chunks \in Seq([offset : Nat, size : Nat])
    BY DEF AddPiece, Typed
  <2>2. Len(chunks) \in Nat \ {0}
    BY <2>1, EmptySeq
  <2> QED BY <2>1, <2>2
<1>3. chunks[1].offset = Consumed
  BY <1>2 DEF Chain, Cut
<1>4. Consumed < Len(file) /\ size = Head(chunks).size /\ Consumed + size <= fed
  BY <1>2, <1>3 DEF Chain
<1>5. size \in 1..(Len(file) - Consumed)
  BY <1>1, <1>4, ChunkSizeRange
<1> HIDE DEF size
<1>6. size \in 1..(fed - Consumed)
  BY <1>1, <1>4, <1>5
<1>7. /\ pieces' = Append(pieces, SubSeq(chunk_data_buf, 1, size))
      /\ chunk_data_buf' = SubSeq(chunk_data_buf, size + 1, Len(chunk_data_buf))
      /\ fed' = fed
  BY <1>4 DEF AddPiece
<1>8. chunk_data_buf = SubSeq(file, Consumed + 1, fed)
  BY DEF Buffers
<1>9. SubSeq(chunk_data_buf, 0 + 1, size) = SubSeq(file, Consumed + 0 + 1, Consumed + size)
  <2>1. /\ fed \in 0..Len(file) /\ 0 \in Nat /\ size \in Nat /\ 0 <= size
        /\ Consumed + size <= fed
    BY <1>1, <1>4, <1>6
  <2> QED BY <1>1, <1>8, <2>1, PartOfPart
<1>10. SubSeq(chunk_data_buf, size + 1, fed - Consumed)
         = SubSeq(file, Consumed + size + 1, Consumed + (fed - Consumed))
  <2>1. /\ fed \in 0..Len(file) /\ size \in Nat /\ fed - Consumed \in Nat
        /\ size <= fed - Consumed /\ Consumed + (fed - Consumed) <= fed
    BY <1>1, <1>4, <1>6
  <2> QED BY <1>1, <1>8, <2>1, PartOfPart
<1>11. chunk_data_buf' = SubSeq(file, Consumed + size + 1, fed)
  <2>1. Consumed + (fed - Consumed) = fed
    BY <1>1
  <2> QED BY <1>1, <1>7, <1>10, <2>1
<1>12. chunk_data_buf' \in Seq(Byte) /\ Len(chunk_data_buf') = fed - (Consumed + size)
  <2>1. Consumed + size \in Nat /\ fed \in 0..Len(file) /\ Consumed + size <= fed
    BY <1>1, <1>4, <1>6
  <2> QED BY <1>1, <1>11, <2>1, PartOf
<1>13. Consumed' = Consumed + size
  <2>1. Consumed' = fed' - Len(chunk_data_buf')
    BY DEF Consumed
  <2> QED BY <1>1, <1>6, <1>7, <1>12, <2>1
<1>14. pieces' = Append(pieces, SubSeq(file, Consumed + 1, Consumed + size))
  <2>1. 0 + 1 = 1 /\ Consumed + 0 + 1 = Consumed + 1
    BY <1>1
  <2> QED BY <1>7, <1>9, <2>1
<1> QED BY <1>4, <1>6, <1>11, <1>12, <1>13, <1>14 DEF size

\* The invariant across the handling of a chunk by convert.
LEMMA AddPieceKeeps ==
  ASSUME IInv, AddPiece
  PROVE  IInv'
<1> USE DEF IInv
<1> DEFINE size == ChunkSize(file, Consumed)
           piece == SubSeq(file, Consumed + 1, Consumed + size)
<1>1. /\ Consumed < Len(file) /\ size \in 1..(fed - Consumed) /\ Consumed' = Consumed + size
      /\ pieces' = Append(pieces, piece)
      /\ chunk_data_buf' = SubSeq(file, Consumed + size + 1, fed)
      /\ chunk_data_buf' \in Seq(Byte) /\ Len(chunk_data_buf') = fed - (Consumed + size)
  BY AddPieceEmits
<1>2. /\ Len(file) \in Nat /\ fed \in Nat /\ fed <= Len(file) /\ file \in Seq(Byte)
      /\ Consumed \in Nat /\ Consumed <= fed
  BY Lengths DEF Typed
<1>3. /\ size <= MaxChunk
      /\ size >= MinChunk \/ size = Len(file) - Consumed
  BY <1>1, <1>2, ChunkSizeRange
<1>4. piece \in Seq(Byte) /\ Len(piece) = size
  <2> HIDE DEF size
  <2>1. Consumed + size \in 0..Len(file) /\ Consumed <= Consumed + size
        /\ (Consumed + size) - Consumed = size
    BY <1>1, <1>2
  <2> QED BY <1>2, <2>1, PartOf
<1> HIDE DEF size, piece
<1>5. /\ chunks' = Tail(chunks) /\ chunks # << >> /\ pc \in {"add", "addlast"}
      /\ UNCHANGED <<file, fed, buffer, total_offset, buf_offset, pc>>
  BY DEF AddPiece
<1>6. /\ chunks' \in Seq([offset : Nat, size : Nat])
      /\ Len(chunks) \in Nat \ {0} /\ Len(chunks') = Len(chunks) - 1
      /\ \A i \in 1..Len(chunks') : chunks'[i] = chunks[i + 1]
  <2>1. chunks \in Seq([offset : Nat, size : Nat])
    BY DEF Typed
  <2> QED BY <1>5, <2>1, HeadTailProperties, EmptySeq
<1>7. /\ pieces' \in Seq(Seq(Byte)) /\ Len(pieces) \in Nat /\ Len(pieces') = Len(pieces) + 1
      /\ \A i \in 1..Len(pieces) : pieces'[i] = pieces[i]
      /\ pieces'[Len(pieces) + 1] = piece
  BY <1>1, <1>4, AppendProperties, LenProperties DEF Typed
<1>8. Typed'
  BY <1>1, <1>5, <1>6, <1>7 DEF Typed
<1>9. Buffers'
  <2>1. Len(chunk_data_buf') <= fed
    BY <1>1, <1>2
  <2> QED BY <1>1, <1>5, <2>1 DEF Buffers
<1>10. Chain'
  <2>1. NextCut' = NextCut
    BY <1>5 DEF NextCut
  <2>2. ASSUME NEW i \in 1..Len(chunks) PROVE Cut(i)' = Cut(i + 1)
    <3>1. CASE i <= Len(chunks')
      <4>1. i \in 1..Len(chunks') /\ i + 1 <= Len(chunks)
        BY <1>6, <3>1
      <4> QED BY <1>6, <3>1, <4>1 DEF Cut
    <3>2. CASE i = Len(chunks)
      <4>1. ~(i <= Len(chunks')) /\ ~(i + 1 <= Len(chunks))
        BY <1>6, <3>2
      <4> QED BY <2>1, <4>1 DEF Cut
    <3> QED BY <1>6, <3>1, <3>2
  <2>3. Cut(2) = Consumed + size /\ 1 \in 1..Len(chunks)
    <3>1. 1 \in 1..Len(chunks)
      BY <1>6
    <3>2. chunks[1].offset = Consumed
      BY <3>1 DEF Chain, Cut
    <3> QED BY <3>1, <3>2 DEF Chain, size
  <2>4. Cut(1)' = Consumed'
    BY <1>1, <2>2, <2>3
  <2>5. ASSUME NEW i \in 1..Len(chunks')
        PROVE  /\ chunks'[i].offset < Len(file)
               /\ chunks'[i].size = ChunkSize(file, chunks'[i].offset)
               /\ chunks'[i].offset + chunks'[i].size <= fed
               /\ Cut(i + 1)' = chunks'[i].offset + chunks'[i].size
    <3>1. i + 1 \in 1..Len(chunks) /\ chunks'[i] = chunks[i + 1]
      BY <1>6, SMTT(30)
    <3>2. Cut(i + 1)' = Cut((i + 1) + 1)
      BY <2>2, <3>1
    <3> QED BY <3>1, <3>2 DEF Chain
  <2> QED BY <1>5, <2>4, <2>5 DEF Chain
<1>11. PieceSizes'
  <2>1. ASSUME NEW i \in 1..Len(pieces')
        PROVE  /\ Len(pieces'[i]) <= MaxChunk
               /\ Len(pieces'[i]) >= MinChunk \/ (i = Len(pieces') /\ Consumed' = Len(file))
               /\ Len(pieces'[i]) > 0
    <3>1. CASE i \in 1..Len(pieces)
      <4>1. pieces'[i] = pieces[i]
        BY <1>7, <3>1
      <4>2. Consumed # Len(file)
        BY <1>1, <1>2
      <4> QED BY <3>1, <4>1, <4>2 DEF PieceSizes
    <3>2. CASE i = Len(pieces) + 1
      <4>1. Len(pieces'[i]) = size
        BY <1>4, <1>7, <3>2
      <4> QED BY <1>1, <1>2, <1>3, <1>7, <3>2, <4>1
    <3> QED BY <1>7, <3>1, <3>2
  <2> QED BY <1>5, <2>1 DEF PieceSizes
<1> QED BY <1>8, <1>9, <1>10, <1>11

\* The invariant across the steps that only move the control.
LEMMA ControlKeeps ==
  ASSUME IInv, ReadFails \/ DrainStops \/ AddedAll \/ EndOfFile \/ UNCHANGED vars
  PROVE  IInv' /\ Consumed' = Consumed /\ UNCHANGED <<file, pieces>>
<1>1. UNCHANGED <<file, fed, buffer, total_offset, buf_offset, chunks, chunk_data_buf, pieces>>
  BY DEF ReadFails, DrainStops, AddedAll, EndOfFile, vars
<1>2. Consumed' = Consumed
  BY <1>1 DEF Consumed
<1>3. Len(buffer) = fed - total_offset
  BY Lengths DEF IInv
<1>4. Typed' /\ NextCut' = NextCut
  <2>1. CASE ReadFails
    BY <2>1 DEF ReadFails, IInv, Typed, NextCut
  <2>2. CASE DrainStops
    BY <1>3, <2>2, CdcAssumption DEF DrainStops, Waits, IInv, Typed, NextCut
  <2>3. CASE AddedAll
    BY <2>3 DEF AddedAll, IInv, Typed, NextCut
  <2>4. CASE EndOfFile
    BY <2>4 DEF EndOfFile, IInv, Typed, NextCut
  <2>5. CASE UNCHANGED vars
    BY <2>5 DEF vars, IInv, Typed, NextCut
  <2> QED BY <2>1, <2>2, <2>3, <2>4, <2>5
<1>5. IInv'
  BY <1>1, <1>4, QuietKeeps
<1> QED BY <1>1, <1>2, <1>5

\* The invariant is kept by every step.
LEMMA NextInv == IInv /\ [Next]_vars => IInv'
<1> SUFFICES ASSUME IInv, [Next]_vars PROVE IInv'
  OBVIOUS
<1>1. CASE \E n \in 1..MaxBlock : ReadBlock(n)
  BY <1>1, ReadBlockKeeps
<1>2. CASE DrainChunk
  BY <1>2, DrainChunkKeeps
<1>3. CASE AddPiece
  BY <1>3, AddPieceKeeps
<1>4. CASE FinalChunk
  BY <1>4, FinalChunkKeeps
<1>5. CASE FinalStops
  BY <1>5, FinalStopsKeeps
<1>6. CASE ReadFails \/ DrainStops \/ AddedAll \/ EndOfFile \/ UNCHANGED vars
  BY <1>6, ControlKeeps
<1> QED BY <1>1, <1>2, <1>3, <1>4, <1>5, <1>6 DEF Next, Work, Ended

\* Every reachable state of the conversion loop satisfies the invariant.
THEOREM Invariance == Spec => []IInv
  BY InitInv, NextInv, PTL DEF Spec

\* The variables of the chunker and of convert's loop have their types, for
\* every file.
THEOREM TypeCorrect == Spec => []TypeOK
<1>1. IInv => TypeOK
  <2> SUFFICES ASSUME IInv PROVE TypeOK
    OBVIOUS
  <2>1. Len(file) \in Nat /\ fed <= Len(file) /\ fed \in Nat
    BY Lengths DEF IInv, Typed
  <2>2. buffer \in Seq(Byte)
    <3>1. /\ file \in Seq(Byte) /\ total_offset \in Nat /\ fed \in 0..Len(file)
          /\ total_offset <= fed
      BY <2>1 DEF IInv, Typed
    <3>2. SubSeq(file, total_offset + 1, fed) \in Seq(Byte)
      BY ONLY <3>1, PartOf
    <3> QED BY <3>2 DEF IInv, Buffers
  <2> QED BY <2>1, <2>2 DEF IInv, Typed, TypeOK
<1> QED BY <1>1, Invariance, PTL

\* Whenever convert reads, its copy of the bytes and the chunker's buffer are
\* the same part of the file, shorter than a largest chunk.
THEOREM StaysInStep == Spec => []BuffersInStep
<1>1. IInv => BuffersInStep
  <2> SUFFICES ASSUME IInv, pc = "read"
               PROVE  /\ chunk_data_buf = buffer
                      /\ Len(buffer) < MaxChunk
                      /\ buffer = SubSeq(file, total_offset + 1, fed)
    BY DEF BuffersInStep
  <2>1. Len(buffer) = fed - total_offset
    BY Lengths DEF IInv
  <2>2. chunks = << >> /\ fed - total_offset < MaxChunk
    BY DEF IInv, Typed
  <2>3. Len(<< >>) = 0
    BY EmptySeq
  <2>4. Cut(1) = total_offset
    BY <2>2, <2>3 DEF Cut, NextCut
  <2>5. Consumed = total_offset
    BY <2>4 DEF IInv, Chain
  <2> QED BY <2>1, <2>2, <2>5 DEF IInv, Buffers
<1> QED BY <1>1, Invariance, PTL

\* Every chunk that reaches the xorb builder is within the limits, except
\* that the last chunk of a file may be short.
THEOREM PiecesBounded == Spec => []PieceSizes
<1>1. IInv => PieceSizes
  BY DEF IInv
<1> QED BY <1>1, Invariance, PTL

\* The abstract chunker's sizes are those of the model.
LEMMA SameSizes ==
  ASSUME NEW s, NEW o
  PROVE  List!ChunkSize(s, o) = ChunkSize(s, o)
BY DEF List!ChunkSize, ChunkSize, List!Lesser, Lesser, List!Greater, Greater,
       List!SearchSkip, SearchSkip, List!NextMatch, NextMatch

\* Every step of the conversion loop hands one chunk of the one-shot chunker
\* to the builder, or none.
LEMMA StepEmits ==
  ASSUME IInv, [Next]_vars
  PROVE  [List!Emit]_(List!listVars)
<1>1. CASE \E n \in 1..MaxBlock : ReadBlock(n)
  <2>1. PICK n \in 1..MaxBlock : ReadBlock(n)
    BY <1>1
  <2>2. Consumed' = Consumed /\ UNCHANGED <<file, pieces>>
    BY <2>1, ReadBlockKeeps DEF ReadBlock
  <2> QED BY <2>2 DEF List!listVars
<1>2. CASE DrainChunk
  BY <1>2, DrainChunkKeeps DEF DrainChunk, List!listVars
<1>3. CASE FinalChunk
  BY <1>3, FinalChunkKeeps DEF FinalChunk, List!listVars
<1>4. CASE FinalStops
  BY <1>4, FinalStopsKeeps DEF FinalStops, List!listVars
<1>5. CASE ReadFails \/ DrainStops \/ AddedAll \/ EndOfFile \/ UNCHANGED vars
  BY <1>5, ControlKeeps DEF List!listVars
<1>6. CASE AddPiece
  <2>1. /\ Consumed < Len(file)
        /\ Consumed' = Consumed + ChunkSize(file, Consumed)
        /\ pieces' = Append(pieces,
                       SubSeq(file, Consumed + 1, Consumed + ChunkSize(file, Consumed)))
    BY <1>6, AddPieceEmits
  <2>2. file' = file
    BY <1>6 DEF AddPiece
  <2> QED BY <2>1, <2>2, SameSizes DEF List!Emit
<1> QED BY <1>1, <1>2, <1>3, <1>4, <1>5, <1>6 DEF Next, Work, Ended

\* For every file, every way the reads split it, every hash function and all
\* limits, what convert hands to XorbBuilder is what Chunker::chunk_data
\* would cut, chunk by chunk ("Matches the oneshot Chunker::chunk_data logic
\* exactly").
THEOREM Refinement == Spec => ImplementsOneShot
<1>1. Init => List!Start
  <2> SUFFICES ASSUME Init PROVE List!Start
    OBVIOUS
  <2>1. file \in Seq(Byte) /\ pieces = << >> /\ fed = 0 /\ chunk_data_buf = << >>
    BY StreamingAssumption DEF Init
  <2>2. Len(chunk_data_buf) = 0
    BY <2>1, EmptySeq
  <2>3. fed = 0
    BY <2>1
  <2>4. Consumed = 0
    BY <2>2, <2>3 DEF Consumed
  <2> QED BY <2>1, <2>4 DEF List!Start
<1>2. IInv /\ [Next]_vars => [List!Emit]_(List!listVars)
  BY StepEmits
<1> QED BY <1>1, <1>2, Invariance, PTL DEF Spec, ImplementsOneShot, List!ListSpec

-----------------------------------------------------------------------------
\* f[o] is G[o] followed by what f is at N[o], up to b.
Collects(f, b, G, N) ==
  \A o \in 0..b : f[o] = IF o = b THEN << >> ELSE <<G[o]>> \o f[N[o]]

\* Where every place leads to a later one, there is such a function.
LEMMA RecursionDown ==
  ASSUME NEW b \in Nat, NEW A,
         NEW G \in [0..b -> A], NEW N \in [0..b -> Int],
         \A o \in 0..b : o # b => N[o] > o /\ N[o] <= b
  PROVE  \E f \in [0..b -> Seq(A)] : Collects(f, b, G, N)
<1> DEFINE Good(f, k) == /\ f \in [(b - k)..b -> Seq(A)]
                         /\ \A o \in (b - k)..b :
                              f[o] = IF o = b THEN << >> ELSE <<G[o]>> \o f[N[o]]
           Built(k) == \E f : Good(f, k)
           T == {k \in 0..b : ~Built(k)}
<1> HIDE DEF Built
<1>0. b \in Nat /\ b - b = 0
  OBVIOUS
<1>1. CASE Built(b)
  <2>2. PICK f : Good(f, b)
    BY <1>1 DEF Built
  <2> QED BY <1>0, <2>2 DEF Collects
<1>2. CASE ~Built(b)
  <2>a. b \in 0..b
    BY <1>0
  <2>b. b \in T
    BY <1>2, <2>a
  <2>0. T # {}
    BY <2>b
  <2>1. PICK k \in T : \A j \in T : k <= j
    <3>1. T \subseteq Nat
      OBVIOUS
    <3> QED BY <2>0, <3>1, LeastNumber
  <2>2. k \in 0..b /\ b - k \in 0..b /\ ~Built(k)
    BY <1>0
  <2>3. CASE k = 0
    <3> DEFINE g == [o \in b..b |-> << >>]
    <3>1. g \in [b..b -> Seq(A)] /\ \A o \in b..b : o = b /\ g[o] = << >>
      OBVIOUS
    <3>2. b - 0 = b
      OBVIOUS
    <3> HIDE DEF g
    <3>3. Good(g, 0)
      BY <3>1, <3>2
    <3>4. Built(0)
      BY <3>3 DEF Built
    <3> QED BY <2>2, <2>3, <3>4
  <2>4. CASE k # 0
    <3>1. k \in Nat /\ k >= 1 /\ k - 1 \in 0..b
      BY <2>2, <2>4
    <3>a. Built(k - 1)
      BY <2>1, <3>1
    <3>2. PICK f : Good(f, k - 1)
      BY <3>a DEF Built
    <3> DEFINE c == b - k
               g == [o \in c..b |-> IF o > c THEN f[o]
                                    ELSE IF c = b THEN << >> ELSE <<G[c]>> \o f[N[c]]]
    <3>3. b - (k - 1) = c + 1 /\ c \in Int /\ c \in 0..b /\ c < b
      BY <2>2, <3>1
    <3>4. f \in [(c + 1)..b -> Seq(A)]
      BY <3>2, <3>3
    <3> HIDE DEF c
    <3>5. c # b => N[c] \in (c + 1)..b
      BY <3>3
    <3>6. g \in [c..b -> Seq(A)]
      <4>1. ASSUME NEW o \in c..b PROVE g[o] \in Seq(A)
        <5>1. CASE o > c
          BY <3>3, <3>4, <5>1
        <5>2. CASE o = c
          <6>1. c # b => f[N[c]] \in Seq(A) /\ G[c] \in A
            BY <3>3, <3>4, <3>5
          <6>2. c # b => <<G[c]>> \o f[N[c]] \in Seq(A)
            BY <6>1
          <6> QED BY <3>3, <5>2, <6>2
        <5> QED BY <3>3, <5>1, <5>2
      <4> QED BY <4>1
    <3>7. ASSUME NEW o \in c..b
          PROVE  g[o] = IF o = b THEN << >> ELSE <<G[o]>> \o g[N[o]]
      <4>1. CASE o > c
        <5>1. o \in (c + 1)..b
          BY <3>3, <4>1
        <5>2. o \in 0..b
          BY <3>3, <5>1
        <5>3. f[o] = IF o = b THEN << >> ELSE <<G[o]>> \o f[N[o]]
          BY <3>2, <3>3, <5>1
        <5>4. o # b => N[o] \in (c + 1)..b
          BY <3>3, <5>1, <5>2
        <5>5. o # b => g[N[o]] = f[N[o]]
          BY <3>3, <5>4
        <5>6. g[o] = f[o]
          BY <3>3, <5>1
        <5> QED BY <5>3, <5>5, <5>6
      <4>2. CASE o = c
        <5>1. c # b => g[N[c]] = f[N[c]]
          BY <3>3, <3>5
        <5>2. g[c] = IF c = b THEN << >> ELSE <<G[c]>> \o f[N[c]]
          BY <3>3
        <5> QED BY <4>2, <5>1, <5>2
      <4> QED BY <3>3, <4>1, <4>2
    <3> HIDE DEF g
    <3>8. Good(g, k)
      BY <3>6, <3>7 DEF c
    <3>9. Built(k)
      BY <3>8 DEF Built
    <3> QED BY <2>2, <3>9
  <2> QED BY <2>3, <2>4
<1> QED BY <1>1, <1>2

\* chunk_data's recursion: the chunks from an offset are the one there and
\* the chunks behind it.
LEMMA ChunksFromIs ==
  ASSUME NEW s \in Seq(Byte)
  PROVE  /\ ChunksFrom(s) \in [0..Len(s) -> Seq(Seq(Byte))]
         /\ ChunksFrom(s)[Len(s)] = << >>
         /\ \A o \in 0..Len(s) : o # Len(s) =>
              LET next == o + ChunkSize(s, o)
              IN  ChunksFrom(s)[o] = <<SubSeq(s, o + 1, next)>> \o ChunksFrom(s)[next]
<1> DEFINE n == Len(s)
           After(o) == o + ChunkSize(s, o)
           Is(f) == f = [o \in 0..n |-> IF o = n THEN << >>
                                       ELSE <<SubSeq(s, o + 1, After(o))>> \o f[After(o)]]
           G == [o \in 0..n |-> IF o = n THEN << >> ELSE SubSeq(s, o + 1, After(o))]
           N == [o \in 0..n |-> IF o = n THEN n ELSE After(o)]
           A == Seq(Byte)
<1>1. n \in Nat
  BY LenProperties
<1>2. ASSUME NEW o \in 0..n, o # n
      PROVE  After(o) \in Int /\ After(o) > o /\ After(o) <= n
  <2>1. o \in Nat /\ o < Len(s)
    BY <1>1, <1>2
  <2>2. ChunkSize(s, o) \in 1..(Len(s) - o)
    BY <2>1, ChunkSizeRange
  <2> QED BY <1>1, <2>1, <2>2
<1>3. ASSUME NEW o \in 0..n, o # n
      PROVE  SubSeq(s, o + 1, After(o)) \in Seq(Byte)
  <2>1. o \in Nat /\ After(o) \in 0..Len(s) /\ o <= After(o)
    BY <1>1, <1>2, <1>3
  <2> HIDE DEF After
  <2> QED BY <2>1, PartOf
<1> HIDE DEF After, n
<1>4. PICK f \in [0..n -> Seq(A)] : Collects(f, n, G, N)
  <2>3. G \in [0..n -> A]
    BY <1>3
  <2>4. N \in [0..n -> Int]
    BY <1>1, <1>2
  <2>5. \A o \in 0..n : o # n => N[o] > o /\ N[o] <= n
    BY <1>2
  <2> HIDE DEF G, N, A
  <2> QED BY <1>1, <2>3, <2>4, <2>5, RecursionDown
<1>5. Is(f)
  <2>1. ASSUME NEW o \in 0..n
        PROVE  f[o] = IF o = n THEN << >> ELSE <<SubSeq(s, o + 1, After(o))>> \o f[After(o)]
    BY <1>4 DEF Collects
  <2> QED BY <1>4, <2>1
<1>6. ChunksFrom(s) = CHOOSE g : Is(g)
  BY DEF ChunksFrom, After, n
<1> DEFINE c == ChunksFrom(s)
<1>7. Is(c)
  <2> HIDE DEF Is
  <2> QED BY <1>5, <1>6
<1> HIDE DEF c
<1>8. DOMAIN c = 0..n /\ \A o \in 0..n :
        c[o] = IF o = n THEN << >> ELSE <<SubSeq(s, o + 1, After(o))>> \o c[After(o)]
  BY <1>7
<1>9. \A o \in 0..n : c[o] \in Seq(Seq(Byte))
  <2> DEFINE T == {k \in 0..n : c[n - k] \notin Seq(Seq(Byte))}
  <2>1. SUFFICES ASSUME T # {} PROVE FALSE
    <3>1. ASSUME NEW o \in 0..n PROVE c[o] \in Seq(Seq(Byte))
      <4>1. n - o \in 0..n /\ n - (n - o) = o
        BY <1>1
      <4> QED BY <2>1, <4>1
    <3> QED BY <3>1
  <2>2. T \subseteq Nat
    OBVIOUS
  <2>3. PICK k \in T : \A j \in T : k <= j
    BY <2>1, <2>2, LeastNumber
  <2>4. k \in 0..n /\ n - k \in 0..n /\ c[n - k] \notin Seq(Seq(Byte))
    BY <1>1, <2>3
  <2> DEFINE o == n - k
             m == n - After(o)
  <2>5. o # n
    <3>1. n \in 0..n
      BY <1>1
    <3>2. c[n] = << >>
      BY <1>8, <3>1
    <3>3. c[n] \in Seq(Seq(Byte))
      BY <3>2
    <3> QED BY <2>4, <3>3
  <2>6. m \in 0..n /\ m < k /\ n - m = After(o)
    BY <1>1, <1>2, <2>4, <2>5
  <2>7. c[After(o)] \in Seq(Seq(Byte))
    <3> HIDE DEF m, o
    <3>1. m \notin T
      BY <2>3, <2>4, <2>6
    <3> QED BY <2>6, <3>1
  <2>8. SubSeq(s, o + 1, After(o)) \in Seq(Byte)
    BY <1>3, <2>4, <2>5
  <2>9. c[o] = <<SubSeq(s, o + 1, After(o))>> \o c[After(o)]
    BY <1>8, <2>4, <2>5
  <2> HIDE DEF o
  <2>10. c[o] \in Seq(Seq(Byte))
    BY <2>7, <2>8, <2>9
  <2> QED BY <2>4, <2>10 DEF o
<1>10. c \in [0..n -> Seq(Seq(Byte))]
  <2>1. c = [o \in 0..n |-> c[o]]
    BY <1>7
  <2> QED BY <1>9, <2>1
<1>11. c[n] = << >>
  <2>1. n \in 0..n
    BY <1>1
  <2> QED BY <1>8, <2>1
<1>12. \A o \in 0..n : o # n => c[o] = <<SubSeq(s, o + 1, After(o))>> \o c[After(o)]
  BY <1>8
<1> QED BY <1>10, <1>11, <1>12 DEF c, n, After

\* What has been cut off and what chunk_data would still cut are its chunks.
Prefix == pieces \o ChunksFrom(file)[Consumed] = ChunkData(file)

\* A step hands the next chunk of the one-shot chunker to the builder, or
\* leaves the pieces and the place in the file alone.
LEMMA StepEmitsChunk ==
  ASSUME IInv, [Next]_vars
  PROVE  \/ UNCHANGED <<file, Consumed, pieces>>
         \/ /\ Consumed < Len(file)
            /\ Consumed' = Consumed + ChunkSize(file, Consumed)
            /\ pieces' = Append(pieces, SubSeq(file, Consumed + 1, Consumed'))
            /\ file' = file
  BY StepEmits, SameSizes DEF List!Emit, List!listVars

\* The chunk at the place of convert.
LEMMA NextChunk ==
  ASSUME IInv, Consumed < Len(file)
  PROVE  LET next == Consumed + ChunkSize(file, Consumed)
         IN  /\ Consumed \in Nat /\ next \in Nat /\ Consumed < next /\ next <= Len(file)
             /\ SubSeq(file, Consumed + 1, next) \in Seq(Byte)
<1> DEFINE next == Consumed + ChunkSize(file, Consumed)
<1>1. /\ file \in Seq(Byte) /\ pieces \in Seq(Seq(Byte))
      /\ Len(file) \in Nat /\ Consumed \in Nat
  BY Lengths DEF IInv, Typed
<1>2. ChunkSize(file, Consumed) \in 1..(Len(file) - Consumed)
  BY <1>1, ChunkSizeRange
<1>3. next \in 0..Len(file) /\ Consumed < next /\ next \in Nat /\ Consumed <= next
  BY <1>1, <1>2
<1> HIDE DEF next
<1>4. SubSeq(file, Consumed + 1, next) \in Seq(Byte)
  BY <1>1, <1>3, PartOf
<1> QED BY <1>1, <1>3, <1>4 DEF next

\* No step changes what the pieces and the rest of the chunks come to.
LEMMA PrefixKeeps == IInv /\ Prefix /\ [Next]_vars => Prefix'
<1> SUFFICES ASSUME IInv, Prefix, [Next]_vars PROVE Prefix'
  OBVIOUS
<1>1. CASE UNCHANGED <<file, Consumed, pieces>>
  BY <1>1 DEF Prefix
<1>2. CASE /\ Consumed < Len(file)
           /\ Consumed' = Consumed + ChunkSize(file, Consumed)
           /\ pieces' = Append(pieces, SubSeq(file, Consumed + 1, Consumed'))
           /\ file' = file
  <2> DEFINE next == Consumed + ChunkSize(file, Consumed)
             x == SubSeq(file, Consumed + 1, next)
             rest == ChunksFrom(file)[next]
             all == ChunksFrom(file)[Consumed]
             B == Seq(Byte)
  <2>1. Consumed \in 0..Len(file) /\ next \in 0..Len(file) /\ x \in B
    BY <1>2, NextChunk
  <2>2. file \in Seq(Byte) /\ pieces \in Seq(B)
    BY DEF IInv, Typed
  <2>3. rest \in Seq(B) /\ all = <<x>> \o rest
    <3>1. /\ ChunksFrom(file) \in [0..Len(file) -> Seq(Seq(Byte))]
          /\ \A o \in 0..Len(file) : o # Len(file) =>
               ChunksFrom(file)[o] = <<SubSeq(file, o + 1, o + ChunkSize(file, o))>>
                                       \o ChunksFrom(file)[o + ChunkSize(file, o)]
      BY <2>2, ChunksFromIs
    <3>2. Consumed # Len(file)
      BY <1>2, <2>1
    <3> QED BY <2>1, <3>1, <3>2
  <2>4. pieces' = Append(pieces, x) /\ Consumed' = next /\ file' = file
    BY <1>2
  <2>5. Prefix' <=> Append(pieces, x) \o rest = ChunkData(file)
    BY <2>4 DEF Prefix
  <2>6. pieces \o all = ChunkData(file)
    BY DEF Prefix
  <2> HIDE DEF x, rest, all, next, B
  <2>7. Append(pieces, x) = pieces \o <<x>> /\ <<x>> \in Seq(B)
    BY <2>1, <2>2, AppendIsConcat
  <2>8. (pieces \o <<x>>) \o rest = pieces \o (<<x>> \o rest)
    BY <2>2, <2>3, <2>7, ConcatAssociative
  <2>9. Append(pieces, x) \o rest = pieces \o all
    BY <2>3, <2>7, <2>8, Zenon
  <2> QED BY <2>5, <2>6, <2>9, Zenon
<1> QED BY <1>1, <1>2, StepEmitsChunk

\* When the conversion is done the file has been cut up completely, exactly
\* as Chunker::chunk_data cuts it in one go: for every file, every way its
\* bytes arrive and every hash.  (That it gets there is ConversionEnds.)
THEOREM DoneIsOneShot == Spec => [](pc = "done" => CutCompletely)
<1>1. Init => Prefix
  <2> SUFFICES ASSUME Init PROVE Prefix
    OBVIOUS
  <2>1. IInv /\ file \in Seq(Byte)
    BY InitInv DEF IInv, Typed
  <2>2. Consumed = 0
    <3>1. Len(chunk_data_buf) = 0 /\ fed = 0
      BY EmptySeq DEF Init
    <3> QED BY <3>1 DEF Consumed
  <2>3. ChunksFrom(file)[0] \in Seq(Seq(Byte))
    <3>1. 0 \in 0..Len(file)
      BY <2>1, LenProperties
    <3> QED BY <2>1, <3>1, ChunksFromIs
  <2>4. << >> \o ChunksFrom(file)[0] = ChunksFrom(file)[0]
    BY <2>3, ConcatEmptySeq
  <2>5. pieces = << >>
    BY DEF Init
  <2> QED BY <2>2, <2>4, <2>5 DEF Prefix, ChunkData
<1>2. IInv /\ Prefix => (pc = "done" => CutCompletely)
  <2> SUFFICES ASSUME IInv, Prefix, pc = "done" PROVE CutCompletely
    OBVIOUS
  <2>1. /\ file \in Seq(Byte) /\ pieces \in Seq(Seq(Byte)) /\ chunk_data_buf \in Seq(Byte)
        /\ chunks = << >> /\ total_offset = fed /\ fed = Len(file)
    BY DEF IInv, Typed
  <2>2. Consumed = fed /\ Len(chunk_data_buf) = fed - Consumed /\ fed \in Nat
    <3>1. Len(chunks) = 0
      BY <2>1, EmptySeq
    <3>2. Cut(1) = total_offset
      BY <3>1 DEF Cut, NextCut
    <3> QED BY <2>1, <3>2, Lengths DEF IInv, Chain
  <2>3. chunk_data_buf = << >>
    BY <2>1, <2>2, EmptySeq
  <2>4. ChunksFrom(file)[Consumed] = << >>
    BY <2>1, <2>2, ChunksFromIs
  <2>5. pieces \o << >> = pieces
    BY <2>1, ConcatEmptySeq
  <2> QED BY <2>3, <2>4, <2>5 DEF CutCompletely, Prefix
<1> QED BY <1>1, <1>2, Invariance, PrefixKeeps, PTL DEF Spec

\* Whatever the reads, the pieces that the builder has been given are the
\* bytes of the file up to where convert is, in their order and each once.
THEOREM PiecesAreTheFile == Spec => []PiecesTile
<1>1. Init => PiecesTile
  <2> SUFFICES ASSUME Init PROVE PiecesTile
    OBVIOUS
  <2>1. Consumed = 0 /\ Len(pieces) = 0
    <3>1. Len(chunk_data_buf) = 0 /\ Len(pieces) = 0 /\ fed = 0
      BY EmptySeq DEF Init
    <3> QED BY <3>1 DEF Consumed
  <2>2. <<0>> \in Seq(Nat) /\ Len(<<0>>) = 1 /\ <<0>>[1] = 0
    OBVIOUS
  <2>3. /\ Len(<<0>>) = Len(pieces) + 1
        /\ <<0>>[1] = 0 /\ <<0>>[Len(pieces) + 1] = Consumed
        /\ \A i \in 1..Len(pieces) : FALSE
    BY <2>1, <2>2
  <2> DEFINE cut == <<0>>
  <2>4. cut \in Seq(Nat)
    OBVIOUS
  <2> HIDE DEF cut
  <2> QED BY <2>3, <2>4 DEF PiecesTile, cut
<1>2. IInv /\ PiecesTile /\ [Next]_vars => PiecesTile'
  <2> SUFFICES ASSUME IInv, PiecesTile, [Next]_vars PROVE PiecesTile'
    OBVIOUS
  <2>1. CASE UNCHANGED <<file, Consumed, pieces>>
    BY <2>1 DEF PiecesTile
  <2>2. CASE /\ Consumed < Len(file)
             /\ Consumed' = Consumed + ChunkSize(file, Consumed)
             /\ pieces' = Append(pieces, SubSeq(file, Consumed + 1, Consumed'))
             /\ file' = file
    <3> DEFINE next == Consumed + ChunkSize(file, Consumed)
               x == SubSeq(file, Consumed + 1, next)
               m == Len(pieces)
               B == Seq(Byte)
    <3>1. Consumed \in Nat /\ next \in Nat /\ Consumed < next /\ x \in B
      BY <2>2, NextChunk
    <3>2. pieces \in Seq(B) /\ m \in Nat
      BY LenProperties DEF IInv, Typed
    <3>3. pieces' = Append(pieces, x) /\ Consumed' = next /\ file' = file
      BY <2>2
    <3> HIDE DEF next, B
    <3>4. PICK cut \in Seq(Nat) :
            /\ Len(cut) = m + 1
            /\ cut[1] = 0
            /\ cut[m + 1] = Consumed
            /\ \A i \in 1..m : cut[i] < cut[i + 1] /\ pieces[i] = SubSeq(file, cut[i] + 1, cut[i + 1])
      BY DEF PiecesTile
    <3> HIDE DEF m, x
    <3>5. /\ Len(Append(pieces, x)) = m + 1
          /\ \A i \in 1..m : Append(pieces, x)[i] = pieces[i]
          /\ Append(pieces, x)[m + 1] = x
      BY <3>1, <3>2, AppendProperties DEF m
    <3> DEFINE new == Append(cut, next)
    <3>6. /\ new \in Seq(Nat) /\ Len(new) = m + 2
          /\ \A i \in 1..(m + 1) : new[i] = cut[i]
          /\ new[m + 2] = next
      BY <3>1, <3>2, <3>4, AppendProperties
    <3> HIDE DEF new
    <3>7. ASSUME NEW i \in 1..(m + 1)
          PROVE  new[i] < new[i + 1] /\ pieces'[i] = SubSeq(file', new[i] + 1, new[i + 1])
      <4>1. CASE i = m + 1
        <5>1. new[i] = Consumed /\ new[i + 1] = next
          BY <3>2, <3>4, <3>6, <4>1
        <5>2. pieces'[i] = SubSeq(file, Consumed + 1, next)
          BY <3>3, <3>5, <4>1 DEF x
        <5> QED BY <3>1, <3>3, <5>1, <5>2
      <4>2. CASE i # m + 1
        <5>1. i \in 1..m /\ i + 1 \in 1..(m + 1)
          BY <3>2, <4>2
        <5>2. new[i] = cut[i] /\ new[i + 1] = cut[i + 1]
          BY <3>6, <5>1
        <5>3. pieces'[i] = pieces[i]
          BY <3>3, <3>5, <5>1
        <5> QED BY <3>3, <3>4, <5>1, <5>2, <5>3
      <4> QED BY <4>1, <4>2
    <3>8. new[1] = 0
      BY <3>2, <3>4, <3>6
    <3>9. Len(pieces') = m + 1
      BY <3>3, <3>5
    <3>10. new[Len(pieces') + 1] = Consumed' /\ Len(new) = Len(pieces') + 1
      BY <3>2, <3>3, <3>6, <3>9
    <3>11. \A i \in 1..Len(pieces') :
             new[i] < new[i + 1] /\ pieces'[i] = SubSeq(file', new[i] + 1, new[i + 1])
      BY <3>7, <3>9
    <3>12. new \in Seq(Nat)
      BY <3>6
    <3> QED BY <3>8, <3>10, <3>11, <3>12 DEF PiecesTile
  <2> QED BY <2>1, <2>2, StepEmitsChunk
<1> QED BY <1>1, <1>2, Invariance, PTL DEF Spec

-----------------------------------------------------------------------------
(* Sums and concatenations, and the chunks of a file.                      *)

\* Induction over a set of numbers: the provers cannot take a predicate as an
\* argument, but a set they can.
LEMMA SetInduction ==
  ASSUME NEW T, 0 \in T, \A k \in Nat : k \in T => k + 1 \in T
  PROVE  \A k \in Nat : k \in T
<1> DEFINE U == Nat \ T
<1>1. SUFFICES ASSUME U # {} PROVE FALSE
  OBVIOUS
<1>2. PICK x \in U : \A y \in U : x <= y
  <2>1. U \subseteq Nat
    OBVIOUS
  <2> HIDE DEF U
  <2> QED BY <1>1, <2>1, LeastNumber
<1>3. x \in Nat /\ x \notin T /\ x # 0
  BY <1>2
<1>4. x - 1 \in Nat /\ x - 1 \in T
  BY <1>2, <1>3
<1>5. (x - 1) + 1 = x
  BY <1>3
<1> QED BY <1>3, <1>4, <1>5

\* The running sums of a sequence.
LEMMA SumExists ==
  ASSUME NEW n \in Nat, NEW s
  PROVE  \E f : f = [i \in 0..n |-> IF i = 0 THEN 0 ELSE f[i - 1] + s[i]]
<1> DEFINE Good(f, k) == f = [i \in 0..k |-> IF i = 0 THEN 0 ELSE f[i - 1] + s[i]]
           Good_(k) == \E f : Good(f, k)
           T == {k \in Nat : Good_(k)}
<1> HIDE DEF Good_
<1>1. 0 \in T
  <2>1. Good([i \in 0..0 |-> 0], 0)
    OBVIOUS
  <2> QED BY <2>1 DEF Good_
<1>2. ASSUME NEW k \in Nat, k \in T PROVE k + 1 \in T
  <2>1. PICK f : Good(f, k)
    BY <1>2 DEF Good_
  <2> DEFINE v == f[k] + s[(k + 1)]
             g == [i \in 0..(k + 1) |-> IF i = k + 1 THEN v ELSE f[i]]
  <2>2. ASSUME NEW i \in 0..(k + 1)
        PROVE  g[i] = IF i = 0 THEN 0 ELSE g[i - 1] + s[i]
    <3>1. CASE i = 0
      BY <2>1, <3>1
    <3>2. CASE i = k + 1
      <4>1. g[i] = v /\ i # 0 /\ i - 1 = k /\ g[k] = f[k]
        BY <3>2
      <4> HIDE DEF g
      <4> QED BY <3>2, <4>1
    <3>3. CASE i # 0 /\ i # k + 1
      <4>1. i \in 0..k /\ i - 1 \in 0..k /\ i - 1 # k + 1 /\ i - 1 \in 0..(k + 1)
        BY <3>3
      <4>2. g[i] = f[i] /\ g[i - 1] = f[i - 1]
        BY <3>3, <4>1
      <4>3. f[i] = f[i - 1] + s[i]
        BY <2>1, <3>3, <4>1
      <4> HIDE DEF g
      <4> QED BY <3>3, <4>2, <4>3
    <3> QED BY <3>1, <3>2, <3>3
  <2>3. g = [i \in 0..(k + 1) |-> g[i]]
    OBVIOUS
  <2> HIDE DEF g, v
  <2>4. Good(g, k + 1)
    BY <2>2, <2>3
  <2>5. Good_(k + 1)
    BY <2>4 DEF Good_
  <2> QED BY <2>5
<1>3. n \in T
  <2> HIDE DEF T
  <2> QED BY <1>1, <1>2, SetInduction
<1> QED BY <1>3 DEF Good_

\* The running concatenations of a sequence of sequences.
LEMMA ConcatExists ==
  ASSUME NEW n \in Nat, NEW s
  PROVE  \E f : f = [i \in 0..n |-> IF i = 0 THEN << >> ELSE f[i - 1] \o s[i]]
<1> DEFINE Good(f, k) == f = [i \in 0..k |-> IF i = 0 THEN << >> ELSE f[i - 1] \o s[i]]
           Good_(k) == \E f : Good(f, k)
           T == {k \in Nat : Good_(k)}
<1> HIDE DEF Good_
<1>1. 0 \in T
  <2>1. Good([i \in 0..0 |-> << >>], 0)
    OBVIOUS
  <2> QED BY <2>1 DEF Good_
<1>2. ASSUME NEW k \in Nat, k \in T PROVE k + 1 \in T
  <2>1. PICK f : Good(f, k)
    BY <1>2 DEF Good_
  <2> DEFINE v == f[k] \o s[(k + 1)]
             g == [i \in 0..(k + 1) |-> IF i = k + 1 THEN v ELSE f[i]]
  <2>2. ASSUME NEW i \in 0..(k + 1)
        PROVE  g[i] = IF i = 0 THEN << >> ELSE g[i - 1] \o s[i]
    <3>1. CASE i = 0
      BY <2>1, <3>1
    <3>2. CASE i = k + 1
      <4>1. g[i] = v /\ i # 0 /\ i - 1 = k /\ g[k] = f[k]
        BY <3>2
      <4> HIDE DEF g
      <4> QED BY <3>2, <4>1
    <3>3. CASE i # 0 /\ i # k + 1
      <4>1. i \in 0..k /\ i - 1 \in 0..k /\ i - 1 # k + 1 /\ i - 1 \in 0..(k + 1)
        BY <3>3
      <4>2. g[i] = f[i] /\ g[i - 1] = f[i - 1]
        BY <3>3, <4>1
      <4>3. f[i] = f[i - 1] \o s[i]
        BY <2>1, <3>3, <4>1
      <4> HIDE DEF g
      <4> QED BY <3>3, <4>2, <4>3
    <3> QED BY <3>1, <3>2, <3>3
  <2>3. g = [i \in 0..(k + 1) |-> g[i]]
    OBVIOUS
  <2> HIDE DEF g, v
  <2>4. Good(g, k + 1)
    BY <2>2, <2>3
  <2>5. Good_(k + 1)
    BY <2>4 DEF Good_
  <2> QED BY <2>5
<1>3. n \in T
  <2> HIDE DEF T
  <2> QED BY <1>1, <1>2, SetInduction
<1> QED BY <1>3 DEF Good_

\* SumSeq is the last of any running sums.
LEMMA SumIs ==
  ASSUME NEW n \in Nat, NEW s \in [1..n -> Int],
         NEW f \in [0..n -> Int], f[0] = 0, \A i \in 1..n : f[i] = f[i - 1] + s[i]
  PROVE  SumSeq(s) = f[n]
<1> DEFINE Is(g) == g = [i \in 0..n |-> IF i = 0 THEN 0 ELSE g[i - 1] + s[i]]
           c == CHOOSE g : Is(g)
<1>1. Len(s) = n
  OBVIOUS
<1>2. SumSeq(s) = c[n]
  BY <1>1 DEF SumSeq
<1>3. \E g : Is(g)
  BY SumExists
<1>4. Is(c)
  <2> HIDE DEF Is
  <2> QED BY <1>3
<1> HIDE DEF c
<1>5. c[0] = 0 /\ \A i \in 1..n : c[i] = c[i - 1] + s[i]
  BY <1>4
<1> HIDE DEF Is
<1> DEFINE T == {k \in Nat : k <= n => c[k] = f[k]}
<1>6. 0 \in T
  BY <1>5
<1>7. ASSUME NEW k \in Nat, k \in T PROVE k + 1 \in T
  <2>1. SUFFICES ASSUME k + 1 <= n PROVE c[k + 1] = f[k + 1]
    OBVIOUS
  <2>2. k + 1 \in 1..n /\ (k + 1) - 1 = k /\ c[k] = f[k]
    BY <1>7, <2>1
  <2> QED BY <1>5, <2>2
<1>8. n \in T
  <2> HIDE DEF T
  <2> QED BY <1>6, <1>7, SetInduction
<1> QED BY <1>2, <1>8

\* The first i numbers of a sequence.
First(s, i) == [k \in 1..i |-> s[k]]

\* The sums of the beginnings of a sequence are running sums.
LEMMA SumSteps ==
  ASSUME NEW n \in Nat, NEW s \in [1..n -> Int]
  PROVE  /\ \A i \in 0..n : SumSeq(First(s, i)) \in Int
         /\ SumSeq(First(s, 0)) = 0
         /\ \A i \in 1..n : SumSeq(First(s, i)) = SumSeq(First(s, i - 1)) + s[i]
         /\ SumSeq(First(s, n)) = SumSeq(s)
<1>1. PICK f : f = [i \in 0..n |-> IF i = 0 THEN 0 ELSE f[i - 1] + s[i]]
  BY SumExists
<1>2. f[0] = 0 /\ \A i \in 1..n : f[i] = f[i - 1] + s[i]
  BY <1>1
<1>3. \A k \in Nat : k <= n => f[k] \in Int
  <2> DEFINE T == {k \in Nat : k <= n => f[k] \in Int}
  <2>1. 0 \in T
    BY <1>2
  <2>2. ASSUME NEW k \in Nat, k \in T PROVE k + 1 \in T
    <3>1. SUFFICES ASSUME k + 1 <= n PROVE f[k + 1] \in Int
      OBVIOUS
    <3>2. k + 1 \in 1..n /\ (k + 1) - 1 = k /\ f[k] \in Int
      BY <2>2, <3>1
    <3> QED BY <1>2, <3>2
  <2>3. \A k \in Nat : k \in T
    <3> HIDE DEF T
    <3> QED BY <2>1, <2>2, SetInduction
  <2> QED BY <2>3
<1>4. ASSUME NEW i \in 0..n PROVE SumSeq(First(s, i)) = f[i]
  <2> DEFINE g == [k \in 0..i |-> f[k]]
  <2>1. First(s, i) \in [1..i -> Int] /\ \A k \in 1..i : First(s, i)[k] = s[k]
    BY DEF First
  <2>2. g \in [0..i -> Int] /\ g[0] = 0 /\ g[i] = f[i]
    <3>1. \A k \in 0..i : f[k] \in Int
      BY <1>3
    <3> QED BY <1>2, <3>1
  <2>3. \A k \in 1..i : g[k] = g[k - 1] + First(s, i)[k]
    <3> TAKE k \in 1..i
    <3>1. g[k] = f[k] /\ g[k - 1] = f[k - 1] /\ f[k] = f[k - 1] + s[k]
      BY <1>2
    <3> QED BY <2>1, <3>1
  <2> HIDE DEF g
  <2>4. SumSeq(First(s, i)) = g[i]
    <3>1. i \in Nat
      OBVIOUS
    <3> QED BY <2>1, <2>2, <2>3, <3>1, SumIs
  <2> QED BY <2>2, <2>4
<1>5. First(s, n) = s
  BY DEF First
<1>6. \A i \in 1..n : SumSeq(First(s, i)) = SumSeq(First(s, i - 1)) + s[i]
  <2> TAKE i \in 1..n
  <2>1. i \in 0..n /\ i - 1 \in 0..n
    OBVIOUS
  <2> QED BY <1>2, <1>4, <2>1
<1>7. 0 \in 0..n /\ n \in 0..n
  OBVIOUS
<1>8. \A i \in 0..n : SumSeq(First(s, i)) \in Int
  BY <1>3, <1>4
<1> QED BY <1>2, <1>4, <1>5, <1>6, <1>7, <1>8

\* Sums of numbers that are not negative are not, and do not go down.
LEMMA SumNat ==
  ASSUME NEW n \in Nat, NEW s \in [1..n -> Nat]
  PROVE  /\ SumSeq(s) \in Nat
         /\ \A i, j \in 0..n : i <= j =>
              /\ SumSeq(First(s, i)) \in Nat
              /\ SumSeq(First(s, i)) <= SumSeq(First(s, j))
<1> DEFINE S(i) == SumSeq(First(s, i))
<1>1. s \in [1..n -> Int]
  OBVIOUS
<1>2. S(0) = 0 /\ S(n) = SumSeq(s) /\ \A i \in 1..n : S(i) = S(i - 1) + s[i]
  BY <1>1, SumSteps
<1> HIDE DEF S
<1>3. ASSUME NEW i \in 0..n, NEW b \in Nat, S(i) >= b, S(i) \in Nat
      PROVE  \A j \in i..n : S(j) \in Nat /\ S(j) >= b
  <2> DEFINE T == {k \in Nat : i + k <= n => S(i + k) \in Nat /\ S(i + k) >= b}
  <2>1. 0 \in T
    BY <1>3
  <2>2. ASSUME NEW k \in Nat, k \in T PROVE k + 1 \in T
    <3>1. SUFFICES ASSUME i + (k + 1) <= n
                   PROVE  S(i + (k + 1)) \in Nat /\ S(i + (k + 1)) >= b
      OBVIOUS
    <3>2. /\ i + (k + 1) \in 1..n /\ (i + (k + 1)) - 1 = i + k
          /\ S(i + k) \in Nat /\ S(i + k) >= b
      BY <2>2, <3>1
    <3>3. S(i + (k + 1)) = S(i + k) + s[i + (k + 1)] /\ s[i + (k + 1)] \in Nat
      BY <1>2, <3>2
    <3> QED BY <3>2, <3>3
  <2>3. \A k \in Nat : k \in T
    <3> HIDE DEF T
    <3> QED BY <2>1, <2>2, SetInduction
  <2> TAKE j \in i..n
  <2>4. j - i \in Nat /\ i + (j - i) = j /\ j <= n
    OBVIOUS
  <2>5. j - i \in T
    BY <2>3, <2>4
  <2> QED BY <2>4, <2>5
<1>4. \A j \in 0..n : S(j) \in Nat
  <2>1. 0 \in 0..n /\ S(0) >= 0 /\ S(0) \in Nat
    BY <1>2
  <2> QED BY <1>3, <2>1
<1>5. ASSUME NEW i \in 0..n, NEW j \in 0..n, i <= j PROVE S(i) <= S(j)
  <2>1. S(i) \in Nat /\ S(i) >= S(i) /\ j \in i..n
    BY <1>4, <1>5
  <2>2. S(j) >= S(i) /\ S(j) \in Nat
    BY <1>3, <2>1
  <2> QED BY <2>1, <2>2
<1>6. n \in 0..n
  OBVIOUS
<1>7. SumSeq(s) \in Nat
  BY <1>2, <1>4, <1>6
<1>8. \A i, j \in 0..n : i <= j => S(i) \in Nat /\ S(i) <= S(j)
  BY <1>4, <1>5
<1> QED BY <1>7, <1>8 DEF S

\* Concat is the last of any running concatenations.
LEMMA ConcatIs ==
  ASSUME NEW n \in Nat, NEW A, NEW s \in [1..n -> Seq(A)],
         NEW f, f[0] = << >>, \A i \in 1..n : f[i] = f[i - 1] \o s[i]
  PROVE  Concat(s) = f[n]
<1> DEFINE Is(g) == g = [i \in 0..n |-> IF i = 0 THEN << >> ELSE g[i - 1] \o s[i]]
           c == CHOOSE g : Is(g)
<1>1. Len(s) = n
  OBVIOUS
<1>2. Concat(s) = c[n]
  BY <1>1 DEF Concat
<1>3. \E g : Is(g)
  BY ConcatExists
<1>4. Is(c)
  <2> HIDE DEF Is
  <2> QED BY <1>3
<1> HIDE DEF c
<1>5. c[0] = << >> /\ \A i \in 1..n : c[i] = c[i - 1] \o s[i]
  <2>1. ASSUME NEW i \in 0..n PROVE c[i] = IF i = 0 THEN << >> ELSE c[i - 1] \o s[i]
    BY <1>4, Zenon
  <2>2. 0 \in 0..n
    OBVIOUS
  <2>3. c[0] = << >>
    BY <2>1, <2>2
  <2>4. ASSUME NEW i \in 1..n PROVE c[i] = c[i - 1] \o s[i]
    <3>1. i \in 0..n /\ i # 0
      OBVIOUS
    <3> QED BY <2>1, <3>1, Zenon
  <2> QED BY <2>3, <2>4
<1> HIDE DEF Is
<1> DEFINE T == {k \in Nat : k <= n => c[k] = f[k]}
<1>6. 0 \in T
  BY <1>5
<1>7. ASSUME NEW k \in Nat, k \in T PROVE k + 1 \in T
  <2>1. SUFFICES ASSUME k + 1 <= n PROVE c[k + 1] = f[k + 1]
    OBVIOUS
  <2>2. k + 1 \in 1..n /\ (k + 1) - 1 = k /\ c[k] = f[k]
    BY <1>7, <2>1
  <2>3. c[k + 1] = c[k] \o s[k + 1] /\ f[k + 1] = f[k] \o s[k + 1]
    BY <1>5, <2>2
  <2> QED BY <2>2, <2>3
<1>8. n \in T
  <2> HIDE DEF T
  <2> QED BY <1>6, <1>7, SetInduction
<1> QED BY <1>2, <1>8

\* The concatenations of the beginnings of a sequence run along it.
LEMMA ConcatSteps ==
  ASSUME NEW n \in Nat, NEW A, NEW s \in [1..n -> Seq(A)]
  PROVE  /\ \A i \in 0..n : Concat(First(s, i)) \in Seq(A)
         /\ Concat(First(s, 0)) = << >>
         /\ \A i \in 1..n : Concat(First(s, i)) = Concat(First(s, i - 1)) \o s[i]
         /\ Concat(First(s, n)) = Concat(s)
<1>1. PICK f : f = [i \in 0..n |-> IF i = 0 THEN << >> ELSE f[i - 1] \o s[i]]
  BY ConcatExists
<1>2. f[0] = << >> /\ \A i \in 1..n : f[i] = f[i - 1] \o s[i]
  <2>1. ASSUME NEW i \in 0..n PROVE f[i] = IF i = 0 THEN << >> ELSE f[i - 1] \o s[i]
    BY <1>1, Zenon
  <2>2. 0 \in 0..n
    OBVIOUS
  <2>3. f[0] = << >>
    BY <2>1, <2>2
  <2>4. ASSUME NEW i \in 1..n PROVE f[i] = f[i - 1] \o s[i]
    <3>1. i \in 0..n /\ i # 0
      OBVIOUS
    <3> QED BY <2>1, <3>1, Zenon
  <2> QED BY <2>3, <2>4
<1>3. \A k \in Nat : k <= n => f[k] \in Seq(A)
  <2> DEFINE T == {k \in Nat : k <= n => f[k] \in Seq(A)}
  <2>1. 0 \in T
    <3>1. << >> \in Seq(A)
      OBVIOUS
    <3> QED BY <1>2, <3>1
  <2>2. ASSUME NEW k \in Nat, k \in T PROVE k + 1 \in T
    <3>1. SUFFICES ASSUME k + 1 <= n PROVE f[k + 1] \in Seq(A)
      OBVIOUS
    <3>2. k + 1 \in 1..n /\ (k + 1) - 1 = k /\ f[k] \in Seq(A) /\ s[k + 1] \in Seq(A)
      BY <2>2, <3>1
    <3>3. f[k + 1] = f[k] \o s[k + 1]
      BY <1>2, <3>2
    <3> QED BY <3>2, <3>3
  <2>3. \A k \in Nat : k \in T
    <3> HIDE DEF T
    <3> QED BY <2>1, <2>2, SetInduction
  <2> QED BY <2>3
<1>4. ASSUME NEW i \in 0..n PROVE Concat(First(s, i)) = f[i]
  <2>1. First(s, i) \in [1..i -> Seq(A)] /\ \A k \in 1..i : First(s, i)[k] = s[k]
    BY DEF First
  <2>2. \A k \in 1..i : f[k] = f[k - 1] \o First(s, i)[k]
    <3> TAKE k \in 1..i
    <3>0. k \in 1..n /\ First(s, i)[k] = s[k]
      BY <2>1
    <3>1. f[k] = f[k - 1] \o s[k]
      BY <1>2, <3>0
    <3> QED BY <3>0, <3>1
  <2>3. i \in Nat
    OBVIOUS
  <2>4. f[0] = << >>
    BY <1>2
  <2> DEFINE p == First(s, i)
  <2> HIDE DEF p
  <2>5. p \in [1..i -> Seq(A)] /\ \A k \in 1..i : f[k] = f[k - 1] \o p[k]
    BY <2>1, <2>2 DEF p
  <2>6. Concat(p) = f[i]
    BY <2>3, <2>4, <2>5, ConcatIs, Zenon
  <2> QED BY <2>6 DEF p
<1>5. First(s, n) = s
  BY DEF First
<1>6. ASSUME NEW i \in 1..n
      PROVE  Concat(First(s, i)) = Concat(First(s, i - 1)) \o s[i]
  <2>1. i \in 0..n /\ i - 1 \in 0..n
    OBVIOUS
  <2>2. f[i] = f[i - 1] \o s[i]
    BY <1>2
  <2>3. Concat(First(s, i)) = f[i] /\ Concat(First(s, i - 1)) = f[i - 1]
    BY <1>4, <2>1
  <2> QED BY <2>2, <2>3
<1>7. 0 \in 0..n /\ n \in 0..n
  OBVIOUS
<1>8. \A i \in 0..n : Concat(First(s, i)) \in Seq(A)
  BY <1>3, <1>4
<1>9. Concat(First(s, 0)) = << >>
  BY <1>2, <1>4, <1>7
<1> QED BY <1>5, <1>6, <1>8, <1>9

\* How long a concatenation is.
LEMMA ConcatLen ==
  ASSUME NEW n \in Nat, NEW A, NEW s \in [1..n -> Seq(A)]
  PROVE  /\ Concat(s) \in Seq(A)
         /\ \A i \in 0..n : Len(Concat(First(s, i))) = SumSeq(First([k \in 1..n |-> Len(s[k])], i))
         /\ Len(Concat(s)) = SumSeq([k \in 1..n |-> Len(s[k])])
<1> DEFINE l == [k \in 1..n |-> Len(s[k])]
           C(i) == Concat(First(s, i))
           S(i) == SumSeq(First(l, i))
<1>1. /\ \A i \in 0..n : C(i) \in Seq(A)
      /\ C(0) = << >> /\ C(n) = Concat(s)
      /\ \A i \in 1..n : C(i) = C(i - 1) \o s[i]
  BY ConcatSteps, ZenonT(60)
<1>2. l \in [1..n -> Int] /\ \A i \in 1..n : l[i] = Len(s[i])
  OBVIOUS
<1> HIDE DEF l
<1>3. S(0) = 0 /\ S(n) = SumSeq(l) /\ \A i \in 1..n : S(i) = S(i - 1) + l[i]
  BY <1>2, SumSteps
<1> HIDE DEF C, S
<1> DEFINE T == {k \in Nat : k <= n => Len(C(k)) = S(k)}
<1>4. 0 \in T
  <2>1. Len(<< >>) = 0
    BY EmptySeq
  <2> QED BY <1>1, <1>3, <2>1
<1>5. ASSUME NEW k \in Nat, k \in T PROVE k + 1 \in T
  <2>1. SUFFICES ASSUME k + 1 <= n PROVE Len(C(k + 1)) = S(k + 1)
    OBVIOUS
  <2>2. k + 1 \in 1..n /\ (k + 1) - 1 = k /\ k \in 0..n /\ Len(C(k)) = S(k)
    BY <1>5, <2>1
  <2>3. C(k + 1) = C(k) \o s[k + 1] /\ S(k + 1) = S(k) + l[k + 1] /\ C(k) \in Seq(A)
    BY <1>1, <1>3, <2>2
  <2>4. Len(C(k) \o s[k + 1]) = Len(C(k)) + Len(s[k + 1])
    BY <2>2, <2>3, ConcatProperties, ZenonT(60)
  <2> QED BY <1>2, <2>2, <2>3, <2>4
<1>6. \A k \in Nat : k \in T
  <2> HIDE DEF T
  <2> QED BY <1>4, <1>5, SetInduction
<1>7. \A i \in 0..n : Len(C(i)) = S(i)
  BY <1>6
<1>8. n \in 0..n
  OBVIOUS
<1> QED BY <1>1, <1>3, <1>7, <1>8 DEF C, S, l

\* Where the elements of the parts are in a concatenation.
LEMMA ConcatAt ==
  ASSUME NEW n \in Nat, NEW A, NEW s \in [1..n -> Seq(A)], NEW i \in 1..n, NEW k \in 1..Len(s[i])
  PROVE  LET before == Len(Concat(First(s, i - 1)))
         IN  before + k \in 1..Len(Concat(s)) /\ Concat(s)[before + k] = s[i][k]
<1> DEFINE C(j) == Concat(First(s, j))
           b == Len(C(i - 1))
<1>1. /\ \A j \in 0..n : C(j) \in Seq(A)
      /\ C(0) = << >> /\ C(n) = Concat(s)
      /\ \A j \in 1..n : C(j) = C(j - 1) \o s[j]
  BY ConcatSteps, ZenonT(60)
<1> HIDE DEF C
<1>2. i - 1 \in 0..n /\ s[i] \in Seq(A) /\ C(i - 1) \in Seq(A) /\ b \in Nat
  BY <1>1, LenProperties
<1>3. k \in Nat /\ k >= 1 /\ k <= Len(s[i]) /\ Len(s[i]) \in Nat
  BY <1>2, LenProperties
<1> HIDE DEF b
<1> DEFINE T == {j \in Nat : i + j <= n => b + k \in 1..Len(C(i + j)) /\ C(i + j)[b + k] = s[i][k]}
<1>4. 0 \in T
  <2>1. C(i) = C(i - 1) \o s[i]
    BY <1>1
  <2>2. /\ Len(C(i - 1) \o s[i]) = b + Len(s[i])
        /\ \A m \in 1..(b + Len(s[i])) :
             (C(i - 1) \o s[i])[m] = IF m <= b THEN C(i - 1)[m] ELSE s[i][m - b]
    BY <1>2, ConcatProperties DEF b
  <2>3. b + k \in 1..(b + Len(s[i])) /\ ~(b + k <= b) /\ (b + k) - b = k
    BY <1>2, <1>3
  <2>4. (C(i - 1) \o s[i])[b + k] = s[i][k]
    BY <2>2, <2>3
  <2>5. i + 0 = i
    OBVIOUS
  <2> QED BY <2>1, <2>2, <2>3, <2>4, <2>5
<1>5. ASSUME NEW j \in Nat, j \in T PROVE j + 1 \in T
  <2>1. SUFFICES ASSUME i + (j + 1) <= n
                 PROVE  /\ b + k \in 1..Len(C(i + (j + 1)))
                        /\ C(i + (j + 1))[b + k] = s[i][k]
    OBVIOUS
  <2> DEFINE m == i + (j + 1)
  <2>2. m \in 1..n /\ m - 1 = i + j /\ m - 1 \in 0..n
    BY <2>1
  <2>3. b + k \in 1..Len(C(m - 1)) /\ C(m - 1)[b + k] = s[i][k]
    BY <1>5, <2>1, <2>2
  <2> HIDE DEF m
  <2>4. C(m) = C(m - 1) \o s[m] /\ C(m - 1) \in Seq(A) /\ s[m] \in Seq(A)
    BY <1>1, <2>2
  <2> DEFINE u == C(m - 1)
             v == s[m]
  <2>5. u \in Seq(A) /\ v \in Seq(A) /\ C(m) = u \o v
    BY <2>4
  <2> HIDE DEF u, v
  <2>6. Len(u) \in Nat /\ Len(v) \in Nat /\ b + k \in 1..Len(u)
    BY <2>3, <2>5, LenProperties DEF u
  <2>7. b + k \in 1..(Len(u) + Len(v)) /\ b + k <= Len(u)
    BY <1>2, <1>3, <2>6
  <2>8. Len(u \o v) = Len(u) + Len(v) /\ (u \o v)[b + k] = u[b + k]
    BY <2>5, <2>7, ConcatProperties
  <2>9. b + k \in 1..Len(C(m)) /\ C(m)[b + k] = u[b + k]
    BY <2>5, <2>7, <2>8
  <2> QED BY <2>3, <2>9 DEF m, u
<1>6. n - i \in T
  <2>1. n - i \in Nat
    OBVIOUS
  <2> HIDE DEF T
  <2> QED BY <1>4, <1>5, <2>1, SetInduction
<1>7. n - i \in Nat /\ i + (n - i) = n /\ n <= n
  OBVIOUS
<1> QED BY <1>1, <1>6, <1>7 DEF C, b

\* v is an element of one of the first n parts.
FromOne(s, n, v) == \E i \in 1..n : \E k \in 1..Len(s[i]) : v = s[i][k]

\* Every element of a concatenation is an element of a part.
LEMMA ConcatFrom ==
  ASSUME NEW n \in Nat, NEW A, NEW s \in [1..n -> Seq(A)], NEW j \in 1..Len(Concat(s))
  PROVE  FromOne(s, n, Concat(s)[j])
<1> DEFINE C(i) == Concat(First(s, i))
           From(m) == \A q \in 1..Len(C(m)) : \E i \in 1..m : \E k \in 1..Len(s[i]) : C(m)[q] = s[i][k]
<1>1. /\ \A i \in 0..n : C(i) \in Seq(A)
      /\ C(0) = << >> /\ C(n) = Concat(s)
      /\ \A i \in 1..n : C(i) = C(i - 1) \o s[i]
  BY ConcatSteps, ZenonT(60)
<1> HIDE DEF C
<1> DEFINE T == {m \in Nat : m <= n => From(m)}
<1>2. 0 \in T
  <2>1. Len(C(0)) = 0
    BY <1>1, EmptySeq
  <2> QED BY <2>1
<1>3. ASSUME NEW m \in Nat, m \in T PROVE m + 1 \in T
  <2>1. SUFFICES ASSUME m + 1 <= n, NEW q \in 1..Len(C(m + 1))
                 PROVE  \E i \in 1..(m + 1) : \E k \in 1..Len(s[i]) : C(m + 1)[q] = s[i][k]
    OBVIOUS
  <2>2. m + 1 \in 1..n /\ (m + 1) - 1 = m /\ m \in 0..n /\ From(m)
    BY <1>3, <2>1
  <2> DEFINE u == C(m)
             v == s[m + 1]
  <2>3. u \in Seq(A) /\ v \in Seq(A) /\ C(m + 1) = u \o v
    BY <1>1, <2>2
  <2>4. \A r \in 1..Len(u) : \E i \in 1..m : \E k \in 1..Len(s[i]) : u[r] = s[i][k]
    BY <2>2
  <2> HIDE DEF u, From
  <2>5. Len(u) \in Nat /\ Len(v) \in Nat
    BY <2>3, LenProperties
  <2> HIDE DEF v
  <2>6. /\ Len(u \o v) = Len(u) + Len(v)
        /\ \A r \in 1..(Len(u) + Len(v)) : (u \o v)[r] = IF r <= Len(u) THEN u[r] ELSE v[r - Len(u)]
    BY <2>3, ConcatProperties
  <2>7. q \in 1..(Len(u) + Len(v)) /\ C(m + 1)[q] = IF q <= Len(u) THEN u[q] ELSE v[q - Len(u)]
    BY <2>3, <2>6
  <2>8. CASE q <= Len(u)
    <3>1. q \in 1..Len(u) /\ C(m + 1)[q] = u[q]
      BY <2>5, <2>7, <2>8
    <3>2. PICK i \in 1..m : \E k \in 1..Len(s[i]) : u[q] = s[i][k]
      BY <2>4, <3>1
    <3>3. i \in 1..(m + 1)
      OBVIOUS
    <3> QED BY <3>1, <3>2, <3>3
  <2>9. CASE ~(q <= Len(u))
    <3>1. q - Len(u) \in 1..Len(v) /\ C(m + 1)[q] = v[q - Len(u)] /\ m + 1 \in 1..(m + 1)
      BY <2>5, <2>7, <2>9
    <3> QED BY <3>1 DEF v
  <2> QED BY <2>8, <2>9
<1>4. n \in T
  <2> HIDE DEF T
  <2> QED BY <1>2, <1>3, SetInduction
<1> QED BY <1>1, <1>4 DEF FromOne

\* A part in front of a concatenation.
LEMMA ConcatCons ==
  ASSUME NEW A, NEW x \in Seq(A), NEW s \in Seq(Seq(A))
  PROVE  Concat(<<x>> \o s) = x \o Concat(s)
<1> DEFINE n == Len(s)
           t == <<x>> \o s
           C(i) == Concat(First(s, i))
           f == [i \in 0..(n + 1) |-> IF i = 0 THEN << >> ELSE x \o C(i - 1)]
<1>1. n \in Nat /\ s \in [1..n -> Seq(A)]
  BY LenProperties
<1>2. /\ \A i \in 0..n : C(i) \in Seq(A)
      /\ C(0) = << >> /\ C(n) = Concat(s)
      /\ \A i \in 1..n : C(i) = C(i - 1) \o s[i]
  BY <1>1, ConcatSteps, ZenonT(60)
<1>3. /\ t \in [1..(n + 1) -> Seq(A)] /\ t[1] = x
      /\ \A i \in 2..(n + 1) : t[i] = s[i - 1]
  <2>1. <<x>> \in Seq(Seq(A)) /\ Len(<<x>>) = 1 /\ <<x>>[1] = x
    OBVIOUS
  <2>2. /\ t \in Seq(Seq(A)) /\ Len(t) = 1 + n
        /\ \A i \in 1..(1 + n) : t[i] = IF i <= 1 THEN <<x>>[i] ELSE s[i - 1]
    <3> DEFINE y == <<x>>
               B == Seq(A)
    <3>1. y \in Seq(B) /\ Len(y) = 1
      BY <2>1
    <3> HIDE DEF y, B
    <3>2. s \in Seq(B)
      BY DEF B
    <3>3. /\ y \o s \in Seq(B) /\ Len(y \o s) = Len(y) + Len(s)
          /\ \A i \in 1..(Len(y) + Len(s)) : (y \o s)[i] = IF i <= Len(y) THEN y[i] ELSE s[i - Len(y)]
      BY <3>1, <3>2, ConcatProperties
    <3> QED BY <3>1, <3>3 DEF y, B
  <2>3. t \in [1..(n + 1) -> Seq(A)]
    <3> HIDE DEF t
    <3>1. t \in [1..Len(t) -> Seq(A)] /\ 1 + n = n + 1
      BY <1>1, <2>2, LenProperties
    <3> QED BY <2>2, <3>1
  <2> HIDE DEF t
  <2>4. t[1] = x
    BY <1>1, <2>1, <2>2
  <2>5. \A i \in 2..(n + 1) : t[i] = s[i - 1]
    BY <1>1, <2>2
  <2> QED BY <2>3, <2>4, <2>5
<1> HIDE DEF C, n, t
<1>4. f[0] = << >> /\ \A i \in 1..(n + 1) : f[i] = x \o C(i - 1)
  <2>1. 0 \in 0..(n + 1) /\ \A i \in 1..(n + 1) : i \in 0..(n + 1) /\ i # 0
    BY <1>1
  <2> QED BY <2>1, Zenon
<1> HIDE DEF f
<1>5. ASSUME NEW i \in 1..(n + 1) PROVE f[i] = f[i - 1] \o t[i]
  <2>1. CASE i = 1
    <3>1. f[1] = x \o C(0) /\ f[0] = << >>
      <4>1. 1 \in 1..(n + 1) /\ 1 - 1 = 0
        BY <1>1
      <4>2. f[1] = x \o C(1 - 1)
        BY <1>4, <4>1
      <4> QED BY <1>4, <4>1, <4>2
    <3>2. x \o << >> = x /\ << >> \o x = x
      BY ConcatEmptySeq
    <3>3. f[1] = x /\ f[1 - 1] = << >> /\ t[1] = x
      BY <1>2, <1>3, <3>1, <3>2
    <3>4. f[1] = f[1 - 1] \o t[1]
      BY <3>2, <3>3
    <3> QED BY <2>1, <3>4
  <2>2. CASE i # 1
    <3>1. i \in 2..(n + 1) /\ i - 1 \in 1..n /\ (i - 1) - 1 \in 0..n /\ i - 1 # 0
          /\ i - 1 \in 0..(n + 1)
      BY <1>1, <2>2
    <3>2. f[i] = x \o C(i - 1) /\ f[i - 1] = x \o C((i - 1) - 1)
      <4>1. i - 1 \in 1..(n + 1)
        BY <3>1
      <4> QED BY <1>4, <4>1
    <3>3. C(i - 1) = C((i - 1) - 1) \o s[i - 1] /\ t[i] = s[i - 1]
      BY <1>2, <1>3, <3>1
    <3> DEFINE u == C((i - 1) - 1)
               v == s[i - 1]
    <3>4. u \in Seq(A) /\ v \in Seq(A)
      BY <1>1, <1>2, <3>1
    <3> HIDE DEF u, v
    <3>5. (x \o u) \o v = x \o (u \o v)
      BY <3>4, ConcatAssociative
    <3>6. f[i] = x \o (u \o v) /\ f[i - 1] = x \o u /\ t[i] = v
      BY <3>2, <3>3 DEF u, v
    <3> QED BY <3>5, <3>6, Zenon
  <2> QED BY <2>1, <2>2
<1>6. f[n + 1] = x \o C(n)
  <2>1. n + 1 \in 1..(n + 1) /\ (n + 1) - 1 = n
    BY <1>1
  <2>2. f[n + 1] = x \o C((n + 1) - 1)
    BY <1>4, <2>1
  <2> QED BY <2>1, <2>2
<1>7. Concat(t) = f[n + 1]
  <2>1. n + 1 \in Nat
    BY <1>1
  <2>2. \A i \in 1..(n + 1) : f[i] = f[i - 1] \o t[i]
    BY <1>5
  <2> DEFINE m == n + 1
  <2> HIDE DEF m
  <2>3. /\ m \in Nat /\ t \in [1..m -> Seq(A)] /\ f[0] = << >>
        /\ \A i \in 1..m : f[i] = f[i - 1] \o t[i]
    BY <1>3, <1>4, <2>1, <2>2 DEF m
  <2>4. Concat(t) = f[m]
    BY <2>3, ConcatIs, Zenon
  <2> QED BY <2>4 DEF m
<1> QED BY <1>2, <1>6, <1>7 DEF t

\* Nothing, and one part.
LEMMA ConcatSmall ==
  /\ Concat(<< >>) = << >>
  /\ \A A : \A x \in Seq(A) : Concat(<<x>>) = x
<1>1. ASSUME NEW A PROVE Concat(<< >>) = << >>
  <2>1. << >> \in [1..0 -> Seq(A)] /\ 0 \in Nat
    OBVIOUS
  <2>2. Concat(First(<< >>, 0)) = << >> /\ Concat(First(<< >>, 0)) = Concat(<< >>)
    BY <2>1, ConcatSteps, ZenonT(60)
  <2> QED BY <2>2
<1>2. ASSUME NEW A, NEW x \in Seq(A) PROVE Concat(<<x>>) = x
  <2> DEFINE s == <<x>>
  <2>1. s \in [1..1 -> Seq(A)] /\ s[1] = x /\ 1 \in Nat
    OBVIOUS
  <2> HIDE DEF s
  <2>2. /\ Concat(First(s, 0)) = << >> /\ Concat(First(s, 1)) = Concat(s)
        /\ \A i \in 1..1 : Concat(First(s, i)) = Concat(First(s, i - 1)) \o s[i]
    BY <2>1, ConcatSteps, ZenonT(60)
  <2>3. Concat(First(s, 1)) = Concat(First(s, 0)) \o s[1]
    <3>1. 1 \in 1..1 /\ 1 - 1 = 0
      OBVIOUS
    <3>2. Concat(First(s, 1)) = Concat(First(s, 1 - 1)) \o s[1]
      BY <2>2, <3>1
    <3> QED BY <3>1, <3>2
  <2>4. << >> \o x = x
    BY ConcatEmptySeq
  <2> QED BY <2>1, <2>2, <2>3, <2>4 DEF s
<1> QED BY <1>1, <1>2

\* Cutting a content up loses nothing: its chunks put together are it.
LEMMA ChunksAreContent ==
  ASSUME NEW s \in Seq(Byte)
  PROVE  ChunkData(s) \in Seq(Seq(Byte)) /\ Concat(ChunkData(s)) = s
<1> DEFINE n == Len(s)
           c == ChunksFrom(s)
           After(o) == o + ChunkSize(s, o)
<1>1. n \in Nat
  BY LenProperties
<1>2. /\ c \in [0..n -> Seq(Seq(Byte))] /\ c[n] = << >>
      /\ \A o \in 0..n : o # n => c[o] = <<SubSeq(s, o + 1, After(o))>> \o c[After(o)]
  BY ChunksFromIs
<1>3. ASSUME NEW o \in 0..n, o # n PROVE After(o) \in 0..n /\ After(o) > o
  <2>1. o \in Nat /\ o < Len(s)
    BY <1>1, <1>3
  <2>2. ChunkSize(s, o) \in 1..(Len(s) - o)
    BY <2>1, ChunkSizeRange
  <2> QED BY <1>1, <2>1, <2>2
<1> HIDE DEF c, After
\* downwards: by the number of bytes left
<1> DEFINE Done(o) == Concat(c[o]) = SubSeq(s, o + 1, n)
           T == {k \in Nat : \A m \in 0..k : m <= n => Done(n - m)}
<1>4. ASSUME NEW o \in 0..n, o = n \/ Done(After(o)) PROVE Done(o)
  <2>1. CASE o = n
    <3>1. SubSeq(s, n + 1, n) = << >>
      BY <1>1, SubSeqEmpty
    <3> QED BY <1>2, <2>1, <3>1, ConcatSmall
  <2>2. CASE o # n
    <3> DEFINE x == SubSeq(s, o + 1, After(o))
    <3>1. After(o) \in 0..n /\ After(o) > o
      BY <1>3, <2>2
    <3>2. o \in Nat /\ After(o) \in 0..Len(s) /\ o <= After(o)
      BY <1>1, <3>1
    <3>3. x \in Seq(Byte)
      BY <3>2, PartOf
    <3>4. c[After(o)] \in Seq(Seq(Byte)) /\ c[o] = <<x>> \o c[After(o)]
      BY <1>2, <2>2, <3>1
    <3>5. x \o SubSeq(s, After(o) + 1, n) = SubSeq(s, o + 1, n)
      <4>1. o + 1 \in 1..(Len(s) + 1) /\ After(o) \in (o + 1) - 1..Len(s) /\ n \in After(o)..Len(s)
        BY <1>1, <3>1, <3>2
      <4> QED BY <4>1, ConcatAdjacentSubSeq
    <3>6. Concat(<<x>> \o c[After(o)]) = x \o Concat(c[After(o)])
      <4> HIDE DEF x
      <4> QED BY <3>3, <3>4, ConcatCons
    <3>7. Concat(c[After(o)]) = SubSeq(s, After(o) + 1, n)
      BY <1>4, <2>2
    <3> HIDE DEF x
    <3> QED BY <3>4, <3>5, <3>6, <3>7
  <2> QED BY <2>1, <2>2
<1> HIDE DEF Done
<1>5. 0 \in T
  <2>1. n \in 0..n /\ n - 0 = n
    BY <1>1
  <2>2. Done(n)
    BY <1>4, <2>1
  <2>3. \A m \in 0..0 : m = 0
    OBVIOUS
  <2> QED BY <2>1, <2>2, <2>3
<1>6. ASSUME NEW k \in Nat, k \in T PROVE k + 1 \in T
  <2>1. SUFFICES ASSUME NEW m \in 0..(k + 1), m <= n PROVE Done(n - m)
    OBVIOUS
  <2>2. CASE m <= k
    BY <1>6, <2>1, <2>2
  <2>3. CASE m = k + 1
    <3>1. n - m \in 0..n /\ n - m # n
      BY <1>1, <2>1, <2>3
    <3> DEFINE a == After(n - m)
    <3>2. a \in 0..n /\ a > n - m
      BY <1>3, <3>1
    <3> HIDE DEF a
    <3>3. n - a \in 0..k /\ n - a <= n /\ n - (n - a) = a
      BY <1>1, <2>3, <3>1, <3>2
    <3>4. Done(n - (n - a))
      BY <1>6, <3>3
    <3>5. Done(After(n - m))
      BY <3>3, <3>4 DEF a
    <3> QED BY <1>4, <3>1, <3>5
  <2> QED BY <2>2, <2>3
<1>7. n \in T
  <2> HIDE DEF T
  <2> QED BY <1>1, <1>5, <1>6, SetInduction
<1>8. Done(0)
  <2>1. n \in 0..n /\ n - n = 0
    BY <1>1
  <2>2. Done(n - n)
    BY <1>7, <2>1
  <2> QED BY <2>1, <2>2
<1>9. SubSeq(s, 1, n) = s
  BY SubSeqFull
<1>10. 0 \in 0..n
  BY <1>1
<1>11. c[0] \in Seq(Seq(Byte))
  BY <1>2, <1>10
<1>12. Concat(c[0]) = SubSeq(s, 0 + 1, n)
  BY <1>8 DEF Done
<1> QED BY <1>9, <1>11, <1>12 DEF c, ChunkData

-----------------------------------------------------------------------------
(* The Merkle tree: a hash determines its leaves.                          *)

\* Induction from the end of a range.
LEMMA DownInduction ==
  ASSUME NEW n \in Nat, NEW T,
         \A o \in 0..n : (\A p \in (o + 1)..n : p \in T) => o \in T
  PROVE  \A o \in 0..n : o \in T
<1> DEFINE U == {k \in Nat : \A p \in (n - k)..n : p \in 0..n => p \in T}
<1>1. 0 \in U
  <2>1. ASSUME NEW p \in (n - 0)..n PROVE p \in T
    <3>1. p = n /\ p \in 0..n /\ \A q \in (p + 1)..n : FALSE
      OBVIOUS
    <3> QED BY <3>1
  <2> QED BY <2>1
<1>2. ASSUME NEW k \in Nat, k \in U PROVE k + 1 \in U
  <2>1. SUFFICES ASSUME NEW p \in (n - (k + 1))..n, p \in 0..n PROVE p \in T
    OBVIOUS
  <2>2. \A q \in (p + 1)..n : q \in (n - k)..n /\ q \in 0..n
    BY <2>1
  <2>3. \A q \in (p + 1)..n : q \in T
    BY <1>2, <2>2
  <2> QED BY <2>1, <2>3
<1>3. n \in U
  <2> HIDE DEF U
  <2> QED BY <1>1, <1>2, SetInduction
<1>4. n - n = 0
  OBVIOUS
<1> QED BY <1>3, <1>4

\* A sequence with something in front.
LEMMA ConsIs ==
  ASSUME NEW S, NEW g \in S, NEW x \in Seq(S)
  PROVE  /\ <<g>> \o x \in Seq(S) /\ Len(<<g>> \o x) = 1 + Len(x)
         /\ (<<g>> \o x)[1] = g
         /\ \A i \in 1..Len(x) : (<<g>> \o x)[1 + i] = x[i]
<1> DEFINE y == <<g>>
<1>1. y \in Seq(S) /\ Len(y) = 1 /\ y[1] = g /\ Len(x) \in Nat
  BY LenProperties
<1> HIDE DEF y
<1>2. /\ y \o x \in Seq(S) /\ Len(y \o x) = 1 + Len(x)
      /\ \A i \in 1..(1 + Len(x)) : (y \o x)[i] = IF i <= 1 THEN y[i] ELSE x[i - 1]
  BY <1>1, ConcatProperties, SMTT(30)
<1>3. (y \o x)[1] = g
  <2>1. 1 \in 1..(1 + Len(x)) /\ 1 <= 1
    BY <1>1
  <2> QED BY <1>1, <1>2, <2>1
<1>4. ASSUME NEW i \in 1..Len(x) PROVE (y \o x)[1 + i] = x[i]
  <2>1. 1 + i \in 1..(1 + Len(x)) /\ ~(1 + i <= 1) /\ (1 + i) - 1 = i
    BY <1>1
  <2> QED BY <1>2, <2>1
<1> QED BY <1>2, <1>3, <1>4 DEF y

\* Two lists with a first element are equal only element by element.
LEMMA ConsEqual ==
  ASSUME NEW S, NEW g \in S, NEW x \in Seq(S), NEW h \in S, NEW y \in Seq(S),
         <<g>> \o x = <<h>> \o y
  PROVE  g = h /\ x = y
<1>1. g = h /\ 1 + Len(x) = 1 + Len(y)
  BY ConsIs
<1>2. Len(x) \in Nat /\ Len(y) \in Nat
  BY LenProperties
<1>3. Len(x) = Len(y)
  BY <1>1, <1>2
<1>4. \A i \in 1..Len(x) : x[i] = y[i]
  <2> TAKE i \in 1..Len(x)
  <2>1. (<<g>> \o x)[1 + i] = x[i]
    BY ConsIs
  <2>2. (<<h>> \o y)[1 + i] = y[i]
    BY <1>3, ConsIs
  <2> QED BY <2>1, <2>2
<1> QED BY <1>1, <1>3, <1>4, SeqEqual
-----------------------------------------------------------------------------
(* The Merkle tree.                                                        *)

\* A group is not empty, and takes two nodes where there are two.
LEMMA MergeCutRange ==
  ASSUME NEW s, Len(s) \in Nat, NEW r \in Nat, r < Len(s)
  PROVE  /\ NextMergeCut(s, r) \in 1..(Len(s) - r)
         /\ r + 2 <= Len(s) => NextMergeCut(s, r) >= 2
<1> DEFINE left == Len(s) - r
           end == IF left < MaxGroup THEN left ELSE MaxGroup
           cuts == {i \in (MinGroup + 1)..end : NaturalCut(s[r + i][1])}
           least == CHOOSE i \in cuts : \A j \in cuts : i <= j
<1>1. left \in Nat /\ left >= 1
  OBVIOUS
<1>2. cuts # {} => least \in cuts
  <2>1. cuts \subseteq Nat
    BY DEF MinGroup
  <2> HIDE DEF cuts
  <2>2. cuts # {} => \E i \in cuts : \A j \in cuts : i <= j
    BY <2>1, LeastNumber
  <2> QED BY <2>2
<1>3. NextMergeCut(s, r) = IF left <= MinGroup THEN left ELSE IF cuts = {} THEN end ELSE least
  BY DEF NextMergeCut
<1> HIDE DEF least
<1>4. CASE left <= MinGroup
  BY <1>1, <1>3, <1>4 DEF MinGroup
<1>5. CASE ~(left <= MinGroup)
  <2>1. left > 2 /\ end >= 2 /\ end <= left /\ end \in Nat
    BY <1>1, <1>5, MerkleAssumption DEF MinGroup
  <2>2. cuts # {} => least \in 3..end
    BY <1>2 DEF MinGroup
  <2> HIDE DEF cuts, end, left
  <2>3. NextMergeCut(s, r) \in 2..left
    BY <1>1, <1>3, <1>5, <2>1, <2>2
  <2> QED BY <1>1, <2>3 DEF left
<1> QED BY <1>4, <1>5

\* The end of the group that starts behind r nodes, and the group's node.
GroupEnd(s, r) == r + NextMergeCut(s, r)
GroupNode(s, r) == MergedHash(SubSeq(s, r + 1, GroupEnd(s, r)))
GroupNodes(s) == {GroupNode(s, r) : r \in 0..Len(s)}

\* A group has a node at least, and two where two are left.
LEMMA GroupEndRange ==
  ASSUME NEW S, NEW s \in Seq(S), NEW r \in 0..Len(s), r # Len(s)
  PROVE  /\ GroupEnd(s, r) \in (r + 1)..Len(s)
         /\ r + 2 <= Len(s) => GroupEnd(s, r) >= r + 2
<1>1. Len(s) \in Nat /\ r \in Nat /\ r < Len(s)
  BY LenProperties
<1>2. /\ NextMergeCut(s, r) \in 1..(Len(s) - r)
      /\ r + 2 <= Len(s) => NextMergeCut(s, r) >= 2
  BY <1>1, MergeCutRange
<1> QED BY <1>1, <1>2 DEF GroupEnd

\* One round, from behind r nodes on.
Rounds(s, c) ==
  /\ c \in [0..Len(s) -> Seq(GroupNodes(s))]
  /\ c[Len(s)] = << >>
  /\ \A r \in 0..Len(s) : r # Len(s) => c[r] = <<GroupNode(s, r)>> \o c[GroupEnd(s, r)]

\* merge_round, by the groups that it goes over.
LEMMA MergeRoundIs ==
  ASSUME NEW S, NEW s \in Seq(S)
  PROVE  \E c : Rounds(s, c) /\ MergeRound(s) = c[0]
<1> DEFINE n == Len(s)
           A == GroupNodes(s)
           Is(f) == f = [o \in 0..n |-> IF o = n THEN << >>
                                       ELSE <<GroupNode(s, o)>> \o f[GroupEnd(s, o)]]
           G == [o \in 0..n |-> GroupNode(s, o)]
           N == [o \in 0..n |-> IF o = n THEN n ELSE GroupEnd(s, o)]
           c == CHOOSE f : Is(f)
<1>1. n \in Nat
  BY LenProperties
<1>2. ASSUME NEW o \in 0..n, o # n PROVE GroupEnd(s, o) \in Int /\ GroupEnd(s, o) > o /\ GroupEnd(s, o) <= n
  BY <1>1, <1>2, GroupEndRange
<1>3. MergeRound(s) = c[0]
  BY DEF MergeRound, GroupNode, GroupEnd
<1> HIDE DEF n
<1>4. PICK f \in [0..n -> Seq(A)] : Collects(f, n, G, N)
  <2>1. G \in [0..n -> A]
    BY DEF GroupNodes, n
  <2>2. N \in [0..n -> Int]
    BY <1>1, <1>2
  <2>3. \A o \in 0..n : o # n => N[o] > o /\ N[o] <= n
    BY <1>2
  <2> HIDE DEF G, N, A
  <2> QED BY <1>1, <2>1, <2>2, <2>3, RecursionDown
<1>5. Is(f)
  <2>1. ASSUME NEW o \in 0..n
        PROVE  f[o] = IF o = n THEN << >> ELSE <<GroupNode(s, o)>> \o f[GroupEnd(s, o)]
    BY <1>4 DEF Collects
  <2> QED BY <1>4, <2>1
<1>6. Is(c)
  <2> HIDE DEF Is
  <2> QED BY <1>5
<1> HIDE DEF c
<1>7. DOMAIN c = 0..n /\ c = [o \in 0..n |-> c[o]]
  BY <1>6
<1>8. \A o \in 0..n : c[o] = IF o = n THEN << >> ELSE <<GroupNode(s, o)>> \o c[GroupEnd(s, o)]
  <2> TAKE o \in 0..n
  <2> QED BY <1>6, Zenon
<1> HIDE DEF Is
<1>9. c[n] = << >>
  <2>1. n \in 0..n
    BY <1>1
  <2> QED BY <1>8, <2>1
<1>10. \A o \in 0..n : o # n => c[o] = <<GroupNode(s, o)>> \o c[GroupEnd(s, o)]
  BY <1>8, Zenon
<1>11. \A o \in 0..n : c[o] \in Seq(A)
  <2> DEFINE T == {o \in 0..n : c[o] \in Seq(A)}
  <2>1. ASSUME NEW o \in 0..n, \A p \in (o + 1)..n : p \in T PROVE o \in T
    <3>1. CASE o = n
      <4>1. << >> \in Seq(A)
        OBVIOUS
      <4> QED BY <1>9, <3>1, <4>1
    <3>2. CASE o # n
      <4>1. GroupEnd(s, o) \in (o + 1)..n
        BY <1>1, <1>2, <3>2
      <4>2. c[GroupEnd(s, o)] \in Seq(A) /\ GroupNode(s, o) \in A
        BY <2>1, <4>1 DEF GroupNodes, n
      <4> HIDE DEF A
      <4>3. <<GroupNode(s, o)>> \o c[GroupEnd(s, o)] \in Seq(A)
        BY <4>2, ConsIs
      <4>4. c[o] \in Seq(A)
        BY <1>10, <3>2, <4>3
      <4> QED BY <4>4
    <3> QED BY <3>1, <3>2
  <2>2. \A o \in 0..n : o \in T
    <3> HIDE DEF T
    <3> QED BY <1>1, <2>1, DownInduction
  <2> QED BY <2>2
<1>12. c \in [0..n -> Seq(A)]
  BY <1>7, <1>11
<1>13. Rounds(s, c)
  BY <1>9, <1>10, <1>12 DEF Rounds, n
<1> QED BY <1>3, <1>13

\* The rounds of aggregated_node_hash.
LEMMA RoundsExist ==
  ASSUME NEW n \in Nat, NEW s
  PROVE  \E f : f = [i \in 0..n |-> IF i = 0 THEN s ELSE IF Len(f[i - 1]) > 1 THEN MergeRound(f[i - 1]) ELSE f[i - 1]]
<1> DEFINE Good(f, k) == f = [i \in 0..k |-> IF i = 0 THEN s ELSE IF Len(f[i - 1]) > 1 THEN MergeRound(f[i - 1]) ELSE f[i - 1]]
           Good_(k) == \E f : Good(f, k)
           T == {k \in Nat : Good_(k)}
<1> HIDE DEF Good_
<1>1. 0 \in T
  <2>1. Good([i \in 0..0 |-> s], 0)
    OBVIOUS
  <2> QED BY <2>1 DEF Good_
<1>2. ASSUME NEW k \in Nat, k \in T PROVE k + 1 \in T
  <2>1. PICK f : Good(f, k)
    BY <1>2 DEF Good_
  <2> DEFINE v == IF Len(f[k]) > 1 THEN MergeRound(f[k]) ELSE f[k]
             g == [i \in 0..(k + 1) |-> IF i = k + 1 THEN v ELSE f[i]]
  <2>2. ASSUME NEW i \in 0..(k + 1)
        PROVE  g[i] = IF i = 0 THEN s ELSE IF Len(g[i - 1]) > 1 THEN MergeRound(g[i - 1]) ELSE g[i - 1]
    <3>1. CASE i = 0
      BY <2>1, <3>1
    <3>2. CASE i = k + 1
      <4>1. g[i] = v /\ i # 0 /\ i - 1 = k /\ g[k] = f[k]
        BY <3>2
      <4> HIDE DEF g
      <4> QED BY <3>2, <4>1
    <3>3. CASE i # 0 /\ i # k + 1
      <4>1. i \in 0..k /\ i - 1 \in 0..k /\ i - 1 # k + 1 /\ i - 1 \in 0..(k + 1)
        BY <3>3
      <4>2. g[i] = f[i] /\ g[i - 1] = f[i - 1]
        BY <3>3, <4>1
      <4>3. f[i] = IF Len(f[i - 1]) > 1 THEN MergeRound(f[i - 1]) ELSE f[i - 1]
        BY <2>1, <3>3, <4>1
      <4> HIDE DEF g
      <4> QED BY <3>3, <4>2, <4>3
    <3> QED BY <3>1, <3>2, <3>3
  <2>3. g = [i \in 0..(k + 1) |-> g[i]]
    OBVIOUS
  <2> HIDE DEF g, v
  <2>4. Good(g, k + 1)
    BY <2>2, <2>3
  <2>5. Good_(k + 1)
    BY <2>4 DEF Good_
  <2> QED BY <2>5
<1>3. n \in T
  <2> HIDE DEF T
  <2> QED BY <1>1, <1>2, SetInduction
<1> QED BY <1>3 DEF Good_

\* A round leaves nodes over, fewer than there were.
LEMMA RoundShrinks ==
  ASSUME NEW S, NEW s \in Seq(S)
  PROVE  /\ MergeRound(s) \in Seq(GroupNodes(s))
         /\ Len(s) >= 1 => Len(MergeRound(s)) >= 1
         /\ Len(s) >= 2 => Len(MergeRound(s)) < Len(s)
<1>1. PICK c : Rounds(s, c) /\ MergeRound(s) = c[0]
  BY MergeRoundIs
<1> DEFINE n == Len(s)
           A == GroupNodes(s)
<1>2. n \in Nat
  BY LenProperties
<1>3. /\ c \in [0..n -> Seq(A)] /\ c[n] = << >>
      /\ \A r \in 0..n : r # n => c[r] = <<GroupNode(s, r)>> \o c[GroupEnd(s, r)]
  BY <1>1 DEF Rounds
<1>4. \A r \in 0..n : Len(c[r]) \in Nat
  BY <1>3, LenProperties
<1> DEFINE Half(r) == 2 * Len(c[r]) <= (n - r) + 1 /\ (r # n => Len(c[r]) >= 1)
           T == {r \in 0..n : Half(r)}
<1>5. ASSUME NEW r \in 0..n, \A p \in (r + 1)..n : p \in T PROVE r \in T
  <2>1. CASE r = n
    <3>1. Len(c[n]) = 0
      BY <1>3, EmptySeq
    <3> QED BY <1>2, <2>1, <3>1
  <2>2. CASE r # n
    <3> DEFINE e == GroupEnd(s, r)
    <3>1. e \in (r + 1)..n /\ (r + 2 <= n => e >= r + 2)
      BY <2>2, GroupEndRange
    <3>2. Half(e) /\ e \in 0..n
      BY <1>5, <3>1
    <3>3. GroupNode(s, r) \in A /\ c[e] \in Seq(A)
      BY <1>3, <3>2 DEF GroupNodes
    <3> HIDE DEF e, A
    <3>4. Len(<<GroupNode(s, r)>> \o c[e]) = 1 + Len(c[e])
      BY <3>3, ConsIs
    <3>5. c[r] = <<GroupNode(s, r)>> \o c[e]
      BY <1>3, <2>2 DEF e
    <3>6. Len(c[r]) = 1 + Len(c[e])
      BY <3>4, <3>5
    <3>7. Len(c[e]) \in Nat
      BY <1>4, <3>2
    <3> HIDE DEF n
    <3>8. CASE r + 2 <= n
      BY <1>2, <3>1, <3>2, <3>6, <3>7, <3>8
    <3>9. CASE ~(r + 2 <= n)
      <4>1. e = n /\ r + 1 = n
        BY <1>2, <2>2, <3>1, <3>9
      <4>2. Len(c[n]) = 0
        BY <1>3, EmptySeq
      <4>3. Len(c[r]) = 1 /\ (n - r) + 1 = 2
        BY <1>2, <3>6, <4>1, <4>2
      <4>4. Half(r)
        BY <4>3
      <4> QED BY <4>4
    <3> QED BY <3>8, <3>9
  <2> QED BY <2>1, <2>2
<1>6. \A r \in 0..n : r \in T
  <2> HIDE DEF T
  <2> QED BY <1>2, <1>5, DownInduction
<1>7. Half(0) /\ 0 \in 0..n
  BY <1>2, <1>6
<1>8. Len(c[0]) \in Nat /\ c[0] \in Seq(A)
  BY <1>3, <1>4, <1>7
<1> QED BY <1>1, <1>2, <1>7, <1>8

\* A node of a round tells which nodes it stands for.
LEMMA MergedHashInjective ==
  ASSUME NEW g, NEW h, MergedHash(g)[1] = MergedHash(h)[1]
  PROVE  g = h
<1>1. MergedHash(g)[1] = <<"node", g>> /\ MergedHash(h)[1] = <<"node", h>>
  BY DEF MergedHash
<1>2. <<"node", g>> = <<"node", h>>
  BY <1>1, Zenon
<1> QED BY <1>2

\* A round does not lose anything: its nodes name their children.
LEMMA RoundInjective ==
  ASSUME NEW S, NEW a \in Seq(S), NEW b \in Seq(S), MergeRound(a) = MergeRound(b)
  PROVE  a = b
<1>1. PICK c : Rounds(a, c) /\ MergeRound(a) = c[0]
  BY MergeRoundIs
<1>2. PICK d : Rounds(b, d) /\ MergeRound(b) = d[0]
  BY MergeRoundIs
<1> DEFINE m == Len(a)
           n == Len(b)
           A == GroupNodes(a) \cup GroupNodes(b)
<1>3. m \in Nat /\ n \in Nat
  BY LenProperties
<1>4. /\ \A r \in 0..m : c[r] \in Seq(A)
      /\ c[m] = << >>
      /\ \A r \in 0..m : r # m => c[r] = <<GroupNode(a, r)>> \o c[GroupEnd(a, r)]
      /\ \A r \in 0..m : GroupNode(a, r) \in A
  <2>1. \A x \in Seq(GroupNodes(a)) : x \in Seq(A)
    OBVIOUS
  <2> QED BY <1>1, <2>1 DEF Rounds, GroupNodes
<1>5. /\ \A r \in 0..n : d[r] \in Seq(A)
      /\ d[n] = << >>
      /\ \A r \in 0..n : r # n => d[r] = <<GroupNode(b, r)>> \o d[GroupEnd(b, r)]
      /\ \A r \in 0..n : GroupNode(b, r) \in A
  <2>1. \A x \in Seq(GroupNodes(b)) : x \in Seq(A)
    OBVIOUS
  <2> QED BY <1>2, <2>1 DEF Rounds, GroupNodes
<1> HIDE DEF A
<1> DEFINE Same(r) == \A p \in 0..n : c[r] = d[p] => SubSeq(a, r + 1, m) = SubSeq(b, p + 1, n)
           T == {r \in 0..m : Same(r)}
<1>6. ASSUME NEW r \in 0..m, \A q \in (r + 1)..m : q \in T PROVE r \in T
  <2>1. SUFFICES ASSUME NEW p \in 0..n, c[r] = d[p]
                 PROVE  SubSeq(a, r + 1, m) = SubSeq(b, p + 1, n)
    OBVIOUS
  <2>2. r # m => c[r] # << >>
    <3> SUFFICES ASSUME r # m PROVE c[r] # << >>
      OBVIOUS
    <3>1. GroupEnd(a, r) \in 0..m
      BY <1>3, GroupEndRange
    <3>2. Len(<<GroupNode(a, r)>> \o c[GroupEnd(a, r)]) = 1 + Len(c[GroupEnd(a, r)])
      BY <1>4, <3>1, ConsIs
    <3>3. Len(c[GroupEnd(a, r)]) \in Nat
      BY <1>4, <3>1, LenProperties
    <3>4. Len(c[r]) # 0
      <4>1. c[r] = <<GroupNode(a, r)>> \o c[GroupEnd(a, r)]
        BY <1>4
      <4>2. Len(c[r]) = 1 + Len(c[GroupEnd(a, r)])
        BY <3>2, <4>1, Zenon
      <4> QED BY <3>3, <4>2
    <3> QED BY <3>4, EmptySeq
  <2>3. p # n => d[p] # << >>
    <3> SUFFICES ASSUME p # n PROVE d[p] # << >>
      OBVIOUS
    <3>1. GroupEnd(b, p) \in 0..n
      BY <1>3, GroupEndRange
    <3>2. Len(<<GroupNode(b, p)>> \o d[GroupEnd(b, p)]) = 1 + Len(d[GroupEnd(b, p)])
      BY <1>5, <3>1, ConsIs
    <3>3. Len(d[GroupEnd(b, p)]) \in Nat
      BY <1>5, <3>1, LenProperties
    <3>4. Len(d[p]) # 0
      <4>1. d[p] = <<GroupNode(b, p)>> \o d[GroupEnd(b, p)]
        BY <1>5
      <4>2. Len(d[p]) = 1 + Len(d[GroupEnd(b, p)])
        BY <3>2, <4>1, Zenon
      <4> QED BY <3>3, <4>2
    <3> QED BY <3>4, EmptySeq
  <2>4. CASE r = m
    <3>1. p = n
      BY <1>4, <2>1, <2>3, <2>4
    <3>2. SubSeq(a, m + 1, m) = << >> /\ SubSeq(b, n + 1, n) = << >>
      BY <1>3, SubSeqEmpty
    <3> QED BY <2>4, <3>1, <3>2
  <2>5. CASE r # m
    <3>1. p # n
      BY <1>5, <2>1, <2>2, <2>5
    <3> DEFINE e == GroupEnd(a, r)
               f == GroupEnd(b, p)
    <3>2. e \in (r + 1)..m /\ f \in (p + 1)..n
      BY <2>5, <3>1, GroupEndRange
    <3>3. c[r] = <<GroupNode(a, r)>> \o c[e] /\ d[p] = <<GroupNode(b, p)>> \o d[f]
      BY <1>4, <1>5, <2>5, <3>1
    <3>4. /\ c[e] \in Seq(A) /\ d[f] \in Seq(A)
          /\ GroupNode(a, r) \in A /\ GroupNode(b, p) \in A
      BY <1>3, <1>4, <1>5, <3>2
    <3>5. GroupNode(a, r) = GroupNode(b, p) /\ c[e] = d[f]
      <4> DEFINE g == GroupNode(a, r)
                 h == GroupNode(b, p)
                 x == c[e]
                 y == d[f]
      <4>1. <<g>> \o x = <<h>> \o y
        BY <2>1, <3>3, Zenon
      <4>2. g \in A /\ h \in A /\ x \in Seq(A) /\ y \in Seq(A)
        BY <3>4
      <4> HIDE DEF g, h, x, y
      <4>3. g = h /\ x = y
        BY <4>1, <4>2, ConsEqual, SMTT(30)
      <4> QED BY <4>3 DEF g, h, x, y
    <3>6. SubSeq(a, r + 1, e) = SubSeq(b, p + 1, f)
      BY <3>5, MergedHashInjective DEF GroupNode
    <3> HIDE DEF e, f
    <3>7. SubSeq(a, e + 1, m) = SubSeq(b, f + 1, n)
      <4>1. Same(e) /\ f \in 0..n
        BY <1>3, <1>6, <3>2
      <4> QED BY <3>5, <4>1
    <3>8. SubSeq(a, r + 1, e) \o SubSeq(a, e + 1, m) = SubSeq(a, r + 1, m)
      <4>1. r + 1 \in 1..(Len(a) + 1) /\ e \in (r + 1) - 1..Len(a) /\ m \in e..Len(a)
        BY <1>3, <3>2
      <4> QED BY <4>1, ConcatAdjacentSubSeq
    <3>9. SubSeq(b, p + 1, f) \o SubSeq(b, f + 1, n) = SubSeq(b, p + 1, n)
      <4>1. p + 1 \in 1..(Len(b) + 1) /\ f \in (p + 1) - 1..Len(b) /\ n \in f..Len(b)
        BY <1>3, <3>2
      <4> QED BY <4>1, ConcatAdjacentSubSeq
    <3> QED BY <3>6, <3>7, <3>8, <3>9
  <2> QED BY <2>4, <2>5
<1>7. \A r \in 0..m : r \in T
  <2> HIDE DEF T
  <2> QED BY <1>3, <1>6, DownInduction
<1>8. Same(0) /\ 0 \in 0..n
  BY <1>3, <1>7
<1>9. SubSeq(a, 0 + 1, m) = SubSeq(b, 0 + 1, n)
  BY <1>1, <1>2, <1>8
<1>10. SubSeq(a, 1, m) = a /\ SubSeq(b, 1, n) = b
  BY SubSeqFull
<1>11. SubSeq(a, 1, m) = SubSeq(b, 1, n)
  BY <1>9
<1> HIDE DEF m, n
<1> QED BY <1>10, <1>11

\* What a round makes are nodes, which no chunk is.
LEMMA GroupNodeTag ==
  ASSUME NEW S, NEW s \in Seq(S), NEW i \in 1..Len(MergeRound(s))
  PROVE  /\ MergeRound(s)[i] \in GroupNodes(s)
         /\ MergeRound(s)[i][1][1] = "node"
         /\ \E g : MergeRound(s)[i] = MergedHash(g)
<1>1. MergeRound(s) \in Seq(GroupNodes(s))
  BY RoundShrinks
<1>2. MergeRound(s)[i] \in GroupNodes(s)
  BY <1>1, ElementOfSeq
<1>3. PICK r \in 0..Len(s) : MergeRound(s)[i] = GroupNode(s, r)
  BY <1>2 DEF GroupNodes
<1>4. MergeRound(s)[i] = MergedHash(SubSeq(s, r + 1, GroupEnd(s, r)))
  BY <1>3 DEF GroupNode
<1>5. MergeRound(s)[i][1] = <<"node", SubSeq(s, r + 1, GroupEnd(s, r))>>
  BY <1>4 DEF MergedHash
<1> QED BY <1>2, <1>4, <1>5

\* A sequence of something.
Listed(s) == \E Q : s \in Seq(Q)

\* R holds the levels of the tree over s, from the leaves to the root at k.
Tree(s, R, k) ==
  /\ k \in Nat
  /\ R[0] = s
  /\ \A i \in 0..k : Listed(R[i])
  /\ \A i \in 1..k : R[i] = MergeRound(R[i - 1])
  /\ Len(R[k]) = 1

\* As many rounds as there are nodes are enough to come to the root.
LEMMA TreeExists ==
  ASSUME NEW S, NEW s \in Seq(S), s # << >>
  PROVE  \E R : \E k : Tree(s, R, k) /\ AggregatedNodeHash(s) = R[k][1][1]
<1> DEFINE n == Len(s)
           Is(f) == f = [i \in 0..n |-> IF i = 0 THEN s
                          ELSE IF Len(f[i - 1]) > 1 THEN MergeRound(f[i - 1]) ELSE f[i - 1]]
           R == CHOOSE f : Is(f)
<1>1. n \in Nat /\ n >= 1
  BY LenProperties, EmptySeq
<1>2. AggregatedNodeHash(s) = R[n][1][1]
  BY DEF AggregatedNodeHash
<1>3. \E f : Is(f)
  <2> HIDE DEF n
  <2> QED BY <1>1, RoundsExist, ZenonT(60)
<1>4. Is(R)
  <2> HIDE DEF Is
  <2> QED BY <1>3
<1> HIDE DEF R, n
<1>5. ASSUME NEW i \in 0..n
      PROVE  R[i] = IF i = 0 THEN s
                    ELSE IF Len(R[i - 1]) > 1 THEN MergeRound(R[i - 1]) ELSE R[i - 1]
  BY <1>4, Zenon
<1> HIDE DEF Is
<1>6. R[0] = s
  <2>1. 0 \in 0..n
    BY <1>1
  <2> QED BY <1>5, <2>1
<1> DEFINE Fine(i) == Listed(R[i]) /\ Len(R[i]) \in Nat /\ Len(R[i]) >= 1
                      /\ (Len(R[i]) = 1 \/ Len(R[i]) <= n - i)
           T == {i \in Nat : i <= n => Fine(i)}
<1>7. 0 \in T
  <2>1. Listed(s) /\ Len(s) = n
    BY DEF Listed, n
  <2> QED BY <1>1, <1>6, <2>1
<1>8. ASSUME NEW i \in Nat, i \in T PROVE i + 1 \in T
  <2>1. SUFFICES ASSUME i + 1 <= n PROVE Fine(i + 1)
    OBVIOUS
  <2>2. i + 1 \in 0..n /\ i + 1 # 0 /\ (i + 1) - 1 = i /\ Fine(i)
    BY <1>1, <1>8, <2>1
  <2>3. R[i + 1] = IF Len(R[i]) > 1 THEN MergeRound(R[i]) ELSE R[i]
    BY <1>5, <2>2
  <2> DEFINE r == R[i]
  <2>4. Listed(r) /\ Len(r) \in Nat /\ Len(r) >= 1 /\ (Len(r) = 1 \/ Len(r) <= n - i)
    BY <2>2
  <2>5. R[i + 1] = IF Len(r) > 1 THEN MergeRound(r) ELSE r
    BY <2>3
  <2> HIDE DEF r
  <2>6. CASE Len(r) > 1
    <3>1. PICK Q : r \in Seq(Q)
      BY <2>4 DEF Listed
    <3>2. /\ MergeRound(r) \in Seq(GroupNodes(r))
          /\ Len(MergeRound(r)) >= 1 /\ Len(MergeRound(r)) < Len(r)
      BY <2>4, <2>6, <3>1, RoundShrinks
    <3>3. Len(MergeRound(r)) \in Nat /\ Listed(MergeRound(r))
      BY <3>2, LenProperties DEF Listed
    <3>4. R[i + 1] = MergeRound(r)
      BY <2>5, <2>6
    <3>5. Len(MergeRound(r)) <= n - (i + 1)
      <4> DEFINE x == Len(MergeRound(r))
                 y == Len(r)
      <4>1. x \in Nat /\ y \in Nat /\ x < y /\ y > 1 /\ (y = 1 \/ y <= n - i)
        BY <2>4, <2>6, <3>2, <3>3
      <4> HIDE DEF x, y
      <4>2. x <= n - (i + 1)
        BY <1>1, <4>1
      <4> QED BY <4>2 DEF x
    <3>6. Listed(R[i + 1]) /\ Len(R[i + 1]) \in Nat /\ Len(R[i + 1]) >= 1 /\ Len(R[i + 1]) <= n - (i + 1)
      BY <3>2, <3>3, <3>4, <3>5, Zenon
    <3> QED BY <3>6
  <2>7. CASE ~(Len(r) > 1)
    <3>1. R[i + 1] = r
      BY <2>5, <2>7, Zenon
    <3>0. Len(r) = 1
      <4> DEFINE y == Len(r)
      <4>1. y \in Nat /\ y >= 1 /\ ~(y > 1)
        BY <2>4, <2>7
      <4> HIDE DEF y
      <4>2. y = 1
        BY <4>1
      <4> QED BY <4>2 DEF y
    <3>2. Listed(R[i + 1]) /\ Len(R[i + 1]) = 1
      BY <2>4, <3>0, <3>1, Zenon
    <3>3. Len(R[i + 1]) \in Nat /\ Len(R[i + 1]) >= 1
      BY <3>2
    <3> QED BY <3>2, <3>3
  <2> QED BY <2>6, <2>7
<1>9. ASSUME NEW i \in 0..n PROVE Fine(i)
  <2>1. \A j \in Nat : j \in T
    <3> HIDE DEF T
    <3> QED BY <1>7, <1>8, SetInduction
  <2> QED BY <2>1
<1> DEFINE K == {i \in 0..n : Len(R[i]) = 1}
<1>10. n \in K
  <2>1. n \in 0..n /\ n - n = 0
    BY <1>1
  <2>2. Fine(n)
    BY <1>9, <2>1
  <2> QED BY <2>1, <2>2
<1>11. PICK k \in K : \A j \in K : k <= j
  <2>1. K \subseteq Nat /\ K # {}
    BY <1>10
  <2> HIDE DEF K
  <2> QED BY <2>1, LeastNumber
<1>12. k \in 0..n /\ Len(R[k]) = 1
  BY <1>11, Zenon
<1> HIDE DEF K
<1>13. ASSUME NEW i \in 1..k PROVE R[i] = MergeRound(R[i - 1])
  <2>1. i \in 0..n /\ i - 1 \in 0..n /\ i # 0
    BY <1>1, <1>12
  <2>2. i - 1 \notin K
    <3>1. ~(k <= i - 1)
      BY <1>12
    <3> HIDE DEF K
    <3> QED BY <1>11, <3>1
  <2>3. Len(R[i - 1]) > 1
    <3> DEFINE y == Len(R[i - 1])
    <3>1. y \in Nat /\ y >= 1
      BY <1>9, <2>1, Zenon
    <3>2. y # 1
      BY <2>1, <2>2, Zenon DEF K
    <3> HIDE DEF y
    <3>3. y > 1
      BY <3>1, <3>2
    <3> QED BY <3>3 DEF y
  <2>4. R[i] = IF i = 0 THEN s
               ELSE IF Len(R[i - 1]) > 1 THEN MergeRound(R[i - 1]) ELSE R[i - 1]
    BY <1>5, <2>1
  <2> QED BY <2>1, <2>3, <2>4, Zenon
<1>14. R[n] = R[k]
  <2> DEFINE U == {j \in Nat : k + j <= n => R[k + j] = R[k]}
  <2>1. 0 \in U
    BY <1>12
  <2>2. ASSUME NEW j \in Nat, j \in U PROVE j + 1 \in U
    <3>1. SUFFICES ASSUME k + (j + 1) <= n PROVE R[k + (j + 1)] = R[k]
      OBVIOUS
    <3> DEFINE i == k + (j + 1)
    <3>0. k \in Nat /\ k <= n
      BY <1>12
    <3>5. i \in 0..n /\ i # 0 /\ i - 1 = k + j /\ k + j <= n
      BY <1>1, <3>0, <3>1
    <3>6. R[k + j] = R[k]
      BY <2>2, <3>5
    <3>2. i \in 0..n /\ i # 0 /\ i - 1 = k + j /\ R[i - 1] = R[k]
      BY <3>5, <3>6, Zenon
    <3>7. Len(R[i - 1]) = 1
      BY <1>12, <3>2, Zenon
    <3>3. ~(Len(R[i - 1]) > 1)
      BY <3>7
    <3>4. R[i] = R[i - 1]
      <4> HIDE DEF i
      <4>1. R[i] = IF i = 0 THEN s
               ELSE IF Len(R[i - 1]) > 1 THEN MergeRound(R[i - 1]) ELSE R[i - 1]
        BY <1>5, <3>2
      <4> QED BY <3>2, <3>3, <4>1, Zenon
    <3> QED BY <3>2, <3>4
  <2>3. n - k \in Nat /\ k + (n - k) = n
    BY <1>1, <1>12
  <2>4. n - k \in U
    <3> HIDE DEF U
    <3> QED BY <2>1, <2>2, <2>3, SetInduction
  <2>5. k + (n - k) <= n
    BY <1>1, <2>3
  <2>6. R[k + (n - k)] = R[k]
    BY <2>4, <2>5
  <2> QED BY <2>3, <2>6, Zenon
<1>15. \A i \in 0..k : Listed(R[i])
  <2>0. k \in Nat /\ k <= n
    BY <1>12
  <2> TAKE i \in 0..k
  <2>1. i \in 0..n
    BY <1>1, <2>0
  <2> QED BY <1>9, <2>1
<1>16. k \in Nat
  BY <1>12
<1>17. Tree(s, R, k)
  BY <1>6, <1>12, <1>13, <1>15, <1>16 DEF Tree
<1> QED BY <1>2, <1>14, <1>17

\* Two sequences are sequences over one set.
LEMMA OneSet ==
  ASSUME NEW a, NEW b, Listed(a), Listed(b)
  PROVE  \E Q : a \in Seq(Q) /\ b \in Seq(Q)
<1>1. PICK P : a \in Seq(P)
  BY DEF Listed
<1>2. PICK Q : b \in Seq(Q)
  BY DEF Listed
<1>3. a \in Seq(P \cup Q) /\ b \in Seq(P \cup Q)
  BY <1>1, <1>2
<1> QED BY <1>3

\* Chunks are leaves of a tree: not nodes, and the hash tells the size.
Leaves(D) ==
  /\ \A p \in D : p[1][1] # "node"
  /\ \A p, q \in D : p[1] = q[1] => p = q

\* The tree hash binds the chunks and their order: two lists of chunks with
\* one root are one list, however many levels their trees have.
LEMMA MerkleInjective ==
  ASSUME NEW D, Leaves(D), NEW a \in Seq(D), NEW b \in Seq(D), a # << >>, b # << >>,
         AggregatedNodeHash(a) = AggregatedNodeHash(b)
  PROVE  a = b
<1>1. PICK R, k : Tree(a, R, k) /\ AggregatedNodeHash(a) = R[k][1][1]
  BY TreeExists
<1>2. PICK S, l : Tree(b, S, l) /\ AggregatedNodeHash(b) = S[l][1][1]
  BY TreeExists
<1>3. k \in Nat /\ l \in Nat /\ R[0] = a /\ S[0] = b /\ Len(R[k]) = 1 /\ Len(S[l]) = 1
  BY <1>1, <1>2 DEF Tree
<1>4. /\ \A i \in 1..k : R[i] = MergeRound(R[i - 1]) /\ Listed(R[i - 1])
      /\ \A i \in 0..k : Listed(R[i])
  <2>1. \A i \in 1..k : i - 1 \in 0..k
    BY <1>3
  <2> QED BY <1>1, <2>1 DEF Tree
<1>5. /\ \A i \in 1..l : S[i] = MergeRound(S[i - 1]) /\ Listed(S[i - 1])
      /\ \A i \in 0..l : Listed(S[i])
  <2>1. \A i \in 1..l : i - 1 \in 0..l
    BY <1>3
  <2> QED BY <1>2, <2>1 DEF Tree
<1>6. ASSUME NEW i \in 1..k, NEW j \in 1..Len(R[i])
      PROVE  R[i][j][1][1] = "node" /\ \E g : R[i][j] = MergedHash(g)
  <2>1. R[i] = MergeRound(R[i - 1])
    BY <1>4
  <2>2. PICK Q : R[i - 1] \in Seq(Q)
    BY <1>4 DEF Listed
  <2> QED BY <2>1, <2>2, GroupNodeTag
<1>7. ASSUME NEW i \in 1..l, NEW j \in 1..Len(S[i])
      PROVE  S[i][j][1][1] = "node" /\ \E g : S[i][j] = MergedHash(g)
  <2>1. S[i] = MergeRound(S[i - 1])
    BY <1>5
  <2>2. PICK Q : S[i - 1] \in Seq(Q)
    BY <1>5 DEF Listed
  <2> QED BY <2>1, <2>2, GroupNodeTag
<1>8. /\ Len(a) \in Nat /\ Len(a) >= 1 /\ \A j \in 1..Len(a) : a[j] \in D /\ a[j][1][1] # "node"
      /\ Len(b) \in Nat /\ Len(b) >= 1 /\ \A j \in 1..Len(b) : b[j] \in D /\ b[j][1][1] # "node"
  <2>1. Len(a) \in Nat /\ Len(b) \in Nat /\ Len(a) # 0 /\ Len(b) # 0
    BY LenProperties, EmptySeq
  <2>2. \A j \in 1..Len(a) : a[j] \in D
    BY ElementOfSeq
  <2>3. \A j \in 1..Len(b) : b[j] \in D
    BY ElementOfSeq
  <2> QED BY <2>1, <2>2, <2>3 DEF Leaves
<1>9. 1 \in 1..Len(R[k]) /\ 1 \in 1..Len(S[l])
  BY <1>3
\* the roots
<1>10. R[k] = S[l]
  <2>0. R[k][1][1] = S[l][1][1]
    BY <1>1, <1>2
  <2>1. CASE k = 0 /\ l = 0
    <3>1. R[k][1] = a[1] /\ S[l][1] = b[1] /\ a[1] \in D /\ b[1] \in D
      BY <1>3, <1>8, <2>1
    <3>2. R[k][1] = S[l][1]
      BY <2>0, <3>1 DEF Leaves
    <3> QED BY <1>3, <1>4, <1>5, <3>2, OneSet, SeqEqual
  <2>2. CASE k # 0 /\ l # 0
    <3>1. k \in 1..k /\ l \in 1..l
      BY <1>3, <2>2
    <3>2. PICK g : R[k][1] = MergedHash(g)
      BY <1>6, <1>9, <3>1
    <3>3. PICK h : S[l][1] = MergedHash(h)
      BY <1>7, <1>9, <3>1
    <3>4. g = h
      BY <2>0, <3>2, <3>3, MergedHashInjective
    <3>5. R[k][1] = S[l][1]
      BY <3>2, <3>3, <3>4
    <3> QED BY <1>3, <1>4, <1>5, <3>5, OneSet, SeqEqual
  <2>3. CASE k = 0 /\ l # 0
    <3>1. l \in 1..l /\ R[k] = a
      BY <1>3, <2>3
    <3>2. S[l][1][1][1] = "node"
      BY <1>7, <1>9, <3>1
    <3>3. a[1][1][1] # "node"
      BY <1>8, <1>9, <3>1
    <3> QED BY <2>0, <3>1, <3>2, <3>3
  <2>4. CASE k # 0 /\ l = 0
    <3>1. k \in 1..k /\ S[l] = b
      BY <1>3, <2>4
    <3>2. R[k][1][1][1] = "node"
      BY <1>6, <1>9, <3>1
    <3>3. b[1][1][1] # "node"
      BY <1>8, <1>9, <3>1
    <3> QED BY <2>0, <3>1, <3>2, <3>3
  <2> QED BY <2>1, <2>2, <2>3, <2>4
\* down from the roots
<1> DEFINE T == {j \in Nat : j <= k /\ j <= l => R[k - j] = S[l - j]}
<1>11. 0 \in T
  BY <1>3, <1>10
<1>12. ASSUME NEW j \in Nat, j \in T PROVE j + 1 \in T
  <2>1. SUFFICES ASSUME j + 1 <= k, j + 1 <= l PROVE R[k - (j + 1)] = S[l - (j + 1)]
    OBVIOUS
  <2>2. /\ k - j \in 1..k /\ l - j \in 1..l /\ k - (j + 1) = (k - j) - 1 /\ l - (j + 1) = (l - j) - 1
        /\ R[k - j] = S[l - j]
    BY <1>3, <1>12, <2>1
  <2> DEFINE x == R[(k - j) - 1]
             y == S[(l - j) - 1]
  <2>3. R[k - j] = MergeRound(x) /\ S[l - j] = MergeRound(y) /\ Listed(x) /\ Listed(y)
    BY <1>4, <1>5, <2>2
  <2> HIDE DEF x, y
  <2>4. PICK Q : x \in Seq(Q) /\ y \in Seq(Q)
    BY <2>3, OneSet
  <2>5. MergeRound(x) = MergeRound(y)
    BY <2>2, <2>3
  <2>6. x = y
    BY <2>4, <2>5, RoundInjective
  <2> QED BY <2>2, <2>6 DEF x, y
<1>13. \A j \in Nat : j <= k /\ j <= l => R[k - j] = S[l - j]
  <2>1. \A j \in Nat : j \in T
    <3> HIDE DEF T
    <3> QED BY <1>11, <1>12, SetInduction
  <2> QED BY <2>1
<1>14. CASE k <= l
  <2>1. k - k = 0 /\ k <= k
    BY <1>3
  <2>2. a = S[l - k]
    BY <1>3, <1>13, <1>14, <2>1
  <2>3. l = k
    <3>1. SUFFICES ASSUME l # k PROVE FALSE
      OBVIOUS
    <3>2. l - k \in 1..l
      BY <1>3, <1>14, <3>1
    <3>3. 1 \in 1..Len(a)
      BY <1>8
    <3>4. S[l - k][1][1][1] = "node"
      BY <1>7, <2>2, <3>2, <3>3
    <3> QED BY <1>8, <2>2, <3>3, <3>4
  <2>4. l - k = 0
    BY <1>3, <2>3
  <2> QED BY <1>3, <2>2, <2>4
<1>15. CASE l <= k
  <2>1. l - l = 0 /\ l <= l
    BY <1>3
  <2>2. b = R[k - l]
    BY <1>3, <1>13, <1>15, <2>1
  <2>3. l = k
    <3>1. SUFFICES ASSUME l # k PROVE FALSE
      OBVIOUS
    <3>2. k - l \in 1..k
      BY <1>3, <1>15, <3>1
    <3>3. 1 \in 1..Len(b)
      BY <1>8
    <3>4. R[k - l][1][1][1] = "node"
      BY <1>6, <2>2, <3>2, <3>3
    <3> QED BY <1>8, <2>2, <3>3, <3>4
  <2>4. k - l = 0
    BY <1>3, <2>3
  <2> QED BY <1>3, <2>2, <2>4
<1> QED BY <1>3, <1>14, <1>15

-----------------------------------------------------------------------------
(* Xorbs: the regions determine the object.                                *)

\* lz4_flex needs at most n + n / 255 + 16 bytes for n, and 4 for the size in
\* front of them (max_compressed_len_for_chunk).
Lz4Bounded ==
  \A s \in Seq(Byte) : Lz4Len(s) \in Nat /\ Lz4Len(s) <= Len(s) + Len(s) \div 255 + 20

Nodes(rs) == [i \in 1..Len(rs) |-> <<RegionHash(rs[i]), RegionLen(rs[i])>>]
Lens(rs) == [i \in 1..Len(rs) |-> RegionLen(rs[i])]
Sizes(rs) == [i \in 1..Len(rs) |-> rs[i].unpacked]

\* The one xorb of a list of regions that the checks accept.
SealedXorb(rs) ==
  Xorb(rs, 0,
    Footer(XorbHash(Nodes(rs)),
           [i \in 1..Len(rs) |-> RegionHash(rs[i])],
           [i \in 1..Len(rs) |-> SumSeq(First(Lens(rs), i))],
           [i \in 1..Len(rs) |-> SumSeq(First(Sizes(rs), i - 1))]), 0)

\* What the parts of a region are.
LEMMA RegionTyped ==
  ASSUME Lz4Bounded, NEW r \in Regions
  PROVE  /\ PayloadLen(r) \in Nat /\ RegionLen(r) \in Nat /\ RegionLen(r) >= 1
         /\ RegionLen(r) = HeaderSize + PayloadLen(r)
         /\ r.unpacked \in Nat
<1>1. r.payload.bytes \in Seq(Byte) /\ r.unpacked \in Nat
  BY DEF Regions
<1>2. Lz4Len(r.payload.bytes) \in Nat
  BY <1>1 DEF Lz4Bounded
<1>3. Len(r.payload.bytes) \in Nat
  BY <1>1, LenProperties
<1>4. PayloadLen(r) \in Nat
  BY <1>2, <1>3 DEF PayloadLen, CompressedLen
<1>5. HeaderSize \in Nat /\ HeaderSize >= 1
  BY XorbAssumption
<1> DEFINE p == PayloadLen(r)
<1>6. RegionLen(r) = HeaderSize + p /\ p \in Nat
  BY <1>4 DEF RegionLen
<1> HIDE DEF p
<1>7. HeaderSize + p \in Nat /\ HeaderSize + p >= 1
  BY <1>5, <1>6
<1> QED BY <1>1, <1>4, <1>6, <1>7 DEF p

\* The same of a list of regions.
LEMMA RegionsTyped ==
  ASSUME Lz4Bounded, NEW rs \in Seq(Regions)
  PROVE  /\ Len(rs) \in Nat
         /\ Lens(rs) \in [1..Len(rs) -> Nat] /\ Sizes(rs) \in [1..Len(rs) -> Nat]
         /\ \A i \in 1..Len(rs) : Lens(rs)[i] >= 1 /\ Lens(rs)[i] = RegionLen(rs[i])
         /\ \A i \in 1..Len(rs) : Sizes(rs)[i] = rs[i].unpacked
<1>1. Len(rs) \in Nat
  BY LenProperties
<1>2. \A i \in 1..Len(rs) : rs[i] \in Regions
  BY ElementOfSeq
<1>3. \A i \in 1..Len(rs) : RegionLen(rs[i]) \in Nat /\ RegionLen(rs[i]) >= 1 /\ rs[i].unpacked \in Nat
  BY <1>2, RegionTyped
<1> QED BY <1>1, <1>3 DEF Lens, Sizes

\* Where the regions start, and the unpacked bytes in front of them.
LEMMA StartIs ==
  ASSUME Lz4Bounded, NEW x, x.regions \in Seq(Regions)
  PROVE  \A i \in 1..(Len(x.regions) + 1) :
           /\ RegionStart(x, i) = SumSeq(First(Lens(x.regions), i - 1))
           /\ UnpackedBefore(x, i) = SumSeq(First(Sizes(x.regions), i - 1))
<1> DEFINE rs == x.regions
<1>1. Len(rs) \in Nat
  BY LenProperties
<1> SUFFICES ASSUME NEW i \in 1..(Len(rs) + 1)
             PROVE  /\ RegionStart(x, i) = SumSeq(First(Lens(rs), i - 1))
                    /\ UnpackedBefore(x, i) = SumSeq(First(Sizes(rs), i - 1))
  OBVIOUS
<1>2. \A k \in 1..(i - 1) : k \in 1..Len(rs)
  BY <1>1
<1>3. First(Lens(rs), i - 1) = [k \in 1..(i - 1) |-> RegionLen(rs[k])]
  BY <1>2 DEF First, Lens
<1>4. First(Sizes(rs), i - 1) = [k \in 1..(i - 1) |-> rs[k].unpacked]
  BY <1>2 DEF First, Sizes
<1> QED BY <1>3, <1>4, Zenon DEF RegionStart, UnpackedBefore

\* Sums of positive numbers grow with every one.
LEMMA SumGrows ==
  ASSUME NEW n \in Nat, NEW s \in [1..n -> Nat], \A i \in 1..n : s[i] >= 1,
         NEW i \in 0..n, NEW j \in 0..n, i < j
  PROVE  SumSeq(First(s, i)) < SumSeq(First(s, j))
<1>1. i + 1 \in 0..n /\ i + 1 \in 1..n /\ (i + 1) - 1 = i /\ i + 1 <= j
  OBVIOUS
<1> DEFINE S(k) == SumSeq(First(s, k))
<1>2. s \in [1..n -> Int]
  OBVIOUS
<1>3. S(i + 1) = S(i) + s[i + 1]
  BY <1>1, <1>2, SumSteps, ZenonT(60)
<1>4. S(i) \in Nat /\ S(j) \in Nat /\ S(i + 1) \in Nat /\ S(i + 1) <= S(j)
  BY <1>1, SumNat
<1>5. s[i + 1] \in Nat /\ s[i + 1] >= 1
  BY <1>1
<1> DEFINE a == S(i)
           b == S(i + 1)
           c == S(j)
           d == s[i + 1]
<1>6. b = a + d /\ a \in Nat /\ b \in Nat /\ c \in Nat /\ b <= c /\ d \in Nat /\ d >= 1
  BY <1>3, <1>4, <1>5
<1> HIDE DEF a, b, c, d
<1>7. a < c
  BY <1>6
<1> QED BY <1>7 DEF a, c

\* No two regions start at the same offset.
LEMMA StartsGrow ==
  ASSUME Lz4Bounded, NEW rs \in Seq(Regions), NEW i \in 0..Len(rs), NEW j \in 0..Len(rs), i < j
  PROVE  SumSeq(First(Lens(rs), i)) < SumSeq(First(Lens(rs), j))
<1>1. Len(rs) \in Nat /\ Lens(rs) \in [1..Len(rs) -> Nat] /\ \A k \in 1..Len(rs) : Lens(rs)[k] >= 1
  BY RegionsTyped
<1> DEFINE n == Len(rs)
           s == Lens(rs)
<1> HIDE DEF n, s
<1>2. n \in Nat /\ s \in [1..n -> Nat] /\ (\A k \in 1..n : s[k] >= 1) /\ i \in 0..n /\ j \in 0..n
  BY <1>1 DEF n, s
<1>3. SumSeq(First(s, i)) < SumSeq(First(s, j))
  BY <1>2, SumGrows
<1> QED BY <1>3 DEF s

\* The root of a tree is the only leaf's hash, or a node's.
LEMMA RootTag ==
  ASSUME NEW D, NEW a \in Seq(D), a # << >>
  PROVE  \/ AggregatedNodeHash(a)[1] = "node"
         \/ \E p \in D : AggregatedNodeHash(a) = p[1]
<1>1. PICK R, k : Tree(a, R, k) /\ AggregatedNodeHash(a) = R[k][1][1]
  BY TreeExists
<1>2. k \in Nat /\ Len(R[k]) = 1 /\ R[0] = a
  BY <1>1 DEF Tree
<1>3. CASE k = 0
  <2>1. Len(a) = 1 /\ R[k] = a
    BY <1>2, <1>3
  <2>2. a[1] \in D
    BY <2>1, ElementOfSeq
  <2>3. AggregatedNodeHash(a) = a[1][1]
    BY <1>1, <2>1
  <2> QED BY <2>2, <2>3
<1>4. CASE k # 0
  <2>1. k \in 1..k /\ k - 1 \in 0..k
    BY <1>2, <1>4
  <2>2. R[k] = MergeRound(R[k - 1]) /\ Listed(R[k - 1])
    BY <1>1, <2>1 DEF Tree
  <2>3. PICK Q : R[k - 1] \in Seq(Q)
    BY <2>2 DEF Listed
  <2>4. 1 \in 1..Len(MergeRound(R[k - 1]))
    BY <1>2, <2>2
  <2>5. MergeRound(R[k - 1])[1][1][1] = "node"
    BY <2>3, <2>4, GroupNodeTag
  <2> QED BY <1>1, <2>2, <2>5
<1> QED BY <1>3, <1>4

\* A xorb hash tells the regions.
LEMMA XorbHashInjective ==
  ASSUME Lz4Bounded, NEW a \in Seq(Regions), NEW b \in Seq(Regions),
         XorbHash(Nodes(a)) = XorbHash(Nodes(b))
  PROVE  a = b
<1> DEFINE D == {<<RegionHash(r), RegionLen(r)>> : r \in Regions}
<1>1. ASSUME NEW s \in Seq(Regions)
      PROVE  /\ Nodes(s) \in Seq(D) /\ Len(Nodes(s)) = Len(s) /\ Len(s) \in Nat
             /\ s # << >> => Nodes(s) # << >>
             /\ \A i \in 1..Len(s) : Nodes(s)[i] = <<RegionHash(s[i]), RegionLen(s[i])>>
  <2>1. Len(s) \in Nat /\ \A i \in 1..Len(s) : s[i] \in Regions
    BY LenProperties, ElementOfSeq
  <2>2. \A i \in 1..Len(s) : <<RegionHash(s[i]), RegionLen(s[i])>> \in D
    BY <2>1
  <2>3. Nodes(s) \in Seq(D) /\ Len(Nodes(s)) = Len(s)
    <3> HIDE DEF D
    <3> QED BY <2>1, <2>2 DEF Nodes
  <2>4. s # << >> => Len(s) # 0
    BY EmptySeq
  <2>5. Len(<< >>) = 0
    OBVIOUS
  <2>6. s # << >> => Nodes(s) # << >>
    BY <2>3, <2>4, <2>5, Zenon
  <2> QED BY <2>1, <2>3, <2>6 DEF Nodes
<1>2. Leaves(D)
  <2>1. ASSUME NEW p \in D PROVE p[1][1] = "chunk" /\ \E r \in Regions : p = <<<<"chunk", r>>, RegionLen(r)>>
    BY DEF RegionHash
  <2>2. ASSUME NEW p \in D, NEW q \in D, p[1] = q[1] PROVE p = q
    <3>1. PICK r \in Regions : p = <<<<"chunk", r>>, RegionLen(r)>>
      BY <2>1
    <3>2. PICK t \in Regions : q = <<<<"chunk", t>>, RegionLen(t)>>
      BY <2>1
    <3>3. p[1][2] = r /\ q[1][2] = t
      BY <3>1, <3>2
    <3>4. r = t
      BY <2>2, <3>3
    <3> QED BY <3>1, <3>2, <3>4
  <2> QED BY <2>1, <2>2 DEF Leaves
<1>3. ASSUME NEW s \in Seq(Regions), s # << >> PROVE XorbHash(Nodes(s)) # DefaultHash
  <2>1. Nodes(s) \in Seq(D) /\ Nodes(s) # << >>
    BY <1>1, <1>3
  <2>2. XorbHash(Nodes(s))[1] = "node" \/ \E p \in D : XorbHash(Nodes(s)) = p[1]
    <3> HIDE DEF D
    <3> QED BY <2>1, RootTag DEF XorbHash
  <2>3. \A p \in D : p[1][1] = "chunk"
    BY DEF RegionHash
  <2>4. DefaultHash[1] = "default"
    BY DEF DefaultHash
  <2> HIDE DEF D
  <2> QED BY <2>2, <2>3, <2>4
<1>4. Nodes(<< >>) = << >>
  BY DEF Nodes
<1>5. XorbHash(<< >>) = DefaultHash
  BY DEF XorbHash, AggregatedNodeHash
<1>6. CASE a = << >> \/ b = << >>
  BY <1>3, <1>4, <1>5, <1>6, Zenon
<1>7. CASE a # << >> /\ b # << >>
  <2>1. Nodes(a) \in Seq(D) /\ Nodes(b) \in Seq(D) /\ Nodes(a) # << >> /\ Nodes(b) # << >>
    BY <1>1, <1>7
  <2>2. AggregatedNodeHash(Nodes(a)) = AggregatedNodeHash(Nodes(b))
    BY DEF XorbHash
  <2>3. Nodes(a) = Nodes(b)
    <3> HIDE DEF D
    <3> QED BY <1>2, <2>1, <2>2, MerkleInjective
  <2>4. Len(a) = Len(b)
    BY <1>1, <2>3, Zenon
  <2>5. ASSUME NEW i \in 1..Len(a) PROVE a[i] = b[i]
    <3>0. i \in 1..Len(b)
      BY <2>4
    <3>1. Nodes(a)[i] = <<RegionHash(a[i]), RegionLen(a[i])>>
      BY <1>1
    <3>2. Nodes(b)[i] = <<RegionHash(b[i]), RegionLen(b[i])>>
      BY <1>1, <3>0
    <3>3. <<RegionHash(a[i]), RegionLen(a[i])>>[1] = <<RegionHash(b[i]), RegionLen(b[i])>>[1]
      BY <2>3, <3>1, <3>2, Zenon
    <3>4. RegionHash(a[i]) = RegionHash(b[i])
      BY <3>3
    <3>5. <<"chunk", a[i]>>[2] = <<"chunk", b[i]>>[2]
      BY <3>4, Zenon DEF RegionHash
    <3> QED BY <3>5
  <2> QED BY <2>4, <2>5, SeqEqual
<1> QED BY <1>6, <1>7

\* The sums of the lengths of the first regions.
LEMMA LensSteps ==
  ASSUME Lz4Bounded, NEW rs \in Seq(Regions)
  PROVE  /\ SumSeq(First(Lens(rs), 0)) = 0
         /\ \A i \in 0..Len(rs) : SumSeq(First(Lens(rs), i)) \in Nat
         /\ \A i \in 1..Len(rs) :
              SumSeq(First(Lens(rs), i)) = SumSeq(First(Lens(rs), i - 1)) + RegionLen(rs[i])
         /\ SumSeq(First(Lens(rs), Len(rs))) = SumSeq(Lens(rs))
<1>1. Len(rs) \in Nat /\ Lens(rs) \in [1..Len(rs) -> Nat] /\ \A k \in 1..Len(rs) : Lens(rs)[k] = RegionLen(rs[k])
  BY RegionsTyped
<1> DEFINE n == Len(rs)
           s == Lens(rs)
<1> HIDE DEF n, s
<1>2. n \in Nat /\ s \in [1..n -> Nat] /\ (\A k \in 1..n : s[k] = RegionLen(rs[k]))
  BY <1>1 DEF n, s
<1>3. s \in [1..n -> Int]
  BY <1>2
<1>4. /\ SumSeq(First(s, 0)) = 0
      /\ \A i \in 1..n : SumSeq(First(s, i)) = SumSeq(First(s, i - 1)) + s[i]
      /\ SumSeq(First(s, n)) = SumSeq(s)
  BY <1>2, <1>3, SumSteps
<1>5. \A i \in 0..n : SumSeq(First(s, i)) \in Nat
  BY <1>2, SumNat, SMTT(30)
<1>6. \A i \in 1..n : SumSeq(First(s, i)) = SumSeq(First(s, i - 1)) + RegionLen(rs[i])
  BY <1>2, <1>4, Zenon
<1> QED BY <1>4, <1>5, <1>6 DEF n, s

\* The sums of the unpacked sizes of the first regions.
LEMMA SizesSteps ==
  ASSUME Lz4Bounded, NEW rs \in Seq(Regions)
  PROVE  /\ SumSeq(First(Sizes(rs), 0)) = 0
         /\ \A i \in 0..Len(rs) : SumSeq(First(Sizes(rs), i)) \in Nat
         /\ \A i \in 1..Len(rs) :
              SumSeq(First(Sizes(rs), i)) = SumSeq(First(Sizes(rs), i - 1)) + rs[i].unpacked
         /\ SumSeq(First(Sizes(rs), Len(rs))) = SumSeq(Sizes(rs))
<1>1. Len(rs) \in Nat /\ Sizes(rs) \in [1..Len(rs) -> Nat] /\ \A k \in 1..Len(rs) : Sizes(rs)[k] = rs[k].unpacked
  BY RegionsTyped
<1> DEFINE n == Len(rs)
           s == Sizes(rs)
<1> HIDE DEF n, s
<1>2. n \in Nat /\ s \in [1..n -> Nat] /\ (\A k \in 1..n : s[k] = rs[k].unpacked)
  BY <1>1 DEF n, s
<1>3. s \in [1..n -> Int]
  BY <1>2
<1>4. /\ SumSeq(First(s, 0)) = 0
      /\ \A i \in 1..n : SumSeq(First(s, i)) = SumSeq(First(s, i - 1)) + s[i]
      /\ SumSeq(First(s, n)) = SumSeq(s)
  BY <1>2, <1>3, SumSteps, ZenonT(60)
<1>5. \A i \in 0..n : SumSeq(First(s, i)) \in Nat
  BY <1>2, SumNat, SMTT(30)
<1>6. \A i \in 1..n : SumSeq(First(s, i)) = SumSeq(First(s, i - 1)) + rs[i].unpacked
  BY <1>2, <1>4, Zenon
<1> QED BY <1>4, <1>5, <1>6 DEF n, s

\* A xorb that the check accepts has the regions that its footer describes
\* and no byte besides.
LEMMA VerifiedSealed ==
  ASSUME Lz4Bounded, NEW x, XorbFile(x), VerifyXorbFromFile(x)
  PROVE  x.regions \in Seq(Regions) /\ x = SealedXorb(x.regions) /\ Len(x.regions) <= MaxChunks
<1> DEFINE rs == x.regions
           hs == x.footer.chunk_hashes
           n == Len(hs)
           m == Len(rs)
           E(i) == FooterEnd(x, i)
           L(i) == SumSeq(First(Lens(rs), i))
<1>1. /\ rs \in Seq(Regions) /\ n \in Nat /\ hs = [i \in 1..n |-> hs[i]]
      /\ x.footer.chunk_boundary_offsets \in [1..n -> Nat]
      /\ x.footer.unpacked_chunk_offsets \in [1..n -> Nat]
      /\ x.stray \in Nat /\ x.trailing \in Nat
      /\ x = Xorb(x.regions, x.stray,
                  Footer(x.footer.xorb_hash, x.footer.chunk_hashes,
                         x.footer.chunk_boundary_offsets, x.footer.unpacked_chunk_offsets),
                  x.trailing)
  BY DEF XorbFile, IsList
<1>2. m \in Nat
  BY <1>1, LenProperties
<1>3. /\ L(0) = 0 /\ (\A i \in 0..m : L(i) \in Nat)
      /\ \A i \in 1..m : L(i) = L(i - 1) + RegionLen(rs[i])
  BY <1>1, LensSteps
<1>4. /\ n <= MaxChunks
      /\ FooterStart(x) + FooterLen(n) = FileLen(x)
      /\ \A i \in 1..n :
           /\ i <= m
           /\ E(i) - E(i - 1) = RegionLen(rs[i])
           /\ x.footer.unpacked_chunk_offsets[i] = UnpackedBefore(x, i)
           /\ RegionHash(rs[i]) = hs[i]
      /\ E(n) = FooterStart(x)
      /\ ComputedXorbHash(x) = x.footer.xorb_hash
  BY DEF VerifyXorbFromFile, FooterReads
<1>5. E(0) = 0 /\ (\A i \in 0..n : E(i) \in Nat) /\ (\A i \in 1..n : E(i) = x.footer.chunk_boundary_offsets[i])
  BY <1>1 DEF FooterEnd
<1>6. n <= m
  <2>1. CASE n = 0
    BY <1>2, <2>1
  <2>2. CASE n # 0
    <3>1. n \in 1..n
      BY <1>1, <2>2
    <3> QED BY <1>4, <3>1
  <2> QED BY <2>1, <2>2
<1>7. \A i \in 1..m : RegionLen(rs[i]) \in Nat
  <2>1. \A i \in 1..m : rs[i] \in Regions
    BY <1>1, ElementOfSeq
  <2> QED BY <2>1, RegionTyped
<1> HIDE DEF E, L
<1>8. ASSUME NEW i \in 0..n PROVE E(i) = L(i)
  <2> DEFINE T == {k \in Nat : k <= n => E(k) = L(k)}
  <2>1. 0 \in T
    BY <1>3, <1>5
  <2>2. ASSUME NEW k \in Nat, k \in T PROVE k + 1 \in T
    <3>1. SUFFICES ASSUME k + 1 <= n PROVE E(k + 1) = L(k + 1)
      OBVIOUS
    <3> HIDE DEF n, m, rs
    <3>2. k + 1 \in 1..n /\ k + 1 \in 1..m /\ (k + 1) - 1 = k /\ k \in 0..n /\ k + 1 \in 0..n
      BY <1>1, <1>2, <1>6, <3>1
    <3> DEFINE l == RegionLen(rs[k + 1])
    <3>3. E(k + 1) - E((k + 1) - 1) = l /\ L(k + 1) = L((k + 1) - 1) + l /\ l \in Nat
      BY <1>3, <1>4, <1>7, <3>2
    <3>4. E(k) = L(k) /\ E(k) \in Nat /\ E(k + 1) \in Nat
      BY <1>5, <2>2, <3>2
    <3> HIDE DEF l
    <3>5. E(k + 1) - E(k) = l /\ L(k + 1) = L(k) + l
      BY <3>2, <3>3
    <3> QED BY <3>3, <3>4, <3>5
  <2>3. \A k \in Nat : k \in T
    <3> HIDE DEF T
    <3> QED BY <2>1, <2>2, SetInduction
  <2>4. i \in Nat /\ i <= n
    BY <1>1
  <2> QED BY <2>3, <2>4
<1>9. RegionStart(x, m + 1) = L(m)
  <2>1. m + 1 \in 1..(m + 1) /\ (m + 1) - 1 = m
    BY <1>2
  <2> QED BY <1>1, <2>1, StartIs DEF L
<1>10. E(n) = L(n) /\ E(n) = L(m) + x.stray /\ L(n) \in Nat /\ L(m) \in Nat
  <2>1. n \in 0..n /\ n \in 0..m /\ m \in 0..m
    BY <1>1, <1>2, <1>6
  <2>2. FooterStart(x) = L(m) + x.stray
    BY <1>9 DEF FooterStart
  <2> QED BY <1>3, <1>4, <1>8, <2>1, <2>2
<1>11. n = m
  <2>1. SUFFICES ASSUME n # m PROVE FALSE
    OBVIOUS
  <2>2. n < m /\ n \in 0..m /\ m \in 0..m
    BY <1>1, <1>2, <1>6, <2>1
  <2>3. L(n) < L(m)
    BY <1>1, <2>2, StartsGrow DEF L
  <2> QED BY <1>1, <1>10, <2>3
<1>12. x.stray = 0
  <2> DEFINE a == L(m)
             b == x.stray
  <2>1. L(n) = L(m)
    BY <1>11
  <2>2. a \in Nat /\ b \in Nat /\ a = a + b
    BY <1>1, <1>10, <2>1, Zenon
  <2> HIDE DEF a, b
  <2>3. b = 0
    BY <2>2
  <2> QED BY <2>3 DEF b
<1>13. x.trailing = 0
  <2> DEFINE a == FooterStart(x)
             b == FooterLen(n)
  <2>1. a \in Nat
    BY <1>4, <1>10
  <2>2. b \in Nat
    BY <1>1 DEF FooterLen
  <2>3. a + b = a + b + x.trailing
    BY <1>4 DEF FileLen
  <2> HIDE DEF a, b
  <2> QED BY <1>1, <2>1, <2>2, <2>3
<1>14. x.footer.chunk_hashes = [i \in 1..m |-> RegionHash(rs[i])]
  <2>1. \A i \in 1..n : hs[i] = RegionHash(rs[i])
    BY <1>4
  <2>2. hs = [i \in 1..n |-> RegionHash(rs[i])]
    BY <1>1, <2>1
  <2> QED BY <1>11, <2>2
<1>15. x.footer.chunk_boundary_offsets = [i \in 1..m |-> SumSeq(First(Lens(rs), i))]
  <2>1. \A i \in 1..n : x.footer.chunk_boundary_offsets[i] = L(i)
    <3> TAKE i \in 1..n
    <3>1. i \in 0..n
      BY <1>1
    <3> QED BY <1>5, <1>8, <3>1
  <2>2. x.footer.chunk_boundary_offsets = [i \in 1..n |-> L(i)]
    BY <1>1, <2>1
  <2> QED BY <1>11, <2>2 DEF L
<1>16. x.footer.unpacked_chunk_offsets = [i \in 1..m |-> SumSeq(First(Sizes(rs), i - 1))]
  <2>1. \A i \in 1..n : x.footer.unpacked_chunk_offsets[i] = SumSeq(First(Sizes(rs), i - 1))
    <3> TAKE i \in 1..n
    <3>1. i \in 1..(m + 1)
      BY <1>1, <1>2, <1>11
    <3>2. UnpackedBefore(x, i) = SumSeq(First(Sizes(rs), i - 1))
      BY <1>1, <3>1, StartIs
    <3> QED BY <1>4, <3>2
  <2>2. x.footer.unpacked_chunk_offsets = [i \in 1..n |-> SumSeq(First(Sizes(rs), i - 1))]
    BY <1>1, <2>1
  <2> QED BY <1>11, <2>2
<1>17. x.footer.xorb_hash = XorbHash(Nodes(rs))
  <2>1. \A i \in 1..n : <<hs[i], FooterEnd(x, i) - FooterEnd(x, i - 1)>> = <<RegionHash(rs[i]), RegionLen(rs[i])>>
    BY <1>4, Zenon DEF E
  <2>2. [i \in 1..n |-> <<hs[i], FooterEnd(x, i) - FooterEnd(x, i - 1)>>]
          = [i \in 1..n |-> <<RegionHash(rs[i]), RegionLen(rs[i])>>]
    BY <2>1, Zenon
  <2>3. Nodes(rs) = [i \in 1..n |-> <<RegionHash(rs[i]), RegionLen(rs[i])>>]
    BY <1>11 DEF Nodes
  <2> QED BY <1>4, <2>2, <2>3, Zenon DEF ComputedXorbHash
<1>18. x = SealedXorb(rs)
  BY <1>1, <1>12, <1>13, <1>14, <1>15, <1>16, <1>17, Zenon DEF SealedXorb
<1> QED BY <1>1, <1>4, <1>11, <1>18

\* The other way round: the check accepts it.
LEMMA SealedVerifies ==
  ASSUME Lz4Bounded, NEW rs \in Seq(Regions), Len(rs) <= MaxChunks
  PROVE  VerifyXorbFromFile(SealedXorb(rs))
<1> DEFINE x == SealedXorb(rs)
           n == Len(rs)
           L(i) == SumSeq(First(Lens(rs), i))
<1>1. n \in Nat
  BY LenProperties
<1>2. /\ x.regions = rs /\ x.stray = 0 /\ x.trailing = 0
      /\ x.footer.xorb_hash = XorbHash(Nodes(rs))
      /\ x.footer.chunk_hashes = [i \in 1..n |-> RegionHash(rs[i])]
      /\ x.footer.chunk_boundary_offsets = [i \in 1..n |-> L(i)]
      /\ x.footer.unpacked_chunk_offsets = [i \in 1..n |-> SumSeq(First(Sizes(rs), i - 1))]
  BY DEF SealedXorb, Xorb, Footer
<1> HIDE DEF x
<1>3. Len(x.footer.chunk_hashes) = n
  BY <1>1, <1>2
<1>4. /\ L(0) = 0 /\ (\A i \in 0..n : L(i) \in Nat)
      /\ \A i \in 1..n : L(i) = L(i - 1) + RegionLen(rs[i])
  BY LensSteps
<1>5. ASSUME NEW i \in 0..n PROVE FooterEnd(x, i) = L(i)
  BY <1>2, <1>4 DEF FooterEnd
<1>6. FooterStart(x) = L(n)
  <2>1. n + 1 \in 1..(n + 1) /\ (n + 1) - 1 = n /\ n \in 0..n
    BY <1>1
  <2>2. RegionStart(x, n + 1) = L(n)
    BY <1>2, <2>1, StartIs
  <2> QED BY <1>2, <1>4, <2>1, <2>2 DEF FooterStart
<1>7. FooterStart(x) + FooterLen(n) = FileLen(x)
  <2>1. FooterLen(n) \in Nat /\ FooterStart(x) \in Nat
    <3>1. n \in 0..n
      BY <1>1
    <3> QED BY <1>1, <1>4, <1>6, <3>1 DEF FooterLen
  <2> QED BY <1>2, <1>3, <2>1 DEF FileLen
<1>8. \A i \in 1..n : RegionLen(rs[i]) \in Nat
  <2>1. \A i \in 1..n : rs[i] \in Regions
    BY ElementOfSeq
  <2> QED BY <2>1, RegionTyped
<1>9. ASSUME NEW i \in 1..n
      PROVE  /\ FooterEnd(x, i) <= FooterStart(x)
             /\ FooterEnd(x, i) >= FooterEnd(x, i - 1)
             /\ i <= Len(x.regions)
             /\ FooterEnd(x, i) - FooterEnd(x, i - 1) = RegionLen(x.regions[i])
             /\ x.footer.unpacked_chunk_offsets[i] = UnpackedBefore(x, i)
             /\ RegionHash(x.regions[i]) = x.footer.chunk_hashes[i]
  <2>1. i \in 0..n /\ i - 1 \in 0..n /\ i \in 1..(n + 1) /\ i <= n /\ n \in 0..n
    BY <1>1
  <2>2. FooterEnd(x, i) = L(i) /\ FooterEnd(x, i - 1) = L(i - 1)
    BY <1>5, <2>1
  <2> DEFINE a == L(i)
             b == L(i - 1)
             c == RegionLen(rs[i])
  <2>3. a \in Nat /\ b \in Nat /\ a = b + c /\ c \in Nat
    BY <1>4, <1>8, <2>1
  <2> HIDE DEF a, b, c
  <2>4. a >= b /\ a - b = c
    BY <2>3
  <2>5. L(i) <= L(n)
    <3>1. CASE i = n
      BY <1>4, <2>1, <3>1
    <3>2. CASE i # n
      <4>1. i < n
        BY <1>1, <2>1, <3>2
      <4>2. L(i) < L(n)
        BY <2>1, <4>1, StartsGrow
      <4>3. L(i) \in Nat /\ L(n) \in Nat
        BY <1>4, <2>1
      <4> HIDE DEF L
      <4> QED BY <4>2, <4>3
    <3> QED BY <3>1, <3>2
  <2>6. UnpackedBefore(x, i) = SumSeq(First(Sizes(rs), i - 1))
    BY <1>2, <2>1, StartIs
  <2>7. FooterEnd(x, i) >= FooterEnd(x, i - 1) /\ FooterEnd(x, i) - FooterEnd(x, i - 1) = RegionLen(x.regions[i])
    BY <1>2, <2>2, <2>4 DEF a, b, c
  <2> QED BY <1>2, <1>6, <2>1, <2>2, <2>5, <2>6, <2>7
<1>10. FooterEnd(x, n) = FooterStart(x)
  <2>1. n \in 0..n
    BY <1>1
  <2> QED BY <1>5, <1>6, <2>1
<1>11. ComputedXorbHash(x) = x.footer.xorb_hash
  <2>1. \A i \in 1..n : <<x.footer.chunk_hashes[i], FooterEnd(x, i) - FooterEnd(x, i - 1)>>
                         = <<RegionHash(rs[i]), RegionLen(rs[i])>>
    BY <1>2, <1>9, Zenon
  <2>2. [i \in 1..n |-> <<x.footer.chunk_hashes[i], FooterEnd(x, i) - FooterEnd(x, i - 1)>>]
          = [i \in 1..n |-> <<RegionHash(rs[i]), RegionLen(rs[i])>>]
    BY <2>1, Zenon
  <2> QED BY <1>2, <1>3, <2>2, Zenon DEF ComputedXorbHash, Nodes
<1>12. FooterReads(x)
  BY <1>3 DEF FooterReads
<1>13. VerifyXorbFromFile(x)
  BY <1>3, <1>7, <1>9, <1>10, <1>11, <1>12 DEF VerifyXorbFromFile
<1> QED BY <1>13 DEF x

\* How many of len positions are in group g, and in the groups before.
GroupLen(len, g) == (len - g + 3) \div 4
GroupBase(len, g) ==
  (IF g > 0 THEN GroupLen(len, 0) ELSE 0) + (IF g > 1 THEN GroupLen(len, 1) ELSE 0)
    + (IF g > 2 THEN GroupLen(len, 2) ELSE 0)

\* The four groups have a place for each position, and no more.
LEMMA GroupLens ==
  ASSUME NEW len \in Nat
  PROVE  /\ \A g \in 0..3 : GroupLen(len, g) \in Nat
         /\ GroupLen(len, 0) + GroupLen(len, 1) + GroupLen(len, 2) + GroupLen(len, 3) = len
         /\ \A g \in 0..3 : \A i \in 1..GroupLen(len, g) : 4 * (i - 1) + g + 1 \in 1..len
         /\ \A p \in 1..len : (p - 1) % 4 \in 0..3 /\ (p - 1) \div 4 + 1 \in 1..GroupLen(len, (p - 1) % 4)
                              /\ 4 * ((p - 1) \div 4) + ((p - 1) % 4) + 1 = p
<1>1. \A g \in 0..3 : GroupLen(len, g) \in Nat
  BY DEF GroupLen
<1>2. GroupLen(len, 0) + GroupLen(len, 1) + GroupLen(len, 2) + GroupLen(len, 3) = len
  BY DEF GroupLen
<1>3. \A g \in 0..3 : \A i \in 1..GroupLen(len, g) : 4 * (i - 1) + g + 1 \in 1..len
  BY DEF GroupLen
<1>4. ASSUME NEW p \in 1..len
      PROVE  (p - 1) % 4 \in 0..3 /\ (p - 1) \div 4 + 1 \in 1..GroupLen(len, (p - 1) % 4)
             /\ 4 * ((p - 1) \div 4) + ((p - 1) % 4) + 1 = p
  <2>0. p - 1 \in Nat
    OBVIOUS
  <2>1. (p - 1) % 4 \in 0..3 /\ (p - 1) \div 4 \in Nat /\ 4 * ((p - 1) \div 4) + ((p - 1) % 4) = p - 1
    <3> DEFINE m == p - 1
    <3> HIDE DEF m
    <3>1. m \in Nat => m % 4 \in 0..3 /\ m \div 4 \in Nat /\ 4 * (m \div 4) + (m % 4) = m
      OBVIOUS
    <3> QED BY <2>0, <3>1 DEF m
  <2> QED BY <2>1 DEF GroupLen
<1> QED BY <1>1, <1>2, <1>3, <1>4

\* The sums that bg4 puts a group's positions after.
LEMMA BeforeIs ==
  ASSUME NEW len \in Nat, NEW g \in 0..3
  PROVE  SumSeq([k \in 1..g |-> (len - (k - 1) + 3) \div 4]) = GroupBase(len, g)
<1> DEFINE s == [k \in 1..g |-> (len - (k - 1) + 3) \div 4]
           f == [k \in 0..g |-> GroupBase(len, k)]
<1>1. s \in [1..g -> Int]
  OBVIOUS
<1>2. f \in [0..g -> Int]
  <2>1. GroupLen(len, 0) \in Int /\ GroupLen(len, 1) \in Int /\ GroupLen(len, 2) \in Int
    BY DEF GroupLen
  <2> QED BY <2>1 DEF GroupBase
<1>3. f[0] = 0
  BY DEF GroupBase
<1>4. ASSUME NEW i \in 1..g PROVE f[i] = f[i - 1] + s[i]
  <2>1. i \in {1, 2, 3} /\ i \in 0..g /\ i - 1 \in 0..g
    OBVIOUS
  <2>2. s[i] = GroupLen(len, i - 1)
    BY DEF GroupLen
  <2>3. GroupBase(len, i) = GroupBase(len, i - 1) + GroupLen(len, i - 1)
    <3>1. GroupLen(len, 0) \in Int /\ GroupLen(len, 1) \in Int /\ GroupLen(len, 2) \in Int
      BY DEF GroupLen
    <3> QED BY <2>1, <3>1 DEF GroupBase
  <2> QED BY <2>1, <2>2, <2>3
<1>5. g \in Nat /\ f[g] = GroupBase(len, g)
  OBVIOUS
<1> HIDE DEF s, f
<1>6. SumSeq(s) = f[g]
  BY <1>1, <1>2, <1>3, <1>4, <1>5, SumIs
<1> QED BY <1>5, <1>6 DEF s

Four(o, A, B, C, D) ==
  /\ Len(o) = Len(A) + Len(B) + Len(C) + Len(D)
  /\ \A i \in 1..Len(A) : o[i] = A[i]
  /\ \A i \in 1..Len(B) : o[Len(A) + i] = B[i]
  /\ \A i \in 1..Len(C) : o[Len(A) + Len(B) + i] = C[i]
  /\ \A i \in 1..Len(D) : o[Len(A) + Len(B) + Len(C) + i] = D[i]

\* A list of four parts, by its positions.
LEMMA FourParts ==
  ASSUME NEW S, NEW A \in Seq(S), NEW B \in Seq(S), NEW C \in Seq(S), NEW D \in Seq(S)
  PROVE  A \o B \o C \o D \in Seq(S) /\ Four(A \o B \o C \o D, A, B, C, D)
<1>1. ASSUME NEW u \in Seq(S), NEW v \in Seq(S)
      PROVE  /\ u \o v \in Seq(S) /\ Len(u) \in Nat /\ Len(v) \in Nat
             /\ Len(u \o v) = Len(u) + Len(v)
             /\ \A i \in 1..Len(u) : (u \o v)[i] = u[i]
             /\ \A i \in 1..Len(v) : (u \o v)[Len(u) + i] = v[i]
  BY LenProperties
<1> DEFINE X == A \o B
           Y == X \o C
           Z == Y \o D
<1>2. /\ X \in Seq(S) /\ Len(X) = Len(A) + Len(B) /\ Len(A) \in Nat /\ Len(B) \in Nat
      /\ \A i \in 1..Len(A) : X[i] = A[i]
      /\ \A i \in 1..Len(B) : X[Len(A) + i] = B[i]
  BY <1>1
<1> HIDE DEF X
<1>3. /\ Y \in Seq(S) /\ Len(Y) = Len(X) + Len(C) /\ Len(C) \in Nat
      /\ \A i \in 1..Len(X) : Y[i] = X[i]
      /\ \A i \in 1..Len(C) : Y[Len(X) + i] = C[i]
  BY <1>1, <1>2
<1> HIDE DEF Y
<1>4. /\ Z \in Seq(S) /\ Len(Z) = Len(Y) + Len(D) /\ Len(D) \in Nat
      /\ \A i \in 1..Len(Y) : Z[i] = Y[i]
      /\ \A i \in 1..Len(D) : Z[Len(Y) + i] = D[i]
  BY <1>1, <1>3
<1> HIDE DEF Z
<1>5. \A i \in 1..Len(A) : Z[i] = A[i]
  BY <1>2, <1>3, <1>4
<1>6. \A i \in 1..Len(B) : Z[Len(A) + i] = B[i]
  <2> TAKE i \in 1..Len(B)
  <2>1. Len(A) + i \in 1..Len(X) /\ Len(A) + i \in 1..Len(Y)
    BY <1>2, <1>3
  <2> QED BY <1>2, <1>3, <1>4, <2>1
<1>7. \A i \in 1..Len(C) : Z[Len(A) + Len(B) + i] = C[i]
  BY <1>2, <1>3, <1>4
<1>8. \A i \in 1..Len(D) : Z[Len(A) + Len(B) + Len(C) + i] = D[i]
  BY <1>2, <1>3, <1>4
<1>9. Len(Z) = Len(A) + Len(B) + Len(C) + Len(D)
  BY <1>2, <1>3, <1>4
<1>10. A \o B \o C \o D = Z
  BY DEF X, Y, Z
<1>11. Four(Z, A, B, C, D)
  BY <1>5, <1>6, <1>7, <1>8, <1>9 DEF Four
<1> QED BY <1>4, <1>10, <1>11, Zenon

\* Bg4 puts position i of group g where bg4's inverse looks for it.
LEMMA Bg4OrderAt ==
  ASSUME NEW len \in Nat
  PROVE  /\ Bg4Order(len) \in Seq(1..len) /\ Len(Bg4Order(len)) = len
         /\ \A g \in 0..3 : \A i \in 1..GroupLen(len, g) :
              /\ GroupBase(len, g) + i \in 1..len
              /\ Bg4Order(len)[GroupBase(len, g) + i] = 4 * (i - 1) + g + 1
<1> DEFINE G(g) == [i \in 1..GroupLen(len, g) |-> 4 * (i - 1) + g + 1]
           c(g) == GroupLen(len, g)
<1>1. /\ \A g \in 0..3 : c(g) \in Nat
      /\ c(0) + c(1) + c(2) + c(3) = len
      /\ \A g \in 0..3 : \A i \in 1..c(g) : 4 * (i - 1) + g + 1 \in 1..len
  BY GroupLens
<1>2. ASSUME NEW g \in 0..3
      PROVE  G(g) \in Seq(1..len) /\ Len(G(g)) = c(g) /\ \A i \in 1..c(g) : G(g)[i] = 4 * (i - 1) + g + 1
  <2>1. c(g) \in Nat /\ \A i \in 1..c(g) : 4 * (i - 1) + g + 1 \in 1..len
    BY <1>1
  <2> HIDE DEF c
  <2>2. G(g) = [i \in 1..c(g) |-> 4 * (i - 1) + g + 1]
    BY DEF c
  <2> HIDE DEF G
  <2> QED BY <2>1, <2>2
<1>3. Bg4Order(len) = G(0) \o G(1) \o G(2) \o G(3)
  BY DEF Bg4Order, GroupLen
<1> DEFINE A == G(0)
           B == G(1)
           C == G(2)
           D == G(3)
<1>4. A \in Seq(1..len) /\ Len(A) = c(0) /\ \A i \in 1..c(0) : A[i] = 4 * (i - 1) + 0 + 1
  <2> HIDE DEF G, c
  <2> QED BY <1>2
<1>14. B \in Seq(1..len) /\ Len(B) = c(1) /\ \A i \in 1..c(1) : B[i] = 4 * (i - 1) + 1 + 1
  <2> HIDE DEF G, c
  <2> QED BY <1>2
<1>15. C \in Seq(1..len) /\ Len(C) = c(2) /\ \A i \in 1..c(2) : C[i] = 4 * (i - 1) + 2 + 1
  <2> HIDE DEF G, c
  <2> QED BY <1>2
<1>16. D \in Seq(1..len) /\ Len(D) = c(3) /\ \A i \in 1..c(3) : D[i] = 4 * (i - 1) + 3 + 1
  <2> HIDE DEF G, c
  <2> QED BY <1>2
<1> HIDE DEF G
<1> DEFINE o == A \o B \o C \o D
<1>5. Bg4Order(len) = o
  BY <1>3
<1>6. c(0) \in Nat /\ c(1) \in Nat /\ c(2) \in Nat /\ c(3) \in Nat
  BY <1>1
<1>7. /\ GroupBase(len, 0) = 0 /\ GroupBase(len, 1) = c(0) /\ GroupBase(len, 2) = c(0) + c(1)
      /\ GroupBase(len, 3) = c(0) + c(1) + c(2)
  BY <1>6 DEF GroupBase
<1> DEFINE Q == 1..len
           c0 == c(0)
           c1 == c(1)
           c2 == c(2)
           c3 == c(3)
<1>17. /\ A \in Seq(Q) /\ B \in Seq(Q) /\ C \in Seq(Q) /\ D \in Seq(Q)
       /\ Len(A) = c0 /\ Len(B) = c1 /\ Len(C) = c2 /\ Len(D) = c3
       /\ c0 \in Nat /\ c1 \in Nat /\ c2 \in Nat /\ c3 \in Nat /\ c0 + c1 + c2 + c3 = len
  BY <1>1, <1>4, <1>6, <1>14, <1>15, <1>16
<1> HIDE DEF A, B, C, D, Q, c0, c1, c2, c3
<1>18. /\ o \in Seq(Q) /\ Len(o) = c0 + c1 + c2 + c3
       /\ \A i \in 1..c0 : o[i] = A[i]
       /\ \A i \in 1..c1 : o[c0 + i] = B[i]
       /\ \A i \in 1..c2 : o[c0 + c1 + i] = C[i]
       /\ \A i \in 1..c3 : o[c0 + c1 + c2 + i] = D[i]
  <2>1. o \in Seq(Q) /\ Four(o, A, B, C, D)
    BY <1>17, FourParts
  <2> HIDE DEF o
  <2> QED BY <1>17, <2>1 DEF Four
<1> HIDE DEF o
<1>8. o \in Seq(1..len) /\ Len(o) = len
  BY <1>17, <1>18 DEF Q
<1>9. \A i \in 1..c0 : o[0 + i] = A[i] /\ 0 + i \in 1..len
  BY <1>17, <1>18
<1>10. \A i \in 1..c1 : o[c0 + i] = B[i] /\ c0 + i \in 1..len
  BY <1>17, <1>18
<1>11. \A i \in 1..c2 : o[c0 + c1 + i] = C[i] /\ c0 + c1 + i \in 1..len
  BY <1>17, <1>18
<1>12. \A i \in 1..c3 : o[c0 + c1 + c2 + i] = D[i] /\ c0 + c1 + c2 + i \in 1..len
  BY <1>17, <1>18
<1> USE DEF c0, c1, c2, c3
<1> HIDE DEF c
<1>13. ASSUME NEW g \in 0..3, NEW i \in 1..c(g)
       PROVE  GroupBase(len, g) + i \in 1..len /\ o[GroupBase(len, g) + i] = 4 * (i - 1) + g + 1
  <2>1. CASE g = 0
    BY <1>4, <1>7, <1>9, <2>1
  <2>2. CASE g = 1
    BY <1>14, <1>7, <1>10, <2>2
  <2>3. CASE g = 2
    BY <1>15, <1>7, <1>11, <2>3
  <2>4. CASE g = 3
    BY <1>16, <1>7, <1>12, <2>4
  <2> QED BY <2>1, <2>2, <2>3, <2>4
<1> QED BY <1>5, <1>8, <1>13 DEF c

\* Bg4 and its inverse.
LEMMA Bg4Inverse ==
  ASSUME NEW S, NEW data \in Seq(S)
  PROVE  /\ Bg4Split(data) \in Seq(S) /\ Len(Bg4Split(data)) = Len(data)
         /\ Bg4Regroup(data) \in Seq(S) /\ Len(Bg4Regroup(data)) = Len(data)
         /\ Bg4Regroup(Bg4Split(data)) = data
<1> DEFINE n == Len(data)
           o == Bg4Order(n)
           t == Bg4Split(data)
           At(p) == GroupBase(n, (p - 1) % 4) + (p - 1) \div 4 + 1
<1>1. n \in Nat
  BY LenProperties
<1>2. o \in Seq(1..n) /\ Len(o) = n
  BY <1>1, Bg4OrderAt
<1>3. \A k \in 1..n : o[k] \in 1..n
  <2>1. \A k \in 1..Len(o) : o[k] \in 1..n
    <3> HIDE DEF o, n
    <3> QED BY <1>2, ElementOfSeq
  <2> QED BY <1>2, <2>1
<1>4. \A k \in 1..n : data[k] \in S
  BY ElementOfSeq
<1>5. t = [k \in 1..n |-> data[o[k]]]
  BY DEF Bg4Split
<1> HIDE DEF o
<1>6. t \in Seq(S) /\ Len(t) = n
  <2>1. \A k \in 1..n : data[o[k]] \in S
    BY <1>3, <1>4
  <2> HIDE DEF t, n
  <2> QED BY <1>1, <1>5, <2>1
<1>7. ASSUME NEW p \in 1..n PROVE At(p) \in 1..n /\ o[At(p)] = p
  <2> DEFINE g == (p - 1) % 4
             q == (p - 1) \div 4 + 1
  <2>1. g \in 0..3 /\ q \in 1..GroupLen(n, g) /\ 4 * (q - 1) + g + 1 = p
    <3>1. g \in 0..3 /\ q \in 1..GroupLen(n, g) /\ 4 * ((p - 1) \div 4) + g + 1 = p
      BY <1>1, GroupLens
    <3>2. q - 1 = (p - 1) \div 4
      BY <1>1
    <3> QED BY <3>1, <3>2
  <2>2. GroupBase(n, g) + q \in 1..n /\ o[GroupBase(n, g) + q] = 4 * (q - 1) + g + 1
    <3> HIDE DEF n, g, q
    <3> QED BY <1>1, <2>1, Bg4OrderAt DEF o
  <2>3. At(p) = GroupBase(n, g) + q
    <3>1. GroupBase(n, g) \in Int
      <4>1. GroupLen(n, 0) \in Nat /\ GroupLen(n, 1) \in Nat /\ GroupLen(n, 2) \in Nat
        BY <1>1, GroupLens
      <4> QED BY <4>1 DEF GroupBase
    <3>2. (p - 1) \div 4 \in Int
      BY <1>1
    <3> DEFINE u == GroupBase(n, g)
               v == (p - 1) \div 4
    <3>3. u \in Int /\ v \in Int /\ At(p) = u + v + 1 /\ q = v + 1
      BY <3>1, <3>2
    <3> HIDE DEF u, v, q, At
    <3>4. At(p) = u + q
      BY <3>3
    <3> QED BY <3>4 DEF u
  <2> QED BY <2>1, <2>2, <2>3
<1>8. ASSUME NEW d, d \in Seq(S), Len(d) = n
      PROVE  Bg4Regroup(d) = [p \in 1..n |-> d[At(p)]]
  <2>1. \A p \in 1..n : SumSeq([k \in 1..((p - 1) % 4) |-> (n - (k - 1) + 3) \div 4]) = GroupBase(n, (p - 1) % 4)
    <3> TAKE p \in 1..n
    <3>1. (p - 1) % 4 \in 0..3
      BY <1>1
    <3> HIDE DEF n
    <3> QED BY <1>1, <3>1, BeforeIs
  <2>2. Bg4Regroup(d) = [p \in 1..n |->
           d[SumSeq([k \in 1..((p - 1) % 4) |-> (n - (k - 1) + 3) \div 4]) + (p - 1) \div 4 + 1]]
    BY <1>8, Zenon DEF Bg4Regroup
  <2>3. \A p \in 1..n : d[SumSeq([k \in 1..((p - 1) % 4) |-> (n - (k - 1) + 3) \div 4]) + (p - 1) \div 4 + 1] = d[At(p)]
    BY <2>1, Zenon
  <2> HIDE DEF At
  <2> QED BY <2>2, <2>3, Zenon
<1> HIDE DEF At, t
<1>9. Bg4Regroup(data) \in Seq(S) /\ Len(Bg4Regroup(data)) = n
  <2>1. Bg4Regroup(data) = [p \in 1..n |-> data[At(p)]]
    BY <1>8
  <2>2. \A p \in 1..n : data[At(p)] \in S
    BY <1>4, <1>7
  <2> HIDE DEF n
  <2> QED BY <1>1, <2>1, <2>2
<1>10. Bg4Regroup(t) = data
  <2>1. Bg4Regroup(t) = [p \in 1..n |-> t[At(p)]]
    BY <1>6, <1>8
  <2>2. \A p \in 1..n : t[At(p)] = data[p]
    BY <1>5, <1>7
  <2>3. data = [p \in 1..n |-> data[p]]
    OBVIOUS
  <2> QED BY <2>1, <2>2, <2>3, Zenon
<1> QED BY <1>6, <1>9, <1>10 DEF t

-----------------------------------------------------------------------------
(* What a conversion makes of a content.                                   *)

\* The region of a chunk that a conversion compresses.
PackedRegion(scheme, d) == Region(scheme, Len(d), Compress(scheme, d))
PackedRegions(scheme, ps) == [i \in 1..Len(ps) |-> PackedRegion(scheme, ps[i])]

\* What fits into a u32 is kept by it.
LEMMA SmallU32 ==
  ASSUME NEW n \in Nat, n < Word
  PROVE  U32(n) = n
<1>1. Word \in Nat /\ Word > 0
  BY XorbAssumption
<1> QED BY <1>1 DEF U32

\* Compressing a chunk and decompressing it again gives the chunk.
LEMMA PackedIs ==
  ASSUME Lz4Bounded, NEW s \in Schemes, NEW d \in Seq(Byte)
  PROVE  LET r == PackedRegion(s, d)
         IN  /\ r \in Regions /\ r.unpacked = Len(d)
             /\ Decompress(r.scheme, r.payload) = d
             /\ Decompresses(r.scheme, r.payload, r.unpacked)
             /\ PayloadLen(r) <= MaxCompressedLen(r.scheme, r.unpacked)
<1> DEFINE c == Compress(s, d)
           r == PackedRegion(s, d)
           e == Bg4Split(d)
<1>1. Len(d) \in Nat
  BY LenProperties
<1>2. e \in Seq(Byte) /\ Len(e) = Len(d) /\ Bg4Regroup(e) = d
  BY Bg4Inverse
<1>3. r.scheme = s /\ r.unpacked = Len(d) /\ r.payload = c
  BY DEF PackedRegion, Region
<1>4. CASE s = "none"
  <2>1. c = [prefix |-> 0, bytes |-> d]
    BY <1>4 DEF Compress
  <2> HIDE DEF c
  <2>2. r \in Regions
    BY <1>1, <2>1 DEF PackedRegion, Region, Regions, c
  <2>3. Decompress(s, c) = d /\ Decompresses(s, c, Len(d))
    BY <1>4, <2>1 DEF Decompress, Decompresses
  <2>4. PayloadLen(r) = Len(d) /\ MaxCompressedLen(s, Len(d)) = Len(d)
    BY <1>3, <1>4, <2>1 DEF PayloadLen, CompressedLen, MaxCompressedLen
  <2>5. Len(d) <= Len(d)
    BY <1>1
  <2> QED BY <1>3, <2>2, <2>3, <2>4, <2>5
<1>5. CASE s = "lz4"
  <2>1. c = [prefix |-> Len(d), bytes |-> d]
    BY <1>5 DEF Compress
  <2> HIDE DEF c
  <2>2. r \in Regions
    BY <1>1, <2>1 DEF PackedRegion, Region, Regions, c
  <2>3. Decompress(s, c) = d /\ Decompresses(s, c, Len(d))
    BY <1>5, <2>1 DEF Decompress, Decompresses
  <2>4. PayloadLen(r) = Lz4Len(d) /\ MaxCompressedLen(s, Len(d)) = Len(d) + Len(d) \div 255 + 20
    BY <1>3, <1>5, <2>1 DEF PayloadLen, CompressedLen, MaxCompressedLen
  <2>5. Lz4Len(d) <= Len(d) + Len(d) \div 255 + 20
    BY DEF Lz4Bounded
  <2> QED BY <1>3, <2>2, <2>3, <2>4, <2>5
<1>6. CASE s = "bg4"
  <2>1. c = [prefix |-> Len(d), bytes |-> e]
    BY <1>6 DEF Compress
  <2> HIDE DEF c, e
  <2>2. r \in Regions
    BY <1>1, <1>2, <2>1 DEF PackedRegion, Region, Regions, c
  <2>3. Decompress(s, c) = d /\ Decompresses(s, c, Len(d))
    BY <1>2, <1>6, <2>1 DEF Decompress, Decompresses
  <2>4. PayloadLen(r) = Lz4Len(e) /\ MaxCompressedLen(s, Len(d)) = Len(d) + Len(d) \div 255 + 20
    BY <1>3, <1>6, <2>1 DEF PayloadLen, CompressedLen, MaxCompressedLen
  <2>5. Lz4Len(e) <= Len(d) + Len(d) \div 255 + 20
    BY <1>2 DEF Lz4Bounded
  <2> QED BY <1>3, <2>2, <2>3, <2>4, <2>5
<1> QED BY <1>4, <1>5, <1>6 DEF Schemes

\* The regions of a list of chunks.
LEMMA PackedTyped ==
  ASSUME Lz4Bounded, NEW s \in Schemes, NEW ps \in Seq(Seq(Byte))
  PROVE  /\ PackedRegions(s, ps) \in Seq(Regions) /\ Len(PackedRegions(s, ps)) = Len(ps)
         /\ Len(ps) \in Nat
         /\ \A i \in 1..Len(ps) : ps[i] \in Seq(Byte) /\ PackedRegions(s, ps)[i] = PackedRegion(s, ps[i])
<1>1. Len(ps) \in Nat
  BY LenProperties
<1>2. \A i \in 1..Len(ps) : ps[i] \in Seq(Byte)
  BY ElementOfSeq
<1>3. \A i \in 1..Len(ps) : PackedRegion(s, ps[i]) \in Regions
  BY <1>2, PackedIs
<1> QED BY <1>1, <1>2, <1>3 DEF PackedRegions

\* What add_chunk appends to a list of entries.
LEMMA AppendNext ==
  ASSUME NEW i \in Nat, NEW e
  PROVE  Append([j \in 1..i |-> e[j]], e[i + 1]) = [j \in 1..(i + 1) |-> e[j]]
<1> DEFINE S == {e[j] : j \in 1..(i + 1)}
           s == [j \in 1..i |-> e[j]]
<1>1. \A j \in 1..i : e[j] \in S
  OBVIOUS
<1>2. s \in Seq(S) /\ Len(s) = i
  <2> HIDE DEF S
  <2> QED BY <1>1
<1>3. e[i + 1] \in S
  OBVIOUS
<1> QED BY <1>2, <1>3

\* Without a wrap, the running totals of the builder are the true ones, and
\* what it builds is the xorb that the checks accept.
LEMMA BuiltSealed ==
  ASSUME Lz4Bounded, NEW s \in Schemes, NEW ps \in Seq(Seq(Byte)),
         SumSeq(Lens(PackedRegions(s, ps))) < Word, SumSeq(Sizes(PackedRegions(s, ps))) < Word
  PROVE  BuildXorb(AddChunks(s, ps)) = SealedXorb(PackedRegions(s, ps))
<1> DEFINE rs == PackedRegions(s, ps)
           n == Len(ps)
           L(i) == SumSeq(First(Lens(rs), i))
           U(i) == SumSeq(First(Sizes(rs), i))
           e == [j \in 1..n |-> [region |-> rs[j], boundary |-> L(j), unpacked |-> U(j - 1)]]
           B(i) == [chunks |-> [j \in 1..i |-> e[j]], next_boundary |-> L(i), next_unpacked |-> U(i)]
           Is(f) == f = [i \in 0..n |-> IF i = 0 THEN EmptyBuilder ELSE AddChunk(f[i - 1], s, ps[i])]
           c == CHOOSE f : Is(f)
<1>1. rs \in Seq(Regions) /\ Len(rs) = n /\ n \in Nat /\ \A i \in 1..n : ps[i] \in Seq(Byte) /\ rs[i] = PackedRegion(s, ps[i])
  BY PackedTyped
<1> HIDE DEF rs
<1>2. /\ L(0) = 0 /\ (\A i \in 0..n : L(i) \in Nat) /\ L(n) = SumSeq(Lens(rs))
      /\ \A i \in 1..n : L(i) = L(i - 1) + RegionLen(rs[i])
  BY <1>1, LensSteps
<1>3. /\ U(0) = 0 /\ (\A i \in 0..n : U(i) \in Nat) /\ U(n) = SumSeq(Sizes(rs))
      /\ \A i \in 1..n : U(i) = U(i - 1) + rs[i].unpacked
  BY <1>1, SizesSteps
<1>4. ASSUME NEW i \in 0..n PROVE L(i) <= L(n) /\ U(i) <= U(n)
  <2>1. Lens(rs) \in [1..n -> Nat] /\ Sizes(rs) \in [1..n -> Nat]
    BY <1>1, RegionsTyped
  <2>2. n \in 0..n /\ i <= n
    BY <1>1
  <2> QED BY <1>1, <2>1, <2>2, SumNat
<1>5. ASSUME NEW i \in 0..n PROVE L(i) \in Nat /\ U(i) \in Nat /\ L(i) < Word /\ U(i) < Word
  <2>1. n \in 0..n /\ Word \in Nat
    BY <1>1, XorbAssumption
  <2> DEFINE a == L(i)
             b == L(n)
             p == U(i)
             q == U(n)
  <2>2. a \in Nat /\ b \in Nat /\ p \in Nat /\ q \in Nat /\ a <= b /\ p <= q /\ b < Word /\ q < Word
    BY <1>2, <1>3, <1>4, <2>1 DEF rs
  <2> HIDE DEF a, b, p, q
  <2>3. a < Word /\ p < Word
    BY <2>1, <2>2
  <2> QED BY <2>2, <2>3 DEF a, p
<1> HIDE DEF L, U
<1>6. EmptyBuilder = B(0)
  <2>1. [j \in 1..0 |-> e[j]] = << >>
    OBVIOUS
  <2> QED BY <1>2, <1>3, <2>1 DEF EmptyBuilder
<1>7. ASSUME NEW i \in 1..n PROVE AddChunk(B(i - 1), s, ps[i]) = B(i)
  <2> DEFINE d == ps[i]
             b == B(i - 1)
             r == Region(s, Len(d), Compress(s, d))
  <2>1. r = rs[i] /\ rs[i].unpacked = Len(d)
    <3>1. r = rs[i]
      BY <1>1 DEF PackedRegion
    <3>2. PackedRegion(s, ps[i]).unpacked = Len(ps[i])
      BY DEF PackedRegion, Region
    <3> QED BY <1>1, <3>1, <3>2
  <2>2. i \in 0..n /\ i - 1 \in 0..n /\ i - 1 \in Nat /\ (i - 1) + 1 = i
    BY <1>1
  <2>3. U32(L(i - 1) + RegionLen(rs[i])) = L(i)
    <3>1. U32(L(i)) = L(i)
      BY <1>5, <2>2, SmallU32
    <3> QED BY <1>2, <3>1
  <2>4. U32(U(i - 1) + Len(d)) = U(i)
    <3>1. U32(U(i)) = U(i)
      BY <1>5, <2>2, SmallU32
    <3>2. U(i) = U(i - 1) + Len(d)
      BY <1>3, <2>1
    <3> QED BY <3>1, <3>2
  <2>5. b.next_boundary = L(i - 1) /\ b.next_unpacked = U(i - 1) /\ b.chunks = [j \in 1..(i - 1) |-> e[j]]
    OBVIOUS
  <2>6. e[i] = [region |-> rs[i], boundary |-> L(i), unpacked |-> U(i - 1)]
    OBVIOUS
  <2> HIDE DEF r, d, e
  <2>7. Append([j \in 1..(i - 1) |-> e[j]], e[i]) = [j \in 1..i |-> e[j]]
    <3> DEFINE k == i - 1
    <3>1. k \in Nat /\ k + 1 = i
      BY <2>2
    <3> HIDE DEF k
    <3>2. Append([j \in 1..k |-> e[j]], e[k + 1]) = [j \in 1..(k + 1) |-> e[j]]
      BY <3>1, AppendNext
    <3>3. Append([j \in 1..k |-> e[j]], e[i]) = [j \in 1..i |-> e[j]]
      BY <3>1, <3>2
    <3> QED BY <3>3 DEF k
  <2> HIDE DEF b
  <2>8. AddChunk(b, s, d) =
          [chunks |-> Append(b.chunks, [region |-> r, boundary |-> U32(b.next_boundary + RegionLen(r)),
                                        unpacked |-> b.next_unpacked]),
           next_boundary |-> U32(b.next_boundary + RegionLen(r)),
           next_unpacked |-> U32(b.next_unpacked + Len(d))]
    BY Zenon DEF AddChunk, r
  <2>9. AddChunk(b, s, d) = B(i)
    BY <2>1, <2>3, <2>4, <2>5, <2>6, <2>7, <2>8, Zenon
  <2> QED BY <2>9 DEF b, d
<1> HIDE DEF B
<1>8. \E f : Is(f)
  <2> DEFINE f == [i \in 0..n |-> B(i)]
  <2>1. ASSUME NEW i \in 0..n PROVE f[i] = IF i = 0 THEN EmptyBuilder ELSE AddChunk(f[i - 1], s, ps[i])
    <3>1. CASE i = 0
      BY <1>6, <3>1
    <3>2. CASE i # 0
      <4>1. i \in 1..n /\ i - 1 \in 0..n
        BY <1>1, <3>2
      <4>2. f[i - 1] = B(i - 1) /\ f[i] = B(i)
        BY <4>1
      <4> QED BY <1>7, <3>2, <4>1, <4>2, Zenon
    <3> QED BY <3>1, <3>2
  <2>2. f = [i \in 0..n |-> IF i = 0 THEN EmptyBuilder ELSE AddChunk(f[i - 1], s, ps[i])]
    BY <2>1
  <2> HIDE DEF f
  <2> QED BY <2>2
<1>9. Is(c)
  <2> HIDE DEF Is
  <2> QED BY <1>8
<1>10. AddChunks(s, ps) = c[n]
  BY DEF AddChunks
<1> HIDE DEF c
<1>11. ASSUME NEW i \in 0..n PROVE c[i] = IF i = 0 THEN EmptyBuilder ELSE AddChunk(c[i - 1], s, ps[i])
  BY <1>9, Zenon
<1> HIDE DEF Is
<1>12. c[n] = B(n)
  <2> DEFINE T == {i \in Nat : i <= n => c[i] = B(i)}
  <2>1. 0 \in T
    <3>1. 0 \in 0..n
      BY <1>1
    <3>2. c[0] = B(0)
      BY <1>6, <1>11, <3>1
    <3> QED BY <3>2
  <2>2. ASSUME NEW i \in Nat, i \in T PROVE i + 1 \in T
    <3>1. SUFFICES ASSUME i + 1 <= n PROVE c[i + 1] = B(i + 1)
      OBVIOUS
    <3>2. i + 1 \in 1..n /\ i + 1 \in 0..n /\ (i + 1) - 1 = i /\ i + 1 # 0 /\ i <= n
      BY <1>1, <3>1
    <3>3. c[i] = B(i)
      BY <2>2, <3>2
    <3>4. c[i + 1] = AddChunk(c[(i + 1) - 1], s, ps[i + 1])
      BY <1>11, <3>2, Zenon
    <3>5. AddChunk(B((i + 1) - 1), s, ps[i + 1]) = B(i + 1)
      BY <1>7, <3>2
    <3> QED BY <3>2, <3>3, <3>4, <3>5, Zenon
  <2>3. \A i \in Nat : i \in T
    <3> HIDE DEF T
    <3> QED BY <2>1, <2>2, SetInduction
  <2>4. n <= n
    BY <1>1
  <2> QED BY <1>1, <2>3, <2>4
<1>13. BuildXorb(B(n)) = SealedXorb(rs)
  <2>1. B(n).chunks = [j \in 1..n |-> e[j]]
    BY DEF B
  <2>2. e = [j \in 1..n |-> e[j]]
    OBVIOUS
  <2>3. Len(B(n).chunks) = n /\ \A j \in 1..n : B(n).chunks[j] = e[j]
    <3> HIDE DEF e
    <3> QED BY <1>1, <2>1
  <2>4. \A j \in 1..n : B(n).chunks[j].region = rs[j] /\ B(n).chunks[j].boundary = L(j) /\ B(n).chunks[j].unpacked = U(j - 1)
    <3>1. ASSUME NEW j \in 1..n
          PROVE  e[j].region = rs[j] /\ e[j].boundary = L(j) /\ e[j].unpacked = U(j - 1)
      <4>1. e[j] = [region |-> rs[j], boundary |-> L(j), unpacked |-> U(j - 1)]
        OBVIOUS
      <4> HIDE DEF e
      <4> QED BY <4>1
    <3> HIDE DEF e
    <3> QED BY <2>3, <3>1, Zenon
  <2> HIDE DEF e
  <2>5. rs = [j \in 1..n |-> rs[j]]
    BY <1>1
  <2>6. [j \in 1..n |-> B(n).chunks[j].region] = rs
    <3>1. [j \in 1..n |-> B(n).chunks[j].region] = [j \in 1..n |-> rs[j]]
      BY <2>4, Zenon
    <3> QED BY <2>5, <3>1, Zenon
  <2>7. [j \in 1..n |-> B(n).chunks[j].boundary] = [j \in 1..Len(rs) |-> SumSeq(First(Lens(rs), j))]
    <3>1. [j \in 1..n |-> B(n).chunks[j].boundary] = [j \in 1..n |-> L(j)]
      BY <2>4, Zenon
    <3> QED BY <1>1, <3>1, Zenon DEF L
  <2>8. [j \in 1..n |-> B(n).chunks[j].unpacked] = [j \in 1..Len(rs) |-> SumSeq(First(Sizes(rs), j - 1))]
    <3>1. [j \in 1..n |-> B(n).chunks[j].unpacked] = [j \in 1..n |-> U(j - 1)]
      BY <2>4, Zenon
    <3> QED BY <1>1, <3>1, Zenon DEF U
  <2> DEFINE b == B(n)
             m == Len(b.chunks)
             qs == [i \in 1..m |-> b.chunks[i].region]
             hs == [i \in 1..m |-> RegionHash(qs[i])]
  <2>9. qs = rs /\ m = n
    BY <2>3, <2>6
  <2>10. hs = [i \in 1..Len(rs) |-> RegionHash(rs[i])]
    BY <1>1, <2>9
  <2>11. \A i \in 1..Len(rs) : <<hs[i], RegionLen(rs[i])>> = <<RegionHash(rs[i]), RegionLen(rs[i])>>
    BY <2>10
  <2>12. [i \in 1..m |-> <<hs[i], RegionLen(qs[i])>>] = Nodes(rs)
    <3> HIDE DEF hs, qs, m
    <3>1. [i \in 1..m |-> <<hs[i], RegionLen(qs[i])>>] = [i \in 1..Len(rs) |-> <<hs[i], RegionLen(rs[i])>>]
      BY <1>1, <2>9, Zenon
    <3>2. [i \in 1..Len(rs) |-> <<hs[i], RegionLen(rs[i])>>] = [i \in 1..Len(rs) |-> <<RegionHash(rs[i]), RegionLen(rs[i])>>]
      BY <2>11, Zenon
    <3> QED BY <3>1, <3>2, Zenon DEF Nodes
  <2>13. BuildXorb(b) = Xorb(qs, 0, Footer(XorbHash([i \in 1..m |-> <<hs[i], RegionLen(qs[i])>>]), hs,
                              [i \in 1..m |-> b.chunks[i].boundary], [i \in 1..m |-> b.chunks[i].unpacked]), 0)
    BY Zenon DEF BuildXorb
  <2>14. [i \in 1..m |-> b.chunks[i].boundary] = [j \in 1..Len(rs) |-> SumSeq(First(Lens(rs), j))]
    BY <2>7, <2>9, Zenon
  <2>15. [i \in 1..m |-> b.chunks[i].unpacked] = [j \in 1..Len(rs) |-> SumSeq(First(Sizes(rs), j - 1))]
    BY <2>8, <2>9, Zenon
  <2> HIDE DEF hs, qs, m, b
  <2>16. BuildXorb(b) = SealedXorb(rs)
    BY <2>9, <2>10, <2>12, <2>13, <2>14, <2>15, Zenon DEF SealedXorb
  <2> QED BY <2>16 DEF b
<1> QED BY <1>10, <1>12, <1>13 DEF rs

\* No conversion makes a xorb or a file size that a u32 cannot count: with
\* max_conversion_size at its default of 512 MiB none does, and a server that
\* is configured to convert more is not what the theorems are about.
NoWrap ==
  \A oid \in Oids, s \in Schemes : Len(ContentOf(oid)) <= MaxConversion =>
    /\ Len(ContentOf(oid)) < Word
    /\ SumSeq(Lens(PackedRegions(s, ChunkData(ContentOf(oid))))) < Word

\* The sizes of the regions of a content add up to its length.
LEMMA SizesAre ==
  ASSUME Lz4Bounded, NEW s \in Schemes, NEW d \in Seq(Byte)
  PROVE  SumSeq(Sizes(PackedRegions(s, ChunkData(d)))) = Len(d)
<1> DEFINE ps == ChunkData(d)
           n == Len(ps)
           rs == PackedRegions(s, ps)
<1>1. ps \in Seq(Seq(Byte)) /\ Concat(ps) = d
  BY ChunksAreContent
<1> HIDE DEF ps
<1>2. Len(rs) = n /\ n \in Nat /\ \A i \in 1..n : ps[i] \in Seq(Byte) /\ rs[i] = PackedRegion(s, ps[i])
  BY <1>1, PackedTyped
<1> HIDE DEF rs
<1>3. \A i \in 1..n : rs[i].unpacked = Len(ps[i])
  <2>1. \A p : PackedRegion(s, p).unpacked = Len(p)
    BY DEF PackedRegion, Region
  <2> QED BY <1>2, <2>1, Zenon
<1>4. Sizes(rs) = [k \in 1..n |-> Len(ps[k])]
  BY <1>2, <1>3 DEF Sizes
<1>5. ps \in [1..n -> Seq(Byte)]
  BY <1>1
<1>6. Len(Concat(ps)) = SumSeq([k \in 1..n |-> Len(ps[k])])
  <2> HIDE DEF n
  <2> QED BY <1>2, <1>5, ConcatLen
<1> QED BY <1>1, <1>4, <1>6 DEF rs, ps

\* The xorb of a conversion is the one of its regions that the checks accept.
LEMMA ConvertedSealed ==
  ASSUME Lz4Bounded, NoWrap, NEW oid \in Oids, NEW s \in Schemes, Len(ContentOf(oid)) <= MaxConversion
  PROVE  ConvertedXorb(ContentOf(oid), s) = SealedXorb(PackedRegions(s, ChunkData(ContentOf(oid))))
<1> DEFINE d == ContentOf(oid)
           ps == ChunkData(d)
           rs == PackedRegions(s, ps)
<1>1. d \in Seq(Byte)
  BY StoreAssumption DEF ContentOf
<1>2. ps \in Seq(Seq(Byte))
  BY <1>1, ChunksAreContent
<1>3. SumSeq(Sizes(rs)) = Len(d) /\ Len(d) < Word /\ SumSeq(Lens(rs)) < Word
  BY <1>1, SizesAre DEF NoWrap
<1>4. SumSeq(Sizes(rs)) < Word
  BY <1>3, Zenon
<1> HIDE DEF ps
<1>5. BuildXorb(AddChunks(s, ps)) = SealedXorb(rs)
  BY <1>2, <1>3, <1>4, BuiltSealed
<1> QED BY <1>5 DEF ConvertedXorb, ps

\* A file of n bytes that has the hash h.
Sized(h, n) == \E c \in Seq(Seq(Byte)) : HashMatches(h, c) /\ n = Len(Concat(c))

DataNodes(c) == [i \in 1..Len(c) |-> <<DataHash(c[i]), Len(c[i])>>]

\* The tree over the chunks of a file tells the chunks.
LEMMA FileHashInjective ==
  ASSUME NEW a \in Seq(Seq(Byte)), NEW b \in Seq(Seq(Byte)),
         FileHash(DataNodes(a)) = FileHash(DataNodes(b))
  PROVE  a = b
<1> DEFINE D == {<<DataHash(d), Len(d)>> : d \in Seq(Byte)}
<1>1. ASSUME NEW s \in Seq(Seq(Byte))
      PROVE  /\ DataNodes(s) \in Seq(D) /\ Len(DataNodes(s)) = Len(s) /\ Len(s) \in Nat
             /\ (s = << >>) <=> (DataNodes(s) = << >>)
             /\ \A i \in 1..Len(s) : DataNodes(s)[i] = <<DataHash(s[i]), Len(s[i])>>
  <2>1. Len(s) \in Nat /\ \A i \in 1..Len(s) : s[i] \in Seq(Byte)
    BY LenProperties, ElementOfSeq
  <2>2. \A i \in 1..Len(s) : <<DataHash(s[i]), Len(s[i])>> \in D
    BY <2>1
  <2>3. DataNodes(s) \in Seq(D) /\ Len(DataNodes(s)) = Len(s)
    <3> HIDE DEF D
    <3> QED BY <2>1, <2>2 DEF DataNodes
  <2>4. s # << >> => Len(s) # 0
    BY EmptySeq
  <2>5. Len(<< >>) = 0
    OBVIOUS
  <2>6. s # << >> => DataNodes(s) # << >>
    BY <2>3, <2>4, <2>5, Zenon
  <2>7. DataNodes(<< >>) = << >>
    BY DEF DataNodes
  <2> QED BY <2>1, <2>3, <2>6, <2>7 DEF DataNodes
<1>2. Leaves(D)
  <2>1. ASSUME NEW p \in D PROVE p[1][1] = "data" /\ \E d \in Seq(Byte) : p = <<<<"data", d>>, Len(d)>>
    BY DEF DataHash
  <2>2. ASSUME NEW p \in D, NEW q \in D, p[1] = q[1] PROVE p = q
    <3>1. PICK r \in Seq(Byte) : p = <<<<"data", r>>, Len(r)>>
      BY <2>1
    <3>2. PICK t \in Seq(Byte) : q = <<<<"data", t>>, Len(t)>>
      BY <2>1
    <3>3. p[1][2] = r /\ q[1][2] = t
      BY <3>1, <3>2
    <3>4. r = t
      BY <2>2, <3>3
    <3> QED BY <3>1, <3>2, <3>4
  <2> QED BY <2>1, <2>2 DEF Leaves
<1>3. ASSUME NEW s \in Seq(Seq(Byte)), s # << >>
      PROVE  FileHash(DataNodes(s)) = <<"file", AggregatedNodeHash(DataNodes(s))>>
  BY <1>1, <1>3 DEF FileHash
<1>4. FileHash(DataNodes(<< >>)) = DefaultHash
  BY DEF FileHash, DataNodes
<1>5. \A v : <<"file", v>> # DefaultHash
  <2> TAKE v
  <2>1. <<"file", v>>[1] = "file" /\ DefaultHash[1] = "default"
    BY DEF DefaultHash
  <2> QED BY <2>1
<1>6. CASE a = << >> \/ b = << >>
  BY <1>3, <1>4, <1>5, <1>6, Zenon
<1>7. CASE a # << >> /\ b # << >>
  <2>1. DataNodes(a) \in Seq(D) /\ DataNodes(b) \in Seq(D) /\ DataNodes(a) # << >> /\ DataNodes(b) # << >>
    BY <1>1, <1>7
  <2>2. AggregatedNodeHash(DataNodes(a)) = AggregatedNodeHash(DataNodes(b))
    <3>1. <<"file", AggregatedNodeHash(DataNodes(a))>> = <<"file", AggregatedNodeHash(DataNodes(b))>>
      BY <1>3, <1>7, Zenon
    <3> QED BY <3>1
  <2>3. DataNodes(a) = DataNodes(b)
    <3> HIDE DEF D
    <3> QED BY <1>2, <2>1, <2>2, MerkleInjective
  <2>4. Len(a) = Len(b)
    BY <1>1, <2>3, Zenon
  <2>5. ASSUME NEW i \in 1..Len(a) PROVE a[i] = b[i]
    <3>0. i \in 1..Len(b)
      BY <2>4
    <3>1. DataNodes(a)[i] = <<DataHash(a[i]), Len(a[i])>>
      BY <1>1
    <3>2. DataNodes(b)[i] = <<DataHash(b[i]), Len(b[i])>>
      BY <1>1, <3>0
    <3>3. <<DataHash(a[i]), Len(a[i])>>[1] = <<DataHash(b[i]), Len(b[i])>>[1]
      BY <2>3, <3>1, <3>2, Zenon
    <3>4. DataHash(a[i]) = DataHash(b[i])
      BY <3>3
    <3>5. <<"data", a[i]>>[2] = <<"data", b[i]>>[2]
      BY <3>4, Zenon DEF DataHash
    <3> QED BY <3>5
  <2> QED BY <2>4, <2>5, SeqEqual
<1> QED BY <1>6, <1>7

\* Which of the three hashes it is can be told from the hash.
LEMMA MatchesIs ==
  ASSUME NEW h, NEW c \in Seq(Seq(Byte)), HashMatches(h, c)
  PROVE  \/ h[1] = "sha256" /\ h[2] = Concat(c)
         \/ h[1] = "data" /\ h[2] = Concat(c)
         \/ h[1] \in {"file", "default"} /\ h = FileHash(DataNodes(c))
<1>1. h = Sha256(Concat(c)) \/ h = Blake3(Concat(c)) \/ h = FileHash(DataNodes(c))
  BY DEF HashMatches, DataNodes
<1>2. CASE h = Sha256(Concat(c))
  BY <1>2 DEF Sha256
<1>3. CASE h = Blake3(Concat(c))
  BY <1>3 DEF Blake3, DataHash
<1>4. CASE h = FileHash(DataNodes(c))
  <2>1. \A v : <<"file", v>>[1] = "file"
    OBVIOUS
  <2>2. DefaultHash[1] = "default"
    BY DEF DefaultHash
  <2>3. CASE DataNodes(c) = << >>
    BY <1>4, <2>2, <2>3 DEF FileHash
  <2>4. CASE DataNodes(c) # << >>
    <3>1. h = <<"file", AggregatedNodeHash(DataNodes(c))>>
      BY <1>4, <2>4 DEF FileHash
    <3>2. h[1] = "file"
      BY <2>1, <3>1
    <3> QED BY <1>4, <3>2
  <2> QED BY <2>3, <2>4
<1> QED BY <1>1, <1>2, <1>3, <1>4

\* A hash tells how many bytes its file has.
LEMMA SizedUnique ==
  ASSUME NEW h, NEW m, NEW n, Sized(h, m), Sized(h, n)
  PROVE  m = n
<1>1. PICK a \in Seq(Seq(Byte)) : HashMatches(h, a) /\ m = Len(Concat(a))
  BY DEF Sized
<1>2. PICK b \in Seq(Seq(Byte)) : HashMatches(h, b) /\ n = Len(Concat(b))
  BY DEF Sized
<1>3. \/ h[1] = "sha256" /\ h[2] = Concat(a)
      \/ h[1] = "data" /\ h[2] = Concat(a)
      \/ h[1] \in {"file", "default"} /\ h = FileHash(DataNodes(a))
  BY <1>1, MatchesIs
<1>4. \/ h[1] = "sha256" /\ h[2] = Concat(b)
      \/ h[1] = "data" /\ h[2] = Concat(b)
      \/ h[1] \in {"file", "default"} /\ h = FileHash(DataNodes(b))
  BY <1>2, MatchesIs
<1>5. Concat(a) = Concat(b) \/ FileHash(DataNodes(a)) = FileHash(DataNodes(b))
  BY <1>3, <1>4
<1>6. FileHash(DataNodes(a)) = FileHash(DataNodes(b)) => a = b
  BY FileHashInjective
<1> QED BY <1>1, <1>2, <1>5, <1>6

-----------------------------------------------------------------------------
(* Shards: what parses, and what can be planned.                           *)

\* What a parsed shard is made of.
ParseTyped(P) ==
  /\ Listed(P.file_entries) /\ Listed(P.file_data_entries)
  /\ Listed(P.xorb_entries) /\ Listed(P.xorb_chunk_entries) /\ Listed(P.chunk_lookup_entries)
  /\ \A i \in 1..Len(P.file_entries) : P.file_entries[i].num_entries \in Nat
  /\ \A i \in 1..Len(P.xorb_entries) : P.xorb_entries[i].num_entries \in Nat
  /\ \A i \in 1..Len(P.file_data_entries) :
       P.file_data_entries[i].start \in Nat /\ P.file_data_entries[i].end \in Nat

\* A sequence is a list.
LEMMA ListedLen ==
  ASSUME NEW s, Listed(s)
  PROVE  Len(s) \in Nat /\ s = [i \in 1..Len(s) |-> s[i]]
<1>1. PICK Q : s \in Seq(Q)
  BY DEF Listed
<1> QED BY <1>1, LenProperties

\* A list is a sequence.
LEMMA ListedFcn ==
  ASSUME NEW n \in Nat, NEW s, s = [i \in 1..n |-> s[i]]
  PROVE  Listed(s) /\ Len(s) = n
<1> DEFINE Q == {s[i] : i \in 1..n}
<1>1. \A i \in 1..n : s[i] \in Q
  OBVIOUS
<1>2. s \in Seq(Q) /\ Len(s) = n
  <2> HIDE DEF Q
  <2> QED BY <1>1
<1> QED BY <1>2 DEF Listed

\* The positions from a to b of a list.
LEMMA Taken ==
  ASSUME NEW Q, NEW s \in Seq(Q), NEW a \in Nat, NEW b \in Nat, a <= b, b <= Len(s)
  PROVE  /\ SubSeq(s, a + 1, b) \in Seq(Q) /\ Len(SubSeq(s, a + 1, b)) = b - a
         /\ \A k \in 1..(b - a) : SubSeq(s, a + 1, b)[k] = s[a + k] /\ a + k \in 1..Len(s)
<1>0. Len(s) \in Nat
  BY LenProperties
<1> DEFINE m == a + 1
<1>1. m \in 1..(Len(s) + 1) /\ b \in (m - 1)..Len(s) /\ b - m + 1 = b - a
  BY <1>0
<1>2. /\ SubSeq(s, m, b) \in Seq(Q) /\ Len(SubSeq(s, m, b)) = b - m + 1
      /\ \A k \in 1..(b - m + 1) : SubSeq(s, m, b)[k] = s[m + k - 1]
  <2> HIDE DEF m
  <2> QED BY <1>1, SubSeqProperties
<1>3. \A k \in 1..(b - a) : m + k - 1 = a + k /\ a + k \in 1..Len(s)
  BY <1>0
<1> QED BY <1>1, <1>2, <1>3

\* The numbers of entries that belong to headers, added up.
LEMMA EntriesSteps ==
  ASSUME NEW hs, Listed(hs), \A i \in 1..Len(hs) : hs[i].num_entries \in Nat
  PROVE  /\ EntriesBefore(hs, 1) = 0
         /\ \A i \in 1..(Len(hs) + 1) : EntriesBefore(hs, i) \in Nat
         /\ \A i \in 1..Len(hs) : EntriesBefore(hs, i + 1) = EntriesBefore(hs, i) + hs[i].num_entries
         /\ \A i, j \in 1..(Len(hs) + 1) : i <= j => EntriesBefore(hs, i) <= EntriesBefore(hs, j)
<1> DEFINE n == Len(hs)
           s == [k \in 1..n |-> hs[k].num_entries]
           S(i) == SumSeq(First(s, i))
<1>1. n \in Nat
  BY ListedLen
<1>2. s \in [1..n -> Nat] /\ s \in [1..n -> Int] /\ \A i \in 1..n : s[i] = hs[i].num_entries
  OBVIOUS
<1>3. ASSUME NEW i \in 1..(n + 1) PROVE EntriesBefore(hs, i) = S(i - 1)
  <2>1. \A k \in 1..(i - 1) : k \in 1..n
    BY <1>1
  <2>2. First(s, i - 1) = [k \in 1..(i - 1) |-> hs[k].num_entries]
    BY <2>1 DEF First
  <2> QED BY <2>2 DEF EntriesBefore
<1> HIDE DEF s, n
<1>4. S(0) = 0 /\ \A i \in 1..n : S(i) = S(i - 1) + s[i]
  BY <1>1, <1>2, SumSteps
<1>5. \A i, j \in 0..n : i <= j => S(i) \in Nat /\ S(i) <= S(j)
  BY <1>1, <1>2, SumNat
<1> HIDE DEF S
<1>6. EntriesBefore(hs, 1) = 0
  <2>1. 1 \in 1..(n + 1) /\ 1 - 1 = 0
    BY <1>1
  <2> QED BY <1>3, <1>4, <2>1
<1>7. ASSUME NEW i \in 1..(n + 1) PROVE EntriesBefore(hs, i) \in Nat
  <2>1. i - 1 \in 0..n /\ i - 1 <= i - 1
    BY <1>1
  <2> QED BY <1>3, <1>5, <2>1
<1>8. ASSUME NEW i \in 1..n PROVE EntriesBefore(hs, i + 1) = EntriesBefore(hs, i) + hs[i].num_entries
  <2>1. i \in 1..(n + 1) /\ i + 1 \in 1..(n + 1) /\ (i + 1) - 1 = i
    BY <1>1
  <2>2. EntriesBefore(hs, i + 1) = S(i) /\ EntriesBefore(hs, i) = S(i - 1)
    BY <1>3, <2>1
  <2> QED BY <1>2, <1>4, <2>2
<1>9. ASSUME NEW i \in 1..(n + 1), NEW j \in 1..(n + 1), i <= j
      PROVE  EntriesBefore(hs, i) <= EntriesBefore(hs, j)
  <2>1. i - 1 \in 0..n /\ j - 1 \in 0..n /\ i - 1 <= j - 1
    BY <1>1, <1>9
  <2> QED BY <1>3, <1>5, <2>1
<1> QED BY <1>6, <1>7, <1>8, <1>9 DEF n

\* The segments of a file are a list of entries of the shard.
LEMMA SegmentsTyped ==
  ASSUME NEW P, ParseTyped(P), NEW i \in 1..Len(P.file_entries),
         EntriesBefore(P.file_entries, i + 1) <= Len(P.file_data_entries)
  PROVE  /\ Listed(Segments(P, i))
         /\ \A j \in 1..Len(Segments(P, i)) : Segments(P, i)[j].start \in Nat /\ Segments(P, i)[j].end \in Nat
<1> DEFINE hs == P.file_entries
           s == P.file_data_entries
           a == EntriesBefore(hs, i)
           b == EntriesBefore(hs, i + 1)
           t == Segments(P, i)
<1>0. Listed(hs) /\ Listed(s) /\ (\A j \in 1..Len(hs) : hs[j].num_entries \in Nat)
      /\ \A j \in 1..Len(s) : s[j].start \in Nat /\ s[j].end \in Nat
  BY DEF ParseTyped
<1>1. Len(hs) \in Nat
  BY <1>0, ListedLen
<1>2. i \in 1..(Len(hs) + 1) /\ i + 1 \in 1..(Len(hs) + 1) /\ i <= i + 1
  BY <1>1
<1>3. a \in Nat /\ b \in Nat /\ a <= b
  <2> HIDE DEF hs
  <2> QED BY <1>0, <1>2, EntriesSteps
<1>4. PICK Q : s \in Seq(Q)
  BY <1>0 DEF Listed
<1>5. t = SubSeq(s, a + 1, b)
  BY DEF Segments
<1>6. b <= Len(s)
  OBVIOUS
<1> HIDE DEF t, s, a, b
<1>7. /\ t \in Seq(Q) /\ Len(t) = b - a
      /\ \A k \in 1..(b - a) : t[k] = s[a + k] /\ a + k \in 1..Len(s)
  BY <1>3, <1>4, <1>5, <1>6, Taken
<1>8. \A j \in 1..Len(t) : t[j].start \in Nat /\ t[j].end \in Nat
  BY <1>0, <1>7
<1> QED BY <1>7, <1>8 DEF Listed, t

\* The plan of a file is a list, and every planned chunk is one of a segment.
LEMMA PlanTyped ==
  ASSUME NEW P, ParseTyped(P), NEW h, NEW i \in 1..Len(P.file_entries), Plans(P, h, i)
  PROVE  /\ Listed(Plan(P, i))
         /\ \A k \in 1..Len(Plan(P, i)) :
              \E j \in 1..Len(Segments(P, i)) :
                \E q \in 1..(Segments(P, i)[j].end - Segments(P, i)[j].start) :
                  Plan(P, i)[k] = PlannedChunks(P, Segments(P, i)[j])[q]
<1> DEFINE t == Segments(P, i)
           n == Len(t)
           s == [j \in 1..n |-> PlannedChunks(P, t[j])]
           w(j) == t[j].end - t[j].start
           A == UNION {{s[j][q] : q \in 1..w(j)} : j \in 1..n}
<1>1. Listed(t) /\ \A j \in 1..n : t[j].start \in Nat /\ t[j].end \in Nat
  BY SegmentsTyped DEF Plans
<1>2. n \in Nat
  BY <1>1, ListedLen
<1>3. \A j \in 1..n : t[j].start <= t[j].end
  BY DEF Plans, SegmentPlans
<1>4. \A j \in 1..n : w(j) \in Nat
  BY <1>1, <1>3
<1>5. ASSUME NEW j \in 1..n PROVE s[j] \in Seq(A) /\ Len(s[j]) = w(j)
  <2>1. \A q \in 1..w(j) : s[j][q] \in A
    OBVIOUS
  <2>2. s[j] = [q \in 1..w(j) |-> s[j][q]]
    BY DEF PlannedChunks
  <2>3. w(j) \in Nat
    BY <1>4
  <2> DEFINE m == w(j)
             v == s[j]
  <2>4. (\A q \in 1..m : v[q] \in A) /\ v = [q \in 1..m |-> v[q]] /\ m \in Nat
    BY <2>1, <2>2, <2>3
  <2> HIDE DEF m, v, A
  <2>5. v \in Seq(A) /\ Len(v) = m
    BY <2>4
  <2> QED BY <2>5 DEF m, v
<1>6. s \in [1..n -> Seq(A)]
  <2> HIDE DEF A
  <2>1. \A j \in 1..n : PlannedChunks(P, t[j]) \in Seq(A)
    BY <1>5
  <2> QED BY <2>1
<1>7. Plan(P, i) = Concat(s)
  BY DEF Plan
<1>8. \A j \in 1..n : s[j] = PlannedChunks(P, t[j])
  OBVIOUS
<1> HIDE DEF s, A, n
<1>9. Concat(s) \in Seq(A)
  BY <1>2, <1>6, ConcatLen
<1>10. ASSUME NEW k \in 1..Len(Concat(s))
       PROVE  \E j \in 1..n : \E q \in 1..w(j) : Concat(s)[k] = PlannedChunks(P, t[j])[q]
  <2>0. \E j \in 1..n : \E q \in 1..Len(s[j]) : Concat(s)[k] = s[j][q]
    <3>1. FromOne(s, n, Concat(s)[k])
      BY <1>2, <1>6, ConcatFrom
    <3> QED BY <3>1, Zenon DEF FromOne
  <2>1. PICK j \in 1..n : \E q \in 1..Len(s[j]) : Concat(s)[k] = s[j][q]
    BY <2>0
  <2>2. PICK q \in 1..Len(s[j]) : Concat(s)[k] = s[j][q]
    BY <2>1
  <2>3. q \in 1..w(j) /\ Concat(s)[k] = PlannedChunks(P, t[j])[q]
    <3>1. Len(s[j]) = w(j) /\ s[j] = PlannedChunks(P, t[j])
      BY <1>5, <1>8
    <3> QED BY <2>2, <3>1, Zenon
  <2> QED BY <2>3
<1>11. Listed(Plan(P, i))
  BY <1>7, <1>9 DEF Listed
<1> QED BY <1>7, <1>10, <1>11 DEF n

(* The checks of ContentStore on a given map of stored xorbs.              *)
BytesIn(X, plan) == [i \in 1..Len(plan) |-> ExtractedChunk(X[plan[i].xorb_hash], plan[i].start)]
ReadIn(X, plan) ==
  \A i \in 1..Len(plan) :
    LET p == plan[i]
    IN  /\ p.xorb_hash \in DOMAIN X
        /\ ChunkExtracts(X[p.xorb_hash], p.start, p.unpacked, p.serialized_hash)
        /\ DataHash(ExtractedChunk(X[p.xorb_hash], p.start)) = p.raw_hash
FileValidIn(X, P, i) ==
  /\ Plans(P, P.file_entries[i].file_hash, i)
  /\ ReadIn(X, Plan(P, i))
  /\ HashMatches(P.file_entries[i].file_hash, BytesIn(X, Plan(P, i)))
EntryValidIn(X, P, i) ==
  LET entry == P.xorb_entries[i]
      info == VerifiedXorbInfo(X[entry.xorb_hash])
      cs == XorbChunks(P, i)
  IN  /\ entry.xorb_hash \in DOMAIN X
      /\ VerifyXorbFromFile(X[entry.xorb_hash])
      /\ info.xorb_hash = entry.xorb_hash
      /\ Len(info.chunks) = entry.num_entries
      /\ info.total_unpacked = entry.in_xorb
      /\ info.total_compressed = entry.on_disk
      /\ \A k \in 1..Len(cs) :
           /\ cs[k].chunk_hash = info.chunks[k].hash
           /\ cs[k].start = info.chunks[k].start
           /\ cs[k].unpacked = info.chunks[k].unpacked_len
ValidIn(X, P) ==
  /\ \A i, j \in 1..Len(P.xorb_entries) : P.xorb_entries[i].xorb_hash = P.xorb_entries[j].xorb_hash => i = j
  /\ EntriesBefore(P.xorb_entries, Len(P.xorb_entries) + 1) = Len(P.xorb_chunk_entries)
  /\ \A i \in 1..Len(P.xorb_entries) : EntryValidIn(X, P, i)
  /\ \A i \in 1..Len(P.file_entries) : FileValidIn(X, P, i)

\* validate_shard_for_index looks at the stored xorbs and at nothing else.
LEMMA ValidIs ==
  ASSUME NEW P
  PROVE  /\ ShardValid(P) <=> ValidIn(xorbs, P)
         /\ ShardValid(P)' <=> ValidIn(xorbs', P)
<1>1. ShardValid(P) <=> ValidIn(xorbs, P)
  BY Zenon DEF ShardValid, XorbTableValid, FileValid, XorbEntryValid, ChunksRead, ChunkBytes,
         ValidIn, FileValidIn, EntryValidIn, ReadIn, BytesIn
<1>2. ShardValid(P)' <=> ValidIn(xorbs', P)
  BY Zenon DEF ShardValid, XorbTableValid, FileValid, XorbEntryValid, ChunksRead, ChunkBytes,
         ValidIn, FileValidIn, EntryValidIn, ReadIn, BytesIn
<1> QED BY <1>1, <1>2

\* Y has what X has.
Extends(X, Y) == \A h \in DOMAIN X : h \in DOMAIN Y /\ Y[h] = X[h]

\* What can be read stays readable, and the same, when xorbs are added.
LEMMA ReadKeeps ==
  ASSUME NEW X, NEW Y, Extends(X, Y), NEW plan, ReadIn(X, plan)
  PROVE  ReadIn(Y, plan) /\ BytesIn(Y, plan) = BytesIn(X, plan)
<1>1. \A i \in 1..Len(plan) : plan[i].xorb_hash \in DOMAIN X /\ plan[i].xorb_hash \in DOMAIN Y
                              /\ Y[plan[i].xorb_hash] = X[plan[i].xorb_hash]
  BY DEF ReadIn, Extends
<1>2. ReadIn(Y, plan)
  BY <1>1 DEF ReadIn
<1>3. BytesIn(Y, plan) = BytesIn(X, plan)
  BY <1>1 DEF BytesIn
<1> QED BY <1>2, <1>3

\* A shard that is valid stays valid when xorbs are added.
LEMMA ValidKeeps ==
  ASSUME NEW X, NEW Y, Extends(X, Y), NEW P, ValidIn(X, P)
  PROVE  ValidIn(Y, P)
<1>1. ASSUME NEW i \in 1..Len(P.file_entries) PROVE FileValidIn(Y, P, i)
  <2>1. FileValidIn(X, P, i)
    BY DEF ValidIn
  <2>2. ReadIn(Y, Plan(P, i)) /\ BytesIn(Y, Plan(P, i)) = BytesIn(X, Plan(P, i))
    BY <2>1, ReadKeeps DEF FileValidIn
  <2> QED BY <2>1, <2>2 DEF FileValidIn
<1>2. ASSUME NEW i \in 1..Len(P.xorb_entries) PROVE EntryValidIn(Y, P, i)
  <2> DEFINE h == P.xorb_entries[i].xorb_hash
  <2>1. EntryValidIn(X, P, i)
    BY DEF ValidIn
  <2>2. h \in DOMAIN X
    BY <2>1, Zenon DEF EntryValidIn
  <2>3. h \in DOMAIN Y /\ Y[h] = X[h]
    BY <2>2 DEF Extends
  <2> QED BY <2>1, <2>3, Zenon DEF EntryValidIn
<1> QED BY <1>1, <1>2 DEF ValidIn

\* A xorb that is stored under its hash and passes the check.
SealedAt(h, x) ==
  \E rs \in Seq(Regions) : x = SealedXorb(rs) /\ h = XorbHash(Nodes(rs)) /\ Len(rs) <= MaxChunks
SealedIn(X) == \A h \in DOMAIN X : SealedAt(h, X[h])

\* The fields of a sealed xorb.
LEMMA SealedFields ==
  ASSUME NEW rs
  PROVE  /\ SealedXorb(rs).regions = rs /\ SealedXorb(rs).footer.xorb_hash = XorbHash(Nodes(rs))
         /\ SealedXorb(rs).footer.chunk_hashes = [i \in 1..Len(rs) |-> RegionHash(rs[i])]
  BY DEF SealedXorb, Xorb, Footer

\* A chunk that is extracted is a string of bytes.
LEMMA ExtractTyped ==
  ASSUME NEW h, NEW x, SealedAt(h, x), NEW o, RegionsAt(x, o) # {}
  PROVE  ExtractedChunk(x, o) \in Seq(Byte)
<1>1. PICK rs \in Seq(Regions) : x = SealedXorb(rs)
  BY DEF SealedAt
<1>2. x.regions = rs
  BY <1>1, SealedFields
<1> DEFINE i == CHOOSE j \in RegionsAt(x, o) : TRUE
           r == x.regions[i]
<1>3. i \in RegionsAt(x, o)
  <2>1. \E j : j \in RegionsAt(x, o)
    OBVIOUS
  <2> QED BY <2>1, Zenon
<1>4. i \in 1..Len(rs)
  <2> HIDE DEF i
  <2> QED BY <1>2, <1>3 DEF RegionsAt
<1>5. r \in Regions
  <2> HIDE DEF i
  <2> QED BY <1>2, <1>4, ElementOfSeq
<1>6. ExtractedChunk(x, o) = Decompress(r.scheme, r.payload)
  BY Zenon DEF ExtractedChunk
<1> HIDE DEF r
<1>7. r.payload.bytes \in Seq(Byte)
  BY <1>5 DEF Regions
<1>8. Bg4Regroup(r.payload.bytes) \in Seq(Byte)
  BY <1>7, Bg4Inverse
<1> QED BY <1>6, <1>7, <1>8 DEF Decompress

\* So are all the chunks of a plan.
LEMMA BytesTyped ==
  ASSUME NEW X, SealedIn(X), NEW plan, Listed(plan), ReadIn(X, plan)
  PROVE  BytesIn(X, plan) \in Seq(Seq(Byte)) /\ Len(BytesIn(X, plan)) = Len(plan)
<1>1. Len(plan) \in Nat
  BY ListedLen
<1>2. ASSUME NEW i \in 1..Len(plan) PROVE ExtractedChunk(X[plan[i].xorb_hash], plan[i].start) \in Seq(Byte)
  <2> DEFINE h == plan[i].xorb_hash
             o == plan[i].start
  <2>1. h \in DOMAIN X /\ ChunkExtracts(X[h], o, plan[i].unpacked, plan[i].serialized_hash)
    BY DEF ReadIn
  <2>2. SealedAt(h, X[h])
    BY <2>1 DEF SealedIn
  <2>3. RegionsAt(X[h], o) # {}
    BY <2>1 DEF ChunkExtracts
  <2> HIDE DEF h, o
  <2>4. ExtractedChunk(X[h], o) \in Seq(Byte)
    BY <2>2, <2>3, ExtractTyped
  <2> QED BY <2>4 DEF h, o
<1> DEFINE g(i) == ExtractedChunk(X[plan[i].xorb_hash], plan[i].start)
<1>3. BytesIn(X, plan) = [i \in 1..Len(plan) |-> g(i)]
  BY DEF BytesIn
<1>4. \A i \in 1..Len(plan) : g(i) \in Seq(Byte)
  BY <1>2
<1> HIDE DEF g
<1> QED BY <1>1, <1>3, <1>4

\* A file of a valid shard has the size that its hash tells.
LEMMA FileSized ==
  ASSUME NEW X, SealedIn(X), NEW P, ParseTyped(P), NEW i \in 1..Len(P.file_entries), FileValidIn(X, P, i)
  PROVE  /\ Sized(P.file_entries[i].file_hash, Len(Concat(BytesIn(X, Plan(P, i)))))
         /\ BytesIn(X, Plan(P, i)) \in Seq(Seq(Byte))
<1>1. Listed(Plan(P, i))
  BY PlanTyped DEF FileValidIn
<1>2. BytesIn(X, Plan(P, i)) \in Seq(Seq(Byte))
  BY <1>1, BytesTyped DEF FileValidIn
<1> QED BY <1>2 DEF Sized, FileValidIn

\* The records of a shard are a list, and count their entries.
RecordsTyped(f) ==
  /\ IsList(f.records)
  /\ \A i \in 1..Len(f.records) : f.records[i].b \in Nat

\* The offset after a header and its entries, and the headers that are refused.
HeaderNext(f, p) == p + RecordSize + RecordSize * f.records[RecordAt(p)].b
Refused(f, end, p) ==
  \/ p + RecordSize > end
  \/ RecordAt(p) > Len(f.records)
  \/ HeaderNext(f, p) > end

Walk(f, start, end, c) ==
  \A p \in start..end :
    c[p] = IF p = end THEN << >> ELSE IF Refused(f, end, p) THEN <<0>> ELSE <<p>> \o c[HeaderNext(f, p)]

\* A header that is not refused has its entries in front of the next one.
LEMMA NextFits ==
  ASSUME NEW f, RecordsTyped(f), NEW p \in Nat, p >= ShardHeaderSize, NEW end \in Nat, ~Refused(f, end, p)
  PROVE  /\ RecordAt(p) \in 1..Len(f.records) /\ f.records[RecordAt(p)].b \in Nat
         /\ HeaderNext(f, p) \in Nat /\ HeaderNext(f, p) >= p + RecordSize /\ HeaderNext(f, p) <= end
<1> DEFINE n == RecordAt(p)
           b == f.records[n].b
<1>1. Len(f.records) \in Nat
  BY DEF RecordsTyped, IsList
<1>2. n \in Nat /\ n >= 1
  BY DEF RecordAt, ShardHeaderSize, RecordSize
<1>3. n \in 1..Len(f.records)
  BY <1>1, <1>2 DEF Refused
<1>4. b \in Nat
  BY <1>3 DEF RecordsTyped
<1>5. HeaderNext(f, p) = p + 48 + 48 * b
  BY DEF HeaderNext, RecordSize
<1>6. ~(HeaderNext(f, p) > end)
  BY DEF Refused
<1> HIDE DEF b, n
<1>7. p + 48 + 48 * b \in Nat /\ p + 48 + 48 * b >= p + 48
  BY <1>4
<1> QED BY <1>3, <1>4, <1>5, <1>6, <1>7 DEF RecordSize, n, b

\* The walk over a section satisfies its recursion.
LEMMA WalkIs ==
  ASSUME NEW f, RecordsTyped(f), NEW start \in Nat, NEW end \in Nat, ShardHeaderSize <= start, start <= end
  PROVE  \E c : Walk(f, start, end, c) /\ SectionHeaders(f, start, end) = c[start]
<1> DEFINE Is(g) == g = [p \in start..end |->
              IF p = end THEN << >>
              ELSE IF p + RecordSize > end \/ RecordAt(p) > Len(f.records) THEN <<0>>
              ELSE IF p + RecordSize + RecordSize * f.records[RecordAt(p)].b > end THEN <<0>>
              ELSE <<p>> \o g[p + RecordSize + RecordSize * f.records[RecordAt(p)].b]]
           c == CHOOSE g : Is(g)
           Stop(o) == o < start \/ o = end \/ Refused(f, end, o)
           G == [o \in 0..end |-> IF Stop(o) THEN 0 ELSE o]
           N == [o \in 0..end |-> IF Stop(o) THEN end ELSE HeaderNext(f, o)]
<1>1. SectionHeaders(f, start, end) = c[start]
  BY DEF SectionHeaders
<1>2. ASSUME NEW o \in 0..end, ~Stop(o)
      PROVE  HeaderNext(f, o) \in Nat /\ HeaderNext(f, o) > o /\ HeaderNext(f, o) <= end /\ o \in start..end
             /\ HeaderNext(f, o) \in start..end
  <2>1. o \in Nat /\ o >= start /\ o >= ShardHeaderSize /\ ~Refused(f, end, o)
    BY <1>2 DEF ShardHeaderSize
  <2>2. HeaderNext(f, o) \in Nat /\ HeaderNext(f, o) >= o + RecordSize /\ HeaderNext(f, o) <= end
    BY <2>1, NextFits
  <2> DEFINE v == HeaderNext(f, o)
  <2> HIDE DEF v
  <2>3. v \in Nat /\ v >= o + 48 /\ v <= end
    BY <2>2 DEF v, RecordSize
  <2>4. v > o /\ v \in start..end
    BY <2>1, <2>3
  <2> QED BY <2>1, <2>3, <2>4 DEF v
<1>3. PICK g \in [0..end -> Seq(Nat)] : Collects(g, end, G, N)
  <2>1. G \in [0..end -> Nat]
    OBVIOUS
  <2>2. N \in [0..end -> Int]
    BY <1>2
  <2>3. \A o \in 0..end : o # end => N[o] > o /\ N[o] <= end
    <3> TAKE o \in 0..end
    <3>1. CASE Stop(o)
      BY <3>1
    <3>2. CASE ~Stop(o)
      BY <1>2, <3>2
    <3> QED BY <3>1, <3>2
  <2> HIDE DEF G, N
  <2> QED BY <2>1, <2>2, <2>3, RecursionDown
<1>4. ASSUME NEW p \in start..end
      PROVE  g[p] = IF p = end THEN << >> ELSE IF Refused(f, end, p) THEN <<0>> ELSE <<p>> \o g[HeaderNext(f, p)]
  <2>0. p \in 0..end /\ end \in 0..end /\ ~(p < start)
    OBVIOUS
  <2>1. g[p] = IF p = end THEN << >> ELSE <<G[p]>> \o g[N[p]]
    BY <1>3, <2>0 DEF Collects
  <2>2. CASE p = end
    BY <2>1, <2>2
  <2>3. CASE p # end /\ Refused(f, end, p)
    <3>1. G[p] = 0 /\ N[p] = end
      BY <2>0, <2>3
    <3>2. g[end] = << >>
      BY <1>3, <2>0 DEF Collects
    <3>3. <<0>> \o << >> = <<0>>
      OBVIOUS
    <3>4. g[p] = <<0>> \o << >>
      BY <2>1, <2>3, <3>1, <3>2, Zenon
    <3> QED BY <2>3, <3>3, <3>4, Zenon
  <2>4. CASE p # end /\ ~Refused(f, end, p)
    <3>1. G[p] = p /\ N[p] = HeaderNext(f, p)
      BY <2>0, <2>4
    <3> QED BY <2>1, <2>4, <3>1, Zenon
  <2> QED BY <2>2, <2>3, <2>4
<1> DEFINE r == [p \in start..end |-> g[p]]
<1>5. Is(r)
  <2>1. ASSUME NEW p \in start..end
        PROVE  r[p] = IF p = end THEN << >>
              ELSE IF p + RecordSize > end \/ RecordAt(p) > Len(f.records) THEN <<0>>
              ELSE IF p + RecordSize + RecordSize * f.records[RecordAt(p)].b > end THEN <<0>>
              ELSE <<p>> \o r[p + RecordSize + RecordSize * f.records[RecordAt(p)].b]
    <3>0. r[p] = g[p] /\ p \in 0..end /\ ~(p < start)
      OBVIOUS
    <3>1. r[p] = IF p = end THEN << >> ELSE IF Refused(f, end, p) THEN <<0>> ELSE <<p>> \o g[HeaderNext(f, p)]
      BY <1>4, <3>0, Zenon
    <3>2. CASE p = end \/ Refused(f, end, p)
      <4> HIDE DEF r
      <4> QED BY <3>1, <3>2, Zenon DEF Refused, HeaderNext
    <3>3. CASE ~(p = end \/ Refused(f, end, p))
      <4>1. HeaderNext(f, p) \in start..end
        BY <1>2, <3>0, <3>3
      <4>2. r[HeaderNext(f, p)] = g[HeaderNext(f, p)]
        BY <4>1
      <4> HIDE DEF r
      <4>3. r[p] = <<p>> \o r[HeaderNext(f, p)]
        BY <3>1, <3>3, <4>2, Zenon
      <4> QED BY <3>3, <4>3, Zenon DEF Refused, HeaderNext
    <3> QED BY <3>2, <3>3
  <2>2. r = [p \in start..end |-> r[p]]
    OBVIOUS
  <2> HIDE DEF r
  <2> QED BY <2>1, <2>2, Zenon
<1>6. Is(c)
  <2> HIDE DEF Is, r
  <2> QED BY <1>5
<1> HIDE DEF c
<1>7. ASSUME NEW p \in start..end
      PROVE  c[p] = IF p = end THEN << >>
              ELSE IF p + RecordSize > end \/ RecordAt(p) > Len(f.records) THEN <<0>>
              ELSE IF p + RecordSize + RecordSize * f.records[RecordAt(p)].b > end THEN <<0>>
              ELSE <<p>> \o c[p + RecordSize + RecordSize * f.records[RecordAt(p)].b]
  BY <1>6, Zenon
<1> HIDE DEF Is
<1>8. Walk(f, start, end, c)
  <2> SUFFICES ASSUME NEW p \in start..end
               PROVE  c[p] = IF p = end THEN << >> ELSE IF Refused(f, end, p) THEN <<0>> ELSE <<p>> \o c[HeaderNext(f, p)]
    BY DEF Walk
  <2> QED BY <1>7, Zenon DEF Refused, HeaderNext
<1> QED BY <1>1, <1>8

RecordsEnd(f) == ShardHeaderSize + RecordSize * Len(f.records)

\* A header with all its entries is among the records.
HeadFits(f, p) ==
  /\ p \in Nat /\ p >= ShardHeaderSize
  /\ RecordAt(p) \in 1..Len(f.records)
  /\ f.records[RecordAt(p)].b \in Nat
  /\ RecordAt(p) + f.records[RecordAt(p)].b <= Len(f.records)

\* What the walk collects, if it refuses nothing, are headers.
LEMMA HeadersFit ==
  ASSUME NEW f, RecordsTyped(f), NEW start \in Nat, NEW end \in Nat,
         ShardHeaderSize <= start, start <= end, end <= RecordsEnd(f),
         \A i \in 1..Len(SectionHeaders(f, start, end)) : SectionHeaders(f, start, end)[i] # 0
  PROVE  /\ Listed(SectionHeaders(f, start, end))
         /\ \A i \in 1..Len(SectionHeaders(f, start, end)) : HeadFits(f, SectionHeaders(f, start, end)[i])
<1> DEFINE at == SectionHeaders(f, start, end)
           A == {p \in Nat : p = 0 \/ HeadFits(f, p)}
<1>1. PICK c : Walk(f, start, end, c) /\ at = c[start]
  BY WalkIs
<1>2. ASSUME NEW p \in start..end, ~Refused(f, end, p) PROVE HeadFits(f, p) /\ HeaderNext(f, p) \in (p + 1)..end
  <2>1. p \in Nat /\ p >= ShardHeaderSize
    BY DEF ShardHeaderSize
  <2>2. /\ RecordAt(p) \in 1..Len(f.records) /\ f.records[RecordAt(p)].b \in Nat
        /\ HeaderNext(f, p) \in Nat /\ HeaderNext(f, p) >= p + RecordSize /\ HeaderNext(f, p) <= end
    BY <1>2, <2>1, NextFits
  <2> DEFINE b == f.records[RecordAt(p)].b
             v == HeaderNext(f, p)
             l == Len(f.records)
             n == RecordAt(p)
  <2>3. v = p + 48 + 48 * b /\ end <= 48 + 48 * l /\ n = (p - 48) \div 48 + 1 /\ p >= 48
    BY <2>1 DEF HeaderNext, RecordSize, RecordsEnd, ShardHeaderSize, RecordAt
  <2>4. b \in Nat /\ v \in Nat /\ v <= end /\ n \in 1..l /\ v >= p + 48
    BY <2>2 DEF RecordSize
  <2>5. l \in Nat
    BY DEF RecordsTyped, IsList
  <2> HIDE DEF b, v, l, n
  <2>6. n + b <= l
    BY <2>3, <2>4, <2>5
  <2>7. v \in (p + 1)..end
    BY <2>4
  <2> QED BY <2>1, <2>2, <2>6, <2>7 DEF HeadFits, b, v, l, n
<1>3. \A p \in start..end : c[p] \in Seq(A)
  <2> DEFINE T == {p \in Nat : p \in start..end => c[p] \in Seq(A)}
  <2>1. ASSUME NEW p \in 0..end, \A q \in (p + 1)..end : q \in T PROVE p \in T
    <3>1. SUFFICES ASSUME p \in start..end PROVE c[p] \in Seq(A)
      OBVIOUS
    <3>2. c[p] = IF p = end THEN << >> ELSE IF Refused(f, end, p) THEN <<0>> ELSE <<p>> \o c[HeaderNext(f, p)]
      BY <1>1, <3>1 DEF Walk
    <3>3. CASE p = end
      <4>1. << >> \in Seq(A)
        OBVIOUS
      <4> QED BY <3>2, <3>3, <4>1
    <3>4. CASE p # end /\ Refused(f, end, p)
      <4>1. 0 \in A
        OBVIOUS
      <4> HIDE DEF A
      <4>2. <<0>> \in Seq(A)
        BY <4>1
      <4>3. c[p] = <<0>>
        BY <3>2, <3>4, Zenon
      <4> QED BY <4>2, <4>3
    <3>5. CASE p # end /\ ~Refused(f, end, p)
      <4>1. p \in A /\ HeaderNext(f, p) \in (p + 1)..end /\ HeaderNext(f, p) \in start..end
        BY <1>2, <3>1, <3>5
      <4>2. c[HeaderNext(f, p)] \in Seq(A)
        BY <2>1, <4>1
      <4> HIDE DEF A
      <4>3. <<p>> \o c[HeaderNext(f, p)] \in Seq(A)
        BY <4>1, <4>2, ConsIs
      <4>4. c[p] = <<p>> \o c[HeaderNext(f, p)]
        BY <3>2, <3>5, Zenon
      <4> QED BY <4>3, <4>4
    <3> QED BY <3>3, <3>4, <3>5
  <2>2. \A p \in 0..end : p \in T
    <3> HIDE DEF T
    <3> QED BY <2>1, DownInduction
  <2> QED BY <2>2
<1>4. at \in Seq(A)
  <2>1. start \in start..end
    OBVIOUS
  <2> QED BY <1>1, <1>3, <2>1
<1>5. \A i \in 1..Len(at) : at[i] \in A
  <2> HIDE DEF at, A
  <2> QED BY <1>4, ElementOfSeq
<1> QED BY <1>4, <1>5 DEF Listed

\* A section that parses ends where the footer says.
LEMMA SectionTyped ==
  ASSUME NEW f, RecordsTyped(f), NEW info \in Nat, NEW lookup \in Nat, NEW num, NEW next \in Nat,
         next >= ShardHeaderSize, SectionParses(f, info, lookup, num, next),
         SectionEnd(info, lookup, next) <= RecordsEnd(f)
  PROVE  /\ Listed(SectionAt(f, info, lookup))
         /\ \A i \in 1..Len(SectionAt(f, info, lookup)) : HeadFits(f, SectionAt(f, info, lookup)[i])
<1>1. CASE info = 0
  <2>1. SectionAt(f, info, lookup) = << >>
    BY <1>1 DEF SectionAt
  <2>2. << >> \in Seq({}) /\ Len(<< >>) = 0
    OBVIOUS
  <2>3. Listed(<< >>)
    BY <2>2 DEF Listed
  <2> QED BY <2>1, <2>2, <2>3
<1>2. CASE info # 0
  <2>1. /\ info = next /\ info <= lookup
        /\ \A i \in 1..Len(SectionHeaders(f, info, lookup)) : SectionHeaders(f, info, lookup)[i] # 0
    BY <1>2 DEF SectionParses
  <2>2. SectionAt(f, info, lookup) = SectionHeaders(f, info, lookup) /\ lookup <= RecordsEnd(f)
    BY <1>2 DEF SectionAt, SectionEnd
  <2>3. ShardHeaderSize <= info
    BY <2>1 DEF ShardHeaderSize
  <2> QED BY <2>1, <2>2, <2>3, HeadersFit
<1> QED BY <1>1, <1>2

\* A section ends after it starts.
LEMMA SectionEnds ==
  ASSUME NEW f, NEW info \in Nat, NEW lookup \in Nat, NEW num, NEW next \in Nat,
         SectionParses(f, info, lookup, num, next)
  PROVE  SectionEnd(info, lookup, next) \in Nat /\ next <= SectionEnd(info, lookup, next)
<1>1. CASE info = 0
  BY <1>1 DEF SectionEnd
<1>2. CASE info # 0
  BY <1>2 DEF SectionEnd, SectionParses
<1> QED BY <1>1, <1>2

RecordSet(f) == {f.records[i] : i \in 1..Len(f.records)}

\* Headers and entries are records of the shard.
LEMMA EntriesTyped ==
  ASSUME NEW f, RecordsTyped(f), NEW at, Listed(at), \A i \in 1..Len(at) : HeadFits(f, at[i])
  PROVE  /\ Headers(f, at) \in Seq(RecordSet(f)) /\ Len(Headers(f, at)) = Len(at)
         /\ Entries(f, at) \in Seq(RecordSet(f))
<1> DEFINE n == Len(at)
           A == RecordSet(f)
           l == Len(f.records)
<1>1. n \in Nat /\ l \in Nat
  BY ListedLen DEF RecordsTyped, IsList
<1>2. f.records \in Seq(A)
  <2>1. \A i \in 1..l : f.records[i] \in A
    BY DEF RecordSet
  <2>2. f.records = [i \in 1..l |-> f.records[i]]
    BY DEF RecordsTyped, IsList
  <2> DEFINE r == f.records
  <2>3. r = [i \in 1..l |-> r[i]] /\ \A i \in 1..l : r[i] \in A
    BY <2>1, <2>2
  <2> HIDE DEF r, l, A
  <2>4. r \in Seq(A)
    BY <1>1, <2>3
  <2> QED BY <2>4 DEF r
<1>3. \A i \in 1..n : f.records[RecordAt(at[i])] \in A
  BY DEF HeadFits, RecordSet
<1>4. Headers(f, at) \in Seq(A) /\ Len(Headers(f, at)) = n
  <2> HIDE DEF A, n
  <2>1. Headers(f, at) = [i \in 1..n |-> f.records[RecordAt(at[i])]]
    BY DEF Headers, n
  <2> QED BY <1>1, <1>3, <2>1
<1> DEFINE g(i) == SubSeq(f.records, RecordAt(at[i]) + 1, RecordAt(at[i]) + f.records[RecordAt(at[i])].b)
           s == [i \in 1..n |-> g(i)]
<1>5. ASSUME NEW i \in 1..n PROVE g(i) \in Seq(A)
  <2> DEFINE a == RecordAt(at[i])
             b == f.records[a].b
             e == a + b
             r == f.records
  <2>1. a \in 1..l /\ b \in Nat /\ a + b <= l
    BY DEF HeadFits
  <2> HIDE DEF a, b, A, r
  <2>2. a \in Nat /\ e \in Nat /\ a <= e /\ e <= l
    BY <1>1, <2>1
  <2>3. r \in Seq(A) /\ Len(r) = l
    BY <1>2 DEF r
  <2> HIDE DEF e, l
  <2>4. SubSeq(r, a + 1, e) \in Seq(A)
    BY <2>2, <2>3, Taken
  <2> QED BY <2>4 DEF a, b, e, r
<1>6. s \in [1..n -> Seq(A)]
  <2> HIDE DEF g, A
  <2> QED BY <1>5
<1>7. Entries(f, at) = Concat(s)
  BY DEF Entries
<1> HIDE DEF s, n, A
<1>8. Concat(s) \in Seq(A)
  BY <1>1, <1>6, ConcatLen
<1> QED BY <1>4, <1>7, <1>8 DEF A, n

\* A shard that parses, and whose records end where its lookups start.
Framed(f) ==
  /\ RecordsTyped(f) /\ Parses(f)
  /\ f.footer.file_info_offset \in Nat /\ f.footer.file_lookup_offset \in Nat
  /\ f.footer.xorb_info_offset \in Nat /\ f.footer.xorb_lookup_offset \in Nat
  /\ XorbSectionEnd(f) = RecordsEnd(f)

\* What a client uploads and parse_reader accepts is framed.
LEMMA FileFramed ==
  ASSUME NEW f, ShardFile(f), Parses(f)
  PROVE  Framed(f)
  BY DEF Framed, ShardFile, RecordsTyped, RecordsEnd

\* The headers of both sections of a framed shard are in it.
LEMMA SectionsTyped ==
  ASSUME NEW f, Framed(f)
  PROVE  /\ RecordsTyped(f)
         /\ Listed(FileSectionAt(f)) /\ Listed(XorbSectionAt(f))
         /\ \A i \in 1..Len(FileSectionAt(f)) : HeadFits(f, FileSectionAt(f)[i])
         /\ \A i \in 1..Len(XorbSectionAt(f)) : HeadFits(f, XorbSectionAt(f)[i])
<1> DEFINE fi == f.footer.file_info_offset
           fl == f.footer.file_lookup_offset
           xi == f.footer.xorb_info_offset
           xl == f.footer.xorb_lookup_offset
           fn == f.footer.file_lookup_num_entry
           xn == f.footer.xorb_lookup_num_entry
           fe == FileSectionEnd(f)
           xe == XorbSectionEnd(f)
<1>1. RecordsTyped(f)
  BY DEF Framed
<1>2. fi \in Nat /\ fl \in Nat /\ xi \in Nat /\ xl \in Nat /\ xe = RecordsEnd(f)
  BY DEF Framed
<1>3. /\ SectionParses(f, fi, fl, fn, ShardHeaderSize)
      /\ SectionParses(f, xi, xl, xn, fe)
      /\ fe = SectionEnd(fi, fl, ShardHeaderSize)
      /\ xe = SectionEnd(xi, xl, fe)
      /\ FileSectionAt(f) = SectionAt(f, fi, fl) /\ XorbSectionAt(f) = SectionAt(f, xi, xl)
  BY DEF Framed, Parses, FileSectionParses, XorbSectionParses, FileSectionEnd, XorbSectionEnd, FileSectionAt, XorbSectionAt
<1> HIDE DEF fi, fl, xi, xl, fn, xn, fe, xe
<1>4. ShardHeaderSize \in Nat
  BY DEF ShardHeaderSize
<1>5. fe \in Nat /\ ShardHeaderSize <= fe
  BY <1>2, <1>3, <1>4, SectionEnds
<1>6. xe \in Nat /\ fe <= xe
  BY <1>2, <1>3, <1>5, SectionEnds
<1>7. fe <= RecordsEnd(f) /\ xe <= RecordsEnd(f) /\ fe >= ShardHeaderSize /\ ShardHeaderSize >= ShardHeaderSize
  BY <1>2, <1>4, <1>5, <1>6
<1>8. Listed(FileSectionAt(f)) /\ \A i \in 1..Len(FileSectionAt(f)) : HeadFits(f, FileSectionAt(f)[i])
  BY <1>1, <1>2, <1>3, <1>4, <1>7, SectionTyped
<1>9. Listed(XorbSectionAt(f)) /\ \A i \in 1..Len(XorbSectionAt(f)) : HeadFits(f, XorbSectionAt(f)[i])
  BY <1>1, <1>2, <1>3, <1>5, <1>7, SectionTyped
<1> QED BY <1>1, <1>8, <1>9

\* A shard that parses parses to lists of numbers.
LEMMA ShardTyped ==
  ASSUME NEW f, ShardFile(f), Parses(f)
  PROVE  ParseTyped(Parse(f))
<1> DEFINE A == RecordSet(f)
           hf == Headers(f, FileSectionAt(f))
           ef == Entries(f, FileSectionAt(f))
           hx == Headers(f, XorbSectionAt(f))
           ex == Entries(f, XorbSectionAt(f))
           P == Parse(f)
<1>1. /\ RecordsTyped(f)
      /\ Listed(FileSectionAt(f)) /\ Listed(XorbSectionAt(f))
      /\ \A i \in 1..Len(FileSectionAt(f)) : HeadFits(f, FileSectionAt(f)[i])
      /\ \A i \in 1..Len(XorbSectionAt(f)) : HeadFits(f, XorbSectionAt(f)[i])
  BY FileFramed, SectionsTyped
<1>2. hf \in Seq(A) /\ ef \in Seq(A) /\ hx \in Seq(A) /\ ex \in Seq(A)
  BY <1>1, EntriesTyped
<1>3. ASSUME NEW r \in A PROVE r.a \in Nat /\ r.b \in Nat /\ r.c \in Nat /\ r.d \in Nat
  BY DEF RecordSet, ShardFile
<1>4. /\ P.file_entries = [i \in 1..Len(hf) |-> ReadFileHeader(hf[i])]
      /\ P.file_data_entries = [i \in 1..Len(ef) |-> ReadFileEntry(ef[i])]
      /\ P.xorb_entries = [i \in 1..Len(hx) |-> ReadXorbHeader(hx[i])]
      /\ P.xorb_chunk_entries = [i \in 1..Len(ex) |-> ReadXorbEntry(ex[i])]
      /\ P.chunk_lookup_entries = f.lookups
  BY DEF Parse, Mapped
<1> HIDE DEF A, hf, ef, hx, ex, P
<1>5. Len(hf) \in Nat /\ Len(ef) \in Nat /\ Len(hx) \in Nat /\ Len(ex) \in Nat
  BY <1>2, LenProperties
<1>6. /\ Listed(P.file_entries) /\ Len(P.file_entries) = Len(hf)
      /\ Listed(P.file_data_entries) /\ Len(P.file_data_entries) = Len(ef)
      /\ Listed(P.xorb_entries) /\ Len(P.xorb_entries) = Len(hx)
      /\ Listed(P.xorb_chunk_entries)
  <2>1. ASSUME NEW n \in Nat, NEW s, NEW g, s = [i \in 1..n |-> g[i]]
        PROVE  Listed(s) /\ Len(s) = n
    <3>1. s = [i \in 1..n |-> s[i]]
      BY <2>1
    <3> QED BY <3>1, ListedFcn
  <2> QED BY <1>4, <1>5, ListedFcn
<1>7. Listed(f.lookups)
  BY ListedFcn DEF ShardFile, IsList
<1>8. ASSUME NEW i \in 1..Len(hf) PROVE P.file_entries[i].num_entries \in Nat
  <2>1. hf[i] \in A
    BY <1>2, ElementOfSeq
  <2>2. P.file_entries[i] = ReadFileHeader(hf[i])
    BY <1>4
  <2> QED BY <1>3, <2>1, <2>2 DEF ReadFileHeader
<1>9. ASSUME NEW i \in 1..Len(hx) PROVE P.xorb_entries[i].num_entries \in Nat
  <2>1. hx[i] \in A
    BY <1>2, ElementOfSeq
  <2>2. P.xorb_entries[i] = ReadXorbHeader(hx[i])
    BY <1>4
  <2> QED BY <1>3, <2>1, <2>2 DEF ReadXorbHeader
<1>10. ASSUME NEW i \in 1..Len(ef) PROVE P.file_data_entries[i].start \in Nat /\ P.file_data_entries[i].end \in Nat
  <2>1. ef[i] \in A
    BY <1>2, ElementOfSeq
  <2>2. P.file_data_entries[i] = ReadFileEntry(ef[i])
    BY <1>4
  <2> QED BY <1>3, <2>1, <2>2 DEF ReadFileEntry
<1> QED BY <1>4, <1>6, <1>7, <1>8, <1>9, <1>10 DEF ParseTyped, P

-----------------------------------------------------------------------------
(* The shard of a conversion parses and plans.                             *)

\* No chunk is longer than the maximum.
LEMMA PiecesSmall ==
  ASSUME NEW s \in Seq(Byte)
  PROVE  \A i \in 1..Len(ChunkData(s)) : Len(ChunkData(s)[i]) <= MaxChunk
<1> DEFINE n == Len(s)
           c == ChunksFrom(s)
           After(o) == o + ChunkSize(s, o)
           A == {d \in Seq(Byte) : Len(d) <= MaxChunk}
           T == {o \in Nat : c[o] \in Seq(A)}
<1>1. n \in Nat
  BY LenProperties
<1>2. /\ c[n] = << >>
      /\ \A o \in 0..n : o # n => c[o] = <<SubSeq(s, o + 1, After(o))>> \o c[After(o)]
  BY ChunksFromIs
<1> HIDE DEF c
<1>3. ASSUME NEW o \in 0..n, \A p \in (o + 1)..n : p \in T PROVE o \in T
  <2>1. CASE o = n
    <3>1. << >> \in Seq(A)
      OBVIOUS
    <3> QED BY <1>1, <1>2, <2>1, <3>1
  <2>2. CASE o # n
    <3>1. ChunkSize(s, o) \in 1..(n - o) /\ ChunkSize(s, o) <= MaxChunk
      <4>1. o \in Nat /\ o < Len(s)
        BY <1>1, <2>2
      <4> QED BY <4>1, ChunkSizeRange
    <3> DEFINE a == After(o)
               d == SubSeq(s, o + 1, a)
    <3>2. a \in (o + 1)..n /\ a - o <= MaxChunk /\ a \in Nat /\ o \in Nat /\ o <= a /\ a <= Len(s)
      <4> DEFINE z == ChunkSize(s, o)
      <4> HIDE DEF z
      <4>1. z \in 1..(n - o) /\ z <= MaxChunk /\ a = o + z
        BY <3>1 DEF z
      <4> HIDE DEF a
      <4> QED BY <1>1, <4>1, CdcAssumption
    <3>3. c[o] = <<d>> \o c[a]
      BY <1>2, <2>2
    <3>4. c[a] \in Seq(A)
      <4> HIDE DEF a
      <4> QED BY <1>3, <3>2
    <3>5. d \in Seq(Byte) /\ Len(d) = a - o
      <4> HIDE DEF a
      <4> QED BY <3>2, Taken
    <3>6. d \in A
      <4> HIDE DEF a, d
      <4> QED BY <3>2, <3>5
    <3> HIDE DEF a, d, A
    <3>7. <<d>> \o c[a] \in Seq(A)
      BY <3>4, <3>6, ConsIs
    <3>8. o \in Nat /\ c[o] \in Seq(A)
      BY <3>2, <3>3, <3>7, Zenon
    <3> QED BY <3>8
  <2> QED BY <2>1, <2>2
<1>4. 0 \in T
  <2>1. \A o \in 0..n : o \in T
    <3> HIDE DEF T, n
    <3>1. \A o \in 0..n : (\A p \in (o + 1)..n : p \in T) => o \in T
      BY <1>3
    <3> QED BY <1>1, <3>1, DownInduction
  <2> HIDE DEF T, n
  <2> QED BY <1>1, <2>1
<1>5. ChunkData(s) \in Seq(A)
  BY <1>4 DEF ChunkData, c
<1>6. \A i \in 1..Len(ChunkData(s)) : ChunkData(s)[i] \in A
  <2> HIDE DEF A
  <2> QED BY <1>5, ElementOfSeq
<1> QED BY <1>6

\* The shape of a shard of one file with one segment, in one xorb of n chunks.
OneFile(f, n) ==
  /\ f.header = ShardHeader
  /\ RecordsTyped(f) /\ Len(f.records) = 3 + n /\ Len(f.lookups) = n
  /\ f.records[1].b = 1 /\ f.records[3].b = n
  /\ f.footer.version = 2
  /\ f.footer.file_info_offset = 48 /\ f.footer.file_lookup_offset = 144
  /\ f.footer.file_lookup_num_entry = 1
  /\ f.footer.xorb_info_offset = 144 /\ f.footer.xorb_lookup_offset = 192 + 48 * n
  /\ f.footer.xorb_lookup_num_entry = 1
  /\ f.footer.chunk_lookup_offset = (IF n = 0 THEN 0 ELSE 192 + 48 * n)
  /\ f.footer.chunk_lookup_num_entry = n
  /\ f.footer.footer_offset = 192 + 48 * n + 68 * n

\* A section of one header, which is followed by all its entries.
LEMMA OneHeader ==
  ASSUME NEW f, RecordsTyped(f), NEW start \in Nat, ShardHeaderSize <= start,
         NEW n \in Nat, RecordAt(start) <= Len(f.records),
         f.records[RecordAt(start)].b = n
  PROVE  SectionHeaders(f, start, start + 48 + 48 * n) = <<start>>
<1> DEFINE end == start + 48 + 48 * n
<1>1. end \in Nat /\ start <= end /\ start # end /\ start \in start..end /\ end \in start..end /\ ~(start + 48 > end)
  OBVIOUS
<1>2. HeaderNext(f, start) = end
  BY DEF HeaderNext, RecordSize
<1>3. ~Refused(f, end, start)
  <2>1. Len(f.records) \in Nat /\ RecordAt(start) \in Nat
    BY DEF RecordsTyped, IsList, RecordAt, ShardHeaderSize, RecordSize
  <2>2. ~(RecordAt(start) > Len(f.records)) /\ ~(end > end)
    BY <1>1, <2>1
  <2> HIDE DEF end
  <2> QED BY <1>1, <1>2, <2>2 DEF Refused, RecordSize
<1> HIDE DEF end
<1>4. PICK c : Walk(f, start, end, c) /\ SectionHeaders(f, start, end) = c[start]
  BY <1>1, WalkIs
<1>5. c[start] = <<start>> \o c[end]
  BY <1>1, <1>2, <1>3, <1>4, Zenon DEF Walk
<1>6. c[end] = << >>
  BY <1>1, <1>4, Zenon DEF Walk
<1>7. <<start>> \o << >> = <<start>>
  OBVIOUS
<1>8. SectionHeaders(f, start, end) = <<start>>
  BY <1>4, <1>5, <1>6, <1>7, Zenon
<1> QED BY <1>8 DEF end

\* Such a section's header and entries.
OneSection(f, p, n) ==
  /\ Headers(f, <<p>>) = <<f.records[RecordAt(p)]>>
  /\ Entries(f, <<p>>) = [i \in 1..n |-> f.records[RecordAt(p) + i]]

\* A section with one header.
LEMMA OneEntries ==
  ASSUME NEW f, RecordsTyped(f), NEW p, RecordAt(p) \in Nat, NEW n \in Nat,
         RecordAt(p) >= 1, RecordAt(p) + n <= Len(f.records), f.records[RecordAt(p)].b = n
  PROVE  OneSection(f, p, n)
<1> DEFINE a == RecordAt(p)
           e == a + n
           r == f.records
           A == RecordSet(f)
           t == SubSeq(r, a + 1, e)
<1>1. Headers(f, <<p>>) = <<r[a]>>
  BY DEF Headers
<1>2. Entries(f, <<p>>) = Concat(<<t>>)
  <2> DEFINE g(q) == SubSeq(f.records, RecordAt(q) + 1, RecordAt(q) + f.records[RecordAt(q)].b)
  <2>1. g(p) = t
    OBVIOUS
  <2>2. Entries(f, <<p>>) = Concat([i \in 1..Len(<<p>>) |-> g(<<p>>[i])])
    BY DEF Entries
  <2> HIDE DEF g, t
  <2>3. [i \in 1..Len(<<p>>) |-> g(<<p>>[i])] = <<g(p)>>
    OBVIOUS
  <2> QED BY <2>1, <2>2, <2>3
<1>3. Len(r) \in Nat /\ r = [i \in 1..Len(r) |-> r[i]]
  BY DEF RecordsTyped, IsList
<1>4. r \in Seq(A)
  <2>1. \A i \in 1..Len(r) : r[i] \in A
    BY DEF RecordSet
  <2> HIDE DEF r, A
  <2> QED BY <1>3, <2>1
<1>5. a \in Nat /\ e \in Nat /\ a <= e /\ e <= Len(r) /\ e - a = n
  OBVIOUS
<1> HIDE DEF a, e, r, A
<1>6. t \in Seq(A) /\ Len(t) = n /\ \A k \in 1..n : t[k] = r[a + k]
  BY <1>4, <1>5, Taken
<1>7. Concat(<<t>>) = t
  BY <1>6, ConcatSmall
<1>8. t = [i \in 1..n |-> r[a + i]]
  <2> HIDE DEF t
  <2>1. t = [i \in 1..n |-> t[i]]
    BY <1>6
  <2> QED BY <1>6, <2>1, Zenon
<1> QED BY <1>1, <1>2, <1>7, <1>8 DEF a, r, OneSection

\* A shard with one file of one segment and one xorb parses.
LEMMA OneFileParses ==
  ASSUME NEW n \in Nat, NEW f, OneFile(f, n)
  PROVE  /\ Parses(f)
         /\ FileSectionAt(f) = <<48>> /\ XorbSectionAt(f) = <<144>>
         /\ Headers(f, <<48>>) = <<f.records[1]>> /\ Headers(f, <<144>>) = <<f.records[3]>>
         /\ Entries(f, <<48>>) = [i \in 1..1 |-> f.records[1 + i]]
         /\ Entries(f, <<144>>) = [i \in 1..n |-> f.records[3 + i]]
<1>1. RecordsTyped(f) /\ Len(f.records) = 3 + n /\ f.records[1].b = 1 /\ f.records[3].b = n /\ Len(f.lookups) = n
  BY DEF OneFile
<1>2. RecordAt(48) = 1 /\ RecordAt(144) = 3
  BY DEF RecordAt, ShardHeaderSize, RecordSize
<1>3. SectionHeaders(f, 48, 144) = <<48>>
  <2>1. 48 + 48 + 48 * 1 = 144 /\ 48 \in Nat /\ 1 \in Nat /\ ShardHeaderSize <= 48 /\ RecordAt(48) <= Len(f.records)
    BY <1>1, <1>2 DEF ShardHeaderSize
  <2>2. SectionHeaders(f, 48, 48 + 48 + 48 * 1) = <<48>>
    BY <1>1, <1>2, <2>1, OneHeader
  <2> QED BY <2>1, <2>2
<1>4. SectionHeaders(f, 144, 192 + 48 * n) = <<144>>
  <2>1. 144 + 48 + 48 * n = 192 + 48 * n /\ 144 \in Nat /\ ShardHeaderSize <= 144 /\ RecordAt(144) <= Len(f.records)
    BY <1>1, <1>2 DEF ShardHeaderSize
  <2>2. SectionHeaders(f, 144, 144 + 48 + 48 * n) = <<144>>
    BY <1>1, <1>2, <2>1, OneHeader
  <2> QED BY <2>1, <2>2
<1>5. FileSectionAt(f) = <<48>> /\ XorbSectionAt(f) = <<144>>
  BY <1>3, <1>4 DEF FileSectionAt, XorbSectionAt, SectionAt, OneFile
<1>6. /\ Headers(f, <<48>>) = <<f.records[1]>>
      /\ Entries(f, <<48>>) = [i \in 1..1 |-> f.records[1 + i]]
  <2>1. RecordAt(48) \in Nat /\ RecordAt(48) >= 1 /\ RecordAt(48) + 1 <= Len(f.records) /\ 1 \in Nat
    BY <1>1, <1>2
  <2>2. f.records[RecordAt(48)].b = 1
    BY <1>1, <1>2
  <2>3. OneSection(f, 48, 1)
    BY <1>1, <2>1, <2>2, OneEntries
  <2> QED BY <1>2, <2>3 DEF OneSection
<1>7. /\ Headers(f, <<144>>) = <<f.records[3]>>
      /\ Entries(f, <<144>>) = [i \in 1..n |-> f.records[3 + i]]
  <2>1. RecordAt(144) \in Nat /\ RecordAt(144) >= 1 /\ RecordAt(144) + n <= Len(f.records)
    BY <1>1, <1>2
  <2>2. f.records[RecordAt(144)].b = n
    BY <1>1, <1>2
  <2>3. OneSection(f, 144, n)
    BY <1>1, <2>1, <2>2, OneEntries
  <2> QED BY <1>2, <2>3 DEF OneSection
<1>8. ShardFooterStart(f) = 192 + 48 * n + 68 * n
  BY <1>1 DEF ShardFooterStart, ShardHeaderSize, RecordSize, LookupSize
<1>9. HeaderParses(f)
  BY <1>8 DEF HeaderParses, OneFile, ShardHeader
<1>10. FileSectionParses(f)
  <2>1. Len(<<48>>) = 1 /\ \A i \in 1..Len(<<48>>) : <<48>>[i] # 0
    OBVIOUS
  <2>2. 48 <= 144 /\ 144 <= ShardFooterStart(f)
    BY <1>8
  <2>3. SectionParses(f, 48, 144, 1, 48)
    BY <1>3, <2>1, <2>2 DEF SectionParses
  <2>4. f.footer.file_info_offset = 48 /\ f.footer.file_lookup_offset = 144 /\ f.footer.file_lookup_num_entry = 1
    BY DEF OneFile
  <2> QED BY <2>3, <2>4 DEF FileSectionParses, ShardHeaderSize
<1>11. FileSectionEnd(f) = 144 /\ XorbSectionEnd(f) = 192 + 48 * n
  BY DEF FileSectionEnd, XorbSectionEnd, SectionEnd, OneFile
<1>12. XorbSectionParses(f)
  <2>1. Len(<<144>>) = 1 /\ \A i \in 1..Len(<<144>>) : <<144>>[i] # 0
    OBVIOUS
  <2>2. 144 <= 192 + 48 * n /\ 192 + 48 * n <= ShardFooterStart(f)
    BY <1>8
  <2> DEFINE v == 192 + 48 * n
  <2>3. 144 <= v /\ v <= ShardFooterStart(f) /\ SectionHeaders(f, 144, v) = <<144>>
    BY <1>4, <2>2
  <2>4. /\ f.footer.xorb_info_offset = 144 /\ f.footer.xorb_lookup_offset = v /\ f.footer.xorb_lookup_num_entry = 1
        /\ FileSectionEnd(f) = 144
    BY <1>11 DEF OneFile
  <2> HIDE DEF v
  <2>5. SectionParses(f, 144, v, 1, 144)
    BY <2>1, <2>3 DEF SectionParses
  <2> QED BY <2>4, <2>5 DEF XorbSectionParses
<1>13. LookupSectionParses(f)
  <2> DEFINE cs == Entries(f, XorbSectionAt(f))
  <2>1. cs = [i \in 1..n |-> f.records[3 + i]]
    BY <1>5, <1>7
  <2>2. Len(cs) = n
    BY <2>1
  <2>3. n = 0 => cs = << >>
    BY <2>1
  <2>4. LookupSize = 68 /\ f.footer.chunk_lookup_num_entry = n /\ f.footer.chunk_lookup_offset = (IF n = 0 THEN 0 ELSE 192 + 48 * n)
    BY DEF OneFile, LookupSize
  <2> HIDE DEF cs
  <2>5. CASE n = 0
    <3>1. XorbSectionEnd(f) = ShardFooterStart(f)
      BY <1>8, <1>11, <2>5
    <3>2. f.footer.chunk_lookup_offset = 0
      BY <2>4, <2>5
    <3> QED BY <2>3, <2>4, <2>5, <3>1, <3>2 DEF LookupSectionParses, cs
  <2>6. CASE n # 0
    <3>1. f.footer.chunk_lookup_offset = 192 + 48 * n /\ 192 + 48 * n # 0
      BY <2>4, <2>6
    <3> QED BY <1>8, <1>11, <2>2, <2>4, <2>6, <3>1 DEF LookupSectionParses, cs
  <2> QED BY <2>5, <2>6
<1> QED BY <1>5, <1>6, <1>7, <1>9, <1>10, <1>12, <1>13 DEF Parses

\* A sum of smaller numbers is smaller.
LEMMA SumLeq ==
  ASSUME NEW n \in Nat, NEW s \in [1..n -> Nat], NEW t \in [1..n -> Nat], \A i \in 1..n : s[i] <= t[i]
  PROVE  SumSeq(s) <= SumSeq(t)
<1> DEFINE S(i) == SumSeq(First(s, i))
           V(i) == SumSeq(First(t, i))
           T == {k \in Nat : k <= n => S(k) <= V(k)}
<1>1. s \in [1..n -> Int] /\ t \in [1..n -> Int]
  OBVIOUS
<1>2. S(0) = 0 /\ S(n) = SumSeq(s) /\ (\A i \in 1..n : S(i) = S(i - 1) + s[i]) /\ \A i \in 0..n : S(i) \in Int
  BY <1>1, SumSteps
<1>3. V(0) = 0 /\ V(n) = SumSeq(t) /\ (\A i \in 1..n : V(i) = V(i - 1) + t[i]) /\ \A i \in 0..n : V(i) \in Int
  BY <1>1, SumSteps
<1> HIDE DEF S, V
<1>4. 0 \in T
  BY <1>2, <1>3
<1>5. ASSUME NEW k \in Nat, k \in T PROVE k + 1 \in T
  <2>1. SUFFICES ASSUME k + 1 <= n PROVE S(k + 1) <= V(k + 1)
    OBVIOUS
  <2>2. k + 1 \in 1..n /\ k \in 0..n /\ (k + 1) - 1 = k /\ k <= n
    BY <2>1
  <2> DEFINE a == S(k)
             b == V(k)
             c == s[k + 1]
             d == t[k + 1]
  <2>3. S(k + 1) = a + c /\ V(k + 1) = b + d /\ a \in Int /\ b \in Int /\ c \in Nat /\ d \in Nat /\ c <= d /\ a <= b
    BY <1>2, <1>3, <1>5, <2>2
  <2> HIDE DEF a, b, c, d
  <2> QED BY <2>3
<1>6. n \in T
  <2> HIDE DEF T
  <2> QED BY <1>4, <1>5, SetInduction
<1> QED BY <1>2, <1>3, <1>6

\* Two sections of records one after the other.
LEMMA RecordsAre ==
  ASSUME NEW a, NEW b, NEW c, NEW n \in Nat, NEW es, es = [i \in 1..n |-> es[i]]
  PROVE  LET R == <<a, b>> \o (<<c>> \o es)
         IN  /\ IsList(R) /\ Len(R) = 3 + n /\ Len(<<c>> \o es) = 1 + n
             /\ R[1] = a /\ R[2] = b /\ R[3] = c /\ \A i \in 1..n : R[3 + i] = es[i]
<1> DEFINE A == {a, b, c} \cup {es[i] : i \in 1..n}
           p == <<a, b>>
           q == <<c>> \o es
           R == p \o q
<1>1. a \in A /\ b \in A /\ c \in A /\ \A i \in 1..n : es[i] \in A
  OBVIOUS
<1> HIDE DEF A
<1>2. es \in Seq(A) /\ Len(es) = n
  BY <1>1
<1>3. q \in Seq(A) /\ Len(q) = 1 + n /\ q[1] = c /\ \A i \in 1..n : q[1 + i] = es[i]
  BY <1>1, <1>2, ConsIs
<1>4. p \in Seq(A) /\ Len(p) = 2 /\ p[1] = a /\ p[2] = b
  BY <1>1
<1> HIDE DEF p, q
<1>a. /\ R \in Seq(A) /\ Len(R) = Len(p) + Len(q)
      /\ \A i \in 1..(Len(p) + Len(q)) : R[i] = IF i <= Len(p) THEN p[i] ELSE q[i - Len(p)]
  BY <1>3, <1>4, ConcatProperties
<1> HIDE DEF R
<1>5. R \in Seq(A) /\ Len(R) = 3 + n
  BY <1>3, <1>4, <1>a
<1>6. \A i \in 1..(3 + n) : R[i] = IF i <= 2 THEN p[i] ELSE q[i - 2]
  <2>1. Len(p) + Len(q) = 3 + n
    BY <1>3, <1>4
  <2> QED BY <1>4, <1>a, <2>1
<1>7. R[1] = a /\ R[2] = b
  BY <1>4, <1>6
<1>8. R[3] = c
  <2>1. R[3] = q[3 - 2] /\ 3 - 2 = 1
    BY <1>6
  <2> QED BY <1>3, <2>1
<1>9. ASSUME NEW i \in 1..n PROVE R[3 + i] = es[i]
  <2>1. (3 + i) - 2 = 1 + i /\ 3 + i \in 1..(3 + n) /\ ~(3 + i <= 2)
    OBVIOUS
  <2>2. R[3 + i] = q[1 + i]
    BY <1>6, <2>1
  <2> QED BY <1>3, <2>2
<1>10. IsList(R)
  BY <1>5 DEF IsList
<1> QED BY <1>3, <1>5, <1>7, <1>8, <1>9, <1>10 DEF R, p, q

\* The length of the payloads of the regions.
Payloads(rs) == [i \in 1..Len(rs) |-> PayloadLen(rs[i])]

\* No count of a conversion wraps if its sums do not.
LEMMA PayloadsFit ==
  ASSUME Lz4Bounded, NEW rs \in Seq(Regions), SumSeq(Lens(rs)) < Word, SumSeq(Sizes(rs)) < Word
  PROVE  /\ U32(SumSeq(Payloads(rs))) = SumSeq(Payloads(rs))
         /\ U32(SumSeq(Sizes(rs))) = SumSeq(Sizes(rs))
         /\ \A i \in 1..Len(rs) : U32(SumSeq(First(Lens(rs), i - 1))) = SumSeq(First(Lens(rs), i - 1))
         /\ \A i \in 1..Len(rs) : U32(rs[i].unpacked) = rs[i].unpacked
         /\ SumSeq(Payloads(rs)) \in Nat /\ SumSeq(Sizes(rs)) \in Nat
         /\ \A i \in 1..Len(rs) : SumSeq(First(Lens(rs), i - 1)) \in Nat /\ rs[i].unpacked \in Nat
<1> DEFINE n == Len(rs)
           l == Lens(rs)
           z == Sizes(rs)
           p == Payloads(rs)
<1>1. n \in Nat /\ l \in [1..n -> Nat] /\ z \in [1..n -> Nat] /\ \A i \in 1..n : z[i] = rs[i].unpacked
  BY RegionsTyped
<1>2. ASSUME NEW i \in 1..n PROVE p[i] \in Nat /\ p[i] <= l[i]
  <2>1. rs[i] \in Regions
    BY ElementOfSeq
  <2> DEFINE a == PayloadLen(rs[i])
             b == RegionLen(rs[i])
  <2>2. a \in Nat /\ b = HeaderSize + a
    BY <2>1, RegionTyped
  <2>3. p[i] = a /\ l[i] = b
    BY DEF Payloads, Lens
  <2> HIDE DEF a, b
  <2>4. a <= b
    BY <2>2, XorbAssumption
  <2> QED BY <2>2, <2>3, <2>4
<1>3. p \in [1..n -> Nat]
  BY <1>2 DEF Payloads
<1> HIDE DEF n, l, z, p
<1>4. SumSeq(p) <= SumSeq(l)
  BY <1>1, <1>2, <1>3, SumLeq
<1>5. SumSeq(p) \in Nat /\ SumSeq(l) \in Nat /\ SumSeq(z) \in Nat
  BY <1>1, <1>3, SumNat
<1>6. Word \in Nat /\ SumSeq(l) < Word /\ SumSeq(z) < Word
  BY XorbAssumption DEF l, z
<1>7. U32(SumSeq(p)) = SumSeq(p) /\ U32(SumSeq(z)) = SumSeq(z)
  <2>1. SumSeq(p) < Word
    BY <1>4, <1>5, <1>6
  <2> QED BY <1>5, <1>6, <2>1, SmallU32
<1>8. ASSUME NEW i \in 1..n
      PROVE  SumSeq(First(l, i - 1)) \in Nat /\ U32(SumSeq(First(l, i - 1))) = SumSeq(First(l, i - 1))
             /\ z[i] \in Nat /\ U32(z[i]) = z[i]
  <2>1. i - 1 \in 0..n /\ n \in 0..n /\ i - 1 <= n /\ i \in 0..n /\ i <= n
    BY <1>1
  <2>2. SumSeq(First(l, n)) = SumSeq(l) /\ SumSeq(First(z, n)) = SumSeq(z) /\ SumSeq(First(z, i)) = SumSeq(First(z, i - 1)) + z[i]
    <3>1. l \in [1..n -> Int] /\ z \in [1..n -> Int]
      BY <1>1
    <3> QED BY <1>1, <3>1, SumSteps
  <2>3. SumSeq(First(l, i - 1)) \in Nat /\ SumSeq(First(l, i - 1)) <= SumSeq(First(l, n))
    BY <1>1, <2>1, SumNat
  <2>4. SumSeq(First(z, i - 1)) \in Nat /\ SumSeq(First(z, i)) \in Nat /\ SumSeq(First(z, i)) <= SumSeq(First(z, n))
    BY <1>1, <2>1, SumNat
  <2>5. z[i] \in Nat
    BY <1>1
  <2> DEFINE a == SumSeq(First(l, i - 1))
             b == SumSeq(First(z, i - 1))
             c == z[i]
             d == SumSeq(l)
             e == SumSeq(z)
  <2>6. a \in Nat /\ b \in Nat /\ c \in Nat /\ d \in Nat /\ e \in Nat /\ a <= d /\ b + c <= e /\ d < Word /\ e < Word
    BY <1>5, <1>6, <2>2, <2>3, <2>4, <2>5
  <2> HIDE DEF a, b, c, d, e
  <2>7. a < Word /\ c < Word
    BY <1>6, <2>6
  <2>8. U32(a) = a /\ U32(c) = c
    BY <2>6, <2>7, SmallU32
  <2> QED BY <2>6, <2>8 DEF a, c
<1> QED BY <1>1, <1>5, <1>7, <1>8 DEF n, l, z, p

\* The entries for the chunks of a xorb, and the lookups of a list of chunks.
EntriesFor(rs) ==
  [i \in 1..Len(rs) |-> [chunk_hash |-> RegionHash(rs[i]),
                         start |-> SumSeq(First(Lens(rs), i - 1)),
                         unpacked |-> rs[i].unpacked]]
LookupsFrom(h, ps) == [i \in 1..Len(ps) |-> Lookup(DataHash(ps[i]), h, i - 1)]

\* What a shard of a conversion is parsed to.
ConvertedParse(oid, h, rs, ps) ==
  [file_entries |-> <<[file_hash |-> oid, num_entries |-> 1]>>,
   file_data_entries |-> <<[xorb_hash |-> h, unpacked |-> SumSeq(Sizes(rs)), start |-> 0, end |-> Len(ps)]>>,
   xorb_entries |-> <<[xorb_hash |-> h, num_entries |-> Len(rs),
                       in_xorb |-> SumSeq(Sizes(rs)), on_disk |-> SumSeq(Payloads(rs))]>>,
   xorb_chunk_entries |-> EntriesFor(rs),
   chunk_lookup_entries |-> LookupsFrom(h, ps)]

\* What a conversion gives to the shard builder.
LEMMA ConvertedIs ==
  ASSUME Lz4Bounded, NEW oid, NEW rs \in Seq(Regions), NEW ps \in Seq(Seq(Byte)), ps = ChunkData(ContentOf(oid)),
         SumSeq(Lens(rs)) < Word, SumSeq(Sizes(rs)) < Word
  PROVE  ConvertedShard(oid, SealedXorb(rs)) =
           BuildShard(<<[file_hash |-> oid,
                         segments |-> <<[xorb_hash |-> XorbHash(Nodes(rs)), start |-> 0, end |-> Len(ps),
                                         unpacked |-> SumSeq(Sizes(rs))]>>]>>,
                      <<[xorb_hash |-> XorbHash(Nodes(rs)), chunks |-> EntriesFor(rs),
                         in_xorb |-> SumSeq(Sizes(rs)), on_disk |-> SumSeq(Payloads(rs))]>>,
                      LookupsFrom(XorbHash(Nodes(rs)), ps))
<1> DEFINE x == SealedXorb(rs)
           info == VerifiedXorbInfo(x)
           rawh == [i \in 1..Len(ps) |-> DataHash(ps[i])]
<1>1. x.regions = rs /\ x.footer.xorb_hash = XorbHash(Nodes(rs))
  BY SealedFields
<1> HIDE DEF x
<1>2. Len(rs) \in Nat
  BY LenProperties
<1>3. ASSUME NEW i \in 1..(Len(rs) + 1)
      PROVE  /\ RegionStart(x, i) = SumSeq(First(Lens(rs), i - 1))
             /\ UnpackedBefore(x, i) = SumSeq(First(Sizes(rs), i - 1))
  BY <1>1, StartIs
<1>4. info.total_unpacked = SumSeq(Sizes(rs))
  <2>1. Len(rs) + 1 \in 1..(Len(rs) + 1) /\ (Len(rs) + 1) - 1 = Len(rs)
    BY <1>2
  <2>2. info.total_unpacked = UnpackedBefore(x, Len(rs) + 1)
    BY <1>1 DEF VerifiedXorbInfo
  <2>3. SumSeq(First(Sizes(rs), Len(rs))) = SumSeq(Sizes(rs))
    BY SizesSteps
  <2> QED BY <1>3, <2>1, <2>2, <2>3
<1>5. info.total_compressed = SumSeq(Payloads(rs))
  BY <1>1 DEF VerifiedXorbInfo, Payloads
<1> HIDE DEF info
<1>6. U32(info.total_unpacked) = SumSeq(Sizes(rs)) /\ U32(info.total_compressed) = SumSeq(Payloads(rs))
  BY <1>4, <1>5, PayloadsFit
<1>7. ConvertedEntries(x) = EntriesFor(rs)
  <2>1. ASSUME NEW i \in 1..Len(rs)
        PROVE  /\ U32(RegionStart(x, i)) = SumSeq(First(Lens(rs), i - 1))
               /\ U32(rs[i].unpacked) = rs[i].unpacked
    <3>1. i \in 1..(Len(rs) + 1)
      BY <1>2
    <3> QED BY <1>3, <3>1, PayloadsFit
  <2>2. ConvertedEntries(x) = [i \in 1..Len(rs) |-> [chunk_hash |-> RegionHash(rs[i]),
                               start |-> U32(RegionStart(x, i)), unpacked |-> U32(rs[i].unpacked)]]
    BY <1>1 DEF ConvertedEntries
  <2> QED BY <2>1, <2>2, Zenon DEF EntriesFor
<1>8. LookupsOf(XorbHash(Nodes(rs)), rawh) = LookupsFrom(XorbHash(Nodes(rs)), ps)
  <2>1. Len(ps) \in Nat
    BY LenProperties
  <2>2. Len(rawh) = Len(ps)
    BY <2>1
  <2> QED BY <2>2 DEF LookupsOf, LookupsFrom
<1> QED BY <1>1, <1>6, <1>7, <1>8, Zenon DEF ConvertedShard, x, info

\* A list of records with a header in front, as the sections of one header are.
LEMMA OneConcat ==
  ASSUME NEW c, NEW n \in Nat, NEW es, es = [i \in 1..n |-> es[i]]
  PROVE  Concat(<<(<<c>> \o es)>>) = <<c>> \o es
<1> DEFINE A == {c} \cup {es[i] : i \in 1..n}
<1>1. c \in A /\ \A i \in 1..n : es[i] \in A
  OBVIOUS
<1> HIDE DEF A
<1>2. es \in Seq(A)
  BY <1>1
<1>3. <<c>> \o es \in Seq(A)
  BY <1>1, <1>2, ConsIs
<1> QED BY <1>3, ConcatSmall

\* The records that ShardBuilder writes for one file and one xorb.
LEMMA SectionRecords ==
  ASSUME NEW F, NEW X, NEW sg, F.segments = <<sg>>, NEW n \in Nat, Len(X.chunks) = n
  PROVE  /\ FileRecords(<<F>>) = <<FileHeader(F.file_hash, 1), FileEntry(sg)>>
         /\ XorbRecords(<<X>>) = <<XorbHeader(X)>> \o [i \in 1..n |-> XorbEntry(X.chunks[i])]
<1>1. FileRecords(<<F>>) = <<FileHeader(F.file_hash, 1), FileEntry(sg)>>
  <2> DEFINE a == FileHeader(F.file_hash, Len(F.segments))
             m == Mapped(FileEntry, F.segments)
             v == <<FileEntry(sg)>>
             G(q) == <<FileHeader(q.file_hash, Len(q.segments))>> \o Mapped(FileEntry, q.segments)
  <2>1. a = FileHeader(F.file_hash, 1)
    OBVIOUS
  <2>2. m = v
    BY DEF Mapped
  <2>3. FileRecords(<<F>>) = Concat([i \in 1..Len(<<F>>) |-> G(<<F>>[i])])
    BY DEF FileRecords
  <2>4. G(F) = <<a>> \o m
    OBVIOUS
  <2> HIDE DEF G, a, m
  <2>5. [i \in 1..Len(<<F>>) |-> G(<<F>>[i])] = <<G(F)>>
    OBVIOUS
  <2>6. FileRecords(<<F>>) = Concat(<<(<<a>> \o v)>>)
    BY <2>2, <2>3, <2>4, <2>5
  <2>7. v = [i \in 1..1 |-> v[i]]
    OBVIOUS
  <2>8. Concat(<<(<<a>> \o v)>>) = <<a>> \o v
    <3> HIDE DEF v
    <3> QED BY <2>7, OneConcat
  <2>9. <<a>> \o v = <<a, FileEntry(sg)>>
    <3> DEFINE w == FileEntry(sg)
    <3> HIDE DEF w
    <3>1. <<a>> \o <<w>> = <<a, w>>
      <4> DEFINE A == {a, w}
                 x == <<w>>
                 y == <<a, w>>
      <4>1. a \in A /\ x \in Seq(A) /\ Len(x) = 1 /\ x[1] = w /\ y \in Seq(A) /\ Len(y) = 2 /\ y[1] = a /\ y[2] = w
        OBVIOUS
      <4> HIDE DEF A, x, y
      <4>2. /\ <<a>> \o x \in Seq(A) /\ Len(<<a>> \o x) = 1 + Len(x) /\ (<<a>> \o x)[1] = a
            /\ \A i \in 1..Len(x) : (<<a>> \o x)[1 + i] = x[i]
        <5>1. a \in A /\ x \in Seq(A)
          BY <4>1
        <5> QED BY <5>1, ConsIs
      <4> DEFINE z == <<a>> \o x
      <4> HIDE DEF z
      <4>3. z \in Seq(A) /\ Len(z) = 2 /\ z[1] = a /\ z[2] = w
        <5>1. 1 \in 1..Len(x) /\ 1 + 1 = 2
          BY <4>1
        <5>2. z[1 + 1] = x[1]
          BY <4>2, <5>1 DEF z
        <5> QED BY <4>1, <4>2, <5>1, <5>2 DEF z
      <4>4. \A i \in 1..Len(z) : z[i] = y[i]
        BY <4>1, <4>3
      <4>5. z = y
        BY <4>1, <4>3, <4>4, SeqEqual
      <4> QED BY <4>5 DEF z, x, y
    <3> QED BY <3>1 DEF w
  <2> QED BY <2>1, <2>6, <2>8, <2>9
<1>2. XorbRecords(<<X>>) = <<XorbHeader(X)>> \o [i \in 1..n |-> XorbEntry(X.chunks[i])]
  <2> DEFINE v == [i \in 1..n |-> XorbEntry(X.chunks[i])]
             G(q) == <<XorbHeader(q)>> \o Mapped(XorbEntry, q.chunks)
  <2>1. Mapped(XorbEntry, X.chunks) = v
    BY DEF Mapped
  <2>2. XorbRecords(<<X>>) = Concat([i \in 1..Len(<<X>>) |-> G(<<X>>[i])])
    BY DEF XorbRecords
  <2>3. G(X) = <<XorbHeader(X)>> \o v
    BY <2>1
  <2>4. v = [i \in 1..n |-> v[i]]
    OBVIOUS
  <2> HIDE DEF G, v
  <2>5. [i \in 1..Len(<<X>>) |-> G(<<X>>[i])] = <<G(X)>>
    OBVIOUS
  <2>6. XorbRecords(<<X>>) = Concat(<<(<<XorbHeader(X)>> \o v)>>)
    BY <2>2, <2>3, <2>5
  <2>7. Concat(<<(<<XorbHeader(X)>> \o v)>>) = <<XorbHeader(X)>> \o v
    BY <2>4, OneConcat
  <2> QED BY <2>6, <2>7 DEF v
<1> QED BY <1>1, <1>2

\* The shard of a conversion, built: the records and the footer.
BuiltAs(f, F, X, sg, n, ls) ==
  /\ OneFile(f, n) /\ f.lookups = ls
  /\ f.records[1] = FileHeader(F.file_hash, 1) /\ f.records[2] = FileEntry(sg)
  /\ f.records[3] = XorbHeader(X)
  /\ \A i \in 1..n : f.records[3 + i] = XorbEntry(X.chunks[i])

\* ShardBuilder makes of them a shard of this form.
LEMMA BuiltOneFile ==
  ASSUME NEW F, NEW X, NEW sg, F.segments = <<sg>>, NEW n \in Nat, Len(X.chunks) = n,
         NEW ls, Len(ls) = n, (ls = << >>) <=> (n = 0),
         sg.unpacked \in Nat,
         \A i \in 1..n : X.chunks[i].unpacked \in Nat
  PROVE  BuiltAs(BuildShard(<<F>>, <<X>>, ls), F, X, sg, n, ls)
<1> DEFINE f == BuildShard(<<F>>, <<X>>, ls)
           a == FileHeader(F.file_hash, 1)
           b == FileEntry(sg)
           c == XorbHeader(X)
           es == [i \in 1..n |-> XorbEntry(X.chunks[i])]
           R == <<a, b>> \o (<<c>> \o es)
<1>1. FileRecords(<<F>>) = <<a, b>> /\ XorbRecords(<<X>>) = <<c>> \o es
  BY SectionRecords
<1>2. es = [i \in 1..n |-> es[i]] /\ \A i \in 1..n : es[i] = XorbEntry(X.chunks[i])
  OBVIOUS
<1>3. a.b = 1 /\ b.b = sg.unpacked /\ c.b = n /\ \A i \in 1..n : XorbEntry(X.chunks[i]).b = X.chunks[i].unpacked
  BY DEF FileHeader, FileEntry, XorbHeader, XorbEntry, Record
<1> HIDE DEF a, b, c, es
<1>4. /\ IsList(R) /\ Len(R) = 3 + n /\ Len(<<c>> \o es) = 1 + n
      /\ R[1] = a /\ R[2] = b /\ R[3] = c /\ \A i \in 1..n : R[3 + i] = es[i]
  BY <1>2, RecordsAre
<1>5. Len(FileRecords(<<F>>)) = 2 /\ Len(XorbRecords(<<X>>)) = 1 + n
  BY <1>1, <1>4
<1>6. f.header = ShardHeader /\ f.records = R /\ f.lookups = ls /\ f.footer = BuildFooter(<<F>>, <<X>>, ls)
  BY <1>1 DEF BuildShard
<1>7. /\ f.footer.version = 2
      /\ f.footer.file_info_offset = 48 /\ f.footer.file_lookup_offset = 144
      /\ f.footer.file_lookup_num_entry = 1
      /\ f.footer.xorb_info_offset = 144 /\ f.footer.xorb_lookup_offset = 192 + 48 * n
      /\ f.footer.xorb_lookup_num_entry = 1
      /\ f.footer.chunk_lookup_offset = (IF n = 0 THEN 0 ELSE 192 + 48 * n)
      /\ f.footer.chunk_lookup_num_entry = n
      /\ f.footer.footer_offset = 192 + 48 * n + 68 * n
  <2> DEFINE p == Len(FileRecords(<<F>>))
             q == Len(XorbRecords(<<X>>))
             xa == 48 + 48 * p
             la == xa + 48 * q
             fa == la + 68 * Len(ls)
             B == BuildFooter(<<F>>, <<X>>, ls)
  <2>1. xa = 144 /\ la = 192 + 48 * n /\ fa = 192 + 48 * n + 68 * n
    <3> HIDE DEF p, q
    <3>1. p = 2 /\ q = 1 + n
      BY <1>5 DEF p, q
    <3> QED BY <3>1
  <2>2. <<F>> # << >> /\ <<X>> # << >> /\ Len(<<F>>) = 1 /\ Len(<<X>>) = 1
    OBVIOUS
  <2>3. /\ B.version = 2
        /\ B.file_info_offset = 48 /\ B.file_lookup_offset = xa /\ B.file_lookup_num_entry = 1
        /\ B.xorb_info_offset = xa /\ B.xorb_lookup_offset = la /\ B.xorb_lookup_num_entry = 1
        /\ B.chunk_lookup_offset = (IF ls = << >> THEN 0 ELSE la) /\ B.chunk_lookup_num_entry = Len(ls)
        /\ B.footer_offset = fa
    BY <2>2 DEF BuildFooter, ShardHeaderSize, RecordSize, LookupSize
  <2> HIDE DEF xa, la, fa, B
  <2> QED BY <1>6, <2>1, <2>3, ZenonT(60) DEF B
<1> HIDE DEF f, R
<1>8. RecordsTyped(f)
  <2>1. ASSUME NEW i \in 1..(3 + n) PROVE R[i].b \in Nat
    <3>1. CASE i <= 3
      <4>1. i = 1 \/ i = 2 \/ i = 3
        BY <3>1
      <4> QED BY <1>3, <1>4, <4>1
    <3>2. CASE i > 3
      <4> DEFINE k == i - 3
      <4>1. k \in 1..n /\ i = 3 + k
        BY <3>2
      <4> HIDE DEF k
      <4> QED BY <1>2, <1>3, <1>4, <4>1
    <3> QED BY <3>1, <3>2
  <2> QED BY <1>4, <1>6, <2>1 DEF RecordsTyped
<1>9. OneFile(f, n)
  BY <1>3, <1>4, <1>6, <1>7, <1>8 DEF OneFile
<1> QED BY <1>2, <1>4, <1>6, <1>9 DEF BuiltAs, f, a, b, c

\* A conversion's shard parses, and to what the conversion meant.
LEMMA ConvertedParses ==
  ASSUME Lz4Bounded, NEW oid, NEW rs \in Seq(Regions), NEW ps \in Seq(Seq(Byte)), ps = ChunkData(ContentOf(oid)),
         Len(rs) = Len(ps), SumSeq(Lens(rs)) < Word, SumSeq(Sizes(rs)) < Word
  PROVE  LET f == ConvertedShard(oid, SealedXorb(rs))
         IN  /\ Framed(f) /\ Parses(f) /\ Parse(f) = ConvertedParse(oid, XorbHash(Nodes(rs)), rs, ps)
             /\ f.lookups = LookupsFrom(XorbHash(Nodes(rs)), ps)
<1> DEFINE n == Len(ps)
           h == XorbHash(Nodes(rs))
           u == SumSeq(Sizes(rs))
           w == SumSeq(Payloads(rs))
           E == EntriesFor(rs)
           ls == LookupsFrom(h, ps)
           sg == [xorb_hash |-> h, start |-> 0, end |-> n, unpacked |-> u]
           F == [file_hash |-> oid, segments |-> <<sg>>]
           X == [xorb_hash |-> h, chunks |-> E, in_xorb |-> u, on_disk |-> w]
           f == ConvertedShard(oid, SealedXorb(rs))
<1>1. f = BuildShard(<<F>>, <<X>>, ls)
  BY ConvertedIs
<1>2. n \in Nat /\ Len(rs) = n
  BY LenProperties
<1>3. Len(E) = n /\ \A i \in 1..n : E[i].unpacked = rs[i].unpacked
  BY <1>2 DEF EntriesFor
<1>4. u \in Nat /\ \A i \in 1..n : rs[i].unpacked \in Nat
  BY <1>2, PayloadsFit
<1>5. Len(ls) = n /\ ((ls = << >>) <=> (n = 0)) /\ ls = [i \in 1..n |-> ls[i]]
  BY <1>2 DEF LookupsFrom
<1>6. F.segments = <<sg>> /\ F.file_hash = oid /\ Len(X.chunks) = n /\ sg.unpacked \in Nat /\ X.chunks = E
      /\ \A i \in 1..n : X.chunks[i].unpacked \in Nat
  BY <1>3, <1>4
<1>7. /\ FileEntry(sg) = Record(h, 0, u, 0, n)
      /\ XorbHeader(X) = Record(h, 0, n, u, w)
      /\ \A i \in 1..n : XorbEntry(E[i]) = Record(E[i].chunk_hash, E[i].start, E[i].unpacked, 0, 0)
  BY <1>3 DEF FileEntry, XorbHeader, XorbEntry
<1>8. /\ OneFile(f, n) /\ f.lookups = ls
      /\ f.records[1] = FileHeader(oid, 1) /\ f.records[2] = FileEntry(sg)
      /\ f.records[3] = XorbHeader(X)
      /\ \A i \in 1..n : f.records[3 + i] = XorbEntry(E[i])
  <2> HIDE DEF F, X, sg, n, ls, f, E
  <2>1. BuiltAs(BuildShard(<<F>>, <<X>>, ls), F, X, sg, n, ls)
    BY <1>2, <1>5, <1>6, BuiltOneFile
  <2>2. BuiltAs(f, F, X, sg, n, ls)
    BY <1>1, <2>1, Zenon
  <2> QED BY <1>6, <2>2, Zenon DEF BuiltAs
<1> HIDE DEF f, ls, X, F, sg
<1>9. /\ Parses(f)
      /\ FileSectionAt(f) = <<48>> /\ XorbSectionAt(f) = <<144>>
      /\ Headers(f, <<48>>) = <<f.records[1]>> /\ Headers(f, <<144>>) = <<f.records[3]>>
      /\ Entries(f, <<48>>) = [i \in 1..1 |-> f.records[1 + i]]
      /\ Entries(f, <<144>>) = [i \in 1..n |-> f.records[3 + i]]
  <2> HIDE DEF n
  <2> QED BY <1>2, <1>8, OneFileParses, ZenonT(60)
<1>10. Parse(f) = ConvertedParse(oid, h, rs, ps)
  <2>1. Mapped(ReadFileHeader, Headers(f, FileSectionAt(f))) = <<[file_hash |-> oid, num_entries |-> 1]>>
    <3>1. ReadFileHeader(FileHeader(oid, 1)) = [file_hash |-> oid, num_entries |-> 1]
      BY DEF ReadFileHeader, FileHeader, Record
    <3>2. Headers(f, FileSectionAt(f)) = <<FileHeader(oid, 1)>>
      BY <1>8, <1>9
    <3> QED BY <3>1, <3>2 DEF Mapped
  <2>2. Mapped(ReadFileEntry, Entries(f, FileSectionAt(f))) = <<[xorb_hash |-> h, unpacked |-> u, start |-> 0, end |-> n]>>
    <3>1. ReadFileEntry(Record(h, 0, u, 0, n)) = [xorb_hash |-> h, unpacked |-> u, start |-> 0, end |-> n]
      BY DEF ReadFileEntry, Record
    <3>2. Entries(f, FileSectionAt(f)) = [i \in 1..1 |-> f.records[1 + i]] /\ f.records[2] = Record(h, 0, u, 0, n)
      BY <1>7, <1>8, <1>9
    <3>3. [i \in 1..1 |-> f.records[1 + i]] = <<f.records[2]>>
      OBVIOUS
    <3>4. Entries(f, FileSectionAt(f)) = <<Record(h, 0, u, 0, n)>>
      BY <3>2, <3>3
    <3> QED BY <3>1, <3>4 DEF Mapped
  <2>3. Mapped(ReadXorbHeader, Headers(f, XorbSectionAt(f)))
          = <<[xorb_hash |-> h, num_entries |-> n, in_xorb |-> u, on_disk |-> w]>>
    <3>1. ReadXorbHeader(Record(h, 0, n, u, w)) = [xorb_hash |-> h, num_entries |-> n, in_xorb |-> u, on_disk |-> w]
      BY DEF ReadXorbHeader, Record
    <3>2. Headers(f, XorbSectionAt(f)) = <<Record(h, 0, n, u, w)>>
      BY <1>7, <1>8, <1>9
    <3> QED BY <3>1, <3>2 DEF Mapped
  <2>4. Mapped(ReadXorbEntry, Entries(f, XorbSectionAt(f))) = E
    <3> DEFINE e == [i \in 1..n |-> f.records[3 + i]]
    <3>1. Entries(f, XorbSectionAt(f)) = e /\ Len(e) = n /\ \A i \in 1..n : e[i] = XorbEntry(E[i])
      BY <1>2, <1>8, <1>9
    <3>2. Mapped(ReadXorbEntry, e) = [i \in 1..n |-> ReadXorbEntry(e[i])]
      BY <3>1 DEF Mapped
    <3>3. ASSUME NEW i \in 1..n PROVE ReadXorbEntry(XorbEntry(E[i])) = E[i]
      <4>1. E[i] = [chunk_hash |-> E[i].chunk_hash, start |-> E[i].start, unpacked |-> E[i].unpacked]
        BY <1>2 DEF EntriesFor
      <4>2. ReadXorbEntry(XorbEntry(E[i])) = [chunk_hash |-> E[i].chunk_hash, start |-> E[i].start, unpacked |-> E[i].unpacked]
        BY DEF ReadXorbEntry, XorbEntry, Record
      <4> QED BY <4>1, <4>2, Zenon
    <3>4. \A i \in 1..n : ReadXorbEntry(e[i]) = E[i]
      BY <3>1, <3>3, Zenon
    <3>5. E = [i \in 1..n |-> E[i]]
      BY <1>2 DEF EntriesFor
    <3> HIDE DEF e, E
    <3>6. [i \in 1..n |-> ReadXorbEntry(e[i])] = [i \in 1..n |-> E[i]]
      BY <3>4, Zenon
    <3> QED BY <3>1, <3>2, <3>5, <3>6, Zenon
  <2> HIDE DEF E, u, w, h, n
  <2> QED BY <1>2, <1>8, <2>1, <2>2, <2>3, <2>4, Zenon DEF Parse, ConvertedParse, E, u, w, h, n, ls
<1>11. Framed(f)
  <2> HIDE DEF n
  <2>1. RecordsTyped(f) /\ RecordsEnd(f) = 192 + 48 * n
    BY <1>2, <1>8 DEF OneFile, RecordsEnd, ShardHeaderSize, RecordSize
  <2>2. /\ f.footer.file_info_offset = 48 /\ f.footer.file_lookup_offset = 144
        /\ f.footer.xorb_info_offset = 144 /\ f.footer.xorb_lookup_offset = 192 + 48 * n
    BY <1>8 DEF OneFile
  <2>3. XorbSectionEnd(f) = 192 + 48 * n
    BY <2>2 DEF XorbSectionEnd, SectionEnd
  <2>4. 192 + 48 * n \in Nat
    BY <1>2
  <2> QED BY <1>9, <2>1, <2>2, <2>3, <2>4 DEF Framed
<1> QED BY <1>8, <1>9, <1>10, <1>11 DEF f, ls, h

\* Where region k of a xorb starts no other does.
LEMMA RegionAtStart ==
  ASSUME Lz4Bounded, NEW x, x.regions \in Seq(Regions), NEW k \in 1..Len(x.regions)
  PROVE  RegionsAt(x, SumSeq(First(Lens(x.regions), k - 1))) = {k}
<1> DEFINE rs == x.regions
           n == Len(rs)
           L(i) == SumSeq(First(Lens(rs), i))
<1>1. n \in Nat
  BY LenProperties
<1>2. ASSUME NEW i \in 1..n PROVE RegionStart(x, i) = L(i - 1) /\ (L(i - 1) = L(k - 1) => i = k)
  <2>1. i \in 1..(n + 1)
    BY <1>1
  <2>2. RegionStart(x, i) = L(i - 1)
    BY <2>1, StartIs
  <2>3. i - 1 \in 0..n /\ k - 1 \in 0..n
    BY <1>1
  <2>4. \A a, b \in 0..n : a < b => L(a) < L(b)
    BY StartsGrow
  <2>5. \A a \in 0..n : L(a) \in Nat
    BY LensSteps
  <2> HIDE DEF L
  <2>6. ASSUME L(i - 1) = L(k - 1) PROVE i = k
    <3> DEFINE a == i - 1
               b == k - 1
    <3>1. a \in 0..n /\ b \in 0..n /\ L(a) = L(b) /\ L(a) \in Nat /\ L(b) \in Nat
      BY <2>3, <2>5, <2>6
    <3>2. ~(a < b) /\ ~(b < a)
      <4> HIDE DEF a, b
      <4>1. a < b => L(a) < L(b)
        BY <2>4, <3>1
      <4>2. b < a => L(b) < L(a)
        BY <2>4, <3>1
      <4> DEFINE u == L(a)
                 v == L(b)
      <4>3. u = v /\ u \in Nat /\ v \in Nat /\ (a < b => u < v) /\ (b < a => v < u)
        BY <3>1, <4>1, <4>2
      <4> HIDE DEF u, v
      <4> QED BY <4>3
    <3> QED BY <3>2
  <2> QED BY <2>2, <2>6
<1> HIDE DEF L
<1>3. \A i \in 1..n : i \in RegionsAt(x, L(k - 1)) <=> i = k
  BY <1>2 DEF RegionsAt
<1>4. RegionsAt(x, L(k - 1)) \subseteq 1..n
  BY DEF RegionsAt
<1>5. RegionsAt(x, L(k - 1)) = {k}
  BY <1>3, <1>4
<1> QED BY <1>5 DEF L

\* All of a list.
LEMMA TakenAll ==
  ASSUME NEW s, Listed(s), NEW n \in Nat, Len(s) = n
  PROVE  SubSeq(s, 0 + 1, n) = s
<1>1. PICK Q : s \in Seq(Q)
  BY DEF Listed
<1>2. 0 \in Nat /\ 0 <= n /\ n <= Len(s) /\ n - 0 = n /\ \A k \in 1..n : 0 + k = k
  OBVIOUS
<1> DEFINE t == SubSeq(s, 0 + 1, n)
<1>3. t \in Seq(Q) /\ Len(t) = n - 0 /\ \A k \in 1..(n - 0) : t[k] = s[0 + k]
  BY <1>1, <1>2, Taken
<1> HIDE DEF t
<1>4. Len(t) = n /\ \A k \in 1..n : t[k] = s[k]
  <2>1. ASSUME NEW k \in 1..n PROVE t[k] = s[k]
    <3>1. k \in 1..(n - 0) /\ 0 + k = k
      BY <1>2
    <3>2. t[k] = s[0 + k]
      BY <1>3, <3>1
    <3> QED BY <3>1, <3>2
  <2> QED BY <1>2, <1>3, <2>1
<1>5. t = s
  BY <1>1, <1>3, <1>4, SeqEqual
<1> QED BY <1>5 DEF t

\* The plan of the file of a conversion.
ConvertedPlan(h, rs, ps) ==
  [k \in 1..Len(ps) |->
     [xorb_hash |-> h, chunk_index |-> k - 1, start |-> SumSeq(First(Lens(rs), k - 1)),
      unpacked |-> rs[k].unpacked, serialized_hash |-> RegionHash(rs[k]), raw_hash |-> DataHash(ps[k])]]

\* The shard of a conversion can be planned.
LEMMA ConvertedPlans ==
  ASSUME Lz4Bounded, NEW oid, NEW h, NEW rs \in Seq(Regions), NEW ps \in Seq(Seq(Byte)), Len(rs) = Len(ps)
  PROVE  LET P == ConvertedParse(oid, h, rs, ps)
         IN  /\ ParseTyped(P) /\ Len(P.file_entries) = 1 /\ Len(P.xorb_entries) = 1
             /\ EntriesBefore(P.xorb_entries, 2) = Len(ps) /\ Len(P.xorb_chunk_entries) = Len(ps)
             /\ XorbChunks(P, 1) = EntriesFor(rs)
             /\ Plans(P, oid, 1) /\ Plan(P, 1) = ConvertedPlan(h, rs, ps)
<1> DEFINE P == ConvertedParse(oid, h, rs, ps)
           n == Len(ps)
           u == SumSeq(Sizes(rs))
           w == SumSeq(Payloads(rs))
           E == EntriesFor(rs)
           ls == LookupsFrom(h, ps)
           fe == <<[file_hash |-> oid, num_entries |-> 1]>>
           sg == [xorb_hash |-> h, unpacked |-> u, start |-> 0, end |-> n]
           xe == <<[xorb_hash |-> h, num_entries |-> n, in_xorb |-> u, on_disk |-> w]>>
<1>1. n \in Nat /\ Len(rs) = n
  BY LenProperties
<1>2. /\ P.file_entries = fe /\ P.file_data_entries = <<sg>> /\ P.xorb_entries = xe
      /\ P.xorb_chunk_entries = E /\ P.chunk_lookup_entries = ls
  BY <1>1 DEF ConvertedParse
<1>3. /\ Len(E) = n /\ E = [i \in 1..n |-> E[i]]
      /\ \A i \in 1..n : E[i] = [chunk_hash |-> RegionHash(rs[i]), start |-> SumSeq(First(Lens(rs), i - 1)), unpacked |-> rs[i].unpacked]
  BY <1>1 DEF EntriesFor
<1>4. /\ Len(ls) = n /\ ls = [i \in 1..n |-> ls[i]]
      /\ \A i \in 1..n : ls[i] = [chunk_hash |-> DataHash(ps[i]), xorb_hash |-> h, chunk_index |-> i - 1]
  BY <1>1 DEF LookupsFrom, Lookup
<1>5. /\ Len(fe) = 1 /\ fe[1].num_entries = 1 /\ fe[1].file_hash = oid
      /\ Len(xe) = 1 /\ xe[1].num_entries = n /\ xe[1].xorb_hash = h
      /\ Len(<<sg>>) = 1 /\ <<sg>>[1] = sg /\ sg.start = 0 /\ sg.end = n /\ sg.unpacked = u /\ sg.xorb_hash = h
  OBVIOUS
<1>6. Listed(fe) /\ Listed(<<sg>>) /\ Listed(xe) /\ Listed(E) /\ Listed(ls)
  <2>1. ASSUME NEW v PROVE Listed(<<v>>)
    <3>1. <<v>> \in Seq({v})
      OBVIOUS
    <3> QED BY <3>1 DEF Listed
  <2> QED BY <1>1, <1>3, <1>4, <2>1, ListedFcn
<1> HIDE DEF P, E, ls, sg, fe, xe
<1>7. ParseTyped(P)
  BY <1>1, <1>2, <1>5, <1>6 DEF ParseTyped
<1>8. /\ EntriesBefore(fe, 1) = 0 /\ EntriesBefore(fe, 2) = 1
      /\ EntriesBefore(xe, 1) = 0 /\ EntriesBefore(xe, 2) = n
  <2>1. \A i \in 1..Len(fe) : fe[i].num_entries \in Nat
    BY <1>5
  <2>2. \A i \in 1..Len(xe) : xe[i].num_entries \in Nat
    BY <1>1, <1>5
  <2>3. EntriesBefore(fe, 1) = 0 /\ \A i \in 1..Len(fe) : EntriesBefore(fe, i + 1) = EntriesBefore(fe, i) + fe[i].num_entries
    BY <1>6, <2>1, EntriesSteps
  <2>4. EntriesBefore(xe, 1) = 0 /\ \A i \in 1..Len(xe) : EntriesBefore(xe, i + 1) = EntriesBefore(xe, i) + xe[i].num_entries
    BY <1>6, <2>2, EntriesSteps
  <2>5. 1 \in 1..Len(fe) /\ 1 \in 1..Len(xe) /\ 1 + 1 = 2
    BY <1>5
  <2>6. EntriesBefore(fe, 2) = 0 + 1 /\ EntriesBefore(xe, 2) = 0 + n
    BY <1>5, <2>3, <2>4, <2>5
  <2> QED BY <1>1, <2>3, <2>4, <2>6
<1>9. XorbChunks(P, 1) = E
  <2>1. XorbChunks(P, 1) = SubSeq(E, 0 + 1, n)
    BY <1>2, <1>8 DEF XorbChunks
  <2>2. SubSeq(E, 0 + 1, n) = E
    <3> HIDE DEF n
    <3> QED BY <1>1, <1>3, <1>6, TakenAll
  <2> QED BY <2>1, <2>2
<1>10. Segments(P, 1) = <<sg>>
  <2>0. 1 + 1 = 2
    OBVIOUS
  <2>1. Segments(P, 1) = SubSeq(<<sg>>, 0 + 1, 1)
    BY <1>2, <1>8, <2>0, Zenon DEF Segments
  <2>2. SubSeq(<<sg>>, 0 + 1, 1) = <<sg>>
    <3> DEFINE v == <<sg>>
    <3>1. Listed(v) /\ Len(v) = 1
      BY <1>5, <1>6
    <3> HIDE DEF v
    <3>2. SubSeq(v, 0 + 1, 1) = v
      BY <3>1, TakenAll
    <3> QED BY <3>2 DEF v
  <2> QED BY <2>1, <2>2
<1>11. XorbNumber(P, h) = 1
  <2>1. XorbNumber(P, h) = CHOOSE i \in 1..1 : xe[i].xorb_hash = h
    BY <1>2, <1>5 DEF XorbNumber
  <2>2. \E i \in 1..1 : xe[i].xorb_hash = h
    BY <1>5
  <2> QED BY <2>1, <2>2
<1>12. ASSUME NEW k \in 1..n PROVE LookupsFor(P, h, k - 1) = {k}
  <2>1. \A i \in 1..n : ls[i].xorb_hash = h /\ ls[i].chunk_index = i - 1
    BY <1>4
  <2>2. \A i \in 1..n : i - 1 = k - 1 <=> i = k
    BY <1>1
  <2>3. LookupsFor(P, h, k - 1) = {i \in 1..n : ls[i].xorb_hash = h /\ ls[i].chunk_index = k - 1}
    BY <1>2, <1>4 DEF LookupsFor
  <2> QED BY <2>1, <2>2, <2>3
<1>13. TablesPlan(P)
  <2>1. \A i, j \in 1..Len(xe) : xe[i].xorb_hash = xe[j].xorb_hash => i = j
    BY <1>5
  <2>2. EntriesBefore(xe, Len(xe) + 1) <= Len(E)
    <3>1. Len(xe) + 1 = 2 /\ n <= n
      BY <1>1, <1>5
    <3> QED BY <1>3, <1>8, <3>1
  <2>3. \A i, j \in 1..Len(ls) : ls[i].chunk_index = ls[j].chunk_index => i = j
    <3>1. \A i \in 1..n : ls[i].chunk_index = i - 1
      BY <1>4
    <3> HIDE DEF n
    <3> QED BY <1>1, <1>4, <3>1
  <2> QED BY <1>2, <2>1, <2>2, <2>3 DEF TablesPlan
<1>14. SegmentPlans(P, sg)
  <2>1. sg.start <= sg.end
    BY <1>1, <1>5
  <2>2. \E i \in 1..Len(P.xorb_entries) : P.xorb_entries[i].xorb_hash = sg.xorb_hash
    BY <1>2, <1>5
  <2>3. XorbChunks(P, XorbNumber(P, sg.xorb_hash)) = E
    BY <1>5, <1>9, <1>11
  <2>4. sg.end <= Len(E)
    BY <1>1, <1>3, <1>5
  <2>5. ASSUME NEW k \in sg.start..(sg.end - 1) PROVE LookupsFor(P, sg.xorb_hash, k) # {}
    <3>1. k + 1 \in 1..n /\ (k + 1) - 1 = k
      BY <1>1, <1>5
    <3>2. LookupsFor(P, h, (k + 1) - 1) = {k + 1}
      BY <1>12, <3>1
    <3> QED BY <1>5, <3>1, <3>2
  <2>6. SumSeq([k \in 1..(sg.end - sg.start) |-> E[sg.start + k].unpacked]) = sg.unpacked
    <3>1. sg.end - sg.start = n /\ \A k \in 1..n : sg.start + k = k
      BY <1>1, <1>5
    <3>2. \A k \in 1..n : E[k].unpacked = rs[k].unpacked
      BY <1>3
    <3>3. [k \in 1..(sg.end - sg.start) |-> E[sg.start + k].unpacked] = Sizes(rs)
      BY <1>1, <3>1, <3>2 DEF Sizes
    <3> QED BY <1>5, <3>3
  <2> QED BY <2>1, <2>2, <2>3, <2>4, <2>5, <2>6 DEF SegmentPlans
<1>15. Plans(P, oid, 1)
  <2>1. 1 <= Len(P.file_entries) /\ P.file_entries[1].file_hash = oid
    BY <1>2, <1>5
  <2>2. EntriesBefore(P.file_entries, 1 + 1) <= Len(P.file_data_entries)
    BY <1>2, <1>5, <1>8
  <2>3. \A i \in 1..Len(Segments(P, 1)) : SegmentPlans(P, Segments(P, 1)[i])
    BY <1>5, <1>10, <1>14
  <2> QED BY <1>13, <2>1, <2>2, <2>3 DEF Plans
<1>16. PlannedChunks(P, sg) = ConvertedPlan(h, rs, ps)
  <2>1. sg.end - sg.start = n
    BY <1>1, <1>5
  <2>2. ASSUME NEW k \in 1..n
        PROVE  /\ sg.start + k = k /\ sg.start + k - 1 = k - 1
               /\ (CHOOSE l \in LookupsFor(P, sg.xorb_hash, sg.start + k - 1) : TRUE) = k
               /\ ls[k].chunk_hash = DataHash(ps[k])
    <3>1. sg.start + k = k /\ sg.start + k - 1 = k - 1
      BY <1>1, <1>5
    <3>2. LookupsFor(P, sg.xorb_hash, sg.start + k - 1) = {k}
      BY <1>5, <1>12, <3>1
    <3>3. (CHOOSE l \in {k} : TRUE) = k
      OBVIOUS
    <3> QED BY <1>4, <3>1, <3>2, <3>3
  <2>3. PlannedChunks(P, sg) =
          [k \in 1..n |-> [xorb_hash |-> h, chunk_index |-> k - 1, start |-> E[k].start, unpacked |-> E[k].unpacked,
                           serialized_hash |-> E[k].chunk_hash, raw_hash |-> ls[k].chunk_hash]]
    BY <1>2, <1>5, <1>9, <1>11, <2>1, <2>2, ZenonT(60) DEF PlannedChunks
  <2>4. \A k \in 1..n : /\ E[k].start = SumSeq(First(Lens(rs), k - 1)) /\ E[k].unpacked = rs[k].unpacked
                        /\ E[k].chunk_hash = RegionHash(rs[k]) /\ ls[k].chunk_hash = DataHash(ps[k])
    BY <1>3, <2>2
  <2> QED BY <2>3, <2>4, Zenon DEF ConvertedPlan
<1>17. Plan(P, 1) = ConvertedPlan(h, rs, ps)
  <2> DEFINE c == ConvertedPlan(h, rs, ps)
             G(q) == PlannedChunks(P, q)
  <2>1. Plan(P, 1) = Concat([i \in 1..Len(<<sg>>) |-> G(<<sg>>[i])])
    BY <1>10 DEF Plan
  <2>2. G(sg) = c
    BY <1>16
  <2>3. c = [i \in 1..n |-> c[i]]
    BY DEF ConvertedPlan
  <2> HIDE DEF G, c
  <2>4. [i \in 1..Len(<<sg>>) |-> G(<<sg>>[i])] = <<G(sg)>>
    OBVIOUS
  <2>5. PICK Q : c \in Seq(Q)
    <3>1. Listed(c)
      <4> HIDE DEF n
      <4> QED BY <1>1, <2>3, ListedFcn
    <3> QED BY <3>1 DEF Listed
  <2>6. Concat(<<c>>) = c
    BY <2>5, ConcatSmall
  <2> QED BY <2>1, <2>2, <2>4, <2>6 DEF c
<1> QED BY <1>2, <1>3, <1>5, <1>7, <1>8, <1>9, <1>15, <1>17 DEF P, E

\* What the verification reports of a sealed xorb.
LEMMA SealedInfo ==
  ASSUME Lz4Bounded, NEW rs \in Seq(Regions)
  PROVE  /\ VerifiedXorbInfo(SealedXorb(rs)).xorb_hash = XorbHash(Nodes(rs))
         /\ Len(VerifiedXorbInfo(SealedXorb(rs)).chunks) = Len(rs)
         /\ VerifiedXorbInfo(SealedXorb(rs)).total_unpacked = SumSeq(Sizes(rs))
         /\ VerifiedXorbInfo(SealedXorb(rs)).total_compressed = SumSeq(Payloads(rs))
         /\ \A k \in 1..Len(rs) :
              /\ VerifiedXorbInfo(SealedXorb(rs)).chunks[k].hash = RegionHash(rs[k])
              /\ VerifiedXorbInfo(SealedXorb(rs)).chunks[k].start = SumSeq(First(Lens(rs), k - 1))
              /\ VerifiedXorbInfo(SealedXorb(rs)).chunks[k].unpacked_len = rs[k].unpacked
<1> DEFINE x == SealedXorb(rs)
           info == VerifiedXorbInfo(x)
           n == Len(rs)
           L(i) == SumSeq(First(Lens(rs), i))
<1>1. n \in Nat
  BY LenProperties
<1>2. /\ x.regions = rs /\ x.footer.xorb_hash = XorbHash(Nodes(rs))
      /\ x.footer.chunk_hashes = [i \in 1..n |-> RegionHash(rs[i])]
      /\ x.footer.chunk_boundary_offsets = [i \in 1..n |-> L(i)]
  BY DEF SealedXorb, Xorb, Footer
<1> HIDE DEF x
<1>3. Len(x.footer.chunk_hashes) = n
  BY <1>1, <1>2
<1>4. info.total_unpacked = SumSeq(Sizes(rs))
  <2>1. n + 1 \in 1..(n + 1) /\ (n + 1) - 1 = n
    BY <1>1
  <2>2. info.total_unpacked = UnpackedBefore(x, n + 1)
    BY <1>2 DEF VerifiedXorbInfo
  <2>3. UnpackedBefore(x, n + 1) = SumSeq(First(Sizes(rs), (n + 1) - 1))
    BY <1>2, <2>1, StartIs
  <2>4. SumSeq(First(Sizes(rs), n)) = SumSeq(Sizes(rs))
    BY SizesSteps
  <2> QED BY <2>1, <2>2, <2>3, <2>4
<1>5. info.total_compressed = SumSeq(Payloads(rs)) /\ info.xorb_hash = XorbHash(Nodes(rs))
  BY <1>2 DEF VerifiedXorbInfo, Payloads
<1>6. info.chunks = [i \in 1..n |-> [hash |-> x.footer.chunk_hashes[i], start |-> FooterEnd(x, i - 1), unpacked_len |-> rs[i].unpacked]]
  BY <1>2, <1>3 DEF VerifiedXorbInfo
<1> HIDE DEF info
<1>7. ASSUME NEW k \in 1..n PROVE FooterEnd(x, k - 1) = L(k - 1)
  <2>1. CASE k = 1
    <3>1. k - 1 = 0 /\ FooterEnd(x, 0) = 0
      BY <2>1 DEF FooterEnd
    <3>2. L(0) = 0
      BY LensSteps
    <3> QED BY <3>1, <3>2
  <2>2. CASE k # 1
    <3>1. k - 1 # 0 /\ k - 1 \in 1..n
      BY <1>1, <2>2
    <3>2. FooterEnd(x, k - 1) = x.footer.chunk_boundary_offsets[k - 1]
      BY <3>1 DEF FooterEnd
    <3> HIDE DEF L
    <3> QED BY <1>2, <3>1, <3>2
  <2> QED BY <2>1, <2>2
<1>8. ASSUME NEW k \in 1..n
      PROVE  /\ info.chunks[k].hash = RegionHash(rs[k])
             /\ info.chunks[k].start = L(k - 1)
             /\ info.chunks[k].unpacked_len = rs[k].unpacked
  <2> HIDE DEF L
  <2>1. x.footer.chunk_hashes[k] = RegionHash(rs[k])
    BY <1>2
  <2>2. info.chunks[k] = [hash |-> x.footer.chunk_hashes[k], start |-> FooterEnd(x, k - 1), unpacked_len |-> rs[k].unpacked]
    BY <1>6
  <2> QED BY <1>7, <2>1, <2>2
<1>9. Len(info.chunks) = n
  BY <1>1, <1>6
<1> QED BY <1>4, <1>5, <1>8, <1>9 DEF info, x

\* A shard of a conversion passes the validation that the conversion leaves
\* out, and its file is the content.
LEMMA ConvertedValid ==
  ASSUME Lz4Bounded, NEW oid \in Oids, NEW s \in Schemes, NEW ps, ps = ChunkData(ContentOf(oid)),
         NEW rs, rs = PackedRegions(s, ps), Len(rs) <= MaxChunks,
         NEW h, h = XorbHash(Nodes(rs)), NEW X, h \in DOMAIN X, X[h] = SealedXorb(rs)
  PROVE  LET P == ConvertedParse(oid, h, rs, ps)
         IN  /\ ValidIn(X, P) /\ ParseTyped(P)
             /\ Len(P.file_entries) = 1 /\ P.file_entries[1].file_hash = oid
             /\ Len(Concat(BytesIn(X, Plan(P, 1)))) = Len(ContentOf(oid))
             /\ P.chunk_lookup_entries = LookupsFrom(h, ps)
             /\ \A k \in 1..Len(ps) :
                  /\ k <= Len(rs)
                  /\ Decompresses(rs[k].scheme, rs[k].payload, rs[k].unpacked)
                  /\ DataHash(Decompress(rs[k].scheme, rs[k].payload)) = DataHash(ps[k])
<1> DEFINE P == ConvertedParse(oid, h, rs, ps)
           d == ContentOf(oid)
           n == Len(ps)
           x == SealedXorb(rs)
           E == EntriesFor(rs)
           pl == ConvertedPlan(h, rs, ps)
<1>1. d \in Seq(Byte) /\ oid \in {Sha256(d), Blake3(d)}
  BY StoreAssumption DEF ContentOf
<1>2. ps \in Seq(Seq(Byte)) /\ Concat(ps) = d
  BY <1>1, ChunksAreContent
<1>3. /\ rs \in Seq(Regions) /\ Len(rs) = n /\ n \in Nat
      /\ \A i \in 1..n : ps[i] \in Seq(Byte) /\ rs[i] = PackedRegion(s, ps[i])
  BY <1>2, PackedTyped
<1>4. /\ ParseTyped(P) /\ Len(P.file_entries) = 1 /\ Len(P.xorb_entries) = 1
      /\ EntriesBefore(P.xorb_entries, 2) = n /\ Len(P.xorb_chunk_entries) = n
      /\ XorbChunks(P, 1) = E
      /\ Plans(P, oid, 1) /\ Plan(P, 1) = pl
  BY <1>2, <1>3, ConvertedPlans
<1>5. /\ P.xorb_entries[1] = [xorb_hash |-> h, num_entries |-> n, in_xorb |-> SumSeq(Sizes(rs)), on_disk |-> SumSeq(Payloads(rs))]
      /\ P.file_entries[1].file_hash = oid /\ P.chunk_lookup_entries = LookupsFrom(h, ps)
  BY <1>3 DEF ConvertedParse
<1>6. ASSUME NEW k \in 1..n
      PROVE  /\ rs[k] \in Regions /\ rs[k].unpacked = Len(ps[k])
             /\ Decompress(rs[k].scheme, rs[k].payload) = ps[k]
             /\ Decompresses(rs[k].scheme, rs[k].payload, rs[k].unpacked)
             /\ PayloadLen(rs[k]) <= MaxCompressedLen(rs[k].scheme, rs[k].unpacked)
  <2>1. rs[k] = PackedRegion(s, ps[k]) /\ ps[k] \in Seq(Byte)
    BY <1>3
  <2> QED BY <2>1, PackedIs
<1>7. x.regions = rs
  BY SealedFields
<1> HIDE DEF P
<1>8. EntryValidIn(X, P, 1)
  <2> DEFINE en == P.xorb_entries[1]
             info == VerifiedXorbInfo(X[en.xorb_hash])
             cs == XorbChunks(P, 1)
  <2>1. en.xorb_hash = h /\ en.num_entries = n /\ en.in_xorb = SumSeq(Sizes(rs)) /\ en.on_disk = SumSeq(Payloads(rs))
    BY <1>5
  <2>2. VerifyXorbFromFile(X[en.xorb_hash])
    BY <1>3, <2>1, SealedVerifies
  <2>3. /\ info.xorb_hash = h /\ Len(info.chunks) = n
        /\ info.total_unpacked = SumSeq(Sizes(rs)) /\ info.total_compressed = SumSeq(Payloads(rs))
        /\ \A k \in 1..n : /\ info.chunks[k].hash = RegionHash(rs[k])
                           /\ info.chunks[k].start = SumSeq(First(Lens(rs), k - 1))
                           /\ info.chunks[k].unpacked_len = rs[k].unpacked
    BY <1>3, <2>1, SealedInfo
  <2>4. /\ cs = E /\ Len(cs) = n
        /\ \A k \in 1..n : /\ cs[k].chunk_hash = RegionHash(rs[k])
                           /\ cs[k].start = SumSeq(First(Lens(rs), k - 1))
                           /\ cs[k].unpacked = rs[k].unpacked
    BY <1>3, <1>4 DEF EntriesFor
  <2> HIDE DEF en, info, cs
  <2>5. \A k \in 1..Len(cs) : /\ cs[k].chunk_hash = info.chunks[k].hash
                              /\ cs[k].start = info.chunks[k].start
                              /\ cs[k].unpacked = info.chunks[k].unpacked_len
    BY <2>3, <2>4
  <2> QED BY <2>1, <2>2, <2>3, <2>5 DEF EntryValidIn, en, info, cs
<1>9. Len(pl) = n /\ \A k \in 1..n : /\ pl[k].xorb_hash = h /\ pl[k].start = SumSeq(First(Lens(rs), k - 1))
                                     /\ pl[k].unpacked = rs[k].unpacked /\ pl[k].serialized_hash = RegionHash(rs[k])
                                     /\ pl[k].raw_hash = DataHash(ps[k])
  BY <1>3 DEF ConvertedPlan
<1> HIDE DEF pl, x
<1>10. ASSUME NEW k \in 1..n
       PROVE  /\ ChunkExtracts(x, pl[k].start, pl[k].unpacked, pl[k].serialized_hash)
              /\ ExtractedChunk(x, pl[k].start) = ps[k]
  <2> DEFINE o == pl[k].start
  <2>1. RegionsAt(x, o) = {k}
    <3>1. x.regions \in Seq(Regions) /\ k \in 1..Len(x.regions)
      BY <1>3, <1>7
    <3>2. RegionsAt(x, SumSeq(First(Lens(x.regions), k - 1))) = {k}
      BY <3>1, RegionAtStart
    <3> QED BY <1>7, <1>9, <3>2
  <2>2. Len(ps[k]) <= MaxUnpacked
    <3>1. Len(ps[k]) <= MaxChunk
      BY <1>1, PiecesSmall
    <3>2. Len(ps[k]) \in Nat
      BY <1>3, LenProperties
    <3> QED BY <3>1, <3>2, StoreAssumption, CdcAssumption, XorbAssumption
  <2> HIDE DEF o
  <2>3. \E i \in RegionsAt(x, o) :
          LET r == x.regions[i]
          IN  /\ r.unpacked = pl[k].unpacked
              /\ PayloadLen(r) <= MaxCompressedLen(r.scheme, pl[k].unpacked)
              /\ RegionHash(r) = pl[k].serialized_hash
              /\ Decompresses(r.scheme, r.payload, r.unpacked)
    <3>1. k \in RegionsAt(x, o)
      BY <2>1
    <3> QED BY <1>6, <1>7, <1>9, <3>1
  <2>4. ChunkExtracts(x, o, pl[k].unpacked, pl[k].serialized_hash)
    BY <1>6, <1>9, <2>2, <2>3 DEF ChunkExtracts
  <2>5. (CHOOSE i \in RegionsAt(x, o) : TRUE) = k
    BY <2>1
  <2>6. ExtractedChunk(x, o) = ps[k]
    BY <1>6, <1>7, <2>5, Zenon DEF ExtractedChunk
  <2> QED BY <2>4, <2>6 DEF o
<1>11. ReadIn(X, pl)
  <2>1. ASSUME NEW k \in 1..Len(pl)
        PROVE  /\ pl[k].xorb_hash \in DOMAIN X
               /\ ChunkExtracts(X[pl[k].xorb_hash], pl[k].start, pl[k].unpacked, pl[k].serialized_hash)
               /\ DataHash(ExtractedChunk(X[pl[k].xorb_hash], pl[k].start)) = pl[k].raw_hash
    <3>1. k \in 1..n /\ pl[k].xorb_hash = h /\ X[h] = x /\ pl[k].raw_hash = DataHash(ps[k])
      BY <1>9 DEF x
    <3> QED BY <1>10, <3>1, Zenon
  <2> QED BY <2>1 DEF ReadIn
<1>12. BytesIn(X, pl) = ps
  <2>1. \A k \in 1..n : ExtractedChunk(X[pl[k].xorb_hash], pl[k].start) = ps[k]
    <3>1. X[h] = x
      BY DEF x
    <3> QED BY <1>9, <1>10, <3>1, Zenon
  <2>2. BytesIn(X, pl) = [k \in 1..n |-> ExtractedChunk(X[pl[k].xorb_hash], pl[k].start)]
    BY <1>9 DEF BytesIn
  <2>3. ps = [k \in 1..n |-> ps[k]]
    BY <1>2
  <2>4. [k \in 1..n |-> ExtractedChunk(X[pl[k].xorb_hash], pl[k].start)] = [k \in 1..n |-> ps[k]]
    BY <2>1, Zenon
  <2> QED BY <2>2, <2>3, <2>4, Zenon
<1>13. FileValidIn(X, P, 1)
  <2>1. HashMatches(oid, ps)
    BY <1>1, <1>2 DEF HashMatches
  <2> QED BY <1>4, <1>5, <1>11, <1>12, <2>1 DEF FileValidIn
<1>14. ValidIn(X, P)
  <2>1. Len(P.xorb_entries) + 1 = 2
    BY <1>4
  <2>2. \A i \in 1..1 : i = 1
    OBVIOUS
  <2>3. \A i, j \in 1..Len(P.xorb_entries) : P.xorb_entries[i].xorb_hash = P.xorb_entries[j].xorb_hash => i = j
    BY <1>4, <2>2
  <2>4. EntriesBefore(P.xorb_entries, Len(P.xorb_entries) + 1) = Len(P.xorb_chunk_entries)
    BY <1>4, <2>1
  <2>5. \A i \in 1..Len(P.xorb_entries) : EntryValidIn(X, P, i)
    BY <1>4, <1>8, <2>2
  <2>6. \A i \in 1..Len(P.file_entries) : FileValidIn(X, P, i)
    BY <1>4, <1>13, <2>2
  <2> QED BY <2>3, <2>4, <2>5, <2>6 DEF ValidIn
<1>15. Len(Concat(BytesIn(X, Plan(P, 1)))) = Len(d)
  BY <1>2, <1>4, <1>12
<1>16. \A k \in 1..n : k <= Len(rs)
  BY <1>3
<1> QED BY <1>4, <1>5, <1>6, <1>14, <1>15, <1>16 DEF P

-----------------------------------------------------------------------------
(* Registration in the index.                                              *)

\* The recursion of register_verified_shard over the files.
RefRun(map, n, id, fs, f) == f = [i \in 0..n |-> IF i = 0 THEN map ELSE AddRef(f[i - 1], id, fs[i])]

\* The recursion over the files has a solution.
LEMMA AddRefsExists ==
  ASSUME NEW map, NEW n \in Nat, NEW id, NEW fs
  PROVE  \E f : RefRun(map, n, id, fs, f)
<1> DEFINE Good(f, k) == f = [i \in 0..k |-> IF i = 0 THEN map ELSE AddRef(f[i - 1], id, fs[i])]
           Good_(k) == \E f : Good(f, k)
           T == {k \in Nat : Good_(k)}
<1> HIDE DEF Good_
<1>1. 0 \in T
  <2>1. Good([i \in 0..0 |-> map], 0)
    OBVIOUS
  <2> QED BY <2>1 DEF Good_
<1>2. ASSUME NEW k \in Nat, k \in T PROVE k + 1 \in T
  <2>1. PICK f : Good(f, k)
    BY <1>2 DEF Good_
  <2> DEFINE v == AddRef(f[k], id, fs[(k + 1)])
             g == [i \in 0..(k + 1) |-> IF i = k + 1 THEN v ELSE f[i]]
  <2>2. ASSUME NEW i \in 0..(k + 1)
        PROVE  g[i] = IF i = 0 THEN map ELSE AddRef(g[i - 1], id, fs[i])
    <3>1. CASE i = 0
      BY <2>1, <3>1
    <3>2. CASE i = k + 1
      <4>1. g[i] = v /\ i # 0 /\ i - 1 = k /\ g[k] = f[k]
        BY <3>2
      <4> HIDE DEF g
      <4> QED BY <3>2, <4>1
    <3>3. CASE i # 0 /\ i # k + 1
      <4>1. i \in 0..k /\ i - 1 \in 0..k /\ i - 1 # k + 1 /\ i - 1 \in 0..(k + 1)
        BY <3>3
      <4>2. g[i] = f[i] /\ g[i - 1] = f[i - 1]
        BY <3>3, <4>1
      <4>3. f[i] = AddRef(f[i - 1], id, fs[i])
        BY <2>1, <3>3, <4>1
      <4> HIDE DEF g
      <4> QED BY <3>3, <4>2, <4>3
    <3> QED BY <3>1, <3>2, <3>3
  <2>3. g = [i \in 0..(k + 1) |-> g[i]]
    OBVIOUS
  <2> HIDE DEF g, v
  <2>4. Good(g, k + 1)
    BY <2>2, <2>3
  <2>5. Good_(k + 1)
    BY <2>4 DEF Good_
  <2> QED BY <2>5
<1>3. n \in T
  <2> HIDE DEF T
  <2> QED BY <1>1, <1>2, SetInduction
<1> QED BY <1>3 DEF Good_, RefRun

\* Its recursion over the chunks.
AddPlace(map, c) == Put(map, c.chunk_hash, [xorb |-> c.xorb_hash, index |-> c.chunk_index])

PlaceRun(map, n, cs, f) == f = [i \in 0..n |-> IF i = 0 THEN map ELSE AddPlace(f[i - 1], cs[i])]

\* The recursion over the chunks has one.
LEMMA AddPlacesExists ==
  ASSUME NEW map, NEW n \in Nat, NEW cs
  PROVE  \E f : PlaceRun(map, n, cs, f)
<1> DEFINE Good(f, k) == f = [i \in 0..k |-> IF i = 0 THEN map ELSE AddPlace(f[i - 1], cs[i])]
           Good_(k) == \E f : Good(f, k)
           T == {k \in Nat : Good_(k)}
<1> HIDE DEF Good_
<1>1. 0 \in T
  <2>1. Good([i \in 0..0 |-> map], 0)
    OBVIOUS
  <2> QED BY <2>1 DEF Good_
<1>2. ASSUME NEW k \in Nat, k \in T PROVE k + 1 \in T
  <2>1. PICK f : Good(f, k)
    BY <1>2 DEF Good_
  <2> DEFINE v == AddPlace(f[k], cs[(k + 1)])
             g == [i \in 0..(k + 1) |-> IF i = k + 1 THEN v ELSE f[i]]
  <2>2. ASSUME NEW i \in 0..(k + 1)
        PROVE  g[i] = IF i = 0 THEN map ELSE AddPlace(g[i - 1], cs[i])
    <3>1. CASE i = 0
      BY <2>1, <3>1
    <3>2. CASE i = k + 1
      <4>1. g[i] = v /\ i # 0 /\ i - 1 = k /\ g[k] = f[k]
        BY <3>2
      <4> HIDE DEF g
      <4> QED BY <3>2, <4>1
    <3>3. CASE i # 0 /\ i # k + 1
      <4>1. i \in 0..k /\ i - 1 \in 0..k /\ i - 1 # k + 1 /\ i - 1 \in 0..(k + 1)
        BY <3>3
      <4>2. g[i] = f[i] /\ g[i - 1] = f[i - 1]
        BY <3>3, <4>1
      <4>3. f[i] = AddPlace(f[i - 1], cs[i])
        BY <2>1, <3>3, <4>1
      <4> HIDE DEF g
      <4> QED BY <3>3, <4>2, <4>3
    <3> QED BY <3>1, <3>2, <3>3
  <2>3. g = [i \in 0..(k + 1) |-> g[i]]
    OBVIOUS
  <2> HIDE DEF g, v
  <2>4. Good(g, k + 1)
    BY <2>2, <2>3
  <2>5. Good_(k + 1)
    BY <2>4 DEF Good_
  <2> QED BY <2>5
<1>3. n \in T
  <2> HIDE DEF T
  <2> QED BY <1>1, <1>2, SetInduction
<1> QED BY <1>3 DEF Good_, PlaceRun

\* The references of a file in an index, and a file's reference.
Refs(map, h) == IF h \in DOMAIN map THEN {map[h][i] : i \in 1..Len(map[h])} ELSE {}
MapTyped(map) == \A h \in DOMAIN map : Listed(map[h]) /\ Len(map[h]) >= 1
RefOf(id, g) == [shard |-> id, file_index |-> g.file_index, file_size |-> g.file_size]

\* A reference is added, and none is lost.
LEMMA AddRefIs ==
  ASSUME NEW map, MapTyped(map), NEW id, NEW g
  PROVE  /\ MapTyped(AddRef(map, id, g))
         /\ \A h : \A r : r \in Refs(AddRef(map, id, g), h) <=>
                            \/ r \in Refs(map, h)
                            \/ h = g.file_hash /\ r = RefOf(id, g)
<1> DEFINE k == g.file_hash
           refs == IF k \in DOMAIN map THEN map[k] ELSE << >>
           ref == RefOf(id, g)
           new == AddRef(map, id, g)
           ext == Append(refs, ref)
<1>1. Listed(refs) /\ Refs(map, k) = {refs[i] : i \in 1..Len(refs)}
  <2>1. CASE k \in DOMAIN map
    BY <2>1 DEF MapTyped, Refs
  <2>2. CASE k \notin DOMAIN map
    <3>1. << >> \in Seq({}) /\ Len(<< >>) = 0
      OBVIOUS
    <3>2. Listed(<< >>)
      BY <3>1 DEF Listed
    <3> QED BY <2>2, <3>1, <3>2 DEF Refs
  <2> QED BY <2>1, <2>2
<1>2. new = IF \E i \in 1..Len(refs) : refs[i] = ref THEN map ELSE Put(map, k, ext)
  BY DEF AddRef, RefOf
<1> HIDE DEF refs, ref, new
<1>3. CASE \E i \in 1..Len(refs) : refs[i] = ref
  <2>1. new = map /\ ref \in Refs(map, k)
    BY <1>1, <1>2, <1>3
  <2>2. \A h : \A r : r \in Refs(new, h) <=> \/ r \in Refs(map, h)
                                             \/ h = k /\ r = ref
    BY <2>1
  <2> QED BY <2>1, <2>2 DEF new, ref
<1>4. CASE ~(\E i \in 1..Len(refs) : refs[i] = ref)
  <2>1. new = Put(map, k, ext)
    BY <1>2, <1>4
  <2>2. DOMAIN new = DOMAIN map \cup {k} /\ new[k] = ext /\ \A h \in DOMAIN map : h # k => new[h] = map[h]
    BY <2>1 DEF Put
  <2>3. PICK Q : refs \in Seq(Q)
    BY <1>1 DEF Listed
  <2> DEFINE S == Q \cup {ref}
  <2>4. refs \in Seq(S) /\ ref \in S /\ Len(refs) \in Nat
    <3>1. Q \subseteq S /\ ref \in S
      OBVIOUS
    <3>2. Len(refs) \in Nat
      BY <2>3, LenProperties
    <3> HIDE DEF S
    <3>3. \A i \in 1..Len(refs) : refs[i] \in S
      BY <2>3, <3>1, ElementOfSeq
    <3> QED BY <2>3, <3>1, <3>2, <3>3
  <2> HIDE DEF S
  <2>5. /\ ext \in Seq(S) /\ Len(ext) = Len(refs) + 1
        /\ \A i \in 1..Len(refs) : ext[i] = refs[i]
        /\ ext[Len(refs) + 1] = ref
    BY <2>4, AppendProperties
  <2> HIDE DEF ext
  <2>6. {ext[i] : i \in 1..Len(ext)} = {refs[i] : i \in 1..Len(refs)} \cup {ref}
    <3>1. ASSUME NEW i \in 1..Len(ext) PROVE ext[i] \in {refs[j] : j \in 1..Len(refs)} \cup {ref}
      <4>1. CASE i = Len(refs) + 1
        BY <2>5, <4>1
      <4>2. CASE i # Len(refs) + 1
        <5>1. i \in 1..Len(refs)
          BY <2>4, <2>5, <4>2
        <5> QED BY <2>5, <5>1
      <4> QED BY <4>1, <4>2
    <3>2. ASSUME NEW i \in 1..Len(refs) PROVE refs[i] \in {ext[j] : j \in 1..Len(ext)}
      <4>1. i \in 1..Len(ext)
        BY <2>4, <2>5
      <4> QED BY <2>5, <4>1
    <3>3. ref \in {ext[j] : j \in 1..Len(ext)}
      <4>1. Len(refs) + 1 \in 1..Len(ext)
        BY <2>4, <2>5
      <4> QED BY <2>5, <4>1
    <3> QED BY <3>1, <3>2, <3>3
  <2>7. MapTyped(new)
    <3>1. ASSUME NEW h \in DOMAIN new PROVE Listed(new[h]) /\ Len(new[h]) >= 1
      <4>1. CASE h = k
        <5>1. Listed(ext)
          BY <2>5 DEF Listed
        <5>2. Len(ext) >= 1
          BY <2>4, <2>5
        <5> QED BY <2>2, <4>1, <5>1, <5>2
      <4>2. CASE h # k
        BY <2>2, <4>2 DEF MapTyped
      <4> QED BY <4>1, <4>2
    <3> QED BY <3>1 DEF MapTyped
  <2>8. Refs(new, k) = Refs(map, k) \cup {ref}
    <3>1. Refs(new, k) = {ext[i] : i \in 1..Len(ext)}
      BY <2>2 DEF Refs
    <3> QED BY <1>1, <2>6, <3>1
  <2>9. \A h : h # k => Refs(new, h) = Refs(map, h)
    BY <2>2 DEF Refs
  <2>10. \A h : \A r : r \in Refs(new, h) <=> \/ r \in Refs(map, h)
                                              \/ h = k /\ r = ref
    BY <2>8, <2>9
  <2> QED BY <2>7, <2>10 DEF new, ref
<1> QED BY <1>3, <1>4

\* Files are added to an index: nothing is lost, and nothing else is there.
Added(map, reg, n, new) ==
  /\ MapTyped(new)
  /\ \A h : \A r : r \in Refs(new, h) <=>
       \/ r \in Refs(map, h)
       \/ \E j \in 1..n : h = reg.files[j].file_hash /\ r = RefOf(reg.shard, reg.files[j])

\* A registration adds a reference for each of its files.
LEMMA AddRefsIs ==
  ASSUME NEW map, MapTyped(map), NEW reg, Len(reg.files) \in Nat
  PROVE  Added(map, reg, Len(reg.files), AddRefs(map, reg))
<1> DEFINE n == Len(reg.files)
           Is(g) == g = [i \in 0..n |-> IF i = 0 THEN map ELSE AddRef(g[i - 1], reg.shard, reg.files[i])]
           c == CHOOSE g : Is(g)
           T == {k \in Nat : k <= n => Added(map, reg, k, c[k])}
<1>1. AddRefs(map, reg) = c[n]
  BY DEF AddRefs
<1>2. \E g : Is(g)
  <2> HIDE DEF n
  <2>1. n \in Nat
    BY DEF n
  <2>2. PICK g : RefRun(map, n, reg.shard, reg.files, g)
    BY <2>1, AddRefsExists
  <2>3. Is(g)
    BY <2>2, Zenon DEF RefRun
  <2> HIDE DEF Is
  <2> QED BY <2>3
<1>3. Is(c)
  <2> HIDE DEF Is
  <2> QED BY <1>2
<1>4. ASSUME NEW i \in 0..n PROVE c[i] = IF i = 0 THEN map ELSE AddRef(c[i - 1], reg.shard, reg.files[i])
  <2> HIDE DEF c
  <2> QED BY <1>3, Zenon
<1> HIDE DEF c
<1>5. 0 \in T
  <2>1. c[0] = map
    BY <1>4
  <2>2. \A h : \A r : ~(\E j \in 1..0 : h = reg.files[j].file_hash /\ r = RefOf(reg.shard, reg.files[j]))
    OBVIOUS
  <2>3. Added(map, reg, 0, c[0])
    BY <2>1, <2>2, Zenon DEF Added
  <2> QED BY <2>3
<1>6. ASSUME NEW k \in Nat, k \in T PROVE k + 1 \in T
  <2>1. SUFFICES ASSUME k + 1 <= n PROVE Added(map, reg, k + 1, c[k + 1])
    OBVIOUS
  <2>2. k + 1 \in 0..n /\ k + 1 # 0 /\ (k + 1) - 1 = k /\ k <= n
    BY <2>1
  <2>3. c[k + 1] = AddRef(c[k], reg.shard, reg.files[k + 1])
    BY <1>4, <2>2
  <2>4. Added(map, reg, k, c[k])
    BY <1>6, <2>2
  <2> DEFINE G == reg.files[k + 1]
             new == AddRef(c[k], reg.shard, G)
  <2>5. /\ MapTyped(new)
        /\ \A h : \A r : r \in Refs(new, h) <=> \/ r \in Refs(c[k], h)
                                                \/ h = G.file_hash /\ r = RefOf(reg.shard, G)
    <3>1. MapTyped(c[k])
      BY <2>4 DEF Added
    <3> QED BY <3>1, AddRefIs
  <2>6. \A j : j \in 1..(k + 1) <=> (j \in 1..k \/ j = k + 1)
    OBVIOUS
  <2>7. ASSUME NEW h, NEW r
        PROVE  r \in Refs(new, h) <=>
                 \/ r \in Refs(map, h)
                 \/ \E j \in 1..(k + 1) : h = reg.files[j].file_hash /\ r = RefOf(reg.shard, reg.files[j])
    <3>1. r \in Refs(c[k], h) <=> \/ r \in Refs(map, h)
                                  \/ \E j \in 1..k : h = reg.files[j].file_hash /\ r = RefOf(reg.shard, reg.files[j])
      BY <2>4, Zenon DEF Added
    <3>2. r \in Refs(new, h) <=> \/ r \in Refs(c[k], h)
                                 \/ h = G.file_hash /\ r = RefOf(reg.shard, G)
      BY <2>5, Zenon
    <3>3. (\E j \in 1..(k + 1) : h = reg.files[j].file_hash /\ r = RefOf(reg.shard, reg.files[j]))
          <=> \/ \E j \in 1..k : h = reg.files[j].file_hash /\ r = RefOf(reg.shard, reg.files[j])
              \/ h = G.file_hash /\ r = RefOf(reg.shard, G)
      BY <2>6, Zenon
    <3> HIDE DEF new, G
    <3> QED BY <3>1, <3>2, <3>3, Zenon
  <2>8. Added(map, reg, k + 1, new)
    <3> HIDE DEF new
    <3> QED BY <2>5, <2>7, Zenon DEF Added
  <2> QED BY <2>3, <2>8
<1>7. n \in T
  <2> HIDE DEF T
  <2> QED BY <1>5, <1>6, SetInduction
<1>8. Added(map, reg, n, c[n])
  <2>1. n \in Nat /\ n <= n
    OBVIOUS
  <2> HIDE DEF n
  <2> QED BY <1>7, <2>1
<1> QED BY <1>1, <1>8

\* A place in the index is an old one or one of the registration.
Placed(map, reg, n, new) ==
  \A h \in DOMAIN new :
    \/ h \in DOMAIN map /\ new[h] = map[h]
    \/ \E j \in 1..n : /\ h = reg.chunks[j].chunk_hash
                       /\ new[h] = [xorb |-> reg.chunks[j].xorb_hash, index |-> reg.chunks[j].chunk_index]

\* A registration gives each of its chunks a place.
LEMMA AddPlacesIs ==
  ASSUME NEW map, NEW reg, Len(reg.chunks) \in Nat
  PROVE  Placed(map, reg, Len(reg.chunks), AddPlaces(map, reg))
<1> DEFINE n == Len(reg.chunks)
           Is(g) == g = [i \in 0..n |-> IF i = 0 THEN map ELSE AddPlace(g[i - 1], reg.chunks[i])]
           c == CHOOSE g : Is(g)
           T == {k \in Nat : k <= n => Placed(map, reg, k, c[k])}
<1>1. AddPlaces(map, reg) = c[n]
  BY DEF AddPlaces, AddPlace
<1>2. \E g : Is(g)
  <2> HIDE DEF n
  <2>1. n \in Nat
    BY DEF n
  <2>2. PICK g : PlaceRun(map, n, reg.chunks, g)
    BY <2>1, AddPlacesExists
  <2>3. Is(g)
    BY <2>2, Zenon DEF PlaceRun
  <2> HIDE DEF Is
  <2> QED BY <2>3
<1>3. Is(c)
  <2> HIDE DEF Is
  <2> QED BY <1>2
<1>4. ASSUME NEW i \in 0..n PROVE c[i] = IF i = 0 THEN map ELSE AddPlace(c[i - 1], reg.chunks[i])
  <2> HIDE DEF c
  <2> QED BY <1>3, Zenon
<1> HIDE DEF c
<1>5. 0 \in T
  <2>1. c[0] = map
    BY <1>4
  <2>2. Placed(map, reg, 0, c[0])
    BY <2>1, Zenon DEF Placed
  <2> QED BY <2>2
<1>6. ASSUME NEW k \in Nat, k \in T PROVE k + 1 \in T
  <2>1. SUFFICES ASSUME k + 1 <= n PROVE Placed(map, reg, k + 1, c[k + 1])
    OBVIOUS
  <2>2. k + 1 \in 0..n /\ k + 1 # 0 /\ (k + 1) - 1 = k /\ k <= n
    BY <2>1
  <2>3. c[k + 1] = AddPlace(c[k], reg.chunks[k + 1])
    BY <1>4, <2>2
  <2>4. Placed(map, reg, k, c[k])
    BY <1>6, <2>2
  <2> DEFINE G == reg.chunks[k + 1]
             p == [xorb |-> G.xorb_hash, index |-> G.chunk_index]
             new == AddPlace(c[k], G)
             old == c[k]
  <2>5. DOMAIN new = DOMAIN old \cup {G.chunk_hash} /\ \A h \in DOMAIN new : new[h] = IF h = G.chunk_hash THEN p ELSE old[h]
    BY DEF AddPlace, Put
  <2>6. \A j \in 1..k : j \in 1..(k + 1)
    OBVIOUS
  <2>7. k + 1 \in 1..(k + 1)
    OBVIOUS
  <2>8. ASSUME NEW h \in DOMAIN new
        PROVE  \/ h \in DOMAIN map /\ new[h] = map[h]
               \/ \E j \in 1..(k + 1) : /\ h = reg.chunks[j].chunk_hash
                                        /\ new[h] = [xorb |-> reg.chunks[j].xorb_hash, index |-> reg.chunks[j].chunk_index]
    <3>1. CASE h = G.chunk_hash
      <4>1. new[h] = p
        BY <2>5, <3>1
      <4> HIDE DEF new
      <4> QED BY <2>7, <3>1, <4>1, Zenon
    <3>2. CASE h # G.chunk_hash
      <4>1. h \in DOMAIN old /\ new[h] = old[h]
        BY <2>5, <3>2
      <4> HIDE DEF new
      <4>2. \/ h \in DOMAIN map /\ old[h] = map[h]
            \/ \E j \in 1..k : /\ h = reg.chunks[j].chunk_hash
                               /\ old[h] = [xorb |-> reg.chunks[j].xorb_hash, index |-> reg.chunks[j].chunk_index]
        BY <2>4, <4>1, Zenon DEF Placed
      <4> HIDE DEF old
      <4> QED BY <2>6, <4>1, <4>2, Zenon
    <3> QED BY <3>1, <3>2
  <2>9. Placed(map, reg, k + 1, new)
    <3> HIDE DEF new
    <3> QED BY <2>8, Zenon DEF Placed
  <2> QED BY <2>3, <2>9
<1>7. n \in T
  <2> HIDE DEF T
  <2> QED BY <1>5, <1>6, SetInduction
<1>8. Placed(map, reg, n, c[n])
  <2>1. n \in Nat /\ n <= n
    OBVIOUS
  <2> HIDE DEF n
  <2> QED BY <1>7, <2>1
<1> QED BY <1>1, <1>8

-----------------------------------------------------------------------------
(* What a growing store keeps.                                             *)

\* A stored shard is found under its hash, parses and passes the validation.
GoodShard(X, id, f) ==
  /\ id = ShardHash(f)
  /\ Framed(f) /\ Parses(f)
  /\ ParseTyped(Parse(f))
  /\ ValidIn(X, Parse(f))
GoodShards(X, H) == \A id \in DOMAIN H : GoodShard(X, id, H[id])

\* The files of a shard, and how long they are.
FilesOf(H, id) == Parse(H[id]).file_entries
SizeOf(X, P, i) == Len(Concat(BytesIn(X, Plan(P, i))))
FileRegs(X, P) ==
  [i \in 1..Len(P.file_entries) |->
     [file_hash |-> P.file_entries[i].file_hash, file_index |-> i, file_size |-> SizeOf(X, P, i)]]

\* A reference is to a file of a stored shard, and has its size.
GoodRef(X, H, h, r) ==
  /\ r.shard \in DOMAIN H
  /\ r.file_index \in 1..Len(FilesOf(H, r.shard))
  /\ FilesOf(H, r.shard)[r.file_index].file_hash = h
  /\ r.file_size = SizeOf(X, Parse(H[r.shard]), r.file_index)
GoodRefs(X, H, map) == \A h : \A r \in Refs(map, h) : GoodRef(X, H, h, r)

\* Every file of a shard is in the index.
HasRefs(X, H, map, id) ==
  \A i \in 1..Len(FilesOf(H, id)) :
    [shard |-> id, file_index |-> i, file_size |-> SizeOf(X, Parse(H[id]), i)]
      \in Refs(map, FilesOf(H, id)[i].file_hash)

\* A good reference is to a file of the size that its hash tells.
LEMMA RefSized ==
  ASSUME Lz4Bounded, NEW X, SealedIn(X), NEW H, GoodShards(X, H), NEW h, NEW r, GoodRef(X, H, h, r)
  PROVE  Sized(h, r.file_size)
<1> DEFINE P == Parse(H[r.shard])
           i == r.file_index
<1>1. i \in 1..Len(P.file_entries) /\ P.file_entries[i].file_hash = h /\ r.file_size = Len(Concat(BytesIn(X, Plan(P, i))))
  BY DEF GoodRef, FilesOf, SizeOf
<1>2. ParseTyped(P) /\ ValidIn(X, P)
  BY DEF GoodRef, GoodShards, GoodShard
<1> HIDE DEF P, i
<1>3. FileValidIn(X, P, i)
  BY <1>1, <1>2 DEF ValidIn
<1>4. Sized(P.file_entries[i].file_hash, Len(Concat(BytesIn(X, Plan(P, i)))))
  BY <1>1, <1>2, <1>3, FileSized
<1> QED BY <1>1, <1>4, Zenon

\* The registration of a good shard.
LEMMA RegsGood ==
  ASSUME NEW X, NEW H, NEW id \in DOMAIN H, GoodShards(X, H), NEW n, n = Len(Parse(H[id]).file_entries)
  PROVE  LET fs == FileRegs(X, Parse(H[id]))
         IN  /\ Len(fs) = n /\ n \in Nat
             /\ \A j \in 1..n : /\ GoodRef(X, H, fs[j].file_hash, RefOf(id, fs[j]))
                                /\ fs[j].file_hash = Parse(H[id]).file_entries[j].file_hash
                                /\ RefOf(id, fs[j]) = [shard |-> id, file_index |-> j, file_size |-> SizeOf(X, Parse(H[id]), j)]
                                /\ RefOf(id, fs[j]).file_size = fs[j].file_size
<1> DEFINE P == Parse(H[id])
           fs == FileRegs(X, P)
<1>1. Listed(P.file_entries)
  BY DEF GoodShards, GoodShard, ParseTyped
<1>2. n \in Nat
  BY <1>1, ListedLen
<1>3. fs = [i \in 1..n |-> [file_hash |-> P.file_entries[i].file_hash, file_index |-> i, file_size |-> SizeOf(X, P, i)]]
  BY DEF FileRegs
<1>4. Len(fs) = n
  BY <1>2, <1>3
<1> HIDE DEF fs
<1>5. ASSUME NEW j \in 1..n
      PROVE  /\ fs[j].file_hash = P.file_entries[j].file_hash
             /\ RefOf(id, fs[j]) = [shard |-> id, file_index |-> j, file_size |-> SizeOf(X, P, j)]
             /\ RefOf(id, fs[j]).file_size = fs[j].file_size
  BY <1>3 DEF RefOf
<1>6. ASSUME NEW j \in 1..n PROVE GoodRef(X, H, fs[j].file_hash, RefOf(id, fs[j]))
  <2> DEFINE r == RefOf(id, fs[j])
  <2>1. r = [shard |-> id, file_index |-> j, file_size |-> SizeOf(X, P, j)] /\ fs[j].file_hash = P.file_entries[j].file_hash
    BY <1>5
  <2> HIDE DEF r
  <2>2. r.shard = id /\ r.file_index = j /\ r.file_size = SizeOf(X, P, j)
    BY <2>1
  <2>3. GoodRef(X, H, fs[j].file_hash, r)
    BY <2>1, <2>2 DEF GoodRef, FilesOf
  <2> QED BY <2>3 DEF r
<1> QED BY <1>2, <1>4, <1>5, <1>6 DEF fs

\* A good shard is never refused for a size, and its registration adds its
\* files to the index and keeps what was there.
LEMMA RegisterIs ==
  ASSUME Lz4Bounded, NEW X, SealedIn(X), NEW H, GoodShards(X, H),
         MapTyped(file_to_shards), GoodRefs(X, H, file_to_shards),
         NEW reg, reg.shard \in DOMAIN H, reg.files = FileRegs(X, Parse(H[reg.shard])), Len(reg.chunks) \in Nat,
         Register(reg)
  PROVE  /\ ~SizeConflict(reg)
         /\ MapTyped(file_to_shards') /\ GoodRefs(X, H, file_to_shards')
         /\ HasRefs(X, H, file_to_shards', reg.shard)
         /\ \A h : Refs(file_to_shards, h) \subseteq Refs(file_to_shards', h)
         /\ Placed(chunk_to_xorb, reg, Len(reg.chunks), chunk_to_xorb')
<1> DEFINE id == reg.shard
           fs == reg.files
           n == Len(Parse(H[id]).file_entries)
<1>1. /\ Len(fs) = n /\ n \in Nat
      /\ \A j \in 1..n : /\ GoodRef(X, H, fs[j].file_hash, RefOf(id, fs[j]))
                         /\ fs[j].file_hash = Parse(H[id]).file_entries[j].file_hash
                         /\ RefOf(id, fs[j]) = [shard |-> id, file_index |-> j, file_size |-> SizeOf(X, Parse(H[id]), j)]
                         /\ RefOf(id, fs[j]).file_size = fs[j].file_size
  BY RegsGood
<1>2. \A j \in 1..n : Sized(fs[j].file_hash, fs[j].file_size)
  <2> TAKE j \in 1..n
  <2>1. GoodRef(X, H, fs[j].file_hash, RefOf(id, fs[j])) /\ RefOf(id, fs[j]).file_size = fs[j].file_size
    BY <1>1
  <2>2. Sized(fs[j].file_hash, RefOf(id, fs[j]).file_size)
    BY <2>1, RefSized
  <2> QED BY <2>1, <2>2
<1>3. ASSUME NEW h \in DOMAIN file_to_shards PROVE Sized(h, file_to_shards[h][1].file_size)
  <2>1. Len(file_to_shards[h]) >= 1 /\ Len(file_to_shards[h]) \in Nat
    BY ListedLen DEF MapTyped
  <2>2. 1 \in 1..Len(file_to_shards[h])
    BY <2>1
  <2>3. file_to_shards[h][1] \in Refs(file_to_shards, h)
    BY <2>2 DEF Refs
  <2>4. GoodRef(X, H, h, file_to_shards[h][1])
    BY <2>3 DEF GoodRefs
  <2> QED BY <2>4, RefSized
<1>4. ~SizeConflict(reg)
  <2>1. ASSUME NEW i \in 1..Len(reg.files), NEW j \in 1..Len(reg.files), reg.files[i].file_hash = reg.files[j].file_hash
        PROVE  reg.files[i].file_size = reg.files[j].file_size
    <3>1. Sized(fs[i].file_hash, fs[i].file_size) /\ Sized(fs[i].file_hash, fs[j].file_size)
      BY <1>1, <1>2, <2>1
    <3> QED BY <3>1, SizedUnique
  <2>2. ASSUME NEW i \in 1..Len(reg.files), reg.files[i].file_hash \in DOMAIN file_to_shards
        PROVE  file_to_shards[reg.files[i].file_hash][1].file_size = reg.files[i].file_size
    <3>1. Sized(fs[i].file_hash, fs[i].file_size) /\ Sized(fs[i].file_hash, file_to_shards[fs[i].file_hash][1].file_size)
      BY <1>1, <1>2, <1>3, <2>2
    <3> QED BY <3>1, SizedUnique
  <2> QED BY <2>1, <2>2 DEF SizeConflict
<1>5. file_to_shards' = AddRefs(file_to_shards, reg) /\ chunk_to_xorb' = AddPlaces(chunk_to_xorb, reg)
  BY <1>4 DEF Register
<1>6. Added(file_to_shards, reg, n, file_to_shards')
  <2>1. Added(file_to_shards, reg, Len(reg.files), AddRefs(file_to_shards, reg))
    BY <1>1, AddRefsIs
  <2> QED BY <1>1, <1>5, <2>1, Zenon
<1>7. Placed(chunk_to_xorb, reg, Len(reg.chunks), chunk_to_xorb')
  <2>1. Placed(chunk_to_xorb, reg, Len(reg.chunks), AddPlaces(chunk_to_xorb, reg))
    BY AddPlacesIs
  <2> QED BY <1>5, <2>1, Zenon
<1>8. MapTyped(file_to_shards')
  BY <1>6 DEF Added
<1>9. ASSUME NEW h, NEW r
      PROVE  r \in Refs(file_to_shards', h) <=>
               \/ r \in Refs(file_to_shards, h)
               \/ \E j \in 1..n : h = fs[j].file_hash /\ r = RefOf(id, fs[j])
  BY <1>6, Zenon DEF Added
<1> HIDE DEF n, id, fs
<1>10. GoodRefs(X, H, file_to_shards')
  <2>1. ASSUME NEW h, NEW r \in Refs(file_to_shards', h) PROVE GoodRef(X, H, h, r)
    <3>1. CASE r \in Refs(file_to_shards, h)
      BY <3>1 DEF GoodRefs
    <3>2. CASE \E j \in 1..n : h = fs[j].file_hash /\ r = RefOf(id, fs[j])
      BY <1>1, <3>2
    <3> QED BY <1>9, <3>1, <3>2
  <2> QED BY <2>1, Zenon DEF GoodRefs
<1>11. HasRefs(X, H, file_to_shards', id)
  <2>1. ASSUME NEW j \in 1..n
        PROVE  [shard |-> id, file_index |-> j, file_size |-> SizeOf(X, Parse(H[id]), j)]
                 \in Refs(file_to_shards', Parse(H[id]).file_entries[j].file_hash)
    <3>1. RefOf(id, fs[j]) \in Refs(file_to_shards', fs[j].file_hash)
      BY <1>9, Zenon
    <3> QED BY <1>1, <3>1
  <2> QED BY <2>1 DEF HasRefs, FilesOf, n
<1>12. \A h : Refs(file_to_shards, h) \subseteq Refs(file_to_shards', h)
  BY <1>9
<1> QED BY <1>4, <1>7, <1>8, <1>10, <1>11, <1>12 DEF id

\* What grows keeps what it has.
LEMMA SizeKeeps ==
  ASSUME NEW X, NEW Y, Extends(X, Y), NEW P, ValidIn(X, P), NEW i \in 1..Len(P.file_entries)
  PROVE  SizeOf(Y, P, i) = SizeOf(X, P, i)
<1>1. ReadIn(X, Plan(P, i))
  BY DEF ValidIn, FileValidIn
<1>2. BytesIn(Y, Plan(P, i)) = BytesIn(X, Plan(P, i))
  BY <1>1, ReadKeeps
<1> QED BY <1>2 DEF SizeOf

\* A shard stays what it is when the store grows.
LEMMA ShardKeeps ==
  ASSUME NEW X, NEW Y, Extends(X, Y), NEW H, NEW K, Extends(H, K), GoodShards(X, H), NEW id \in DOMAIN H
  PROVE  /\ id \in DOMAIN K /\ K[id] = H[id] /\ GoodShard(Y, id, K[id])
         /\ FilesOf(K, id) = FilesOf(H, id)
         /\ \A i \in 1..Len(FilesOf(H, id)) : SizeOf(Y, Parse(K[id]), i) = SizeOf(X, Parse(H[id]), i)
<1>1. id \in DOMAIN K /\ K[id] = H[id]
  BY DEF Extends
<1>2. GoodShard(X, id, H[id])
  BY DEF GoodShards
<1>3. ValidIn(X, Parse(H[id]))
  BY <1>2 DEF GoodShard
<1>4. ValidIn(Y, Parse(H[id]))
  BY <1>3, ValidKeeps
<1>5. \A i \in 1..Len(FilesOf(H, id)) : SizeOf(Y, Parse(H[id]), i) = SizeOf(X, Parse(H[id]), i)
  BY <1>3, SizeKeeps DEF FilesOf
<1> QED BY <1>1, <1>2, <1>4, <1>5 DEF GoodShard, FilesOf

\* The references of an index stay good when the store grows.
LEMMA RefsKeep ==
  ASSUME NEW X, NEW Y, Extends(X, Y), NEW H, NEW K, Extends(H, K), GoodShards(X, H), NEW map, GoodRefs(X, H, map)
  PROVE  GoodRefs(Y, K, map)
<1>1. ASSUME NEW h, NEW r, GoodRef(X, H, h, r) PROVE GoodRef(Y, K, h, r)
  <2> DEFINE id == r.shard
             i == r.file_index
  <2>1. id \in DOMAIN H /\ i \in 1..Len(FilesOf(H, id)) /\ FilesOf(H, id)[i].file_hash = h /\ r.file_size = SizeOf(X, Parse(H[id]), i)
    BY <1>1 DEF GoodRef
  <2> HIDE DEF id, i
  <2>2. /\ id \in DOMAIN K /\ FilesOf(K, id) = FilesOf(H, id)
        /\ SizeOf(Y, Parse(K[id]), i) = SizeOf(X, Parse(H[id]), i)
    BY <2>1, ShardKeeps
  <2> QED BY <2>1, <2>2, Zenon DEF GoodRef, id, i
<1> QED BY <1>1, Zenon DEF GoodRefs

\* An index that has a shard keeps having it.
LEMMA HasKeeps ==
  ASSUME NEW X, NEW Y, Extends(X, Y), NEW H, NEW K, Extends(H, K), GoodShards(X, H), NEW id \in DOMAIN H,
         NEW map, NEW new, \A h : Refs(map, h) \subseteq Refs(new, h), HasRefs(X, H, map, id)
  PROVE  HasRefs(Y, K, new, id)
<1>1. FilesOf(K, id) = FilesOf(H, id) /\ \A i \in 1..Len(FilesOf(H, id)) : SizeOf(Y, Parse(K[id]), i) = SizeOf(X, Parse(H[id]), i)
  BY ShardKeeps
<1>2. ASSUME NEW i \in 1..Len(FilesOf(K, id))
      PROVE  [shard |-> id, file_index |-> i, file_size |-> SizeOf(Y, Parse(K[id]), i)] \in Refs(new, FilesOf(K, id)[i].file_hash)
  <2>1. i \in 1..Len(FilesOf(H, id))
    BY <1>1
  <2>2. [shard |-> id, file_index |-> i, file_size |-> SizeOf(X, Parse(H[id]), i)] \in Refs(map, FilesOf(H, id)[i].file_hash)
    BY <2>1 DEF HasRefs
  <2>3. SizeOf(Y, Parse(K[id]), i) = SizeOf(X, Parse(H[id]), i)
    BY <1>1, <2>1
  <2> QED BY <1>1, <2>2, <2>3
<1> QED BY <1>2, Zenon DEF HasRefs

\* A place has the chunk that it says.
GoodPlace(X, c, p) ==
  /\ p.xorb \in DOMAIN X
  /\ p.index \in Nat /\ p.index < Len(X[p.xorb].regions)
  /\ LET r == X[p.xorb].regions[p.index + 1]
     IN  /\ Decompresses(r.scheme, r.payload, r.unpacked)
         /\ DataHash(Decompress(r.scheme, r.payload)) = c
GoodPlaces(X, map) == \A c \in DOMAIN map : GoodPlace(X, c, map[c])

\* The places of chunks stay good when xorbs are added.
LEMMA PlacesKeep ==
  ASSUME NEW X, NEW Y, Extends(X, Y), NEW map, GoodPlaces(X, map)
  PROVE  GoodPlaces(Y, map)
<1>1. ASSUME NEW c \in DOMAIN map PROVE GoodPlace(Y, c, map[c])
  <2>1. GoodPlace(X, c, map[c])
    BY DEF GoodPlaces
  <2>2. map[c].xorb \in DOMAIN Y /\ Y[map[c].xorb] = X[map[c].xorb]
    BY <2>1 DEF GoodPlace, Extends
  <2> QED BY <2>1, <2>2, Zenon DEF GoodPlace
<1> QED BY <1>1 DEF GoodPlaces

\* The chunks of a xorb in a valid shard are as many as it has, and are
\* where its regions start.
ChunkAt(X, P, N, h, K) ==
  /\ h \in DOMAIN X /\ X[h].regions \in Seq(Regions) /\ K \in 1..Len(X[h].regions)
  /\ RegionsAt(X[h], XorbChunks(P, N)[K].start) = {K}

\* The chunk entries of a valid shard are the chunks of its xorbs.
LEMMA ChunksOf ==
  ASSUME Lz4Bounded, NEW X, SealedIn(X), NEW P, ParseTyped(P), ValidIn(X, P), NEW N \in 1..Len(P.xorb_entries),
         NEW K \in 1..Len(XorbChunks(P, N))
  PROVE  ChunkAt(X, P, N, P.xorb_entries[N].xorb_hash, K)
<1> DEFINE en == P.xorb_entries[N]
           h == en.xorb_hash
           x == X[h]
           info == VerifiedXorbInfo(x)
           cs == XorbChunks(P, N)
           es == P.xorb_chunk_entries
           hs == P.xorb_entries
           a == EntriesBefore(hs, N)
           b == EntriesBefore(hs, N + 1)
<1>1. /\ h \in DOMAIN X /\ Len(info.chunks) = en.num_entries
      /\ \A k \in 1..Len(cs) : cs[k].start = info.chunks[k].start
  BY DEF ValidIn, EntryValidIn
<1>2. PICK rs \in Seq(Regions) : x = SealedXorb(rs)
  BY <1>1 DEF SealedIn, SealedAt
<1>3. x.regions = rs
  BY <1>2, SealedFields
<1>4. Len(info.chunks) = Len(rs) /\ \A k \in 1..Len(rs) : info.chunks[k].start = SumSeq(First(Lens(rs), k - 1))
  BY <1>2, SealedInfo
<1>5. Listed(hs) /\ Listed(es) /\ (\A i \in 1..Len(hs) : hs[i].num_entries \in Nat) /\ EntriesBefore(hs, Len(hs) + 1) = Len(es)
  BY DEF ParseTyped, ValidIn
<1>6. Len(hs) \in Nat /\ Len(es) \in Nat
  BY <1>5, ListedLen
<1>7. N \in 1..(Len(hs) + 1) /\ N + 1 \in 1..(Len(hs) + 1) /\ Len(hs) + 1 \in 1..(Len(hs) + 1) /\ N + 1 <= Len(hs) + 1 /\ N <= N + 1
  BY <1>6
<1>8. a \in Nat /\ b \in Nat /\ a <= b /\ b <= Len(es) /\ b = a + en.num_entries
  <2> HIDE DEF hs
  <2>1. /\ \A i \in 1..(Len(hs) + 1) : EntriesBefore(hs, i) \in Nat
        /\ \A i \in 1..Len(hs) : EntriesBefore(hs, i + 1) = EntriesBefore(hs, i) + hs[i].num_entries
        /\ \A i, j \in 1..(Len(hs) + 1) : i <= j => EntriesBefore(hs, i) <= EntriesBefore(hs, j)
    BY <1>5, EntriesSteps
  <2>2. N \in 1..Len(hs)
    BY DEF hs
  <2> QED BY <1>5, <1>7, <2>1, <2>2 DEF hs
<1>9. Len(cs) = en.num_entries
  <2>1. PICK Q : es \in Seq(Q)
    BY <1>5 DEF Listed
  <2>2. cs = SubSeq(es, a + 1, b)
    BY DEF XorbChunks
  <2> DEFINE m == en.num_entries
  <2>3. m \in Nat
    BY <1>5
  <2> HIDE DEF a, b, es, cs, m
  <2>4. Len(cs) = b - a
    BY <1>8, <2>1, <2>2, Taken, SMTT(30)
  <2>5. b = a + m
    BY <1>8 DEF m
  <2>6. Len(cs) = m
    BY <1>8, <2>3, <2>4, <2>5
  <2> QED BY <2>6 DEF cs, m
<1>10. K \in 1..Len(rs)
  BY <1>1, <1>4, <1>9
<1>11. cs[K].start = SumSeq(First(Lens(rs), K - 1))
  BY <1>1, <1>4, <1>10
<1>12. RegionsAt(x, SumSeq(First(Lens(x.regions), K - 1))) = {K}
  BY <1>3, <1>10, RegionAtStart
<1> QED BY <1>1, <1>3, <1>10, <1>11, <1>12 DEF ChunkAt

\* A planned chunk is where its plan says, its raw hash is that of its lookup
\* entries, and its xorb is one of the shard.
PlannedGood(X, P, p) ==
  /\ GoodPlace(X, p.raw_hash, [xorb |-> p.xorb_hash, index |-> p.chunk_index])
  /\ \A l \in 1..Len(P.chunk_lookup_entries) :
       P.chunk_lookup_entries[l].xorb_hash = p.xorb_hash /\ P.chunk_lookup_entries[l].chunk_index = p.chunk_index
         => P.chunk_lookup_entries[l].chunk_hash = p.raw_hash
  /\ \E N \in 1..Len(P.xorb_entries) : P.xorb_entries[N].xorb_hash = p.xorb_hash

\* What a valid shard plans is there.
LEMMA PlannedChunkIs ==
  ASSUME Lz4Bounded, NEW X, SealedIn(X), NEW P, ParseTyped(P), ValidIn(X, P),
         NEW i \in 1..Len(P.file_entries), NEW k \in 1..Len(Plan(P, i))
  PROVE  PlannedGood(X, P, Plan(P, i)[k])
<1> DEFINE p == Plan(P, i)[k]
           ls == P.chunk_lookup_entries
           fh == P.file_entries[i].file_hash
<1>1. FileValidIn(X, P, i)
  BY DEF ValidIn
<1>2. Plans(P, fh, i) /\ ReadIn(X, Plan(P, i))
  BY <1>1 DEF FileValidIn
<1>3. PICK j \in 1..Len(Segments(P, i)) :
        \E q \in 1..(Segments(P, i)[j].end - Segments(P, i)[j].start) : p = PlannedChunks(P, Segments(P, i)[j])[q]
  BY <1>2, PlanTyped
<1> DEFINE sg == Segments(P, i)[j]
           h == sg.xorb_hash
           a == sg.start
           b == sg.end
           N == XorbNumber(P, h)
           cs == XorbChunks(P, N)
<1>4. PICK q \in 1..(b - a) : p = PlannedChunks(P, sg)[q]
  BY <1>3
<1>5. a \in Nat /\ b \in Nat
  BY <1>2, SegmentsTyped DEF Plans
<1>6. SegmentPlans(P, sg) /\ TablesPlan(P)
  BY <1>2 DEF Plans
<1> HIDE DEF sg, p
<1>7. /\ \E n \in 1..Len(P.xorb_entries) : P.xorb_entries[n].xorb_hash = h
      /\ b <= Len(cs)
      /\ \A n \in a..(b - 1) : LookupsFor(P, h, n) # {}
  BY <1>6 DEF SegmentPlans
<1>8. N \in 1..Len(P.xorb_entries) /\ P.xorb_entries[N].xorb_hash = h
  BY <1>7 DEF XorbNumber
<1> DEFINE K == a + q
           x == a + q - 1
           lk == CHOOSE l \in LookupsFor(P, h, x) : TRUE
<1>9. /\ p.xorb_hash = h /\ p.chunk_index = x /\ p.start = cs[K].start /\ p.raw_hash = ls[lk].chunk_hash
  <2> DEFINE R(m) == ls[CHOOSE l \in LookupsFor(P, h, a + m - 1) : TRUE].chunk_hash
             F(m) ==
          [xorb_hash |-> h, chunk_index |-> a + m - 1, start |-> cs[a + m].start, unpacked |-> cs[a + m].unpacked,
           serialized_hash |-> cs[a + m].chunk_hash, raw_hash |-> R(m)]
  <2>1. PlannedChunks(P, sg) = [m \in 1..(b - a) |-> F(m)]
    BY Zenon DEF PlannedChunks
  <2>2. R(q) = ls[lk].chunk_hash
    OBVIOUS
  <2> HIDE DEF R
  <2>3. F(q).xorb_hash = h /\ F(q).chunk_index = x /\ F(q).start = cs[K].start /\ F(q).raw_hash = R(q)
    <3> HIDE DEF h, cs, a
    <3> QED OBVIOUS
  <2> HIDE DEF F, a, b
  <2>4. p = F(q)
    BY <1>4, <2>1
  <2> QED BY <2>2, <2>3, <2>4, Zenon
<1>10. K \in 1..b /\ x \in a..(b - 1) /\ x \in Nat /\ x + 1 = K /\ a + q = K
  <2> HIDE DEF a, b
  <2> QED BY <1>5
<1>11. Len(cs) \in Nat
  <2> DEFINE hs == P.xorb_entries
             es == P.xorb_chunk_entries
             A == EntriesBefore(hs, N)
             B == EntriesBefore(hs, N + 1)
  <2>1. Listed(hs) /\ Listed(es) /\ (\A n \in 1..Len(hs) : hs[n].num_entries \in Nat) /\ EntriesBefore(hs, Len(hs) + 1) = Len(es)
    BY DEF ParseTyped, ValidIn
  <2>2. Len(hs) \in Nat /\ Len(es) \in Nat
    BY <2>1, ListedLen
  <2>3. N \in 1..(Len(hs) + 1) /\ N + 1 \in 1..(Len(hs) + 1) /\ Len(hs) + 1 \in 1..(Len(hs) + 1) /\ N + 1 <= Len(hs) + 1 /\ N <= N + 1
    <3> HIDE DEF N
    <3> QED BY <1>8, <2>2
  <2>4. A \in Nat /\ B \in Nat /\ A <= B /\ B <= Len(es)
    <3>0. N \in 1..(Len(hs) + 1) /\ N + 1 \in 1..(Len(hs) + 1)
      BY <2>3
    <3> HIDE DEF hs, N
    <3>1. /\ \A n \in 1..(Len(hs) + 1) : EntriesBefore(hs, n) \in Nat
          /\ \A n, m \in 1..(Len(hs) + 1) : n <= m => EntriesBefore(hs, n) <= EntriesBefore(hs, m)
      BY <2>1, EntriesSteps
    <3> QED BY <2>1, <2>3, <3>1
  <2>5. PICK Q : es \in Seq(Q)
    BY <2>1 DEF Listed
  <2>6. cs = SubSeq(es, A + 1, B)
    BY DEF XorbChunks
  <2> HIDE DEF A, B, es, cs
  <2>7. cs \in Seq(Q)
    BY <2>4, <2>5, <2>6, Taken
  <2> QED BY <2>7, LenProperties DEF cs
<1>12. K \in 1..Len(cs)
  <2> HIDE DEF K, cs, b
  <2> QED BY <1>5, <1>7, <1>10, <1>11
<1>13. /\ h \in DOMAIN X /\ X[h].regions \in Seq(Regions) /\ K \in 1..Len(X[h].regions)
       /\ RegionsAt(X[h], cs[K].start) = {K}
  <2>1. N \in 1..Len(P.xorb_entries) /\ h = P.xorb_entries[N].xorb_hash /\ K \in 1..Len(XorbChunks(P, N))
    BY <1>8, <1>12
  <2> HIDE DEF N, K, h
  <2>2. ChunkAt(X, P, N, P.xorb_entries[N].xorb_hash, K)
    BY <2>1, ChunksOf
  <2>3. ChunkAt(X, P, N, h, K)
    BY <2>1, <2>2
  <2> QED BY <2>3 DEF ChunkAt
<1> DEFINE r == X[h].regions[K]
<1>14. /\ ChunkExtracts(X[h], p.start, p.unpacked, p.serialized_hash)
       /\ DataHash(ExtractedChunk(X[h], p.start)) = p.raw_hash
  BY <1>2, <1>9 DEF ReadIn, p
<1>15. RegionsAt(X[h], p.start) = {K}
  BY <1>9, <1>13
<1> HIDE DEF K, x, h, cs, lk
<1>16. Decompresses(r.scheme, r.payload, r.unpacked)
  BY <1>14, <1>15 DEF ChunkExtracts
<1>17. DataHash(Decompress(r.scheme, r.payload)) = p.raw_hash
  <2>1. (CHOOSE m \in RegionsAt(X[h], p.start) : TRUE) = K
    BY <1>15
  <2>2. ExtractedChunk(X[h], p.start) = Decompress(r.scheme, r.payload)
    BY <2>1, Zenon DEF ExtractedChunk
  <2> QED BY <1>14, <2>2
<1>18. GoodPlace(X, p.raw_hash, [xorb |-> p.xorb_hash, index |-> p.chunk_index])
  <2> DEFINE pl == [xorb |-> p.xorb_hash, index |-> p.chunk_index]
  <2>1. pl.xorb = h /\ pl.index = x
    BY <1>9
  <2> HIDE DEF pl
  <2>2. x < Len(X[h].regions)
    <3> DEFINE m == Len(X[h].regions)
    <3>1. m \in Nat /\ K \in 1..m
      BY <1>13, LenProperties
    <3> HIDE DEF m
    <3>2. x < m
      BY <1>10, <3>1
    <3> QED BY <3>2 DEF m
  <2>3. GoodPlace(X, p.raw_hash, pl)
    BY <1>10, <1>13, <1>16, <1>17, <2>1, <2>2, Zenon DEF GoodPlace
  <2> QED BY <2>3 DEF pl
<1>19. ASSUME NEW l \in 1..Len(ls), ls[l].xorb_hash = p.xorb_hash, ls[l].chunk_index = p.chunk_index
       PROVE  ls[l].chunk_hash = p.raw_hash
  <2>1. LookupsFor(P, h, x) # {}
    BY <1>7, <1>10 DEF h
  <2>2. lk \in LookupsFor(P, h, x)
    <3>1. \E m : m \in LookupsFor(P, h, x)
      BY <2>1
    <3> QED BY <3>1, Zenon DEF lk
  <2>3. lk \in 1..Len(ls) /\ ls[lk].xorb_hash = h /\ ls[lk].chunk_index = x
    BY <2>2 DEF LookupsFor
  <2>4. l = lk
    BY <1>6, <1>9, <1>19, <2>3, Zenon DEF TablesPlan
  <2> QED BY <1>9, <2>4
<1>20. \E n \in 1..Len(P.xorb_entries) : P.xorb_entries[n].xorb_hash = p.xorb_hash
  BY <1>7, <1>9 DEF h
<1> QED BY <1>18, <1>19, <1>20, Zenon DEF PlannedGood, p

\* Every lookup entry that a validation registers is of a chunk that is
\* where the entry says.
LookupGood(X, c) == GoodPlace(X, c.chunk_hash, [xorb |-> c.xorb_hash, index |-> c.chunk_index])

\* The lookup entries that validation registers are true.
LEMMA ValidatedGood ==
  ASSUME Lz4Bounded, NEW X, SealedIn(X), NEW P, ParseTyped(P), ValidIn(X, P)
  PROVE  /\ Len(ValidatedLookups(P)) \in Nat
         /\ \A k \in 1..Len(ValidatedLookups(P)) : LookupGood(X, ValidatedLookups(P)[k])
<1> DEFINE ls == P.chunk_lookup_entries
           n == Len(ls)
           read == ValidatedChunks(P)
           A == {ls[i] : i \in 1..n}
           s == [i \in 1..n |-> IF <<ls[i].xorb_hash, ls[i].chunk_index>> \in read THEN <<ls[i]>> ELSE << >>]
<1>1. n \in Nat
  BY ListedLen DEF ParseTyped
<1>2. ValidatedLookups(P) = Concat(s)
  BY Zenon DEF ValidatedLookups
<1>3. ASSUME NEW i \in 1..n PROVE s[i] \in Seq(A) /\ (<<ls[i].xorb_hash, ls[i].chunk_index>> \in read => s[i] = <<ls[i]>>)
                                 /\ (<<ls[i].xorb_hash, ls[i].chunk_index>> \notin read => s[i] = << >>)
  <2>1. s[i] = IF <<ls[i].xorb_hash, ls[i].chunk_index>> \in read THEN <<ls[i]>> ELSE << >>
    OBVIOUS
  <2>2. ls[i] \in A
    OBVIOUS
  <2> HIDE DEF s, A, read
  <2>3. <<ls[i]>> \in Seq(A) /\ << >> \in Seq(A)
    BY <2>2
  <2> QED BY <2>1, <2>3, Zenon
<1>4. s \in [1..n -> Seq(A)]
  <2>1. s = [i \in 1..n |-> s[i]]
    OBVIOUS
  <2> HIDE DEF s, A
  <2> QED BY <1>3, <2>1
<1> HIDE DEF s, A, read
<1>5. Concat(s) \in Seq(A)
  BY <1>1, <1>4, ConcatLen
<1>6. Len(Concat(s)) \in Nat
  BY <1>5, LenProperties
<1>7. ASSUME NEW k \in 1..Len(Concat(s)) PROVE LookupGood(X, Concat(s)[k])
  <2>1. FromOne(s, n, Concat(s)[k])
    BY <1>1, <1>4, ConcatFrom
  <2>2. PICK i \in 1..n : \E m \in 1..Len(s[i]) : Concat(s)[k] = s[i][m]
    BY <2>1 DEF FromOne
  <2>3. PICK m \in 1..Len(s[i]) : Concat(s)[k] = s[i][m]
    BY <2>2
  <2>4. <<ls[i].xorb_hash, ls[i].chunk_index>> \in read
    <3>1. CASE s[i] = << >>
      BY <2>3, <3>1
    <3> QED BY <1>3, <3>1
  <2>5. s[i] = <<ls[i]>>
    BY <1>3, <2>4
  <2>6. Concat(s)[k] = ls[i]
    BY <2>3, <2>5
  <2>7. PICK j \in 1..Len(P.file_entries) : \E q \in 1..Len(Plan(P, j)) :
          <<ls[i].xorb_hash, ls[i].chunk_index>> = <<Plan(P, j)[q].xorb_hash, Plan(P, j)[q].chunk_index>>
    BY <2>4 DEF read, ValidatedChunks
  <2>8. PICK q \in 1..Len(Plan(P, j)) :
          ls[i].xorb_hash = Plan(P, j)[q].xorb_hash /\ ls[i].chunk_index = Plan(P, j)[q].chunk_index
    BY <2>7
  <2> DEFINE p == Plan(P, j)[q]
  <2>9. PlannedGood(X, P, p)
    BY PlannedChunkIs
  <2>10. ls[i].xorb_hash = p.xorb_hash /\ ls[i].chunk_index = p.chunk_index
    BY <2>8
  <2> HIDE DEF p
  <2>11. ls[i].chunk_hash = p.raw_hash
    BY <2>9, <2>10 DEF PlannedGood
  <2>12. GoodPlace(X, p.raw_hash, [xorb |-> p.xorb_hash, index |-> p.chunk_index])
    BY <2>9 DEF PlannedGood
  <2> QED BY <2>6, <2>10, <2>11, <2>12, Zenon DEF LookupGood
<1> QED BY <1>2, <1>6, <1>7, Zenon

\* What the index says of the stored objects: T are the shards that it does
\* not have to know.
IndexInv(X, H, map, places, T) ==
  /\ MapTyped(map)
  /\ GoodRefs(X, H, map)
  /\ \A id \in DOMAIN H : id \notin T => HasRefs(X, H, map, id)
  /\ GoodPlaces(X, places)

\* Objects are added: the index stays as good as it is.
LEMMA IndexKeeps ==
  ASSUME NEW X, NEW Y, Extends(X, Y), NEW H, NEW K, Extends(H, K), GoodShards(X, H),
         NEW map, NEW places, NEW T, NEW U, IndexInv(X, H, map, places, T),
         \A id \in DOMAIN K : id \notin U => id \in DOMAIN H /\ id \notin T
  PROVE  IndexInv(Y, K, map, places, U)
<1>1. MapTyped(map) /\ GoodRefs(X, H, map) /\ GoodPlaces(X, places)
  BY DEF IndexInv
<1>2. GoodRefs(Y, K, map)
  BY <1>1, RefsKeep
<1>3. GoodPlaces(Y, places)
  BY <1>1, PlacesKeep
<1>4. ASSUME NEW id \in DOMAIN K, id \notin U PROVE HasRefs(Y, K, map, id)
  <2>1. id \in DOMAIN H /\ HasRefs(X, H, map, id)
    BY <1>4 DEF IndexInv
  <2>2. \A h : Refs(map, h) \subseteq Refs(map, h)
    OBVIOUS
  <2> QED BY <2>1, <2>2, HasKeeps
<1> QED BY <1>1, <1>2, <1>3, <1>4, Zenon DEF IndexInv

\* A registration of a good shard with good lookup entries makes the index
\* know that shard.
GoodReg(X, H, reg) ==
  /\ reg.shard \in DOMAIN H
  /\ reg.files = FileRegs(X, Parse(H[reg.shard]))
  /\ Len(reg.chunks) \in Nat
  /\ \A k \in 1..Len(reg.chunks) : LookupGood(X, reg.chunks[k])

\* A registration of a valid shard has no size conflict and keeps the index
\* good.
LEMMA RegisterKeeps ==
  ASSUME Lz4Bounded, NEW X, SealedIn(X), NEW H, GoodShards(X, H), NEW T, NEW reg, GoodReg(X, H, reg),
         IndexInv(X, H, file_to_shards, chunk_to_xorb, T), Register(reg)
  PROVE  /\ ~SizeConflict(reg)
         /\ IndexInv(X, H, file_to_shards', chunk_to_xorb', T \ {reg.shard})
<1>1. MapTyped(file_to_shards) /\ GoodRefs(X, H, file_to_shards) /\ GoodPlaces(X, chunk_to_xorb)
  BY DEF IndexInv
<1>2. reg.shard \in DOMAIN H /\ reg.files = FileRegs(X, Parse(H[reg.shard])) /\ Len(reg.chunks) \in Nat
  BY DEF GoodReg
<1>3. /\ ~SizeConflict(reg)
      /\ MapTyped(file_to_shards') /\ GoodRefs(X, H, file_to_shards')
      /\ HasRefs(X, H, file_to_shards', reg.shard)
      /\ \A h : Refs(file_to_shards, h) \subseteq Refs(file_to_shards', h)
      /\ Placed(chunk_to_xorb, reg, Len(reg.chunks), chunk_to_xorb')
  BY <1>1, <1>2, RegisterIs
<1>4. ASSUME NEW id \in DOMAIN H, id \notin T \ {reg.shard} PROVE HasRefs(X, H, file_to_shards', id)
  <2>1. CASE id = reg.shard
    BY <1>3, <2>1, Zenon
  <2>2. CASE id \notin T
    <3>1. HasRefs(X, H, file_to_shards, id)
      BY <2>2 DEF IndexInv
    <3>2. Extends(X, X) /\ Extends(H, H)
      BY DEF Extends
    <3>3. \A h : Refs(file_to_shards, h) \subseteq Refs(file_to_shards', h)
      BY <1>3
    <3> QED BY <3>1, <3>2, <3>3, HasKeeps
  <2> QED BY <1>4, <2>1, <2>2
<1>5. GoodPlaces(X, chunk_to_xorb')
  <2>1. ASSUME NEW c \in DOMAIN chunk_to_xorb' PROVE GoodPlace(X, c, chunk_to_xorb'[c])
    <3>1. CASE c \in DOMAIN chunk_to_xorb /\ chunk_to_xorb'[c] = chunk_to_xorb[c]
      BY <1>1, <3>1 DEF GoodPlaces
    <3>2. CASE \E j \in 1..Len(reg.chunks) :
                 /\ c = reg.chunks[j].chunk_hash
                 /\ chunk_to_xorb'[c] = [xorb |-> reg.chunks[j].xorb_hash, index |-> reg.chunks[j].chunk_index]
      BY <3>2, Zenon DEF GoodReg, LookupGood
    <3> QED BY <1>3, <3>1, <3>2, Zenon DEF Placed
  <2> QED BY <2>1, Zenon DEF GoodPlaces
<1> QED BY <1>3, <1>4, <1>5, Zenon DEF IndexInv

\* What validation registers is good.
LEMMA ValidRegistration ==
  ASSUME Lz4Bounded, NEW X, X = xorbs, SealedIn(X), NEW H, NEW id \in DOMAIN H, GoodShards(X, H), NEW P, P = Parse(H[id])
  PROVE  GoodReg(X, H, Registration(P, id)) /\ Registration(P, id).shard = id
<1> DEFINE reg == Registration(P, id)
<1>1. ParseTyped(P) /\ ValidIn(X, P)
  BY DEF GoodShards, GoodShard
<1>2. reg.shard = id /\ reg.chunks = ValidatedLookups(P)
  BY DEF Registration
<1>3. reg.files = FileRegs(X, P)
  <2>1. reg.files = [i \in 1..Len(P.file_entries) |->
                [file_hash |-> P.file_entries[i].file_hash, file_index |-> i,
                 file_size |-> Len(Concat(ChunkBytes(Plan(P, i))))]]
    BY DEF Registration
  <2>2. \A i \in 1..Len(P.file_entries) : ChunkBytes(Plan(P, i)) = BytesIn(X, Plan(P, i))
    BY Zenon DEF ChunkBytes, BytesIn
  <2> HIDE DEF reg
  <2> QED BY <2>1, <2>2, Zenon DEF FileRegs, SizeOf
<1>4. Len(ValidatedLookups(P)) \in Nat /\ \A k \in 1..Len(ValidatedLookups(P)) : LookupGood(X, ValidatedLookups(P)[k])
  BY <1>1, ValidatedGood
<1> HIDE DEF reg
<1>5. GoodReg(X, H, reg)
  BY <1>2, <1>3, <1>4, Zenon DEF GoodReg
<1> QED BY <1>2, <1>5 DEF reg

\* Storing an object under a key that has no other.
Stored(f, k, v, g) ==
  /\ Extends(f, g) /\ DOMAIN g = DOMAIN f \cup {k} /\ g[k] = v
  /\ \A y \in DOMAIN g : y = k \/ (y \in DOMAIN f /\ g[y] = f[y])

\* Storing under a key that has the same object, or none, adds it and loses
\* none.
LEMMA PutStores ==
  ASSUME NEW f, NEW k, NEW v, k \in DOMAIN f => f[k] = v
  PROVE  Stored(f, k, v, Put(f, k, v)) /\ Stored(f, k, v, PutIfAbsent(f, k, v))
<1>1. Stored(f, k, v, Put(f, k, v))
  <2> DEFINE g == Put(f, k, v)
  <2>1. g = [y \in DOMAIN f \cup {k} |-> IF y = k THEN v ELSE f[y]]
    BY DEF Put
  <2> HIDE DEF g
  <2>2. DOMAIN g = DOMAIN f \cup {k} /\ g[k] = v /\ \A y \in DOMAIN f : y \in DOMAIN g /\ g[y] = f[y]
    BY <2>1
  <2>3. Stored(f, k, v, g)
    BY <2>2 DEF Stored, Extends
  <2> QED BY <2>3 DEF g
<1>2. CASE k \in DOMAIN f
  <2>1. PutIfAbsent(f, k, v) = f
    BY <1>2 DEF PutIfAbsent
  <2>2. Stored(f, k, v, f)
    BY <1>2 DEF Stored, Extends
  <2> QED BY <1>1, <2>1, <2>2
<1>3. CASE k \notin DOMAIN f
  BY <1>1, <1>3 DEF PutIfAbsent
<1> QED BY <1>2, <1>3

\* A sealed xorb is stored: what was under its hash is the same xorb.
LEMMA XorbStored ==
  ASSUME Lz4Bounded, NEW X, SealedIn(X), NEW rs \in Seq(Regions), Len(rs) <= MaxChunks, NEW h, h = XorbHash(Nodes(rs)),
         NEW Y, Y = PutIfAbsent(X, h, SealedXorb(rs))
  PROVE  Stored(X, h, SealedXorb(rs), Y) /\ SealedIn(Y)
<1>1. ASSUME h \in DOMAIN X PROVE X[h] = SealedXorb(rs)
  <2>1. PICK qs \in Seq(Regions) : X[h] = SealedXorb(qs) /\ h = XorbHash(Nodes(qs))
    BY <1>1 DEF SealedIn, SealedAt
  <2>2. qs = rs
    BY <2>1, XorbHashInjective
  <2> QED BY <2>1, <2>2
<1>2. Stored(X, h, SealedXorb(rs), Y)
  BY <1>1, PutStores
<1>3. SealedAt(h, SealedXorb(rs))
  BY DEF SealedAt
<1>4. SealedIn(Y)
  BY <1>2, <1>3, Zenon DEF Stored, SealedIn
<1> QED BY <1>2, <1>4

\* A good shard is stored.
LEMMA ShardStored ==
  ASSUME NEW X, NEW H, GoodShards(X, H), NEW f, GoodShard(X, ShardHash(f), f),
         NEW K, K \in {Put(H, ShardHash(f), f), PutIfAbsent(H, ShardHash(f), f)}
  PROVE  Stored(H, ShardHash(f), f, K) /\ GoodShards(X, K)
<1> DEFINE id == ShardHash(f)
<1>1. ASSUME id \in DOMAIN H PROVE H[id] = f
  <2>1. ShardHash(H[id]) = id
    BY <1>1 DEF GoodShards, GoodShard
  <2> QED BY <2>1 DEF ShardHash
<1> HIDE DEF id
<1>2. Stored(H, id, f, Put(H, id, f)) /\ Stored(H, id, f, PutIfAbsent(H, id, f))
  BY <1>1, PutStores
<1>3. Stored(H, id, f, K)
  BY <1>2 DEF id
<1>4. GoodShards(X, K)
  BY <1>3, Zenon DEF Stored, GoodShards, id
<1> QED BY <1>3, <1>4 DEF id

\* The shard of a conversion passes the validation that it does not get, and
\* what is registered for it is what the validation would have registered of
\* its file.
LEMMA ConversionGood ==
  ASSUME Lz4Bounded, NoWrap, NEW oid \in Oids, NEW s \in Schemes, Len(ContentOf(oid)) <= MaxConversion,
         NEW x, x = ConvertedXorb(ContentOf(oid), s), VerifyXorb(x), NEW f, f = ConvertedShard(oid, x),
         NEW X, SealedIn(X), NEW Y, Y = PutIfAbsent(X, x.footer.xorb_hash, x)
  PROVE  /\ Extends(X, Y) /\ SealedIn(Y)
         /\ Parses(f) /\ GoodShard(Y, ShardHash(f), f)
         /\ Len(Parse(f).file_entries) = 1 /\ Parse(f).file_entries[1].file_hash = oid
         /\ \A K : ShardHash(f) \in DOMAIN K /\ K[ShardHash(f)] = f => GoodReg(Y, K, ConvertedRegistration(oid, x, f))
<1> DEFINE ps == ChunkData(ContentOf(oid))
           rs == PackedRegions(s, ps)
           h == XorbHash(Nodes(rs))
           P == ConvertedParse(oid, h, rs, ps)
           reg == ConvertedRegistration(oid, x, f)
<1>1. ContentOf(oid) \in Seq(Byte)
  BY StoreAssumption DEF ContentOf
<1>2. ps \in Seq(Seq(Byte))
  BY <1>1, ChunksAreContent
<1>3. x = SealedXorb(rs)
  BY ConvertedSealed
<1>4. rs \in Seq(Regions) /\ Len(rs) = Len(ps) /\ Len(ps) \in Nat
  BY <1>2, PackedTyped
<1>5. SumSeq(Lens(rs)) < Word /\ Len(ContentOf(oid)) < Word
  BY DEF NoWrap
<1>6. SumSeq(Sizes(rs)) < Word
  BY <1>1, <1>5, SizesAre
<1> HIDE DEF ps, rs
<1>7. x.regions = rs /\ x.footer.xorb_hash = h /\ x.footer.chunk_hashes = [i \in 1..Len(rs) |-> RegionHash(rs[i])]
  BY <1>3, SealedFields
<1>8. Len(rs) <= MaxChunks
  <2>1. Len(x.footer.chunk_hashes) <= MaxChunks
    BY DEF VerifyXorb, FooterReads
  <2> QED BY <1>4, <1>7, <2>1
<1> HIDE DEF h
<1>9. Stored(X, h, SealedXorb(rs), Y) /\ SealedIn(Y)
  BY <1>3, <1>4, <1>7, <1>8, XorbStored DEF h
<1>10. Extends(X, Y) /\ h \in DOMAIN Y /\ Y[h] = SealedXorb(rs)
  BY <1>9 DEF Stored
<1>11. Framed(f) /\ Parses(f) /\ Parse(f) = P /\ f.lookups = LookupsFrom(h, ps)
  BY <1>2, <1>3, <1>4, <1>5, <1>6, ConvertedParses DEF ps, h
<1> HIDE DEF P
<1>12. /\ ValidIn(Y, P) /\ ParseTyped(P)
       /\ Len(P.file_entries) = 1 /\ P.file_entries[1].file_hash = oid
       /\ Len(Concat(BytesIn(Y, Plan(P, 1)))) = Len(ContentOf(oid))
       /\ \A k \in 1..Len(ps) :
            /\ k <= Len(rs)
            /\ Decompresses(rs[k].scheme, rs[k].payload, rs[k].unpacked)
            /\ DataHash(Decompress(rs[k].scheme, rs[k].payload)) = DataHash(ps[k])
  BY <1>8, <1>10, ConvertedValid DEF P, h, rs, ps
<1>13. GoodShard(Y, ShardHash(f), f)
  BY <1>11, <1>12, Zenon DEF GoodShard
<1>14. reg.shard = ShardHash(f) /\ reg.chunks = f.lookups
       /\ reg.files = <<[file_hash |-> oid, file_index |-> 1, file_size |-> Len(ContentOf(oid))]>>
  BY DEF ConvertedRegistration
<1> HIDE DEF reg
<1>15. reg.files = FileRegs(Y, P)
  <2> DEFINE G(i) == [file_hash |-> P.file_entries[i].file_hash, file_index |-> i, file_size |-> SizeOf(Y, P, i)]
  <2>1. FileRegs(Y, P) = [i \in 1..1 |-> G(i)]
    BY <1>12, Zenon DEF FileRegs
  <2>2. G(1) = [file_hash |-> oid, file_index |-> 1, file_size |-> Len(ContentOf(oid))]
    BY <1>12, Zenon DEF SizeOf
  <2> HIDE DEF G
  <2>3. [i \in 1..1 |-> G(i)] = <<G(1)>>
    OBVIOUS
  <2> QED BY <1>14, <2>1, <2>2, <2>3, Zenon
<1>16. Len(LookupsFrom(h, ps)) = Len(ps) /\ \A k \in 1..Len(ps) : LookupsFrom(h, ps)[k] = Lookup(DataHash(ps[k]), h, k - 1)
  <2> DEFINE G(k) == Lookup(DataHash(ps[k]), h, k - 1)
             n == Len(ps)
  <2>1. LookupsFrom(h, ps) = [k \in 1..n |-> G(k)]
    BY DEF LookupsFrom
  <2> HIDE DEF G, n
  <2>2. Len(LookupsFrom(h, ps)) = n /\ \A k \in 1..n : LookupsFrom(h, ps)[k] = G(k)
    BY <1>4, <2>1 DEF n
  <2> QED BY <2>2 DEF G, n
<1>17. ASSUME NEW k \in 1..Len(ps) PROVE LookupGood(Y, LookupsFrom(h, ps)[k])
  <2> DEFINE c == LookupsFrom(h, ps)[k]
             pl == [xorb |-> c.xorb_hash, index |-> c.chunk_index]
  <2>1. c.chunk_hash = DataHash(ps[k]) /\ c.xorb_hash = h /\ c.chunk_index = k - 1
    <3> DEFINE d == DataHash(ps[k])
               i == k - 1
    <3>1. c = Lookup(d, h, i)
      BY <1>16
    <3> HIDE DEF c, d, i
    <3>2. c.chunk_hash = d /\ c.xorb_hash = h /\ c.chunk_index = i
      BY <3>1 DEF Lookup
    <3> QED BY <3>2 DEF d, i
  <2> HIDE DEF c
  <2>2. pl.xorb = h /\ pl.index = k - 1
    BY <2>1
  <2>3. k - 1 \in Nat /\ k - 1 < Len(rs) /\ (k - 1) + 1 = k
    <3> DEFINE n == Len(ps)
    <3>1. n \in Nat /\ k \in 1..n /\ Len(rs) = n
      BY <1>4
    <3> HIDE DEF n
    <3> QED BY <3>1
  <2>4. Y[h].regions = rs
    BY <1>10, SealedFields
  <2> HIDE DEF pl
  <2> DEFINE i == k - 1
             r == rs[k]
  <2>5. i \in Nat /\ i < Len(rs) /\ i + 1 = k /\ pl.index = i
    BY <2>2, <2>3
  <2>6. Decompresses(r.scheme, r.payload, r.unpacked) /\ DataHash(Decompress(r.scheme, r.payload)) = DataHash(ps[k])
    BY <1>12
  <2> HIDE DEF i
  <2>7. Y[h].regions[pl.index + 1] = r /\ pl.index < Len(Y[h].regions) /\ pl.index \in Nat
    BY <2>4, <2>5
  <2> HIDE DEF r
  <2>8. GoodPlace(Y, DataHash(ps[k]), pl)
    BY <1>10, <2>2, <2>6, <2>7, Zenon DEF GoodPlace
  <2> QED BY <2>1, <2>8, Zenon DEF LookupGood, pl, c
<1>18. ASSUME NEW K, ShardHash(f) \in DOMAIN K /\ K[ShardHash(f)] = f PROVE GoodReg(Y, K, reg)
  <2>1. Len(reg.chunks) = Len(ps) /\ \A k \in 1..Len(ps) : LookupGood(Y, reg.chunks[k])
    BY <1>11, <1>14, <1>16, <1>17, Zenon
  <2>2. Len(reg.chunks) \in Nat /\ \A k \in 1..Len(reg.chunks) : LookupGood(Y, reg.chunks[k])
    BY <1>4, <2>1, Zenon
  <2> QED BY <1>11, <1>14, <1>15, <1>18, <2>2, Zenon DEF GoodReg
<1> QED BY <1>9, <1>10, <1>11, <1>12, <1>13, <1>18, Zenon DEF reg

-----------------------------------------------------------------------------
(* The invariant of the store.                                             *)

\* A stored shard has a file with this hash.
OnFile(H, oid) == \E id \in DOMAIN H : \E i \in 1..Len(FilesOf(H, id)) : FilesOf(H, id)[i].file_hash = oid

\* The inductive invariant of the store.
StoreInv ==
  /\ raw \subseteq Oids /\ acked \subseteq Oids
  /\ todo \subseteq DOMAIN shards
  /\ SealedIn(xorbs)
  /\ GoodShards(xorbs, shards)
  /\ IndexInv(xorbs, shards, file_to_shards, chunk_to_xorb, todo)
  /\ \A oid \in acked \ raw : OnFile(shards, oid)

\* A file stays on file when shards are added.
LEMMA OnFileKeeps ==
  ASSUME NEW H, NEW K, Extends(H, K), NEW oid, OnFile(H, oid)
  PROVE  OnFile(K, oid)
  BY DEF OnFile, Extends, FilesOf

\* An empty index is good as long as no shard has to be in it.
LEMMA EmptyIndex ==
  ASSUME NEW X, NEW H, NEW T, DOMAIN H \subseteq T
  PROVE  IndexInv(X, H, NoEntries, NoEntries, T)
<1>1. DOMAIN NoEntries = {}
  BY DEF NoEntries
<1>2. MapTyped(NoEntries) /\ GoodPlaces(X, NoEntries)
  BY <1>1 DEF MapTyped, GoodPlaces
<1>3. \A h : Refs(NoEntries, h) = {}
  BY <1>1 DEF Refs
<1>4. GoodRefs(X, H, NoEntries)
  BY <1>3, Zenon DEF GoodRefs
<1> QED BY <1>2, <1>4 DEF IndexInv

\* The invariant holds at the start.
LEMMA StoreStarts ==
  ASSUME StoreInit
  PROVE  StoreInv
<1>1. DOMAIN xorbs = {} /\ DOMAIN shards = {}
  BY DEF StoreInit, NoEntries
<1>2. SealedIn(xorbs) /\ GoodShards(xorbs, shards)
  BY <1>1 DEF SealedIn, GoodShards
<1>3. IndexInv(xorbs, shards, NoEntries, NoEntries, todo)
  BY <1>1, EmptyIndex
<1>4. raw = {} /\ acked = {} /\ todo = {} /\ file_to_shards = NoEntries /\ chunk_to_xorb = NoEntries
  BY DEF StoreInit
<1> QED BY <1>2, <1>3, <1>4 DEF StoreInv

\* upload_lfs_object keeps the invariant.
LEMMA BlobStep ==
  ASSUME StoreInv, NEW oid \in Oids, UploadBlob(oid)
  PROVE  StoreInv'
<1>1. /\ raw' = raw \cup {oid} /\ acked' = acked \cup {oid} /\ xorbs' = xorbs /\ shards' = shards
      /\ file_to_shards' = file_to_shards /\ chunk_to_xorb' = chunk_to_xorb /\ todo' = todo
  BY DEF UploadBlob
<1>2. \A o \in acked' \ raw' : o \in acked \ raw
  BY <1>1
<1>3. raw' \subseteq Oids /\ acked' \subseteq Oids
  BY <1>1 DEF StoreInv
<1> QED BY <1>1, <1>2, <1>3 DEF StoreInv

\* upload_xorb keeps the invariant: what it verifies is sealed.
LEMMA XorbStep ==
  ASSUME Lz4Bounded, StoreInv, NEW x \in XorbUploads, UploadXorb(x)
  PROVE  StoreInv'
<1> DEFINE rs == x.regions
           h == x.footer.xorb_hash
<1>1. /\ xorbs' = PutIfAbsent(xorbs, h, x) /\ VerifyXorbFromFile(x) /\ raw' = raw /\ acked' = acked /\ shards' = shards
      /\ file_to_shards' = file_to_shards /\ chunk_to_xorb' = chunk_to_xorb /\ todo' = todo
  BY DEF UploadXorb
<1>2. rs \in Seq(Regions) /\ x = SealedXorb(rs) /\ Len(rs) <= MaxChunks
  BY <1>1, StoreAssumption, VerifiedSealed
<1>3. h = XorbHash(Nodes(rs))
  BY <1>2, SealedFields
<1> HIDE DEF rs, h
<1>4. SealedIn(xorbs) /\ GoodShards(xorbs, shards)
  BY DEF StoreInv
<1>5. Stored(xorbs, h, SealedXorb(rs), xorbs') /\ SealedIn(xorbs')
  BY <1>1, <1>2, <1>3, <1>4, XorbStored
<1>6. Extends(xorbs, xorbs') /\ Extends(shards, shards')
  BY <1>1, <1>5 DEF Stored, Extends
<1>7. GoodShards(xorbs', shards')
  BY <1>1, <1>4, <1>6, ShardKeeps DEF GoodShards
<1>8. IndexInv(xorbs', shards', file_to_shards', chunk_to_xorb', todo')
  <2>1. \A id \in DOMAIN shards' : id \notin todo' => id \in DOMAIN shards /\ id \notin todo
    BY <1>1
  <2>2. IndexInv(xorbs, shards, file_to_shards, chunk_to_xorb, todo)
    BY DEF StoreInv
  <2>3. IndexInv(xorbs', shards', file_to_shards, chunk_to_xorb, todo')
    BY <1>4, <1>6, <2>1, <2>2, IndexKeeps
  <2> QED BY <1>1, <2>3
<1> QED BY <1>1, <1>5, <1>7, <1>8 DEF StoreInv

\* upload_shard keeps the invariant: what it validates is good.
LEMMA ShardStep ==
  ASSUME Lz4Bounded, StoreInv, NEW f \in ShardUploads, UploadShard(f)
  PROVE  StoreInv'
<1> DEFINE id == ShardHash(f)
           P == Parse(f)
           reg == Registration(P, id)
<1>1. /\ todo = {} /\ Parses(f) /\ ShardValid(P) /\ shards' = PutIfAbsent(shards, id, f) /\ Register(reg)
      /\ raw' = raw /\ acked' = acked /\ xorbs' = xorbs /\ todo' = todo
  BY DEF UploadShard, Serving
<1>2. ParseTyped(P)
  BY <1>1, StoreAssumption, ShardTyped
<1>3. ValidIn(xorbs, P)
  BY <1>1, ValidIs
<1>4. GoodShard(xorbs, id, f)
  BY <1>1, <1>2, <1>3, StoreAssumption, FileFramed DEF GoodShard
<1>5. SealedIn(xorbs) /\ GoodShards(xorbs, shards) /\ IndexInv(xorbs, shards, file_to_shards, chunk_to_xorb, todo)
  BY DEF StoreInv
<1>6. Stored(shards, id, f, shards') /\ GoodShards(xorbs, shards')
  <2>1. shards' \in {Put(shards, ShardHash(f), f), PutIfAbsent(shards, ShardHash(f), f)}
    BY <1>1
  <2> QED BY <1>4, <1>5, <2>1, ShardStored
<1> HIDE DEF id, P
<1>7. Extends(shards, shards') /\ DOMAIN shards' = DOMAIN shards \cup {id} /\ shards'[id] = f /\ id \in DOMAIN shards'
  BY <1>6 DEF Stored
<1>8. IndexInv(xorbs, shards', file_to_shards, chunk_to_xorb, {id})
  <2>1. \A k \in DOMAIN shards' : k \notin {id} => k \in DOMAIN shards /\ k \notin todo
    BY <1>1, <1>7
  <2>2. Extends(xorbs, xorbs)
    BY DEF Extends
  <2> QED BY <1>5, <1>7, <2>1, <2>2, IndexKeeps
<1>9. GoodReg(xorbs, shards', reg) /\ reg.shard = id
  <2>1. P = Parse(shards'[id])
    BY <1>7 DEF P
  <2> QED BY <1>5, <1>6, <1>7, <2>1, ValidRegistration
<1> HIDE DEF reg
<1>10. IndexInv(xorbs, shards', file_to_shards', chunk_to_xorb', {id} \ {reg.shard})
  BY <1>1, <1>5, <1>6, <1>8, <1>9, RegisterKeeps
<1>11. {id} \ {reg.shard} = todo'
  BY <1>1, <1>9
<1>12. IndexInv(xorbs', shards', file_to_shards', chunk_to_xorb', todo')
  BY <1>1, <1>10, <1>11
<1>13. \A oid \in acked \ raw : OnFile(shards', oid)
  BY <1>7, OnFileKeeps DEF StoreInv
<1> QED BY <1>1, <1>5, <1>6, <1>12, <1>13 DEF StoreInv

\* A restart keeps the invariant: it owes the index every shard.
LEMMA RestartStep ==
  ASSUME StoreInv, Restart
  PROVE  StoreInv'
<1>1. /\ raw' = raw /\ acked' = acked /\ xorbs' = xorbs /\ shards' = shards
      /\ file_to_shards' = NoEntries /\ chunk_to_xorb' = NoEntries /\ todo' = DOMAIN shards
  BY DEF Restart
<1>2. DOMAIN shards' \subseteq todo'
  BY <1>1
<1>3. IndexInv(xorbs', shards', NoEntries, NoEntries, todo')
  BY <1>2, EmptyIndex
<1> QED BY <1>1, <1>3 DEF StoreInv

\* rebuild_from_storage keeps the invariant: it skips no stored shard.
LEMMA RebuildStep ==
  ASSUME Lz4Bounded, StoreInv, NEW id \in DOMAIN shards, RebuildShard(id)
  PROVE  StoreInv'
<1> DEFINE P == Parse(shards[id])
           reg == Registration(P, id)
<1>1. raw' = raw /\ acked' = acked /\ xorbs' = xorbs /\ shards' = shards /\ todo' = todo \ {id}
  BY DEF RebuildShard
<1>2. SealedIn(xorbs) /\ GoodShards(xorbs, shards) /\ IndexInv(xorbs, shards, file_to_shards, chunk_to_xorb, todo)
  BY DEF StoreInv
<1>3. Parses(shards[id]) /\ ValidIn(xorbs, P)
  BY <1>2 DEF GoodShards, GoodShard
<1>4. ShardValid(P)
  BY <1>3, ValidIs
<1>5. Register(reg)
  BY <1>3, <1>4 DEF RebuildShard
<1> HIDE DEF P
<1>6. GoodReg(xorbs, shards, reg) /\ reg.shard = id
  BY <1>2, ValidRegistration DEF P
<1> HIDE DEF reg
<1>7. IndexInv(xorbs, shards, file_to_shards', chunk_to_xorb', todo \ {reg.shard})
  BY <1>2, <1>5, <1>6, RegisterKeeps
<1>8. IndexInv(xorbs', shards', file_to_shards', chunk_to_xorb', todo')
  BY <1>1, <1>6, <1>7
<1> QED BY <1>1, <1>8 DEF StoreInv

\* convert keeps the invariant: what it builds is sealed and good.
LEMMA ConvertStep ==
  ASSUME Lz4Bounded, NoWrap, StoreInv, NEW oid \in Oids, NEW s \in Schemes, Convert(oid, s)
  PROVE  StoreInv'
<1> DEFINE x == ConvertedXorb(ContentOf(oid), s)
           f == ConvertedShard(oid, x)
           reg == ConvertedRegistration(oid, x, f)
           id == ShardHash(f)
<1>1. /\ todo = {} /\ Len(ContentOf(oid)) \in MinConversion..MaxConversion /\ VerifyXorb(x)
      /\ xorbs' = PutIfAbsent(xorbs, x.footer.xorb_hash, x) /\ todo' = todo /\ acked' = acked
  BY DEF Convert, Serving
<1>2. SealedIn(xorbs) /\ GoodShards(xorbs, shards) /\ IndexInv(xorbs, shards, file_to_shards, chunk_to_xorb, todo)
  BY DEF StoreInv
<1>3. Len(ContentOf(oid)) <= MaxConversion
  BY <1>1
<1>4. /\ Extends(xorbs, xorbs') /\ SealedIn(xorbs')
      /\ Parses(f) /\ GoodShard(xorbs', id, f)
      /\ Len(Parse(f).file_entries) = 1 /\ Parse(f).file_entries[1].file_hash = oid
      /\ \A K : id \in DOMAIN K /\ K[id] = f => GoodReg(xorbs', K, reg)
  BY <1>1, <1>2, <1>3, ConversionGood
<1>5. /\ shards' = Put(shards, id, f) /\ Register(reg)
      /\ raw' = IF DeleteRaw /\ ~SizeConflict(reg) THEN raw \ {oid} ELSE raw
  BY <1>4 DEF Convert
<1>6. GoodShards(xorbs', shards)
  <2>1. Extends(shards, shards)
    BY DEF Extends
  <2> QED BY <1>2, <1>4, <2>1, ShardKeeps DEF GoodShards
<1>7. Stored(shards, id, f, shards') /\ GoodShards(xorbs', shards')
  <2>1. shards' \in {Put(shards, ShardHash(f), f), PutIfAbsent(shards, ShardHash(f), f)}
    BY <1>5
  <2> QED BY <1>4, <1>6, <2>1, ShardStored
<1>8. reg.shard = id
  BY DEF ConvertedRegistration
<1> HIDE DEF reg, id, f
<1>9. Extends(shards, shards') /\ DOMAIN shards' = DOMAIN shards \cup {id} /\ shards'[id] = f /\ id \in DOMAIN shards'
  BY <1>7 DEF Stored
<1>10. IndexInv(xorbs', shards', file_to_shards, chunk_to_xorb, {id})
  <2>1. \A k \in DOMAIN shards' : k \notin {id} => k \in DOMAIN shards /\ k \notin todo
    BY <1>1, <1>9
  <2> QED BY <1>2, <1>4, <1>9, <2>1, IndexKeeps
<1>11. GoodReg(xorbs', shards', reg)
  BY <1>4, <1>9
<1>12. IndexInv(xorbs', shards', file_to_shards', chunk_to_xorb', {id} \ {reg.shard})
  BY <1>4, <1>5, <1>7, <1>10, <1>11, RegisterKeeps
<1>13. IndexInv(xorbs', shards', file_to_shards', chunk_to_xorb', todo')
  <2>1. {id} \ {reg.shard} = todo'
    BY <1>1, <1>8
  <2> QED BY <1>12, <2>1
<1>14. ASSUME NEW o \in acked' \ raw' PROVE OnFile(shards', o)
  <2>1. CASE o \in raw
    <3>1. o = oid
      BY <1>5, <1>14, <2>1
    <3>2. FilesOf(shards', id) = Parse(f).file_entries
      BY <1>9 DEF FilesOf
    <3>3. Len(FilesOf(shards', id)) = 1 /\ FilesOf(shards', id)[1].file_hash = o
      BY <1>4, <3>1, <3>2
    <3>4. 1 \in 1..1
      OBVIOUS
    <3> QED BY <1>9, <3>3, <3>4, Zenon DEF OnFile
  <2>2. CASE o \notin raw
    <3>1. OnFile(shards, o)
      BY <1>1, <1>14, <2>2 DEF StoreInv
    <3> QED BY <1>9, <3>1, OnFileKeeps
  <2> QED BY <2>1, <2>2
<1>15. raw' \subseteq Oids /\ acked' \subseteq Oids /\ todo' \subseteq DOMAIN shards'
  BY <1>1, <1>5 DEF StoreInv
<1> QED BY <1>4, <1>7, <1>13, <1>14, <1>15 DEF StoreInv

\* The invariant holds in every state.
THEOREM StoreIsSound ==
  ASSUME Lz4Bounded, NoWrap
  PROVE  StoreSpec => []StoreInv
<1>1. StoreInit => StoreInv
  BY StoreStarts
<1>2. StoreInv /\ [StoreNext]_storeVars => StoreInv'
  <2> SUFFICES ASSUME StoreInv, [StoreNext]_storeVars PROVE StoreInv'
    OBVIOUS
  <2>1. CASE UNCHANGED storeVars
    BY <2>1 DEF storeVars, StoreInv
  <2>2. ASSUME NEW oid \in Oids, UploadBlob(oid) PROVE StoreInv'
    BY <2>2, BlobStep
  <2>3. ASSUME NEW oid \in Oids, NEW s \in Schemes, Convert(oid, s) PROVE StoreInv'
    BY <2>3, ConvertStep
  <2>4. ASSUME NEW x \in XorbUploads, UploadXorb(x) PROVE StoreInv'
    BY <2>4, XorbStep
  <2>5. ASSUME NEW f \in ShardUploads, UploadShard(f) PROVE StoreInv'
    BY <2>5, ShardStep
  <2>6. CASE Restart
    BY <2>6, RestartStep
  <2>7. ASSUME NEW id \in DOMAIN shards, RebuildShard(id) PROVE StoreInv'
    BY <2>7, RebuildStep
  <2> QED BY <2>1, <2>2, <2>3, <2>4, <2>5, <2>6, <2>7 DEF StoreNext
<1> QED BY <1>1, <1>2, PTL DEF StoreSpec

-----------------------------------------------------------------------------
(* What the invariant says.                                                *)

\* What the invariant says of one reference.
LEMMA RefReconstructs ==
  ASSUME StoreInv, NEW h \in DOMAIN file_to_shards, NEW i \in 1..Len(file_to_shards[h])
  PROVE  LET r == file_to_shards[h][i]
             P == Parse(shards[r.shard])
         IN  /\ r.shard \in DOMAIN shards /\ Parses(shards[r.shard]) /\ ParseTyped(P) /\ ValidIn(xorbs, P)
             /\ r.file_index \in 1..Len(P.file_entries) /\ Plans(P, h, r.file_index)
             /\ HashMatches(h, BytesIn(xorbs, Plan(P, r.file_index)))
             /\ BytesIn(xorbs, Plan(P, r.file_index)) \in Seq(Seq(Byte))
             /\ Reconstructs(h, r)
             /\ Reconstruction(r) = Concat(BytesIn(xorbs, Plan(P, r.file_index)))
             /\ Len(Reconstruction(r)) = r.file_size
<1> DEFINE r == file_to_shards[h][i]
           P == Parse(shards[r.shard])
           m == r.file_index
           plan == Plan(P, m)
<1>1. r \in Refs(file_to_shards, h)
  BY DEF Refs
<1>2. GoodRef(xorbs, shards, h, r)
  BY <1>1 DEF StoreInv, IndexInv, GoodRefs
<1>3. /\ r.shard \in DOMAIN shards /\ m \in 1..Len(P.file_entries) /\ P.file_entries[m].file_hash = h
      /\ r.file_size = Len(Concat(BytesIn(xorbs, plan)))
  BY <1>2 DEF GoodRef, FilesOf, SizeOf
<1>4. Parses(shards[r.shard]) /\ ParseTyped(P) /\ ValidIn(xorbs, P) /\ SealedIn(xorbs)
  BY <1>3 DEF StoreInv, GoodShards, GoodShard
<1> HIDE DEF r
<1>5. FileValidIn(xorbs, P, m)
  BY <1>3, <1>4 DEF ValidIn
<1>6. BytesIn(xorbs, plan) \in Seq(Seq(Byte))
  BY <1>3, <1>4, <1>5, FileSized
<1>7. Plans(P, h, m) /\ ReadIn(xorbs, plan) /\ HashMatches(h, BytesIn(xorbs, plan))
  BY <1>3, <1>5 DEF FileValidIn
<1> HIDE DEF P, m
<1>8. ChunksRead(plan) /\ ChunkBytes(plan) = BytesIn(xorbs, plan)
  <2> HIDE DEF plan
  <2> QED BY <1>7, Zenon DEF ChunksRead, ChunkBytes, ReadIn, BytesIn
<1>9. Reconstructs(h, r)
  BY <1>3, <1>4, <1>7, <1>8, Zenon DEF Reconstructs, P, m
<1>10. Reconstruction(r) = Concat(BytesIn(xorbs, plan))
  BY <1>8, Zenon DEF Reconstruction, P, m
<1> QED BY <1>3, <1>4, <1>6, <1>7, <1>9, <1>10, Zenon DEF P, m, r

\* Every reference reconstructs.
LEMMA InvIndexReconstructs ==
  ASSUME StoreInv
  PROVE  IndexReconstructs
  BY RefReconstructs, Zenon DEF IndexReconstructs

\* The types, and the keys of the stored objects.
LEMMA InvTypeOK ==
  ASSUME StoreInv
  PROVE  StoreTypeOK
<1>1. ASSUME NEW h \in DOMAIN xorbs PROVE xorbs[h].footer.xorb_hash = h
  <2>1. PICK rs \in Seq(Regions) : xorbs[h] = SealedXorb(rs) /\ h = XorbHash(Nodes(rs))
    BY DEF StoreInv, SealedIn, SealedAt
  <2> QED BY <2>1, SealedFields
<1>2. \A id \in DOMAIN shards : ShardHash(shards[id]) = id
  BY DEF StoreInv, GoodShards, GoodShard
<1>3. ASSUME NEW h \in DOMAIN file_to_shards PROVE file_to_shards[h] # << >>
  <2>1. Len(file_to_shards[h]) >= 1
    BY DEF StoreInv, IndexInv, MapTyped
  <2>2. Len(<< >>) = 0 /\ ~(0 >= 1)
    OBVIOUS
  <2> QED BY <2>1, <2>2
<1> QED BY <1>1, <1>2, <1>3 DEF StoreTypeOK, StoreInv

\* A xorb hash has one xorb.
LEMMA InvXorbHashBinds ==
  ASSUME Lz4Bounded, StoreInv
  PROVE  XorbHashBinds
<1> SUFFICES ASSUME NEW x \in XorbUploads, VerifyXorbFromFile(x), x.footer.xorb_hash \in DOMAIN xorbs
             PROVE  xorbs[x.footer.xorb_hash] = x
  BY DEF XorbHashBinds
<1> DEFINE h == x.footer.xorb_hash
           rs == x.regions
<1>1. rs \in Seq(Regions) /\ x = SealedXorb(rs)
  BY StoreAssumption, VerifiedSealed
<1>2. h = XorbHash(Nodes(rs))
  BY <1>1, SealedFields
<1>3. PICK qs \in Seq(Regions) : xorbs[h] = SealedXorb(qs) /\ h = XorbHash(Nodes(qs))
  BY DEF StoreInv, SealedIn, SealedAt
<1> HIDE DEF rs
<1>4. qs = rs
  BY <1>1, <1>2, <1>3, XorbHashInjective
<1> QED BY <1>1, <1>3, <1>4

\* A sealed xorb passes its verification.
LEMMA InvStoredXorbsValid ==
  ASSUME Lz4Bounded, StoreInv
  PROVE  StoredXorbsValid
<1> SUFFICES ASSUME NEW h \in DOMAIN xorbs PROVE VerifyXorbFromFile(xorbs[h])
  BY DEF StoredXorbsValid
<1>1. PICK rs \in Seq(Regions) : xorbs[h] = SealedXorb(rs) /\ Len(rs) <= MaxChunks
  BY DEF StoreInv, SealedIn, SealedAt
<1> QED BY <1>1, SealedVerifies

\* A shard that the index has to know is found under the hashes of its files.
LEMMA InvRebuildComplete ==
  ASSUME StoreInv
  PROVE  RebuildComplete
<1> DEFINE H(id, i) == Parse(shards[id]).file_entries[i].file_hash
<1> SUFFICES ASSUME todo = {}, NEW id \in DOMAIN shards, NEW i \in 1..Len(Parse(shards[id]).file_entries)
             PROVE  LET h == H(id, i)
                    IN
                    /\ h \in DOMAIN file_to_shards
                    /\ \E k \in 1..Len(file_to_shards[h]) :
                         file_to_shards[h][k].shard = id /\ file_to_shards[h][k].file_index = i
  BY Zenon DEF RebuildComplete, Serving
<1> DEFINE r == [shard |-> id, file_index |-> i, file_size |-> SizeOf(xorbs, Parse(shards[id]), i)]
           h == H(id, i)
<1>1. HasRefs(xorbs, shards, file_to_shards, id)
  BY DEF StoreInv, IndexInv
<1>2. r \in Refs(file_to_shards, h)
  BY <1>1, Zenon DEF HasRefs, FilesOf
<1>3. r.shard = id /\ r.file_index = i
  OBVIOUS
<1> HIDE DEF r
<1>4. h \in DOMAIN file_to_shards /\ r \in {file_to_shards[h][k] : k \in 1..Len(file_to_shards[h])}
  BY <1>2 DEF Refs
<1> QED BY <1>3, <1>4

\* What is on file is served.
LEMMA InvAckedReadable ==
  ASSUME StoreInv
  PROVE  AckedReadable
<1> SUFFICES ASSUME todo = {}, NEW oid \in acked \ raw PROVE FileReads(oid) /\ FileBytes(oid) = ContentOf(oid)
  BY DEF AckedReadable, Serving
<1>1. OnFile(shards, oid)
  BY DEF StoreInv
<1>2. PICK id \in DOMAIN shards : \E i \in 1..Len(FilesOf(shards, id)) : FilesOf(shards, id)[i].file_hash = oid
  BY <1>1 DEF OnFile
<1>3. PICK i \in 1..Len(FilesOf(shards, id)) : FilesOf(shards, id)[i].file_hash = oid
  BY <1>2
<1>4. HasRefs(xorbs, shards, file_to_shards, id)
  BY DEF StoreInv, IndexInv
<1>5. Refs(file_to_shards, oid) # {}
  BY <1>3, <1>4 DEF HasRefs
<1>6. oid \in DOMAIN file_to_shards
  BY <1>5 DEF Refs
<1> DEFINE refs == file_to_shards[oid]
           n == Len(refs)
           works == {k \in 1..n : Reconstructs(oid, refs[k])}
           w == CHOOSE k \in works : \A j \in works : k <= j
<1>7. n \in Nat /\ n >= 1
  BY <1>6, ListedLen DEF StoreInv, IndexInv, MapTyped
<1>8. works = 1..n
  <2>1. \A k \in 1..n : Reconstructs(oid, refs[k])
    BY <1>6, RefReconstructs, Zenon
  <2> HIDE DEF refs
  <2> QED BY <2>1
<1>9. FileReads(oid)
  <2>1. 1 \in 1..n
    BY <1>7
  <2> QED BY <1>6, <1>8, <2>1 DEF FileReads
<1>10. w \in 1..n
  <2> HIDE DEF works, n
  <2>1. \E k \in works : \A j \in works : k <= j
    BY <1>7, <1>8
  <2>2. w \in works
    BY <2>1
  <2> QED BY <1>8, <2>2
<1>11. FileBytes(oid) = Reconstruction(refs[w])
  BY Zenon DEF FileBytes
<1> HIDE DEF w
<1> DEFINE c == BytesIn(xorbs, Plan(Parse(shards[refs[w].shard]), refs[w].file_index))
<1>12. HashMatches(oid, c) /\ c \in Seq(Seq(Byte)) /\ Reconstruction(refs[w]) = Concat(c)
  BY <1>6, <1>10, RefReconstructs, Zenon
<1> HIDE DEF c
<1>13. \/ oid[1] = "sha256" /\ oid[2] = Concat(c)
       \/ oid[1] = "data" /\ oid[2] = Concat(c)
       \/ oid[1] \in {"file", "default"} /\ oid = FileHash(DataNodes(c))
  BY <1>12, MatchesIs
<1>14. oid \in {Sha256(oid[2]), Blake3(oid[2])}
  BY StoreAssumption DEF StoreInv
<1>15. oid[1] \in {"sha256", "data"}
  BY <1>14 DEF Sha256, Blake3, DataHash
<1>16. oid[2] = Concat(c)
  BY <1>13, <1>15
<1> QED BY <1>9, <1>11, <1>12, <1>16, Zenon DEF ContentOf

\* The places that the index gives for chunks are right.
LEMMA InvDedupTrue ==
  ASSUME StoreInv
  PROVE  DedupTrue
<1> SUFFICES ASSUME NEW h \in DOMAIN chunk_to_xorb, NEW place \in DedupAnswers(h)
             PROVE  LET x == xorbs[place.xorb]
                    IN  /\ place.index < Len(x.regions)
                        /\ LET r == x.regions[place.index + 1]
                           IN  /\ Decompresses(r.scheme, r.payload, r.unpacked)
                               /\ DataHash(Decompress(r.scheme, r.payload)) = h
  BY Zenon DEF DedupTrue
<1>1. place = chunk_to_xorb[h]
  BY DEF DedupAnswers
<1>2. GoodPlace(xorbs, h, place)
  BY <1>1 DEF StoreInv, IndexInv, GoodPlaces
<1> QED BY <1>2, Zenon DEF GoodPlace

\* The xorbs of a valid shard that a plan names.
LEMMA InvFetchInfoTrue ==
  ASSUME Lz4Bounded, StoreInv
  PROVE  FetchInfoTrue
<1> SUFFICES ASSUME NEW h \in DOMAIN file_to_shards
             PROVE  /\ \A entry \in PlannedXorbs(h) :
                         /\ entry.hash \in DOMAIN xorbs
                         /\ entry.size = UnpackedBefore(xorbs[entry.hash], Len(xorbs[entry.hash].regions) + 1)
                    /\ \E i \in 1..Len(file_to_shards[h]) :
                         LET ref == file_to_shards[h][i]
                             plan == Plan(Parse(shards[ref.shard]), ref.file_index)
                         IN  {entry.hash : entry \in PlannedXorbs(h)} = {plan[k].xorb_hash : k \in 1..Len(plan)}
  BY Zenon DEF FetchInfoTrue
<1> DEFINE refs == file_to_shards[h]
           n == Len(refs)
           plans == {i \in 1..n : /\ Parses(shards[refs[i].shard])
                                  /\ Plans(Parse(shards[refs[i].shard]), h, refs[i].file_index)}
           w == CHOOSE i \in plans : \A j \in plans : i <= j
           ref == refs[w]
           P == Parse(shards[ref.shard])
           m == ref.file_index
           plan == Plan(P, m)
           named == {plan[k].xorb_hash : k \in 1..Len(plan)}
           es == P.xorb_entries
<1>1. n \in Nat /\ n >= 1
  BY ListedLen DEF StoreInv, IndexInv, MapTyped
<1>2. plans = 1..n
  <2>1. \A k \in 1..n : Parses(shards[refs[k].shard]) /\ Plans(Parse(shards[refs[k].shard]), h, refs[k].file_index)
    BY RefReconstructs, Zenon
  <2> HIDE DEF refs
  <2> QED BY <2>1
<1>3. w \in 1..n
  <2> HIDE DEF plans, n
  <2>1. \E k \in plans : \A j \in plans : k <= j
    BY <1>1, <1>2
  <2>2. w \in plans
    BY <2>1
  <2> QED BY <1>2, <2>2
<1>4. PlannedXorbs(h) = {[hash |-> es[i].xorb_hash, size |-> es[i].in_xorb] : i \in {k \in 1..Len(es) : es[k].xorb_hash \in named}}
  BY Zenon DEF PlannedXorbs
<1> HIDE DEF w
<1>5. ParseTyped(P) /\ ValidIn(xorbs, P) /\ m \in 1..Len(P.file_entries)
  BY <1>3, RefReconstructs, Zenon
<1> HIDE DEF P, m
<1>6. SealedIn(xorbs)
  BY DEF StoreInv
<1>7. ASSUME NEW i \in 1..Len(es)
      PROVE  /\ es[i].xorb_hash \in DOMAIN xorbs
             /\ es[i].in_xorb = UnpackedBefore(xorbs[es[i].xorb_hash], Len(xorbs[es[i].xorb_hash].regions) + 1)
  <2> DEFINE x == xorbs[es[i].xorb_hash]
  <2>1. EntryValidIn(xorbs, P, i)
    BY <1>5 DEF ValidIn
  <2>2. es[i].xorb_hash \in DOMAIN xorbs /\ VerifiedXorbInfo(x).total_unpacked = es[i].in_xorb
    BY <2>1, Zenon DEF EntryValidIn
  <2> HIDE DEF x
  <2>3. VerifiedXorbInfo(x).total_unpacked = UnpackedBefore(x, Len(x.regions) + 1)
    BY DEF VerifiedXorbInfo
  <2> QED BY <2>2, <2>3 DEF x
<1>8. ASSUME NEW k \in 1..Len(plan) PROVE \E i \in 1..Len(es) : es[i].xorb_hash = plan[k].xorb_hash
  <2>1. PlannedGood(xorbs, P, plan[k])
    BY <1>5, <1>6, PlannedChunkIs
  <2> QED BY <2>1 DEF PlannedGood
<1> HIDE DEF es, plan
<1> DEFINE E(i) == [hash |-> es[i].xorb_hash, size |-> es[i].in_xorb]
           S == {k \in 1..Len(es) : es[k].xorb_hash \in named}
<1>9. PlannedXorbs(h) = {E(i) : i \in S} /\ \A i : E(i).hash = es[i].xorb_hash /\ E(i).size = es[i].in_xorb
  BY <1>4
<1> HIDE DEF E
<1>10. ASSUME NEW entry \in PlannedXorbs(h)
       PROVE  /\ entry.hash \in DOMAIN xorbs
              /\ entry.size = UnpackedBefore(xorbs[entry.hash], Len(xorbs[entry.hash].regions) + 1)
  <2>1. PICK i \in 1..Len(es) : entry = E(i)
    BY <1>9
  <2>2. entry.hash = es[i].xorb_hash /\ entry.size = es[i].in_xorb
    BY <1>9, <2>1
  <2> QED BY <1>7, <2>2
<1>11. {entry.hash : entry \in PlannedXorbs(h)} = named
  <2>1. ASSUME NEW v \in named PROVE v \in {entry.hash : entry \in PlannedXorbs(h)}
    <3>1. PICK k \in 1..Len(plan) : v = plan[k].xorb_hash
      OBVIOUS
    <3>2. PICK i \in 1..Len(es) : es[i].xorb_hash = v
      BY <1>8, <3>1
    <3>3. i \in S
      BY <3>2
    <3> HIDE DEF S, named
    <3> QED BY <1>9, <3>2, <3>3
  <2>2. ASSUME NEW entry \in PlannedXorbs(h) PROVE entry.hash \in named
    <3>1. PICK i \in S : entry = E(i)
      BY <1>9
    <3>2. es[i].xorb_hash \in named
      BY <3>1
    <3> HIDE DEF S, named
    <3> QED BY <1>9, <3>1, <3>2
  <2> HIDE DEF named
  <2> QED BY <2>1, <2>2
<1> QED BY <1>3, <1>10, <1>11, Zenon DEF plan, m, P

-----------------------------------------------------------------------------
(* A shard has no record that its parse does not account for.              *)

\* The headers of a section follow one another without a gap: where each of
\* them is, and where the section ends.
Places(at, end) == [i \in 1..(Len(at) + 1) |-> IF i = Len(at) + 1 THEN end ELSE at[i]]
Linked(f, at, start, end) ==
  /\ Places(at, end)[1] = start
  /\ \A i \in 1..Len(at) : Places(at, end)[i + 1] = HeaderNext(f, Places(at, end)[i])

\* A chain with one more header in front.
LEMMA ChainCons ==
  ASSUME NEW f, NEW p \in Nat, NEW t \in Seq(Nat), NEW end, Linked(f, t, HeaderNext(f, p), end)
  PROVE  Linked(f, <<p>> \o t, p, end)
<1> DEFINE u == <<p>> \o t
           n == Len(t)
           A == Places(u, end)
           B == Places(t, end)
<1>1. Len(u) = 1 + n /\ u[1] = p /\ (\A i \in 1..n : u[1 + i] = t[i]) /\ n \in Nat
  BY ConsIs, LenProperties
<1> HIDE DEF u
<1>2. A = [i \in 1..((1 + n) + 1) |-> IF i = (1 + n) + 1 THEN end ELSE u[i]]
  BY <1>1 DEF Places
<1>3. B = [i \in 1..(n + 1) |-> IF i = n + 1 THEN end ELSE t[i]]
  BY DEF Places
<1> HIDE DEF A, B, n
<1>4. A[1] = p
  <2>1. 1 \in 1..((1 + n) + 1) /\ 1 # (1 + n) + 1
    BY <1>1
  <2> QED BY <1>1, <1>2, <2>1
<1>5. ASSUME NEW i \in 1..(n + 1) PROVE A[i + 1] = B[i]
  <2>1. i + 1 \in 1..((1 + n) + 1) /\ (i + 1 = (1 + n) + 1 <=> i = n + 1) /\ (i # n + 1 => i \in 1..n) /\ i + 1 = 1 + i
    BY <1>1
  <2>2. A[i + 1] = IF i + 1 = (1 + n) + 1 THEN end ELSE u[i + 1]
    BY <1>2, <2>1
  <2>3. B[i] = IF i = n + 1 THEN end ELSE t[i]
    BY <1>3
  <2> QED BY <1>1, <2>1, <2>2, <2>3
<1>6. B[1] = HeaderNext(f, p) /\ \A i \in 1..n : B[i + 1] = HeaderNext(f, B[i])
  BY DEF Linked, B, n
<1>7. ASSUME NEW i \in 1..(1 + n) PROVE A[i + 1] = HeaderNext(f, A[i])
  <2>1. CASE i = 1
    <3>1. 1 \in 1..(n + 1)
      BY <1>1
    <3>2. A[1 + 1] = B[1]
      BY <1>5, <3>1
    <3> QED BY <1>4, <1>6, <2>1, <3>2
  <2>2. CASE i # 1
    <3> DEFINE k == i - 1
    <3>1. k \in 1..n /\ k + 1 = i /\ k \in 1..(n + 1) /\ k + 1 \in 1..(n + 1)
      BY <1>1, <2>2
    <3> HIDE DEF k
    <3>2. A[k + 1] = B[k] /\ A[(k + 1) + 1] = B[k + 1] /\ B[k + 1] = HeaderNext(f, B[k])
      BY <1>5, <1>6, <3>1
    <3> QED BY <3>1, <3>2
  <2> QED BY <2>1, <2>2
<1>8. Linked(f, u, p, end)
  BY <1>1, <1>4, <1>7 DEF Linked, A
<1> QED BY <1>8 DEF u

\* A section without a header ends where it starts.
LEMMA ChainNil ==
  ASSUME NEW f, NEW p
  PROVE  Linked(f, << >>, p, p)
<1>1. Len(<< >>) = 0
  OBVIOUS
<1>2. Places(<< >>, p)[1] = p
  BY <1>1 DEF Places
<1>3. 1..Len(<< >>) = {}
  BY <1>1
<1> QED BY <1>2, <1>3 DEF Linked

\* What the walk over a section that parses collects is such a chain.
LEMMA HeadersChain ==
  ASSUME NEW f, RecordsTyped(f), NEW start \in Nat, NEW end \in Nat,
         ShardHeaderSize <= start, start <= end,
         \A i \in 1..Len(SectionHeaders(f, start, end)) : SectionHeaders(f, start, end)[i] # 0
  PROVE  Linked(f, SectionHeaders(f, start, end), start, end)
<1> DEFINE at == SectionHeaders(f, start, end)
           Whole(u) == \A i \in 1..Len(u) : u[i] # 0
<1>1. PICK c : Walk(f, start, end, c) /\ at = c[start]
  BY WalkIs
<1>2. ASSUME NEW p \in start..end, ~Refused(f, end, p) PROVE HeaderNext(f, p) \in (p + 1)..end
  <2>1. p \in Nat /\ p >= ShardHeaderSize
    BY DEF ShardHeaderSize
  <2>2. HeaderNext(f, p) \in Nat /\ HeaderNext(f, p) >= p + RecordSize /\ HeaderNext(f, p) <= end
    BY <1>2, <2>1, NextFits
  <2> DEFINE v == HeaderNext(f, p)
  <2>3. v \in Nat /\ v >= p + 48 /\ v <= end
    BY <2>2 DEF RecordSize
  <2> HIDE DEF v
  <2>4. v \in (p + 1)..end
    BY <2>1, <2>3
  <2> QED BY <2>4 DEF v
<1>3. \A p \in start..end : c[p] \in Seq(Nat) /\ (Whole(c[p]) => Linked(f, c[p], p, end))
  <2> DEFINE T == {p \in Nat : p \in start..end => c[p] \in Seq(Nat) /\ (Whole(c[p]) => Linked(f, c[p], p, end))}
  <2>1. ASSUME NEW p \in 0..end, \A q \in (p + 1)..end : q \in T PROVE p \in T
    <3>1. SUFFICES ASSUME p \in start..end PROVE c[p] \in Seq(Nat) /\ (Whole(c[p]) => Linked(f, c[p], p, end))
      OBVIOUS
    <3>2. c[p] = IF p = end THEN << >> ELSE IF Refused(f, end, p) THEN <<0>> ELSE <<p>> \o c[HeaderNext(f, p)]
      BY <1>1, <3>1 DEF Walk
    <3>3. CASE p = end
      <4>1. << >> \in Seq(Nat)
        OBVIOUS
      <4>2. c[p] = << >>
        BY <3>2, <3>3, Zenon
      <4>3. Linked(f, << >>, p, p)
        BY ChainNil
      <4> QED BY <3>3, <4>1, <4>2, <4>3
    <3>4. CASE p # end /\ Refused(f, end, p)
      <4>1. c[p] = <<0>>
        BY <3>2, <3>4, Zenon
      <4>2. <<0>> \in Seq(Nat) /\ 1 \in 1..Len(<<0>>) /\ <<0>>[1] = 0
        OBVIOUS
      <4>3. ~Whole(<<0>>)
        BY <4>2
      <4> HIDE DEF Whole
      <4> QED BY <4>1, <4>2, <4>3
    <3>5. CASE p # end /\ ~Refused(f, end, p)
      <4> DEFINE v == HeaderNext(f, p)
                 t == c[v]
      <4>1. v \in (p + 1)..end /\ v \in start..end
        BY <1>2, <3>1, <3>5
      <4>2. v \in T
        BY <2>1, <4>1
      <4>3. t \in Seq(Nat) /\ (Whole(t) => Linked(f, t, v, end))
        BY <4>1, <4>2
      <4>4. c[p] = <<p>> \o t
        BY <3>2, <3>5, Zenon
      <4> HIDE DEF t, v
      <4>5. p \in Nat
        OBVIOUS
      <4>6. /\ <<p>> \o t \in Seq(Nat) /\ Len(<<p>> \o t) = 1 + Len(t)
            /\ \A i \in 1..Len(t) : (<<p>> \o t)[1 + i] = t[i]
        BY <4>3, <4>5, ConsIs
      <4>7. ASSUME Whole(<<p>> \o t) PROVE Linked(f, <<p>> \o t, p, end)
        <5>1. Whole(t)
          <6> TAKE i \in 1..Len(t)
          <6>1. Len(t) \in Nat
            BY <4>3, LenProperties
          <6>2. 1 + i \in 1..(1 + Len(t))
            BY <6>1
          <6> QED BY <4>6, <4>7, <6>2
        <5>2. Linked(f, t, HeaderNext(f, p), end)
          BY <4>3, <5>1 DEF v
        <5> QED BY <4>3, <4>5, <5>2, ChainCons
      <4> HIDE DEF Whole
      <4> QED BY <4>4, <4>6, <4>7
    <3> QED BY <3>3, <3>4, <3>5
  <2>2. \A p \in 0..end : p \in T
    <3> HIDE DEF T
    <3> QED BY <2>1, DownInduction
  <2> QED BY <2>2
<1>4. start \in start..end
  OBVIOUS
<1>5. Whole(c[start])
  BY <1>1
<1> HIDE DEF Whole
<1> QED BY <1>1, <1>3, <1>4, <1>5

\* The headers of a section are a chain, if there are any.
LEMMA SectionChain ==
  ASSUME NEW f, RecordsTyped(f), NEW info \in Nat, NEW lookup \in Nat, NEW num, NEW next \in Nat,
         next >= ShardHeaderSize, SectionParses(f, info, lookup, num, next)
  PROVE  Linked(f, SectionAt(f, info, lookup), next, SectionEnd(info, lookup, next))
<1>1. CASE info = 0
  <2>1. SectionAt(f, info, lookup) = << >> /\ SectionEnd(info, lookup, next) = next
    BY <1>1 DEF SectionAt, SectionEnd
  <2> QED BY <2>1, ChainNil
<1>2. CASE info # 0
  <2>1. /\ info = next /\ info <= lookup
        /\ \A i \in 1..Len(SectionHeaders(f, info, lookup)) : SectionHeaders(f, info, lookup)[i] # 0
    BY <1>2 DEF SectionParses
  <2>2. SectionAt(f, info, lookup) = SectionHeaders(f, info, lookup) /\ SectionEnd(info, lookup, next) = lookup
    BY <1>2 DEF SectionAt, SectionEnd
  <2>3. ShardHeaderSize <= info
    BY <2>1 DEF ShardHeaderSize
  <2>4. Linked(f, SectionHeaders(f, info, lookup), info, lookup)
    BY <2>1, <2>3, HeadersChain
  <2> QED BY <2>1, <2>2, <2>4
<1> QED BY <1>1, <1>2

\* The file section and the xorb section reach from the header of the shard to
\* the last record.
LEMMA SectionsChain ==
  ASSUME NEW f, Framed(f)
  PROVE  /\ Linked(f, FileSectionAt(f), ShardHeaderSize, FileSectionEnd(f))
         /\ Linked(f, XorbSectionAt(f), FileSectionEnd(f), RecordsEnd(f))
         /\ FileSectionEnd(f) \in Nat /\ FileSectionEnd(f) >= ShardHeaderSize
<1> DEFINE fi == f.footer.file_info_offset
           fl == f.footer.file_lookup_offset
           xi == f.footer.xorb_info_offset
           xl == f.footer.xorb_lookup_offset
           fn == f.footer.file_lookup_num_entry
           xn == f.footer.xorb_lookup_num_entry
           fe == FileSectionEnd(f)
           xe == XorbSectionEnd(f)
<1>1. RecordsTyped(f)
  BY DEF Framed
<1>2. fi \in Nat /\ fl \in Nat /\ xi \in Nat /\ xl \in Nat /\ xe = RecordsEnd(f)
  BY DEF Framed
<1>3. /\ SectionParses(f, fi, fl, fn, ShardHeaderSize)
      /\ SectionParses(f, xi, xl, xn, fe)
      /\ fe = SectionEnd(fi, fl, ShardHeaderSize)
      /\ xe = SectionEnd(xi, xl, fe)
      /\ FileSectionAt(f) = SectionAt(f, fi, fl) /\ XorbSectionAt(f) = SectionAt(f, xi, xl)
  BY DEF Framed, Parses, FileSectionParses, XorbSectionParses, FileSectionEnd, XorbSectionEnd, FileSectionAt, XorbSectionAt
<1> HIDE DEF fi, fl, xi, xl, fn, xn, fe, xe
<1>4. ShardHeaderSize \in Nat /\ ShardHeaderSize >= ShardHeaderSize
  BY DEF ShardHeaderSize
<1>5. fe \in Nat /\ ShardHeaderSize <= fe
  BY <1>2, <1>3, <1>4, SectionEnds
<1>6. fe >= ShardHeaderSize
  BY <1>4, <1>5
<1>7. Linked(f, FileSectionAt(f), ShardHeaderSize, fe)
  BY <1>1, <1>2, <1>3, <1>4, SectionChain
<1>8. Linked(f, XorbSectionAt(f), fe, xe)
  BY <1>1, <1>2, <1>3, <1>5, <1>6, SectionChain
<1> QED BY <1>2, <1>5, <1>6, <1>7, <1>8 DEF fe

\* Parts that follow one another, where each of them begins, and what every
\* element has to do with its place.
TiledBy(n, s, c, R) ==
  /\ c \in [1..(n + 1) -> Nat]
  /\ \A i \in 1..n : c[i + 1] = c[i] + Len(s[i])
  /\ \A i \in 1..n : \A k \in 1..Len(s[i]) : <<s[i][k], c[i] + k>> \in R

\* Parts that follow one another make up the whole.
LEMMA TileConcat ==
  ASSUME NEW n \in Nat, NEW A, NEW s \in [1..n -> Seq(A)], NEW c, NEW R, TiledBy(n, s, c, R)
  PROVE  /\ Concat(s) \in Seq(A) /\ c[1] + Len(Concat(s)) = c[n + 1]
         /\ \A j \in 1..Len(Concat(s)) : <<Concat(s)[j], c[1] + j>> \in R
<1> DEFINE C(i) == Concat(First(s, i))
<1>1. /\ \A i \in 0..n : C(i) \in Seq(A)
      /\ C(0) = << >> /\ C(n) = Concat(s)
      /\ \A i \in 1..n : C(i) = C(i - 1) \o s[i]
  BY ConcatSteps, ZenonT(60)
<1> HIDE DEF C
<1> DEFINE T == {i \in Nat : i <= n => /\ c[1] + Len(C(i)) = c[i + 1]
                                       /\ \A j \in 1..Len(C(i)) : <<C(i)[j], c[1] + j>> \in R}
<1> USE DEF TiledBy
<1>2. 0 \in T
  <2>1. Len(<< >>) = 0 /\ 1 \in 1..(n + 1)
    OBVIOUS
  <2>2. c[1] \in Nat
    BY <2>1
  <2> QED BY <1>1, <2>1, <2>2
<1>3. ASSUME NEW i \in Nat, i \in T PROVE i + 1 \in T
  <2>1. SUFFICES ASSUME i + 1 <= n
                 PROVE  /\ c[1] + Len(C(i + 1)) = c[(i + 1) + 1]
                        /\ \A j \in 1..Len(C(i + 1)) : <<C(i + 1)[j], c[1] + j>> \in R
    OBVIOUS
  <2> DEFINE x == C(i)
             y == s[i + 1]
             a == Len(x)
             b == Len(y)
  <2>2. i \in 0..n /\ i + 1 \in 1..n /\ (i + 1) - 1 = i /\ i <= n /\ 1 \in 1..(n + 1) /\ i + 1 \in 1..(n + 1)
    BY <2>1
  <2>3. C(i + 1) = x \o y
    BY <1>1, <2>2
  <2>4. x \in Seq(A) /\ y \in Seq(A) /\ c[1] \in Nat /\ c[i + 1] \in Nat
    BY <1>1, <2>2
  <2>5. c[1] + a = c[i + 1] /\ \A j \in 1..a : <<x[j], c[1] + j>> \in R
    BY <1>3, <2>2
  <2>6. c[(i + 1) + 1] = c[i + 1] + b /\ \A k \in 1..b : <<y[k], c[i + 1] + k>> \in R
    BY <2>2
  <2> HIDE DEF x, y
  <2>7. a \in Nat /\ b \in Nat
    BY <2>4, LenProperties
  <2>8. Len(x \o y) = a + b /\ \A j \in 1..(a + b) : (x \o y)[j] = IF j <= a THEN x[j] ELSE y[j - a]
    BY <2>4, ConcatProperties
  <2> DEFINE z == x \o y
             d == c[1]
             e == c[i + 1]
             g == c[(i + 1) + 1]
  <2>9. d \in Nat /\ e \in Nat /\ d + a = e /\ g = e + b /\ Len(z) = a + b
    BY <2>4, <2>5, <2>6, <2>8
  <2>10. (\A j \in 1..(a + b) : z[j] = IF j <= a THEN x[j] ELSE y[j - a])
         /\ (\A j \in 1..a : <<x[j], d + j>> \in R) /\ (\A k \in 1..b : <<y[k], e + k>> \in R)
    BY <2>5, <2>6, <2>8
  <2>11. C(i + 1) = z
    BY <2>3
  <2> HIDE DEF a, b, z, d, e, g
  <2>12. d + Len(z) = g
    BY <2>7, <2>9
  <2>13. ASSUME NEW j \in 1..Len(z) PROVE <<z[j], d + j>> \in R
    <3>1. j \in 1..(a + b)
      BY <2>9
    <3>2. CASE j <= a
      <4>1. j \in 1..a
        BY <2>7, <3>1, <3>2
      <4> QED BY <2>10, <3>1, <3>2, <4>1
    <3>3. CASE ~(j <= a)
      <4> DEFINE k == j - a
      <4>1. k \in 1..b /\ e + k = d + j
        BY <2>7, <2>9, <3>1, <3>3
      <4>2. z[j] = y[k]
        BY <2>10, <3>1, <3>3
      <4> HIDE DEF k
      <4> QED BY <2>10, <4>1, <4>2
    <3> QED BY <3>2, <3>3
  <2> QED BY <2>11, <2>12, <2>13 DEF d, g
<1>4. n \in T
  <2> HIDE DEF T
  <2> QED BY <1>2, <1>3, SetInduction
<1>5. n <= n /\ n \in 0..n
  OBVIOUS
<1> QED BY <1>1, <1>4, <1>5

\* How many records are in front of each header of a section.
Before(at, end) == [i \in 1..(Len(at) + 1) |-> RecordAt(Places(at, end)[i]) - 1]

\* The headers of a section that is read whole.
SectionHas(f, at, start, end) ==
  LET c == Before(at, end)
  IN  /\ c \in [1..(Len(at) + 1) -> Nat]
      /\ c[1] = RecordAt(start) - 1 /\ c[Len(at) + 1] = RecordAt(end) - 1
      /\ \A i \in 1..Len(at) :
           /\ RecordAt(at[i]) = c[i] + 1
           /\ f.records[c[i] + 1].b \in Nat
           /\ c[i + 1] = c[i] + 1 + f.records[c[i] + 1].b
           /\ c[i + 1] <= Len(f.records)

\* The places of the headers, counted in records.
LEMMA SectionIs ==
  ASSUME NEW f, RecordsTyped(f), NEW at, Listed(at), \A i \in 1..Len(at) : HeadFits(f, at[i]),
         NEW start \in Nat, start >= ShardHeaderSize, NEW end, Linked(f, at, start, end)
  PROVE  SectionHas(f, at, start, end)
<1> DEFINE n == Len(at)
           P == Places(at, end)
           c == Before(at, end)
<1>1. n \in Nat
  BY ListedLen
<1>2. P = [i \in 1..(n + 1) |-> IF i = n + 1 THEN end ELSE at[i]] /\ c = [i \in 1..(n + 1) |-> RecordAt(P[i]) - 1]
  BY DEF Places, Before
<1>3. P[1] = start /\ \A i \in 1..n : P[i + 1] = HeaderNext(f, P[i])
  BY DEF Linked
<1> HIDE DEF P, c, n
<1>4. ASSUME NEW i \in 1..n PROVE P[i] = at[i] /\ c[i] = RecordAt(at[i]) - 1 /\ i + 1 \in 1..(n + 1)
  <2>1. i \in 1..(n + 1) /\ i # n + 1 /\ i + 1 \in 1..(n + 1)
    BY <1>1
  <2>2. P[i] = at[i]
    BY <1>2, <2>1
  <2> QED BY <1>2, <2>1, <2>2
<1>5. P[n + 1] = end /\ c[n + 1] = RecordAt(end) - 1 /\ c[1] = RecordAt(start) - 1
  <2>1. n + 1 \in 1..(n + 1) /\ 1 \in 1..(n + 1)
    BY <1>1
  <2>2. P[n + 1] = end
    BY <1>2, <2>1
  <2> QED BY <1>2, <1>3, <2>1, <2>2
<1>6. ASSUME NEW i \in 1..n
      PROVE  /\ RecordAt(at[i]) = c[i] + 1 /\ c[i] \in Nat
             /\ f.records[c[i] + 1].b \in Nat
             /\ c[i + 1] = c[i] + 1 + f.records[c[i] + 1].b
             /\ c[i + 1] <= Len(f.records)
  <2> DEFINE p == at[i]
             r == RecordAt(p)
             b == f.records[r].b
             l == Len(f.records)
             q == HeaderNext(f, p)
  <2>1. p \in Nat /\ p >= 48 /\ r \in 1..l /\ b \in Nat /\ r + b <= l
    BY DEF HeadFits, n, ShardHeaderSize
  <2>2. r = (p - 48) \div 48 + 1 /\ q = p + 48 + 48 * b /\ RecordAt(q) = (q - 48) \div 48 + 1
    BY DEF RecordAt, HeaderNext, RecordSize, ShardHeaderSize
  <2>3. P[i + 1] = q /\ c[i] = r - 1 /\ c[i + 1] = RecordAt(P[i + 1]) - 1
    BY <1>2, <1>3, <1>4
  <2> DEFINE t == RecordAt(q)
  <2>4. c[i + 1] = t - 1 /\ t = (q - 48) \div 48 + 1
    BY <2>2, <2>3
  <2>5. l \in Nat
    BY DEF RecordsTyped, IsList
  <2> HIDE DEF r, q, t, b, l, p
  <2>6. t = r + 1 + b
    BY <2>1, <2>2, <2>4
  <2>7. c[i] + 1 = r /\ c[i] \in Nat /\ c[i + 1] = r + b /\ (r - 1) + 1 + b = r + b
    BY <2>1, <2>3, <2>4, <2>5, <2>6
  <2>8. f.records[c[i] + 1].b = b
    BY <2>7 DEF b, r
  <2> QED BY <2>1, <2>3, <2>7, <2>8 DEF r, p, l
<1>7. c \in [1..(n + 1) -> Nat]
  <2>1. ASSUME NEW i \in 1..(n + 1) PROVE c[i] \in Nat
    <3>1. CASE i = 1
      <4>1. RecordAt(start) - 1 \in Nat
        BY DEF RecordAt, ShardHeaderSize, RecordSize
      <4> QED BY <1>5, <3>1, <4>1
    <3>2. CASE i # 1
      <4> DEFINE k == i - 1
      <4>1. k \in 1..n /\ k + 1 = i
        BY <1>1, <3>2
      <4> HIDE DEF k
      <4> DEFINE a == c[k]
                 b == f.records[a + 1].b
      <4>2. a \in Nat /\ b \in Nat /\ c[k + 1] = a + 1 + b
        BY <1>6, <4>1
      <4> HIDE DEF a, b
      <4> QED BY <4>1, <4>2
    <3> QED BY <3>1, <3>2
  <2>2. c = [i \in 1..(n + 1) |-> c[i]]
    BY <1>2
  <2> QED BY <2>1, <2>2
<1> QED BY <1>5, <1>6, <1>7, Zenon DEF SectionHas, c, n

\* The entries of the i-th header are the records that follow it.
EntriesAre(f, at, hs) ==
  \A i \in 1..Len(at) :
    LET a == EntriesBefore(hs, i)
        p == RecordAt(at[i])
        b == f.records[p].b
    IN  /\ a \in Nat /\ b \in Nat /\ EntriesBefore(hs, i + 1) = a + b
        /\ a + b <= Len(Entries(f, at))
        /\ \A k \in 1..b : Entries(f, at)[a + k] = f.records[p + k]

\* The headers that a section was read to.
HeadsAre(f, at, hs) ==
  /\ Listed(hs) /\ Len(hs) = Len(at)
  /\ \A i \in 1..Len(at) : hs[i].num_entries = f.records[RecordAt(at[i])].b

\* The entries that parse_reader collects, at their places.
LEMMA EntriesPlaced ==
  ASSUME NEW f, RecordsTyped(f), NEW at, Listed(at), \A i \in 1..Len(at) : HeadFits(f, at[i]),
         NEW hs, HeadsAre(f, at, hs)
  PROVE  EntriesAre(f, at, hs)
<1> DEFINE n == Len(at)
           A == RecordSet(f)
           rr == f.records
           l == Len(rr)
           p(i) == RecordAt(at[i])
           b(i) == rr[p(i)].b
           g(i) == SubSeq(rr, p(i) + 1, p(i) + b(i))
           s == [i \in 1..n |-> g(i)]
           w == [k \in 1..n |-> Len(s[k])]
           B(i) == EntriesBefore(hs, i)
           E == Entries(f, at)
<1>1. n \in Nat /\ l \in Nat
  BY ListedLen DEF RecordsTyped, IsList
<1>2. rr \in Seq(A)
  <2>1. \A i \in 1..l : rr[i] \in A
    BY DEF RecordSet
  <2>2. rr = [i \in 1..l |-> rr[i]]
    BY DEF RecordsTyped, IsList
  <2> HIDE DEF rr, l, A
  <2> QED BY <1>1, <2>1, <2>2
<1>3. ASSUME NEW i \in 1..n PROVE p(i) \in 1..l /\ b(i) \in Nat /\ p(i) + b(i) <= l
  BY DEF HeadFits
<1>4. E = Concat(s)
  BY DEF Entries
<1>5. /\ Listed(hs) /\ Len(hs) = n /\ \A i \in 1..n : hs[i].num_entries = b(i)
  BY DEF HeadsAre
<1>6. ASSUME NEW i \in 1..n
      PROVE  g(i) \in Seq(A) /\ Len(g(i)) = b(i) /\ \A k \in 1..b(i) : g(i)[k] = rr[p(i) + k]
  <2> DEFINE q == p(i)
             c == b(i)
             e == q + c
  <2>1. q \in Nat /\ e \in Nat /\ q <= e /\ e <= l /\ e - q = c /\ c \in Nat
    <3>1. q \in 1..l /\ c \in Nat /\ q + c <= l
      BY <1>3
    <3> HIDE DEF q, c
    <3> QED BY <1>1, <3>1
  <2> HIDE DEF q, c, e, rr, A
  <2>2. /\ SubSeq(rr, q + 1, e) \in Seq(A) /\ Len(SubSeq(rr, q + 1, e)) = e - q
        /\ \A k \in 1..(e - q) : SubSeq(rr, q + 1, e)[k] = rr[q + k]
    BY <1>2, <2>1, Taken DEF l
  <2>3. SubSeq(rr, q + 1, e) = g(i)
    BY DEF q, c, e
  <2>4. g(i) \in Seq(A) /\ Len(g(i)) = c /\ \A k \in 1..c : g(i)[k] = rr[q + k]
    <3> HIDE DEF g
    <3> QED BY <2>1, <2>2, <2>3
  <2> QED BY <2>4 DEF q, c
<1>7. s \in [1..n -> Seq(A)] /\ \A i \in 1..n : s[i] = g(i)
  <2> HIDE DEF g, A
  <2> QED BY <1>6
<1> HIDE DEF A, n, l, p, b, g, s, E, B
<1>8. w = [k \in 1..n |-> b(k)]
  BY <1>6, <1>7
<1>9. Concat(s) \in Seq(A) /\ (\A i \in 0..n : Len(Concat(First(s, i))) = SumSeq(First(w, i))) /\ Len(Concat(s)) = SumSeq(w)
  <2> HIDE DEF rr
  <2> QED BY <1>1, <1>7, ConcatLen
<1> HIDE DEF w
<1>10. ASSUME NEW i \in 1..(n + 1) PROVE B(i) = SumSeq(First(w, i - 1))
  <2>1. \A k \in 1..(i - 1) : k \in 1..n
    BY <1>1
  <2>2. First(w, i - 1) = [k \in 1..(i - 1) |-> hs[k].num_entries]
    BY <1>5, <1>8, <2>1 DEF First
  <2> QED BY <2>2 DEF EntriesBefore, B
<1>11. B(n + 1) = Len(E)
  <2>1. n + 1 \in 1..(n + 1) /\ (n + 1) - 1 = n
    BY <1>1
  <2>2. First(w, n) = w
    BY <1>8 DEF First
  <2> QED BY <1>4, <1>9, <1>10, <2>1, <2>2
<1>12. /\ \A i \in 1..(n + 1) : B(i) \in Nat
       /\ \A i \in 1..n : B(i + 1) = B(i) + b(i)
       /\ \A i \in 1..(n + 1) : B(i) <= B(n + 1)
  <2>1. \A i \in 1..n : hs[i].num_entries \in Nat
    BY <1>3, <1>5
  <2>2. \A i \in 1..(n + 1) : n + 1 \in 1..(n + 1) /\ i <= n + 1
    BY <1>1
  <2>3. /\ \A i \in 1..(n + 1) : B(i) \in Nat
        /\ \A i \in 1..n : B(i + 1) = B(i) + hs[i].num_entries
        /\ \A i, j \in 1..(n + 1) : i <= j => B(i) <= B(j)
    BY <1>5, <2>1, EntriesSteps DEF B
  <2> QED BY <1>5, <2>2, <2>3
<1>13. ASSUME NEW i \in 1..n
       PROVE  /\ B(i) \in Nat /\ b(i) \in Nat /\ B(i + 1) = B(i) + b(i) /\ B(i) + b(i) <= Len(E)
              /\ \A k \in 1..b(i) : E[B(i) + k] = rr[p(i) + k]
  <2>1. i \in 1..(n + 1) /\ i + 1 \in 1..(n + 1) /\ i - 1 \in 0..n
    BY <1>1
  <2>2. B(i) = Len(Concat(First(s, i - 1)))
    BY <1>9, <1>10, <2>1
  <2>3. ASSUME NEW k \in 1..b(i) PROVE E[B(i) + k] = rr[p(i) + k]
    <3>1. k \in 1..Len(s[i]) /\ s[i][k] = rr[p(i) + k]
      BY <1>6, <1>7
    <3>2. Concat(s)[Len(Concat(First(s, i - 1))) + k] = s[i][k]
      <4> HIDE DEF rr
      <4> QED BY <1>1, <1>7, <3>1, ConcatAt, ZenonT(60)
    <3> QED BY <1>4, <2>2, <3>1, <3>2
  <2> QED BY <1>3, <1>11, <1>12, <2>1, <2>3
<1> QED BY <1>13, Zenon DEF EntriesAre, n, B, b, p, E

\* Two records with the same hash and the same number.
Same(r, q) == r.h = q.h /\ r.b = q.b

\* The lists prt follow one another in rec, each from its place in c on.
PartsLie(n, prt, c, rec) ==
  /\ c \in [1..(n + 1) -> Nat]
  /\ \A i \in 1..n : Listed(prt[i])
  /\ \A i \in 1..n : c[i + 1] = c[i] + Len(prt[i])
  /\ \A i \in 1..n : \A k \in 1..Len(prt[i]) : Same(prt[i][k], rec[c[i] + k])

\* A list lies in rec from a to b.
Lies(t, a, b, rec) ==
  /\ Listed(t) /\ a + Len(t) = b
  /\ \A j \in 1..Len(t) : Same(t[j], rec[a + j])

\* Lists that follow one another make up a list that lies there.
LEMMA PartsMakeUp ==
  ASSUME NEW n \in Nat, NEW prt, prt = [i \in 1..n |-> prt[i]], NEW c, NEW rec, PartsLie(n, prt, c, rec)
  PROVE  Lies(Concat(prt), c[1], c[n + 1], rec)
<1> DEFINE El(i) == {prt[i][k] : k \in 1..Len(prt[i])}
           A == UNION {El(i) : i \in 1..n}
           R == {x \in A \X Nat : Same(x[1], rec[x[2]])}
<1>1. ASSUME NEW i \in 1..n PROVE prt[i] \in Seq(A)
  <2>1. Len(prt[i]) \in Nat /\ prt[i] = [k \in 1..Len(prt[i]) |-> prt[i][k]]
    BY ListedLen DEF PartsLie
  <2>2. ASSUME NEW k \in 1..Len(prt[i]) PROVE prt[i][k] \in A
    OBVIOUS
  <2> DEFINE t == prt[i]
  <2> HIDE DEF A
  <2>3. Len(t) \in Nat /\ t = [k \in 1..Len(t) |-> t[k]] /\ \A k \in 1..Len(t) : t[k] \in A
    BY <2>1, <2>2
  <2> HIDE DEF t
  <2>4. t \in Seq(A)
    BY <2>3
  <2> QED BY <2>4 DEF t
<1> HIDE DEF A
<1>2. prt \in [1..n -> Seq(A)]
  BY <1>1
<1>3. TiledBy(n, prt, c, R)
  <2>1. ASSUME NEW i \in 1..n, NEW k \in 1..Len(prt[i]) PROVE <<prt[i][k], c[i] + k>> \in R
    <3>1. prt[i] \in Seq(A) /\ c[i] \in Nat
      <4>1. i \in 1..(n + 1)
        OBVIOUS
      <4> QED BY <1>1, <4>1 DEF PartsLie
    <3>2. prt[i][k] \in A /\ c[i] + k \in Nat
      BY <3>1, ElementOfSeq
    <3>3. Same(prt[i][k], rec[c[i] + k])
      BY DEF PartsLie
    <3> QED BY <3>2, <3>3
  <2> HIDE DEF R
  <2> QED BY <2>1 DEF TiledBy, PartsLie
<1> HIDE DEF R
<1>4. /\ Concat(prt) \in Seq(A) /\ c[1] + Len(Concat(prt)) = c[n + 1]
      /\ \A j \in 1..Len(Concat(prt)) : <<Concat(prt)[j], c[1] + j>> \in R
  BY <1>2, <1>3, TileConcat
<1>5. ASSUME NEW j \in 1..Len(Concat(prt)) PROVE Same(Concat(prt)[j], rec[c[1] + j])
  <2>1. <<Concat(prt)[j], c[1] + j>> \in R
    BY <1>4
  <2> DEFINE x == <<Concat(prt)[j], c[1] + j>>
  <2>2. Same(x[1], rec[x[2]])
    <3> HIDE DEF x
    <3>1. x \in R
      BY <2>1 DEF x
    <3> QED BY <3>1 DEF R
  <2>3. x[1] = Concat(prt)[j] /\ x[2] = c[1] + j
    OBVIOUS
  <2> HIDE DEF x
  <2> QED BY <2>2, <2>3
<1> QED BY <1>4, <1>5 DEF Lies, Listed

\* A header with its entries behind it.
LEMMA PartIs ==
  ASSUME NEW H, NEW b \in Nat, NEW m, m = [k \in 1..b |-> m[k]], NEW a \in Nat, NEW rec,
         Same(H, rec[a + 1]), \A k \in 1..b : Same(m[k], rec[a + 1 + k])
  PROVE  Lies(<<H>> \o m, a, a + 1 + b, rec)
<1> DEFINE A == {H} \cup {m[k] : k \in 1..b}
           t == <<H>> \o m
<1>1. m \in Seq(A) /\ Len(m) = b /\ H \in A
  <2>1. \A k \in 1..b : m[k] \in A
    OBVIOUS
  <2> HIDE DEF A
  <2>2. m \in Seq(A)
    BY <2>1
  <2> QED BY <2>2, ListedFcn DEF A
<1> HIDE DEF A
<1>2. t \in Seq(A) /\ Len(t) = 1 + b /\ t[1] = H /\ \A k \in 1..b : t[1 + k] = m[k]
  BY <1>1, ConsIs
<1> HIDE DEF t
<1>3. ASSUME NEW j \in 1..(1 + b) PROVE Same(t[j], rec[a + j])
  <2>1. CASE j = 1
    BY <1>2, <2>1
  <2>2. CASE j # 1
    <3> DEFINE k == j - 1
    <3>1. k \in 1..b /\ j = 1 + k /\ a + 1 + k = a + j
      BY <2>2
    <3> HIDE DEF k
    <3>2. t[1 + k] = m[k] /\ Same(m[k], rec[a + 1 + k])
      BY <1>2, <3>1
    <3> QED BY <3>1, <3>2
  <2> QED BY <2>1, <2>2
<1>4. a + Len(t) = a + 1 + b
  BY <1>2
<1> QED BY <1>2, <1>3, <1>4 DEF Lies, Listed, t

\* The entries that belong to a header, out of a list read from all entries.
Slice(data, hs, i) == SubSeq(data, EntriesBefore(hs, i) + 1, EntriesBefore(hs, i + 1))
SliceOf(f, at, hs, data, i) ==
  LET a == EntriesBefore(hs, i)
      p == RecordAt(at[i])
      b == f.records[p].b
  IN  /\ b \in Nat /\ Len(Slice(data, hs, i)) = b
      /\ \A k \in 1..b : /\ Slice(data, hs, i)[k] = data[a + k]
                         /\ a + k \in 1..Len(data)
                         /\ Entries(f, at)[a + k] = f.records[p + k]

\* The entries of one header are a part of all entries.
LEMMA SliceIs ==
  ASSUME NEW f, NEW at, NEW hs, EntriesAre(f, at, hs),
         NEW data, Listed(data), Len(data) = Len(Entries(f, at)), NEW i \in 1..Len(at)
  PROVE  SliceOf(f, at, hs, data, i)
<1> DEFINE a == EntriesBefore(hs, i)
           e == EntriesBefore(hs, i + 1)
           p == RecordAt(at[i])
           b == f.records[p].b
           E == Entries(f, at)
<1>1. /\ a \in Nat /\ b \in Nat /\ e = a + b /\ a + b <= Len(E)
      /\ \A k \in 1..b : E[a + k] = f.records[p + k]
  BY DEF EntriesAre
<1>2. PICK Q : data \in Seq(Q)
  BY DEF Listed
<1>3. Len(data) = Len(E)
  OBVIOUS
<1> HIDE DEF a, e, p, b, E
<1>4. e \in Nat /\ a <= e /\ e <= Len(data) /\ e - a = b
  BY <1>1, <1>3
<1>5. /\ SubSeq(data, a + 1, e) \in Seq(Q) /\ Len(SubSeq(data, a + 1, e)) = e - a
      /\ \A k \in 1..(e - a) : SubSeq(data, a + 1, e)[k] = data[a + k] /\ a + k \in 1..Len(data)
  BY <1>1, <1>2, <1>4, Taken
<1>6. /\ b \in Nat /\ Len(SubSeq(data, a + 1, e)) = b
      /\ \A k \in 1..b : /\ SubSeq(data, a + 1, e)[k] = data[a + k]
                         /\ a + k \in 1..Len(data)
                         /\ E[a + k] = f.records[p + k]
  BY <1>1, <1>4, <1>5
<1> QED BY <1>6 DEF a, e, p, b, E, Slice, SliceOf

\* What a builder is given that builds a parsed shard again.
FilesBack(P) ==
  [i \in 1..Len(P.file_entries) |->
     [file_hash |-> P.file_entries[i].file_hash, segments |-> Segments(P, i)]]
XorbsBack(P) ==
  [i \in 1..Len(P.xorb_entries) |->
     [xorb_hash |-> P.xorb_entries[i].xorb_hash,
      chunks |-> XorbChunks(P, i),
      in_xorb |-> P.xorb_entries[i].in_xorb,
      on_disk |-> P.xorb_entries[i].on_disk]]

\* The headers that are read, one for one.
LEMMA HeadsRead ==
  ASSUME NEW f, RecordsTyped(f), NEW at, Listed(at), \A i \in 1..Len(at) : HeadFits(f, at[i]),
         NEW hs, hs = [i \in 1..Len(Headers(f, at)) |-> hs[i]],
         \A i \in 1..Len(at) : hs[i].num_entries = f.records[RecordAt(at[i])].b
  PROVE  HeadsAre(f, at, hs)
<1>1. Len(at) \in Nat /\ Len(Headers(f, at)) = Len(at)
  BY ListedLen, EntriesTyped
<1>2. hs = [i \in 1..Len(at) |-> hs[i]]
  BY <1>1
<1> QED BY <1>1, <1>2, ListedFcn DEF HeadsAre

\* The file section, built again.
LEMMA FilesLie ==
  ASSUME NEW f, Framed(f)
  PROVE  Lies(FileRecords(FilesBack(Parse(f))), 0, RecordAt(FileSectionEnd(f)) - 1, f.records)
<1> DEFINE P == Parse(f)
           at == FileSectionAt(f)
           end == FileSectionEnd(f)
           n == Len(at)
           hs == P.file_entries
           data == P.file_data_entries
           E == Entries(f, at)
           c == Before(at, end)
           rec == f.records
           F == FilesBack(P)
           g(i) == <<FileHeader(F[i].file_hash, Len(F[i].segments))>> \o Mapped(FileEntry, F[i].segments)
           prt == [i \in 1..n |-> g(i)]
<1>1. RecordsTyped(f) /\ Listed(at) /\ (\A i \in 1..n : HeadFits(f, at[i])) /\ n \in Nat
  BY SectionsTyped, ListedLen
<1>2. /\ Linked(f, at, ShardHeaderSize, end) /\ ShardHeaderSize \in Nat /\ ShardHeaderSize >= ShardHeaderSize
      /\ RecordAt(ShardHeaderSize) - 1 = 0
  BY SectionsChain DEF ShardHeaderSize, RecordAt, RecordSize
<1>3. /\ hs = [i \in 1..Len(Headers(f, at)) |-> ReadFileHeader(Headers(f, at)[i])]
      /\ data = [i \in 1..Len(E) |-> ReadFileEntry(E[i])]
  BY DEF Parse, Mapped
<1> HIDE DEF P, at, end, data, E, hs, F, n
<1>4. SectionHas(f, at, ShardHeaderSize, end)
  BY <1>1, <1>2, SectionIs DEF n
<1>5. Len(Headers(f, at)) = n /\ E \in Seq(RecordSet(f)) /\ Len(E) \in Nat
  BY <1>1, EntriesTyped, LenProperties DEF n, E
<1>6. ASSUME NEW i \in 1..n
      PROVE  hs[i].num_entries = rec[RecordAt(at[i])].b /\ hs[i].file_hash = rec[RecordAt(at[i])].h
  <2>1. Headers(f, at)[i] = rec[RecordAt(at[i])]
    BY DEF Headers, n
  <2>2. hs[i] = ReadFileHeader(rec[RecordAt(at[i])])
    BY <1>3, <1>5, <2>1
  <2> QED BY <2>2 DEF ReadFileHeader
<1>7. HeadsAre(f, at, hs)
  <2>1. hs = [i \in 1..Len(Headers(f, at)) |-> hs[i]]
    BY <1>3
  <2> QED BY <1>1, <1>6, <2>1, HeadsRead DEF n
<1>8. EntriesAre(f, at, hs)
  BY <1>1, <1>7, EntriesPlaced DEF n
<1>9. Listed(data) /\ Len(data) = Len(E)
  <2>1. data = [i \in 1..Len(E) |-> data[i]]
    BY <1>3
  <2> QED BY <1>5, <2>1, ListedFcn
<1>10. Len(hs) = n
  BY <1>7 DEF HeadsAre, n
<1>11. ASSUME NEW i \in 1..n
       PROVE  /\ Lies(g(i), c[i], c[i + 1], rec) /\ c[i] \in Nat /\ c[i + 1] = c[i] + Len(g(i))
  <2> DEFINE a == EntriesBefore(hs, i)
             p == RecordAt(at[i])
             b == rec[p].b
             t == Segments(P, i)
             m == Mapped(FileEntry, t)
             H == FileHeader(F[i].file_hash, Len(t))
  <2>1. F[i].file_hash = hs[i].file_hash /\ F[i].segments = t
    BY <1>10 DEF F, FilesBack, hs
  <2>2. t = Slice(data, hs, i)
    BY DEF Segments, Slice, data, hs
  <2>3. /\ b \in Nat /\ Len(t) = b
        /\ \A k \in 1..b : t[k] = data[a + k] /\ a + k \in 1..Len(data) /\ E[a + k] = rec[p + k]
    <3>1. SliceOf(f, at, hs, data, i)
      BY <1>8, <1>9, SliceIs DEF n, E
    <3> QED BY <2>2, <3>1, Zenon DEF SliceOf, E
  <2> HIDE DEF t
  <2>4. m = [k \in 1..b |-> FileEntry(t[k])]
    BY <2>3 DEF Mapped
  <2>5. ASSUME NEW k \in 1..b PROVE Same(m[k], rec[p + k])
    <3>1. t[k] = ReadFileEntry(rec[p + k])
      BY <1>3, <1>9, <2>3
    <3>2. m[k] = FileEntry(ReadFileEntry(rec[p + k]))
      BY <2>4, <3>1
    <3> DEFINE u == rec[p + k]
    <3> HIDE DEF u
    <3>3. FileEntry(ReadFileEntry(u)).h = u.h /\ FileEntry(ReadFileEntry(u)).b = u.b
      BY DEF FileEntry, ReadFileEntry, Record
    <3> QED BY <3>2, <3>3 DEF Same, u
  <2>6. Same(H, rec[p])
    <3>1. F[i].file_hash = rec[p].h /\ Len(t) = rec[p].b
      BY <1>6, <2>1, <2>3
    <3> DEFINE u == F[i].file_hash
               v == Len(t)
    <3> HIDE DEF u, v
    <3>2. FileHeader(u, v).h = u /\ FileHeader(u, v).b = v
      BY DEF FileHeader, Record
    <3> QED BY <3>1, <3>2 DEF Same, u, v
  <2>7. g(i) = <<H>> \o m
    BY <2>1
  <2>8. p = c[i] + 1 /\ c[i] \in Nat /\ c[i + 1] = c[i] + 1 + b
    <3>1. /\ c \in [1..(n + 1) -> Nat]
          /\ RecordAt(at[i]) = c[i] + 1
          /\ c[i + 1] = c[i] + 1 + rec[c[i] + 1].b
      BY <1>4, Zenon DEF SectionHas, n
    <3>2. i \in 1..(n + 1)
      BY <1>1
    <3> QED BY <3>1, <3>2
  <2> DEFINE x == c[i]
  <2>9. m = [k \in 1..b |-> m[k]]
    BY <2>4
  <2> HIDE DEF p, b, m, H, x, c, rec
  <2>10. Lies(<<H>> \o m, x, x + 1 + b, rec)
    <3>1. x \in Nat /\ p = x + 1 /\ \A k \in 1..b : Same(m[k], rec[x + 1 + k])
      BY <2>5, <2>8 DEF x
    <3> QED BY <2>3, <2>6, <2>9, <3>1, PartIs
  <2>11. x + Len(<<H>> \o m) = x + 1 + b
    BY <2>10 DEF Lies
  <2> HIDE DEF g
  <2> QED BY <2>7, <2>8, <2>10, <2>11 DEF x
<1>12. prt = [i \in 1..n |-> prt[i]] /\ \A i \in 1..n : prt[i] = g(i)
  OBVIOUS
<1> HIDE DEF g, prt
<1>13. PartsLie(n, prt, c, rec)
  <2>1. c \in [1..(n + 1) -> Nat]
    BY <1>4 DEF SectionHas, n
  <2> HIDE DEF c, rec
  <2> QED BY <1>11, <1>12, <2>1 DEF PartsLie, Lies
<1>14. c[1] = 0 /\ c[n + 1] = RecordAt(end) - 1
  BY <1>2, <1>4 DEF SectionHas, n
<1>15. FileRecords(F) = Concat(prt)
  <2>1. Len(F) = n
    <3>1. F = [i \in 1..n |-> F[i]]
      BY <1>10 DEF F, FilesBack, hs
    <3> QED BY <1>1, <3>1, ListedFcn
  <2> QED BY <2>1 DEF FileRecords, prt, g
<1> HIDE DEF c, rec
<1>16. Lies(Concat(prt), c[1], c[n + 1], rec)
  BY <1>1, <1>12, <1>13, PartsMakeUp
<1>17. Lies(FileRecords(F), 0, RecordAt(end) - 1, rec)
  BY <1>14, <1>15, <1>16
<1> QED BY <1>17 DEF F, P, end, rec

\* The xorb section, built again.
LEMMA XorbsLie ==
  ASSUME NEW f, Framed(f)
  PROVE  Lies(XorbRecords(XorbsBack(Parse(f))), RecordAt(FileSectionEnd(f)) - 1, RecordAt(RecordsEnd(f)) - 1, f.records)
<1> DEFINE P == Parse(f)
           at == XorbSectionAt(f)
           start == FileSectionEnd(f)
           end == RecordsEnd(f)
           n == Len(at)
           hs == P.xorb_entries
           data == P.xorb_chunk_entries
           E == Entries(f, at)
           c == Before(at, end)
           rec == f.records
           F == XorbsBack(P)
           g(i) == <<XorbHeader(F[i])>> \o Mapped(XorbEntry, F[i].chunks)
           prt == [i \in 1..n |-> g(i)]
<1>1. RecordsTyped(f) /\ Listed(at) /\ (\A i \in 1..n : HeadFits(f, at[i])) /\ n \in Nat
  BY SectionsTyped, ListedLen
<1>2. Linked(f, at, start, end) /\ start \in Nat /\ start >= ShardHeaderSize
  BY SectionsChain
<1>3. /\ hs = [i \in 1..Len(Headers(f, at)) |-> ReadXorbHeader(Headers(f, at)[i])]
      /\ data = [i \in 1..Len(E) |-> ReadXorbEntry(E[i])]
  BY DEF Parse, Mapped
<1> HIDE DEF P, at, start, end, data, E, hs, F, n
<1>4. SectionHas(f, at, start, end)
  BY <1>1, <1>2, SectionIs DEF n
<1>5. Len(Headers(f, at)) = n /\ E \in Seq(RecordSet(f)) /\ Len(E) \in Nat
  BY <1>1, EntriesTyped, LenProperties DEF n, E
<1>6. ASSUME NEW i \in 1..n
      PROVE  hs[i].num_entries = rec[RecordAt(at[i])].b /\ hs[i].xorb_hash = rec[RecordAt(at[i])].h
  <2>1. Headers(f, at)[i] = rec[RecordAt(at[i])]
    BY DEF Headers, n
  <2>2. hs[i] = ReadXorbHeader(rec[RecordAt(at[i])])
    BY <1>3, <1>5, <2>1
  <2> QED BY <2>2 DEF ReadXorbHeader
<1>7. HeadsAre(f, at, hs)
  <2>1. hs = [i \in 1..Len(Headers(f, at)) |-> hs[i]]
    BY <1>3
  <2> QED BY <1>1, <1>6, <2>1, HeadsRead DEF n
<1>8. EntriesAre(f, at, hs)
  BY <1>1, <1>7, EntriesPlaced DEF n
<1>9. Listed(data) /\ Len(data) = Len(E)
  <2>1. data = [i \in 1..Len(E) |-> data[i]]
    BY <1>3
  <2> QED BY <1>5, <2>1, ListedFcn
<1>10. Len(hs) = n
  BY <1>7 DEF HeadsAre, n
<1>11. ASSUME NEW i \in 1..n
       PROVE  /\ Lies(g(i), c[i], c[i + 1], rec) /\ c[i] \in Nat /\ c[i + 1] = c[i] + Len(g(i))
  <2> DEFINE a == EntriesBefore(hs, i)
             p == RecordAt(at[i])
             b == rec[p].b
             t == XorbChunks(P, i)
             m == Mapped(XorbEntry, t)
             H == XorbHeader(F[i])
  <2>1. F[i].xorb_hash = hs[i].xorb_hash /\ F[i].chunks = t
    BY <1>10 DEF F, XorbsBack, hs
  <2>2. t = Slice(data, hs, i)
    BY DEF XorbChunks, Slice, data, hs
  <2>3. /\ b \in Nat /\ Len(t) = b
        /\ \A k \in 1..b : t[k] = data[a + k] /\ a + k \in 1..Len(data) /\ E[a + k] = rec[p + k]
    <3>1. SliceOf(f, at, hs, data, i)
      BY <1>8, <1>9, SliceIs DEF n, E
    <3> QED BY <2>2, <3>1, Zenon DEF SliceOf, E
  <2> HIDE DEF t
  <2>4. m = [k \in 1..b |-> XorbEntry(t[k])]
    BY <2>3 DEF Mapped
  <2>5. ASSUME NEW k \in 1..b PROVE Same(m[k], rec[p + k])
    <3>1. t[k] = ReadXorbEntry(rec[p + k])
      BY <1>3, <1>9, <2>3
    <3>2. m[k] = XorbEntry(ReadXorbEntry(rec[p + k]))
      BY <2>4, <3>1
    <3> DEFINE u == rec[p + k]
    <3> HIDE DEF u
    <3>3. XorbEntry(ReadXorbEntry(u)).h = u.h /\ XorbEntry(ReadXorbEntry(u)).b = u.b
      BY DEF XorbEntry, ReadXorbEntry, Record
    <3> QED BY <3>2, <3>3 DEF Same, u
  <2>6. Same(H, rec[p])
    <3>1. F[i].xorb_hash = rec[p].h /\ Len(F[i].chunks) = rec[p].b
      BY <1>6, <2>1, <2>3
    <3> DEFINE u == F[i]
    <3> HIDE DEF u
    <3>2. XorbHeader(u).h = u.xorb_hash /\ XorbHeader(u).b = Len(u.chunks)
      BY DEF XorbHeader, Record
    <3> QED BY <3>1, <3>2 DEF Same, u
  <2>7. g(i) = <<H>> \o m
    BY <2>1
  <2>8. p = c[i] + 1 /\ c[i] \in Nat /\ c[i + 1] = c[i] + 1 + b
    <3>1. /\ c \in [1..(n + 1) -> Nat]
          /\ RecordAt(at[i]) = c[i] + 1
          /\ c[i + 1] = c[i] + 1 + rec[c[i] + 1].b
      BY <1>4, Zenon DEF SectionHas, n
    <3>2. i \in 1..(n + 1)
      BY <1>1
    <3> QED BY <3>1, <3>2
  <2> DEFINE x == c[i]
  <2>9. m = [k \in 1..b |-> m[k]]
    BY <2>4
  <2> HIDE DEF p, b, m, H, x, c, rec
  <2>10. Lies(<<H>> \o m, x, x + 1 + b, rec)
    <3>1. x \in Nat /\ p = x + 1 /\ \A k \in 1..b : Same(m[k], rec[x + 1 + k])
      BY <2>5, <2>8 DEF x
    <3> QED BY <2>3, <2>6, <2>9, <3>1, PartIs
  <2>11. x + Len(<<H>> \o m) = x + 1 + b
    BY <2>10 DEF Lies
  <2> HIDE DEF g
  <2> QED BY <2>7, <2>8, <2>10, <2>11 DEF x
<1>12. prt = [i \in 1..n |-> prt[i]] /\ \A i \in 1..n : prt[i] = g(i)
  OBVIOUS
<1> HIDE DEF g, prt
<1>13. PartsLie(n, prt, c, rec)
  <2>1. c \in [1..(n + 1) -> Nat]
    BY <1>4 DEF SectionHas, n
  <2> HIDE DEF c, rec
  <2> QED BY <1>11, <1>12, <2>1 DEF PartsLie, Lies
<1>14. c[1] = RecordAt(start) - 1 /\ c[n + 1] = RecordAt(end) - 1
  BY <1>4 DEF SectionHas, n
<1>15. XorbRecords(F) = Concat(prt)
  <2>1. Len(F) = n
    <3>1. F = [i \in 1..n |-> F[i]]
      BY <1>10 DEF F, XorbsBack, hs
    <3> QED BY <1>1, <3>1, ListedFcn
  <2> QED BY <2>1 DEF XorbRecords, prt, g
<1> HIDE DEF c, rec
<1>16. Lies(Concat(prt), c[1], c[n + 1], rec)
  BY <1>1, <1>12, <1>13, PartsMakeUp
<1>17. Lies(XorbRecords(F), RecordAt(start) - 1, RecordAt(end) - 1, rec)
  BY <1>14, <1>15, <1>16
<1> QED BY <1>17 DEF F, P, start, end, rec

\* A list of elements of a set is a sequence over it.
LEMMA ListIn ==
  ASSUME NEW A, NEW n \in Nat, NEW s, s = [i \in 1..n |-> s[i]], \A i \in 1..n : s[i] \in A
  PROVE  s \in Seq(A)
  OBVIOUS

\* Two lists that lie one after the other in a list are the list.
LEMMA JoinedLie ==
  ASSUME NEW u, NEW v, NEW a, NEW n \in Nat, NEW rec, rec = [i \in 1..n |-> rec[i]],
         Lies(u, 0, a, rec), Lies(v, a, n, rec)
  PROVE  Mapped(LAMBDA r : <<r.h, r.b>>, u \o v) = Mapped(LAMBDA r : <<r.h, r.b>>, rec)
<1> DEFINE w == u \o v
           ul == Len(u)
           vl == Len(v)
<1>1. Listed(u) /\ 0 + ul = a /\ Listed(v) /\ a + vl = n
  BY DEF Lies
<1>2. ul \in Nat /\ vl \in Nat /\ u = [i \in 1..ul |-> u[i]] /\ v = [i \in 1..vl |-> v[i]]
  BY <1>1, ListedLen
<1>3. /\ \A j \in 1..ul : Same(u[j], rec[0 + j])
      /\ \A j \in 1..vl : Same(v[j], rec[a + j])
  BY DEF Lies
<1>4. Len(w) = ul + vl /\ \A j \in 1..(ul + vl) : w[j] = IF j <= ul THEN u[j] ELSE v[j - ul]
  <2> DEFINE A == {u[i] : i \in 1..ul} \cup {v[i] : i \in 1..vl}
  <2>1. (\A i \in 1..ul : u[i] \in A) /\ (\A i \in 1..vl : v[i] \in A)
    OBVIOUS
  <2> HIDE DEF A, ul, vl
  <2>2. u \in Seq(A) /\ v \in Seq(A)
    <3>1. u \in Seq(A)
      BY <1>2, <2>1, ListIn
    <3>2. v \in Seq(A)
      BY <1>2, <2>1, ListIn
    <3> QED BY <3>1, <3>2
  <2> QED BY <2>2, ConcatProperties DEF ul, vl
<1> HIDE DEF w, ul, vl
<1>5. n = ul + vl /\ a = ul
  BY <1>1, <1>2
<1>6. ASSUME NEW j \in 1..n PROVE Same(w[j], rec[j])
  <2>1. CASE j <= ul
    <3>1. j \in 1..ul /\ 0 + j = j /\ j \in 1..(ul + vl)
      BY <1>2, <1>5, <2>1
    <3>2. w[j] = u[j]
      BY <1>4, <2>1, <3>1
    <3>3. Same(u[j], rec[0 + j])
      BY <1>3, <3>1
    <3> QED BY <3>1, <3>2, <3>3
  <2>2. CASE ~(j <= ul)
    <3> DEFINE k == j - ul
    <3>1. k \in 1..vl /\ a + k = j /\ j \in 1..(ul + vl)
      BY <1>2, <1>5, <2>2
    <3>2. w[j] = v[k]
      BY <1>4, <2>2, <3>1
    <3> HIDE DEF k
    <3>3. Same(v[k], rec[a + k])
      BY <1>3, <3>1
    <3> QED BY <3>1, <3>2, <3>3
  <2> QED BY <2>1, <2>2
<1>7. Len(rec) = n /\ Len(w) = n
  BY <1>4, <1>5, ListedFcn
<1>8. /\ Mapped(LAMBDA r : <<r.h, r.b>>, w) = [i \in 1..n |-> <<w[i].h, w[i].b>>]
      /\ Mapped(LAMBDA r : <<r.h, r.b>>, rec) = [i \in 1..n |-> <<rec[i].h, rec[i].b>>]
  BY <1>7 DEF Mapped
<1>9. \A i \in 1..n : w[i].h = rec[i].h /\ w[i].b = rec[i].b
  BY <1>6 DEF Same
<1>10. [i \in 1..n |-> <<w[i].h, w[i].b>>] = [i \in 1..n |-> <<rec[i].h, rec[i].b>>]
  BY <1>9
<1> QED BY <1>8, <1>10 DEF w

\* The records of a shard that parses are the ones of the shard built again.
LEMMA BuiltAgain ==
  ASSUME NEW f, Framed(f)
  PROVE  Mapped(LAMBDA r : <<r.h, r.b>>, FileRecords(FilesBack(Parse(f))) \o XorbRecords(XorbsBack(Parse(f))))
           = Mapped(LAMBDA r : <<r.h, r.b>>, f.records)
<1> DEFINE u == FileRecords(FilesBack(Parse(f)))
           v == XorbRecords(XorbsBack(Parse(f)))
           a == RecordAt(FileSectionEnd(f)) - 1
           rec == f.records
           n == Len(rec)
<1>1. n \in Nat /\ rec = [i \in 1..n |-> rec[i]]
  BY DEF Framed, RecordsTyped, IsList
<1>2. RecordAt(RecordsEnd(f)) - 1 = n
  <2>1. RecordsEnd(f) = 48 + 48 * n
    BY DEF RecordsEnd, ShardHeaderSize, RecordSize
  <2> HIDE DEF n
  <2> QED BY <1>1, <2>1 DEF RecordAt, ShardHeaderSize, RecordSize
<1>3. Lies(u, 0, a, rec)
  BY FilesLie
<1>4. Lies(v, a, n, rec)
  <2>1. Lies(v, a, RecordAt(RecordsEnd(f)) - 1, rec)
    BY XorbsLie
  <2> QED BY <1>2, <2>1
<1> HIDE DEF u, v, a, rec, n
<1>5. Mapped(LAMBDA r : <<r.h, r.b>>, u \o v) = Mapped(LAMBDA r : <<r.h, r.b>>, rec)
  BY <1>1, <1>3, <1>4, JoinedLie
<1> QED BY <1>5 DEF u, v, rec

\* The records of a stored shard are accounted for.
LEMMA InvShardTiles ==
  ASSUME StoreInv
  PROVE  ShardTiles
<1>1. ASSUME NEW id \in DOMAIN shards PROVE Framed(shards[id])
  BY DEF StoreInv, GoodShards, GoodShard
<1>2. ASSUME NEW id \in DOMAIN shards
      PROVE  LET f == shards[id]
                 s == Parse(f)
             IN  Mapped(LAMBDA r : <<r.h, r.b>>, FileRecords(FilesBack(s)) \o XorbRecords(XorbsBack(s)))
                   = Mapped(LAMBDA r : <<r.h, r.b>>, f.records)
  BY <1>1, BuiltAgain
<1> QED BY <1>2, Zenon DEF ShardTiles, FilesBack, XorbsBack

-----------------------------------------------------------------------------
(* The results about the store.                                            *)

\* Every reference of the index reconstructs, to as many bytes as it says:
\* the stored objects that register_verified_shard was given a shard for are
\* there and unchanged when reconstruct_single_file_ref_to_temp reads them,
\* and the shard of a conversion, which nobody validates, would have passed.
THEOREM IndexAlwaysReconstructs ==
  ASSUME Lz4Bounded, NoWrap
  PROVE  StoreSpec => []IndexReconstructs
<1>1. StoreInv => IndexReconstructs
  BY InvIndexReconstructs
<1>2. StoreSpec => []StoreInv
  BY StoreIsSound
<1> QED BY <1>1, <1>2, PTL

\* rebuild_from_storage, when it can read its storage, brings back the files of
\* every stored shard, whatever the order it comes to them in.
THEOREM RebuildIsComplete ==
  ASSUME Lz4Bounded, NoWrap
  PROVE  StoreSpec => []RebuildComplete
<1>1. StoreInv => RebuildComplete
  BY InvRebuildComplete
<1>2. StoreSpec => []StoreInv
  BY StoreIsSound
<1> QED BY <1>1, <1>2, PTL

\* An acknowledged blob is served byte for byte, from the raw blob or from
\* what convert has made of it before it deleted the blob, after any restart.
THEOREM AckedIsReadable ==
  ASSUME Lz4Bounded, NoWrap
  PROVE  StoreSpec => []AckedReadable
<1>1. StoreInv => AckedReadable
  BY InvAckedReadable
<1>2. StoreSpec => []StoreInv
  BY StoreIsSound
<1> QED BY <1>1, <1>2, PTL

\* The answers of query_chunk_dedup and get_reconstruction are true of the
\* stored xorbs.
THEOREM AnswersAreTrue ==
  ASSUME Lz4Bounded, NoWrap
  PROVE  StoreSpec => []AnswersTrue
<1>1. StoreInv => AnswersTrue
  BY InvDedupTrue, InvFetchInfoTrue DEF AnswersTrue
<1>2. StoreSpec => []StoreInv
  BY StoreIsSound
<1> QED BY <1>1, <1>2, PTL

\* A stored object is what its key says: nothing that upload_xorb would accept
\* under a stored hash is another xorb, and a stored shard has no record that
\* its parse does not account for.
THEOREM ObjectsAreBound ==
  ASSUME Lz4Bounded, NoWrap
  PROVE  StoreSpec => []ObjectsBound
<1>1. StoreInv => ObjectsBound
  BY InvTypeOK, InvXorbHashBinds, InvShardTiles DEF ObjectsBound
<1>2. StoreSpec => []StoreInv
  BY StoreIsSound
<1> QED BY <1>1, <1>2, PTL

\* Every stored xorb passes verify_xorb_from_file, the ones of a conversion
\* too: under NoWrap, the offsets that XorbBuilder counts in a u32 are right.
THEOREM StoredXorbsAreValid ==
  ASSUME Lz4Bounded, NoWrap
  PROVE  StoreSpec => []StoredXorbsValid
<1>1. StoreInv => StoredXorbsValid
  BY InvStoredXorbsValid
<1>2. StoreSpec => []StoreInv
  BY StoreIsSound
<1> QED BY <1>1, <1>2, PTL
=============================================================================
