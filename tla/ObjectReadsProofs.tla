------------------------- MODULE ObjectReadsProofs -------------------------
(***************************************************************************)
(* The listing and the temporary files for any number of shards, reads,    *)
(* retries and crashes, and any size of a page.  The files: who may still  *)
(* create, rename or remove which of them (TaskSound), and why each one is *)
(* there (FileSound).  The listing: what was returned or is on the page is *)
(* ascending and has every shard up to the token (ListSound).              *)
(***************************************************************************)
EXTENDS ObjectReads, SequenceTheorems, TLAPS

Names == Reads \X {"dest", "part"} \X Attempts
TaskType == [op : {"create", "rename", "remove"}, read : Reads, file : Names, to : Names]
Kinds == {"shard", "copy", "blob", "stream"}
Places == {"size", "get", "creating", "body", "renaming", "check", "streaming", "over"}
            \cup LeavingPlaces

\* One server has the directory, and without one nothing is under way.
ServerSound ==
  /\ \/ running = {} /\ holder = None
     \/ holder \in Servers /\ running = {holder}
  /\ running = {} => pool = {} /\ \A r \in Reads : ~Active(r)

\* A task that creates or renames is of the attempt its read is at, unless the
\* read was dropped; nothing removes the destination that a read still uses.
TaskSound(t) ==
  /\ t \in TaskType
  /\ t.file[1] = t.read
  /\ pc[t.read] # "size"
  /\ t.op = "create" =>
       t.file = Part(t.read) /\ t.to = Part(t.read) /\ pc[t.read] \in {"creating", "leftCreating"}
  /\ t.op = "rename" =>
       /\ t.file = Part(t.read) /\ t.to = Dest(t.read) /\ pc[t.read] \in {"renaming", "leftRenaming"}
       /\ t.file \in DOMAIN files => files[t.file] # "cut"
  /\ t.op = "remove" /\ t.file[2] = "dest" /\ Active(t.read) =>
       kind[t.read] = "shard" /\ t.file[3] < attempt[t.read]

\* A file that its read uses, or that stays behind.
Kept(f) == InUse(f) \/ Overtaken(f) \/ Unguarded(f)

\* Why a file is there.
FileSound(f) ==
  /\ f \in Names
  /\ f[2] = "dest" => files[f] # "cut"
  /\ pc[f[1]] # "size"
  /\ f \notin stale => Kept(f) \/ Removal(f[1], f) \in pool

\* The slot of a file that a dead server left is not used.
StaleSound ==
  \A f \in stale :
    /\ f \in DOMAIN files /\ ~Active(f[1]) /\ \A t \in pool : t.read # f[1]
    /\ ManagedName(f) => running = {} \/ f \in charged

ReadSound(r) == pc[r] \in {"check", "streaming"} => Dest(r) \in DOMAIN files

Ascending(s) == \A i, j \in 1..Len(s) : i < j => s[i] < s[j]

\* What an honest endpoint has answered so far.
ListSound ==
  phase \in {"list", "listed"} /\ honest =>
    /\ ~failed /\ before \subseteq objects
    /\ Ascending(yielded) /\ Ascending(keys)
    /\ \A i \in 1..Len(yielded), j \in 1..Len(keys) : yielded[i] < keys[j]
    /\ ~complete => /\ \A i \in 1..Len(yielded) : yielded[i] <= token
                    /\ \A i \in 1..Len(keys) : keys[i] <= token
                    /\ \A n \in seen : n <= token
    /\ \A k \in before : complete \/ k <= token => k \in Range(yielded) \cup Range(keys)
    /\ phase = "listed" => complete /\ keys = << >>

\* Types, and what TypeOK leaves open.
Types ==
  /\ objects \subseteq Keys /\ before \subseteq Keys
  /\ running \subseteq Servers /\ holder \in Servers \cup {None}
  /\ phase \in {"list", "listed", "serve"}
  /\ seen \subseteq Keys /\ token \in Keys \cup {0}
  /\ keys \in Seq(Nat) /\ yielded \in Seq(Nat)
  /\ charged \subseteq Names
  /\ pc \in [Reads -> Places] /\ kind \in [Reads -> Kinds]
  /\ attempt \in [Reads -> Attempts]

FilesInv ==
  /\ ServerSound /\ StaleSound
  /\ \A t \in pool : TaskSound(t)
  /\ \A f \in DOMAIN files : FileSound(f)
  /\ \A r \in Reads : ReadSound(r)

IInv == Types /\ FilesInv /\ ListSound

-----------------------------------------------------------------------------
(* The listing. *)

\* The sizes, and that keys and attempts are numbers.
LEMMA Sizes ==
  /\ KeyCount \in Nat /\ PageSize \in Nat /\ 1 <= PageSize /\ MaxRetries \in Nat
  /\ \A k \in Keys : k \in Nat /\ 1 <= k /\ k <= KeyCount
  /\ 1 \in Attempts /\ \A n \in Attempts : n \in Nat
BY ReadsAssumption DEF Keys, Attempts

\* What is in a sequence, by its positions.
LEMMA RangeIs ==
  ASSUME NEW s \in Seq(Nat), NEW k
  PROVE  k \in Range(s) <=> \E i \in 1..Len(s) : s[i] = k
BY DEF Range

\* A new S3ListState.
LEMMA ResetKeeps ==
  ASSUME Types, NEW exist \in SUBSET Keys, ListingReset(exist)
  PROVE  /\ objects' \subseteq Keys /\ before' \subseteq Keys
         /\ seen' \subseteq Keys /\ token' \in Keys \cup {0}
         /\ keys' \in Seq(Nat) /\ yielded' \in Seq(Nat)
         /\ phase' # "listed" => ListSound'
<1>1. /\ objects' = exist /\ token' = 0 /\ seen' = {} /\ keys' = << >> /\ complete' = FALSE
      /\ yielded' = << >> /\ failed' = FALSE /\ before' = exist /\ honest' = TRUE
  BY DEF ListingReset
<1>2. << >> \in Seq(Nat) /\ Len(<< >>) = 0 /\ \A k \in Keys : ~(k <= 0)
  BY Sizes
<1>3. ASSUME phase' # "listed" PROVE ListSound'
  <2>1. Ascending(yielded') /\ Ascending(keys')
    BY <1>1, <1>2 DEF Ascending
  <2>2. \A k \in before' : ~(complete' \/ k <= token')
    BY <1>1, <1>2
  <2> QED BY <1>1, <1>2, <1>3, <2>1, <2>2 DEF ListSound, Ascending
<1> QED BY <1>1, <1>2, <1>3

\* A page is a sequence of at most PageSize keys.
LEMMA PageIsSeq ==
  ASSUME NEW p \in Pages
  PROVE  \E n \in 0..PageSize : p \in [1..n -> Keys] /\ p \in Seq(Nat) /\ Len(p) = n
<1>1. PICK n \in 0..PageSize : p \in [1..n -> Keys]
  BY DEF Pages
<1>2. n \in Nat /\ p \in [1..n -> Nat] /\ DOMAIN p = 1..n
  <2>1. n \in Nat /\ DOMAIN p = 1..n
    BY <1>1, Sizes
  <2>2. \A k \in Keys : k \in Nat
    BY Sizes
  <2> QED BY <1>1, <2>1, <2>2
<1>3. p \in Seq(Nat)
  BY <1>2, SeqDef
<1>4. Len(p) = n
  BY <1>2, <1>3, LenProperties
<1> QED BY <1>1, <1>3, <1>4

\* What an answer is made of.
LEMMA AnswerParts ==
  ASSUME NEW a \in HonestAnswers \cup FaultyAnswers
  PROVE  a.keys \in Seq(Nat) /\ (a.next \in Keys \cup {0, EmptyToken})
<1>1. CASE a \in FaultyAnswers
  <2>1. << >> \in Seq(Nat) /\ [i \in 1..(PageSize + 1) |-> 1] \in Seq(Nat)
    BY Sizes
  <2>2. CASE a = Answer([i \in 1..(PageSize + 1) |-> 1], FALSE, 0)
    BY <2>1, <2>2 DEF Answer
  <2>3. CASE a \in [keys : {<< >>}, truncated : BOOLEAN, next : Tokens \cup {0, EmptyToken}]
    BY <2>1, <2>3, ReadsAssumption
  <2> QED BY <1>1, <2>2, <2>3 DEF FaultyAnswers
<1>2. CASE a \in HonestAnswers
  <2>1. \E p \in Pages : \/ a = Answer(p, FALSE, 0)
                         \/ a = Answer(p, TRUE, p[PageSize]) /\ Len(p) = PageSize
    BY <1>2 DEF HonestAnswers
  <2>2. PICK p \in Pages : \/ a = Answer(p, FALSE, 0)
                           \/ a = Answer(p, TRUE, p[PageSize]) /\ Len(p) = PageSize
    BY <2>1
  <2>3. PICK n \in 0..PageSize : p \in [1..n -> Keys] /\ p \in Seq(Nat) /\ Len(p) = n
    BY PageIsSeq
  <2>4. p \in Seq(Nat) /\ Len(p) = n
    BY <2>3
  <2>5. Len(p) = PageSize => p[PageSize] \in Keys
    BY <2>3, <2>4, Sizes
  <2> QED BY <2>2, <2>4, <2>5 DEF Answer
<1> QED BY <1>1, <1>2

\* An honest page goes on after the token, and is accepted.
LEMMA HonestPage ==
  ASSUME Types, NEW a \in HonestAnswers, \A n \in seen : n <= token
  PROVE  /\ a.keys \in Seq(Nat) /\ Len(a.keys) <= PageSize /\ ContinuationTokenValid(a)
         /\ Ascending(a.keys) /\ \A i \in 1..Len(a.keys) : token < a.keys[i]
         /\ a.next # 0 => \A i \in 1..Len(a.keys) : a.keys[i] <= a.next
         /\ \A k \in objects : k > token /\ (a.next = 0 \/ k <= a.next) => k \in Range(a.keys)
<1>1. PICK rest : rest = {k \in objects : k > token}
  OBVIOUS
<1>2. rest \subseteq Keys /\ token \in Nat
  <2>1. objects \subseteq Keys /\ token \in Keys \cup {0}
    BY DEF Types
  <2>2. rest \subseteq Keys
    BY <1>1, <2>1
  <2>3. \A k \in Keys : k \in Nat
    BY Sizes
  <2> QED BY <2>1, <2>2, <2>3
<1>3. PICK p \in Pages : /\ IsFirstPart(p, rest)
                         /\ \/ a = Answer(p, FALSE, 0) /\ Range(p) = rest
                            \/ a = Answer(p, TRUE, p[PageSize]) /\ Len(p) = PageSize
  <2>1. \/ \E p \in Pages : a = Answer(p, FALSE, 0) /\ IsFirstPart(p, rest) /\ Range(p) = rest
        \/ \E p \in Pages : a = Answer(p, TRUE, p[PageSize]) /\ IsFirstPart(p, rest) /\ Len(p) = PageSize
    BY <1>1 DEF HonestAnswers
  <2> QED BY <2>1
<1>4. PICK n \in 0..PageSize : p \in [1..n -> Keys] /\ p \in Seq(Nat) /\ Len(p) = n
  BY PageIsSeq
<1>5. p \in Seq(Nat) /\ Len(p) = n /\ Len(p) <= PageSize
  BY <1>4, Sizes
<1>6. Ascending(p) /\ \A i \in 1..n : p[i] \in rest
  BY <1>3, <1>4, <1>5 DEF IsFirstPart, Ascending, Range
<1>7. \A i \in 1..n : token < p[i] /\ p[i] \in Nat
  BY <1>1, <1>2, <1>4, <1>6, Sizes DEF Types
<1>8. CASE a = Answer(p, FALSE, 0) /\ Range(p) = rest
  <2>1. a.keys = p /\ a.truncated = FALSE /\ a.next = 0
    BY <1>8 DEF Answer
  <2> QED BY <1>1, <1>5, <1>6, <1>7, <1>8, <2>1 DEF ContinuationTokenValid
<1>9. CASE a = Answer(p, TRUE, p[PageSize]) /\ Len(p) = PageSize
  <2>1. a.keys = p /\ a.truncated = TRUE /\ a.next = p[PageSize] /\ n = PageSize
    BY <1>5, <1>9 DEF Answer
  <2>2. PageSize \in 1..n
    BY <2>1, Sizes
  <2>3. PICK last \in Nat : last = p[PageSize]
    BY <1>7, <2>2
  <2>4. last \in Keys /\ token < last
    BY <1>4, <1>7, <2>2, <2>3
  <2>5. last \notin seen /\ last # 0 /\ last # EmptyToken
    BY <1>2, <2>3, <2>4, Sizes DEF EmptyToken, Types
  <2>6. \A i \in 1..n : p[i] <= last
    <3> SUFFICES ASSUME NEW i \in 1..n PROVE p[i] <= last
      OBVIOUS
    <3>1. CASE i = PageSize
      BY <2>3, <3>1
    <3>2. CASE i # PageSize
      <4>1. i < PageSize
        BY <2>1, <3>2, Sizes
      <4>2. p[i] < p[PageSize]
        BY <1>5, <1>6, <2>2, <4>1 DEF Ascending
      <4> QED BY <1>7, <2>3, <4>2
    <3> QED BY <3>1, <3>2
  <2>7. \A k \in rest : k <= last => k \in Range(p)
    <3>1. \A k \in rest \ Range(p) : last < k
      BY <1>3, <1>5, <2>2, <2>3 DEF IsFirstPart
    <3>2. \A k \in rest : k \in Nat
      BY <1>2, Sizes
    <3> QED BY <2>3, <3>1, <3>2
  <2> QED BY <1>1, <1>5, <1>6, <1>7, <2>1, <2>3, <2>5, <2>6, <2>7 DEF ContinuationTokenValid
<1> QED BY <1>3, <1>8, <1>9

\* The listing and what it looks at do not change.
LEMMA ListFrame ==
  ASSUME ListSound, UNCHANGED <<phase, listing, objects>>
  PROVE  ListSound'
BY DEF ListSound, Ascending, listing

\* What list_objects_stream does keeps the types of the listing.
ListTypes ==
  /\ objects \subseteq Keys /\ before \subseteq Keys
  /\ phase \in {"list", "listed", "serve"}
  /\ seen \subseteq Keys /\ token \in Keys \cup {0}
  /\ keys \in Seq(Nat) /\ yielded \in Seq(Nat)

\* The keys of a page are put behind what was returned.
LEMMA PageInv ==
  ASSUME Types, ListSound, NEW a \in HonestAnswers \cup FaultyAnswers, ListPage(a)
  PROVE  ListTypes' /\ ListSound'
<1>1. /\ phase = "list" /\ keys = << >> /\ ~complete /\ ~failed
      /\ honest' = (honest /\ a \in HonestAnswers)
      /\ UNCHANGED <<objects, phase, yielded, before>>
  BY DEF ListPage, server
<1>2. \/ /\ ContinuationTokenValid(a)
         /\ keys' = a.keys /\ token' = a.next /\ seen' = seen \cup ({a.next} \ {0})
         /\ complete' = (a.next = 0) /\ failed' = failed
      \/ /\ ~(Len(a.keys) <= PageSize /\ ContinuationTokenValid(a))
         /\ failed' = TRUE /\ UNCHANGED <<keys, token, seen, complete>>
  BY DEF ListPage
<1>3. ListTypes'
  <2>1. a.keys \in Seq(Nat) /\ a.next \in Keys \cup {0, EmptyToken}
    BY AnswerParts
  <2>2. ContinuationTokenValid(a) => a.next \in Keys \cup {0}
    BY <2>1 DEF ContinuationTokenValid
  <2> QED BY <1>1, <1>2, <2>1, <2>2 DEF ListTypes, Types
<1>4. ListSound'
  <2> SUFFICES ASSUME honest' PROVE ListSound'
    BY DEF ListSound
  <2>1. honest /\ a \in HonestAnswers
    BY <1>1
  <2>2. /\ before \subseteq objects /\ Ascending(yielded)
        /\ \A i \in 1..Len(yielded) : yielded[i] <= token
        /\ \A n \in seen : n <= token
        /\ \A k \in before : k <= token => k \in Range(yielded)
    <3>1. Range(keys) = {}
      BY <1>1 DEF Range
    <3> QED BY <1>1, <2>1, <3>1 DEF ListSound
  <2>3. /\ a.keys \in Seq(Nat) /\ Len(a.keys) <= PageSize /\ ContinuationTokenValid(a)
        /\ Ascending(a.keys) /\ \A i \in 1..Len(a.keys) : token < a.keys[i]
        /\ a.next # 0 => \A i \in 1..Len(a.keys) : a.keys[i] <= a.next
        /\ \A k \in objects : k > token /\ (a.next = 0 \/ k <= a.next) => k \in Range(a.keys)
    BY <2>1, <2>2, HonestPage
  <2>4. /\ keys' = a.keys /\ token' = a.next /\ seen' = seen \cup ({a.next} \ {0})
        /\ complete' = (a.next = 0) /\ failed' = failed
    BY <1>2, <2>3
  <2>5. /\ token \in Nat /\ \A i \in 1..Len(yielded) : yielded[i] \in Nat
        /\ \A i \in 1..Len(a.keys) : a.keys[i] \in Nat
        /\ (\A k \in before : k \in Nat) /\ (\A n \in seen : n \in Nat)
    <3>1. token \in Keys \cup {0} /\ yielded \in Seq(Nat) /\ before \subseteq Keys /\ seen \subseteq Keys
      BY DEF Types
    <3> QED BY <2>3, <3>1, Sizes, ElementOfSeq
  <2>6. \A i \in 1..Len(yielded), j \in 1..Len(a.keys) : yielded[i] < a.keys[j]
    BY <2>2, <2>3, <2>5
  <2>7. a.next # 0 => token < a.next /\ a.next \in Nat
    <3> SUFFICES ASSUME a.next # 0 PROVE token < a.next /\ a.next \in Nat
      OBVIOUS
    <3>1. a.next \in Keys
      BY <2>3, AnswerParts DEF ContinuationTokenValid
    <3>2. a.truncated /\ a.next \notin seen
      BY <2>3 DEF ContinuationTokenValid
    <3>3. \E p \in Pages : a = Answer(p, TRUE, p[PageSize]) /\ Len(p) = PageSize
      <4>1. \/ \E p \in Pages : a = Answer(p, FALSE, 0)
            \/ \E p \in Pages : a = Answer(p, TRUE, p[PageSize]) /\ Len(p) = PageSize
        BY <2>1 DEF HonestAnswers
      <4>2. \A p : Answer(p, FALSE, 0).next = 0
        BY DEF Answer
      <4> QED BY <4>1, <4>2
    <3>4. PageSize \in 1..Len(a.keys) /\ a.next = a.keys[PageSize]
      BY <3>3, Sizes DEF Answer
    <3> QED BY <2>3, <3>1, <3>4, Sizes
  <2>8. ~complete' => /\ \A i \in 1..Len(yielded) : yielded[i] <= a.next
                      /\ \A n \in seen' : n <= a.next
    <3> SUFFICES ASSUME a.next # 0
                 PROVE  /\ \A i \in 1..Len(yielded) : yielded[i] <= a.next
                        /\ \A n \in seen \cup {a.next} : n <= a.next
      BY <2>4
    <3>1. \A n \in seen : n \in Nat
      BY Sizes DEF Types
    <3> QED BY <2>2, <2>5, <2>7, <3>1
  <2>9. \A k \in before : complete' \/ k <= a.next => k \in Range(yielded) \cup Range(a.keys)
    <3> SUFFICES ASSUME NEW k \in before, a.next = 0 \/ k <= a.next
                 PROVE  k \in Range(yielded) \cup Range(a.keys)
      BY <2>4
    <3>1. CASE k <= token
      BY <2>2, <3>1
    <3>2. CASE ~(k <= token)
      <4>1. k \in objects /\ k > token
        BY <2>2, <2>5, <3>2
      <4> QED BY <2>3, <4>1
    <3> QED BY <3>1, <3>2
  <2> QED BY <1>1, <2>2, <2>3, <2>4, <2>6, <2>8, <2>9 DEF ListSound
<1> QED BY <1>3, <1>4

\* A key moves from the page to what was returned.
LEMMA KeyInv ==
  ASSUME Types, ListSound, ListKey
  PROVE  ListTypes' /\ ListSound'
<1>1. /\ phase = "list" /\ keys # << >>
      /\ yielded' = Append(yielded, Head(keys)) /\ keys' = Tail(keys)
      /\ UNCHANGED <<objects, phase, token, seen, complete, failed, before, honest>>
  BY DEF ListKey, server
<1>2. keys \in Seq(Nat) /\ yielded \in Seq(Nat)
  BY DEF Types
<1>3. PICK m, n \in Nat : Len(keys) = m + 1 /\ Len(yielded) = n
  <2>1. Len(keys) \in Nat /\ Len(keys) # 0 /\ Len(yielded) \in Nat
    BY <1>1, <1>2
  <2>2. Len(keys) - 1 \in Nat /\ Len(keys) = (Len(keys) - 1) + 1
    BY <2>1
  <2> QED BY <2>1, <2>2
<1>4. /\ Head(keys) = keys[1] /\ keys[1] \in Nat
      /\ keys' \in Seq(Nat) /\ Len(keys') = m /\ \A i \in 1..m : keys'[i] = keys[i + 1]
      /\ yielded' \in Seq(Nat) /\ Len(yielded') = n + 1 /\ yielded'[n + 1] = keys[1]
      /\ \A i \in 1..n : yielded'[i] = yielded[i]
  <2>1. /\ Head(keys) = keys[1] /\ keys[1] \in Nat
        /\ keys' \in Seq(Nat) /\ Len(keys') = m
    BY <1>1, <1>2, <1>3
  <2>2. \A i \in 1..m : keys'[i] = keys[i + 1]
    BY <1>1, <1>2, <1>3
  <2>3. yielded' \in Seq(Nat) /\ Len(yielded') = n + 1 /\ yielded'[n + 1] = keys[1]
    BY <1>1, <1>2, <1>3, <2>1
  <2>4. \A i \in 1..n : yielded'[i] = yielded[i]
    BY <1>1, <1>2, <1>3, <2>1
  <2> QED BY <2>1, <2>2, <2>3, <2>4
<1>5. /\ 1 \in 1..(m + 1) /\ \A i \in 1..m : i + 1 \in 1..(m + 1) /\ 1 < i + 1
      /\ \A i, j \in 1..m : i < j => i + 1 < j + 1
      /\ \A i \in 1..(n + 1) : i \in 1..n \/ i = n + 1
      /\ \A i \in 1..n : i < n + 1 /\ ~(n + 1 < i)
      /\ \A i \in 1..(m + 1) : i = 1 \/ \E j \in 1..m : i = j + 1
  <2>1. \A i \in 1..(m + 1) : i = 1 \/ (i - 1 \in 1..m /\ i = (i - 1) + 1)
    BY <1>3
  <2> QED BY <1>3, <2>1
<1>6. ListTypes'
  BY <1>1, <1>4 DEF ListTypes, Types
<1>7. ListSound'
  <2> SUFFICES ASSUME honest PROVE ListSound'
    BY <1>1 DEF ListSound
  <2>1. /\ ~failed /\ before \subseteq objects
        /\ \A i, j \in 1..n : i < j => yielded[i] < yielded[j]
        /\ \A i, j \in 1..(m + 1) : i < j => keys[i] < keys[j]
        /\ \A i \in 1..n, j \in 1..(m + 1) : yielded[i] < keys[j]
        /\ ~complete => /\ \A i \in 1..n : yielded[i] <= token
                        /\ \A i \in 1..(m + 1) : keys[i] <= token
                        /\ \A o \in seen : o <= token
    BY <1>1, <1>3 DEF ListSound, Ascending
  <2>2. \A i, j \in 1..(n + 1) : i < j => yielded'[i] < yielded'[j]
    <3> SUFFICES ASSUME NEW i \in 1..(n + 1), NEW j \in 1..(n + 1), i < j
                 PROVE  yielded'[i] < yielded'[j]
      OBVIOUS
    <3>1. i \in 1..n
      BY <1>3
    <3>2. CASE j \in 1..n
      BY <1>4, <2>1, <3>1, <3>2
    <3>3. CASE j = n + 1
      BY <1>4, <1>5, <2>1, <3>1, <3>3
    <3> QED BY <1>5, <3>2, <3>3
  <2>3. \A i, j \in 1..m : i < j => keys'[i] < keys'[j]
    <3> SUFFICES ASSUME NEW i \in 1..m, NEW j \in 1..m, i < j
                 PROVE  keys[i + 1] < keys[j + 1]
      BY <1>4
    <3>1. i + 1 \in 1..(m + 1) /\ j + 1 \in 1..(m + 1) /\ i + 1 < j + 1
      BY <1>3
    <3> QED BY <2>1, <3>1
  <2>4. \A i \in 1..(n + 1), j \in 1..m : yielded'[i] < keys'[j]
    <3> SUFFICES ASSUME NEW i \in 1..(n + 1), NEW j \in 1..m
                 PROVE  yielded'[i] < keys[j + 1]
      BY <1>4
    <3>1. CASE i \in 1..n
      BY <1>4, <1>5, <2>1, <3>1
    <3>2. CASE i = n + 1
      BY <1>4, <1>5, <2>1, <3>2
    <3> QED BY <1>5, <3>1, <3>2
  <2>5. ~complete => /\ \A i \in 1..(n + 1) : yielded'[i] <= token
                     /\ \A i \in 1..m : keys'[i] <= token
    BY <1>4, <1>5, <2>1
  <2>6. Range(yielded) \cup Range(keys) \subseteq Range(yielded') \cup Range(keys')
    <3> SUFFICES ASSUME NEW k \in Range(yielded) \cup Range(keys)
                 PROVE  (\E i \in 1..(n + 1) : yielded'[i] = k) \/ (\E i \in 1..m : keys'[i] = k)
      BY <1>4, RangeIs
    <3>1. CASE k \in Range(yielded)
      <4>1. PICK i \in 1..n : yielded[i] = k
        BY <1>2, <1>3, <3>1, RangeIs
      <4>2. i \in 1..(n + 1)
        BY <1>3
      <4> QED BY <1>4, <4>1, <4>2
    <3>2. CASE k \in Range(keys)
      <4>1. PICK i \in 1..(m + 1) : keys[i] = k
        BY <1>2, <1>3, <3>2, RangeIs
      <4>2. CASE i = 1
        <5>1. n + 1 \in 1..(n + 1)
          BY <1>3
        <5> QED BY <1>4, <4>1, <4>2, <5>1
      <4>3. CASE \E j \in 1..m : i = j + 1
        BY <1>4, <4>1, <4>3
      <4> QED BY <1>5, <4>2, <4>3
    <3> QED BY <3>1, <3>2
  <2>7. \A k \in before : complete \/ k <= token => k \in Range(yielded) \cup Range(keys)
    BY <1>1 DEF ListSound
  <2>8. \A k \in before : complete \/ k <= token => k \in Range(yielded') \cup Range(keys')
    BY <2>6, <2>7
  <2> QED BY <1>1, <1>4, <2>1, <2>2, <2>3, <2>4, <2>5, <2>8 DEF ListSound, Ascending
<1> QED BY <1>6, <1>7

-----------------------------------------------------------------------------
(* The temporary files. *)

\* The names of a read.
LEMMA NamesOf ==
  ASSUME Types, NEW r \in Reads
  PROVE  /\ Part(r) \in Names /\ Part(r)[1] = r /\ Part(r)[2] = "part"
         /\ Dest(r) \in Names /\ Dest(r)[1] = r /\ Dest(r)[2] = "dest"
         /\ kind[r] = "shard" => Dest(r)[3] = attempt[r]
<1>1. attempt[r] \in Attempts /\ 1 \in Attempts
  BY Sizes DEF Types
<1> QED BY <1>1 DEF Part, Dest, Names

\* The fields of a removal.
LEMMA RemovalIs ==
  ASSUME NEW r \in Reads, NEW f \in Names
  PROVE  /\ Removal(r, f) \in TaskType
         /\ Removal(r, f).op = "remove" /\ Removal(r, f).read = r /\ Removal(r, f).file = f
BY DEF Removal, Task, TaskType

\* Nothing that the files depend on changes.
LEMMA FilesFrame ==
  ASSUME FilesInv, UNCHANGED <<running, holder, disk, reading>>
  PROVE  FilesInv'
BY DEF FilesInv, ServerSound, StaleSound, TaskSound, FileSound, ReadSound, Active, Kept, InUse,
       Overtaken, Unguarded, Part, Dest, ManagedName, Removal, Task, disk, reading

\* One read moves: what belongs to the others is as it was.
LEMMA ReadMoves ==
  ASSUME Types, FilesInv, NEW r \in Reads,
         UNCHANGED <<running, holder, charged, stale>>, running # {},
         \A q \in Reads \ {r} : pc'[q] = pc[q] /\ kind'[q] = kind[q] /\ attempt'[q] = attempt[q],
         \A f \in stale : f[1] # r,
         \A t \in pool : t.read # r => t \in pool',
         \A t \in pool' : t.read # r => t \in pool,
         \A t \in pool' : t.read = r => TaskSound(t)',
         \A f \in DOMAIN files : f[1] # r => f \in DOMAIN files' /\ files'[f] = files[f],
         \A f \in DOMAIN files' : f[1] # r => f \in DOMAIN files,
         \A f \in DOMAIN files' : f[1] = r => FileSound(f)',
         ReadSound(r)'
  PROVE  FilesInv'
<1>1. \A q \in Reads \ {r} : Part(q)' = Part(q) /\ Dest(q)' = Dest(q) /\ (Active(q)' <=> Active(q))
  BY DEF Part, Dest, Active
<1>2. ServerSound'
  BY DEF FilesInv, ServerSound
<1>3. ASSUME NEW t \in pool' PROVE TaskSound(t)'
  <2>1. CASE t.read # r
    <3>1. t \in pool /\ TaskSound(t)
      BY <2>1 DEF FilesInv
    <3>2. t.read \in Reads \ {r} /\ t.file[1] # r
      BY <2>1, <3>1 DEF TaskSound, TaskType
    <3>3. t.file \in DOMAIN files' => t.file \in DOMAIN files /\ files'[t.file] = files[t.file]
      BY <3>2
    <3> QED BY <1>1, <3>1, <3>2, <3>3 DEF TaskSound
  <2> QED BY <2>1
<1>5. ASSUME NEW f \in DOMAIN files' PROVE FileSound(f)'
  <2>1. CASE f[1] # r
    <3>1. f \in DOMAIN files /\ FileSound(f) /\ files'[f] = files[f]
      BY <2>1 DEF FilesInv
    <3>2. f[1] \in Reads \ {r} /\ f \in Names
      BY <2>1, <3>1 DEF FileSound, Names
    <3>3. Removal(f[1], f).read # r
      BY <3>2, RemovalIs
    <3>4. Removal(f[1], f) \in pool => Removal(f[1], f) \in pool'
      BY <3>3
    <3>5. Kept(f)' <=> Kept(f)
      BY <1>1, <3>2 DEF Kept, InUse, Overtaken, Unguarded
    <3> QED BY <1>1, <3>1, <3>2, <3>4, <3>5 DEF FileSound, Removal, Task
  <2> QED BY <2>1
<1>6. StaleSound'
  <2> SUFFICES ASSUME NEW f \in stale
               PROVE  /\ f \in DOMAIN files' /\ ~Active(f[1])' /\ \A t \in pool' : t.read # f[1]
                      /\ ManagedName(f)' => running = {} \/ f \in charged
    BY DEF StaleSound
  <2>1. /\ f \in DOMAIN files /\ ~Active(f[1]) /\ \A t \in pool : t.read # f[1]
        /\ ManagedName(f) => running = {} \/ f \in charged
    BY DEF FilesInv, StaleSound
  <2>2. f[1] \in Reads \ {r}
    BY <2>1 DEF FilesInv, FileSound, Names
  <2> QED BY <1>1, <2>1, <2>2 DEF ManagedName
<1>7. ASSUME NEW q \in Reads PROVE ReadSound(q)'
  <2>1. CASE q # r
    <3>1. Dest(q)[1] # r
      BY <2>1, NamesOf
    <3> QED BY <1>1, <2>1, <3>1 DEF FilesInv, ReadSound
  <2> QED BY <2>1
<1> QED BY <1>2, <1>3, <1>5, <1>6, <1>7 DEF FilesInv

\* A server starts: nobody else runs, and what it cannot remove is charged.
LEMMA StartFiles ==
  ASSUME Types, FilesInv, NEW s \in Servers, Start(s)
  PROVE  FilesInv' /\ charged' \subseteq Names
<1>1. PICK kept \in SUBSET {f \in DOMAIN files : ManagedName(f)} :
        /\ files' = Without({f \in DOMAIN files : ManagedName(f) /\ f \notin kept})
        /\ charged' = kept
  BY DEF Start, CleanupTempDirectory
<1>2. /\ holder = None /\ running' = running \cup {s} /\ holder' = s /\ stale' = DOMAIN files'
      /\ pool' = pool /\ pc' = pc /\ kind' = kind /\ attempt' = attempt
  BY DEF Start, LockFree, reading
<1>3. running = {} /\ pool = {} /\ \A r \in Reads : ~Active(r)
  BY <1>2, ReadsAssumption DEF FilesInv, ServerSound
<1>4. /\ DOMAIN files' = DOMAIN files \ {f \in DOMAIN files : ManagedName(f) /\ f \notin kept}
      /\ \A f \in DOMAIN files' : f \in DOMAIN files /\ files'[f] = files[f]
  BY <1>1 DEF Without
<1>5. \A f \in DOMAIN files : FileSound(f) /\ f \in Names /\ f[1] \in Reads
  BY DEF FilesInv, FileSound, Names
<1>6. ServerSound'
  BY <1>2, <1>3 DEF ServerSound, Active
<1>7. \A t \in pool' : TaskSound(t)'
  BY <1>2, <1>3
<1>8. \A f \in DOMAIN files' : FileSound(f)'
  BY <1>2, <1>4, <1>5 DEF FileSound
<1>9. StaleSound'
  BY <1>1, <1>2, <1>3, <1>4, <1>5 DEF StaleSound, Active, ManagedName
<1>10. \A r \in Reads : ReadSound(r)'
  BY <1>2, <1>3 DEF ReadSound, Active, LeavingPlaces
<1>11. charged' \subseteq Names
  BY <1>1, <1>5
<1> QED BY <1>6, <1>7, <1>8, <1>9, <1>10, <1>11 DEF FilesInv

\* A server is killed: its files are stale, and no task of it is left.
LEMMA CrashFiles ==
  ASSUME Types, FilesInv, NEW s \in Servers, Crash(s)
  PROVE  FilesInv' /\ pc' \in [Reads -> Places]
<1>1. /\ s \in running /\ running' = running \ {s} /\ pool' = {}
      /\ holder' = (IF holder = s THEN None ELSE holder)
      /\ pc' = [r \in Reads |-> "over"]
      /\ stale' = DOMAIN files /\ UNCHANGED <<files, charged, kind, attempt>>
  BY DEF Crash
<1>2. running' = {} /\ holder' = None
  BY <1>1 DEF FilesInv, ServerSound
<1>3. \A r \in Reads : ~Active(r)' /\ pc'[r] = "over"
  BY <1>1 DEF Active
<1>4. \A f \in DOMAIN files : FileSound(f) /\ f \in Names /\ f[1] \in Reads
  BY DEF FilesInv, FileSound, Names
<1>5. ServerSound' /\ (\A t \in pool' : TaskSound(t)') /\ (\A r \in Reads : ReadSound(r)')
  BY <1>1, <1>2, <1>3 DEF ServerSound, ReadSound
<1>6. \A f \in DOMAIN files' : FileSound(f)'
  BY <1>1, <1>3, <1>4 DEF FileSound
<1>7. StaleSound'
  BY <1>1, <1>2, <1>3, <1>4 DEF StaleSound
<1>8. pc' \in [Reads -> Places]
  BY <1>1 DEF Types, Places
<1> QED BY <1>5, <1>6, <1>7, <1>8 DEF FilesInv

\* What the invariant says of a read that is under way.
LEMMA ActiveRead ==
  ASSUME Types, FilesInv, NEW r \in Reads, Active(r)
  PROVE  /\ running # {} /\ \A f \in stale : f[1] # r
         /\ \A t \in pool : t.read = r =>
              /\ t \in TaskType /\ t.file[1] = r /\ pc[r] # "size"
              /\ t.op = "create" => t.file = Part(r) /\ t.to = Part(r) /\ pc[r] = "creating"
              /\ t.op = "rename" => t.file = Part(r) /\ t.to = Dest(r) /\ pc[r] = "renaming"
              /\ t.op = "rename" /\ t.file \in DOMAIN files => files[t.file] # "cut"
              /\ t.op = "remove" /\ t.file[2] = "dest" =>
                   kind[r] = "shard" /\ t.file[3] < attempt[r]
         /\ \A f \in DOMAIN files : f[1] = r =>
              /\ f \in Names /\ (f[2] = "dest" => files[f] # "cut") /\ pc[r] # "size"
              /\ \/ f = Dest(r) /\ pc[r] \in {"check", "streaming"}
                 \/ f = Part(r) /\ pc[r] \in {"body", "renaming"}
                 \/ Removal(r, f) \in pool
<1>1. running # {} /\ \A f \in stale : f[1] # r
  BY DEF FilesInv, ServerSound, StaleSound
<1>2. ASSUME NEW t \in pool, t.read = r
      PROVE  /\ t \in TaskType /\ t.file[1] = r /\ pc[r] # "size"
             /\ t.op = "create" => t.file = Part(r) /\ t.to = Part(r) /\ pc[r] = "creating"
             /\ t.op = "rename" => t.file = Part(r) /\ t.to = Dest(r) /\ pc[r] = "renaming"
             /\ t.op = "rename" /\ t.file \in DOMAIN files => files[t.file] # "cut"
             /\ t.op = "remove" /\ t.file[2] = "dest" =>
                  kind[r] = "shard" /\ t.file[3] < attempt[r]
  BY <1>2 DEF FilesInv, TaskSound, Active, LeavingPlaces
<1>3. ASSUME NEW f \in DOMAIN files, f[1] = r
      PROVE  /\ f \in Names /\ (f[2] = "dest" => files[f] # "cut") /\ pc[r] # "size"
             /\ \/ f = Dest(r) /\ pc[r] \in {"check", "streaming"}
                \/ f = Part(r) /\ pc[r] \in {"body", "renaming"}
                \/ Removal(r, f) \in pool
  <2>1. FileSound(f) /\ f \notin stale
    BY <1>1, <1>3 DEF FilesInv
  <2>2. ~Overtaken(f) /\ ~Unguarded(f)
    BY <1>3 DEF Overtaken, Unguarded, Active, LeavingPlaces
  <2> QED BY <1>3, <2>1, <2>2 DEF FileSound, Kept, InUse
<1> QED BY <1>1, <1>2, <1>3

\* A read begins in a slot of which nothing is left.
LEMMA BeginFiles ==
  ASSUME Types, FilesInv, NEW r \in Reads, Begin(r)
  PROVE  FilesInv' /\ pc' \in [Reads -> Places] /\ attempt' \in [Reads -> Attempts]
         /\ kind' \in [Reads -> Kinds]
<1>1. PICK k \in Kinds :
        /\ running # {} /\ (\A t \in pool : t.read # r) /\ (\A f \in DOMAIN files : f[1] # r)
        /\ kind' = [kind EXCEPT ![r] = k]
        /\ pc' = [pc EXCEPT ![r] = IF k \in {"blob", "stream"} THEN "size" ELSE "get"]
        /\ attempt' = [attempt EXCEPT ![r] = 1]
        /\ UNCHANGED <<running, holder, files, charged, stale, pool>>
  BY DEF Begin, Go, server, disk, Kinds
<1>2. \A f \in stale : f[1] # r
  BY <1>1 DEF FilesInv, StaleSound
<1>3. \A q \in Reads \ {r} : pc'[q] = pc[q] /\ kind'[q] = kind[q] /\ attempt'[q] = attempt[q]
  BY <1>1 DEF Types
<1>4. ReadSound(r)'
  BY <1>1 DEF ReadSound, Types
<1>5. /\ pc' \in [Reads -> Places] /\ attempt' \in [Reads -> Attempts]
      /\ kind' \in [Reads -> Kinds]
  BY <1>1, Sizes DEF Types, Places
<1>6. /\ \A t \in pool' : t \in pool /\ t.read # r
      /\ \A f \in DOMAIN files' : f \in DOMAIN files /\ f[1] # r
  BY <1>1
<1>7. FilesInv'
  BY <1>1, <1>2, <1>3, <1>4, <1>6, ReadMoves
<1> QED BY <1>5, <1>7

\* An attempt fails: what it leaves will be removed.
LEMMA AttemptFailsFiles ==
  ASSUME Types, FilesInv, NEW r \in Reads, Active(r), NEW rest, AttemptFails(r, rest),
         UNCHANGED <<running, holder, files, charged, stale, kind>>,
         \A t \in pool : t.read # r => t \in rest,
         \A t \in rest : t.read # r => t \in pool,
         \A t \in rest : t.read = r =>
           /\ t \in TaskType /\ t.file[1] = r /\ t.op = "remove"
           /\ t.file[2] = "dest" => kind[r] = "shard" /\ t.file[3] < attempt[r],
         \A f \in DOMAIN files : f[1] = r => Removal(r, f) \in rest
  PROVE  FilesInv' /\ pc' \in [Reads -> Places] /\ attempt' \in [Reads -> Attempts]
<1>1. /\ running # {} /\ \A f \in stale : f[1] # r
      /\ \A f \in DOMAIN files : f[1] = r => f \in Names /\ (f[2] = "dest" => files[f] # "cut")
  BY ActiveRead
<1>2. /\ Dest(r) \in Names /\ Dest(r)[1] = r /\ Dest(r)[2] = "dest"
      /\ kind[r] = "shard" => Dest(r)[3] = attempt[r]
      /\ attempt[r] \in Attempts /\ attempt[r] \in Nat
  BY NamesOf, Sizes DEF Types
<1>3. PICK guard : guard = Removal(r, Dest(r))
  OBVIOUS
<1>4. guard \in TaskType /\ guard.op = "remove" /\ guard.read = r /\ guard.file = Dest(r)
  BY <1>2, <1>3, RemovalIs
<1>5. /\ rest \subseteq pool'
      /\ \A t \in pool' : t \in rest \/ (t = guard /\ (kind[r] = "shard" \/ ~Retries(r)))
      /\ IF Retries(r)
         THEN pc' = [pc EXCEPT ![r] = "get"]
              /\ attempt' = [attempt EXCEPT ![r] = IF @ > MaxRetries THEN @ ELSE @ + 1]
         ELSE pc' = [pc EXCEPT ![r] = "over"] /\ attempt' = attempt
  BY <1>3 DEF AttemptFails, AttemptGuards, DestGuard, Go
<1>6. CASE Retries(r)
  <2>1. attempt[r] <= MaxRetries
    BY <1>6 DEF Retries
  <2>2. ~(attempt[r] > MaxRetries) /\ attempt[r] + 1 \in Attempts
    BY <1>2, <2>1, Sizes DEF Attempts
  <2>3. attempt' = [attempt EXCEPT ![r] = attempt[r] + 1] /\ pc' = [pc EXCEPT ![r] = "get"]
    BY <1>5, <1>6, <2>2 DEF Types
  <2>4. pc' \in [Reads -> Places] /\ attempt' \in [Reads -> Attempts]
    BY <2>2, <2>3 DEF Types, Places
  <2>5. pc'[r] = "get" /\ attempt'[r] = attempt[r] + 1
    BY <2>3 DEF Types
  <2>6. \A q \in Reads \ {r} : pc'[q] = pc[q] /\ kind'[q] = kind[q] /\ attempt'[q] = attempt[q]
    BY <2>3 DEF Types
  <2>7. rest \subseteq pool' /\ \A t \in pool' : t \in rest \/ (t = guard /\ kind[r] = "shard")
    BY <1>5, <1>6
  <2>8. ASSUME NEW t \in pool', t.read = r PROVE TaskSound(t)'
    <3>1. /\ t \in TaskType /\ t.file[1] = r /\ t.op = "remove"
          /\ t.file[2] = "dest" => kind[r] = "shard" /\ t.file[3] <= attempt[r] /\ t.file[3] \in Nat
      <4>1. CASE t \in rest
        <5>1. t \in TaskType /\ t.file[1] = r /\ t.op = "remove"
              /\ (t.file[2] = "dest" => kind[r] = "shard" /\ t.file[3] < attempt[r])
          BY <2>8, <4>1
        <5>2. t.file[3] \in Nat
          BY <5>1, Sizes DEF TaskType, Names
        <5> QED BY <1>2, <5>1, <5>2
      <4>2. CASE kind[r] = "shard" /\ t = guard
        BY <1>2, <1>4, <4>2
      <4> QED BY <2>7, <4>1, <4>2
    <3>2. t.file[3] <= attempt[r] /\ t.file[3] \in Nat => t.file[3] < attempt'[r]
      BY <1>2, <2>5
    <3> QED BY <2>5, <2>8, <3>1, <3>2 DEF TaskSound
  <2>9. ASSUME NEW f \in DOMAIN files', f[1] = r PROVE FileSound(f)'
    <3>1. f \in DOMAIN files /\ f \in Names /\ files'[f] = files[f] /\ (f[2] = "dest" => files[f] # "cut")
      BY <1>1, <2>9
    <3>2. Removal(r, f) \in pool'
      BY <2>7, <2>9, <3>1
    <3> QED BY <2>5, <2>9, <3>1, <3>2 DEF FileSound, Removal, Task
  <2>10. ReadSound(r)'
    BY <2>5 DEF ReadSound
  <2>11. \A t \in pool' : t.read # r => t \in pool
    BY <1>4, <2>7
  <2>12. FilesInv'
    BY <1>1, <2>6, <2>7, <2>8, <2>9, <2>10, <2>11, ReadMoves
  <2> QED BY <2>4, <2>12
<1>7. CASE ~Retries(r)
  <2>1. /\ rest \subseteq pool' /\ \A t \in pool' : t \in rest \/ t = guard
        /\ pc' = [pc EXCEPT ![r] = "over"] /\ attempt' = attempt
    BY <1>5, <1>7
  <2>2. pc' \in [Reads -> Places] /\ attempt' \in [Reads -> Attempts]
    BY <2>1 DEF Types, Places
  <2>3. pc'[r] = "over" /\ ~Active(r)'
    BY <2>1 DEF Types, Active
  <2>4. \A q \in Reads \ {r} : pc'[q] = pc[q] /\ kind'[q] = kind[q] /\ attempt'[q] = attempt[q]
    BY <2>1 DEF Types
  <2>5. ASSUME NEW t \in pool', t.read = r PROVE TaskSound(t)'
    <3>1. t \in TaskType /\ t.file[1] = r /\ t.op = "remove"
      BY <1>2, <1>4, <2>1, <2>5
    <3> QED BY <2>3, <2>5, <3>1 DEF TaskSound
  <2>6. ASSUME NEW f \in DOMAIN files', f[1] = r PROVE FileSound(f)'
    <3>1. f \in DOMAIN files /\ f \in Names /\ files'[f] = files[f] /\ (f[2] = "dest" => files[f] # "cut")
      BY <1>1, <2>6
    <3>2. Removal(r, f) \in pool'
      BY <2>1, <2>6, <3>1
    <3> QED BY <2>3, <2>6, <3>1, <3>2 DEF FileSound, Removal, Task
  <2>7. ReadSound(r)'
    BY <2>3 DEF ReadSound, Active
  <2>8. /\ \A t \in pool' : t.read # r => t \in pool
        /\ \A t \in pool : t.read # r => t \in pool'
    BY <1>4, <2>1
  <2>9. FilesInv'
    BY <1>1, <2>4, <2>5, <2>6, <2>7, <2>8, ReadMoves
  <2> QED BY <2>2, <2>9
<1> QED BY <1>6, <1>7

\* A read ends, and its guard removes the destination, if it has one.
LEMMA OverFiles ==
  ASSUME Types, FilesInv, NEW r \in Reads, Active(r), pc[r] \in {"get", "check", "streaming"},
         pc' = [pc EXCEPT ![r] = IF pc[r] = "check" THEN "leftCheck" ELSE "over"],
         pool' = pool \cup DestGuard(r),
         UNCHANGED <<running, holder, files, charged, stale, kind, attempt>>
  PROVE  FilesInv' /\ pc' \in [Reads -> Places]
<1>1. /\ running # {} /\ \A f \in stale : f[1] # r
      /\ \A t \in pool : t.read = r => t \in TaskType /\ t.file[1] = r /\ t.op = "remove"
      /\ \A f \in DOMAIN files : f[1] = r =>
           /\ f \in Names /\ (f[2] = "dest" => files[f] # "cut")
           /\ (f = Dest(r) /\ pc[r] \in {"check", "streaming"}) \/ Removal(r, f) \in pool
  <2>1. \A t \in pool : t.read = r => t \in TaskType /\ t.file[1] = r /\ t.op # "create" /\ t.op # "rename"
    BY ActiveRead
  <2>2. \A t \in pool : t.read = r => t.op = "remove"
    BY <2>1 DEF TaskType
  <2> QED BY <2>1, <2>2, ActiveRead
<1>2. Dest(r) \in Names /\ Dest(r)[1] = r
  BY NamesOf
<1>3. PICK guard : guard = Removal(r, Dest(r))
  OBVIOUS
<1>4. guard \in TaskType /\ guard.op = "remove" /\ guard.read = r /\ guard.file = Dest(r)
  BY <1>2, <1>3, RemovalIs
<1>5. /\ pc'[r] = (IF pc[r] = "check" THEN "leftCheck" ELSE "over") /\ ~Active(r)'
      /\ pc' \in [Reads -> Places] /\ Dest(r)' = Dest(r)
      /\ \A q \in Reads \ {r} : pc'[q] = pc[q] /\ kind'[q] = kind[q] /\ attempt'[q] = attempt[q]
  BY DEF Types, Active, Places, LeavingPlaces, Dest
<1>6. /\ pool \subseteq pool' /\ \A t \in pool' : t \in pool \/ t = guard
      /\ guard \in pool' \/ (kind[r] = "blob" /\ pc[r] # "streaming")
  BY <1>3 DEF DestGuard
<1>7. ASSUME NEW t \in pool', t.read = r PROVE TaskSound(t)'
  <2>1. t \in TaskType /\ t.file[1] = r /\ t.op = "remove"
    BY <1>1, <1>2, <1>4, <1>6, <1>7
  <2> QED BY <1>5, <1>7, <2>1 DEF TaskSound
<1>8. ASSUME NEW f \in DOMAIN files', f[1] = r PROVE FileSound(f)'
  <2>1. f \in DOMAIN files /\ f \in Names /\ (f[2] = "dest" => files[f] # "cut")
    BY <1>1, <1>8
  <2>2. Kept(f)' \/ Removal(r, f) \in pool'
    <3>1. CASE Removal(r, f) \in pool
      BY <1>6, <3>1
    <3>2. CASE f = Dest(r) /\ guard \in pool'
      BY <1>3, <3>2
    <3>3. CASE f = Dest(r) /\ pc[r] = "check" /\ kind[r] = "blob"
      BY <1>5, <1>8, <3>3 DEF Kept, Unguarded
    <3> QED BY <1>1, <1>6, <1>8, <2>1, <3>1, <3>2, <3>3
  <2> QED BY <1>5, <1>8, <2>1, <2>2 DEF FileSound, Removal, Task
<1>9. ReadSound(r)'
  BY <1>5 DEF ReadSound
<1>10. \A t \in pool' : t.read # r => t \in pool
  BY <1>4, <1>6
<1>11. FilesInv'
  BY <1>1, <1>5, <1>6, <1>7, <1>8, <1>9, <1>10, ReadMoves
<1> QED BY <1>5, <1>11

\* The answer to get_size: nothing was created so far.
LEMMA SizeFiles ==
  ASSUME Types, FilesInv, NEW r \in Reads, Size(r)
  PROVE  FilesInv' /\ pc' \in [Reads -> Places]
<1>1. PICK place \in {"get", "over"} :
        /\ pc[r] = "size" /\ pc' = [pc EXCEPT ![r] = place]
        /\ UNCHANGED <<running, holder, files, charged, stale, pool, kind, attempt>>
  BY DEF Size, Go, server, disk
<1>2. Active(r)
  BY <1>1 DEF Active, LeavingPlaces
<1>3. /\ running # {} /\ \A f \in stale : f[1] # r
      /\ \A t \in pool : t.read # r /\ \A f \in DOMAIN files : f[1] # r
  BY <1>1, <1>2, ActiveRead
<1>4. \A f \in DOMAIN files : f[1] # r
  BY <1>1, <1>2, ActiveRead
<1>5. pc' \in [Reads -> Places] /\ ReadSound(r)'
      /\ \A q \in Reads \ {r} : pc'[q] = pc[q] /\ kind'[q] = kind[q] /\ attempt'[q] = attempt[q]
  BY <1>1 DEF Types, Places, ReadSound
<1>6. /\ \A t \in pool' : t \in pool /\ t.read # r
      /\ \A f \in DOMAIN files' : f \in DOMAIN files /\ f[1] # r
  BY <1>1, <1>3, <1>4
<1>7. FilesInv'
  BY <1>1, <1>3, <1>4, <1>5, <1>6, ReadMoves
<1> QED BY <1>5, <1>7

\* The answer to get_object: the file of the attempt is asked for.
LEMMA GetFiles ==
  ASSUME Types, FilesInv, NEW r \in Reads, Get(r)
  PROVE  FilesInv' /\ pc' \in [Reads -> Places] /\ attempt' \in [Reads -> Attempts]
<1>1. pc[r] = "get" /\ Active(r) /\ UNCHANGED <<running, holder, files, charged, stale, kind>>
  BY DEF Get, Active, LeavingPlaces, server, disk
<1>2. /\ running # {} /\ \A f \in stale : f[1] # r
      /\ \A t \in pool : t.read = r =>
           /\ t \in TaskType /\ t.file[1] = r /\ t.op = "remove"
           /\ t.file[2] = "dest" => kind[r] = "shard" /\ t.file[3] < attempt[r]
      /\ \A f \in DOMAIN files : f[1] = r =>
           /\ f \in Names /\ (f[2] = "dest" => files[f] # "cut")
           /\ Removal(r, f) \in pool
  <2>1. \A t \in pool : t.read = r =>
          /\ t \in TaskType /\ t.file[1] = r /\ t.op # "create" /\ t.op # "rename"
          /\ t.op = "remove" /\ t.file[2] = "dest" => kind[r] = "shard" /\ t.file[3] < attempt[r]
    BY <1>1, ActiveRead
  <2>2. \A t \in pool : t.read = r => t.op = "remove"
    BY <2>1 DEF TaskType
  <2> QED BY <1>1, <2>1, <2>2, ActiveRead
<1>3. CASE pc' = [pc EXCEPT ![r] = "over"] /\ pool' = pool \cup DestGuard(r) /\ attempt' = attempt
  <2>1. FilesInv' /\ pc' \in [Reads -> Places]
    BY <1>1, <1>3, OverFiles
  <2> QED BY <1>3, <2>1 DEF Types
<1>4. CASE AttemptFails(r, pool)
  BY <1>1, <1>2, <1>4, AttemptFailsFiles
<1>5. CASE /\ pc' = [pc EXCEPT ![r] = "creating"] /\ attempt' = attempt
           /\ pool' = pool \cup {Task("create", r, Part(r), Part(r))}
  <2>1. Part(r) \in Names /\ Part(r)[1] = r
    BY NamesOf
  <2>2. PICK new : new = Task("create", r, Part(r), Part(r))
    OBVIOUS
  <2>3. new \in TaskType /\ new.op = "create" /\ new.read = r /\ new.file = Part(r) /\ new.to = Part(r)
    BY <2>1, <2>2 DEF Task, TaskType
  <2>4. pc'[r] = "creating" /\ pc' \in [Reads -> Places] /\ attempt' \in [Reads -> Attempts]
        /\ \A q \in Reads \ {r} : pc'[q] = pc[q] /\ kind'[q] = kind[q] /\ attempt'[q] = attempt[q]
    BY <1>1, <1>5 DEF Types, Places
  <2>5. Part(r)' = Part(r) /\ Dest(r)' = Dest(r)
    BY <1>1, <1>5 DEF Part, Dest
  <2>6. ASSUME NEW t \in pool', t.read = r PROVE TaskSound(t)'
    <3>1. CASE t = new
      BY <2>1, <2>3, <2>4, <2>5, <3>1 DEF TaskSound
    <3>2. CASE t \in pool
      <4>1. /\ t \in TaskType /\ t.file[1] = r /\ t.op = "remove"
            /\ t.file[2] = "dest" => kind'[r] = "shard" /\ t.file[3] < attempt'[r]
        BY <1>1, <1>2, <1>5, <2>6, <3>2
      <4> QED BY <2>4, <2>6, <4>1 DEF TaskSound
    <3> QED BY <1>5, <2>2, <3>1, <3>2
  <2>7. ASSUME NEW f \in DOMAIN files', f[1] = r PROVE FileSound(f)'
    <3>1. f \in DOMAIN files /\ f \in Names /\ (f[2] = "dest" => files'[f] # "cut")
      BY <1>1, <1>2, <2>7
    <3>2. Removal(r, f) \in pool'
      BY <1>1, <1>2, <1>5, <2>7
    <3> QED BY <2>4, <2>7, <3>1, <3>2 DEF FileSound, Removal, Task
  <2>8. ReadSound(r)'
    BY <2>4 DEF ReadSound
  <2>9. /\ \A t \in pool' : t.read # r => t \in pool
        /\ \A t \in pool : t.read # r => t \in pool'
    BY <1>5, <2>2, <2>3
  <2>10. FilesInv'
    BY <1>1, <1>2, <2>4, <2>6, <2>7, <2>8, <2>9, ReadMoves
  <2> QED BY <2>4, <2>10
<1> QED BY <1>3, <1>4, <1>5 DEF Get, Go, Spawn

\* The body is written to the file of the attempt, which is renamed next.
LEMMA BodyFiles ==
  ASSUME Types, FilesInv, NEW r \in Reads, Body(r)
  PROVE  FilesInv' /\ pc' \in [Reads -> Places] /\ attempt' \in [Reads -> Attempts]
<1>1. pc[r] = "body" /\ Active(r) /\ UNCHANGED <<running, holder, charged, stale, kind>>
  BY DEF Body, Active, LeavingPlaces, server
<1>2. /\ running # {} /\ \A f \in stale : f[1] # r
      /\ \A t \in pool : t.read = r =>
           /\ t \in TaskType /\ t.file[1] = r /\ t.op = "remove"
           /\ t.file[2] = "dest" => kind[r] = "shard" /\ t.file[3] < attempt[r]
      /\ \A f \in DOMAIN files : f[1] = r =>
           /\ f \in Names /\ (f[2] = "dest" => files[f] # "cut")
           /\ f = Part(r) \/ Removal(r, f) \in pool
  <2>1. \A t \in pool : t.read = r =>
          /\ t \in TaskType /\ t.file[1] = r /\ t.op # "create" /\ t.op # "rename"
          /\ t.op = "remove" /\ t.file[2] = "dest" => kind[r] = "shard" /\ t.file[3] < attempt[r]
    BY <1>1, ActiveRead
  <2>2. \A t \in pool : t.read = r => t.op = "remove"
    BY <2>1 DEF TaskType
  <2> QED BY <1>1, <2>1, <2>2, ActiveRead
<1>3. /\ Part(r) \in Names /\ Part(r)[1] = r /\ Part(r)[2] = "part"
      /\ Dest(r) \in Names /\ Dest(r)[1] = r /\ Dest(r)[2] = "dest"
  BY NamesOf
<1>4. CASE AttemptFails(r, pool \cup {Removal(r, Part(r))}) /\ files' = files
  <2>1. PICK guard : guard = Removal(r, Part(r))
    OBVIOUS
  <2>2. guard \in TaskType /\ guard.op = "remove" /\ guard.read = r /\ guard.file = Part(r)
    BY <1>3, <2>1, RemovalIs
  <2>3. PICK rest : rest = pool \cup {guard}
    OBVIOUS
  <2>4. AttemptFails(r, rest)
    BY <1>4, <2>1, <2>3
  <2>5. \A t \in rest : t.read = r =>
          /\ t \in TaskType /\ t.file[1] = r /\ t.op = "remove"
          /\ t.file[2] = "dest" => kind[r] = "shard" /\ t.file[3] < attempt[r]
    BY <1>2, <1>3, <2>2, <2>3
  <2>6. \A f \in DOMAIN files : f[1] = r => Removal(r, f) \in rest
    BY <1>2, <2>1, <2>3
  <2>7. /\ \A t \in pool : t.read # r => t \in rest
        /\ \A t \in rest : t.read # r => t \in pool
    BY <2>2, <2>3
  <2> QED BY <1>1, <1>4, <2>4, <2>5, <2>6, <2>7, AttemptFailsFiles
<1>5. ASSUME NEW content \in {"whole", "short"},
             files' = IF Part(r) \in DOMAIN files THEN With(Part(r), content) ELSE files,
             pc' = [pc EXCEPT ![r] = "renaming"],
             pool' = pool \cup {Task("rename", r, Part(r), Dest(r))}, attempt' = attempt
      PROVE  FilesInv' /\ pc' \in [Reads -> Places] /\ attempt' \in [Reads -> Attempts]
  <2>1. PICK new : new = Task("rename", r, Part(r), Dest(r))
    OBVIOUS
  <2>2. new \in TaskType /\ new.op = "rename" /\ new.read = r /\ new.file = Part(r) /\ new.to = Dest(r)
    BY <1>3, <2>1 DEF Task, TaskType
  <2>3. pc'[r] = "renaming" /\ pc' \in [Reads -> Places] /\ attempt' \in [Reads -> Attempts]
        /\ \A q \in Reads \ {r} : pc'[q] = pc[q] /\ kind'[q] = kind[q] /\ attempt'[q] = attempt[q]
    BY <1>1, <1>5 DEF Types, Places
  <2>4. Part(r)' = Part(r) /\ Dest(r)' = Dest(r)
    BY <1>1, <1>5 DEF Part, Dest
  <2>5. /\ DOMAIN files' = DOMAIN files
        /\ \A f \in DOMAIN files : files'[f] = IF f = Part(r) THEN content ELSE files[f]
    BY <1>5 DEF With
  <2>6. ASSUME NEW t \in pool', t.read = r PROVE TaskSound(t)'
    <3>1. CASE t = new
      <4>1. Part(r) \in DOMAIN files' => files'[Part(r)] # "cut"
        BY <2>5
      <4> QED BY <1>3, <2>2, <2>3, <2>4, <3>1, <4>1 DEF TaskSound
    <3>2. CASE t \in pool
      <4>1. /\ t \in TaskType /\ t.file[1] = r /\ t.op = "remove"
            /\ t.file[2] = "dest" => kind'[r] = "shard" /\ t.file[3] < attempt'[r]
        BY <1>1, <1>2, <1>5, <2>6, <3>2
      <4> QED BY <2>3, <2>6, <4>1 DEF TaskSound
    <3> QED BY <1>5, <2>1, <3>1, <3>2
  <2>7. ASSUME NEW f \in DOMAIN files', f[1] = r PROVE FileSound(f)'
    <3>1. f \in DOMAIN files /\ f \in Names /\ (f[2] = "dest" => files'[f] # "cut")
      BY <1>2, <1>3, <2>5, <2>7
    <3>2. f = Part(r)' \/ Removal(r, f) \in pool'
      BY <1>2, <1>5, <2>4, <2>7, <3>1
    <3> QED BY <2>3, <2>7, <3>1, <3>2 DEF FileSound, Kept, InUse, Removal, Task
  <2>8. ReadSound(r)'
    BY <2>3 DEF ReadSound
  <2>9. /\ \A t \in pool' : t.read # r => t \in pool
        /\ \A t \in pool : t.read # r => t \in pool'
        /\ \A f \in DOMAIN files : f[1] # r => f \in DOMAIN files' /\ files'[f] = files[f]
    BY <1>3, <1>5, <2>1, <2>2, <2>5
  <2>10. FilesInv'
    BY <1>1, <1>2, <2>3, <2>5, <2>6, <2>7, <2>8, <2>9, ReadMoves
  <2> QED BY <2>3, <2>10
<1> QED BY <1>4, <1>5 DEF Body, Go, Spawn

\* A copy that is whole is streamed; any other use of it ends the read.
LEMMA CheckFiles ==
  ASSUME Types, FilesInv, NEW r \in Reads, Check(r)
  PROVE  FilesInv' /\ pc' \in [Reads -> Places]
<1>1. /\ pc[r] = "check" /\ Active(r)
      /\ UNCHANGED <<running, holder, files, charged, stale, kind, attempt>>
  BY DEF Check, Active, LeavingPlaces, server, disk
<1>2. CASE pc' = [pc EXCEPT ![r] = LeftAt(pc[r])] /\ pool' = pool \cup DestGuard(r)
  <2>1. LeftAt(pc[r]) = "leftCheck"
    BY <1>1 DEF LeftAt
  <2> QED BY <1>1, <1>2, <2>1, OverFiles
<1>3. CASE pc' = [pc EXCEPT ![r] = "streaming"] /\ pool' = pool
  <2>1. pc'[r] = "streaming" /\ pc' \in [Reads -> Places]
        /\ \A q \in Reads \ {r} : pc'[q] = pc[q] /\ kind'[q] = kind[q] /\ attempt'[q] = attempt[q]
    BY <1>1, <1>3 DEF Types, Places
  <2>2. Dest(r)' = Dest(r) /\ Active(r)'
    BY <1>1, <2>1 DEF Dest, Active, LeavingPlaces
  <2>3. /\ running # {} /\ \A f \in stale : f[1] # r
        /\ \A t \in pool : t.read = r =>
             /\ t \in TaskType /\ t.file[1] = r /\ t.op # "create" /\ t.op # "rename"
             /\ t.op = "remove" /\ t.file[2] = "dest" => kind[r] = "shard" /\ t.file[3] < attempt[r]
        /\ \A f \in DOMAIN files : f[1] = r =>
             /\ f \in Names /\ (f[2] = "dest" => files[f] # "cut")
             /\ f = Dest(r) \/ Removal(r, f) \in pool
    BY <1>1, ActiveRead
  <2>4. ASSUME NEW t \in pool', t.read = r PROVE TaskSound(t)'
    BY <1>1, <1>3, <2>1, <2>3, <2>4 DEF TaskSound
  <2>5. ASSUME NEW f \in DOMAIN files', f[1] = r PROVE FileSound(f)'
    <3>1. /\ f \in DOMAIN files /\ f \in Names /\ (f[2] = "dest" => files'[f] # "cut")
          /\ f = Dest(r)' \/ Removal(r, f) \in pool'
      BY <1>1, <1>3, <2>2, <2>3, <2>5
    <3> QED BY <2>1, <2>5, <3>1 DEF FileSound, Kept, InUse, Removal, Task
  <2>6. ReadSound(r)'
    BY <1>1, <2>2 DEF FilesInv, ReadSound
  <2>7. FilesInv'
    BY <1>1, <1>3, <2>1, <2>3, <2>4, <2>5, <2>6, ReadMoves
  <2> QED BY <2>1, <2>7
<1> QED BY <1>2, <1>3 DEF Check, Go, Spawn

\* The stream is read to its end.
LEMMA StreamedFiles ==
  ASSUME Types, FilesInv, NEW r \in Reads, Streamed(r)
  PROVE  FilesInv' /\ pc' \in [Reads -> Places]
<1>1. /\ pc[r] = "streaming" /\ Active(r) /\ pc' = [pc EXCEPT ![r] = "over"]
      /\ pool' = pool \cup DestGuard(r)
      /\ UNCHANGED <<running, holder, files, charged, stale, kind, attempt>>
  BY DEF Streamed, Active, Go, Spawn, server, disk, LeavingPlaces
<1> QED BY <1>1, OverFiles

\* A request is dropped: what it was waiting for may still be run, and the
\* guards only ask for removals.
LEMMA DropFiles ==
  ASSUME Types, FilesInv, NEW r \in Reads, Drop(r)
  PROVE  FilesInv' /\ pc' \in [Reads -> Places]
<1>1. PICK more : more = (IF pc[r] \in {"creating", "body", "renaming"} THEN {Removal(r, Part(r))} ELSE {})
                         \cup DestGuard(r)
  OBVIOUS
<1>2. /\ Active(r) /\ pc' = [pc EXCEPT ![r] = LeftAt(pc[r])] /\ pool' = pool \cup more
      /\ UNCHANGED <<running, holder, files, charged, stale, kind, attempt>>
  BY <1>1 DEF Drop, Go, Spawn, server, disk
<1>3. \A t \in more : t \in TaskType /\ t.file[1] = r /\ t.op = "remove" /\ t.read = r /\ pc[r] # "size"
  <2>1. Part(r) \in Names /\ Part(r)[1] = r /\ Dest(r) \in Names /\ Dest(r)[1] = r
    BY NamesOf
  <2>2. \A f \in Names : f[1] = r => /\ Removal(r, f) \in TaskType /\ Removal(r, f).file[1] = r
                                     /\ Removal(r, f).op = "remove" /\ Removal(r, f).read = r
    BY RemovalIs
  <2> QED BY <1>1, <2>1, <2>2 DEF DestGuard
<1>4. /\ running # {} /\ \A f \in stale : f[1] # r
      /\ \A f \in DOMAIN files : f[1] = r =>
           /\ f \in Names /\ (f[2] = "dest" => files[f] # "cut")
           /\ \/ f = Dest(r) /\ pc[r] \in {"check", "streaming"}
              \/ f = Part(r) /\ pc[r] \in {"body", "renaming"}
              \/ Removal(r, f) \in pool
  BY <1>2, ActiveRead
<1>5. /\ LeftAt(pc[r]) \in LeavingPlaces \cup {"over"}
      /\ pc[r] = "creating" => LeftAt(pc[r]) = "leftCreating"
      /\ pc[r] = "renaming" => LeftAt(pc[r]) = "leftRenaming"
      /\ pc[r] = "check" => LeftAt(pc[r]) = "leftCheck"
  BY DEF LeftAt, LeavingPlaces
<1>6. pc'[r] = LeftAt(pc[r]) /\ pc' \in [Reads -> Places] /\ ~Active(r)' /\ pc'[r] \notin {"size", "check", "streaming"}
      /\ \A q \in Reads \ {r} : pc'[q] = pc[q] /\ kind'[q] = kind[q] /\ attempt'[q] = attempt[q]
  BY <1>2, <1>5 DEF Types, Places, Active, LeavingPlaces
<1>7. Part(r)' = Part(r) /\ Dest(r)' = Dest(r)
  BY <1>2 DEF Part, Dest
<1>8. ASSUME NEW t \in pool', t.read = r PROVE TaskSound(t)'
  <2>1. CASE t \in more
    BY <1>3, <1>6, <1>8, <2>1 DEF TaskSound
  <2>2. CASE t \in pool
    <3>1. TaskSound(t) /\ (t.op = "create" => pc[r] = "creating") /\ (t.op = "rename" => pc[r] = "renaming")
      BY <1>2, <1>8, <2>2, ActiveRead DEF FilesInv
    <3> QED BY <1>2, <1>5, <1>6, <1>7, <1>8, <3>1 DEF TaskSound
  <2> QED BY <1>2, <2>1, <2>2
<1>9. ASSUME NEW f \in DOMAIN files', f[1] = r PROVE FileSound(f)'
  <2>1. f \in Names /\ (f[2] = "dest" => files'[f] # "cut")
    BY <1>2, <1>4, <1>9
  <2>2. Kept(f)' \/ Removal(r, f) \in pool'
    <3>1. CASE Removal(r, f) \in pool
      BY <1>2, <3>1
    <3>2. CASE f = Part(r) /\ pc[r] \in {"body", "renaming"}
      BY <1>1, <1>2, <3>2
    <3>3. CASE f = Dest(r) /\ pc[r] = "check" /\ kind[r] = "blob"
      BY <1>2, <1>5, <1>6, <1>7, <1>9, <3>3 DEF Kept, Unguarded
    <3>4. CASE f = Dest(r) /\ pc[r] \in {"check", "streaming"} /\ ~(pc[r] = "check" /\ kind[r] = "blob")
      BY <1>1, <1>2, <3>4 DEF DestGuard
    <3> QED BY <1>2, <1>4, <1>9, <3>1, <3>2, <3>3, <3>4
  <2> QED BY <1>6, <1>9, <2>1, <2>2 DEF FileSound, Removal, Task
<1>10. ReadSound(r)'
  BY <1>6 DEF ReadSound
<1>11. /\ \A t \in pool : t \in pool'
       /\ \A t \in pool' : t.read # r => t \in pool
  BY <1>2, <1>3
<1>12. FilesInv'
  BY <1>2, <1>4, <1>6, <1>8, <1>9, <1>10, <1>11, ReadMoves
<1> QED BY <1>6, <1>12

\* What the invariant says of the read of a task.
LEMMA TaskRead ==
  ASSUME Types, FilesInv, NEW t \in pool
  PROVE  /\ t \in TaskType /\ t.read \in Reads /\ t.file \in Names /\ t.file[1] = t.read
         /\ running # {} /\ \A f \in stale : f[1] # t.read
         /\ t.op # "remove" => \A u \in pool : u.read = t.read /\ u # t => u.op = "remove"
<1>1. TaskSound(t) /\ t \in TaskType /\ t.read \in Reads /\ t.file \in Names /\ t.file[1] = t.read
  BY DEF FilesInv, TaskSound, TaskType
<1>2. running # {} /\ \A f \in stale : f[1] # t.read
  BY DEF FilesInv, ServerSound, StaleSound
<1>3. ASSUME t.op # "remove", NEW u \in pool, u.read = t.read, u # t PROVE u.op = "remove"
  <2>1. TaskSound(u) /\ u \in TaskType
    BY DEF FilesInv, TaskSound
  <2>2. u.op = t.op => u.file = t.file /\ u.to = t.to
    BY <1>1, <1>3, <2>1 DEF TaskSound, TaskType
  <2>3. u.op # t.op
    BY <1>1, <1>3, <2>1, <2>2 DEF TaskType
  <2>4. ~(t.op = "create" /\ u.op = "rename") /\ ~(u.op = "create" /\ t.op = "rename")
    BY <1>1, <1>3, <2>1 DEF TaskSound
  <2> QED BY <1>1, <1>3, <2>1, <2>3, <2>4 DEF TaskType
<1> QED BY <1>1, <1>2, <1>3

\* The file of an attempt is created: its read awaits that, or was dropped.
LEMMA RunCreateFiles ==
  ASSUME Types, FilesInv, NEW t \in pool, RunCreate(t)
  PROVE  FilesInv' /\ pc' \in [Reads -> Places] /\ attempt' \in [Reads -> Attempts]
<1>1. PICK r \in Reads : r = t.read
  BY TaskRead
<1>2. /\ t \in TaskType /\ t.op = "create" /\ t.file = Part(r) /\ pc[r] \in {"creating", "leftCreating"}
      /\ running # {} /\ \A f \in stale : f[1] # r
      /\ UNCHANGED <<running, holder, charged, stale, kind>>
  <2>1. t.op = "create" /\ UNCHANGED <<running, holder, charged, stale, kind>>
    BY DEF RunCreate, server
  <2> QED BY <1>1, <2>1, TaskRead DEF FilesInv, TaskSound
<1>3. \A u \in pool : u.read = r /\ u # t =>
        /\ u \in TaskType /\ u.file[1] = r /\ u.op = "remove" /\ TaskSound(u)
  BY <1>1, <1>2, TaskRead DEF FilesInv
<1>4. Part(r) \in Names /\ Part(r)[1] = r /\ Part(r)[2] = "part" /\ Dest(r)[2] = "dest"
  BY NamesOf
<1>5. CASE /\ files' = With(Part(r), "cut") /\ pool' = pool \ {t} /\ attempt' = attempt
           /\ pc' = IF pc[r] = "creating" THEN [pc EXCEPT ![r] = "body"] ELSE pc
  <2>1. /\ pc' \in [Reads -> Places] /\ attempt' \in [Reads -> Attempts]
        /\ \/ pc[r] = "creating" /\ pc'[r] = "body"
           \/ pc[r] = "leftCreating" /\ pc'[r] = "leftCreating"
        /\ \A q \in Reads \ {r} : pc'[q] = pc[q] /\ kind'[q] = kind[q] /\ attempt'[q] = attempt[q]
    BY <1>2, <1>5 DEF Types, Places
  <2>2. Part(r)' = Part(r) /\ Dest(r)' = Dest(r) /\ (Active(r)' <=> Active(r))
    BY <1>2, <1>5, <2>1 DEF Part, Dest, Active, LeavingPlaces
  <2>3. /\ DOMAIN files' = DOMAIN files \cup {Part(r)}
        /\ \A f \in DOMAIN files : f # Part(r) => files'[f] = files[f]
    BY <1>5 DEF With
  <2>4. ASSUME NEW u \in pool', u.read = r PROVE TaskSound(u)'
    <3>1. u \in TaskType /\ u.file[1] = r /\ u.op = "remove" /\ TaskSound(u)
      BY <1>3, <1>5, <2>4
    <3> QED BY <1>2, <1>5, <2>1, <2>2, <2>4, <3>1 DEF TaskSound
  <2>5. ASSUME NEW f \in DOMAIN files', f[1] = r PROVE FileSound(f)'
    <3>1. CASE f = Part(r)
      <4>1. f \in Names /\ f[2] # "dest" /\ f = Part(r)'
        BY <1>4, <2>2, <3>1
      <4> QED BY <2>1, <2>5, <4>1 DEF FileSound, Kept, InUse, Overtaken
    <3>2. CASE f # Part(r)
      <4>1. f \in DOMAIN files /\ FileSound(f) /\ files'[f] = files[f]
        BY <2>3, <3>2 DEF FilesInv
      <4>2. f \in Names /\ Removal(r, f).op = "remove"
        BY <4>1, RemovalIs DEF FileSound
      <4>3. Removal(r, f) \in pool => Removal(r, f) \in pool'
        BY <1>2, <1>5, <4>2
      <4>4. ~Kept(f)
        BY <1>2, <2>5, <3>2 DEF Kept, InUse, Overtaken, Unguarded
      <4> QED BY <1>2, <2>1, <2>5, <4>1, <4>3, <4>4 DEF FileSound, Removal, Task
    <3> QED BY <3>1, <3>2
  <2>6. ReadSound(r)'
    BY <2>1 DEF ReadSound
  <2>7. /\ \A u \in pool : u.read # r => u \in pool'
        /\ \A u \in pool' : u.read # r => u \in pool
        /\ \A f \in DOMAIN files : f[1] # r => f \in DOMAIN files' /\ files'[f] = files[f]
        /\ \A f \in DOMAIN files' : f[1] # r => f \in DOMAIN files
    BY <1>1, <1>4, <1>5, <2>3
  <2>8. FilesInv'
    BY <1>2, <2>1, <2>4, <2>5, <2>6, <2>7, ReadMoves
  <2> QED BY <2>1, <2>8
<1>6. CASE /\ pc[r] = "creating" /\ files' = files
           /\ AttemptFails(r, (pool \ {t}) \cup {Removal(r, Part(r))})
  <2>1. Active(r)
    BY <1>6 DEF Active, LeavingPlaces
  <2>2. PICK guard : guard = Removal(r, Part(r))
    OBVIOUS
  <2>3. guard \in TaskType /\ guard.op = "remove" /\ guard.read = r /\ guard.file = Part(r)
    BY <1>4, <2>2, RemovalIs
  <2>4. PICK rest : rest = (pool \ {t}) \cup {guard}
    OBVIOUS
  <2>5. AttemptFails(r, rest)
    BY <1>6, <2>2, <2>4
  <2>6. \A u \in rest : u.read = r =>
          /\ u \in TaskType /\ u.file[1] = r /\ u.op = "remove"
          /\ u.file[2] = "dest" => kind[r] = "shard" /\ u.file[3] < attempt[r]
    <3> SUFFICES ASSUME NEW u \in rest, u.read = r
                 PROVE  /\ u \in TaskType /\ u.file[1] = r /\ u.op = "remove"
                        /\ u.file[2] = "dest" => kind[r] = "shard" /\ u.file[3] < attempt[r]
      OBVIOUS
    <3>1. CASE u = guard
      BY <1>4, <2>3, <3>1
    <3>2. CASE u \in pool /\ u # t
      BY <1>3, <2>1, <3>2 DEF TaskSound
    <3> QED BY <2>4, <3>1, <3>2
  <2>7. \A f \in DOMAIN files : f[1] = r => Removal(r, f) \in rest
    <3> SUFFICES ASSUME NEW f \in DOMAIN files, f[1] = r PROVE Removal(r, f) \in rest
      OBVIOUS
    <3>1. f \in Names /\ Removal(r, f) \in pool
      BY <1>6, <2>1, ActiveRead
    <3>2. Removal(r, f).op = "remove"
      BY <3>1, RemovalIs
    <3> QED BY <1>2, <2>4, <3>1, <3>2
  <2>8. /\ \A u \in pool : u.read # r => u \in rest
        /\ \A u \in rest : u.read # r => u \in pool
    BY <1>1, <2>3, <2>4
  <2> QED BY <1>2, <1>6, <2>1, <2>5, <2>6, <2>7, <2>8, AttemptFailsFiles
<1>7. \/ /\ files' = With(t.file, "cut") /\ pool' = pool \ {t} /\ attempt' = attempt
         /\ pc' = IF pc[t.read] = "creating" /\ t.file = Part(t.read)
                  THEN [pc EXCEPT ![t.read] = "body"] ELSE pc
      \/ /\ pc[t.read] = "creating" /\ t.file = Part(t.read) /\ files' = files
         /\ AttemptFails(t.read, (pool \ {t}) \cup {Removal(t.read, t.file)})
  BY DEF RunCreate, Go
<1> QED BY <1>1, <1>2, <1>5, <1>6, <1>7

\* The file of an attempt gets its name, or is gone: a rename is of the attempt
\* that its read is at, so it is the destination that appears.
LEMMA RunRenameFiles ==
  ASSUME Types, FilesInv, NEW t \in pool, RunRename(t)
  PROVE  FilesInv' /\ pc' \in [Reads -> Places] /\ attempt' \in [Reads -> Attempts]
<1>1. PICK r \in Reads : r = t.read
  BY TaskRead
<1>2. /\ t \in TaskType /\ t.op = "rename" /\ t.file = Part(r) /\ t.to = Dest(r)
      /\ pc[r] \in {"renaming", "leftRenaming"} /\ (Part(r) \in DOMAIN files => files[Part(r)] # "cut")
      /\ running # {} /\ \A f \in stale : f[1] # r
      /\ UNCHANGED <<running, holder, charged, stale, kind>>
  <2>1. t.op = "rename" /\ UNCHANGED <<running, holder, charged, stale, kind>>
    BY DEF RunRename, server
  <2> QED BY <1>1, <2>1, TaskRead DEF FilesInv, TaskSound
<1>3. \A u \in pool : u.read = r /\ u # t =>
        /\ u \in TaskType /\ u.file[1] = r /\ u.op = "remove" /\ TaskSound(u)
  BY <1>1, <1>2, TaskRead DEF FilesInv
<1>4. /\ Part(r) \in Names /\ Part(r)[1] = r /\ Part(r)[2] = "part"
      /\ Dest(r) \in Names /\ Dest(r)[1] = r /\ Dest(r)[2] = "dest"
  BY NamesOf
<1>5. PICK guard : guard = Removal(r, Part(r))
  OBVIOUS
<1>6. guard \in TaskType /\ guard.op = "remove" /\ guard.read = r /\ guard.file = Part(r)
  BY <1>4, <1>5, RemovalIs
<1>7. PICK rest : rest = (pool \ {t}) \cup (IF pc[r] = "renaming" THEN {guard} ELSE {})
  OBVIOUS
<1>8. /\ \A u \in pool : u.read # r => u \in rest
      /\ \A u \in rest : u.read # r => u \in pool
      /\ \A u \in rest : u.read = r => u = guard \/ (u \in pool /\ u # t)
  BY <1>1, <1>6, <1>7
<1>9. ASSUME NEW f \in Names, Removal(r, f) \in pool PROVE Removal(r, f) \in rest
  <2>1. Removal(r, f).op = "remove"
    BY RemovalIs
  <2> QED BY <1>2, <1>7, <1>9, <2>1
<1>10. CASE /\ Part(r) \in DOMAIN files /\ pool' = rest /\ attempt' = attempt
            /\ files' = [n \in (DOMAIN files \ {Part(r)}) \cup {Dest(r)} |->
                           IF n = Dest(r) THEN files[Part(r)] ELSE files[n]]
            /\ pc' = IF pc[r] = "renaming" THEN [pc EXCEPT ![r] = "check"] ELSE pc
  <2>1. /\ pc' \in [Reads -> Places] /\ attempt' \in [Reads -> Attempts]
        /\ \/ pc[r] = "renaming" /\ pc'[r] = "check"
           \/ pc[r] = "leftRenaming" /\ pc'[r] = "leftRenaming"
        /\ \A q \in Reads \ {r} : pc'[q] = pc[q] /\ kind'[q] = kind[q] /\ attempt'[q] = attempt[q]
    BY <1>2, <1>10 DEF Types, Places
  <2>2. Dest(r)' = Dest(r) /\ (Active(r)' <=> Active(r))
    BY <1>2, <1>10, <2>1 DEF Dest, Active, LeavingPlaces
  <2>3. /\ DOMAIN files' = (DOMAIN files \ {Part(r)}) \cup {Dest(r)}
        /\ files'[Dest(r)] # "cut"
        /\ \A f \in DOMAIN files' : f # Dest(r) => f \in DOMAIN files /\ files'[f] = files[f]
    BY <1>2, <1>10
  <2>4. ASSUME NEW u \in pool', u.read = r PROVE TaskSound(u)'
    <3>1. /\ u \in TaskType /\ u.file[1] = r /\ u.op = "remove"
          /\ u.file[2] = "dest" /\ Active(r) => kind[r] = "shard" /\ u.file[3] < attempt[r]
      <4>1. CASE u = guard
        BY <1>4, <1>6, <4>1
      <4>2. CASE u \in pool /\ u # t
        BY <1>3, <2>4, <4>2 DEF TaskSound
      <4> QED BY <1>8, <1>10, <2>4, <4>1, <4>2
    <3> QED BY <1>2, <1>10, <2>1, <2>2, <2>4, <3>1 DEF TaskSound
  <2>5. ASSUME NEW f \in DOMAIN files', f[1] = r PROVE FileSound(f)'
    <3>1. CASE f = Dest(r)
      <4>1. f \in Names /\ files'[f] # "cut" /\ f = Dest(r)'
        BY <1>4, <2>2, <2>3, <3>1
      <4> QED BY <2>1, <2>5, <4>1 DEF FileSound, Kept, InUse, Overtaken
    <3>2. CASE f # Dest(r)
      <4>1. f \in DOMAIN files /\ f # Part(r) /\ files'[f] = files[f]
        BY <1>4, <2>3, <3>2
      <4>2. ~Kept(f)
        BY <2>5, <3>2, <4>1 DEF Kept, InUse, Overtaken, Unguarded
      <4>3. /\ f \in Names /\ (f[2] = "dest" => files'[f] # "cut")
            /\ f \notin stale /\ Removal(r, f) \in pool
        BY <1>2, <2>5, <4>1, <4>2 DEF FilesInv, FileSound
      <4>4. Removal(r, f) \in pool'
        BY <1>9, <1>10, <4>3
      <4> QED BY <2>1, <2>5, <4>3, <4>4 DEF FileSound, Removal, Task
    <3> QED BY <3>1, <3>2
  <2>6. ReadSound(r)'
    BY <2>2, <2>3 DEF ReadSound
  <2>7. /\ \A u \in pool : u.read # r => u \in pool'
        /\ \A u \in pool' : u.read # r => u \in pool
        /\ \A f \in DOMAIN files : f[1] # r => f \in DOMAIN files' /\ files'[f] = files[f]
        /\ \A f \in DOMAIN files' : f[1] # r => f \in DOMAIN files
    BY <1>4, <1>8, <1>10, <2>3
  <2>8. FilesInv'
    BY <1>2, <2>1, <2>4, <2>5, <2>6, <2>7, ReadMoves
  <2> QED BY <2>1, <2>8
<1>11. CASE files' = files /\ pc[r] = "renaming" /\ AttemptFails(r, rest)
  <2>1. Active(r)
    BY <1>11 DEF Active, LeavingPlaces
  <2>2. ASSUME NEW u \in rest, u.read = r
        PROVE  /\ u \in TaskType /\ u.file[1] = r /\ u.op = "remove"
               /\ u.file[2] = "dest" => kind[r] = "shard" /\ u.file[3] < attempt[r]
    <3>1. CASE u = guard
      BY <1>4, <1>6, <3>1
    <3>2. CASE u \in pool /\ u # t
      BY <1>3, <2>1, <2>2, <3>2 DEF TaskSound
    <3> QED BY <1>8, <2>2, <3>1, <3>2
  <2>3. ASSUME NEW f \in DOMAIN files, f[1] = r PROVE Removal(r, f) \in rest
    <3>1. f \in Names /\ (f = Part(r) \/ Removal(r, f) \in pool)
      BY <1>11, <2>1, <2>3, ActiveRead
    <3> QED BY <1>5, <1>7, <1>9, <1>11, <3>1
  <2> QED BY <1>2, <1>8, <1>11, <2>1, <2>2, <2>3, AttemptFailsFiles
<1>12. CASE /\ files' = files /\ pc[r] = "leftRenaming"
            /\ pool' = rest /\ pc' = pc /\ attempt' = attempt
  <2>1. \A q \in Reads : Dest(q)' = Dest(q) /\ (Active(q)' <=> Active(q))
    BY <1>2, <1>12 DEF Dest, Active
  <2>2. ASSUME NEW u \in pool', u.read = r PROVE TaskSound(u)'
    <3>1. u \in TaskType /\ u.file[1] = r /\ u.op = "remove" /\ TaskSound(u)
      BY <1>3, <1>7, <1>12, <2>2
    <3> QED BY <1>2, <1>12, <2>1, <2>2, <3>1 DEF TaskSound
  <2>3. ASSUME NEW f \in DOMAIN files', f[1] = r PROVE FileSound(f)'
    <3>1. f \in DOMAIN files /\ FileSound(f) /\ f \in Names /\ files'[f] = files[f]
      BY <1>12 DEF FilesInv, FileSound
    <3>2. Kept(f)' <=> Kept(f)
      BY <1>2, <1>12, <2>3 DEF Kept, InUse, Overtaken, Unguarded, Part, Dest
    <3>3. Removal(r, f) \in pool => Removal(r, f) \in pool'
      BY <1>9, <1>12, <3>1
    <3> QED BY <1>2, <1>12, <2>3, <3>1, <3>2, <3>3 DEF FileSound, Removal, Task
  <2>4. ReadSound(r)' /\ \A q \in Reads : pc'[q] = pc[q] /\ kind'[q] = kind[q] /\ attempt'[q] = attempt[q]
    BY <1>2, <1>12 DEF ReadSound
  <2>5. FilesInv'
    BY <1>2, <1>8, <1>12, <2>2, <2>3, <2>4, ReadMoves
  <2> QED BY <1>12, <2>5 DEF Types
<1>13. \/ /\ t.file \in DOMAIN files
          /\ files' = [n \in (DOMAIN files \ {t.file}) \cup {t.to} |->
                         IF n = t.to THEN files[t.file] ELSE files[n]]
          /\ pool' = rest /\ attempt' = attempt
          /\ pc' = IF pc[r] = "renaming" THEN [pc EXCEPT ![r] = "check"] ELSE pc
       \/ /\ files' = files
          /\ IF pc[r] = "renaming" THEN AttemptFails(r, rest)
             ELSE pool' = rest /\ pc' = pc /\ attempt' = attempt
  BY <1>1, <1>2, <1>5, <1>7 DEF RunRename, Go
<1> QED BY <1>2, <1>10, <1>11, <1>12, <1>13

\* A file is removed: no read that is under way needs it.
LEMMA RunRemoveFiles ==
  ASSUME Types, FilesInv, NEW t \in pool, RunRemove(t)
  PROVE  FilesInv'
<1>1. PICK r \in Reads : r = t.read
  BY TaskRead
<1>2. /\ t.op = "remove" /\ files' = Without({t.file}) /\ pool' = pool \ {t}
      /\ UNCHANGED <<running, holder, charged, stale, pc, kind, attempt>>
  BY DEF RunRemove, server
<1>3. /\ t.file \in Names /\ t.file[1] = r /\ TaskSound(t)
      /\ running # {} /\ \A f \in stale : f[1] # r
  BY <1>1, TaskRead DEF FilesInv
<1>4. /\ DOMAIN files' = DOMAIN files \ {t.file}
      /\ \A f \in DOMAIN files' : f \in DOMAIN files /\ f # t.file /\ files'[f] = files[f]
  BY <1>2 DEF Without
<1>5. \A q \in Reads : Part(q)' = Part(q) /\ Dest(q)' = Dest(q) /\ (Active(q)' <=> Active(q))
  BY <1>2 DEF Part, Dest, Active
<1>6. ASSUME NEW u \in pool', u.read = r PROVE TaskSound(u)'
  <2>1. TaskSound(u)
    BY <1>2 DEF FilesInv
  <2> QED BY <1>2, <1>4, <1>5, <1>6, <2>1 DEF TaskSound
<1>7. ASSUME NEW f \in DOMAIN files', f[1] = r PROVE FileSound(f)'
  <2>1. FileSound(f) /\ f \in Names /\ f # t.file /\ files'[f] = files[f]
    BY <1>4 DEF FilesInv, FileSound
  <2>2. Removal(r, f).file = f
    BY <2>1, RemovalIs
  <2>3. Removal(r, f) \in pool => Removal(r, f) \in pool'
    BY <1>2, <2>1, <2>2
  <2>4. Kept(f)' <=> Kept(f)
    BY <1>2, <1>5, <1>7 DEF Kept, InUse, Overtaken, Unguarded
  <2> QED BY <1>2, <1>7, <2>1, <2>3, <2>4 DEF FileSound, Removal, Task
<1>8. ReadSound(r)'
  <2> SUFFICES ASSUME pc[r] \in {"check", "streaming"} PROVE Dest(r) \in DOMAIN files'
    BY <1>2, <1>5 DEF ReadSound
  <2>1. Active(r) /\ Dest(r) \in DOMAIN files
    BY DEF Active, LeavingPlaces, FilesInv, ReadSound
  <2>2. t.file # Dest(r)
    <3> SUFFICES ASSUME t.file = Dest(r) PROVE FALSE
      OBVIOUS
    <3>1. t.file[2] = "dest" /\ (kind[r] = "shard" => t.file[3] = attempt[r])
      BY NamesOf
    <3>2. kind[r] = "shard" /\ t.file[3] < attempt[r]
      BY <1>1, <1>2, <1>3, <2>1, <3>1 DEF TaskSound
    <3>3. attempt[r] \in Nat
      BY Sizes DEF Types
    <3> QED BY <3>1, <3>2, <3>3
  <2> QED BY <1>4, <2>1, <2>2
<1>9. /\ \A u \in pool : u.read # r => u \in pool'
      /\ \A u \in pool' : u \in pool
      /\ \A f \in DOMAIN files : f[1] # r => f \in DOMAIN files' /\ files'[f] = files[f]
      /\ \A f \in DOMAIN files' : f \in DOMAIN files
      /\ \A q \in Reads : pc'[q] = pc[q] /\ kind'[q] = kind[q] /\ attempt'[q] = attempt[q]
  BY <1>1, <1>2, <1>3, <1>4
<1> QED BY <1>2, <1>3, <1>6, <1>7, <1>8, <1>9, ReadMoves

-----------------------------------------------------------------------------
(* The invariant. *)

\* Nothing runs and nothing is there.
LEMMA InitInv == Init => IInv
<1> SUFFICES ASSUME Init PROVE IInv
  OBVIOUS
<1>1. Types
  <2>1. << >> \in Seq(Nat) /\ 1 \in Attempts
    BY Sizes
  <2> QED BY <2>1 DEF Init, Types, Places, Kinds
<1>2. DOMAIN files = {} /\ pool = {} /\ stale = {} /\ running = {} /\ holder = None
      /\ \A r \in Reads : pc[r] = "over"
  BY DEF Init, NoFiles
<1>3. FilesInv
  BY <1>2 DEF FilesInv, ServerSound, StaleSound, ReadSound, Active
<1>4. ListSound
  BY DEF Init, ListSound
<1> QED BY <1>1, <1>3, <1>4 DEF IInv

\* What the listing does leaves the files alone, and the other way round.
LEMMA ListInv ==
  ASSUME IInv, List
  PROVE  IInv'
<1>1. Types /\ FilesInv /\ ListSound
  BY DEF IInv
<1>2. UNCHANGED <<running, holder, disk, reading>>
  BY DEF List, ListPage, ListError, ListKey, ListEnd, Serve, server
<1>3. FilesInv'
  BY <1>1, <1>2, FilesFrame
<1>4. ListTypes' /\ ListSound'
  <2>1. CASE \E a \in HonestAnswers \cup FaultyAnswers : ListPage(a)
    BY <1>1, <2>1, PageInv
  <2>2. CASE ListError
    BY <1>1, <2>2 DEF ListError, ListSound, ListTypes, Types, server
  <2>3. CASE ListKey
    BY <1>1, <2>3, KeyInv
  <2>4. CASE ListEnd
    <3>1. phase = "list" /\ phase' = "listed" /\ UNCHANGED <<objects, listing>>
          /\ (failed \/ (complete /\ keys = << >>))
      BY <2>4 DEF ListEnd
    <3>2. ListTypes'
      BY <1>1, <3>1 DEF ListTypes, Types, listing
    <3>3. ListSound'
      BY <1>1, <3>1 DEF ListSound, Ascending, listing
    <3> QED BY <3>2, <3>3
  <2>5. CASE Serve
    <3>1. phase' = "serve" /\ ListingReset({}) /\ {} \in SUBSET Keys
      BY <2>5 DEF Serve
    <3> QED BY <1>1, <3>1, ResetKeeps DEF ListTypes
  <2> QED BY <2>1, <2>2, <2>3, <2>4, <2>5 DEF List
<1>5. Types'
  BY <1>1, <1>2, <1>4 DEF Types, ListTypes, disk, reading
<1> QED BY <1>3, <1>4, <1>5 DEF IInv

\* A server starts or is killed, and another one stores a shard.
LEMMA ServersInv ==
  ASSUME IInv, (\E s \in Servers : Start(s) \/ Crash(s)) \/ (\E k \in Keys : PutShard(k))
  PROVE  IInv'
<1>1. Types /\ FilesInv /\ ListSound
  BY DEF IInv
<1>2. CASE \E s \in Servers : Start(s)
  <2>1. PICK s \in Servers : Start(s)
    BY <1>2
  <2>2. PICK exist \in SUBSET Keys : ListingReset(exist)
    BY <2>1 DEF Start
  <2>3. FilesInv' /\ charged' \subseteq Names
    BY <1>1, <2>1, StartFiles
  <2>4. /\ phase' = "list" /\ running' = running \cup {s} /\ holder' = s
        /\ pc' = pc /\ kind' = kind /\ attempt' = attempt
    BY <2>1 DEF Start, reading
  <2>5. /\ objects' \subseteq Keys /\ before' \subseteq Keys
        /\ seen' \subseteq Keys /\ token' \in Keys \cup {0}
        /\ keys' \in Seq(Nat) /\ yielded' \in Seq(Nat) /\ ListSound'
    BY <1>1, <2>2, <2>4, ResetKeeps
  <2>6. Types'
    BY <1>1, <2>3, <2>4, <2>5 DEF Types
  <2> QED BY <2>3, <2>5, <2>6 DEF IInv
<1>3. CASE \E s \in Servers : Crash(s)
  <2>1. PICK s \in Servers : Crash(s)
    BY <1>3
  <2>2. ListingReset({}) /\ {} \in SUBSET Keys
    BY <2>1 DEF Crash
  <2>3. FilesInv' /\ pc' \in [Reads -> Places]
    BY <1>1, <2>1, CrashFiles
  <2>4. /\ phase' = "serve" /\ running' = running \ {s}
        /\ holder' = (IF holder = s THEN None ELSE holder)
        /\ charged' = charged /\ kind' = kind /\ attempt' = attempt
    BY <2>1 DEF Crash
  <2>5. /\ objects' \subseteq Keys /\ before' \subseteq Keys
        /\ seen' \subseteq Keys /\ token' \in Keys \cup {0}
        /\ keys' \in Seq(Nat) /\ yielded' \in Seq(Nat) /\ ListSound'
    BY <1>1, <2>2, <2>4, ResetKeeps
  <2>6. Types'
    BY <1>1, <2>3, <2>4, <2>5 DEF Types
  <2> QED BY <2>3, <2>5, <2>6 DEF IInv
<1>4. CASE \E k \in Keys : PutShard(k)
  <2>1. PICK k \in Keys : PutShard(k)
    BY <1>4
  <2>2. objects' = objects \cup {k} /\ UNCHANGED <<server, listing, disk, reading>>
    BY <2>1 DEF PutShard
  <2>3. FilesInv'
    BY <1>1, <2>2, FilesFrame DEF server
  <2>4. ListSound'
    BY <1>1, <2>2 DEF ListSound, Ascending, listing, server
  <2>5. Types'
    BY <1>1, <2>2 DEF Types, server, listing, disk, reading
  <2> QED BY <2>3, <2>4, <2>5 DEF IInv
<1> QED BY <1>2, <1>3, <1>4

\* The reads and the tasks of the pool.
LEMMA ReadsInv ==
  ASSUME IInv, (\E r \in Reads : Begin(r) \/ Step(r) \/ Drop(r)) \/ (\E t \in pool : Run(t))
  PROVE  IInv'
<1>1. Types /\ FilesInv /\ ListSound
  BY DEF IInv
<1>2. UNCHANGED <<objects, server, listing, charged>>
  BY DEF Begin, Step, Size, Get, Body, Check, Streamed, Drop, Run, RunCreate, RunRename, RunRemove, disk
<1>3. ListSound'
  BY <1>1, <1>2, ListFrame DEF server
<1>4. /\ FilesInv' /\ pc' \in [Reads -> Places] /\ attempt' \in [Reads -> Attempts]
      /\ kind' \in [Reads -> Kinds]
  <2>1. /\ pc \in [Reads -> Places] /\ attempt \in [Reads -> Attempts]
        /\ kind \in [Reads -> Kinds]
    BY <1>1 DEF Types
  <2>2. CASE \E r \in Reads : Begin(r)
    BY <1>1, <2>2, BeginFiles
  <2>3. CASE \E r \in Reads : Size(r) \/ Check(r) \/ Streamed(r) \/ Drop(r)
    <3>1. PICK r \in Reads : Size(r) \/ Check(r) \/ Streamed(r) \/ Drop(r)
      BY <2>3
    <3>2. kind' = kind /\ attempt' = attempt
      BY <3>1 DEF Size, Check, Streamed, Drop
    <3>3. FilesInv' /\ pc' \in [Reads -> Places]
      BY <1>1, <3>1, SizeFiles, CheckFiles, StreamedFiles, DropFiles
    <3> QED BY <2>1, <3>2, <3>3
  <2>4. CASE \E r \in Reads : Get(r) \/ Body(r)
    <3>1. PICK r \in Reads : Get(r) \/ Body(r)
      BY <2>4
    <3>2. kind' = kind
      BY <3>1 DEF Get, Body
    <3> QED BY <1>1, <2>1, <3>1, <3>2, GetFiles, BodyFiles
  <2>5. CASE \E t \in pool : RunCreate(t) \/ RunRename(t)
    <3>1. PICK t \in pool : RunCreate(t) \/ RunRename(t)
      BY <2>5
    <3>2. kind' = kind
      BY <3>1 DEF RunCreate, RunRename
    <3> QED BY <1>1, <2>1, <3>1, <3>2, RunCreateFiles, RunRenameFiles
  <2>6. CASE \E t \in pool : RunRemove(t)
    <3>1. PICK t \in pool : RunRemove(t)
      BY <2>6
    <3>2. pc' = pc /\ kind' = kind /\ attempt' = attempt
      BY <3>1 DEF RunRemove
    <3> QED BY <1>1, <2>1, <3>1, <3>2, RunRemoveFiles
  <2> QED BY <2>2, <2>3, <2>4, <2>5, <2>6 DEF Step, Run
<1>5. Types'
  BY <1>1, <1>2, <1>4 DEF Types, server, listing
<1> QED BY <1>3, <1>4, <1>5 DEF IInv

\* Every step keeps the invariant.
LEMMA NextInv == IInv /\ [Next]_vars => IInv'
<1> SUFFICES ASSUME IInv, [Next]_vars PROVE IInv'
  OBVIOUS
<1>1. CASE UNCHANGED vars
  <2>1. Types /\ FilesInv /\ ListSound
    BY DEF IInv
  <2>2. FilesInv' /\ ListSound'
    BY <1>1, <2>1, FilesFrame, ListFrame DEF vars, server
  <2>3. Types'
    BY <1>1, <2>1 DEF Types, vars, server, listing, disk, reading
  <2> QED BY <2>2, <2>3 DEF IInv
<1>2. CASE Next
  BY <1>2, ListInv, ServersInv, ReadsInv DEF Next
<1> QED BY <1>1, <1>2

\* The invariant holds in every state that the server reaches.
THEOREM Invariance == Spec => []IInv
BY InitInv, NextInv, PTL DEF Spec

\* Through any retries, drops and crashes, no destination is ever a part of a
\* body, and a read that has its copy keeps it until it is through with it.
THEOREM CopiesAreIntact == Spec => []CopiesIntact
<1>1. IInv => CopiesIntact
  <2> SUFFICES ASSUME IInv PROVE CopiesIntact
    OBVIOUS
  <2>1. Types /\ FilesInv
    BY DEF IInv
  <2>2. \A f \in DOMAIN files : f \in Names
    BY <2>1 DEF FilesInv, FileSound
  <2>3. \A t \in pool : t.op \in {"create", "rename", "remove"} /\ t.read \in Reads
    BY <2>1 DEF FilesInv, TaskSound, TaskType
  <2>4. TypeOK
    BY <2>1, <2>2, <2>3, ReadsAssumption DEF Types, TypeOK, Names, Kinds
  <2>5. DestIntact
    BY <2>1 DEF DestIntact, FilesInv, FileSound
  <2>6. CopyStays
    BY <2>1 DEF CopyStays, FilesInv, ReadSound
  <2> QED BY <2>4, <2>5, <2>6 DEF CopiesIntact
<1> QED BY <1>1, Invariance, PTL

\* A file in the temporary directory is in use, will be removed or renamed, was
\* left by a dead server and is charged to the next one, or is one of the two
\* kinds that stay behind: overtaken by the removal, or never guarded.
THEOREM StraysAreExplained == Spec => []StraysExplained
<1>1. IInv => StraysExplained
  <2> SUFFICES ASSUME IInv, NEW f \in DOMAIN files
               PROVE  \/ InUse(f) \/ Pending(f)
                      \/ f \in stale /\ (ManagedName(f) => running = {} \/ f \in charged)
                      \/ f \notin stale /\ (Overtaken(f) \/ Unguarded(f))
    BY DEF StraysExplained
  <2>1. FileSound(f) /\ StaleSound /\ f \in Names /\ f[1] \in Reads
    BY DEF IInv, FilesInv, FileSound, Names
  <2>2. CASE f \in stale
    BY <2>1, <2>2 DEF StaleSound
  <2>3. CASE f \notin stale /\ Removal(f[1], f) \in pool
    <3>1. Removal(f[1], f).file = f
      BY <2>1, RemovalIs
    <3> QED BY <2>3, <3>1 DEF Pending
  <2> QED BY <2>1, <2>2, <2>3 DEF FileSound, Kept
<1> QED BY <1>1, Invariance, PTL

\* However the pages fall and whatever is stored meanwhile, a listing that an
\* honest endpoint answered has every shard that was there, and has it once.
THEOREM HonestListingsAreComplete == Spec => []HonestListingComplete
<1>1. IInv => HonestListingComplete
  <2> SUFFICES ASSUME IInv, phase = "listed", honest
               PROVE  ~failed /\ before \subseteq Range(yielded) /\ IsInjective(yielded)
    BY DEF HonestListingComplete
  <2>1. yielded \in Seq(Nat) /\ ListSound
    BY DEF IInv, Types
  <2>2. /\ ~failed /\ complete /\ keys = << >> /\ Ascending(yielded)
        /\ \A k \in before : k \in Range(yielded) \cup Range(keys)
    BY <2>1 DEF ListSound
  <2>3. Range(keys) = {}
    BY <2>2 DEF Range
  <2>4. IsInjective(yielded)
    <3>1. DOMAIN yielded = 1..Len(yielded) /\ Len(yielded) \in Nat
          /\ \A i \in 1..Len(yielded) : yielded[i] \in Nat
      BY <2>1
    <3>2. ASSUME NEW i \in 1..Len(yielded), NEW j \in 1..Len(yielded), yielded[i] = yielded[j], i # j
          PROVE  FALSE
      <4>1. i < j \/ j < i
        BY <3>1, <3>2
      <4>2. yielded[i] < yielded[j] \/ yielded[j] < yielded[i]
        BY <2>2, <4>1 DEF Ascending
      <4>3. yielded[i] \in Nat /\ yielded[j] \in Nat
        BY <3>1
      <4> QED BY <3>2, <4>2, <4>3
    <3> QED BY <3>1, <3>2 DEF IsInjective
  <2> QED BY <2>2, <2>3, <2>4
<1> QED BY <1>1, Invariance, PTL
=============================================================================
