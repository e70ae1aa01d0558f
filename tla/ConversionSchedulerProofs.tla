--------------------- MODULE ConversionSchedulerProofs ---------------------
(***************************************************************************)
(* The queue of conversions for any number of oids, callers and workers,   *)
(* any capacity and any word.  MarksOwned counts the owners of a mark; the *)
(* invariant says the same without counting, as three kinds of owner of    *)
(* which no two have the same oid (Distinct, Marked, Owned).  QueuedCounts *)
(* is an equation modulo Word; the invariant replaces it by the two cases  *)
(* that the bounds leave (Counted).                                        *)
(*                                                                         *)
(* The second half is about the ledger of temporary space (TempQuota),     *)
(* the other shared state of the conversions: two specifications without   *)
(* a variable in common, each proved from its own assumption.              *)
(***************************************************************************)
EXTENDS ConversionScheduler, TempQuota, FiniteSetTheorems, TLAPS

Marking(c) == cpc[c] \in {"lock", "send", "unmark"}
Holding(w) == wpc[w] \in Active \cup {"aborted"}

\* No two owners have the same oid.
Distinct ==
  /\ \A c, d \in Callers : Marking(c) /\ Marking(d) /\ coid[c] = coid[d] => c = d
  /\ \A i, j \in 1..Len(queue) : queue[i] = queue[j] => i = j
  /\ \A v, w \in Workers : Holding(v) /\ Holding(w) /\ woid[v] = woid[w] => v = w
  /\ \A c \in Callers, i \in 1..Len(queue) : Marking(c) => coid[c] # queue[i]
  /\ \A c \in Callers, w \in Workers : Marking(c) /\ Holding(w) => coid[c] # woid[w]
  /\ \A w \in Workers, i \in 1..Len(queue) : Holding(w) => woid[w] # queue[i]

\* What an owner has is marked.
Marked ==
  /\ \A c \in Callers : Marking(c) => coid[c] \in state
  /\ \A i \in 1..Len(queue) : queue[i] \in state
  /\ \A w \in Workers : Holding(w) => woid[w] \in state

\* What is marked has an owner.
Owned ==
  \A o \in state :
    \/ \E c \in Callers : Marking(c) /\ coid[c] = o
    \/ \E i \in 1..Len(queue) : queue[i] = o
    \/ \E w \in Workers : Holding(w) /\ woid[w] = o

Marks == shutdown # "done" => Distinct /\ Marked /\ Owned

\* After shutdown: no worker, no queue and no way to send; a mark belongs to a
\* caller that is on its way to take it back.
Over ==
  /\ shutdown \notin {"no", "closing"} => ~sender
  /\ shutdown = "done" =>
       /\ queue = << >> /\ \A w \in Workers : wpc[w] \in {"exited", "aborted"}
       /\ \A o \in state : \E c \in Callers : Marking(c) /\ coid[c] = o

Uncounted == {c \in Callers : cpc[c] = "count"}
Dequeued  == {w \in Workers : wpc[w] = "dequeued"}

\* The counter, as a number: a worker that was faster than the caller makes it
\* wrap below zero, by one word and no more.
Counted ==
  shutdown \in {"no", "closing", "taken", "cancelled"} =>
    \/ queued + Cardinality(Uncounted) = Len(queue) + Cardinality(Dequeued)
    \/ queued + Cardinality(Uncounted) = Len(queue) + Cardinality(Dequeued) + Word

IInv == TypeOK /\ Marks /\ Over /\ Counted

-----------------------------------------------------------------------------
(* Words and sets. *)

\* The sizes, and how they keep the counter apart from its bound.
LEMMA Sizes ==
  /\ Capacity \in Nat /\ Word \in Nat /\ Cardinality(Callers) \in Nat /\ Cardinality(Workers) \in Nat
  /\ Word > Capacity + Cardinality(Workers) + Cardinality(Callers)
BY SchedulerAssumption, FS_CardinalityType

\* Up and Down, without the remainder.
LEMMA UpIs ==
  ASSUME NEW n \in 0..(Word - 1)
  PROVE  Up(n) = IF n = Word - 1 THEN 0 ELSE n + 1
BY Sizes DEF Up

\* One less, or the largest word.
LEMMA DownIs ==
  ASSUME NEW n \in 0..(Word - 1)
  PROVE  Down(n) = IF n = 0 THEN Word - 1 ELSE n - 1
BY Sizes DEF Down

\* The counter stays a word of its width.
LEMMA WordsStay ==
  ASSUME NEW n \in 0..(Word - 1)
  PROVE  Up(n) \in 0..(Word - 1) /\ Down(n) \in 0..(Word - 1)
BY UpIs, DownIs, Sizes

\* Who has moved an oid and not counted it.
LEMMA Movers ==
  /\ IsFiniteSet(Uncounted) /\ Cardinality(Uncounted) \in Nat
  /\ Cardinality(Uncounted) <= Cardinality(Callers)
  /\ IsFiniteSet(Dequeued) /\ Cardinality(Dequeued) \in Nat
  /\ Cardinality(Dequeued) <= Cardinality(Workers)
BY SchedulerAssumption, FS_Subset, FS_CardinalityType DEF Uncounted, Dequeued

\* The remainders of QueuedCounts.
LEMMA CountedIsEnough == TypeOK /\ Counted => QueuedCounts
<1> SUFFICES ASSUME TypeOK, Counted,
                    shutdown \in {"no", "closing", "taken", "cancelled"}
             PROVE  (queued + Cardinality(Uncounted)) % Word
                      = (Len(queue) + Cardinality(Dequeued)) % Word
  BY DEF QueuedCounts, Uncounted, Dequeued
<1>1. PICK m, n \in Nat : m = queued + Cardinality(Uncounted) /\ n = Len(queue) + Cardinality(Dequeued)
  BY Movers, Sizes DEF TypeOK
<1>2. n < Word /\ Word \in Nat
  BY <1>1, Movers, Sizes DEF TypeOK
<1>3. m = n \/ m = n + Word
  BY <1>1 DEF Counted
<1>4. (n + Word) % Word = n % Word
  BY <1>2
<1> QED BY <1>1, <1>3, <1>4

\* One owner is one, and none is zero.
LEMMA OwnersCounted == Marks => MarksOwned
<1> SUFFICES ASSUME Distinct, Marked, Owned, NEW o \in Oids
             PROVE  Cardinality(Owners(o)) = IF o \in state THEN 1 ELSE 0
  BY DEF Marks, MarksOwned
<1>1. CASE o \in state
  <2>1. \A x, y \in Owners(o) : x = y
    <3>1. \A x \in Owners(o) :
            \/ \E c \in Callers : x = <<"caller", c>> /\ coid[c] = o /\ Marking(c)
            \/ \E i \in 1..Len(queue) : x = <<"slot", i>> /\ queue[i] = o
            \/ \E w \in Workers : x = <<"worker", w>> /\ woid[w] = o /\ Holding(w)
      BY DEF Owners, Marking, Holding
    <3> QED BY <3>1 DEF Distinct
  <2>2. PICK x : x \in Owners(o)
    <3>1. CASE \E c \in Callers : Marking(c) /\ coid[c] = o
      BY <3>1 DEF Owners, Marking
    <3>2. CASE \E i \in 1..Len(queue) : queue[i] = o
      BY <3>2 DEF Owners
    <3>3. CASE \E w \in Workers : Holding(w) /\ woid[w] = o
      BY <3>3 DEF Owners, Holding
    <3> QED BY <1>1, <3>1, <3>2, <3>3 DEF Owned
  <2>3. Owners(o) = {x}
    BY <2>1, <2>2
  <2> QED BY <1>1, <2>3, FS_Singleton
<1>2. CASE o \notin state
  <2>1. Owners(o) = {}
    BY <1>2 DEF Owners, Marked, Marking, Holding
  <2> QED BY <1>2, <2>1, FS_EmptySet
<1> QED BY <1>1, <1>2

\* Marks that name one owner each leave no oid to two workers.
LEMMA DistinctIsEnough == TypeOK /\ Marks /\ Over => NoDuplicateConversion
<1> SUFFICES ASSUME TypeOK, Marks, Over PROVE NoDuplicateConversion
  OBVIOUS
<1>1. CASE shutdown # "done"
  BY <1>1 DEF Marks, Distinct, Holding, NoDuplicateConversion
<1>2. CASE shutdown = "done"
  BY <1>2 DEF Over, Active, NoDuplicateConversion
<1> QED BY <1>1, <1>2

\* Nobody has asked for a conversion, and the counter is 0.
LEMMA InitInv == Init => IInv
<1> SUFFICES ASSUME Init PROVE IInv
  OBVIOUS
<1>1. TypeOK
  <2>1. 0 \in 0..(Word - 1) /\ << >> \in Seq(Oids) /\ Len(<< >>) <= Capacity
    BY Sizes
  <2> QED BY <2>1 DEF Init, TypeOK, CallerPcs, WorkerPcs, Shutdowns
<1>2. Marks
  BY DEF Init, Marks, Distinct, Marked, Owned, Marking, Holding, Active
<1>3. Over
  BY DEF Init, Over
<1>4. Counted
  <2>1. Uncounted = {} /\ Dequeued = {}
    BY DEF Init, Uncounted, Dequeued
  <2> QED BY <2>1, FS_EmptySet DEF Init, Counted
<1> QED BY <1>1, <1>2, <1>3, <1>4 DEF IInv

-----------------------------------------------------------------------------
(* The types. *)

\* What enqueue does keeps the types.
LEMMA CallerType ==
  ASSUME TypeOK, NEW c \in Callers, CallerStep(c) \/ \E o \in Oids : Enqueue(c, o)
  PROVE  TypeOK'
<1>1. CASE \E o \in Oids : Enqueue(c, o)
  BY <1>1 DEF TypeOK, Enqueue, workers, CallerPcs
<1>2. CASE Mark(c)
  BY <1>2 DEF TypeOK, Mark, workers, CallerPcs, CallerReturns, CallerGoto
<1>3. CASE LockSender(c)
  BY <1>3 DEF TypeOK, LockSender, workers, CallerPcs, CallerGoto
<1>4. CASE Send(c)
  <2>1. queue' \in Seq(Oids) /\ Len(queue') <= Capacity
    <3>1. queue \in Seq(Oids) /\ coid[c] \in Oids /\ Len(queue) \in Nat
      BY <1>4 DEF TypeOK, Send
    <3>2. queue' = queue \/ (queue' = Append(queue, coid[c]) /\ Len(queue) < Capacity)
      BY <1>4 DEF Send
    <3>3. Append(queue, coid[c]) \in Seq(Oids) /\ Len(Append(queue, coid[c])) = Len(queue) + 1
      BY <3>1
    <3>4. Len(queue) < Capacity => Len(queue) + 1 <= Capacity
      BY <3>1, Sizes
    <3> QED BY <3>1, <3>2, <3>3, <3>4 DEF TypeOK
  <2> QED BY <1>4, <2>1 DEF TypeOK, Send, workers, CallerPcs, CallerGoto
<1>5. CASE Count(c)
  <2>1. queued' \in 0..(Word - 1)
    BY <1>5, WordsStay DEF TypeOK, Count
  <2> QED BY <1>5, <2>1 DEF TypeOK, Count, workers, CallerPcs, CallerReturns
<1>6. CASE Unmark(c)
  BY <1>6 DEF TypeOK, Unmark, workers, CallerPcs, CallerReturns
<1> QED BY <1>1, <1>2, <1>3, <1>4, <1>5, <1>6 DEF CallerStep

\* What a worker does keeps the types.
LEMMA WorkerType ==
  ASSUME TypeOK, NEW w \in Workers, WorkerStep(w) \/ Converted(w)
  PROVE  TypeOK'
<1> USE DEF TypeOK, callers, WorkerPcs
<1>1. CASE Take(w)
  <2>1. queue' \in Seq(Oids) /\ Len(queue') <= Capacity /\ Head(queue) \in Oids
    BY <1>1, Sizes DEF Take
  <2> QED BY <1>1, <2>1 DEF Take
<1>2. CASE Uncount(w)
  <2>1. queued' \in 0..(Word - 1) /\ running' \in 0..(Word - 1)
    BY <1>2, WordsStay DEF Uncount
  <2> QED BY <1>2, <2>1 DEF Uncount
<1>3. CASE Converted(w)
  <2>1. running' \in 0..(Word - 1)
    BY <1>3, WordsStay DEF Converted
  <2> QED BY <1>3, <2>1 DEF Converted
<1>4. CASE Release(w)
  BY <1>4 DEF Release
<1>5. CASE CancelConversion(w)
  <2>1. running' \in 0..(Word - 1)
    BY <1>5, WordsStay DEF CancelConversion
  <2> QED BY <1>5, <2>1 DEF CancelConversion
<1>6. CASE Exit(w)
  BY <1>6 DEF Exit
<1>7. CASE Abort(w)
  BY <1>7 DEF Abort
<1> QED BY <1>1, <1>2, <1>3, <1>4, <1>5, <1>6, <1>7 DEF WorkerStep

\* What shutdown does keeps the types.
LEMMA ShutdownType ==
  ASSUME TypeOK, Close \/ ShutdownStep
  PROVE  TypeOK'
<1>1. 0 \in 0..(Word - 1) /\ << >> \in Seq(Oids) /\ Len(<< >>) <= Capacity
  BY Sizes
<1>2. CASE Clear
  BY <1>1, <1>2 DEF TypeOK, Clear, callers, workers, Shutdowns
<1>3. CASE Close \/ TakeSender \/ Cancel \/ SwapQueued \/ Deadline
  BY <1>1, <1>3 DEF TypeOK, Close, TakeSender, Cancel, SwapQueued, Deadline, callers, workers, Shutdowns
<1> QED BY <1>2, <1>3 DEF ShutdownStep

-----------------------------------------------------------------------------
(* The marks. *)

\* Nobody's ownership changes.
LEMMA MarksStay ==
  ASSUME Marks, queue' = queue, state' = state, shutdown' # "done" => shutdown # "done",
         \A c \in Callers : /\ Marking(c)' <=> Marking(c)
                            /\ Marking(c) => coid'[c] = coid[c],
         \A w \in Workers : /\ Holding(w)' <=> Holding(w)
                            /\ Holding(w) => woid'[w] = woid[w]
  PROVE  Marks'
<1> SUFFICES ASSUME shutdown' # "done" PROVE Distinct' /\ Marked' /\ Owned'
  BY DEF Marks
<1>1. Distinct /\ Marked /\ Owned
  BY DEF Marks
<1>2. Distinct'
  BY <1>1 DEF Distinct
<1>3. Marked'
  BY <1>1 DEF Marked
<1>4. Owned'
  BY <1>1 DEF Owned
<1> QED BY <1>2, <1>3, <1>4

\* An owner gives up its oid, and takes the mark with it.
LEMMA MarkGoes ==
  ASSUME Marks, queue' = queue, shutdown' = shutdown, shutdown # "done", NEW o, state' = state \ {o},
         \/ \E c \in Callers : /\ Marking(c) /\ coid[c] = o /\ ~Marking(c)'
                               /\ \A d \in Callers \ {c} : (Marking(d)' <=> Marking(d)) /\ coid'[d] = coid[d]
                               /\ \A w \in Workers : (Holding(w)' <=> Holding(w)) /\ woid'[w] = woid[w]
         \/ \E w \in Workers : /\ Holding(w) /\ woid[w] = o /\ ~Holding(w)'
                               /\ \A v \in Workers \ {w} : (Holding(v)' <=> Holding(v)) /\ woid'[v] = woid[v]
                               /\ \A c \in Callers : (Marking(c)' <=> Marking(c)) /\ coid'[c] = coid[c]
  PROVE  Marks'
<1>1. Distinct /\ Marked /\ Owned
  BY DEF Marks
<1>2. Distinct'
  BY <1>1 DEF Distinct
<1>3. Marked'
  BY <1>1 DEF Marked, Distinct
<1>4. Owned'
  BY <1>1 DEF Owned
<1> QED BY <1>2, <1>3, <1>4 DEF Marks

\* A caller that has only begun marks nothing.
LEMMA EnqueueMarks ==
  ASSUME TypeOK, Marks, NEW c \in Callers, NEW o \in Oids, Enqueue(c, o)
  PROVE  Marks'
<1>1. queue' = queue /\ state' = state /\ shutdown' = shutdown /\ wpc' = wpc /\ woid' = woid
      /\ cpc' = [cpc EXCEPT ![c] = "mark"] /\ coid' = [coid EXCEPT ![c] = o] /\ cpc[c] = "idle"
  BY DEF Enqueue, workers
<1>2. \A d \in Callers : (Marking(d)' <=> Marking(d)) /\ (Marking(d) => coid'[d] = coid[d])
  BY <1>1 DEF TypeOK, Marking
<1>3. \A w \in Workers : (Holding(w)' <=> Holding(w)) /\ (Holding(w) => woid'[w] = woid[w])
  BY <1>1 DEF Holding
<1> QED BY <1>1, <1>2, <1>3, MarksStay

\* An oid is marked by the caller that found it unmarked.
LEMMA MarkMarks ==
  ASSUME TypeOK, Marks, NEW c \in Callers, Mark(c)
  PROVE  Marks'
<1>1. queue' = queue /\ shutdown' = shutdown /\ wpc' = wpc /\ woid' = woid /\ cpc[c] = "mark"
  BY DEF Mark, workers
<1>2. \A w \in Workers : (Holding(w)' <=> Holding(w)) /\ (Holding(w) => woid'[w] = woid[w])
  BY <1>1 DEF Holding
<1>3. CASE state' = state /\ CallerReturns(c)
  <2>1. \A d \in Callers : (Marking(d)' <=> Marking(d)) /\ (Marking(d) => coid'[d] = coid[d])
    BY <1>1, <1>3 DEF TypeOK, Marking, CallerReturns
  <2> QED BY <1>1, <1>2, <1>3, <2>1, MarksStay
<1>4. CASE coid[c] \notin state /\ state' = state \cup {coid[c]} /\ CallerGoto(c, "lock")
  <2>1. coid' = coid /\ ~Marking(c) /\ Marking(c)'
        /\ \A d \in Callers \ {c} : Marking(d)' <=> Marking(d)
    BY <1>1, <1>4 DEF TypeOK, Marking, CallerGoto
  <2> SUFFICES ASSUME shutdown # "done" PROVE Distinct' /\ Marked' /\ Owned'
    BY <1>1 DEF Marks
  <2>2. Distinct /\ Marked /\ Owned
    BY DEF Marks
  <2>3. Distinct'
    BY <1>1, <1>2, <1>4, <2>1, <2>2 DEF Distinct, Marked
  <2>4. Marked'
    BY <1>1, <1>2, <1>4, <2>1, <2>2 DEF Marked
  <2>5. Owned'
    BY <1>1, <1>2, <1>4, <2>1, <2>2 DEF Owned
  <2> QED BY <2>3, <2>4, <2>5
<1> QED BY <1>3, <1>4 DEF Mark

\* With the sender in hand, or without one, the mark stays the caller's.
LEMMA LockMarks ==
  ASSUME TypeOK, Marks, NEW c \in Callers, LockSender(c)
  PROVE  Marks'
<1>1. /\ queue' = queue /\ state' = state /\ shutdown' = shutdown /\ wpc' = wpc /\ woid' = woid
      /\ cpc[c] = "lock" /\ coid' = coid
      /\ cpc' = [cpc EXCEPT ![c] = "send"] \/ cpc' = [cpc EXCEPT ![c] = "unmark"]
  BY DEF LockSender, workers, CallerGoto
<1>2. \A d \in Callers : (Marking(d)' <=> Marking(d)) /\ (Marking(d) => coid'[d] = coid[d])
  BY <1>1 DEF TypeOK, Marking
<1>3. \A w \in Workers : (Holding(w)' <=> Holding(w)) /\ (Holding(w) => woid'[w] = woid[w])
  BY <1>1 DEF Holding
<1> QED BY <1>1, <1>2, <1>3, MarksStay

\* The oid of the caller becomes the last one of the queue.
LEMMA SendMarks ==
  ASSUME TypeOK, Marks, NEW c \in Callers, Send(c)
  PROVE  Marks'
<1>1. state' = state /\ shutdown' = shutdown /\ wpc' = wpc /\ woid' = woid
      /\ cpc[c] = "send" /\ coid' = coid
  BY DEF Send, workers, CallerGoto
<1>2. \A w \in Workers : (Holding(w)' <=> Holding(w)) /\ (Holding(w) => woid'[w] = woid[w])
  BY <1>1 DEF Holding
<1>3. CASE queue' = queue /\ CallerGoto(c, "unmark")
  <2>1. \A d \in Callers : (Marking(d)' <=> Marking(d)) /\ (Marking(d) => coid'[d] = coid[d])
    BY <1>1, <1>3 DEF TypeOK, Marking, CallerGoto
  <2> QED BY <1>1, <1>2, <1>3, <2>1, MarksStay
<1>4. CASE queue' = Append(queue, coid[c]) /\ CallerGoto(c, "count")
  <2>1. Marking(c) /\ ~Marking(c)' /\ \A d \in Callers \ {c} : Marking(d)' <=> Marking(d)
    BY <1>1, <1>4 DEF TypeOK, Marking, CallerGoto
  <2>2. PICK n \in Nat : n = Len(queue)
    BY DEF TypeOK
  <2>3. /\ Len(queue') = n + 1 /\ queue'[n + 1] = coid[c]
        /\ \A i \in 1..n : queue'[i] = queue[i]
    BY <1>4, <2>2 DEF TypeOK
  <2>4. \A i \in 1..(n + 1) : i \in 1..n \/ i = n + 1
    BY <2>2
  <2> SUFFICES ASSUME shutdown # "done" PROVE Distinct' /\ Marked' /\ Owned'
    BY <1>1 DEF Marks
  <2>5. Distinct /\ Marked /\ Owned
    BY DEF Marks
  <2>6. Distinct'
    <3>1. \A d, e \in Callers : Marking(d)' /\ Marking(e)' /\ coid'[d] = coid'[e] => d = e
      BY <1>1, <2>1, <2>5 DEF Distinct
    <3>2. \A i, j \in 1..(n + 1) : queue'[i] = queue'[j] => i = j
      BY <2>1, <2>2, <2>3, <2>4, <2>5 DEF Distinct
    <3>3. \A d \in Callers, i \in 1..(n + 1) : Marking(d)' => coid'[d] # queue'[i]
      BY <1>1, <2>1, <2>2, <2>3, <2>4, <2>5 DEF Distinct
    <3>4. \A w \in Workers, i \in 1..(n + 1) : Holding(w)' => woid'[w] # queue'[i]
      BY <1>1, <1>2, <2>1, <2>2, <2>3, <2>4, <2>5 DEF Distinct
    <3>5. /\ \A v, w \in Workers : Holding(v)' /\ Holding(w)' /\ woid'[v] = woid'[w] => v = w
          /\ \A d \in Callers, w \in Workers : Marking(d)' /\ Holding(w)' => coid'[d] # woid'[w]
      BY <1>1, <1>2, <2>1, <2>5 DEF Distinct
    <3> QED BY <2>3, <3>1, <3>2, <3>3, <3>4, <3>5 DEF Distinct
  <2>7. Marked'
    BY <1>1, <1>2, <2>1, <2>2, <2>3, <2>4, <2>5 DEF Marked
  <2>8. Owned'
    <3> SUFFICES ASSUME NEW o \in state
                 PROVE  \/ \E d \in Callers : Marking(d)' /\ coid'[d] = o
                        \/ \E i \in 1..Len(queue') : queue'[i] = o
                        \/ \E w \in Workers : Holding(w)' /\ woid'[w] = o
      BY <1>1 DEF Owned
    <3>1. CASE o = coid[c]
      <4>1. n + 1 \in 1..Len(queue') /\ queue'[n + 1] = o
        BY <2>2, <2>3, <3>1
      <4> QED BY <4>1
    <3>2. CASE o # coid[c]
      <4>1. \A i \in 1..n : i \in 1..Len(queue')
        BY <2>2, <2>3
      <4> QED BY <1>1, <1>2, <2>1, <2>2, <2>3, <2>5, <3>2, <4>1 DEF Owned
    <3> QED BY <3>1, <3>2
  <2> QED BY <2>6, <2>7, <2>8
<1> QED BY <1>3, <1>4 DEF Send

\* Counting comes after the oid has been handed over.
LEMMA CountMarks ==
  ASSUME TypeOK, Marks, NEW c \in Callers, Count(c)
  PROVE  Marks'
<1>1. /\ queue' = queue /\ state' = state /\ shutdown' = shutdown /\ wpc' = wpc /\ woid' = woid
      /\ cpc[c] = "count" /\ cpc' = [cpc EXCEPT ![c] = "idle"] /\ coid' = [coid EXCEPT ![c] = None]
  BY DEF Count, workers, CallerReturns
<1>2. \A d \in Callers : (Marking(d)' <=> Marking(d)) /\ (Marking(d) => coid'[d] = coid[d])
  BY <1>1 DEF TypeOK, Marking
<1>3. \A w \in Workers : (Holding(w)' <=> Holding(w)) /\ (Holding(w) => woid'[w] = woid[w])
  BY <1>1 DEF Holding
<1> QED BY <1>1, <1>2, <1>3, MarksStay

\* A caller takes back a mark that is its own and nobody else's.
LEMMA UnmarkMarks ==
  ASSUME TypeOK, Marks, NEW c \in Callers, Unmark(c)
  PROVE  Marks'
<1>1. /\ queue' = queue /\ state' = state \ {coid[c]} /\ shutdown' = shutdown
      /\ wpc' = wpc /\ woid' = woid /\ cpc[c] = "unmark"
      /\ cpc' = [cpc EXCEPT ![c] = "idle"] /\ coid' = [coid EXCEPT ![c] = None]
  BY DEF Unmark, workers, CallerReturns
<1>2. /\ Marking(c) /\ ~Marking(c)'
      /\ \A d \in Callers \ {c} : (Marking(d)' <=> Marking(d)) /\ coid'[d] = coid[d]
  BY <1>1 DEF TypeOK, Marking
<1>3. \A w \in Workers : (Holding(w)' <=> Holding(w)) /\ woid'[w] = woid[w]
  BY <1>1 DEF Holding
<1>4. CASE shutdown = "done"
  BY <1>1, <1>4 DEF Marks
<1>5. PICK o : o = coid[c]
  OBVIOUS
<1>6. CASE shutdown # "done"
  BY <1>1, <1>2, <1>3, <1>5, <1>6, MarkGoes
<1> QED BY <1>4, <1>6

\* The first oid of the queue becomes the worker's.
LEMMA TakeMarks ==
  ASSUME TypeOK, Marks, NEW w \in Workers, Take(w)
  PROVE  Marks'
<1>1. /\ state' = state /\ shutdown' = shutdown /\ cpc' = cpc /\ coid' = coid
      /\ wpc[w] = "idle" /\ queue # << >> /\ queue' = Tail(queue)
      /\ wpc' = [wpc EXCEPT ![w] = "dequeued"] /\ woid' = [woid EXCEPT ![w] = Head(queue)]
  BY DEF Take, callers
<1>2. \A c \in Callers : Marking(c)' <=> Marking(c)
  BY <1>1 DEF Marking
<1>3. /\ ~Holding(w) /\ Holding(w)' /\ woid'[w] = queue[1]
      /\ \A v \in Workers \ {w} : (Holding(v)' <=> Holding(v)) /\ woid'[v] = woid[v]
  BY <1>1 DEF TypeOK, Holding, Active
<1>4. PICK n \in Nat : Len(queue) = n + 1
  <2>1. Len(queue) \in Nat /\ Len(queue) # 0
    BY <1>1 DEF TypeOK
  <2>2. Len(queue) - 1 \in Nat /\ Len(queue) = (Len(queue) - 1) + 1
    BY <2>1
  <2> QED BY <2>2
<1>5. Len(queue') = n /\ \A i \in 1..n : queue'[i] = queue[i + 1]
  BY <1>1, <1>4 DEF TypeOK
<1>6. /\ 1 \in 1..(n + 1) /\ \A i \in 1..n : i + 1 \in 1..(n + 1) /\ i + 1 # 1
      /\ \A i, j \in 1..n : i + 1 = j + 1 => i = j
      /\ \A i \in 1..(n + 1) : i = 1 \/ \E j \in 1..n : i = j + 1
  <2>1. \A i \in 1..(n + 1) : i = 1 \/ (i - 1 \in 1..n /\ i = (i - 1) + 1)
    BY <1>4
  <2> QED BY <1>4, <2>1
<1> SUFFICES ASSUME shutdown # "done" PROVE Distinct' /\ Marked' /\ Owned'
  BY <1>1 DEF Marks
<1>7. Distinct /\ Marked /\ Owned
  BY DEF Marks
<1>8. Distinct'
  <2>1. \A c, d \in Callers : Marking(c)' /\ Marking(d)' /\ coid'[c] = coid'[d] => c = d
    BY <1>1, <1>2, <1>7 DEF Distinct
  <2>2. \A i, j \in 1..n : queue'[i] = queue'[j] => i = j
    BY <1>4, <1>5, <1>6, <1>7 DEF Distinct
  <2>3. \A u, v \in Workers : Holding(u)' /\ Holding(v)' /\ woid'[u] = woid'[v] => u = v
    BY <1>3, <1>4, <1>6, <1>7 DEF Distinct
  <2>4. \A c \in Callers, i \in 1..n : Marking(c)' => coid'[c] # queue'[i]
    BY <1>1, <1>2, <1>4, <1>5, <1>6, <1>7 DEF Distinct
  <2>5. \A c \in Callers, v \in Workers : Marking(c)' /\ Holding(v)' => coid'[c] # woid'[v]
    BY <1>1, <1>2, <1>3, <1>4, <1>6, <1>7 DEF Distinct
  <2>6. \A v \in Workers, i \in 1..n : Holding(v)' => woid'[v] # queue'[i]
    BY <1>3, <1>4, <1>5, <1>6, <1>7 DEF Distinct
  <2> QED BY <1>5, <2>1, <2>2, <2>3, <2>4, <2>5, <2>6 DEF Distinct
<1>9. Marked'
  BY <1>1, <1>2, <1>3, <1>4, <1>5, <1>6, <1>7 DEF Marked
<1>10. Owned'
  <2> SUFFICES ASSUME NEW o \in state
               PROVE  \/ \E d \in Callers : Marking(d)' /\ coid'[d] = o
                      \/ \E i \in 1..n : queue'[i] = o
                      \/ \E v \in Workers : Holding(v)' /\ woid'[v] = o
    BY <1>1, <1>5 DEF Owned
  <2>1. CASE \E c \in Callers : Marking(c) /\ coid[c] = o
    BY <1>1, <1>2, <2>1
  <2>2. CASE \E i \in 1..(n + 1) : queue[i] = o
    <3>1. PICK i \in 1..(n + 1) : queue[i] = o
      BY <2>2
    <3>2. CASE i = 1
      BY <1>3, <3>1, <3>2
    <3>3. CASE \E j \in 1..n : i = j + 1
      BY <1>5, <3>1, <3>3
    <3> QED BY <1>6, <3>2, <3>3
  <2>3. CASE \E v \in Workers : Holding(v) /\ woid[v] = o
    BY <1>3, <2>3
  <2> QED BY <1>4, <1>7, <2>1, <2>2, <2>3 DEF Owned
<1> QED BY <1>8, <1>9, <1>10

\* Uncount, Converted, Exit and Abort: the worker keeps what it has.
LEMMA WorkMarks ==
  ASSUME TypeOK, Marks, NEW w \in Workers, Uncount(w) \/ Converted(w) \/ Exit(w) \/ Abort(w)
  PROVE  Marks'
<1>1. /\ queue' = queue /\ state' = state /\ shutdown' = shutdown /\ cpc' = cpc /\ coid' = coid
      /\ woid' = woid
  BY DEF Uncount, Converted, Exit, Abort, callers
<1>2. \A c \in Callers : (Marking(c)' <=> Marking(c)) /\ (Marking(c) => coid'[c] = coid[c])
  BY <1>1 DEF Marking
<1>3. \A v \in Workers : Holding(v)' <=> Holding(v)
  <2>1. PICK at, to \in WorkerPcs :
          /\ wpc[w] = at /\ wpc' = [wpc EXCEPT ![w] = to]
          /\ at \in Active \cup {"aborted"} <=> to \in Active \cup {"aborted"}
    <3>1. CASE Uncount(w)
      BY <3>1 DEF Uncount, WorkerPcs, Active
    <3>2. CASE Converted(w)
      BY <3>2 DEF Converted, WorkerPcs, Active
    <3>3. CASE Exit(w)
      BY <3>3 DEF Exit, WorkerPcs, Active
    <3>4. CASE Abort(w)
      BY <3>4 DEF Abort, WorkerPcs, Active
    <3> QED BY <3>1, <3>2, <3>3, <3>4
  <2> QED BY <2>1 DEF TypeOK, Holding
<1> QED BY <1>1, <1>2, <1>3, MarksStay

\* A worker takes back the mark of the oid it has converted, or was
\* cancelled in.
LEMMA ReleaseMarks ==
  ASSUME TypeOK, Marks, NEW w \in Workers, Release(w) \/ CancelConversion(w)
  PROVE  Marks'
<1>1. /\ queue' = queue /\ state' = state \ {woid[w]} /\ shutdown' = shutdown
      /\ cpc' = cpc /\ coid' = coid /\ wpc[w] \in {"convert", "release"}
      /\ wpc' = [wpc EXCEPT ![w] = "idle"] /\ woid' = [woid EXCEPT ![w] = None]
  BY DEF Release, CancelConversion, callers
<1>2. /\ Holding(w) /\ ~Holding(w)'
      /\ \A v \in Workers \ {w} : (Holding(v)' <=> Holding(v)) /\ woid'[v] = woid[v]
  BY <1>1 DEF TypeOK, Holding, Active
<1>3. \A c \in Callers : (Marking(c)' <=> Marking(c)) /\ coid'[c] = coid[c]
  BY <1>1 DEF Marking
<1>4. CASE shutdown = "done"
  BY <1>1, <1>4 DEF Marks
<1>5. PICK o : o = woid[w]
  OBVIOUS
<1>6. CASE shutdown # "done"
  BY <1>1, <1>2, <1>3, <1>5, <1>6, MarkGoes
<1> QED BY <1>4, <1>6

\* Shutdown clears the marks when no worker is left.
LEMMA ShutdownMarks ==
  ASSUME TypeOK, Marks, Close \/ ShutdownStep
  PROVE  Marks'
<1>1. CASE Clear
  BY <1>1 DEF Clear, Marks
<1>2. CASE Close \/ TakeSender \/ Cancel \/ SwapQueued \/ Deadline
  <2>1. /\ queue' = queue /\ state' = state /\ shutdown # "done"
        /\ cpc' = cpc /\ coid' = coid /\ wpc' = wpc /\ woid' = woid
    BY <1>2 DEF Close, TakeSender, Cancel, SwapQueued, Deadline, callers, workers
  <2>2. /\ \A c \in Callers : (Marking(c)' <=> Marking(c)) /\ (Marking(c) => coid'[c] = coid[c])
        /\ \A w \in Workers : (Holding(w)' <=> Holding(w)) /\ (Holding(w) => woid'[w] = woid[w])
    BY <2>1 DEF Marking, Holding
  <2> QED BY <2>1, <2>2, MarksStay
<1> QED BY <1>1, <1>2 DEF ShutdownStep

\* Every step keeps the marks apart.
LEMMA MarksNext == IInv /\ [Next]_vars => Marks'
<1> SUFFICES ASSUME TypeOK, Marks, [Next]_vars PROVE Marks'
  BY DEF IInv
<1>1. ASSUME NEW c \in Callers, CallerStep(c) \/ \E o \in Oids : Enqueue(c, o) PROVE Marks'
  BY <1>1, EnqueueMarks, MarkMarks, LockMarks, SendMarks, CountMarks, UnmarkMarks DEF CallerStep
<1>2. ASSUME NEW w \in Workers, WorkerStep(w) \/ Converted(w) PROVE Marks'
  BY <1>2, TakeMarks, WorkMarks, ReleaseMarks DEF WorkerStep
<1>3. CASE UNCHANGED vars
  BY <1>3 DEF vars, Marks, Distinct, Marked, Owned, Marking, Holding
<1> QED BY <1>1, <1>2, <1>3, ShutdownMarks DEF Next

-----------------------------------------------------------------------------
(* After shutdown. *)

\* What is left after shutdown stays so.
LEMMA OverNext == IInv /\ [Next]_vars => Over'
<1> SUFFICES ASSUME TypeOK, Marks, Over, [Next]_vars PROVE Over'
  BY DEF IInv
<1>1. ASSUME NEW c \in Callers, CallerStep(c) \/ \E o \in Oids : Enqueue(c, o) PROVE Over'
  <2>1. sender' = sender /\ shutdown' = shutdown /\ wpc' = wpc
    BY <1>1 DEF CallerStep, Enqueue, Mark, LockSender, Send, Count, Unmark, workers
  <2> SUFFICES ASSUME shutdown = "done"
               PROVE  queue' = << >> /\ \A o \in state' : \E d \in Callers : Marking(d)' /\ coid'[d] = o
    BY <2>1 DEF Over
  <2>2. ~sender /\ queue = << >> /\ \A o \in state : \E d \in Callers : Marking(d) /\ coid[d] = o
    BY DEF Over
  <2>3. queue' = << >>
    BY <1>1, <2>2 DEF CallerStep, Enqueue, Mark, LockSender, Send, Count, Unmark
  <2>4. CASE state' = state /\ \A d \in Callers : Marking(d) => Marking(d)' /\ coid'[d] = coid[d]
    BY <2>2, <2>3, <2>4
  <2>5. CASE \E o \in Oids : Enqueue(c, o)
    <3>1. state' = state /\ \A d \in Callers : Marking(d) => Marking(d)' /\ coid'[d] = coid[d]
      BY <2>5 DEF Enqueue, TypeOK, Marking
    <3> QED BY <2>4, <3>1
  <2>6. CASE Mark(c)
    <3>1. CASE state' = state /\ CallerReturns(c)
      <4>1. \A d \in Callers : Marking(d) => Marking(d)' /\ coid'[d] = coid[d]
        BY <2>6, <3>1 DEF Mark, CallerReturns, TypeOK, Marking
      <4> QED BY <2>4, <3>1, <4>1
    <3>2. CASE state' = state \cup {coid[c]} /\ CallerGoto(c, "lock")
      <4>1. coid' = coid /\ Marking(c)' /\ \A d \in Callers : Marking(d) => Marking(d)'
        BY <3>2 DEF CallerGoto, TypeOK, Marking
      <4> QED BY <2>2, <2>3, <3>2, <4>1
    <3> QED BY <2>6, <3>1, <3>2 DEF Mark
  <2>7. CASE LockSender(c)
    <3>1. state' = state /\ \A d \in Callers : Marking(d) => Marking(d)' /\ coid'[d] = coid[d]
      BY <2>7 DEF LockSender, CallerGoto, TypeOK, Marking
    <3> QED BY <2>4, <3>1
  <2>8. CASE Send(c)
    <3>1. state' = state /\ \A d \in Callers : Marking(d) => Marking(d)' /\ coid'[d] = coid[d]
      BY <2>2, <2>8 DEF Send, CallerGoto, TypeOK, Marking
    <3> QED BY <2>4, <3>1
  <2>9. CASE Count(c)
    <3>1. state' = state /\ \A d \in Callers : Marking(d) => Marking(d)' /\ coid'[d] = coid[d]
      BY <2>9 DEF Count, CallerReturns, TypeOK, Marking
    <3> QED BY <2>4, <3>1
  <2>10. CASE Unmark(c)
    <3>1. /\ state' = state \ {coid[c]}
          /\ \A d \in Callers : Marking(d) /\ d # c => Marking(d)' /\ coid'[d] = coid[d]
      BY <2>10 DEF Unmark, CallerReturns, TypeOK, Marking
    <3> QED BY <2>2, <2>3, <3>1
  <2> QED BY <1>1, <2>5, <2>6, <2>7, <2>8, <2>9, <2>10 DEF CallerStep
<1>2. ASSUME NEW w \in Workers, WorkerStep(w) \/ Converted(w) PROVE Over'
  <2>1. sender' = sender /\ shutdown' = shutdown
    BY <1>2 DEF WorkerStep, Take, Uncount, Converted, Release, CancelConversion, Exit, Abort
  <2>2. shutdown # "done"
    BY <1>2 DEF WorkerStep, Take, Uncount, Converted, Release, CancelConversion, Exit, Abort, Over
  <2> QED BY <2>1, <2>2 DEF Over
<1>3. CASE Close \/ ShutdownStep
  BY <1>3 DEF ShutdownStep, Close, TakeSender, Cancel, SwapQueued, Deadline, Clear, callers, workers, Over
<1>4. CASE UNCHANGED vars
  BY <1>4 DEF vars, Over, Marking
<1> QED BY <1>1, <1>2, <1>3, <1>4 DEF Next

-----------------------------------------------------------------------------
(* The counter. *)

\* Nothing is moved and nothing is counted.
LEMMA CountStays ==
  ASSUME Counted, queued' = queued, Len(queue') = Len(queue), Uncounted' = Uncounted,
         Dequeued' = Dequeued,
         shutdown' \in {"no", "closing", "taken", "cancelled"}
           => shutdown \in {"no", "closing", "taken", "cancelled"}
  PROVE  Counted'
BY DEF Counted

\* A message is sent before it is counted.
LEMMA SendCounts ==
  ASSUME TypeOK, Counted, NEW c \in Callers, Send(c)
  PROVE  Counted'
<1>1. queued' = queued /\ shutdown' = shutdown /\ wpc' = wpc /\ cpc[c] = "send"
  BY DEF Send, workers
<1>2. Dequeued' = Dequeued
  BY <1>1 DEF Dequeued
<1>3. CASE queue' = queue /\ CallerGoto(c, "unmark")
  <2>1. Uncounted' = Uncounted
    BY <1>1, <1>3 DEF Uncounted, CallerGoto, TypeOK
  <2> QED BY <1>1, <1>2, <1>3, <2>1, CountStays
<1>4. CASE queue' = Append(queue, coid[c]) /\ CallerGoto(c, "count")
  <2>1. Uncounted' = Uncounted \cup {c} /\ c \notin Uncounted
    BY <1>1, <1>4 DEF Uncounted, CallerGoto, TypeOK
  <2>2. Cardinality(Uncounted') = Cardinality(Uncounted) + 1
    BY <2>1, Movers, FS_AddElement
  <2>3. Len(queue') = Len(queue) + 1 /\ Len(queue) \in Nat /\ queued \in Nat
    BY <1>4, Sizes DEF TypeOK
  <2>4. PICK k, l, m, q \in Nat : /\ k = Cardinality(Uncounted) /\ l = Len(queue)
                                   /\ m = Cardinality(Dequeued) /\ q = queued
    BY <2>3, Movers
  <2>5. q + k = l + m \/ q + k = l + m + Word =>
          q + (k + 1) = (l + 1) + m \/ q + (k + 1) = (l + 1) + m + Word
    <3>1. Word \in Nat /\ k \in Nat /\ l \in Nat /\ m \in Nat /\ q \in Nat
      BY <2>4, Sizes
    <3> QED BY <3>1
  <2> QED BY <1>1, <1>2, <2>2, <2>3, <2>4, <2>5 DEF Counted
<1> QED BY <1>3, <1>4 DEF Send

\* The counter catches up with what was sent.
LEMMA CountCounts ==
  ASSUME TypeOK, Counted, NEW c \in Callers, Count(c)
  PROVE  Counted'
<1>1. /\ queued' = Up(queued) /\ shutdown' = shutdown /\ wpc' = wpc /\ queue' = queue
      /\ cpc[c] = "count" /\ cpc' = [cpc EXCEPT ![c] = "idle"]
  BY DEF Count, workers, CallerReturns
<1>2. Dequeued' = Dequeued /\ Uncounted' = Uncounted \ {c} /\ c \in Uncounted
  BY <1>1 DEF Dequeued, Uncounted, TypeOK
<1>3. PICK k \in Nat : k = Cardinality(Uncounted') /\ Cardinality(Uncounted) = k + 1
  <2>1. Cardinality(Uncounted') = Cardinality(Uncounted) - 1 /\ Cardinality(Uncounted) # 0
    BY <1>2, Movers, FS_RemoveElement, FS_EmptySet
  <2>2. Cardinality(Uncounted) - 1 \in Nat
    BY <2>1, Movers
  <2> QED BY <2>1, <2>2, Movers
<1>4. PICK n \in Nat : n = Len(queue) + Cardinality(Dequeued) /\ n < Word
  BY Movers, Sizes DEF TypeOK
<1>5. queued' = (IF queued = Word - 1 THEN 0 ELSE queued + 1) /\ queued \in 0..(Word - 1)
  BY <1>1, UpIs DEF TypeOK
<1>6. queued + (k + 1) = n \/ queued + (k + 1) = n + Word =>
        queued' + k = n \/ queued' + k = n + Word
  BY <1>4, <1>5, Sizes
<1> QED BY <1>1, <1>2, <1>3, <1>4, <1>6 DEF Counted

\* A message is taken before the counter is told.
LEMMA TakeCounts ==
  ASSUME TypeOK, Counted, NEW w \in Workers, Take(w)
  PROVE  Counted'
<1>1. /\ queued' = queued /\ shutdown' = shutdown /\ cpc' = cpc /\ queue # << >> /\ queue' = Tail(queue)
      /\ wpc[w] = "idle" /\ wpc' = [wpc EXCEPT ![w] = "dequeued"]
  BY DEF Take, callers
<1>2. Uncounted' = Uncounted /\ Dequeued' = Dequeued \cup {w} /\ w \notin Dequeued
  BY <1>1 DEF Dequeued, Uncounted, TypeOK
<1>3. Cardinality(Dequeued') = Cardinality(Dequeued) + 1
  BY <1>2, Movers, FS_AddElement
<1>4. Len(queue') = Len(queue) - 1 /\ Len(queue) \in Nat
  BY <1>1 DEF TypeOK
<1>5. Len(queue') + Cardinality(Dequeued') = Len(queue) + Cardinality(Dequeued)
  BY <1>3, <1>4, Movers
<1> QED BY <1>1, <1>2, <1>5 DEF Counted

\* The counter catches up with what was taken, if need be below zero.
LEMMA UncountCounts ==
  ASSUME TypeOK, Counted, NEW w \in Workers, Uncount(w)
  PROVE  Counted'
<1>1. /\ queued' = Down(queued) /\ shutdown' = shutdown /\ cpc' = cpc /\ queue' = queue
      /\ wpc[w] = "dequeued" /\ wpc' = [wpc EXCEPT ![w] = "convert"]
  BY DEF Uncount, callers
<1>2. Uncounted' = Uncounted /\ Dequeued' = Dequeued \ {w} /\ w \in Dequeued
  BY <1>1 DEF Dequeued, Uncounted, TypeOK
<1>3. PICK m \in Nat : m = Cardinality(Dequeued') /\ Cardinality(Dequeued) = m + 1
  <2>1. Cardinality(Dequeued') = Cardinality(Dequeued) - 1 /\ Cardinality(Dequeued) # 0
    BY <1>2, Movers, FS_RemoveElement, FS_EmptySet
  <2>2. Cardinality(Dequeued) - 1 \in Nat
    BY <2>1, Movers
  <2> QED BY <2>1, <2>2, Movers
<1>4. PICK k \in Nat : k = Cardinality(Uncounted) /\ k < Word
  BY Movers, Sizes
<1>5. queued' = (IF queued = 0 THEN Word - 1 ELSE queued - 1) /\ queued \in 0..(Word - 1)
  BY <1>1, DownIs DEF TypeOK
<1>6. PICK l \in Nat : l = Len(queue)
  BY DEF TypeOK
<1>7. queued + k = l + (m + 1) \/ queued + k = l + (m + 1) + Word =>
        queued' + k = l + m \/ queued' + k = l + m + Word
  <2>1. k < Word /\ Word \in Nat /\ queued \in Nat
    BY <1>4, <1>5, Sizes
  <2>2. CASE queued = 0
    <3>1. queued' = Word - 1
      BY <1>5, <2>2
    <3> QED BY <2>1, <2>2, <3>1
  <2>3. CASE queued # 0
    <3>1. queued' = queued - 1
      BY <1>5, <2>3
    <3> QED BY <2>1, <2>3, <3>1
  <2> QED BY <2>2, <2>3
<1> QED BY <1>1, <1>2, <1>3, <1>4, <1>6, <1>7 DEF Counted

\* Every step keeps the counter in line with the queue.
LEMMA CountedNext == IInv /\ [Next]_vars => Counted'
<1> SUFFICES ASSUME TypeOK, Counted, [Next]_vars PROVE Counted'
  BY DEF IInv
<1>1. ASSUME NEW c \in Callers, CallerStep(c) \/ \E o \in Oids : Enqueue(c, o) PROVE Counted'
  <2>1. CASE (\E o \in Oids : Enqueue(c, o)) \/ Mark(c) \/ LockSender(c) \/ Unmark(c)
    <3>1. queued' = queued /\ queue' = queue /\ shutdown' = shutdown /\ wpc' = wpc
      BY <2>1 DEF Enqueue, Mark, LockSender, Unmark, workers
    <3>2. Uncounted' = Uncounted
      BY <2>1 DEF Enqueue, Mark, LockSender, Unmark, CallerReturns, CallerGoto, TypeOK, Uncounted
    <3>3. Dequeued' = Dequeued
      BY <3>1 DEF Dequeued
    <3> QED BY <3>1, <3>2, <3>3, CountStays
  <2> QED BY <1>1, <2>1, SendCounts, CountCounts DEF CallerStep
<1>2. ASSUME NEW w \in Workers, WorkerStep(w) \/ Converted(w) PROVE Counted'
  <2>1. CASE Converted(w) \/ Release(w) \/ CancelConversion(w) \/ Exit(w) \/ Abort(w)
    <3>1. queued' = queued /\ queue' = queue /\ shutdown' = shutdown /\ cpc' = cpc
      BY <2>1 DEF Converted, Release, CancelConversion, Exit, Abort, callers
    <3>2. Dequeued' = Dequeued
      BY <2>1 DEF Converted, Release, CancelConversion, Exit, Abort, TypeOK, Dequeued
    <3>3. Uncounted' = Uncounted
      BY <3>1 DEF Uncounted
    <3> QED BY <3>1, <3>2, <3>3, CountStays
  <2> QED BY <1>2, <2>1, TakeCounts, UncountCounts DEF WorkerStep
<1>3. CASE Close \/ ShutdownStep
  <2>1. CASE Close \/ TakeSender \/ Cancel
    <3>1. queued' = queued /\ queue' = queue /\ Uncounted' = Uncounted /\ Dequeued' = Dequeued
          /\ shutdown \in {"no", "closing", "taken", "cancelled"}
      BY <2>1 DEF Close, TakeSender, Cancel, callers, workers, Uncounted, Dequeued
    <3> QED BY <3>1, CountStays
  <2>2. CASE SwapQueued \/ Deadline \/ Clear
    BY <2>2 DEF SwapQueued, Deadline, Clear, Counted
  <2> QED BY <1>3, <2>1, <2>2 DEF ShutdownStep
<1>4. CASE UNCHANGED vars
  <2>1. queued' = queued /\ queue' = queue /\ Uncounted' = Uncounted /\ Dequeued' = Dequeued
        /\ shutdown' = shutdown
    BY <1>4 DEF vars, Uncounted, Dequeued
  <2> QED BY <2>1, CountStays
<1> QED BY <1>1, <1>2, <1>3, <1>4 DEF Next

-----------------------------------------------------------------------------
\* The invariant holds throughout.
THEOREM Invariance == Spec => []IInv
<1>1. IInv /\ [Next]_vars => IInv'
  <2> SUFFICES ASSUME IInv, [Next]_vars PROVE TypeOK'
    BY MarksNext, OverNext, CountedNext DEF IInv
  <2>1. TypeOK
    BY DEF IInv
  <2>2. CASE UNCHANGED vars
    BY <2>1, <2>2 DEF vars, TypeOK
  <2> QED BY <2>1, <2>2, CallerType, WorkerType, ShutdownType DEF Next
<1> QED BY <1>1, InitInv, PTL DEF Spec

\* Marks, queue, counter and workers agree at every step of try_enqueue, of the
\* worker loop and of shutdown, for any number of threads and any capacity.
THEOREM QueueIsSound == Spec => []QueueSound
<1>1. IInv => QueueSound
  BY CountedIsEnough, OwnersCounted, DistinctIsEnough DEF IInv, QueueSound
<1> QED BY <1>1, Invariance, PTL

\* When shutdown has returned nobody converts, and the marks that are left
\* belong to callers still inside try_enqueue.
THEOREM ShutdownHasCleared == Spec => []ShutdownClears
<1>1. IInv => ShutdownClears
  BY DEF IInv, Over, ShutdownClears, Active, Marking
<1> QED BY <1>1, Invariance, PTL

-----------------------------------------------------------------------------
(* The ledger of temporary space: TempQuota. *)

\* What the parameters are.
LEMMA LedgerNumbers ==
         /\ IsFiniteSet(Writers) /\ Cardinality(Writers) \in Nat
         /\ Quota \in Nat /\ Disk \in Nat /\ MaxResidue \in Nat /\ LedgerWord \in Nat
         /\ Cardinality(Writers) * Quota \in Nat
         /\ LedgerWord > 2 * MaxResidue + Cardinality(Writers) * Quota
         /\ LedgerWord > Quota
         /\ ChunkSizes \subseteq Nat /\ \A n \in Residues : n \in Nat /\ n <= MaxResidue
<1>1. /\ IsFiniteSet(Writers) /\ Quota \in Nat /\ Disk \in Nat /\ MaxResidue \in Nat
      /\ LedgerWord \in Nat
      /\ LedgerWord > 2 * MaxResidue + (2 * Cardinality(Writers) + 1) * Quota
      /\ ChunkSizes \subseteq Nat /\ \A n \in Residues : n \in Nat /\ n <= MaxResidue
  BY QuotaAssumption
<1>2. Cardinality(Writers) \in Nat
  BY <1>1, FS_CardinalityType
<1>3. ASSUME NEW k \in Nat, NEW q \in Nat
      PROVE  k * q \in Nat /\ (2 * k + 1) * q = k * q + k * q + q
  OBVIOUS
<1> QED
  BY <1>1, <1>2, <1>3

\* Two sets that have nothing in common.
LEMMA DisjointUnion ==
  ASSUME NEW S, IsFiniteSet(S), NEW T, IsFiniteSet(T), S \cap T = {}
  PROVE  Cardinality(S \cup T) = Cardinality(S) + Cardinality(T)
<1>1. Cardinality(S \cup T) = Cardinality(S) + Cardinality(T) - Cardinality(S \cap T)
  BY FS_Union
<1>2. Cardinality(S \cap T) = 0
  BY FS_EmptySet
<1>3. Cardinality(S) \in Nat /\ Cardinality(T) \in Nat
  BY FS_CardinalityType
<1> QED
  BY <1>1, <1>2, <1>3

\* The bytes that one writer holds.
LEMMA OneColumn ==
  ASSUME NEW w, NEW n \in Nat
  PROVE  IsFiniteSet({w} \X (1..n)) /\ Cardinality({w} \X (1..n)) = n
<1>1. IsFiniteSet({w}) /\ Cardinality({w}) = 1
  BY FS_Singleton
<1>2. IsFiniteSet(1..n) /\ Cardinality(1..n) = n
  BY FS_Interval
<1>3. IsFiniteSet({w} \X (1..n)) /\ Cardinality({w} \X (1..n)) = 1 * n
  BY <1>1, <1>2, FS_Product, ZenonT(60)
<1> QED
  BY <1>3

\* The bytes of all writers are finitely many, and at most the quota for each.
LEMMA TotalBound ==
  ASSUME NEW f \in [Writers -> 0..Quota]
  PROVE  /\ IsFiniteSet(UNION {{w} \X (1..f[w]) : w \in Writers})
         /\ Total(f) \in Nat
         /\ Total(f) <= Cardinality(Writers) * Quota
<1> DEFINE U == UNION {{w} \X (1..f[w]) : w \in Writers}
<1>1. U \subseteq Writers \X (1..Quota)
  BY LedgerNumbers
<1>2. /\ IsFiniteSet(Writers \X (1..Quota))
      /\ Cardinality(Writers \X (1..Quota)) = Cardinality(Writers) * Quota
  <2>1. IsFiniteSet(1..Quota) /\ Cardinality(1..Quota) = Quota
    BY LedgerNumbers, FS_Interval
  <2> QED
    BY <2>1, LedgerNumbers, FS_Product
<1>3. IsFiniteSet(U) /\ Cardinality(U) <= Cardinality(Writers) * Quota
  BY <1>1, <1>2, FS_Subset
<1> QED
  BY <1>3, FS_CardinalityType DEF Total

\* When one writer changes what it holds, the total changes by as much.
LEMMA TotalChange ==
  ASSUME NEW f \in [Writers -> 0..Quota], NEW g \in [Writers -> 0..Quota],
         NEW w \in Writers, \A v \in Writers \ {w} : g[v] = f[v]
  PROVE  /\ Total(f) >= f[w]
         /\ Total(g) = Total(f) - f[w] + g[w]
<1> DEFINE U(h) == UNION {{v} \X (1..h[v]) : v \in Writers}
           Others(h) == UNION {{v} \X (1..h[v]) : v \in Writers \ {w}}
<1>1. ASSUME NEW h \in [Writers -> 0..Quota]
      PROVE  /\ Cardinality(Others(h)) \in Nat
             /\ Total(h) = Cardinality(Others(h)) + h[w]
  <2>1. U(h) = Others(h) \cup ({w} \X (1..h[w]))
    OBVIOUS
  <2>2. Others(h) \cap ({w} \X (1..h[w])) = {}
    OBVIOUS
  <2>3. IsFiniteSet(Others(h))
    <3>1. IsFiniteSet(U(h)) /\ Others(h) \in SUBSET U(h)
      BY TotalBound
    <3> QED
      BY <3>1, FS_Subset
  <2>4. h[w] \in Nat
    BY LedgerNumbers
  <2>5. IsFiniteSet({w} \X (1..h[w])) /\ Cardinality({w} \X (1..h[w])) = h[w]
    BY <2>4, OneColumn
  <2>6. Total(h) = Cardinality(U(h))
    BY DEF Total
  <2> HIDE DEF U, Others
  <2>7. Cardinality(U(h)) = Cardinality(Others(h)) + h[w]
    BY <2>1, <2>2, <2>3, <2>5, DisjointUnion
  <2> QED
    BY <2>3, <2>6, <2>7, FS_CardinalityType
<1>2. Others(f) = Others(g)
  <2>1. \A v \in Writers \ {w} : {v} \X (1..f[v]) = {v} \X (1..g[v])
    OBVIOUS
  <2>2. Others(f) \subseteq Others(g)
    BY <2>1
  <2>3. Others(g) \subseteq Others(f)
    BY <2>1
  <2> QED
    BY <2>2, <2>3
<1>3. f[w] \in Nat /\ g[w] \in Nat
  BY LedgerNumbers
<1> HIDE DEF U, Others
<1> QED
  BY <1>1, <1>2, <1>3

\* One writer holds no more than all of them.
LEMMA TotalAtLeast ==
  ASSUME NEW f \in [Writers -> 0..Quota], NEW w \in Writers
  PROVE  f[w] <= Total(f)
<1>1. Total(f) >= f[w]
  BY TotalChange
<1> QED
  BY <1>1, TotalBound, LedgerNumbers

\* The arithmetic of the counters, where nothing wraps.
LEMMA Remainders ==
  ASSUME NEW word \in Nat, NEW k \in Nat, k < word
  PROVE  k % word = k /\ (k + word) % word = k
OBVIOUS

\* Adding to a counter, and subtracting from it.
LEMMA AddIs ==
  ASSUME NEW n \in Nat, NEW m \in Nat, n + m < LedgerWord
  PROVE  Add(n, m) = n + m
BY Remainders, LedgerNumbers, SMTT(30) DEF Add

LEMMA SubIs ==
  ASSUME NEW n \in Nat, NEW m \in Nat, m <= n, n < LedgerWord
  PROVE  Sub(n, m) = n - m
<1>1. n - m \in Nat /\ n - m < LedgerWord /\ n + LedgerWord - m = (n - m) + LedgerWord
  BY LedgerNumbers
<1> QED
  BY <1>1, Remainders, LedgerNumbers DEF Sub

\* What a writer holds at each step of reserve, write, commit and drop; a
\* charged_bytes that it has loaded contains its own bytes.
WriterSound(w) ==
  /\ res[w] + chg[w] <= Quota /\ bytes[w] <= Quota
  /\ pc[w] = "idle" => res[w] = 0 /\ chg[w] = 0
  /\ pc[w] \in {"open", "charged", "reserved", "cas"} => res[w] = 0 /\ bytes[w] = chg[w]
  /\ pc[w] \in {"reserved", "cas"} => chg[w] <= seenCharged[w]
  /\ pc[w] = "cas" => seenCharged[w] + seenReserved[w] + want[w] <= Quota
  /\ pc[w] = "write" => res[w] = want[w] /\ bytes[w] = chg[w]
  /\ pc[w] \in {"commit", "commitCharged"} => res[w] = want[w] /\ bytes[w] = chg[w] + want[w]

\* Every byte of the disk has its place, and a start has accounted for the
\* directories it has looked at.
DiskSound ==
  /\ DiskBalanced
  /\ boot = "first" => residue = 0
  /\ boot = "second" => residue <= MaxResidue

LedgerInv == QuotaTypeOK /\ LedgerBalanced /\ DiskSound /\ \A w \in Writers : WriterSound(w)

\* What follows at once: every number is within its bounds.
LEMMA LedgerFacts ==
  ASSUME LedgerInv
  PROVE  /\ InReserved \in [Writers -> 0..Quota]
         /\ chg \in [Writers -> 0..Quota] /\ bytes \in [Writers -> 0..Quota]
         /\ res \in [Writers -> 0..Quota]
         /\ want \in [Writers -> Nat]
         /\ charged \in Nat /\ reserved \in Nat /\ free \in Nat /\ residue \in Nat /\ left \in Nat
         /\ charged < LedgerWord /\ reserved < LedgerWord
         /\ \A w \in Writers : InReserved[w] <= reserved /\ chg[w] <= charged
<1>1. /\ res \in [Writers -> 0..Quota] /\ chg \in [Writers -> 0..Quota]
      /\ bytes \in [Writers -> 0..Quota] /\ want \in [Writers -> Nat]
  <2>1. /\ res \in [Writers -> Nat] /\ chg \in [Writers -> Nat] /\ bytes \in [Writers -> Nat]
        /\ want \in [Writers -> Nat]
    <3>1. ChunkSizes \cup {0} \subseteq Nat
      BY LedgerNumbers
    <3> QED
      BY <3>1 DEF LedgerInv, QuotaTypeOK
  <2>2. ASSUME NEW w \in Writers
        PROVE  res[w] <= Quota /\ chg[w] <= Quota /\ bytes[w] <= Quota
    BY <2>1, LedgerNumbers DEF LedgerInv, WriterSound
  <2> QED
    BY <2>1, <2>2, LedgerNumbers
<1>2. ASSUME NEW w \in Writers
      PROVE  InReserved[w] \in 0..Quota
  BY <1>1, LedgerNumbers DEF LedgerInv, InReserved, WriterSound
<1>3. InReserved \in [Writers -> 0..Quota]
  BY <1>2 DEF InReserved
<1>4. /\ charged \in Nat /\ reserved \in Nat /\ free \in Nat /\ residue \in Nat /\ left \in Nat
      /\ charged < LedgerWord /\ reserved < LedgerWord
  BY LedgerNumbers DEF LedgerInv, QuotaTypeOK
<1>5. ASSUME NEW w \in Writers
      PROVE  InReserved[w] <= reserved /\ chg[w] <= charged
  <2>1. InReserved[w] <= Total(InReserved) /\ chg[w] <= Total(chg)
    BY <1>1, <1>3, TotalAtLeast
  <2>2. InReserved[w] \in Nat /\ chg[w] \in Nat /\ Total(chg) \in Nat
    <3>1. Total(chg) \in Nat
      BY <1>1, TotalBound
    <3> QED
      BY <1>1, <1>3, <3>1, LedgerNumbers
  <2> QED
    BY <1>4, <2>1, <2>2 DEF LedgerInv, LedgerBalanced, InCharged
<1> QED
  BY <1>1, <1>3, <1>4, <1>5

\* One writer takes a step: the counters follow what it holds, and its file, the
\* free space and the abandoned downloads exchange bytes.
LEMMA WriterMoves ==
  ASSUME LedgerInv, NEW w \in Writers,
         pc' \in [Writers -> Pcs], kind' \in [Writers -> {"upload", "conversion"}],
         want' \in [Writers -> ChunkSizes \cup {0}],
         seenCharged' \in [Writers -> 0..(LedgerWord - 1)],
         seenReserved' \in [Writers -> 0..(LedgerWord - 1)],
         res' \in [Writers -> Nat], chg' \in [Writers -> Nat], bytes' \in [Writers -> Nat],
         \A v \in Writers \ {w} :
           /\ pc'[v] = pc[v] /\ want'[v] = want[v] /\ res'[v] = res[v] /\ chg'[v] = chg[v]
           /\ bytes'[v] = bytes[v] /\ seenCharged'[v] = seenCharged[v]
           /\ seenReserved'[v] = seenReserved[v],
         WriterSound(w)',
         reserved' = reserved - InReserved[w] + InReserved'[w],
         charged' = charged - chg[w] + chg'[w],
         free' \in Nat, left' \in Nat, free' + bytes'[w] + left' = free + bytes[w] + left,
         UNCHANGED <<boot, residue>>
  PROVE  LedgerInv'
<1>1. ASSUME NEW v \in Writers
      PROVE  WriterSound(v)'
  <2>1. CASE v = w
    BY <2>1
  <2>2. CASE v # w
    <3>1. WriterSound(v)
      BY DEF LedgerInv
    <3> QED
      BY <2>2, <3>1 DEF WriterSound
  <2> QED
    BY <2>1, <2>2
<1>2. /\ InReserved \in [Writers -> 0..Quota] /\ chg \in [Writers -> 0..Quota]
      /\ bytes \in [Writers -> 0..Quota]
  BY LedgerFacts
<1>3. /\ chg' \in [Writers -> 0..Quota] /\ bytes' \in [Writers -> 0..Quota]
      /\ res' \in [Writers -> 0..Quota]
  <2>1. ASSUME NEW v \in Writers
        PROVE  res'[v] <= Quota /\ chg'[v] <= Quota /\ bytes'[v] <= Quota
    BY <1>1, LedgerNumbers DEF WriterSound
  <2> QED
    BY <2>1, LedgerNumbers
<1>4. InReserved' \in [Writers -> 0..Quota]
  <2>1. ASSUME NEW v \in Writers
        PROVE  InReserved'[v] \in 0..Quota
    BY <1>1, <1>3, LedgerNumbers DEF InReserved, WriterSound
  <2> QED
    BY <2>1 DEF InReserved
<1>5. \A v \in Writers \ {w} : InReserved'[v] = InReserved[v]
  BY DEF InReserved
<1>6. Total(InReserved)' = Total(InReserved) - InReserved[w] + InReserved'[w]
  <2>1. Total(InReserved') = Total(InReserved) - InReserved[w] + InReserved'[w]
    BY <1>2, <1>4, <1>5, TotalChange
  <2> QED
    BY <2>1 DEF Total
<1>7. /\ Total(chg)' = Total(chg) - chg[w] + chg'[w]
      /\ Total(bytes)' = Total(bytes) - bytes[w] + bytes'[w]
  <2>1. Total(chg') = Total(chg) - chg[w] + chg'[w]
    BY <1>2, <1>3, TotalChange
  <2>2. Total(bytes') = Total(bytes) - bytes[w] + bytes'[w]
    BY <1>2, <1>3, TotalChange
  <2> QED
    BY <2>1, <2>2 DEF Total
<1>8. /\ Total(InReserved)' \in Nat /\ Total(InReserved)' <= Cardinality(Writers) * Quota
      /\ Total(chg)' \in Nat /\ Total(chg)' <= Cardinality(Writers) * Quota
      /\ Total(bytes)' \in Nat
  <2>1. /\ Total(InReserved') \in Nat /\ Total(InReserved') <= Cardinality(Writers) * Quota
        /\ Total(chg') \in Nat /\ Total(chg') <= Cardinality(Writers) * Quota
        /\ Total(bytes') \in Nat
    BY <1>3, <1>4, TotalBound
  <2> QED
    BY <2>1 DEF Total
<1>9. /\ InReserved[w] \in Nat /\ InReserved'[w] \in Nat /\ chg[w] \in Nat /\ chg'[w] \in Nat
      /\ bytes[w] \in Nat /\ bytes'[w] \in Nat
      /\ Total(chg) \in Nat /\ Total(bytes) \in Nat /\ Total(InReserved) \in Nat
  <2>1. Total(chg) \in Nat /\ Total(bytes) \in Nat /\ Total(InReserved) \in Nat
    BY <1>2, TotalBound
  <2> QED
    BY <1>2, <1>3, <1>4, <2>1, LedgerNumbers
<1>10. LedgerBalanced'
  <2>1. reserved = Total(InReserved) /\ charged = residue + Total(chg) /\ residue \in Nat
    BY LedgerFacts DEF LedgerInv, LedgerBalanced, InCharged
  <2> QED
    BY <1>6, <1>7, <1>9, <2>1 DEF LedgerBalanced, InCharged
<1>11. DiskSound' /\ free' <= Disk
  <2>1. /\ free + Total(bytes) + left = Disk /\ free \in Nat /\ left \in Nat /\ Disk \in Nat
    BY LedgerFacts, LedgerNumbers DEF LedgerInv, DiskSound, DiskBalanced
  <2>2. free' + Total(bytes)' + left' = Disk /\ free' <= Disk
    BY <1>7, <1>8, <1>9, <2>1
  <2> QED
    BY <2>2 DEF LedgerInv, DiskSound, DiskBalanced
<1>12. charged' \in 0..(LedgerWord - 1) /\ reserved' \in 0..(LedgerWord - 1)
  <2>1. reserved' = Total(InReserved)' /\ charged' = residue + Total(chg)'
    BY <1>10 DEF LedgerBalanced, InCharged
  <2>2. residue \in Nat /\ residue <= 2 * MaxResidue
    BY LedgerNumbers DEF LedgerInv, QuotaTypeOK
  <2> QED
    BY <1>8, <2>1, <2>2, LedgerNumbers
<1>13. QuotaTypeOK'
  BY <1>11, <1>12, LedgerNumbers DEF LedgerInv, QuotaTypeOK
<1> QED
  BY <1>1, <1>10, <1>11, <1>13 DEF LedgerInv

\* The initial state: nobody holds anything.
LEMMA LedgerInit == QuotaInit => LedgerInv
<1> SUFFICES ASSUME QuotaInit PROVE LedgerInv
  OBVIOUS
<1>1. Zero \in [Writers -> 0..Quota] /\ \A w \in Writers : Zero[w] = 0
  BY LedgerNumbers DEF Zero
<1>2. Total(Zero) = 0
  <2>1. UNION {{w} \X (1..Zero[w]) : w \in Writers} = {}
    BY <1>1
  <2> QED
    BY <2>1, FS_EmptySet DEF Total
<1>3. InReserved = Zero
  BY DEF QuotaInit, InReserved, Zero
<1>4. LedgerBalanced
  BY <1>2, <1>3 DEF QuotaInit, LedgerBalanced, InCharged
<1>5. DiskSound
  BY <1>2, LedgerNumbers DEF QuotaInit, DiskSound, DiskBalanced
<1>6. QuotaTypeOK
  BY LedgerNumbers DEF QuotaInit, QuotaTypeOK, Zero, Pcs
<1>7. \A w \in Writers : WriterSound(w)
  BY LedgerNumbers DEF QuotaInit, WriterSound, Zero
<1> QED
  BY <1>4, <1>5, <1>6, <1>7 DEF LedgerInv

\* account_existing.
LEMMA AccountKeeps ==
  ASSUME LedgerInv, NEW n \in Residues, AccountExisting(n)
  PROVE  LedgerInv'
<1>1. n \in Nat /\ n <= MaxResidue
  BY LedgerNumbers
<1>2. UNCHANGED <<reserved, free, pc, kind, want, seenCharged, seenReserved, res, chg, bytes, left>>
  BY DEF AccountExisting, mine
<1>3. \A w \in Writers : WriterSound(w)'
  BY <1>2 DEF LedgerInv, WriterSound
<1>4. /\ Total(InReserved)' = Total(InReserved) /\ Total(chg)' = Total(chg)
      /\ Total(bytes)' = Total(bytes)
  BY <1>2 DEF Total, InReserved
<1>5. CASE UNCHANGED <<charged, residue>> /\ boot' = "failed"
  BY <1>2, <1>3, <1>4, <1>5
  DEF LedgerInv, QuotaTypeOK, LedgerBalanced, DiskSound, DiskBalanced, InCharged
<1>6. CASE /\ charged' = Add(charged, n) /\ residue' = residue + n
           /\ boot' = IF boot = "first" THEN "second" ELSE "serving"
  <2>1. /\ Total(chg) \in Nat /\ Total(chg) <= Cardinality(Writers) * Quota
        /\ charged = residue + Total(chg) /\ residue \in Nat /\ charged \in Nat
    <3>1. Total(chg) \in Nat /\ Total(chg) <= Cardinality(Writers) * Quota
      BY LedgerFacts, TotalBound
    <3> QED
      BY <3>1, LedgerFacts DEF LedgerInv, LedgerBalanced, InCharged
  <2>2. boot \in {"first", "second"} /\ (boot = "first" => residue = 0)
        /\ (boot = "second" => residue <= MaxResidue)
    BY DEF AccountExisting, LedgerInv, DiskSound
  <2>3. residue + n <= 2 * MaxResidue /\ (boot = "first" => residue + n <= MaxResidue)
    BY <1>1, <2>1, <2>2, LedgerNumbers
  <2>4. charged + n < LedgerWord
    BY <1>1, <2>1, <2>3, LedgerNumbers
  <2>5. charged' = charged + n
    BY <1>1, <1>6, <2>1, <2>4, AddIs
  <2>6. LedgerBalanced'
    BY <1>1, <1>2, <1>4, <1>6, <2>1, <2>5 DEF LedgerInv, LedgerBalanced, InCharged
  <2>7. DiskSound'
    BY <1>2, <1>4, <1>6, <2>2, <2>3 DEF LedgerInv, DiskSound, DiskBalanced
  <2>8. charged' \in 0..(LedgerWord - 1) /\ residue' \in 0..(2 * MaxResidue)
    BY <1>1, <1>6, <2>1, <2>3, <2>4, <2>5, LedgerNumbers
  <2>9. QuotaTypeOK'
    BY <1>2, <1>6, <2>2, <2>8 DEF LedgerInv, QuotaTypeOK
  <2> QED
    BY <1>3, <2>6, <2>7, <2>9 DEF LedgerInv
<1> QED
  BY <1>5, <1>6 DEF AccountExisting

\* The steps that leave the ledger and the disk alone.
LEMMA QuietKeeps ==
  ASSUME LedgerInv, NEW w \in Writers,
         \/ OpenUpload(w) \/ LoadCharged(w) \/ LoadReserved(w) \/ CloseFile(w)
         \/ \E n \in ChunkSizes : OpenConversion(w, n) \/ WriteChunk(w, n)
  PROVE  LedgerInv'
<1>1. UNCHANGED <<boot, residue, charged, reserved, free, res, chg, bytes, left>>
  BY DEF OpenUpload, LoadCharged, LoadReserved, CloseFile, OpenConversion, WriteChunk, ledger, mine
<1>2. /\ pc' \in [Writers -> Pcs] /\ kind' \in [Writers -> {"upload", "conversion"}]
      /\ want' \in [Writers -> ChunkSizes \cup {0}]
      /\ seenCharged' \in [Writers -> 0..(LedgerWord - 1)]
      /\ seenReserved' \in [Writers -> 0..(LedgerWord - 1)]
  BY DEF LedgerInv, QuotaTypeOK, OpenUpload, LoadCharged, LoadReserved, CloseFile,
         OpenConversion, WriteChunk, Goto, Pcs
<1>3. \A v \in Writers \ {w} :
        /\ pc'[v] = pc[v] /\ want'[v] = want[v] /\ seenCharged'[v] = seenCharged[v]
        /\ seenReserved'[v] = seenReserved[v]
  BY DEF LedgerInv, QuotaTypeOK, OpenUpload, LoadCharged, LoadReserved, CloseFile,
         OpenConversion, WriteChunk, Goto
<1>4. /\ res \in [Writers -> Nat] /\ chg \in [Writers -> Nat] /\ bytes \in [Writers -> Nat]
      /\ free \in Nat /\ charged \in Nat /\ reserved \in Nat /\ left \in Nat
      /\ InReserved[w] \in Nat /\ chg[w] \in Nat /\ bytes[w] \in Nat /\ chg[w] <= charged
  BY LedgerFacts, LedgerNumbers DEF LedgerInv, QuotaTypeOK
<1>5. InReserved'[w] = InReserved[w]
  BY <1>1 DEF LedgerInv, QuotaTypeOK, InReserved, OpenUpload, LoadCharged, LoadReserved,
              CloseFile, OpenConversion, WriteChunk, Goto
<1>6. WriterSound(w)'
  <2>1. WriterSound(w)
    BY DEF LedgerInv
  <2>2. CASE OpenUpload(w)
    BY <1>1, <2>1, <2>2 DEF OpenUpload, WriterSound, Goto, LedgerInv, QuotaTypeOK
  <2>3. CASE LoadCharged(w)
    BY <1>1, <1>4, <2>1, <2>3 DEF LoadCharged, WriterSound, Goto, LedgerInv, QuotaTypeOK
  <2>4. CASE LoadReserved(w)
    BY <1>1, <1>4, <2>1, <2>4, LedgerFacts, LedgerNumbers
    DEF LoadReserved, WriterSound, Goto, LedgerInv, QuotaTypeOK
  <2>5. CASE CloseFile(w)
    BY <1>1, <2>1, <2>5 DEF CloseFile, WriterSound, Goto, LedgerInv, QuotaTypeOK
  <2>6. ASSUME NEW n \in ChunkSizes, OpenConversion(w, n) \/ WriteChunk(w, n)
        PROVE  WriterSound(w)'
    BY <1>1, <2>1, <2>6 DEF OpenConversion, WriteChunk, WriterSound, Goto, LedgerInv, QuotaTypeOK
  <2> QED
    BY <2>2, <2>3, <2>4, <2>5, <2>6
<1> QED
  BY <1>1, <1>2, <1>3, <1>4, <1>5, <1>6, WriterMoves

\* The word has room for every byte that is charged and one file more.
LEMMA LedgerRoom ==
  ASSUME NEW n \in Nat, n <= 2 * MaxResidue, NEW t \in Nat, t <= Cardinality(Writers) * Quota,
         NEW m \in Nat, m <= Quota
  PROVE  n + t + m < LedgerWord
<1>1. /\ Quota \in Nat /\ MaxResidue \in Nat /\ LedgerWord \in Nat /\ Cardinality(Writers) \in Nat
      /\ LedgerWord > 2 * MaxResidue + (2 * Cardinality(Writers) + 1) * Quota
  BY QuotaAssumption, LedgerNumbers
<1>2. ASSUME NEW k \in Nat, NEW q \in Nat
      PROVE  k * q \in Nat /\ (2 * k + 1) * q = k * q + k * q + q
  OBVIOUS
<1> DEFINE p == Cardinality(Writers) * Quota
<1>3. p \in Nat /\ LedgerWord > 2 * MaxResidue + (p + p + Quota) /\ t <= p
  BY <1>1, <1>2
<1> HIDE DEF p
<1> QED
  BY <1>1, <1>3
\* The compare-exchange of reserve(): the file and what it asks for fit in the
\* quota, as the charged_bytes that was loaded contains the file's own bytes.
LEMMA CompareExchangeKeeps ==
  ASSUME LedgerInv, NEW w \in Writers, CompareExchange(w)
  PROVE  LedgerInv'
<1>1. UNCHANGED <<boot, residue, charged, free, kind, want, seenCharged, seenReserved, chg, bytes, left>>
  BY DEF CompareExchange
<1>2. /\ pc \in [Writers -> Pcs] /\ res \in [Writers -> Nat] /\ pc[w] = "cas"
      /\ seenCharged[w] \in Nat /\ seenReserved[w] \in Nat
      /\ seenCharged \in [Writers -> 0..(LedgerWord - 1)]
      /\ seenReserved \in [Writers -> 0..(LedgerWord - 1)]
      /\ kind \in [Writers -> {"upload", "conversion"}] /\ want \in [Writers -> ChunkSizes \cup {0}]
      /\ chg \in [Writers -> Nat] /\ bytes \in [Writers -> Nat]
  BY LedgerNumbers DEF LedgerInv, QuotaTypeOK, CompareExchange
<1>3. /\ want[w] \in Nat /\ chg[w] \in Nat /\ bytes[w] \in Nat /\ reserved \in Nat
      /\ charged \in Nat /\ free \in Nat /\ left \in Nat /\ chg[w] <= charged
  BY LedgerFacts, LedgerNumbers
<1>4. /\ res[w] = 0 /\ bytes[w] = chg[w] /\ chg[w] <= seenCharged[w]
      /\ seenCharged[w] + seenReserved[w] + want[w] <= Quota
  BY <1>2 DEF LedgerInv, WriterSound
<1>5. InReserved[w] = 0
  BY <1>2, <1>4 DEF InReserved
<1>6. CASE /\ reserved = seenReserved[w] /\ reserved' = Add(reserved, want[w])
           /\ res' = [res EXCEPT ![w] = @ + want[w]] /\ Goto(w, "write")
  <2>1. pc' = [pc EXCEPT ![w] = "write"]
    BY <1>6 DEF Goto
  <2>2. pc' \in [Writers -> Pcs] /\ pc'[w] = "write"
    BY <1>2, <2>1 DEF Pcs
  <2>3. res' \in [Writers -> Nat] /\ res'[w] = want[w]
    BY <1>2, <1>3, <1>4, <1>6
  <2>4. InReserved'[w] = want[w]
    BY <2>2, <2>3 DEF InReserved
  <2>5. reserved' = reserved + want[w]
    <3>1. reserved + want[w] < LedgerWord
      BY <1>2, <1>3, <1>4, <1>6, LedgerNumbers
    <3> QED
      BY <1>3, <1>6, <3>1, AddIs
  <2>6. WriterSound(w)'
    <3>1. want[w] + chg[w] <= Quota /\ chg[w] <= Quota
      BY <1>2, <1>3, <1>4, LedgerNumbers
    <3> QED
      BY <1>1, <1>4, <2>2, <2>3, <3>1 DEF WriterSound
  <2>7. \A v \in Writers \ {w} : pc'[v] = pc[v] /\ res'[v] = res[v]
    BY <1>2, <1>6, <2>1
  <2> QED
    BY <1>1, <1>2, <1>3, <1>5, <2>2, <2>3, <2>4, <2>5, <2>6, <2>7, WriterMoves
<1>7. CASE Goto(w, "charged") /\ UNCHANGED <<reserved, res>>
  <2>1. pc' = [pc EXCEPT ![w] = "charged"]
    BY <1>7 DEF Goto
  <2>2. pc' \in [Writers -> Pcs] /\ pc'[w] = "charged"
    BY <1>2, <2>1 DEF Pcs
  <2>3. InReserved'[w] = 0
    BY <1>4, <1>7, <2>2 DEF InReserved
  <2>4. WriterSound(w)'
    <3>1. WriterSound(w)
      BY DEF LedgerInv
    <3> QED
      BY <1>1, <1>4, <1>7, <2>2, <3>1 DEF WriterSound
  <2>5. \A v \in Writers \ {w} : pc'[v] = pc[v]
    BY <1>2, <2>1
  <2> QED
    BY <1>1, <1>2, <1>3, <1>5, <1>7, <2>2, <2>3, <2>4, <2>5, WriterMoves
<1> QED
  BY <1>6, <1>7 DEF CompareExchange

\* What the remaining actions need to know of the writer that takes them.
LEMMA OwnNumbers ==
  ASSUME LedgerInv, NEW w \in Writers
  PROVE  /\ pc \in [Writers -> Pcs] /\ kind \in [Writers -> {"upload", "conversion"}]
         /\ want \in [Writers -> ChunkSizes \cup {0}]
         /\ res \in [Writers -> Nat] /\ chg \in [Writers -> Nat] /\ bytes \in [Writers -> Nat]
         /\ seenCharged \in [Writers -> 0..(LedgerWord - 1)]
         /\ seenReserved \in [Writers -> 0..(LedgerWord - 1)]
         /\ want[w] \in Nat /\ res[w] \in Nat /\ chg[w] \in Nat /\ bytes[w] \in Nat
         /\ charged \in Nat /\ reserved \in Nat /\ free \in Nat /\ left \in Nat
         /\ charged < LedgerWord /\ reserved < LedgerWord
         /\ InReserved[w] \in Nat /\ InReserved[w] <= reserved /\ chg[w] <= charged
         /\ WriterSound(w) /\ 0 \in ChunkSizes \cup {0}
<1>1. WriterSound(w)
  BY DEF LedgerInv
<1>2. /\ pc \in [Writers -> Pcs] /\ kind \in [Writers -> {"upload", "conversion"}]
      /\ want \in [Writers -> ChunkSizes \cup {0}]
      /\ res \in [Writers -> Nat] /\ chg \in [Writers -> Nat] /\ bytes \in [Writers -> Nat]
      /\ seenCharged \in [Writers -> 0..(LedgerWord - 1)]
      /\ seenReserved \in [Writers -> 0..(LedgerWord - 1)]
  BY DEF LedgerInv, QuotaTypeOK
<1> QED
  BY <1>1, <1>2, LedgerFacts, LedgerNumbers

\* A chunk goes to the disk.
LEMMA WriteKeeps ==
  ASSUME LedgerInv, NEW w \in Writers, Write(w)
  PROVE  LedgerInv'
<1>1. /\ UNCHANGED <<boot, residue, charged, reserved, kind, want, seenCharged, seenReserved, res, chg, left>>
      /\ pc[w] = "write" /\ free >= want[w] /\ free' = free - want[w]
      /\ bytes' = [bytes EXCEPT ![w] = @ + want[w]] /\ pc' = [pc EXCEPT ![w] = "commit"]
  BY DEF Write, ledger, mine, Goto
<1>2. /\ pc' \in [Writers -> Pcs] /\ pc'[w] = "commit" /\ bytes' \in [Writers -> Nat]
      /\ bytes'[w] = bytes[w] + want[w] /\ free' \in Nat
  BY <1>1, OwnNumbers DEF Pcs
<1>3. InReserved'[w] = InReserved[w]
  BY <1>1, <1>2 DEF InReserved
<1>4. WriterSound(w)'
  BY <1>1, <1>2, OwnNumbers DEF WriterSound
<1>5. \A v \in Writers \ {w} : pc'[v] = pc[v] /\ bytes'[v] = bytes[v]
  BY <1>1, OwnNumbers
<1>6. /\ charged' = charged - chg[w] + chg'[w] /\ reserved' = reserved - InReserved[w] + InReserved'[w]
      /\ left' \in Nat /\ free' + bytes'[w] + left' = free + bytes[w] + left
  BY <1>1, <1>2, <1>3, OwnNumbers
<1> QED
  BY <1>1, <1>2, <1>4, <1>5, <1>6, OwnNumbers, WriterMoves

\* TempQuotaLedger::commit, the counter of reserved bytes.
LEMMA CommitReservedKeeps ==
  ASSUME LedgerInv, NEW w \in Writers, CommitReserved(w)
  PROVE  LedgerInv'
<1>1. /\ UNCHANGED <<boot, residue, charged, free, kind, want, seenCharged, seenReserved, res, chg, bytes, left>>
      /\ pc[w] = "commit" /\ reserved' = Sub(reserved, want[w])
      /\ pc' = [pc EXCEPT ![w] = "commitCharged"]
  BY DEF CommitReserved, mine, Goto
<1>2. pc' \in [Writers -> Pcs] /\ pc'[w] = "commitCharged"
  BY <1>1, OwnNumbers DEF Pcs
<1>3. res[w] = want[w] /\ InReserved[w] = want[w] /\ InReserved'[w] = 0
  BY <1>1, <1>2, OwnNumbers DEF InReserved, WriterSound
<1>4. reserved' = reserved - want[w]
  BY <1>1, <1>3, OwnNumbers, SubIs
<1>5. WriterSound(w)'
  BY <1>1, <1>2, OwnNumbers DEF WriterSound
<1>6. \A v \in Writers \ {w} : pc'[v] = pc[v]
  BY <1>1, OwnNumbers
<1>7. /\ charged' = charged - chg[w] + chg'[w] /\ reserved' = reserved - InReserved[w] + InReserved'[w]
      /\ free' \in Nat /\ left' \in Nat
      /\ free' + bytes'[w] + left' = free + bytes[w] + left
  BY <1>1, <1>3, <1>4, OwnNumbers
<1> QED
  BY <1>1, <1>2, <1>5, <1>6, <1>7, OwnNumbers, WriterMoves

\* TempQuotaLedger::commit, the counter of charged bytes.
LEMMA CommitChargedKeeps ==
  ASSUME LedgerInv, NEW w \in Writers, CommitCharged(w)
  PROVE  LedgerInv'
<1>1. /\ UNCHANGED <<boot, residue, reserved, free, kind, seenCharged, seenReserved, bytes, left>>
      /\ pc[w] = "commitCharged" /\ charged' = Add(charged, want[w])
      /\ res' = [res EXCEPT ![w] = @ - want[w]] /\ chg' = [chg EXCEPT ![w] = @ + want[w]]
      /\ want' = [want EXCEPT ![w] = 0] /\ pc' = [pc EXCEPT ![w] = "open"]
  BY DEF CommitCharged, Goto
<1>2. res[w] = want[w] /\ bytes[w] = chg[w] + want[w] /\ chg[w] + want[w] <= Quota
  BY <1>1, OwnNumbers DEF WriterSound
<1>3. /\ pc' \in [Writers -> Pcs] /\ pc'[w] = "open" /\ res' \in [Writers -> Nat] /\ res'[w] = 0
      /\ chg' \in [Writers -> Nat] /\ chg'[w] = chg[w] + want[w]
      /\ want' \in [Writers -> ChunkSizes \cup {0}]
  BY <1>1, <1>2, OwnNumbers DEF Pcs
<1>4. InReserved[w] = 0 /\ InReserved'[w] = 0
  BY <1>1, <1>2, <1>3, OwnNumbers DEF InReserved
<1>5. charged' = charged + want[w]
  <2>1. charged + want[w] < LedgerWord
    <3>1. /\ charged = residue + Total(chg) /\ Total(chg) \in Nat
          /\ Total(chg) <= Cardinality(Writers) * Quota
          /\ residue \in Nat /\ residue <= 2 * MaxResidue
      <4>1. Total(chg) \in Nat /\ Total(chg) <= Cardinality(Writers) * Quota
        BY LedgerFacts, TotalBound
      <4> QED
        BY <4>1, LedgerNumbers DEF LedgerInv, LedgerBalanced, QuotaTypeOK, InCharged
    <3>2. want[w] \in Nat /\ want[w] <= Quota
      BY <1>2, OwnNumbers, LedgerNumbers
    <3> QED
      BY <3>1, <3>2, LedgerRoom
  <2> QED
    BY <1>1, <2>1, OwnNumbers, AddIs
<1>6. WriterSound(w)'
  BY <1>1, <1>2, <1>3, OwnNumbers DEF WriterSound
<1>7. \A v \in Writers \ {w} :
        pc'[v] = pc[v] /\ res'[v] = res[v] /\ chg'[v] = chg[v] /\ want'[v] = want[v]
  BY <1>1, OwnNumbers
<1>8. /\ charged' = charged - chg[w] + chg'[w] /\ reserved' = reserved - InReserved[w] + InReserved'[w]
      /\ free' \in Nat /\ left' \in Nat
      /\ free' + bytes'[w] + left' = free + bytes[w] + left
  BY <1>1, <1>3, <1>4, <1>5, OwnNumbers
<1> QED
  BY <1>1, <1>3, <1>6, <1>7, <1>8, OwnNumbers, WriterMoves

\* The download is given up without a PathGuard: what is on disk is left behind.
LEMMA AbandonKeeps ==
  ASSUME LedgerInv, NEW w \in Writers, AbandonDownload(w)
  PROVE  LedgerInv'
<1>1. /\ UNCHANGED <<boot, residue, charged, reserved, kind, want, seenCharged, seenReserved, res, chg>>
      /\ pc[w] \in {"commit", "write"} /\ pc' = [pc EXCEPT ![w] = "drop"]
  BY DEF AbandonDownload, ledger, mine, Goto
<1>2. pc' \in [Writers -> Pcs] /\ pc'[w] = "drop"
  BY <1>1, OwnNumbers DEF Pcs
<1>3. InReserved'[w] = InReserved[w]
  BY <1>1, <1>2 DEF InReserved
<1>4. /\ bytes' \in [Writers -> Nat] /\ bytes'[w] <= bytes[w]
      /\ \A v \in Writers \ {w} : bytes'[v] = bytes[v]
      /\ free' \in Nat /\ left' \in Nat
      /\ free' + bytes'[w] + left' = free + bytes[w] + left
  <2>1. CASE bytes' = [bytes EXCEPT ![w] = 0] /\ left' = left + bytes[w] /\ free' = free
    BY <2>1, OwnNumbers
  <2>2. CASE /\ \E n \in (ChunkSizes \cup {0}) \ {want[w]} :
                  n <= free /\ free' = free - n /\ left' = left + n
             /\ bytes' = bytes
    BY <2>2, OwnNumbers, LedgerNumbers
  <2> QED
    BY <2>1, <2>2 DEF AbandonDownload
<1>5. WriterSound(w)'
  <2>1. bytes'[w] <= Quota
    <3>1. bytes[w] <= Quota
      BY OwnNumbers DEF WriterSound
    <3> QED
      BY <1>4, <3>1, OwnNumbers, LedgerNumbers
  <2> QED
    BY <1>1, <1>2, <2>1, OwnNumbers DEF WriterSound
<1>6. \A v \in Writers \ {w} : pc'[v] = pc[v]
  BY <1>1, OwnNumbers
<1>7. charged' = charged - chg[w] + chg'[w] /\ reserved' = reserved - InReserved[w] + InReserved'[w]
  BY <1>1, <1>3, OwnNumbers
<1> QED
  BY <1>1, <1>2, <1>4, <1>5, <1>6, <1>7, OwnNumbers, WriterMoves

\* Drop for TempReservation, the counter of reserved bytes.
LEMMA DropReservedKeeps ==
  ASSUME LedgerInv, NEW w \in Writers, DropReserved(w)
  PROVE  LedgerInv'
<1>1. /\ UNCHANGED <<boot, residue, charged, free, kind, want, seenCharged, seenReserved, res, chg, bytes, left>>
      /\ pc[w] = "drop" /\ reserved' = Sub(reserved, res[w])
      /\ pc' = [pc EXCEPT ![w] = "dropCharged"]
  BY DEF DropReserved, mine, Goto
<1>2. pc' \in [Writers -> Pcs] /\ pc'[w] = "dropCharged"
  BY <1>1, OwnNumbers DEF Pcs
<1>3. InReserved[w] = res[w] /\ InReserved'[w] = 0
  BY <1>1, <1>2 DEF InReserved
<1>4. reserved' = reserved - res[w]
  BY <1>1, <1>3, OwnNumbers, SubIs
<1>5. WriterSound(w)'
  BY <1>1, <1>2, OwnNumbers DEF WriterSound
<1>6. \A v \in Writers \ {w} : pc'[v] = pc[v]
  BY <1>1, OwnNumbers
<1>7. /\ charged' = charged - chg[w] + chg'[w] /\ reserved' = reserved - InReserved[w] + InReserved'[w]
      /\ free' \in Nat /\ left' \in Nat
      /\ free' + bytes'[w] + left' = free + bytes[w] + left
  BY <1>1, <1>3, <1>4, OwnNumbers
<1> QED
  BY <1>1, <1>2, <1>5, <1>6, <1>7, OwnNumbers, WriterMoves

\* Drop for TempReservation, the counter of charged bytes.
LEMMA DropChargedKeeps ==
  ASSUME LedgerInv, NEW w \in Writers, DropCharged(w)
  PROVE  LedgerInv'
<1>1. /\ UNCHANGED <<boot, residue, reserved, free, kind, seenCharged, seenReserved, bytes, left>>
      /\ pc[w] = "dropCharged" /\ charged' = Sub(charged, chg[w])
      /\ res' = [res EXCEPT ![w] = 0] /\ chg' = [chg EXCEPT ![w] = 0]
      /\ want' = [want EXCEPT ![w] = 0] /\ pc' = [pc EXCEPT ![w] = "idle"]
  BY DEF DropCharged, Goto
<1>2. /\ pc' \in [Writers -> Pcs] /\ pc'[w] = "idle" /\ res' \in [Writers -> Nat] /\ res'[w] = 0
      /\ chg' \in [Writers -> Nat] /\ chg'[w] = 0
      /\ want' \in [Writers -> ChunkSizes \cup {0}]
  BY <1>1, OwnNumbers DEF Pcs
<1>3. InReserved[w] = 0 /\ InReserved'[w] = 0
  BY <1>1, <1>2 DEF InReserved
<1>4. charged' = charged - chg[w]
  BY <1>1, OwnNumbers, SubIs
<1>5. WriterSound(w)'
  BY <1>1, <1>2, OwnNumbers, LedgerNumbers DEF WriterSound
<1>6. \A v \in Writers \ {w} :
        pc'[v] = pc[v] /\ res'[v] = res[v] /\ chg'[v] = chg[v] /\ want'[v] = want[v]
  BY <1>1, OwnNumbers
<1>7. /\ charged' = charged - chg[w] + chg'[w] /\ reserved' = reserved - InReserved[w] + InReserved'[w]
      /\ free' \in Nat /\ left' \in Nat
      /\ free' + bytes'[w] + left' = free + bytes[w] + left
  BY <1>1, <1>2, <1>3, <1>4, OwnNumbers
<1> QED
  BY <1>1, <1>2, <1>5, <1>6, <1>7, OwnNumbers, WriterMoves

\* The file is removed, before or after its reservation is dropped.
LEMMA RemoveKeeps ==
  ASSUME LedgerInv, NEW w \in Writers, RemoveFile(w)
  PROVE  LedgerInv'
<1>1. /\ UNCHANGED <<boot, residue, charged, reserved, pc, kind, want, seenCharged, seenReserved, res, chg, left>>
      /\ pc[w] \in {"drop", "dropCharged", "idle"} /\ free' = free + bytes[w]
      /\ bytes' = [bytes EXCEPT ![w] = 0]
  BY DEF RemoveFile, ledger, mine
<1>2. bytes' \in [Writers -> Nat] /\ bytes'[w] = 0
  BY <1>1, OwnNumbers
<1>3. InReserved'[w] = InReserved[w]
  BY <1>1 DEF InReserved
<1>4. WriterSound(w)'
  BY <1>1, <1>2, OwnNumbers, LedgerNumbers DEF WriterSound
<1>5. \A v \in Writers \ {w} : bytes'[v] = bytes[v]
  BY <1>1, OwnNumbers
<1>6. /\ charged' = charged - chg[w] + chg'[w] /\ reserved' = reserved - InReserved[w] + InReserved'[w]
      /\ free' \in Nat /\ left' \in Nat
      /\ free' + bytes'[w] + left' = free + bytes[w] + left
  BY <1>1, <1>2, <1>3, OwnNumbers
<1> QED
  BY <1>1, <1>2, <1>4, <1>5, <1>6, OwnNumbers, WriterMoves

\* Every step of the ledger keeps its invariant.
LEMMA LedgerNext == LedgerInv /\ [QuotaNext]_quotaVars => LedgerInv'
<1> SUFFICES ASSUME LedgerInv, [QuotaNext]_quotaVars PROVE LedgerInv'
  OBVIOUS
<1>1. CASE \E n \in Residues : AccountExisting(n)
  BY <1>1, AccountKeeps
<1>2. ASSUME NEW w \in Writers,
             \/ OpenUpload(w) \/ CloseFile(w) \/ AbandonDownload(w) \/ Step(w)
             \/ \E n \in ChunkSizes : OpenConversion(w, n) \/ WriteChunk(w, n)
      PROVE  LedgerInv'
  BY <1>2, QuietKeeps, CompareExchangeKeeps, WriteKeeps, CommitReservedKeeps,
     CommitChargedKeeps, AbandonKeeps, DropReservedKeeps, DropChargedKeeps, RemoveKeeps
  DEF Step
<1>3. CASE UNCHANGED quotaVars
  <2>1. /\ QuotaTypeOK' /\ \A w \in Writers : WriterSound(w)'
    BY <1>3 DEF quotaVars, LedgerInv, QuotaTypeOK, WriterSound
  <2>2. LedgerBalanced' /\ DiskSound'
    BY <1>3 DEF quotaVars, LedgerInv, LedgerBalanced, DiskSound, DiskBalanced, InReserved, InCharged, Total
  <2> QED
    BY <2>1, <2>2 DEF LedgerInv
<1> QED
  BY <1>1, <1>2, <1>3 DEF QuotaNext

\* The ledger leaks nothing, does not wrap, and keeps every temp file within the
\* quota, and only abandoned downloads stay on the disk: TempQuotaLedger,
\* TempReservation and PathGuard, whatever the number of writers and wherever an
\* error or a cancellation strikes.
THEOREM LedgerIsSound == QuotaSpec => []LedgerSound
<1>1. LedgerInv => LedgerSound
  BY DEF LedgerInv, LedgerSound, FileWithinQuota, WriterSound, DiskSound
<1> QED
  BY <1>1, LedgerInit, LedgerNext, PTL DEF QuotaSpec
=============================================================================
