------------------------ MODULE ConversionScheduler ------------------------
(***************************************************************************)
(* The bounded queue of lazy conversions.  Download handlers call          *)
(* try_enqueue from their own threads, `concurrency` worker tasks take     *)
(* oids from an mpsc channel and convert them, and the server calls        *)
(* shutdown when it stops.  An action is one operation on shared state     *)
(* (an atomic, a lock, the channel), so every interleaving of the threads  *)
(* is a behaviour.  What converting an oid does is in module CasServer.    *)
(***************************************************************************)
EXTENDS Naturals, Sequences, FiniteSets

CONSTANTS
  Oids,
  Callers,    \* threads that may be inside try_enqueue
  Workers,    \* worker tasks, `concurrency` many
  Capacity,   \* queue_capacity
  Word,       \* the counters are unsigned words: arithmetic modulo Word
  None

ASSUME SchedulerAssumption ==
  /\ IsFiniteSet(Workers) /\ Workers # {}
  /\ IsFiniteSet(Callers)
  /\ Capacity \in Nat \ {0}
  /\ Word \in Nat
  /\ Word > Capacity + Cardinality(Workers) + Cardinality(Callers)
  /\ None \notin Oids \cup Callers

VARIABLES
  closed,     \* the closed flag
  sender,     \* TRUE until shutdown takes the channel's sender
  holder,     \* the caller that holds the sender's lock, or None
  state,      \* oids marked as queued or converting
  queue,      \* the mpsc channel
  cancelled,  \* the cancellation token
  queued,     \* the queued counter
  running,    \* the running counter
  cpc, coid,  \* where each caller is in try_enqueue, and its oid
  wpc, woid,  \* where each worker is in its loop, and its oid
  shutdown    \* how far shutdown() is

callers == <<cpc, coid>>
workers == <<wpc, woid>>
vars    == <<closed, sender, holder, state, queue, cancelled, queued, running,
             cpc, coid, wpc, woid, shutdown>>

CallerPcs == {"idle", "mark", "lock", "send", "count", "unmark"}
WorkerPcs == {"idle", "dequeued", "convert", "release", "exited", "aborted"}
Shutdowns == {"no", "closing", "taken", "cancelled", "joining", "aborting", "done"}

TypeOK ==
  /\ closed \in BOOLEAN /\ sender \in BOOLEAN /\ cancelled \in BOOLEAN
  /\ holder \in Callers \cup {None}
  /\ state \in SUBSET Oids
  /\ queue \in Seq(Oids) /\ Len(queue) <= Capacity
  /\ queued \in 0..(Word - 1) /\ running \in 0..(Word - 1)
  /\ cpc \in [Callers -> CallerPcs] /\ coid \in [Callers -> Oids \cup {None}]
  /\ wpc \in [Workers -> WorkerPcs] /\ woid \in [Workers -> Oids \cup {None}]
  /\ \A c \in Callers : cpc[c] # "idle" => coid[c] \in Oids
  /\ \A w \in Workers : wpc[w] \notin {"idle", "exited"} => woid[w] \in Oids
  /\ shutdown \in Shutdowns

Init ==
  /\ closed = FALSE /\ sender = TRUE /\ cancelled = FALSE
  /\ holder = None
  /\ state = {} /\ queue = <<>>
  /\ queued = 0 /\ running = 0
  /\ cpc = [c \in Callers |-> "idle"] /\ coid = [c \in Callers |-> None]
  /\ wpc = [w \in Workers |-> "idle"] /\ woid = [w \in Workers |-> None]
  /\ shutdown = "no"

Up(n)   == (n + 1) % Word
Down(n) == (n + Word - 1) % Word

-----------------------------------------------------------------------------
(* try_enqueue *)

CallerGoto(c, next) == cpc' = [cpc EXCEPT ![c] = next] /\ UNCHANGED coid

\* Mutant: the lock guard outlives the call.
CallerReturnsLocked(c) ==
  /\ cpc' = [cpc EXCEPT ![c] = "idle"]
  /\ coid' = [coid EXCEPT ![c] = None]
  /\ UNCHANGED holder

\* The caller returns, which drops the lock guard if it had one.
CallerReturns(c) ==
  /\ cpc' = [cpc EXCEPT ![c] = "idle"]
  /\ coid' = [coid EXCEPT ![c] = None]
  /\ holder' = IF holder = c THEN None ELSE holder

\* `closed` is read once, on entry.
Enqueue(c, o) ==
  /\ cpc[c] = "idle"
  /\ ~closed
  /\ cpc' = [cpc EXCEPT ![c] = "mark"]
  /\ coid' = [coid EXCEPT ![c] = o]
  /\ UNCHANGED <<closed, sender, holder, state, queue, cancelled, queued,
                 running, workers, shutdown>>

Mark(c) ==
  /\ cpc[c] = "mark"
  /\ \/ /\ coid[c] \in state            \* Duplicate
        /\ CallerReturns(c)
        /\ UNCHANGED state
     \/ /\ coid[c] \notin state
        /\ state' = state \cup {coid[c]}
        /\ CallerGoto(c, "lock")
        /\ UNCHANGED holder
  /\ UNCHANGED <<closed, sender, queue, cancelled, queued, running, workers,
                 shutdown>>

\* Mutant: the mark is not taken back when the sender's lock is busy.
LockSenderLeaks(c) ==
  /\ cpc[c] = "lock"
  /\ \/ holder = None /\ holder' = c /\ CallerGoto(c, "send")
     \/ holder # None /\ CallerReturns(c)
  /\ UNCHANGED <<closed, sender, state, queue, cancelled, queued, running,
                 workers, shutdown>>

\* try_lock: a lock that another caller holds is reported as QueueFull.
LockSender(c) ==
  /\ cpc[c] = "lock"
  /\ \/ holder = None /\ holder' = c /\ CallerGoto(c, "send")
     \/ holder # None /\ UNCHANGED holder /\ CallerGoto(c, "unmark")
  /\ UNCHANGED <<closed, sender, state, queue, cancelled, queued, running,
                 workers, shutdown>>

\* Mutant: the mark is not taken back when the sender is gone.
SendLeaks(c) ==
  /\ cpc[c] = "send"
  /\ \/ /\ sender /\ Len(queue) < Capacity
        /\ queue' = Append(queue, coid[c])
        /\ CallerGoto(c, "count")
        /\ UNCHANGED holder
     \/ /\ sender /\ Len(queue) = Capacity
        /\ CallerGoto(c, "unmark")
        /\ UNCHANGED <<queue, holder>>
     \/ /\ ~sender
        /\ CallerReturns(c)
        /\ UNCHANGED queue
  /\ UNCHANGED <<closed, sender, state, cancelled, queued, running, workers,
                 shutdown>>

\* try_send: QueueFull when there is no room, ShuttingDown when shutdown has
\* taken the sender.
Send(c) ==
  /\ cpc[c] = "send"
  /\ \/ /\ sender /\ Len(queue) < Capacity
        /\ queue' = Append(queue, coid[c])
        /\ CallerGoto(c, "count")
     \/ /\ ~sender \/ Len(queue) = Capacity
        /\ CallerGoto(c, "unmark")
        /\ UNCHANGED queue
  /\ UNCHANGED <<closed, sender, holder, state, cancelled, queued, running,
                 workers, shutdown>>

\* The counter follows the send, so a worker may have decremented it already.
\* The global gauge conversion_queued is updated beside it.
Count(c) ==
  /\ cpc[c] = "count"
  /\ queued' = Up(queued)
  /\ CallerReturns(c)                   \* Accepted
  /\ UNCHANGED <<closed, sender, state, queue, cancelled, running, workers,
                 shutdown>>

Unmark(c) ==
  /\ cpc[c] = "unmark"
  /\ state' = state \ {coid[c]}
  /\ CallerReturns(c)                   \* QueueFull or ShuttingDown
  /\ UNCHANGED <<closed, sender, queue, cancelled, queued, running, workers,
                 shutdown>>

-----------------------------------------------------------------------------
(* The worker loop *)

\* select! takes either ready branch, so a worker may still take an oid after
\* the token is cancelled.
Take(w) ==
  /\ wpc[w] = "idle"
  /\ queue # <<>>
  /\ queue' = Tail(queue)
  /\ wpc' = [wpc EXCEPT ![w] = "dequeued"]
  /\ woid' = [woid EXCEPT ![w] = Head(queue)]
  /\ UNCHANGED <<closed, sender, holder, state, cancelled, queued, running,
                 callers, shutdown>>

Uncount(w) ==
  /\ wpc[w] = "dequeued"
  /\ queued' = Down(queued)
  /\ running' = Up(running)
  /\ wpc' = [wpc EXCEPT ![w] = "convert"]
  /\ UNCHANGED <<closed, sender, holder, state, queue, cancelled, woid,
                 callers, shutdown>>

\* The conversion succeeded, failed or panicked: all three end the same way.
Converted(w) ==
  /\ wpc[w] = "convert"
  /\ running' = Down(running)
  /\ wpc' = [wpc EXCEPT ![w] = "release"]
  /\ UNCHANGED <<closed, sender, holder, state, queue, cancelled, queued, woid,
                 callers, shutdown>>

\* Mutant: the oid stays marked after its conversion.
ReleaseKeepsMark(w) ==
  /\ wpc[w] = "release"
  /\ wpc' = [wpc EXCEPT ![w] = "idle"]
  /\ woid' = [woid EXCEPT ![w] = None]
  /\ UNCHANGED <<closed, sender, holder, state, queue, cancelled, queued,
                 running, callers, shutdown>>

Release(w) ==
  /\ wpc[w] = "release"
  /\ state' = state \ {woid[w]}
  /\ wpc' = [wpc EXCEPT ![w] = "idle"]
  /\ woid' = [woid EXCEPT ![w] = None]
  /\ UNCHANGED <<closed, sender, holder, queue, cancelled, queued, running,
                 callers, shutdown>>

\* The cancelled branch of the second select!: the conversion is dropped.
CancelConversion(w) ==
  /\ wpc[w] = "convert"
  /\ cancelled
  /\ state' = state \ {woid[w]}
  /\ running' = Down(running)
  /\ wpc' = [wpc EXCEPT ![w] = "idle"]
  /\ woid' = [woid EXCEPT ![w] = None]
  /\ UNCHANGED <<closed, sender, holder, queue, cancelled, queued, callers,
                 shutdown>>

\* The token is cancelled, or the channel is closed and empty.
Exit(w) ==
  /\ wpc[w] = "idle"
  /\ cancelled \/ (~sender /\ queue = <<>>)
  /\ wpc' = [wpc EXCEPT ![w] = "exited"]
  /\ UNCHANGED <<closed, sender, holder, state, queue, cancelled, queued,
                 running, woid, callers, shutdown>>

-----------------------------------------------------------------------------
(* shutdown *)

Close ==
  /\ shutdown = "no"
  /\ closed' = TRUE
  /\ shutdown' = "closing"
  /\ UNCHANGED <<sender, holder, state, queue, cancelled, queued, running,
                 callers, workers>>

\* sender.lock().await.take()
TakeSender ==
  /\ shutdown = "closing"
  /\ holder = None
  /\ sender' = FALSE
  /\ shutdown' = "taken"
  /\ UNCHANGED <<closed, holder, state, queue, cancelled, queued, running,
                 callers, workers>>

Cancel ==
  /\ shutdown = "taken"
  /\ cancelled' = TRUE
  /\ shutdown' = "cancelled"
  /\ UNCHANGED <<closed, sender, holder, state, queue, queued, running,
                 callers, workers>>

SwapQueued ==
  /\ shutdown = "cancelled"
  /\ queued' = 0
  /\ shutdown' = "joining"
  /\ UNCHANGED <<closed, sender, holder, state, queue, cancelled, running,
                 callers, workers>>

\* The grace period ends and abort_all is called.
Deadline ==
  /\ shutdown = "joining"
  /\ shutdown' = "aborting"
  /\ UNCHANGED <<closed, sender, holder, state, queue, cancelled, queued,
                 running, callers, workers>>

\* An aborted task stops at an await: neither the counter nor the mark of a
\* conversion it dropped is put back.
Abort(w) ==
  /\ shutdown = "aborting"
  /\ \/ wpc[w] = "idle" /\ wpc' = [wpc EXCEPT ![w] = "exited"]
     \/ wpc[w] = "convert" /\ wpc' = [wpc EXCEPT ![w] = "aborted"]
  /\ UNCHANGED <<closed, sender, holder, state, queue, cancelled, queued,
                 running, woid, callers, shutdown>>

\* Every worker is joined; what is left of the channel went with the receiver.
Clear ==
  /\ shutdown \in {"joining", "aborting"}
  /\ \A w \in Workers : wpc[w] \in {"exited", "aborted"}
  /\ state' = {}
  /\ queue' = <<>>
  /\ shutdown' = "done"
  /\ UNCHANGED <<closed, sender, holder, cancelled, queued, running,
                 callers, workers>>

-----------------------------------------------------------------------------
CallerStep(c) == Mark(c) \/ LockSender(c) \/ Send(c) \/ Count(c) \/ Unmark(c)
WorkerStep(w) == Take(w) \/ Uncount(w) \/ Release(w) \/ CancelConversion(w)
                 \/ Exit(w) \/ Abort(w)
ShutdownStep  == TakeSender \/ Cancel \/ SwapQueued \/ Deadline \/ Clear

Next ==
  \/ \E c \in Callers : CallerStep(c) \/ \E o \in Oids : Enqueue(c, o)
  \/ \E w \in Workers : WorkerStep(w) \/ Converted(w)
  \/ Close \/ ShutdownStep

(***************************************************************************)
(* A runnable task or thread is eventually scheduled.  Nothing makes a     *)
(* client download (Enqueue), the server stop (Close) or the storage       *)
(* answer a conversion (Converted).                                        *)
(***************************************************************************)
Fairness ==
  /\ \A c \in Callers : WF_vars(CallerStep(c))
  /\ \A w \in Workers : WF_vars(WorkerStep(w))
  /\ WF_vars(ShutdownStep)

Spec     == Init /\ [][Next]_vars
FairSpec == Spec /\ Fairness

-----------------------------------------------------------------------------
(* Properties *)

Active == {"dequeued", "convert", "release"}

\* Nobody converts an oid that somebody else converts, and no oid waits in the
\* queue while it is converted or a second time: the marks that try_enqueue
\* sets and the workers remove "prevent duplicate concurrent conversions".
NoDuplicateConversion ==
  /\ \A v, w \in Workers :
       v # w /\ wpc[v] \in Active /\ wpc[w] \in Active => woid[v] # woid[w]
  /\ \A i, j \in 1..Len(queue) : queue[i] = queue[j] => i = j
  /\ \A w \in Workers, i \in 1..Len(queue) :
       wpc[w] \in Active => woid[w] # queue[i]

\* The callers, queue slots and workers that answer for the mark of o.
Owners(o) ==
  {<<"caller", c>> : c \in {d \in Callers : coid[d] = o /\
                                cpc[d] \in {"lock", "send", "unmark"}}}
  \cup {<<"slot", i>> : i \in {j \in 1..Len(queue) : queue[j] = o}}
  \cup {<<"worker", w>> : w \in {v \in Workers : woid[v] = o /\
                                wpc[v] \in Active \cup {"aborted"}}}

\* Until shutdown clears the marks, an oid is marked exactly when one caller,
\* queue slot or worker answers for it: no error path of try_enqueue, failed,
\* panicked or cancelled conversion leaves a mark behind (the oid could never
\* be converted again) or takes somebody else's mark away.
MarksOwned ==
  shutdown # "done" =>
    \A o \in Oids : Cardinality(Owners(o)) = IF o \in state THEN 1 ELSE 0

\* When shutdown has returned no worker is converting any more, and no mark is
\* left once the callers that raced with it have returned too.
ShutdownClears ==
  shutdown = "done" =>
    /\ \A w \in Workers : wpc[w] \notin Active
    /\ (\A c \in Callers : cpc[c] = "idle") => state = {}

\* Until shutdown resets it, the queued counter is the length of the queue up
\* to the callers and workers that have moved an oid and not counted it yet.
QueuedCounts ==
  shutdown \in {"no", "closing", "taken", "cancelled"} =>
    (queued + Cardinality({c \in Callers : cpc[c] = "count"})) % Word
      = (Len(queue) + Cardinality({w \in Workers : wpc[w] = "dequeued"})) % Word

\* Marks, queue, counter and workers agree at every step of try_enqueue, of the
\* workers and of shutdown: an oid is in hand once, has its mark for exactly as
\* long, and is counted while it waits.
QueueSound == TypeOK /\ NoDuplicateConversion /\ MarksOwned /\ QueuedCounts

\* If conversions end (the storage answers), an oid that was queued is not
\* marked for ever: it is converted or shutdown drops it.
AcceptedIsConverted ==
  (\A w \in Workers : []<>(wpc[w] # "convert")) =>
    \A o \in Oids : ((\E i \in 1..Len(queue) : queue[i] = o) ~> o \notin state)

\* Shutdown returns even when a conversion never ends.
ShutdownReturns == (shutdown = "closing") ~> (shutdown = "done")
=============================================================================
