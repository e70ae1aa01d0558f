----------------------------- MODULE S3Storage -----------------------------
(***************************************************************************)
(* The S3 backend: put_from_path with its multipart uploads, the registry  *)
(* of active uploads that the guards, the cancellation tasks, shutdown and *)
(* drop share.  The bucket is external: it answers or fails a request, and *)
(* a failed one may have taken effect.  Every request is two steps, its    *)
(* effect on the bucket and the caller acting on the reply; a future may   *)
(* be dropped while it waits.                                              *)
(***************************************************************************)
EXTENDS Naturals, Sequences, FiniteSets

CONSTANTS
  Uploads,     \* calls of put_from_path; a call names the upload id it gets
  Keys,        \* object keys; content addressed, so a key fixes the file
  None,        \* no upload
  SizeOf,      \* size of the file stored under each key
  Threshold,   \* MULTIPART_THRESHOLD
  PartSize,    \* PART_SIZE
  MaxParts,    \* MAX_MULTIPART_PARTS
  MaxObject    \* MAX_S3_OBJECT_SIZE

ASSUME S3Assumption ==
  /\ SizeOf \in [Keys -> Nat]
  /\ Threshold \in Nat \ {0} /\ PartSize \in Nat \ {0} /\ MaxParts \in Nat \ {0}
  /\ MaxObject \in Nat
  /\ Keys # {} /\ None \notin Uploads

Absent == <<>>

VARIABLES
  pending,   \* bucket: uploads created and neither completed nor aborted
  stored,    \* bucket: the parts each upload holds, as byte intervals
  object,    \* bucket: the parts that make up each object, or Absent
  stray,     \* requests of dropped futures that may still reach the bucket
  registry,  \* ActiveMultipartUploads
  ids,       \* history: uploads whose id the process has received
  pc,        \* the request each put_from_path is at, or how it ended
  reply,     \* "none" (nothing sent), "wait", "ok" or "err"
  key,       \* the key each put_from_path writes
  offset,    \* upload_parts: bytes acknowledged so far
  partNo,    \* upload_parts: part_number
  task,      \* the task a dropped guard spawned: "none", "spawned", "abort", "done"
  taskReply,
  shutdown,  \* abort_all_active_uploads: "none", "running", "ok" or "err"
  draining,  \* the entries it has drained and not tried yet
  current,   \* the upload it is aborting, or None
  drained,   \* history: everything the latest drain took
  sdReply,
  failed,    \* first_error is set
  dropped    \* the storage has been dropped

bucket == <<pending, stored, object>>
future == <<pc, reply, key, offset, partNo>>
cancel == <<task, taskReply>>
drain  == <<shutdown, draining, current, drained, sdReply, failed>>
vars   == <<bucket, stray, registry, ids, future, cancel, drain, dropped>>

Ended   == {"ok", "failed", "cancelled", "refused"}
Calls   == {"put", "create", "part", "complete", "abort"}
Guarded == {"part", "complete", "abort"}
Replies == {"none", "wait", "ok", "err"}

\* What the variables may hold; the registry never names an upload whose id is
\* unknown, and no part list is longer than S3 allows.
TypeOK ==
  /\ pending \subseteq Uploads /\ registry \subseteq ids /\ ids \subseteq Uploads
  /\ stored \in [Uploads -> Seq(Nat \X Nat)] /\ object \in [Keys -> Seq(Nat \X Nat)]
  /\ \A u \in Uploads : Len(stored[u]) <= MaxParts
  /\ stray \subseteq [op : Calls, up : Uploads]
  /\ pc \in [Uploads -> {"idle"} \cup Calls \cup Ended]
  /\ reply \in [Uploads -> Replies] /\ key \in [Uploads -> Keys]
  /\ offset \in [Uploads -> Nat] /\ partNo \in [Uploads -> 1..(MaxParts + 1)]
  /\ task \in [Uploads -> {"none", "spawned", "abort", "done"}]
  /\ taskReply \in [Uploads -> Replies]
  /\ shutdown \in {"none", "running", "ok", "err"} /\ draining \subseteq ids
  /\ current \in ids \cup {None} /\ drained \subseteq ids /\ sdReply \in Replies
  /\ failed \in BOOLEAN /\ dropped \in BOOLEAN

Init ==
  /\ pending = {} /\ stored = [u \in Uploads |-> <<>>] /\ object = [k \in Keys |-> Absent]
  /\ stray = {} /\ registry = {} /\ ids = {}
  /\ pc = [u \in Uploads |-> "idle"] /\ reply = [u \in Uploads |-> "none"]
  /\ key = [u \in Uploads |-> CHOOSE k \in Keys : TRUE]
  /\ offset = [u \in Uploads |-> 0] /\ partNo = [u \in Uploads |-> 1]
  /\ task = [u \in Uploads |-> "none"] /\ taskReply = [u \in Uploads |-> "none"]
  /\ shutdown = "none" /\ draining = {} /\ current = None /\ drained = {}
  /\ sdReply = "none" /\ failed = FALSE /\ dropped = FALSE

-----------------------------------------------------------------------------
(* Sizes. *)

multipart_part_size(size) ==
  LET required == size \div MaxParts + (IF size % MaxParts = 0 THEN 0 ELSE 1)
  IN  IF PartSize > required THEN PartSize ELSE required

Size(u) == SizeOf[key[u]]
NextEnd(u) ==
  LET end == offset[u] + multipart_part_size(Size(u))
  IN  IF end < Size(u) THEN end ELSE Size(u)

-----------------------------------------------------------------------------
(* The bucket. *)

Accepts(op, u) == op \in {"put", "create"} \/ u \in pending

Apply(op, u) ==
  /\ pending' = CASE op = "create" -> pending \cup {u}
                  [] op \in {"complete", "abort"} -> pending \ {u}
                  [] OTHER -> pending
  /\ stored' = IF op = "part" THEN [stored EXCEPT ![u] = Append(@, <<offset[u], NextEnd(u)>>)]
                              ELSE stored
  /\ object' = CASE op = "put" -> [object EXCEPT ![key[u]] = <<<<0, Size(u)>>>>]
                 [] op = "complete" -> [object EXCEPT ![key[u]] = stored[u]]
                 [] OTHER -> object

\* A request that is accepted may take effect and still fail for the caller.
Served(op, u, answer) ==
  \/ answer = "err" /\ UNCHANGED bucket
  \/ Accepts(op, u) /\ Apply(op, u)

Answers == {"ok", "err"}

ServeFuture(u, answer) ==
  /\ reply[u] = "wait"
  /\ Served(pc[u], u, answer)
  /\ reply' = [reply EXCEPT ![u] = answer]
  /\ UNCHANGED <<stray, registry, ids, pc, key, offset, partNo, cancel, drain, dropped>>

ServeTask(u, answer) ==
  /\ taskReply[u] = "wait"
  /\ Served("abort", u, answer)
  /\ taskReply' = [taskReply EXCEPT ![u] = answer]
  /\ UNCHANGED <<stray, registry, ids, future, task, drain, dropped>>

ServeShutdown(answer) ==
  /\ sdReply = "wait"
  /\ Served("abort", current, answer)
  /\ sdReply' = answer
  /\ UNCHANGED <<stray, registry, ids, future, cancel, shutdown, draining, current,
                 drained, failed, dropped>>

\* A request whose future is gone reaches the bucket late, or never.
ServeStray(r) ==
  /\ r \in stray /\ stray' = stray \ {r}
  /\ Accepts(r.op, r.up) /\ Apply(r.op, r.up)
  /\ UNCHANGED <<registry, ids, future, cancel, drain, dropped>>

-----------------------------------------------------------------------------
(* put_from_path and multipart_upload. *)

Call(u, op) == pc' = [pc EXCEPT ![u] = op] /\ reply' = [reply EXCEPT ![u] = "wait"]
End(u, how) == pc' = [pc EXCEPT ![u] = how] /\ reply' = [reply EXCEPT ![u] = "none"]

put_from_path(u, k) ==
  /\ ~dropped /\ pc[u] = "idle"
  /\ key' = [key EXCEPT ![u] = k]
  /\ \/ SizeOf[k] < Threshold /\ Call(u, "put")
     \/ SizeOf[k] >= Threshold /\ SizeOf[k] <= MaxObject /\ Call(u, "create")
     \/ SizeOf[k] > MaxObject /\ End(u, "refused")
  /\ UNCHANGED <<bucket, stray, registry, ids, offset, partNo, cancel, drain, dropped>>

PutReply(u) ==
  /\ pc[u] = "put" /\ reply[u] \in Answers
  /\ End(u, IF reply[u] = "ok" THEN "ok" ELSE "failed")
  /\ UNCHANGED <<bucket, stray, registry, ids, key, offset, partNo, cancel, drain, dropped>>

\* The answer to create_multipart_upload, and ActiveUploadGuard::new.  An
\* upload whose answer is lost stays in the bucket, unknown to the process.
CreateReply(u) ==
  /\ pc[u] = "create" /\ reply[u] \in Answers
  /\ \/ /\ reply[u] = "ok"
        /\ pc' = [pc EXCEPT ![u] = "part"] /\ reply' = [reply EXCEPT ![u] = "none"]
        /\ registry' = registry \cup {u} /\ ids' = ids \cup {u}
     \/ /\ reply[u] = "err"
        /\ End(u, "failed") /\ UNCHANGED <<registry, ids>>
  /\ UNCHANGED <<bucket, stray, key, offset, partNo, cancel, drain, dropped>>

\* One turn of upload_parts: the next part, an error before it is sent (opening
\* or reading the file, the file shorter than it was, the part limit), or, at
\* the end of the file, complete_multipart_upload.
NextPart(u) ==
  /\ pc[u] = "part" /\ reply[u] = "none"
  /\ \/ offset[u] < Size(u) /\ partNo[u] <= MaxParts /\ Call(u, "part")
     \/ offset[u] < Size(u) /\ Call(u, "abort")
     \/ offset[u] >= Size(u) /\ Call(u, "complete")
  /\ UNCHANGED <<bucket, stray, registry, ids, key, offset, partNo, cancel, drain, dropped>>

PartReply(u) ==
  /\ pc[u] = "part" /\ reply[u] \in Answers
  /\ \/ /\ reply[u] = "ok"
        /\ reply' = [reply EXCEPT ![u] = "none"] /\ pc' = pc
        /\ offset' = [offset EXCEPT ![u] = NextEnd(u)]
        /\ partNo' = [partNo EXCEPT ![u] = @ + 1]
     \/ reply[u] = "err" /\ Call(u, "abort") /\ UNCHANGED <<offset, partNo>>
  /\ UNCHANGED <<bucket, stray, registry, ids, key, cancel, drain, dropped>>

\* Mutant: an error of complete_multipart_upload is taken for success.
CompleteReplyIgnores(u) ==
  /\ pc[u] = "complete" /\ reply[u] \in Answers
  /\ registry' = (IF reply[u] = "ok" THEN registry \ {u} ELSE registry) /\ End(u, "ok")
  /\ UNCHANGED <<bucket, stray, ids, key, offset, partNo, cancel, drain, dropped>>

CompleteReply(u) ==
  /\ pc[u] = "complete" /\ reply[u] \in Answers
  /\ \/ reply[u] = "ok" /\ End(u, "ok") /\ registry' = registry \ {u}
     \/ reply[u] = "err" /\ Call(u, "abort") /\ UNCHANGED registry
  /\ UNCHANGED <<bucket, stray, ids, key, offset, partNo, cancel, drain, dropped>>

\* ActiveUploadGuard::abort, then the guard is dropped: armed still when the
\* abort failed, so that it spawns its task.
AbortReply(u) ==
  /\ pc[u] = "abort" /\ reply[u] \in Answers
  /\ End(u, "failed")
  /\ \/ reply[u] = "ok" /\ registry' = registry \ {u} /\ UNCHANGED task
     \/ reply[u] = "err" /\ task' = [task EXCEPT ![u] = "spawned"] /\ UNCHANGED registry
  /\ UNCHANGED <<bucket, stray, ids, key, offset, partNo, taskReply, drain, dropped>>

\* The future is dropped at an await: the client went away or a timeout fired.
Cancel(u) ==
  /\ pc[u] \in Calls
  /\ End(u, "cancelled")
  /\ stray' = IF reply[u] = "wait" THEN stray \cup {[op |-> pc[u], up |-> u]} ELSE stray
  /\ task' = IF pc[u] \in Guarded THEN [task EXCEPT ![u] = "spawned"] ELSE task
  /\ UNCHANGED <<bucket, registry, ids, key, offset, partNo, taskReply, drain, dropped>>

-----------------------------------------------------------------------------
(* The task of a dropped guard. *)

\* Mutant: aborts although somebody else has taken the entry.
TaskClaimAlways(u) ==
  /\ task[u] = "spawned"
  /\ task' = [task EXCEPT ![u] = "abort"] /\ taskReply' = [taskReply EXCEPT ![u] = "wait"]
  /\ registry' = registry \ {u}
  /\ UNCHANGED <<bucket, stray, ids, future, drain, dropped>>

TaskClaim(u) ==
  /\ task[u] = "spawned"
  /\ \/ /\ u \in registry /\ registry' = registry \ {u}
        /\ task' = [task EXCEPT ![u] = "abort"] /\ taskReply' = [taskReply EXCEPT ![u] = "wait"]
     \/ /\ u \notin registry
        /\ task' = [task EXCEPT ![u] = "done"] /\ UNCHANGED <<registry, taskReply>>
  /\ UNCHANGED <<bucket, stray, ids, future, drain, dropped>>

\* Mutant: a failed abort is not kept for a retry.
TaskReplyForgets(u) ==
  /\ task[u] = "abort" /\ taskReply[u] \in Answers
  /\ task' = [task EXCEPT ![u] = "done"] /\ taskReply' = [taskReply EXCEPT ![u] = "none"]
  /\ registry' = registry \ {u}
  /\ UNCHANGED <<bucket, stray, ids, future, drain, dropped>>

TaskReply(u) ==
  /\ task[u] = "abort" /\ taskReply[u] \in Answers
  /\ task' = [task EXCEPT ![u] = "done"] /\ taskReply' = [taskReply EXCEPT ![u] = "none"]
  /\ registry' = IF taskReply[u] = "ok" THEN registry \ {u} ELSE registry \cup {u}
  /\ UNCHANGED <<bucket, stray, ids, future, drain, dropped>>

-----------------------------------------------------------------------------
(* abort_all_active_uploads, and the storage's drop. *)

Drain ==
  /\ ~dropped /\ shutdown \in {"none", "err"}
  /\ shutdown' = "running" /\ failed' = FALSE
  /\ draining' = registry /\ drained' = registry /\ registry' = {}
  /\ UNCHANGED <<bucket, stray, ids, future, cancel, current, sdReply, dropped>>

DrainNext ==
  /\ shutdown = "running" /\ current = None
  /\ \/ /\ draining = {}
        /\ shutdown' = IF failed THEN "err" ELSE "ok"
        /\ UNCHANGED <<draining, current, sdReply>>
     \/ \E u \in draining :
          /\ current' = u /\ draining' = draining \ {u} /\ sdReply' = "wait"
          /\ UNCHANGED shutdown
  /\ UNCHANGED <<bucket, stray, registry, ids, future, cancel, drained, failed, dropped>>

\* Mutant: only the last error counts.
DrainReplyLast ==
  /\ sdReply \in Answers
  /\ registry' = IF sdReply = "err" THEN registry \cup {current} ELSE registry
  /\ failed' = (sdReply = "err")
  /\ current' = None /\ sdReply' = "none"
  /\ UNCHANGED <<bucket, stray, ids, future, cancel, shutdown, draining, drained, dropped>>

DrainReply ==
  /\ sdReply \in Answers
  /\ registry' = IF sdReply = "err" THEN registry \cup {current} ELSE registry
  /\ failed' = IF sdReply = "err" THEN TRUE ELSE failed
  /\ current' = None /\ sdReply' = "none"
  /\ UNCHANGED <<bucket, stray, ids, future, cancel, shutdown, draining, drained, dropped>>

\* Nothing borrows the storage any more.  The task that drop spawns tries each
\* entry once and ignores the answers; here it is done at once, with any subset
\* of the aborts taking effect.
Drop(aborted) ==
  /\ ~dropped /\ dropped' = TRUE
  /\ shutdown # "running" /\ \A u \in Uploads : pc[u] \in Ended \cup {"idle"}
  /\ aborted \subseteq registry \cap pending
  /\ registry' = {} /\ pending' = pending \ aborted
  /\ UNCHANGED <<stored, object, stray, ids, future, cancel, drain>>

-----------------------------------------------------------------------------

Next ==
  \/ \E u \in Uploads :
       \/ \E k \in Keys : put_from_path(u, k)
       \/ PutReply(u) \/ CreateReply(u) \/ NextPart(u) \/ PartReply(u)
       \/ CompleteReply(u) \/ AbortReply(u) \/ Cancel(u)
       \/ TaskClaim(u) \/ TaskReply(u)
       \/ \E answer \in Answers : ServeFuture(u, answer) \/ ServeTask(u, answer)
  \/ Drain \/ DrainNext \/ DrainReply
  \/ \E answer \in Answers : ServeShutdown(answer)
  \/ \E r \in stray : ServeStray(r)
  \/ \E aborted \in SUBSET registry : Drop(aborted)

Spec == Init /\ [][Next]_vars

-----------------------------------------------------------------------------
(* Properties. *)

\* While the storage lives, an upload that is pending in the bucket and whose
\* id the process has received is never forgotten: it is in the registry, or
\* shutdown has it in hand, or the task of its dropped guard is aborting it.
\* Failed aborts, lost answers, cancellation at any await and a shutdown that
\* overlaps all of them leave nothing behind that nobody would clean up.
KnownUploadsOwned ==
  ~dropped =>
    \A u \in pending \cap ids :
      u \in registry \cup draining \cup {current} \/ task[u] = "abort"

\* A registry entry has one owner at a time: what the task of a dropped guard
\* has claimed, what shutdown has drained and what is registered are disjoint
\* (the comment in ActiveUploadGuard's drop: a concurrent shutdown drain then
\* owns the abort instead).
OneOwner ==
  /\ registry \cap (draining \cup {current}) = {} /\ current \notin draining
  /\ \A u \in Uploads : task[u] = "abort" => u \notin registry \cup draining \cup {current}

\* The parts of an object cover the file of its key without gap or overlap.
Whole(k) ==
  LET parts == object[k] IN
  /\ parts # Absent /\ parts[1][1] = 0 /\ parts[Len(parts)][2] = SizeOf[k]
  /\ \A i \in 1..(Len(parts) - 1) : parts[i][2] = parts[i + 1][1]

\* An object is visible only complete, and is there once put_from_path has
\* returned Ok, whatever aborts and late requests race with the completion.
AckedIsWhole ==
  /\ \A k \in Keys : object[k] # Absent => Whole(k)
  /\ \A u \in Uploads : pc[u] = "ok" => object[key[u]] # Absent

\* After abort_all_active_uploads has returned Ok, none of the uploads it
\* drained is pending.
ShutdownOkClears == shutdown = "ok" => drained \cap pending = {}

\* A file that multipart_part_size accepts never runs into the part limit.
LargeFilesFit ==
  \A u \in Uploads : pc[u] = "part" /\ offset[u] < Size(u) => partNo[u] <= MaxParts

\* An upload comes out whole or not at all, for every size that is accepted.
UploadsSound == TypeOK /\ AckedIsWhole /\ LargeFilesFit
=============================================================================
