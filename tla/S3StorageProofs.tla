-------------------------- MODULE S3StorageProofs --------------------------
(***************************************************************************)
(* No upload that the S3 backend knows of is forgotten, for any number of  *)
(* uploads.  What has to be known besides: an id is received once and the  *)
(* bucket never creates it again (Fresh), a successful answer means that   *)
(* the upload is gone (Settled), and the shutdown holds nothing while it   *)
(* is not running (DrainSound).                                            *)
(*                                                                         *)
(* The second part is about what is uploaded, for any sizes and limits: an *)
(* object is visible with all of its bytes or not at all.  It needs to     *)
(* know how far upload_parts is and what the bucket has (UploadSound), and *)
(* that a late request is the only one of its upload (StraySound).         *)
(***************************************************************************)
EXTENDS S3Storage, TLAPS

\* The parts of the type invariant that the proofs use.
Typed ==
  /\ registry \subseteq ids /\ ids \subseteq Uploads /\ draining \subseteq ids
  /\ drained \subseteq ids /\ current \in ids \cup {None}
  /\ pc \in [Uploads -> {"idle"} \cup Calls \cup Ended]
  /\ reply \in [Uploads -> Replies] /\ taskReply \in [Uploads -> Replies]
  /\ task \in [Uploads -> {"none", "spawned", "abort", "done"}]
  /\ stray \subseteq [op : Calls, up : Uploads]

\* An upload whose creation may still take effect has an unknown id, and a
\* guard or its task exists for known ids only, never both at once.
Fresh ==
  /\ \A u \in Uploads : pc[u] \in {"idle", "put", "create"} => u \notin ids
  /\ \A u \in Uploads : pc[u] \in Guarded => u \in ids
  /\ \A u \in Uploads : pc[u] \notin Ended => task[u] = "none"
  /\ \A u \in Uploads : task[u] # "none" \/ taskReply[u] # "none" => u \in ids
  /\ \A r \in stray : r.op = "create" => r.up \notin ids /\ pc[r.up] \in Ended

\* A successful answer to complete or abort means that the upload is gone.
Settled ==
  /\ \A u \in Uploads : pc[u] \in {"complete", "abort"} /\ reply[u] = "ok" => u \notin pending
  /\ \A u \in Uploads : taskReply[u] = "ok" => u \notin pending
  /\ sdReply = "ok" => current \notin pending

\* The state of abort_all_active_uploads.
DrainSound ==
  /\ shutdown # "running" => draining = {} /\ current = None
  /\ current = None => sdReply = "none"
  /\ shutdown = "running" /\ ~failed => drained \cap pending \subseteq draining \cup {current}

IInv == Typed /\ Fresh /\ Settled /\ DrainSound /\ OneOwner /\ KnownUploadsOwned /\ ShutdownOkClears

-----------------------------------------------------------------------------

\* What a request does to the set of pending uploads.
LEMMA ServedPending ==
  ASSUME NEW op, NEW u, NEW answer, Served(op, u, answer)
  PROVE  /\ op # "create" => pending' \subseteq pending
         /\ pending' \subseteq pending \cup {u}
         /\ op \in {"complete", "abort"} /\ answer = "ok" => u \notin pending'
BY DEF Served, Accepts, Apply, bucket

\* The same for a request that arrives late.
LEMMA StrayPending ==
  ASSUME NEW op, NEW u, Accepts(op, u), Apply(op, u)
  PROVE  /\ op # "create" => pending' \subseteq pending
         /\ pending' \subseteq pending \cup {u}
BY DEF Accepts, Apply

\* The invariant holds before anything was uploaded.
THEOREM InitInv == Init => IInv
BY S3Assumption DEF Init, IInv, Typed, Fresh, Settled, DrainSound, OneOwner, KnownUploadsOwned,
     ShutdownOkClears, Calls, Ended, Replies, Guarded

\* The invariant across PutFromPath.
LEMMA PutFromPathKeeps ==
  ASSUME IInv, NEW u \in Uploads, NEW k \in Keys, put_from_path(u, k)
  PROVE  IInv'
<1> USE S3Assumption DEF IInv, put_from_path, Call, End, bucket, future, cancel, drain,
         Calls, Ended, Guarded, Replies, Answers
<1>1. Typed'
  BY DEF Typed
<1>2. Fresh'
  BY DEF Typed, Fresh
<1>3. Settled'
  BY DEF Typed, Fresh, Settled
<1>4. DrainSound'
  BY DEF Typed, Fresh, Settled, DrainSound
<1>5. OneOwner'
  BY DEF Typed, Fresh, DrainSound, OneOwner
<1>6. KnownUploadsOwned'
  BY DEF Typed, Fresh, Settled, DrainSound, OneOwner, KnownUploadsOwned
<1>7. ShutdownOkClears'
  BY DEF Typed, Fresh, Settled, DrainSound, ShutdownOkClears
<1> QED BY <1>1, <1>2, <1>3, <1>4, <1>5, <1>6, <1>7

\* The invariant across PutReply.
LEMMA PutReplyKeeps ==
  ASSUME IInv, NEW u \in Uploads, PutReply(u)
  PROVE  IInv'
<1> USE S3Assumption DEF IInv, PutReply, End, bucket, future, cancel, drain,
         Calls, Ended, Guarded, Replies, Answers
<1>1. Typed'
  BY DEF Typed
<1>2. Fresh'
  BY DEF Typed, Fresh
<1>3. Settled'
  BY DEF Typed, Fresh, Settled
<1>4. DrainSound'
  BY DEF Typed, Fresh, Settled, DrainSound
<1>5. OneOwner'
  BY DEF Typed, Fresh, DrainSound, OneOwner
<1>6. KnownUploadsOwned'
  BY DEF Typed, Fresh, Settled, DrainSound, OneOwner, KnownUploadsOwned
<1>7. ShutdownOkClears'
  BY DEF Typed, Fresh, Settled, DrainSound, ShutdownOkClears
<1> QED BY <1>1, <1>2, <1>3, <1>4, <1>5, <1>6, <1>7

\* The invariant across CreateReply.
LEMMA CreateReplyKeeps ==
  ASSUME IInv, NEW u \in Uploads, CreateReply(u)
  PROVE  IInv'
<1> USE S3Assumption DEF IInv, CreateReply, End, bucket, future, cancel, drain,
         Calls, Ended, Guarded, Replies, Answers
<1>1. Typed'
  BY DEF Typed
<1>2. Fresh'
  BY DEF Typed, Fresh
<1>3. Settled'
  BY DEF Typed, Fresh, Settled
<1>4. DrainSound'
  BY DEF Typed, Fresh, Settled, DrainSound
<1>5. OneOwner'
  BY DEF Typed, Fresh, DrainSound, OneOwner
<1>6. KnownUploadsOwned'
  BY DEF Typed, Fresh, Settled, DrainSound, OneOwner, KnownUploadsOwned
<1>7. ShutdownOkClears'
  BY DEF Typed, Fresh, Settled, DrainSound, ShutdownOkClears
<1> QED BY <1>1, <1>2, <1>3, <1>4, <1>5, <1>6, <1>7

\* The invariant across NextPart.
LEMMA NextPartKeeps ==
  ASSUME IInv, NEW u \in Uploads, NextPart(u)
  PROVE  IInv'
<1> USE S3Assumption DEF IInv, NextPart, Call, bucket, future, cancel, drain,
         Calls, Ended, Guarded, Replies, Answers
<1>1. Typed'
  BY DEF Typed
<1>2. Fresh'
  BY DEF Typed, Fresh
<1>3. Settled'
  BY DEF Typed, Fresh, Settled
<1>4. DrainSound'
  BY DEF Typed, Fresh, Settled, DrainSound
<1>5. OneOwner'
  BY DEF Typed, Fresh, DrainSound, OneOwner
<1>6. KnownUploadsOwned'
  BY DEF Typed, Fresh, Settled, DrainSound, OneOwner, KnownUploadsOwned
<1>7. ShutdownOkClears'
  BY DEF Typed, Fresh, Settled, DrainSound, ShutdownOkClears
<1> QED BY <1>1, <1>2, <1>3, <1>4, <1>5, <1>6, <1>7

\* The invariant across PartReply.
LEMMA PartReplyKeeps ==
  ASSUME IInv, NEW u \in Uploads, PartReply(u)
  PROVE  IInv'
<1> USE S3Assumption DEF IInv, PartReply, Call, bucket, future, cancel, drain,
         Calls, Ended, Guarded, Replies, Answers
<1>1. Typed'
  BY DEF Typed
<1>2. Fresh'
  BY DEF Typed, Fresh
<1>3. Settled'
  BY DEF Typed, Fresh, Settled
<1>4. DrainSound'
  BY DEF Typed, Fresh, Settled, DrainSound
<1>5. OneOwner'
  BY DEF Typed, Fresh, DrainSound, OneOwner
<1>6. KnownUploadsOwned'
  BY DEF Typed, Fresh, Settled, DrainSound, OneOwner, KnownUploadsOwned
<1>7. ShutdownOkClears'
  BY DEF Typed, Fresh, Settled, DrainSound, ShutdownOkClears
<1> QED BY <1>1, <1>2, <1>3, <1>4, <1>5, <1>6, <1>7

\* The invariant across CompleteReply.
LEMMA CompleteReplyKeeps ==
  ASSUME IInv, NEW u \in Uploads, CompleteReply(u)
  PROVE  IInv'
<1> USE S3Assumption DEF IInv, CompleteReply, Call, End, bucket, future, cancel, drain,
         Calls, Ended, Guarded, Replies, Answers
<1>1. Typed'
  BY DEF Typed
<1>2. Fresh'
  BY DEF Typed, Fresh
<1>3. Settled'
  BY DEF Typed, Fresh, Settled
<1>4. DrainSound'
  BY DEF Typed, Fresh, Settled, DrainSound
<1>5. OneOwner'
  BY DEF Typed, Fresh, DrainSound, OneOwner
<1>6. KnownUploadsOwned'
  BY DEF Typed, Fresh, Settled, DrainSound, OneOwner, KnownUploadsOwned
<1>7. ShutdownOkClears'
  BY DEF Typed, Fresh, Settled, DrainSound, ShutdownOkClears
<1> QED BY <1>1, <1>2, <1>3, <1>4, <1>5, <1>6, <1>7

\* The invariant across AbortReply.
LEMMA AbortReplyKeeps ==
  ASSUME IInv, NEW u \in Uploads, AbortReply(u)
  PROVE  IInv'
<1> USE S3Assumption DEF IInv, AbortReply, End, bucket, future, cancel, drain,
         Calls, Ended, Guarded, Replies, Answers
<1>1. Typed'
  BY DEF Typed
<1>2. Fresh'
  BY DEF Typed, Fresh
<1>3. Settled'
  BY DEF Typed, Fresh, Settled
<1>4. DrainSound'
  BY DEF Typed, Fresh, Settled, DrainSound
<1>5. OneOwner'
  BY DEF Typed, Fresh, DrainSound, OneOwner
<1>6. KnownUploadsOwned'
  BY DEF Typed, Fresh, Settled, DrainSound, OneOwner, KnownUploadsOwned
<1>7. ShutdownOkClears'
  BY DEF Typed, Fresh, Settled, DrainSound, ShutdownOkClears
<1> QED BY <1>1, <1>2, <1>3, <1>4, <1>5, <1>6, <1>7

\* The invariant across Cancel.
LEMMA CancelKeeps ==
  ASSUME IInv, NEW u \in Uploads, Cancel(u)
  PROVE  IInv'
<1> USE S3Assumption DEF IInv, Cancel, End, bucket, future, cancel, drain,
         Calls, Ended, Guarded, Replies, Answers
<1>1. Typed'
  BY DEF Typed
<1>2. Fresh'
  BY DEF Typed, Fresh
<1>3. Settled'
  BY DEF Typed, Fresh, Settled
<1>4. DrainSound'
  BY DEF Typed, Fresh, Settled, DrainSound
<1>5. OneOwner'
  BY DEF Typed, Fresh, DrainSound, OneOwner
<1>6. KnownUploadsOwned'
  BY DEF Typed, Fresh, Settled, DrainSound, OneOwner, KnownUploadsOwned
<1>7. ShutdownOkClears'
  BY DEF Typed, Fresh, Settled, DrainSound, ShutdownOkClears
<1> QED BY <1>1, <1>2, <1>3, <1>4, <1>5, <1>6, <1>7

\* The invariant across TaskClaim.
LEMMA TaskClaimKeeps ==
  ASSUME IInv, NEW u \in Uploads, TaskClaim(u)
  PROVE  IInv'
<1> USE S3Assumption DEF IInv, TaskClaim, bucket, future, cancel, drain,
         Calls, Ended, Guarded, Replies, Answers
<1>1. Typed'
  BY DEF Typed
<1>2. Fresh'
  BY DEF Typed, Fresh
<1>3. Settled'
  BY DEF Typed, Fresh, Settled
<1>4. DrainSound'
  BY DEF Typed, Fresh, Settled, DrainSound
<1>5. OneOwner'
  BY DEF Typed, Fresh, DrainSound, OneOwner
<1>6. KnownUploadsOwned'
  BY DEF Typed, Fresh, Settled, DrainSound, OneOwner, KnownUploadsOwned
<1>7. ShutdownOkClears'
  BY DEF Typed, Fresh, Settled, DrainSound, ShutdownOkClears
<1> QED BY <1>1, <1>2, <1>3, <1>4, <1>5, <1>6, <1>7

\* The invariant across TaskReply.
LEMMA TaskReplyKeeps ==
  ASSUME IInv, NEW u \in Uploads, TaskReply(u)
  PROVE  IInv'
<1> USE S3Assumption DEF IInv, TaskReply, bucket, future, cancel, drain,
         Calls, Ended, Guarded, Replies, Answers
<1>1. Typed'
  BY DEF Typed, Fresh
<1>2. Fresh'
  BY DEF Typed, Fresh
<1>3. Settled'
  BY DEF Typed, Fresh, Settled
<1>4. DrainSound'
  BY DEF Typed, Fresh, Settled, DrainSound
<1>5. OneOwner'
  BY DEF Typed, Fresh, DrainSound, OneOwner
<1>6. KnownUploadsOwned'
  BY DEF Typed, Fresh, Settled, DrainSound, OneOwner, KnownUploadsOwned
<1>7. ShutdownOkClears'
  BY DEF Typed, Fresh, Settled, DrainSound, ShutdownOkClears
<1> QED BY <1>1, <1>2, <1>3, <1>4, <1>5, <1>6, <1>7

\* The invariant across ServeFuture.
LEMMA ServeFutureKeeps ==
  ASSUME IInv, NEW u \in Uploads, NEW answer \in Answers, ServeFuture(u, answer)
  PROVE  IInv'
<1> USE S3Assumption DEF IInv, ServeFuture, bucket, future, cancel, drain,
         Calls, Ended, Guarded, Replies, Answers
<1>1. Typed'
  BY ServedPending DEF Typed
<1>2. Fresh'
  BY ServedPending DEF Typed, Fresh
<1>3. Settled'
  BY ServedPending DEF Typed, Fresh, Settled
<1>4. DrainSound'
  BY ServedPending DEF Typed, Fresh, Settled, DrainSound
<1>5. OneOwner'
  BY ServedPending DEF Typed, Fresh, DrainSound, OneOwner
<1>6. KnownUploadsOwned'
  BY ServedPending DEF Typed, Fresh, Settled, DrainSound, OneOwner, KnownUploadsOwned
<1>7. ShutdownOkClears'
  BY ServedPending DEF Typed, Fresh, Settled, DrainSound, ShutdownOkClears
<1> QED BY <1>1, <1>2, <1>3, <1>4, <1>5, <1>6, <1>7

\* The invariant across ServeTask.
LEMMA ServeTaskKeeps ==
  ASSUME IInv, NEW u \in Uploads, NEW answer \in Answers, ServeTask(u, answer)
  PROVE  IInv'
<1> USE S3Assumption DEF IInv, ServeTask, bucket, future, cancel, drain,
         Calls, Ended, Guarded, Replies, Answers
<1>1. Typed'
  BY ServedPending DEF Typed
<1>2. Fresh'
  BY ServedPending DEF Typed, Fresh
<1>3. Settled'
  BY ServedPending DEF Typed, Fresh, Settled
<1>4. DrainSound'
  BY ServedPending DEF Typed, Fresh, Settled, DrainSound
<1>5. OneOwner'
  BY ServedPending DEF Typed, Fresh, DrainSound, OneOwner
<1>6. KnownUploadsOwned'
  BY ServedPending DEF Typed, Fresh, Settled, DrainSound, OneOwner, KnownUploadsOwned
<1>7. ShutdownOkClears'
  BY ServedPending DEF Typed, Fresh, Settled, DrainSound, ShutdownOkClears
<1> QED BY <1>1, <1>2, <1>3, <1>4, <1>5, <1>6, <1>7

\* The invariant across ServeShutdown.
LEMMA ServeShutdownKeeps ==
  ASSUME IInv, NEW answer \in Answers, ServeShutdown(answer)
  PROVE  IInv'
<1> USE S3Assumption DEF IInv, ServeShutdown, bucket, future, cancel, drain,
         Calls, Ended, Guarded, Replies, Answers
<1>1. Typed'
  BY ServedPending DEF Typed
<1>2. Fresh'
  BY ServedPending DEF Typed, Fresh
<1>3. Settled'
  BY ServedPending DEF Typed, Fresh, Settled
<1>4. DrainSound'
  BY ServedPending DEF Typed, Fresh, Settled, DrainSound
<1>5. OneOwner'
  BY ServedPending DEF Typed, Fresh, DrainSound, OneOwner
<1>6. KnownUploadsOwned'
  BY ServedPending DEF Typed, Fresh, Settled, DrainSound, OneOwner, KnownUploadsOwned
<1>7. ShutdownOkClears'
  BY ServedPending DEF Typed, Fresh, Settled, DrainSound, ShutdownOkClears
<1> QED BY <1>1, <1>2, <1>3, <1>4, <1>5, <1>6, <1>7

\* The invariant across ServeStray.
LEMMA ServeStrayKeeps ==
  ASSUME IInv, NEW r \in stray, ServeStray(r)
  PROVE  IInv'
<1> USE S3Assumption DEF IInv, ServeStray, bucket, future, cancel, drain,
         Calls, Ended, Guarded, Replies, Answers
<1>1. Typed'
  BY StrayPending DEF Typed
<1>2. Fresh'
  BY StrayPending DEF Typed, Fresh
<1>3. Settled'
  BY StrayPending DEF Typed, Fresh, Settled
<1>4. DrainSound'
  BY StrayPending DEF Typed, Fresh, Settled, DrainSound
<1>5. OneOwner'
  BY StrayPending DEF Typed, Fresh, DrainSound, OneOwner
<1>6. KnownUploadsOwned'
  BY StrayPending DEF Typed, Fresh, Settled, DrainSound, OneOwner, KnownUploadsOwned
<1>7. ShutdownOkClears'
  BY StrayPending DEF Typed, Fresh, Settled, DrainSound, ShutdownOkClears
<1> QED BY <1>1, <1>2, <1>3, <1>4, <1>5, <1>6, <1>7

\* The invariant across Drain.
LEMMA DrainKeeps ==
  ASSUME IInv, Drain
  PROVE  IInv'
<1> USE S3Assumption DEF IInv, Drain, bucket, future, cancel, drain,
         Calls, Ended, Guarded, Replies, Answers
<1>1. Typed'
  BY DEF Typed
<1>2. Fresh'
  BY DEF Typed, Fresh
<1>3. Settled'
  BY DEF Typed, Fresh, Settled
<1>4. DrainSound'
  BY DEF Typed, Fresh, Settled, DrainSound
<1>5. OneOwner'
  BY DEF Typed, Fresh, DrainSound, OneOwner
<1>6. KnownUploadsOwned'
  BY DEF Typed, Fresh, Settled, DrainSound, OneOwner, KnownUploadsOwned
<1>7. ShutdownOkClears'
  BY DEF Typed, Fresh, Settled, DrainSound, ShutdownOkClears
<1> QED BY <1>1, <1>2, <1>3, <1>4, <1>5, <1>6, <1>7

\* The invariant across DrainNext.
LEMMA DrainNextKeeps ==
  ASSUME IInv, DrainNext
  PROVE  IInv'
<1> USE S3Assumption DEF IInv, DrainNext, bucket, future, cancel, drain,
         Calls, Ended, Guarded, Replies, Answers
<1>1. Typed'
  BY DEF Typed
<1>2. Fresh'
  BY DEF Typed, Fresh
<1>3. Settled'
  BY DEF Typed, Fresh, Settled
<1>4. DrainSound'
  BY DEF Typed, Fresh, Settled, DrainSound
<1>5. OneOwner'
  BY DEF Typed, Fresh, DrainSound, OneOwner
<1>6. KnownUploadsOwned'
  BY DEF Typed, Fresh, Settled, DrainSound, OneOwner, KnownUploadsOwned
<1>7. ShutdownOkClears'
  BY DEF Typed, Fresh, Settled, DrainSound, ShutdownOkClears
<1> QED BY <1>1, <1>2, <1>3, <1>4, <1>5, <1>6, <1>7

\* The invariant across DrainReply.
LEMMA DrainReplyKeeps ==
  ASSUME IInv, DrainReply
  PROVE  IInv'
<1> USE S3Assumption DEF IInv, DrainReply, bucket, future, cancel, drain,
         Calls, Ended, Guarded, Replies, Answers
<1>1. Typed'
  BY DEF Typed, DrainSound
<1>2. Fresh'
  BY DEF Typed, Fresh
<1>3. Settled'
  BY DEF Typed, Fresh, Settled
<1>4. DrainSound'
  BY DEF Typed, Fresh, Settled, DrainSound
<1>5. OneOwner'
  BY DEF Typed, Fresh, DrainSound, OneOwner
<1>6. KnownUploadsOwned'
  BY DEF Typed, Fresh, Settled, DrainSound, OneOwner, KnownUploadsOwned
<1>7. ShutdownOkClears'
  BY DEF Typed, Fresh, Settled, DrainSound, ShutdownOkClears
<1> QED BY <1>1, <1>2, <1>3, <1>4, <1>5, <1>6, <1>7

\* The invariant across Drop.
LEMMA DropKeeps ==
  ASSUME IInv, NEW aborted \in SUBSET registry, Drop(aborted)
  PROVE  IInv'
<1> USE S3Assumption DEF IInv, Drop, bucket, future, cancel, drain,
         Calls, Ended, Guarded, Replies, Answers
<1>1. Typed'
  BY DEF Typed
<1>2. Fresh'
  BY DEF Typed, Fresh
<1>3. Settled'
  BY DEF Typed, Fresh, Settled
<1>4. DrainSound'
  BY DEF Typed, Fresh, Settled, DrainSound
<1>5. OneOwner'
  BY DEF Typed, Fresh, DrainSound, OneOwner
<1>6. KnownUploadsOwned'
  BY DEF Typed, Fresh, Settled, DrainSound, OneOwner, KnownUploadsOwned
<1>7. ShutdownOkClears'
  BY DEF Typed, Fresh, Settled, DrainSound, ShutdownOkClears
<1> QED BY <1>1, <1>2, <1>3, <1>4, <1>5, <1>6, <1>7

\* Every step of the backend and of the bucket keeps the invariant.
THEOREM NextInv == IInv /\ [Next]_vars => IInv'
<1> SUFFICES ASSUME IInv, [Next]_vars PROVE IInv'
  OBVIOUS
<1>1. CASE \E u \in Uploads, k \in Keys : put_from_path(u, k)
  BY <1>1, PutFromPathKeeps
<1>2. CASE \E u \in Uploads :
             \/ PutReply(u) \/ CreateReply(u) \/ NextPart(u) \/ PartReply(u)
             \/ CompleteReply(u) \/ AbortReply(u) \/ Cancel(u)
  BY <1>2, PutReplyKeeps, CreateReplyKeeps, NextPartKeeps, PartReplyKeeps,
     CompleteReplyKeeps, AbortReplyKeeps, CancelKeeps
<1>3. CASE \E u \in Uploads : TaskClaim(u) \/ TaskReply(u)
  BY <1>3, TaskClaimKeeps, TaskReplyKeeps
<1>4. CASE \E u \in Uploads, answer \in Answers : ServeFuture(u, answer) \/ ServeTask(u, answer)
  BY <1>4, ServeFutureKeeps, ServeTaskKeeps
<1>5. CASE Drain \/ DrainNext \/ DrainReply
  BY <1>5, DrainKeeps, DrainNextKeeps, DrainReplyKeeps
<1>6. CASE \E answer \in Answers : ServeShutdown(answer)
  BY <1>6, ServeShutdownKeeps
<1>7. CASE \E r \in stray : ServeStray(r)
  BY <1>7, ServeStrayKeeps
<1>8. CASE \E aborted \in SUBSET registry : Drop(aborted)
  BY <1>8, DropKeeps
<1>9. CASE UNCHANGED vars
  BY <1>9 DEF vars, bucket, future, cancel, drain, IInv, Typed, Fresh, Settled, DrainSound,
     OneOwner, KnownUploadsOwned, ShutdownOkClears
<1> QED
  BY <1>1, <1>2, <1>3, <1>4, <1>5, <1>6, <1>7, <1>8, <1>9 DEF Next

\* For any number of concurrent uploads, failed or lost requests and dropped
\* futures: while the storage lives, every pending upload whose id arrived is
\* registered or being aborted (multipart_upload, ActiveUploadGuard).
THEOREM UploadsNeverForgotten == Spec => []KnownUploadsOwned
<1>1. IInv => KnownUploadsOwned
  BY DEF IInv
<1> QED
  BY <1>1, InitInv, NextInv, PTL DEF Spec

\* The registry's entries have one owner at a time: the registry, the shutdown
\* that drained them, or the task of a dropped guard.
THEOREM EntriesHaveOneOwner == Spec => []OneOwner
<1>1. IInv => OneOwner
  BY DEF IInv
<1> QED
  BY <1>1, InitInv, NextInv, PTL DEF Spec

\* abort_all_active_uploads that returns Ok has aborted, or found completed,
\* everything it drained.
THEOREM ShutdownIsThorough == Spec => []ShutdownOkClears
<1>1. IInv => ShutdownOkClears
  BY DEF IInv
<1> QED
  BY <1>1, InitInv, NextInv, PTL DEF Spec

-----------------------------------------------------------------------------
(* The parts of an upload. *)

\* Parts that follow each other from the first byte to `end`.
Covers(parts, end) ==
  IF parts = << >> THEN end = 0
  ELSE /\ parts[1][1] = 0 /\ parts[Len(parts)][2] = end
       /\ \A i \in 1..(Len(parts) - 1) : parts[i][2] = parts[i + 1][1]

\* How far upload_parts is, and what the bucket has of it.
UploadSound(u) ==
  /\ Len(stored[u]) <= MaxParts
  /\ pc[u] \in {"idle", "create"} => stored[u] = << >> /\ offset[u] = 0 /\ partNo[u] = 1
  /\ pc[u] \in {"create", "part", "complete"} => 0 < Size(u)
  /\ pc[u] = "part" =>
       /\ offset[u] = Size(u) \/ offset[u] = (partNo[u] - 1) * multipart_part_size(Size(u))
       /\ offset[u] <= Size(u)
       /\ reply[u] # "none" => offset[u] < Size(u)
       /\ reply[u] \in {"none", "wait"} => Covers(stored[u], offset[u]) /\ Len(stored[u]) = partNo[u] - 1
       /\ reply[u] = "ok" => Covers(stored[u], NextEnd(u)) /\ Len(stored[u]) = partNo[u]
  /\ pc[u] = "complete" => Covers(stored[u], Size(u))
  /\ pc[u] = "ok" \/ (pc[u] \in {"put", "complete"} /\ reply[u] = "ok") => object[key[u]] # Absent

\* A request that outlives its future is the only one of its upload.
StraySound(r) ==
  /\ pc[r.up] = "cancelled"
  /\ \A q \in stray : q.up = r.up => q = r
  /\ r.op = "part" => Len(stored[r.up]) < MaxParts
  /\ r.op = "complete" => Covers(stored[r.up], Size(r.up)) /\ 0 < Size(r.up)

\* The part of the type invariant that is about the bucket and the parts.
PartTypes ==
  /\ stored \in [Uploads -> Seq(Nat \X Nat)] /\ object \in [Keys -> Seq(Nat \X Nat)]
  /\ key \in [Uploads -> Keys] /\ offset \in [Uploads -> Nat]
  /\ partNo \in [Uploads -> 1..(MaxParts + 1)]

PInv ==
  /\ PartTypes
  /\ \A u \in Uploads : UploadSound(u)
  /\ \A r \in stray : StraySound(r)
  /\ \A k \in Keys : object[k] # Absent => Covers(object[k], SizeOf[k])

\* A part is not empty, and as many parts as S3 allows hold the file.
LEMMA PartsAreEnough ==
  ASSUME NEW size \in Nat
  PROVE  LET part == multipart_part_size(size)
         IN  part \in Nat /\ 1 <= part /\ size <= MaxParts * part
<1>1. PICK whole \in Nat : whole = size \div MaxParts
  BY S3Assumption
<1>2. PICK left \in Nat : left = size % MaxParts
  BY S3Assumption
<1>3. size = MaxParts * whole + left /\ left < MaxParts /\ MaxParts \in Nat
  BY <1>1, <1>2, S3Assumption
<1>4. PICK required \in Nat : required = whole + (IF left = 0 THEN 0 ELSE 1)
  OBVIOUS
<1>5. size <= MaxParts * required
  <2>1. CASE left = 0
    BY <1>3, <1>4, <2>1
  <2>2. CASE left # 0
    <3>1. MaxParts * (whole + 1) = MaxParts * whole + MaxParts
      BY <1>3
    <3> QED BY <1>3, <1>4, <2>2, <3>1
  <2> QED BY <2>1, <2>2
<1>6. multipart_part_size(size) = IF PartSize > required THEN PartSize ELSE required
  BY <1>1, <1>2, <1>4 DEF multipart_part_size
<1>7. CASE PartSize > required
  <2>1. MaxParts * required <= MaxParts * PartSize
    BY <1>3, <1>7, S3Assumption
  <2> QED BY <1>3, <1>5, <1>6, <1>7, <2>1, S3Assumption
<1>8. CASE ~(PartSize > required)
  <2>1. 1 <= required
    BY <1>8, S3Assumption
  <2> QED BY <1>5, <1>6, <1>8, <2>1
<1> QED BY <1>7, <1>8

\* One more part, from where the others end.
LEMMA CoversAppend ==
  ASSUME NEW s \in Seq(Nat \X Nat), NEW a \in Nat, NEW b \in Nat, Covers(s, a)
  PROVE  /\ Append(s, <<a, b>>) \in Seq(Nat \X Nat) /\ Len(Append(s, <<a, b>>)) = Len(s) + 1
         /\ Covers(Append(s, <<a, b>>), b)
<1>1. PICK n \in Nat : n = Len(s)
  OBVIOUS
<1>2. PICK t \in Seq(Nat \X Nat) : t = Append(s, <<a, b>>)
  <2>1. PICK e \in Nat \X Nat : e = <<a, b>>
    OBVIOUS
  <2>2. Append(s, e) \in Seq(Nat \X Nat)
    OBVIOUS
  <2> QED BY <2>1, <2>2
<1>3. Len(t) = n + 1 /\ t[n + 1] = <<a, b>> /\ \A i \in 1..n : t[i] = s[i]
  BY <1>1, <1>2
<1>4. t # << >>
  BY <1>1, <1>3
<1>5. Covers(t, b)
  <2>1. t[Len(t)][2] = b
    BY <1>3
  <2>2. CASE s = << >>
    <3>1. n = 0 /\ a = 0
      BY <1>1, <2>2 DEF Covers
    <3> QED BY <1>3, <1>4, <2>1, <3>1 DEF Covers
  <2>3. CASE s # << >>
    <3>1. /\ s[1][1] = 0 /\ s[n][2] = a /\ 1 <= n
          /\ \A i \in 1..(n - 1) : s[i][2] = s[i + 1][1]
      BY <1>1, <2>3 DEF Covers
    <3>2. t[1][1] = 0
      BY <1>1, <1>3, <3>1
    <3>3. ASSUME NEW i \in 1..n PROVE t[i][2] = t[i + 1][1]
      <4>1. CASE i = n
        BY <1>3, <3>1, <4>1
      <4>2. CASE i # n
        <5>1. i \in 1..(n - 1) /\ i + 1 \in 1..n
          BY <1>1, <4>2
        <5> QED BY <1>3, <3>1, <5>1
      <4> QED BY <4>1, <4>2
    <3> QED BY <1>1, <1>3, <1>4, <2>1, <3>2, <3>3 DEF Covers
  <2> QED BY <2>2, <2>3
<1> QED BY <1>1, <1>2, <1>3, <1>5

\* The end of the next part, and that there is a number for it.
LEMMA NextEndIs ==
  ASSUME PartTypes, NEW u \in Uploads
  PROVE  /\ NextEnd(u) \in Nat /\ Size(u) \in Nat /\ NextEnd(u) <= Size(u)
         /\ offset[u] \in Nat /\ partNo[u] \in Nat /\ 1 <= partNo[u]
         /\ offset[u] = (partNo[u] - 1) * multipart_part_size(Size(u)) =>
              /\ NextEnd(u) = Size(u) \/ NextEnd(u) = partNo[u] * multipart_part_size(Size(u))
              /\ offset[u] < Size(u) => partNo[u] <= MaxParts
<1>1. PICK size \in Nat : size = Size(u)
  BY S3Assumption DEF PartTypes, Size
<1>2. PICK part \in Nat : part = multipart_part_size(size) /\ 1 <= part /\ size <= MaxParts * part
  BY PartsAreEnough
<1>3. PICK off \in Nat : off = offset[u]
  BY DEF PartTypes
<1>4. PICK no \in Nat : no = partNo[u] /\ 1 <= no
  BY S3Assumption DEF PartTypes
<1>5. NextEnd(u) = IF off + part < size THEN off + part ELSE size
  BY <1>1, <1>2, <1>3 DEF NextEnd
<1>6. ASSUME off = (no - 1) * part
      PROVE  /\ NextEnd(u) = size \/ NextEnd(u) = no * part
             /\ off < size => no <= MaxParts
  <2>1. no * part = (no - 1) * part + part
    BY <1>2, <1>4
  <2>2. ASSUME off < size PROVE no <= MaxParts
    <3>1. PICK m, n \in Nat : m = MaxParts /\ n = no - 1
      BY <1>4, S3Assumption
    <3>2. n * part < m * part
      BY <1>1, <1>2, <1>3, <1>6, <2>2, <3>1
    <3>3. n < m
      BY <1>2, <3>1, <3>2
    <3> QED BY <1>4, <3>1, <3>3
  <2> QED BY <1>5, <1>6, <2>1, <2>2
<1> QED BY <1>1, <1>2, <1>3, <1>4, <1>5, <1>6

\* What a request does to parts and objects when it takes effect.
LEMMA ApplyParts ==
  ASSUME PInv, NEW u \in Uploads, NEW op, Apply(op, u),
         op = "part" => Len(stored[u]) < MaxParts,
         op = "complete" => Covers(stored[u], Size(u)) /\ 0 < Size(u)
  PROVE  /\ stored' \in [Uploads -> Seq(Nat \X Nat)] /\ object' \in [Keys -> Seq(Nat \X Nat)]
         /\ Len(stored'[u]) <= MaxParts /\ \A v \in Uploads \ {u} : stored'[v] = stored[v]
         /\ op # "part" => stored' = stored
         /\ op = "part" => stored'[u] = Append(stored[u], <<offset[u], NextEnd(u)>>)
         /\ \A k \in Keys : object[k] # Absent => object'[k] # Absent
         /\ \A k \in Keys : object'[k] # Absent => Covers(object'[k], SizeOf[k])
         /\ op \in {"put", "complete"} => object'[key[u]] # Absent
<1>1. /\ stored \in [Uploads -> Seq(Nat \X Nat)] /\ object \in [Keys -> Seq(Nat \X Nat)]
      /\ key[u] \in Keys /\ Size(u) \in Nat /\ Size(u) = SizeOf[key[u]]
      /\ offset[u] \in Nat /\ NextEnd(u) \in Nat
      /\ Len(stored[u]) <= MaxParts
      /\ \A k \in Keys : object[k] # Absent => Covers(object[k], SizeOf[k])
  BY NextEndIs DEF PInv, PartTypes, UploadSound, Size
<1>2. CASE op = "part"
  <2>1. PICK e \in Nat \X Nat : e = <<offset[u], NextEnd(u)>>
    BY <1>1
  <2>2. stored' = [stored EXCEPT ![u] = Append(stored[u], e)] /\ object' = object
    BY <1>1, <1>2, <2>1 DEF Apply
  <2>3. PICK s \in Seq(Nat \X Nat) : s = stored[u]
    BY <1>1
  <2>4. Append(s, e) \in Seq(Nat \X Nat) /\ Len(Append(s, e)) = Len(s) + 1 /\ Len(s) \in Nat
    OBVIOUS
  <2>5. /\ stored' \in [Uploads -> Seq(Nat \X Nat)] /\ stored'[u] = Append(s, e)
        /\ \A v \in Uploads \ {u} : stored'[v] = stored[v]
    BY <1>1, <2>2, <2>3, <2>4
  <2>6. Len(stored'[u]) <= MaxParts
    BY <1>2, <2>3, <2>4, <2>5, S3Assumption
  <2> QED BY <1>1, <1>2, <2>1, <2>2, <2>3, <2>5, <2>6
<1>3. CASE op \in {"put", "complete"}
  <2>1. PICK parts \in Seq(Nat \X Nat) :
          /\ parts # << >> /\ Covers(parts, Size(u))
          /\ object' = [object EXCEPT ![key[u]] = parts] /\ stored' = stored
    <3>1. CASE op = "put"
      <4>1. PICK e \in Nat \X Nat : e = <<0, Size(u)>>
        BY <1>1
      <4>2. PICK s \in Seq(Nat \X Nat) : s = <<e>>
        <5>1. <<e>> \in Seq(Nat \X Nat)
          OBVIOUS
        <5> QED BY <5>1
      <4>3. s # << >> /\ Len(s) = 1 /\ s[1] = e /\ e[1] = 0 /\ e[2] = Size(u)
        BY <4>1, <4>2
      <4>4. Covers(s, Size(u))
        BY <4>3 DEF Covers
      <4> QED BY <3>1, <4>1, <4>2, <4>3, <4>4 DEF Apply
    <3>2. CASE op = "complete"
      <4>1. stored[u] # << >>
        BY <1>1, <3>2 DEF Covers
      <4> QED BY <1>1, <3>2, <4>1 DEF Apply
    <3> QED BY <1>3, <3>1, <3>2
  <2>2. /\ object' \in [Keys -> Seq(Nat \X Nat)] /\ object'[key[u]] = parts
        /\ \A k \in Keys : k # key[u] => object'[k] = object[k]
    BY <1>1, <2>1
  <2> QED BY <1>1, <1>3, <2>1, <2>2 DEF Absent
<1>4. CASE op \notin {"part", "put", "complete"}
  <2>1. stored' = stored /\ object' = object
    BY <1>4 DEF Apply
  <2> QED BY <1>1, <1>4, <2>1
<1> QED BY <1>2, <1>3, <1>4

\* Nothing that parts and objects depend on changes.
LEMMA PartsFrame ==
  ASSUME PInv, UNCHANGED <<stored, object, stray, future>>
  PROVE  PInv'
BY DEF PInv, PartTypes, UploadSound, StraySound, Covers, Size, NextEnd, future

\* One upload moves: what belongs to the others is as it was.
LEMMA UploadMoves ==
  ASSUME Typed, PInv, PartTypes', NEW u \in Uploads,
         \A v \in Uploads \ {u} :
           /\ stored'[v] = stored[v] /\ pc'[v] = pc[v] /\ reply'[v] = reply[v]
           /\ key'[v] = key[v] /\ offset'[v] = offset[v] /\ partNo'[v] = partNo[v],
         \A k \in Keys : object[k] # Absent => object'[k] # Absent,
         \A k \in Keys : object'[k] # Absent => Covers(object'[k], SizeOf[k]),
         \A r \in stray' : r.up \in Uploads /\ (r.up # u => r \in stray),
         UploadSound(u)',
         \A r \in stray' : r.up = u => StraySound(r)'
  PROVE  PInv'
<1>1. \A v \in Uploads \ {u} : Size(v)' = Size(v) /\ NextEnd(v)' = NextEnd(v)
  BY DEF Size, NextEnd
<1>2. ASSUME NEW v \in Uploads PROVE UploadSound(v)'
  <2>1. CASE v # u
    <3>1. UploadSound(v) /\ key[v] \in Keys
      BY DEF PInv, PartTypes
    <3> QED BY <1>1, <2>1, <3>1 DEF UploadSound
  <2> QED BY <2>1
<1>3. ASSUME NEW r \in stray' PROVE StraySound(r)'
  <2>1. CASE r.up # u
    <3>1. r \in stray /\ StraySound(r) /\ r.up \in Uploads \ {u}
      BY <2>1 DEF PInv
    <3>2. \A q \in stray' : q.up = r.up => q \in stray
      BY <3>1
    <3> QED BY <1>1, <3>1, <3>2 DEF StraySound
  <2> QED BY <2>1
<1> QED BY <1>2, <1>3 DEF PInv

\* put_from_path begins, in a slot that has no upload yet.
LEMMA PutFromPathParts ==
  ASSUME Typed, PInv, NEW u \in Uploads, NEW k \in Keys, put_from_path(u, k)
  PROVE  PInv'
<1>1. /\ pc[u] = "idle" /\ key' = [key EXCEPT ![u] = k]
      /\ UNCHANGED <<stored, object, stray, offset, partNo>>
      /\ \E place \in {"put", "create", "refused"}, answer \in {"wait", "none"} :
           /\ pc' = [pc EXCEPT ![u] = place] /\ reply' = [reply EXCEPT ![u] = answer]
           /\ place = "create" => SizeOf[k] >= Threshold
  BY DEF put_from_path, Call, End, bucket
<1>2. /\ pc'[u] \in {"put", "create", "refused"} /\ reply'[u] \in {"wait", "none"} /\ key'[u] = k
      /\ pc'[u] = "create" => 0 < SizeOf[k]
      /\ \A v \in Uploads \ {u} : pc'[v] = pc[v] /\ reply'[v] = reply[v] /\ key'[v] = key[v]
  BY <1>1, S3Assumption DEF Typed, PInv, PartTypes
<1>3. PartTypes'
  BY <1>1 DEF PInv, PartTypes
<1>4. UploadSound(u) /\ UploadSound(u)'
  BY <1>1, <1>2 DEF PInv, UploadSound, Size
<1>5. \A r \in stray : r.up # u /\ r.up \in Uploads
  BY <1>1 DEF PInv, StraySound, Typed
<1>6. \A q \in Keys : object'[q] # Absent => Covers(object'[q], SizeOf[q])
  BY <1>1 DEF PInv
<1> QED BY <1>1, <1>2, <1>3, <1>4, <1>5, <1>6, UploadMoves

\* A future whose requests were answered has none that is late.
LEMMA NoStray ==
  ASSUME Typed, PInv, NEW u \in Uploads, pc[u] # "cancelled"
  PROVE  \A r \in stray : r.up # u /\ r.up \in Uploads
BY DEF PInv, StraySound, Typed

\* The bucket does not change, and nor does how far the upload is.
LEMMA FutureMoves ==
  ASSUME Typed, PInv, NEW u \in Uploads, pc[u] # "cancelled", NEW place, NEW answer,
         pc' = [pc EXCEPT ![u] = place], reply' = [reply EXCEPT ![u] = answer],
         UNCHANGED <<stored, object, stray, key, offset, partNo>>,
         UploadSound(u)'
  PROVE  PInv'
<1>1. \A v \in Uploads \ {u} : pc'[v] = pc[v] /\ reply'[v] = reply[v]
  BY DEF Typed
<1>2. PartTypes'
  BY DEF PInv, PartTypes
<1>3. \A k \in Keys : object'[k] # Absent => Covers(object'[k], SizeOf[k])
  BY DEF PInv
<1>4. \A r \in stray' : r.up \in Uploads /\ r.up # u /\ r \in stray
  BY NoStray
<1> QED BY <1>1, <1>2, <1>3, <1>4, UploadMoves

\* The answer to put_object.
LEMMA PutReplyParts ==
  ASSUME Typed, PInv, NEW u \in Uploads, PutReply(u)
  PROVE  PInv'
<1>1. PICK place : place = IF reply[u] = "ok" THEN "ok" ELSE "failed"
  OBVIOUS
<1>2. /\ pc[u] = "put" /\ pc' = [pc EXCEPT ![u] = place] /\ reply' = [reply EXCEPT ![u] = "none"]
      /\ UNCHANGED <<stored, object, stray, key, offset, partNo>>
  BY <1>1 DEF PutReply, End, bucket
<1>3. pc'[u] = place /\ reply'[u] = "none"
  BY <1>2 DEF Typed
<1>4. UploadSound(u)'
  BY <1>1, <1>2, <1>3 DEF PInv, UploadSound
<1> QED BY <1>2, <1>4, FutureMoves

\* The answer to create_multipart_upload: the first part is next.
LEMMA CreateReplyParts ==
  ASSUME Typed, PInv, NEW u \in Uploads, CreateReply(u)
  PROVE  PInv'
<1>1. PICK place \in {"part", "failed"} :
        /\ pc[u] = "create" /\ pc' = [pc EXCEPT ![u] = place] /\ reply' = [reply EXCEPT ![u] = "none"]
        /\ UNCHANGED <<stored, object, stray, key, offset, partNo>>
  BY DEF CreateReply, End, bucket
<1>2. pc'[u] = place /\ reply'[u] = "none" /\ Size(u)' = Size(u)
  BY <1>1 DEF Typed, Size
<1>3. /\ stored[u] = << >> /\ offset[u] = 0 /\ partNo[u] = 1 /\ 0 < Size(u) /\ Len(stored[u]) <= MaxParts
  BY <1>1 DEF PInv, UploadSound
<1>4. PICK part \in Nat : part = multipart_part_size(Size(u))
  BY NextEndIs, PartsAreEnough DEF PInv
<1>5. 0 = (1 - 1) * part /\ Covers(<< >>, 0) /\ Len(<< >>) = 1 - 1 /\ 0 <= Size(u)
  BY <1>3, <1>4, NextEndIs DEF PInv, Covers
<1>6. UploadSound(u)'
  BY <1>1, <1>2, <1>3, <1>4, <1>5 DEF UploadSound
<1> QED BY <1>1, <1>6, FutureMoves

\* The next part is sent, or all of them are there.
LEMMA NextPartParts ==
  ASSUME Typed, PInv, NEW u \in Uploads, NextPart(u)
  PROVE  PInv'
<1>1. PICK place \in {"part", "abort", "complete"} :
        /\ pc[u] = "part" /\ reply[u] = "none"
        /\ pc' = [pc EXCEPT ![u] = place] /\ reply' = [reply EXCEPT ![u] = "wait"]
        /\ place = "part" => offset[u] < Size(u)
        /\ place = "complete" => offset[u] >= Size(u)
        /\ UNCHANGED <<stored, object, stray, key, offset, partNo>>
  BY DEF NextPart, Call, bucket
<1>2. pc'[u] = place /\ reply'[u] = "wait" /\ Size(u)' = Size(u)
  BY <1>1 DEF Typed, Size
<1>3. /\ Len(stored[u]) <= MaxParts /\ 0 < Size(u) /\ offset[u] <= Size(u)
      /\ offset[u] = Size(u) \/ offset[u] = (partNo[u] - 1) * multipart_part_size(Size(u))
      /\ Covers(stored[u], offset[u]) /\ Len(stored[u]) = partNo[u] - 1
  BY <1>1 DEF PInv, UploadSound
<1>4. place = "complete" => offset[u] = Size(u)
  BY <1>1, <1>3, NextEndIs DEF PInv
<1>5. UploadSound(u)'
  BY <1>1, <1>2, <1>3, <1>4 DEF UploadSound
<1> QED BY <1>1, <1>5, FutureMoves

\* A part is acknowledged: the next one begins where it ends.
LEMMA PartReplyParts ==
  ASSUME Typed, PInv, NEW u \in Uploads, PartReply(u)
  PROVE  PInv'
<1>1. /\ pc[u] = "part" /\ reply[u] \in Answers
      /\ UNCHANGED <<stored, object, stray, key>>
  BY DEF PartReply, bucket
<1>2. /\ Len(stored[u]) <= MaxParts /\ 0 < Size(u) /\ offset[u] < Size(u)
      /\ offset[u] = Size(u) \/ offset[u] = (partNo[u] - 1) * multipart_part_size(Size(u))
      /\ reply[u] = "ok" => Covers(stored[u], NextEnd(u)) /\ Len(stored[u]) = partNo[u]
  BY <1>1 DEF PInv, UploadSound, Answers
<1>3. CASE /\ reply[u] = "ok" /\ reply' = [reply EXCEPT ![u] = "none"] /\ pc' = pc
           /\ offset' = [offset EXCEPT ![u] = NextEnd(u)]
           /\ partNo' = [partNo EXCEPT ![u] = partNo[u] + 1]
  <2>1. PICK end, size, no \in Nat : end = NextEnd(u) /\ size = Size(u) /\ no = partNo[u]
    BY NextEndIs DEF PInv
  <2>2. offset[u] \in Nat /\ offset[u] # size
    BY <1>2, <2>1, NextEndIs DEF PInv
  <2>3. /\ end <= size /\ 1 <= no /\ no <= MaxParts
        /\ end = size \/ end = no * multipart_part_size(size)
    BY <1>2, <2>1, <2>2, NextEndIs DEF PInv
  <2>4. PartTypes'
    <3>1. no + 1 \in 1..(MaxParts + 1)
      BY <2>3, S3Assumption
    <3> QED BY <1>1, <1>3, <2>1, <3>1 DEF PInv, PartTypes
  <2>5. /\ pc'[u] = "part" /\ reply'[u] = "none" /\ offset'[u] = end /\ partNo'[u] = no + 1
        /\ \A v \in Uploads \ {u} : /\ pc'[v] = pc[v] /\ reply'[v] = reply[v]
                                    /\ offset'[v] = offset[v] /\ partNo'[v] = partNo[v]
    BY <1>1, <1>3, <2>1 DEF Typed, PInv, PartTypes
  <2>6. Size(u)' = size
    BY <1>1, <2>1 DEF Size
  <2>7. (no + 1) - 1 = no
    OBVIOUS
  <2>8. UploadSound(u)'
    BY <1>1, <1>2, <1>3, <2>1, <2>3, <2>5, <2>6, <2>7 DEF UploadSound
  <2>9. \A r \in stray' : r.up \in Uploads /\ r.up # u /\ r \in stray
    BY <1>1, NoStray
  <2>10. \A k \in Keys : object'[k] # Absent => Covers(object'[k], SizeOf[k])
    BY <1>1 DEF PInv
  <2> QED BY <1>1, <2>4, <2>5, <2>8, <2>9, <2>10, UploadMoves
<1>4. CASE /\ pc' = [pc EXCEPT ![u] = "abort"] /\ reply' = [reply EXCEPT ![u] = "wait"]
           /\ offset' = offset /\ partNo' = partNo
  <2>1. pc'[u] = "abort"
    BY <1>4 DEF Typed
  <2>2. UploadSound(u)'
    BY <1>1, <1>2, <2>1 DEF UploadSound
  <2> QED BY <1>1, <1>4, <2>2, FutureMoves
<1> QED BY <1>3, <1>4 DEF PartReply, Call

\* The answers to complete_multipart_upload and to the abort.
LEMMA EndReplyParts ==
  ASSUME Typed, PInv, NEW u \in Uploads, CompleteReply(u) \/ AbortReply(u)
  PROVE  PInv'
<1>1. PICK place \in {"ok", "abort", "failed"}, answer \in {"none", "wait"} :
        /\ pc[u] \in {"complete", "abort"} /\ (place = "ok" => pc[u] = "complete" /\ reply[u] = "ok")
        /\ pc' = [pc EXCEPT ![u] = place] /\ reply' = [reply EXCEPT ![u] = answer]
        /\ UNCHANGED <<stored, object, stray, key, offset, partNo>>
  BY DEF CompleteReply, AbortReply, Call, End, bucket
<1>2. pc'[u] = place
  BY <1>1 DEF Typed
<1>3. UploadSound(u)'
  BY <1>1, <1>2 DEF PInv, UploadSound
<1> QED BY <1>1, <1>3, FutureMoves

\* The future is dropped: the request under way becomes the one late request.
LEMMA CancelParts ==
  ASSUME Typed, PInv, NEW u \in Uploads, Cancel(u)
  PROVE  PInv'
<1>1. PICK late : late = [op |-> pc[u], up |-> u]
  OBVIOUS
<1>2. /\ pc[u] \in Calls /\ pc' = [pc EXCEPT ![u] = "cancelled"]
      /\ reply' = [reply EXCEPT ![u] = "none"]
      /\ stray' = IF reply[u] = "wait" THEN stray \cup {late} ELSE stray
      /\ UNCHANGED <<stored, object, key, offset, partNo>>
  BY <1>1 DEF Cancel, End, bucket
<1>3. late.op = pc[u] /\ late.up = u /\ pc[u] # "cancelled"
  BY <1>1, <1>2 DEF Calls
<1>4. \A r \in stray : r.up # u /\ r.up \in Uploads
  BY <1>3, NoStray
<1>5. pc'[u] = "cancelled" /\ \A v \in Uploads \ {u} : pc'[v] = pc[v] /\ reply'[v] = reply[v]
  BY <1>2 DEF Typed
<1>6. UploadSound(u) /\ UploadSound(u)' /\ Size(u)' = Size(u)
  BY <1>2, <1>5 DEF PInv, UploadSound, Size
<1>7. ASSUME NEW r \in stray', r.up = u PROVE StraySound(r)'
  <2>1. r = late /\ reply[u] = "wait"
    BY <1>2, <1>4, <1>7
  <2>2. \A q \in stray' : q.up = u => q = late
    BY <1>2, <1>4
  <2>3. pc[u] = "part" => Len(stored[u]) < MaxParts
    <3> SUFFICES ASSUME pc[u] = "part" PROVE Len(stored[u]) < MaxParts
      OBVIOUS
    <3>1. /\ offset[u] = Size(u) \/ offset[u] = (partNo[u] - 1) * multipart_part_size(Size(u))
          /\ offset[u] < Size(u) /\ Len(stored[u]) = partNo[u] - 1
      BY <1>6, <2>1 DEF UploadSound
    <3>2. Size(u) \in Nat /\ offset[u] # Size(u) /\ partNo[u] \in Nat
      BY <3>1, NextEndIs DEF PInv
    <3>3. partNo[u] <= MaxParts
      BY <3>1, <3>2, NextEndIs DEF PInv
    <3> QED BY <3>1, <3>2, <3>3, S3Assumption
  <2>4. pc[u] = "complete" => Covers(stored[u], Size(u)) /\ 0 < Size(u)
    BY <1>6 DEF UploadSound
  <2> QED BY <1>2, <1>3, <1>5, <1>6, <2>1, <2>2, <2>3, <2>4 DEF StraySound
<1>8. PartTypes' /\ \A k \in Keys : object'[k] # Absent => Covers(object'[k], SizeOf[k])
  BY <1>2 DEF PInv, PartTypes
<1>9. \A r \in stray' : r.up \in Uploads /\ (r.up # u => r \in stray)
  BY <1>2, <1>3, <1>4
<1> QED BY <1>2, <1>5, <1>6, <1>7, <1>8, <1>9, UploadMoves

\* The bucket serves a request of a future that waits for the answer.
LEMMA ServeFutureParts ==
  ASSUME Typed, PInv, NEW u \in Uploads, NEW answer \in Answers, ServeFuture(u, answer)
  PROVE  PInv'
<1>1. /\ reply[u] = "wait" /\ reply' = [reply EXCEPT ![u] = answer]
      /\ UNCHANGED <<stray, pc, key, offset, partNo>>
      /\ (answer = "err" /\ UNCHANGED <<stored, object>>) \/ Apply(pc[u], u)
  BY DEF ServeFuture, Served, bucket
<1>2. reply'[u] = answer /\ \A v \in Uploads \ {u} : reply'[v] = reply[v]
  BY <1>1 DEF Typed
<1>3. /\ answer # "none" /\ answer # "wait" /\ Size(u)' = Size(u) /\ NextEnd(u)' = NextEnd(u)
  BY <1>1 DEF Answers, Size, NextEnd
<1>4. UploadSound(u)
  BY DEF PInv
<1>5. pc[u] = "part" => Len(stored[u]) < MaxParts
  <2> SUFFICES ASSUME pc[u] = "part" PROVE Len(stored[u]) < MaxParts
    OBVIOUS
  <2>1. /\ offset[u] = Size(u) \/ offset[u] = (partNo[u] - 1) * multipart_part_size(Size(u))
        /\ offset[u] < Size(u) /\ Len(stored[u]) = partNo[u] - 1
    BY <1>1, <1>4 DEF UploadSound
  <2>2. Size(u) \in Nat /\ offset[u] # Size(u) /\ partNo[u] \in Nat
    BY <2>1, NextEndIs DEF PInv
  <2>3. partNo[u] <= MaxParts
    BY <2>1, <2>2, NextEndIs DEF PInv
  <2> QED BY <2>1, <2>2, <2>3, S3Assumption
<1>6. pc[u] = "complete" => Covers(stored[u], Size(u)) /\ 0 < Size(u)
  BY <1>4 DEF UploadSound
<1>7. /\ stored' \in [Uploads -> Seq(Nat \X Nat)] /\ object' \in [Keys -> Seq(Nat \X Nat)]
      /\ Len(stored'[u]) <= MaxParts /\ \A v \in Uploads \ {u} : stored'[v] = stored[v]
      /\ pc[u] # "part" => stored' = stored
      /\ pc[u] = "part" /\ answer = "ok" => stored'[u] = Append(stored[u], <<offset[u], NextEnd(u)>>)
      /\ \A k \in Keys : object[k] # Absent => object'[k] # Absent
      /\ \A k \in Keys : object'[k] # Absent => Covers(object'[k], SizeOf[k])
      /\ pc[u] \in {"put", "complete"} /\ answer = "ok" => object'[key[u]] # Absent
  <2>1. CASE answer = "err" /\ UNCHANGED <<stored, object>>
    BY <1>4, <2>1 DEF PInv, PartTypes, UploadSound
  <2>2. CASE Apply(pc[u], u)
    BY <1>5, <1>6, <2>2, ApplyParts
  <2> QED BY <1>1, <2>1, <2>2
<1>8. PartTypes'
  BY <1>1, <1>7 DEF PInv, PartTypes
<1>9. pc[u] = "part" /\ answer = "ok" =>
        Covers(stored'[u], NextEnd(u)) /\ Len(stored'[u]) = partNo[u]
  <2> SUFFICES ASSUME pc[u] = "part", answer = "ok"
               PROVE  Covers(stored'[u], NextEnd(u)) /\ Len(stored'[u]) = partNo[u]
    OBVIOUS
  <2>1. Covers(stored[u], offset[u]) /\ Len(stored[u]) = partNo[u] - 1
    BY <1>1, <1>4 DEF UploadSound
  <2>2. PICK s \in Seq(Nat \X Nat) : s = stored[u]
    BY DEF PInv, PartTypes
  <2>3. PICK a, b, no \in Nat : a = offset[u] /\ b = NextEnd(u) /\ no = partNo[u]
    BY NextEndIs DEF PInv
  <2>4. Covers(Append(s, <<a, b>>), b) /\ Len(Append(s, <<a, b>>)) = Len(s) + 1
    BY <2>1, <2>2, <2>3, CoversAppend
  <2>5. stored'[u] = Append(s, <<a, b>>)
    BY <1>7, <2>2, <2>3
  <2> QED BY <2>1, <2>2, <2>3, <2>4, <2>5
<1>10. UploadSound(u)'
  <2>1. pc'[u] = pc[u] /\ key'[u] = key[u] /\ offset'[u] = offset[u] /\ partNo'[u] = partNo[u]
    BY <1>1
  <2>2. pc[u] = "ok" => object'[key[u]] # Absent
    BY <1>4, <1>7 DEF UploadSound, PInv, PartTypes
  <2>3. pc[u] = "part" =>
          /\ offset[u] = Size(u) \/ offset[u] = (partNo[u] - 1) * multipart_part_size(Size(u))
          /\ offset[u] <= Size(u) /\ offset[u] < Size(u)
    BY <1>1, <1>4 DEF UploadSound
  <2>4. pc[u] \in {"idle", "create", "complete"} => stored'[u] = stored[u]
    BY <1>7
  <2> QED BY <1>2, <1>3, <1>4, <1>7, <1>9, <2>1, <2>2, <2>3, <2>4 DEF UploadSound
<1>11. ASSUME NEW r \in stray', r.up = u PROVE StraySound(r)'
  <2>1. r \in stray /\ StraySound(r)
    BY <1>1 DEF PInv
  <2>2. stored'[u] = stored[u]
    BY <1>7, <1>11, <2>1 DEF StraySound
  <2> QED BY <1>1, <1>3, <1>11, <2>1, <2>2 DEF StraySound
<1>12. \A r \in stray' : r.up \in Uploads /\ r \in stray
  BY <1>1 DEF Typed
<1> QED BY <1>1, <1>2, <1>7, <1>8, <1>10, <1>11, <1>12, UploadMoves

\* The bucket serves a request that outlived its future: its upload has no other.
LEMMA ServeStrayParts ==
  ASSUME Typed, PInv, NEW r \in stray, ServeStray(r)
  PROVE  PInv'
<1>1. PICK u \in Uploads : u = r.up
  BY DEF Typed
<1>2. /\ Apply(r.op, u) /\ stray' = stray \ {r} /\ UNCHANGED <<pc, reply, key, offset, partNo>>
  BY <1>1 DEF ServeStray, future
<1>3. /\ pc[u] = "cancelled" /\ \A q \in stray : q.up = u => q = r
      /\ r.op = "part" => Len(stored[u]) < MaxParts
      /\ r.op = "complete" => Covers(stored[u], Size(u)) /\ 0 < Size(u)
  BY <1>1 DEF PInv, StraySound
<1>4. /\ stored' \in [Uploads -> Seq(Nat \X Nat)] /\ object' \in [Keys -> Seq(Nat \X Nat)]
      /\ Len(stored'[u]) <= MaxParts /\ \A v \in Uploads \ {u} : stored'[v] = stored[v]
      /\ \A k \in Keys : object[k] # Absent => object'[k] # Absent
      /\ \A k \in Keys : object'[k] # Absent => Covers(object'[k], SizeOf[k])
  BY <1>2, <1>3, ApplyParts
<1>5. PartTypes'
  BY <1>2, <1>4 DEF PInv, PartTypes
<1>6. UploadSound(u)'
  BY <1>2, <1>3, <1>4 DEF UploadSound
<1>7. \A q \in stray' : q.up \in Uploads /\ q.up # u /\ q \in stray
  BY <1>2, <1>3 DEF Typed
<1> QED BY <1>2, <1>4, <1>5, <1>6, <1>7, UploadMoves

\* Aborts, claims of entries, the drain and the drop concern no part and no object.
LEMMA OthersParts ==
  ASSUME PInv,
         \/ \E u \in Uploads : TaskClaim(u) \/ TaskReply(u) \/ \E answer \in Answers : ServeTask(u, answer)
         \/ Drain \/ DrainNext \/ DrainReply \/ \E answer \in Answers : ServeShutdown(answer)
         \/ \E aborted \in SUBSET registry : Drop(aborted)
  PROVE  PInv'
<1>1. ASSUME NEW u, NEW answer, Served("abort", u, answer) PROVE UNCHANGED <<stored, object>>
  BY <1>1 DEF Served, Apply, bucket
<1>2. UNCHANGED <<stored, object, stray, future>>
  <2>1. CASE \E u \in Uploads, answer \in Answers : ServeTask(u, answer)
    BY <1>1, <2>1 DEF ServeTask
  <2>2. CASE \E answer \in Answers : ServeShutdown(answer)
    BY <1>1, <2>2 DEF ServeShutdown
  <2>3. CASE \E u \in Uploads : TaskClaim(u) \/ TaskReply(u)
    BY <2>3 DEF TaskClaim, TaskReply, bucket
  <2>4. CASE Drain \/ DrainNext \/ DrainReply \/ \E aborted \in SUBSET registry : Drop(aborted)
    BY <2>4 DEF Drain, DrainNext, DrainReply, Drop, bucket
  <2> QED BY <2>1, <2>2, <2>3, <2>4
<1> QED BY <1>2, PartsFrame

\* The types that no other part of the invariants speaks of.
RestTypes ==
  /\ pending \subseteq Uploads /\ sdReply \in Replies
  /\ shutdown \in {"none", "running", "ok", "err"}
  /\ failed \in BOOLEAN /\ dropped \in BOOLEAN

\* Every step keeps them.
LEMMA RestNext == IInv /\ RestTypes /\ [Next]_vars => RestTypes'
<1> SUFFICES ASSUME IInv, RestTypes, [Next]_vars PROVE RestTypes'
  OBVIOUS
<1> USE DEF RestTypes
<1>1. CASE UNCHANGED vars
  BY <1>1 DEF vars, bucket, drain
<1>2. CASE \E u \in Uploads : \/ (\E k \in Keys : put_from_path(u, k))
                              \/ PutReply(u) \/ CreateReply(u) \/ NextPart(u) \/ PartReply(u)
                              \/ CompleteReply(u) \/ AbortReply(u) \/ Cancel(u)
                              \/ TaskClaim(u) \/ TaskReply(u)
  BY <1>2 DEF put_from_path, PutReply, CreateReply, NextPart, PartReply, CompleteReply, AbortReply,
     Cancel, TaskClaim, TaskReply, bucket, drain
<1>3. CASE \E u \in Uploads, answer \in Answers : ServeFuture(u, answer) \/ ServeTask(u, answer)
  <2>1. PICK u \in Uploads, answer \in Answers : ServeFuture(u, answer) \/ ServeTask(u, answer)
    BY <1>3
  <2>2. pending' \subseteq pending \cup {u}
    BY <2>1, ServedPending DEF ServeFuture, ServeTask
  <2> QED BY <2>1, <2>2 DEF ServeFuture, ServeTask, drain
<1>4. CASE \E answer \in Answers : ServeShutdown(answer)
  <2>1. PICK answer \in Answers : ServeShutdown(answer)
    BY <1>4
  <2>2. pending' \subseteq pending
    BY <2>1, ServedPending DEF ServeShutdown
  <2> QED BY <2>1, <2>2 DEF ServeShutdown, Answers, Replies
<1>5. CASE \E r \in stray : ServeStray(r)
  <2>1. PICK r \in stray : ServeStray(r)
    BY <1>5
  <2>2. r.up \in Uploads /\ pending' \subseteq pending \cup {r.up}
    BY <2>1, StrayPending DEF ServeStray, IInv, Typed
  <2> QED BY <2>1, <2>2 DEF ServeStray, drain
<1>6. CASE Drain \/ DrainNext \/ DrainReply \/ \E aborted \in SUBSET registry : Drop(aborted)
  BY <1>6 DEF Drain, DrainNext, DrainReply, Drop, bucket, drain, Replies
<1> QED BY <1>1, <1>2, <1>3, <1>4, <1>5, <1>6 DEF Next

\* Every step keeps what is known of parts and objects.
LEMMA PartsNext == IInv /\ PInv /\ [Next]_vars => PInv'
<1> SUFFICES ASSUME IInv, PInv, [Next]_vars PROVE PInv'
  OBVIOUS
<1>0. Typed
  BY DEF IInv
<1>1. CASE UNCHANGED vars
  BY <1>1, PartsFrame DEF vars, bucket
<1>2. CASE \E u \in Uploads, k \in Keys : put_from_path(u, k)
  BY <1>0, <1>2, PutFromPathParts
<1>3. CASE \E u \in Uploads : \/ PutReply(u) \/ CreateReply(u) \/ NextPart(u) \/ PartReply(u)
                              \/ CompleteReply(u) \/ AbortReply(u) \/ Cancel(u)
  BY <1>0, <1>3, PutReplyParts, CreateReplyParts, NextPartParts, PartReplyParts, EndReplyParts, CancelParts
<1>4. CASE \E u \in Uploads, answer \in Answers : ServeFuture(u, answer)
  BY <1>0, <1>4, ServeFutureParts
<1>5. CASE \E r \in stray : ServeStray(r)
  BY <1>0, <1>5, ServeStrayParts
<1>6. CASE \/ \E u \in Uploads : TaskClaim(u) \/ TaskReply(u) \/ \E answer \in Answers : ServeTask(u, answer)
           \/ Drain \/ DrainNext \/ DrainReply \/ \E answer \in Answers : ServeShutdown(answer)
           \/ \E aborted \in SUBSET registry : Drop(aborted)
  BY <1>6, OthersParts
<1> QED BY <1>1, <1>2, <1>3, <1>4, <1>5, <1>6 DEF Next

\* Nothing is stored and nothing was sent.
LEMMA PartsInit == Init => PInv /\ RestTypes
<1> SUFFICES ASSUME Init PROVE PInv /\ RestTypes
  OBVIOUS
<1>1. << >> \in Seq(Nat \X Nat) /\ Len(<< >>) = 0 /\ 0 <= MaxParts /\ 1 \in 1..(MaxParts + 1)
  BY S3Assumption
<1>2. (CHOOSE k \in Keys : TRUE) \in Keys
  BY S3Assumption
<1>3. PartTypes /\ RestTypes
  BY <1>1, <1>2 DEF Init, PartTypes, RestTypes, Absent, Replies
<1>4. \A u \in Uploads : UploadSound(u)
  BY <1>1 DEF Init, UploadSound
<1>5. stray = {} /\ \A k \in Keys : object[k] = Absent
  BY DEF Init
<1> QED BY <1>3, <1>4, <1>5 DEF PInv

\* For files of any size and any limits: an object is visible only with all of
\* its bytes, an acknowledged one is there, and no file that is accepted needs
\* more parts than S3 allows (put_from_path, upload_parts, multipart_part_size).
THEOREM UploadsAreSound == Spec => []UploadsSound
<1>1. IInv /\ PInv /\ RestTypes => UploadsSound
  <2> SUFFICES ASSUME IInv, PInv, RestTypes PROVE UploadsSound
    OBVIOUS
  <2>1. TypeOK
    BY DEF IInv, Typed, PInv, PartTypes, UploadSound, RestTypes, TypeOK
  <2>2. AckedIsWhole
    <3>1. ASSUME NEW k \in Keys, object[k] # Absent PROVE Whole(k)
      <4>1. Covers(object[k], SizeOf[k]) /\ object[k] # << >>
        BY <3>1 DEF PInv, Absent
      <4> QED BY <3>1, <4>1 DEF Whole, Covers
    <3>2. \A u \in Uploads : pc[u] = "ok" => object[key[u]] # Absent
      BY DEF PInv, UploadSound
    <3> QED BY <3>1, <3>2 DEF AckedIsWhole
  <2>3. ASSUME NEW u \in Uploads, pc[u] = "part", offset[u] < Size(u) PROVE partNo[u] <= MaxParts
    <3>1. offset[u] = Size(u) \/ offset[u] = (partNo[u] - 1) * multipart_part_size(Size(u))
      BY <2>3 DEF PInv, UploadSound
    <3>2. Size(u) \in Nat /\ offset[u] # Size(u)
      BY <2>3, NextEndIs DEF PInv
    <3> QED BY <2>3, <3>1, <3>2, NextEndIs DEF PInv
  <2> QED BY <2>1, <2>2, <2>3 DEF UploadsSound, LargeFilesFit
<1> QED BY <1>1, InitInv, NextInv, PartsInit, PartsNext, RestNext, PTL DEF Spec
=============================================================================
