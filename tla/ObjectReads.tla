---------------------------- MODULE ObjectReads ----------------------------
(***************************************************************************)
(* How the CAS server reads a bucket: it lists the shards at its start and *)
(* copies objects to its temporary directory to parse, verify, stream or   *)
(* convert them, with retries (src/src/storage, src/src/shard_io.rs,       *)
(* src/src/util/download_stream.rs, src/src/conversion/mod.rs).  File      *)
(* operations are tasks of a blocking pool: a request that is dropped does *)
(* not take back the task it waits for, and its guards                     *)
(* (src/src/util/temp_path.rs) remove files by further tasks, which other  *)
(* threads may run first.  Files that a dead server leaves are met by the  *)
(* cleanup of the next start.                                              *)
(***************************************************************************)
EXTENDS Naturals, Sequences, Functions

CONSTANTS
  Servers,      \* processes that may be started on the temporary directory
  Reads,        \* reads under way at the same time
  KeyCount,     \* shards are 1..KeyCount, in the order of their names
  PageSize,     \* LIST_PAGE_SIZE
  Tokens,       \* bound: the tokens that a faulty endpoint answers with
  MaxRetries,   \* length of TRANSIENT_STORAGE_RETRY_DELAYS
  MaxCrashes    \* bound: servers killed

Keys == 1..KeyCount
Attempts == 1..(MaxRetries + 1)
None == "none"

ASSUME ReadsAssumption ==
  /\ KeyCount \in Nat /\ PageSize \in Nat \ {0}
  /\ MaxRetries \in Nat /\ MaxCrashes \in Nat
  /\ Tokens \subseteq Keys
  /\ None \notin Servers

VARIABLES
  \* The bucket.
  objects,    \* shards that exist, while they are listed
  \* Server processes.
  running,    \* the set of them
  holder,     \* who has the flock of the temporary directory
  phase,      \* "list", "listed" or "serve", of the one that started last
  crashes,
  \* The listing: S3ListState.
  token,      \* continuation_token, 0 if there is none yet
  seen,       \* seen_tokens
  keys,       \* keys of the page that are not consumed yet
  complete,
  yielded,    \* keys that the stream has returned, in order
  failed,     \* the stream has returned an error
  before,     \* shards that existed when it began
  honest,     \* every page so far was an honest answer
  \* The temporary directory.
  files,      \* from name to "cut", "short" or "whole"
  charged,    \* residue that the ledger was told of
  stale,      \* files that a dead server has left
  \* Blocking tasks and reads.
  pool,
  pc,
  kind,       \* "shard": parse_shard_from_storage, "copy": a download with
              \* retries for a caller with a guard, "blob": the same for a
              \* conversion, "stream": download_to_temp_stream
  attempt

listing == <<token, seen, keys, complete, yielded, failed, before, honest>>
server == <<running, holder, phase, crashes>>
disk == <<files, charged, stale>>
reading == <<pool, pc, kind, attempt>>
vars == <<objects, server, listing, disk, reading>>

\* Where a read may be left with a file that nobody removes.
LeavingPlaces == {"leftCreating", "leftRenaming", "leftCheck"}
LeftAt(place) == CASE place = "creating" -> "leftCreating"
                   [] place = "renaming" -> "leftRenaming"
                   [] place = "check"    -> "leftCheck"
                   [] OTHER              -> "over"

Active(r) == pc[r] \notin LeavingPlaces \cup {"over"}

\* Where a read copies to: every attempt of parse_shard_once has a name of
\* its own, the attempts of download_to_path_with_retries share one.
Dest(r) == <<r, "dest", IF kind[r] = "shard" THEN attempt[r] ELSE 1>>
\* The file that an attempt stages in.
Part(r) == <<r, "part", attempt[r]>>

Task(op, r, file, to) == [op |-> op, read |-> r, file |-> file, to |-> to]
Removal(r, file) == Task("remove", r, file, file)

NoFiles == [f \in {} |-> "cut"]
With(f, content) == [n \in DOMAIN files \cup {f} |-> IF n = f THEN content ELSE files[n]]
Without(fs) == [n \in DOMAIN files \ fs |-> files[n]]

Init ==
  /\ objects = {}
  /\ running = {} /\ holder = None /\ phase = "serve" /\ crashes = 0
  /\ token = 0 /\ seen = {} /\ keys = << >> /\ complete = FALSE
  /\ yielded = << >> /\ failed = FALSE /\ before = {} /\ honest = TRUE
  /\ files = NoFiles /\ charged = {} /\ stale = {}
  /\ pool = {}
  /\ pc = [r \in Reads |-> "over"]
  /\ kind = [r \in Reads |-> "copy"]
  /\ attempt = [r \in Reads |-> 1]
-----------------------------------------------------------------------------
(* Start, crash, and the other users of the bucket.                        *)

\* cleanup_temp_directory knows the names of these.
ManagedName(f) == f[2] = "dest" /\ kind[f[1]] # "stream"

\* acquire_temp_directory_lock, which does not wait.
LockFree == holder = None

\* cleanup_temp_directory: what cannot be removed is charged.
CleanupTempDirectory ==
  \E kept \in SUBSET {f \in DOMAIN files : ManagedName(f)} :
    /\ files' = Without({f \in DOMAIN files : ManagedName(f) /\ f \notin kept})
    /\ charged' = kept

\* A new S3ListState; `exist` are the shards at that time.
ListingReset(exist) ==
  /\ objects' = exist
  /\ token' = 0 /\ seen' = {} /\ keys' = << >> /\ complete' = FALSE
  /\ yielded' = << >> /\ failed' = FALSE /\ before' = exist /\ honest' = TRUE

\* start_server, up to the listing of the rebuild.
Start(s) ==
  /\ s \notin running
  /\ LockFree
  /\ running' = running \cup {s}
  /\ holder' = s
  /\ CleanupTempDirectory
  /\ stale' = DOMAIN files'
  /\ phase' = "list"
  /\ \E exist \in SUBSET Keys : ListingReset(exist)
  /\ UNCHANGED <<crashes, reading>>

\* The server is killed: the lock goes, tasks are lost and files stay.
Crash(s) ==
  /\ s \in running
  /\ crashes < MaxCrashes
  /\ crashes' = crashes + 1
  /\ running' = running \ {s}
  /\ holder' = IF holder = s THEN None ELSE holder
  /\ phase' = "serve"
  /\ pool' = {}
  /\ pc' = [r \in Reads |-> "over"]
  /\ stale' = DOMAIN files
  /\ ListingReset({})
  /\ UNCHANGED <<files, charged, kind, attempt>>

\* Another server on the bucket stores a shard; shards are never deleted.
PutShard(k) ==
  /\ phase = "list"
  /\ k \notin objects
  /\ objects' = objects \cup {k}
  /\ UNCHANGED <<server, listing, disk, reading>>
-----------------------------------------------------------------------------
(* list_objects_stream of S3Storage.                                       *)

Answer(ks, truncated, next) == [keys |-> ks, truncated |-> truncated, next |-> next]

\* What ListObjectsV2 answers: the first keys after the token, as many as fit
\* on a page, and the last of them as the next token if there are more.
Pages == UNION {[1..n -> Keys] : n \in 0..PageSize}
IsFirstPart(page, rest) ==
  /\ Range(page) \subseteq rest
  /\ \A i, j \in 1..Len(page) : i < j => page[i] < page[j]
  /\ \A k \in rest \ Range(page), i \in 1..Len(page) : page[i] < k
HonestAnswers ==
  LET rest == {k \in objects : k > token}
  IN  {Answer(page, FALSE, 0) : page \in {p \in Pages : IsFirstPart(p, rest) /\ Range(p) = rest}}
      \cup {Answer(page, TRUE, page[PageSize]) : page \in
              {p \in Pages : IsFirstPart(p, rest) /\ Range(p) # rest /\ Len(p) = PageSize}}

\* What a faulty endpoint may answer: too many keys, or a token that is
\* missing, empty, unexpected or was there before.
EmptyToken == KeyCount + 1
FaultyAnswers ==
  {Answer([i \in 1..(PageSize + 1) |-> 1], FALSE, 0)}
  \cup [keys : {<< >>}, truncated : BOOLEAN, next : Tokens \cup {0, EmptyToken}]

\* Mutant: the tokens that were there before are not remembered.
ContinuationTokenUnchecked(a) ==
  IF a.truncated THEN a.next \notin {0, EmptyToken} ELSE a.next = 0

\* validate_next_continuation_token accepts the answer.
ContinuationTokenValid(a) ==
  IF a.truncated THEN a.next \notin {0, EmptyToken} /\ a.next \notin seen
  ELSE a.next = 0

\* A page is asked for when the keys of the last one are consumed.
ListPage(a) ==
  /\ phase = "list"
  /\ keys = << >> /\ ~complete /\ ~failed
  /\ honest' = (honest /\ a \in HonestAnswers)
  /\ IF Len(a.keys) <= PageSize /\ ContinuationTokenValid(a)
     THEN /\ keys' = a.keys
          /\ token' = a.next
          /\ seen' = seen \cup ({a.next} \ {0})
          /\ complete' = (a.next = 0)
          /\ UNCHANGED failed
     ELSE failed' = TRUE /\ UNCHANGED <<keys, token, seen, complete>>
  /\ UNCHANGED <<objects, server, yielded, before, disk, reading>>

\* The request fails.
ListError ==
  /\ phase = "list"
  /\ keys = << >> /\ ~complete /\ ~failed
  /\ failed' = TRUE
  /\ honest' = FALSE
  /\ UNCHANGED <<objects, server, token, seen, keys, complete, yielded, before, disk, reading>>

\* The stream returns a key.
ListKey ==
  /\ phase = "list"
  /\ keys # << >>
  /\ yielded' = Append(yielded, Head(keys))
  /\ keys' = Tail(keys)
  /\ UNCHANGED <<objects, server, token, seen, complete, failed, before, honest, disk, reading>>

\* Mutant: the stream ends with the last page, before its keys are consumed.
ListEndAtLastPage ==
  /\ phase = "list"
  /\ failed \/ complete
  /\ phase' = "listed"
  /\ UNCHANGED <<objects, running, holder, crashes, listing, disk, reading>>

\* The stream ends, with an error or without.
ListEnd ==
  /\ phase = "list"
  /\ failed \/ (complete /\ keys = << >>)
  /\ phase' = "listed"
  /\ UNCHANGED <<objects, running, holder, crashes, listing, disk, reading>>

\* The server serves, whatever came of the rebuild.
Serve ==
  /\ phase = "listed"
  /\ phase' = "serve"
  /\ ListingReset({})
  /\ UNCHANGED <<running, holder, crashes, disk, reading>>
-----------------------------------------------------------------------------
(* Reads.                                                                  *)

Go(r, place) == pc' = [pc EXCEPT ![r] = place]
Spawn(tasks) == pool' = pool \cup tasks

\* Mutant: no guard is made before the copy has passed its check.
DestGuardLate(r) == IF pc[r] = "streaming" THEN {Removal(r, Dest(r))} ELSE {}

\* What the guard of the destination does when the read is left where it is.
\* open_blob_for_streaming makes it after its check of the size, the others
\* before they download.
DestGuard(r) ==
  IF pc[r] = "size" \/ (kind[r] = "blob" /\ pc[r] # "streaming") THEN {}
  ELSE {Removal(r, Dest(r))}

\* A read begins; download_to_temp_stream and open_blob_for_streaming ask for
\* the size first.  A slot is used again when nothing is left of its last read.
Begin(r) ==
  /\ running # {} /\ phase = "serve"
  /\ ~Active(r)
  /\ \A t \in pool : t.read # r
  /\ \A f \in DOMAIN files : f[1] # r
  /\ \E k \in {"shard", "copy", "blob", "stream"} :
       /\ kind' = [kind EXCEPT ![r] = k]
       /\ Go(r, IF k \in {"blob", "stream"} THEN "size" ELSE "get")
  /\ attempt' = [attempt EXCEPT ![r] = 1]
  /\ UNCHANGED <<objects, server, listing, disk, pool>>

\* get_size, and whether there is room on the disk.
Size(r) ==
  /\ pc[r] = "size"
  /\ \E place \in {"get", "over"} : Go(r, place)
  /\ UNCHANGED <<objects, server, listing, disk, pool, kind, attempt>>

\* A transient error is retried, by all but download_to_temp_stream.
Retries(r) == kind[r] # "stream" /\ attempt[r] <= MaxRetries

\* Mutant: the guard of the destination goes with the attempt, although the
\* next attempt has the same destination.
AttemptGuardsAll(r) == {Removal(r, Dest(r))}

\* The guard of the destination goes with a failed attempt in
\* parse_shard_once; a retry in download_to_path_with_retries leaves its
\* caller's alone.
AttemptGuards(r) ==
  IF kind[r] = "shard" \/ ~Retries(r) THEN DestGuard(r) ELSE {}

\* An attempt fails with a transient error; `rest` are the tasks without the
\* one that was awaited, and with those of the guards in download_to_path.
AttemptFails(r, rest) ==
  /\ pool' = rest \cup AttemptGuards(r)
  /\ IF Retries(r)
     THEN /\ Go(r, "get")
          /\ attempt' = [attempt EXCEPT ![r] = IF @ > MaxRetries THEN @ ELSE @ + 1]
     ELSE Go(r, "over") /\ UNCHANGED attempt

\* The answer to get_object; a missing key is not retried.
Get(r) ==
  /\ pc[r] = "get"
  /\ \/ /\ Go(r, "creating")
        /\ Spawn({Task("create", r, Part(r), Part(r))})
        /\ UNCHANGED attempt
     \/ /\ Go(r, "over")
        /\ Spawn(DestGuard(r))
        /\ UNCHANGED attempt
     \/ AttemptFails(r, pool)
  /\ UNCHANGED <<objects, server, listing, disk, kind>>

\* The body arrives and is written: all of it, less than there is without
\* an error, or an error.
Body(r) ==
  /\ pc[r] = "body"
  /\ \/ \E content \in {"whole", "short"} :
          /\ files' = IF Part(r) \in DOMAIN files THEN With(Part(r), content) ELSE files
          /\ Go(r, "renaming")
          /\ Spawn({Task("rename", r, Part(r), Dest(r))})
          /\ UNCHANGED attempt
     \/ AttemptFails(r, pool \cup {Removal(r, Part(r))}) /\ UNCHANGED files
  /\ UNCHANGED <<objects, server, listing, charged, stale, kind>>

\* The consumer looks at the file: the parser and the verification of xorbs
\* at its hashes, the other two at its size.  That, or the system calls for
\* it, may fail, which is not retried; a shard or a xorb is done with then.
Check(r) ==
  /\ pc[r] = "check"
  /\ \/ Go(r, LeftAt(pc[r])) /\ Spawn(DestGuard(r))
     \/ /\ files[Dest(r)] = "whole" /\ kind[r] \in {"blob", "stream"}
        /\ Go(r, "streaming")
        /\ UNCHANGED pool
  /\ UNCHANGED <<objects, server, listing, disk, kind, attempt>>

\* GuardedFileStream is read to its end, or the conversion has read its blob.
Streamed(r) ==
  /\ pc[r] = "streaming"
  /\ Go(r, "over")
  /\ Spawn(DestGuard(r))
  /\ UNCHANGED <<objects, server, listing, disk, kind, attempt>>

\* The future of a request or a conversion is dropped at an await: so are the
\* guards that it has.
Drop(r) ==
  /\ Active(r)
  /\ Go(r, LeftAt(pc[r]))
  /\ Spawn((IF pc[r] \in {"creating", "body", "renaming"} THEN {Removal(r, Part(r))} ELSE {})
           \cup DestGuard(r))
  /\ UNCHANGED <<objects, server, listing, disk, kind, attempt>>
-----------------------------------------------------------------------------
(* The blocking pool runs its tasks in any order.                          *)

\* The file of an attempt is created, or cannot be.
RunCreate(t) ==
  /\ t \in pool /\ t.op = "create"
  /\ LET awaited == pc[t.read] = "creating" /\ t.file = Part(t.read)
     IN  \/ /\ files' = With(t.file, "cut")
            /\ pool' = pool \ {t}
            /\ IF awaited THEN Go(t.read, "body") ELSE UNCHANGED pc
            /\ UNCHANGED attempt
         \/ /\ awaited
            /\ AttemptFails(t.read, (pool \ {t}) \cup {Removal(t.read, t.file)})
            /\ UNCHANGED files
  /\ UNCHANGED <<objects, server, listing, charged, stale, kind>>

\* The staged file gets its name, and the guard of the old one is dropped; a
\* file that is gone cannot be renamed, and the call may fail.
RunRename(t) ==
  /\ t \in pool /\ t.op = "rename"
  /\ LET awaited == pc[t.read] = "renaming" /\ t.file = Part(t.read)
         rest == (pool \ {t}) \cup IF awaited THEN {Removal(t.read, t.file)} ELSE {}
     IN  \/ /\ t.file \in DOMAIN files
            /\ files' = [n \in (DOMAIN files \ {t.file}) \cup {t.to} |->
                           IF n = t.to THEN files[t.file] ELSE files[n]]
            /\ pool' = rest
            /\ IF awaited THEN Go(t.read, "check") ELSE UNCHANGED pc
            /\ UNCHANGED attempt
         \/ /\ IF awaited THEN AttemptFails(t.read, rest)
               ELSE pool' = rest /\ UNCHANGED <<pc, attempt>>
            /\ UNCHANGED files
  /\ UNCHANGED <<objects, server, listing, charged, stale, kind>>

\* A dropped guard removes its file, if it is there.
RunRemove(t) ==
  /\ t \in pool /\ t.op = "remove"
  /\ files' = Without({t.file})
  /\ pool' = pool \ {t}
  /\ UNCHANGED <<objects, server, listing, charged, stale, pc, kind, attempt>>

Run(t) == RunCreate(t) \/ RunRename(t) \/ RunRemove(t)

\* The steps of a read.
Step(r) == Size(r) \/ Get(r) \/ Body(r) \/ Check(r) \/ Streamed(r)

List ==
  \/ \E a \in HonestAnswers \cup FaultyAnswers : ListPage(a)
  \/ ListError \/ ListKey \/ ListEnd \/ Serve

Next ==
  \/ \E s \in Servers : Start(s) \/ Crash(s)
  \/ \E k \in Keys : PutShard(k)
  \/ List
  \/ \E r \in Reads : Begin(r) \/ Step(r) \/ Drop(r)
  \/ \E t \in pool : Run(t)

Spec == Init /\ [][Next]_vars

\* The pool runs its tasks.  Nothing is assumed of the endpoint, which may
\* never answer, nor of the clients, which may stop reading.
FairSpec ==
  /\ Spec
  /\ \A r \in Reads : WF_vars(\E t \in pool : t.read = r /\ Run(t))
-----------------------------------------------------------------------------
\* The types of the variables.
TypeOK ==
  /\ objects \subseteq Keys
  /\ running \subseteq Servers /\ holder \in Servers \cup {None}
  /\ phase \in {"list", "listed", "serve"}
  /\ seen \subseteq Tokens \cup Keys /\ token \in Tokens \cup Keys \cup {0}
  /\ DOMAIN files \subseteq Reads \X {"dest", "part"} \X Attempts
  /\ charged \subseteq Reads \X {"dest", "part"} \X Attempts
  /\ \A t \in pool : t.op \in {"create", "rename", "remove"} /\ t.read \in Reads
  /\ kind \in [Reads -> {"shard", "copy", "blob", "stream"}]
  /\ attempt \in [Reads -> Attempts]

\* A destination is never a part of a body, whatever fails, is retried or is
\* dropped, and also after a crash ("dest is never left in a corrupted
\* state", download_to_path; "a retry never observes a partial previous
\* attempt", download_to_path_with_retries).
DestIntact == \A f \in DOMAIN files : f[2] = "dest" => files[f] # "cut"

\* A read that has its copy keeps it as long as it needs it: no late removal
\* of an earlier attempt and no start of another server takes it away.
CopyStays ==
  \A r \in Reads : pc[r] \in {"check", "streaming"} => Dest(r) \in DOMAIN files

\* What a read checks and uses is a body that was received to its end and is
\* there from its rename to the end of the read.  That the endpoint may have
\* sent too little is for the check to find, of the size or of the hashes.
CopiesIntact == TypeOK /\ DestIntact /\ CopyStays

\* A file of the attempt that its read is at.
InUse(f) ==
  \/ f = Part(f[1]) /\ pc[f[1]] \in {"body", "renaming"}
  \/ f = Dest(f[1]) /\ pc[f[1]] \in {"check", "streaming"}

Pending(f) == \E t \in pool : t.file = f

\* What a guard may miss: the read was dropped while the task that makes the
\* file was under way, and the removal has run before it.
Overtaken(f) ==
  \/ f = Part(f[1]) /\ pc[f[1]] = "leftCreating"
  \/ f = Dest(f[1]) /\ pc[f[1]] = "leftRenaming"

\* What has no guard: the blob of a conversion that was dropped or has failed
\* between the end of its download and the check of the size.
Unguarded(f) ==
  f = Dest(f[1]) /\ kind[f[1]] = "blob" /\ pc[f[1]] \in {"leftRenaming", "leftCheck"}

\* Every file of the directory is in use, or has a task that removes or renames
\* it, or was left by a dead server, and is then charged to the next one if it
\* has a managed name; or it is one of the two kinds of files that stay behind
\* although their server lives.  Whatever fails, is retried or is dropped, at
\* any other point, leaves nothing.
StraysExplained ==
  \A f \in DOMAIN files :
    \/ InUse(f)
    \/ Pending(f)
    \/ f \in stale /\ (ManagedName(f) => running = {} \/ f \in charged)
    \/ f \notin stale /\ (Overtaken(f) \/ Unguarded(f))

\* What the code says of its guards: "Owns a temporary path and removes it when
\* the guard is dropped" (src/src/util/temp_path.rs), "Ensures temporary files
\* are cleaned up even on error paths" (src/src/conversion/mod.rs).  A file is
\* in use, or about to be removed or renamed, unless its server was killed.
TempFilesRemoved ==
  \A f \in DOMAIN files : InUse(f) \/ Pending(f) \/ f \in stale

\* A listing that an honest endpoint has answered is not refused, and has
\* every shard that was there when it began, once.
HonestListingComplete ==
  phase = "listed" /\ honest =>
    /\ ~failed
    /\ before \subseteq Range(yielded)
    /\ IsInjective(yielded)

\* An endpoint that has finitely many tokens is asked for finitely many pages,
\* also if it repeats them: none is accepted twice.  One that makes up a new
\* token for every page, and sends no key with it, is asked for ever; that is
\* not refused by validate_next_continuation_token.
PagesEnd ==
  <>[][~\E a \in HonestAnswers \cup FaultyAnswers : ListPage(a)]_vars

\* The files of a read that is over go, in whatever order the pool runs its
\* tasks, but for the two kinds that stay behind.
FilesGo ==
  \A r \in Reads :
    ~Active(r) ~> \/ Active(r)
                  \/ \A f \in DOMAIN files :
                       f[1] = r => f \in stale \/ Overtaken(f) \/ Unguarded(f)

\* Neither the pages of a listing nor the removals that a read has left behind
\* go on for ever.
WorkEnds == PagesEnd /\ FilesGo
============================================================================
