----------------------------- MODULE TempQuota -----------------------------
(***************************************************************************)
(* The ledger of temporary disk space that uploads and conversions share:  *)
(* two atomic counters, charged_bytes and reserved_bytes, updated without  *)
(* a lock.  An action is one operation on a counter or on the disk.  A     *)
(* writer is a temp file: an upload grows it chunk by chunk                *)
(* (TempFile::write_all), a conversion of a remote blob reserves its whole *)
(* size at once (open_blob_for_streaming).                                 *)
(***************************************************************************)
EXTENDS Naturals, FiniteSets

CONSTANTS
  Writers,     \* slots for temp files
  Quota,       \* quota_bytes
  MinFree,     \* min_free_bytes
  Disk,        \* bytes free on the filesystem of the temp directory at startup
  ChunkSizes,  \* sizes of the chunks and blobs that are written
  Residues,    \* what a previous run may have left in one of the directories
  MaxResidue,  \* bound: no directory holds more
  CheckBytes,  \* free space an upload asks for before it starts
  LedgerWord   \* the counters are unsigned words

ASSUME QuotaAssumption ==
  /\ IsFiniteSet(Writers)
  /\ Quota \in Nat \ {0} /\ MinFree \in Nat \ {0}
  /\ Disk \in Nat /\ CheckBytes \in Nat /\ MaxResidue \in Nat
  /\ ChunkSizes \in SUBSET (Nat \ {0})
  /\ Residues \in SUBSET (0..MaxResidue)
  /\ LedgerWord \in Nat
  /\ LedgerWord > 2 * MaxResidue + (2 * Cardinality(Writers) + 1) * Quota

VARIABLES
  boot,        \* "first", "second" (directory to reconcile), "serving", "failed"
  residue,     \* bytes that account_existing has charged
  charged,     \* charged_bytes
  reserved,    \* reserved_bytes
  free,        \* bytes available on the filesystem
  pc,          \* where each writer is
  kind,        \* "upload" or "conversion"
  want,        \* bytes that the current reserve/write/commit is about
  seenCharged, \* charged_bytes as reserve() loaded it
  seenReserved,\* reserved_bytes as reserve() loaded it
  res, chg,    \* TempReservation: reserved, charged
  bytes,       \* bytes of the temp file on disk
  left         \* bytes of downloads that were abandoned and are still on disk

ledger == <<charged, reserved>>
mine   == <<res, chg>>
quotaVars == <<boot, residue, charged, reserved, free, pc, kind, want, seenCharged,
               seenReserved, res, chg, bytes, left>>

Pcs == {"idle", "open", "charged", "reserved", "cas", "write", "commit",
        "commitCharged", "drop", "dropCharged"}

\* What the variables may hold.
QuotaTypeOK ==
  /\ boot \in {"first", "second", "serving", "failed"}
  /\ residue \in 0..(2 * MaxResidue)
  /\ charged \in 0..(LedgerWord - 1) /\ reserved \in 0..(LedgerWord - 1)
  /\ free \in 0..Disk
  /\ pc \in [Writers -> Pcs]
  /\ kind \in [Writers -> {"upload", "conversion"}]
  /\ want \in [Writers -> ChunkSizes \cup {0}]
  /\ seenCharged \in [Writers -> 0..(LedgerWord - 1)]
  /\ seenReserved \in [Writers -> 0..(LedgerWord - 1)]
  /\ res \in [Writers -> Nat] /\ chg \in [Writers -> Nat]
  /\ bytes \in [Writers -> Nat] /\ left \in Nat

Zero == [w \in Writers |-> 0]

QuotaInit ==
  /\ boot = "first" /\ residue = 0
  /\ charged = 0 /\ reserved = 0 /\ free = Disk
  /\ pc = [w \in Writers |-> "idle"] /\ kind = [w \in Writers |-> "upload"]
  /\ want = Zero /\ seenCharged = Zero /\ seenReserved = Zero
  /\ res = Zero /\ chg = Zero /\ bytes = Zero /\ left = 0

Add(n, m) == (n + m) % LedgerWord
Sub(n, m) == (n + LedgerWord - m) % LedgerWord

Goto(w, next) == pc' = [pc EXCEPT ![w] = next]

-----------------------------------------------------------------------------
(* Startup: account_existing for each of the two temp directories. *)

\* fetch_update returns the value before the addition: that is what the code
\* compares with the quota.
AccountExisting(bytesLeft) ==
  /\ boot \in {"first", "second"}
  /\ \/ /\ bytesLeft > 0 /\ charged > Quota
        /\ boot' = "failed"
        /\ UNCHANGED <<charged, residue>>
     \/ /\ bytesLeft = 0 \/ charged <= Quota
        /\ charged' = Add(charged, bytesLeft)
        /\ residue' = residue + bytesLeft
        /\ boot' = IF boot = "first" THEN "second" ELSE "serving"
  /\ UNCHANGED <<reserved, free, pc, kind, want, seenCharged, seenReserved,
                 mine, bytes, left>>

-----------------------------------------------------------------------------
(* Creating a temp file. *)

\* ensure_dir_and_check_space, then TempResourceManager::reserve(0), which
\* checks the free space and reserves nothing.
OpenUpload(w) ==
  /\ boot = "serving"
  /\ pc[w] = "idle" /\ bytes[w] = 0
  /\ free >= CheckBytes
  /\ free >= MinFree + reserved
  /\ Goto(w, "open")
  /\ kind' = [kind EXCEPT ![w] = "upload"]
  /\ UNCHANGED <<boot, residue, ledger, free, want, seenCharged, seenReserved,
                 mine, bytes, left>>

\* TempResourceManager::reserve(expected_size): free space first, then the
\* ledger's reserve.
OpenConversion(w, n) ==
  /\ boot = "serving"
  /\ pc[w] = "idle" /\ bytes[w] = 0
  /\ free >= MinFree + reserved + n
  /\ Goto(w, "charged")
  /\ kind' = [kind EXCEPT ![w] = "conversion"]
  /\ want' = [want EXCEPT ![w] = n]
  /\ UNCHANGED <<boot, residue, ledger, free, seenCharged, seenReserved, mine,
                 bytes, left>>

\* TempFile::write_all on the next chunk: reserve_additional, which goes to the
\* ledger and not through TempResourceManager.
WriteChunk(w, n) ==
  /\ pc[w] = "open" /\ kind[w] = "upload"
  /\ Goto(w, "charged")
  /\ want' = [want EXCEPT ![w] = n]
  /\ UNCHANGED <<boot, residue, ledger, free, kind, seenCharged, seenReserved,
                 mine, bytes, left>>

-----------------------------------------------------------------------------
(* TempQuotaLedger::reserve *)

LoadCharged(w) ==
  /\ pc[w] = "charged"
  /\ seenCharged' = [seenCharged EXCEPT ![w] = charged]
  /\ Goto(w, "reserved")
  /\ UNCHANGED <<boot, residue, ledger, free, kind, want, seenReserved, mine,
                 bytes, left>>

\* QuotaExhausted makes the caller give up, which drops the temp file.
LoadReserved(w) ==
  /\ pc[w] = "reserved"
  /\ seenReserved' = [seenReserved EXCEPT ![w] = reserved]
  /\ Goto(w, IF seenCharged[w] + reserved + want[w] > Quota THEN "drop" ELSE "cas")
  /\ UNCHANGED <<boot, residue, ledger, free, kind, want, seenCharged, mine,
                 bytes, left>>

\* Mutant: the new value is stored without comparing.
StoreReserved(w) ==
  /\ pc[w] = "cas"
  /\ reserved' = Add(seenReserved[w], want[w])
  /\ res' = [res EXCEPT ![w] = @ + want[w]]
  /\ Goto(w, "write")
  /\ UNCHANGED <<boot, residue, charged, free, kind, want, seenCharged,
                 seenReserved, chg, bytes, left>>

\* A lost race makes reserve() start over.
CompareExchange(w) ==
  /\ pc[w] = "cas"
  /\ \/ /\ reserved = seenReserved[w]
        /\ reserved' = Add(reserved, want[w])
        /\ res' = [res EXCEPT ![w] = @ + want[w]]
        /\ Goto(w, "write")
     \/ /\ reserved # seenReserved[w]
        /\ Goto(w, "charged")
        /\ UNCHANGED <<reserved, res>>
  /\ UNCHANGED <<boot, residue, charged, free, kind, want, seenCharged,
                 seenReserved, chg, bytes, left>>

-----------------------------------------------------------------------------
(* Writing, and commit_written. *)

Write(w) ==
  /\ pc[w] = "write"
  /\ free >= want[w]
  /\ free' = free - want[w]
  /\ bytes' = [bytes EXCEPT ![w] = @ + want[w]]
  /\ Goto(w, "commit")
  /\ UNCHANGED <<boot, residue, ledger, kind, want, seenCharged, seenReserved,
                 mine, left>>

\* TempQuotaLedger::commit: the bytes leave reserved_bytes first ...
CommitReserved(w) ==
  /\ pc[w] = "commit"
  /\ reserved' = Sub(reserved, want[w])
  /\ Goto(w, "commitCharged")
  /\ UNCHANGED <<boot, residue, charged, free, kind, want, seenCharged,
                 seenReserved, mine, bytes, left>>

\* ... and enter charged_bytes after that.
CommitCharged(w) ==
  /\ pc[w] = "commitCharged"
  /\ charged' = Add(charged, want[w])
  /\ res' = [res EXCEPT ![w] = @ - want[w]]
  /\ chg' = [chg EXCEPT ![w] = @ + want[w]]
  /\ want' = [want EXCEPT ![w] = 0]
  /\ Goto(w, "open")
  /\ UNCHANGED <<boot, residue, reserved, free, kind, seenCharged,
                 seenReserved, bytes, left>>

-----------------------------------------------------------------------------
(* Dropping the temp file: after use, on an error, or when the request or   *)
(* conversion is cancelled at an await.                                     *)

\* A download that is not finished leaves nothing: its .part has a guard.
CloseFile(w) ==
  /\ pc[w] \in {"open", "write"}
  /\ Goto(w, "drop")
  /\ UNCHANGED <<boot, residue, ledger, free, kind, want, seenCharged,
                 seenReserved, mine, bytes, left>>

\* open_blob_for_streaming fails or is dropped when the blob is downloaded and
\* not yet under a PathGuard: at the stat, or because the size is not the
\* expected one.  The reservation is dropped, and nobody removes the file.
AbandonDownload(w) ==
  /\ kind[w] = "conversion"
  /\ \/ /\ pc[w] = "commit"
        /\ bytes' = [bytes EXCEPT ![w] = 0]
        /\ left' = left + bytes[w]
        /\ UNCHANGED free
     \/ /\ pc[w] = "write"
        /\ \E n \in (ChunkSizes \cup {0}) \ {want[w]} :
             n <= free /\ free' = free - n /\ left' = left + n
        /\ UNCHANGED bytes
  /\ Goto(w, "drop")
  /\ UNCHANGED <<boot, residue, ledger, kind, want, seenCharged, seenReserved, mine>>

\* Drop for TempReservation.  The PathGuard of a conversion removes the file
\* before it drops the reservation; a TempFile does not wait for the removal.
DropReserved(w) ==
  /\ pc[w] = "drop"
  /\ kind[w] = "conversion" => bytes[w] = 0
  /\ reserved' = Sub(reserved, res[w])
  /\ Goto(w, "dropCharged")
  /\ UNCHANGED <<boot, residue, charged, free, kind, want, seenCharged,
                 seenReserved, mine, bytes, left>>

DropCharged(w) ==
  /\ pc[w] = "dropCharged"
  /\ charged' = Sub(charged, chg[w])
  /\ res' = [res EXCEPT ![w] = 0]
  /\ chg' = [chg EXCEPT ![w] = 0]
  /\ want' = [want EXCEPT ![w] = 0]
  /\ Goto(w, "idle")
  /\ UNCHANGED <<boot, residue, reserved, free, kind, seenCharged,
                 seenReserved, bytes, left>>

\* Mutant: the file is only removed while its reservation is whole.
RemoveFileFirst(w) ==
  /\ pc[w] = "drop"
  /\ bytes[w] > 0
  /\ free' = free + bytes[w]
  /\ bytes' = [bytes EXCEPT ![w] = 0]
  /\ UNCHANGED <<boot, residue, ledger, pc, kind, want, seenCharged,
                 seenReserved, mine, left>>

\* A thread of the blocking pool removes the file.
RemoveFile(w) ==
  /\ pc[w] \in {"drop", "dropCharged", "idle"}
  /\ bytes[w] > 0
  /\ free' = free + bytes[w]
  /\ bytes' = [bytes EXCEPT ![w] = 0]
  /\ UNCHANGED <<boot, residue, ledger, pc, kind, want, seenCharged,
                 seenReserved, mine, left>>

-----------------------------------------------------------------------------
Step(w) ==
  \/ LoadCharged(w) \/ LoadReserved(w) \/ CompareExchange(w)
  \/ Write(w) \/ CommitReserved(w) \/ CommitCharged(w)
  \/ DropReserved(w) \/ DropCharged(w) \/ RemoveFile(w)

QuotaNext ==
  \/ \E n \in Residues : AccountExisting(n)
  \/ \E w \in Writers :
       \/ OpenUpload(w) \/ CloseFile(w) \/ AbandonDownload(w) \/ Step(w)
       \/ \E n \in ChunkSizes : OpenConversion(w, n) \/ WriteChunk(w, n)

QuotaSpec     == QuotaInit /\ [][QuotaNext]_quotaVars
FairQuotaSpec == QuotaSpec /\ \A w \in Writers : WF_quotaVars(Step(w))

-----------------------------------------------------------------------------
(* Properties *)

\* The bytes that the writers hold together: each has its own, one by one.
Total(held) == Cardinality(UNION {{w} \X (1..held[w]) : w \in Writers})

\* What each writer has in the two counters at this point of its work.
InReserved == [w \in Writers |-> CASE pc[w] = "commitCharged" -> res[w] - want[w]
                                    [] pc[w] = "dropCharged"   -> 0
                                    [] OTHER                   -> res[w]]
InCharged  == chg

\* The two counters are the sums of what the live reservations hold, between
\* the steps of every reserve, commit and drop: no error path or cancellation
\* leaks bytes from the budget, and neither counter wraps below zero.
LedgerBalanced ==
  /\ reserved = Total(InReserved)
  /\ charged = residue + Total(InCharged)

\* Whatever the others do, one temp file never outgrows the quota: a stale
\* charged_bytes still contains what the file itself has charged.
FileWithinQuota == \A w \in Writers : bytes[w] <= Quota

\* What is gone from the disk is in the file of a writer or in an abandoned
\* download, once: no file is removed twice, and only AbandonDownload leaks.
DiskBalanced == free + Total(bytes) + left = Disk

\* The budget is neither leaked nor exceeded by a file, whatever fails or is
\* cancelled between the loads, the compare-exchange and the commits, and what
\* the disk loses for good are abandoned downloads.  The ledger does not know
\* of those: their reservations are gone.
LedgerSound == QuotaTypeOK /\ LedgerBalanced /\ FileWithinQuota /\ DiskBalanced

\* A temp file that is dropped, at whatever point of its use, ends up with
\* nothing left in the ledger and is removed, although the release and the
\* removal run on different threads; unless it is a download without a
\* PathGuard, which is not the writer's any more and stays (`left`).
DroppedIsFreed ==
  \A w \in Writers :
    (pc[w] = "drop") ~> (bytes[w] = 0 /\ res[w] = 0 /\ chg[w] = 0)

=============================================================================
