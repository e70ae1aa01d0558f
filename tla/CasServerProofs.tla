-------------------------- MODULE CasServerProofs --------------------------
(***************************************************************************)
(* Proofs about CasServer for every set of files, xorbs, shards and        *)
(* concurrent requests.  The inductive invariant Inv says what each step   *)
(* of a handler or of a conversion has already established, so that the    *)
(* next step may rely on it after any interleaving.                        *)
(***************************************************************************)
EXTENDS CasServer, TLAPS

\* Every object under shards/ was validated before it was stored.
StoredSound ==
  \A k \in shardObjs : k[1] \in GoodShards /\ ShardXorbs[k[1]] \subseteq xorbs

\* Requests and conversions run only while the server serves.
QuietUnlessServing ==
  phase # "serving" => /\ \A r \in Reqs : pc[r] = "idle"
                       /\ \A o \in Oids : conv[o] = "idle"

\* What a request has established before it takes its next step.
RequestsSound ==
  \A r \in Reqs :
    /\ pc[r] \in {"shStore", "shCopy"} => Validates(obj[r])
    /\ pc[r] = "shRegister" => Final(obj[r]) \in shardObjs
    /\ pc[r] = "dlFetch" => \E k \in refs[r] : Reconstructs(k)
    /\ pc[r] \in BusyPcs /\ r \in due => obj[r] \in acked
    /\ pc[r] = "dlIndex" /\ r \in due /\ readiness = "ready" => fileIndex[obj[r]] # {}
    /\ pc[r] = "dlMissing" /\ r \in due => readiness # "ready"

\* What a conversion has established before it takes its next step.
ConversionsSound ==
  \A o \in Oids :
    /\ conv[o] \in {"shard", "tmp"} => ConvXorb[o] \in xorbs
    /\ conv[o] = "register" => Final(ConvShard[o]) \in shardObjs
    /\ conv[o] = "delete" => fileIndex[o] # {}

\* A rebuild without failures has indexed every key it has processed.
RebuildSound ==
  phase = "rebuilding" /\ ~failures =>
    \A k \in shardObjs \ pending : \A o \in ShardFiles[k[1]] : k \in fileIndex[o]

Inv == /\ TypeOK
       /\ StoredSound
       /\ IndexSound
       /\ QuietUnlessServing
       /\ RequestsSound
       /\ ConversionsSound
       /\ RebuildSound
       /\ AckedDurable
       /\ AckedReachable
-----------------------------------------------------------------------------
(* The invariant is inductive. *)

\* A first start over an empty disk.
LEMMA InitInv == Init => Inv
<1> SUFFICES ASSUME Init PROVE Inv
  OBVIOUS
<1> QED
  BY ContentAssumption
  DEF Init, EmptyIndex, Inv, TypeOK, StoredSound, IndexSound, QuietUnlessServing,
      RequestsSound, ConversionsSound, RebuildSound, AckedDurable, AckedReachable,
      FreePcs, BusyPcs, UploadPcs, DownloadPcs, HeadPcs, XorbPcs, ShardPcs, ConvPcs

\* Every step of a handler, a conversion or the server's life cycle keeps Inv.
LEMMA NextInv == Inv /\ Next => Inv'
<1> SUFFICES ASSUME Inv, Next PROVE Inv'
  OBVIOUS
<1> USE ContentAssumption
    DEF Inv, TypeOK, StoredSound, IndexSound, QuietUnlessServing, RequestsSound,
        ConversionsSound, RebuildSound, AckedDurable, AckedReachable, OnDisk,
        Validates, Reconstructs, Parses, Final, disk, boot, slots, ShardKeys, Kinds,
        UploadPcs, DownloadPcs, HeadPcs, XorbPcs, ShardPcs, FreePcs, BusyPcs, ConvPcs
<1>1. ASSUME NEW r \in Reqs, UploadExists(r) PROVE Inv'
  <2>1. CASE obj[r] \in raw
    BY <1>1, <2>1, SMTT(30) DEF UploadExists, Goto, Respond
  <2>2. CASE obj[r] \notin raw
    BY <1>1, <2>2 DEF UploadExists, Goto, Respond
  <2> QED
    BY <2>1, <2>2
<1>2. ASSUME NEW r \in Reqs, UploadStore(r) PROVE Inv'
  BY <1>2 DEF UploadStore, Respond
<1>3. ASSUME NEW r \in Reqs, DownloadExists(r) PROVE Inv'
  BY <1>3 DEF DownloadExists, Goto
<1>4. ASSUME NEW r \in Reqs, DownloadOpen(r) PROVE Inv'
  <2>1. CASE obj[r] \in raw
    BY <1>4, <2>1 DEF DownloadOpen, Goto, Respond
  <2>2. CASE obj[r] \notin raw
    BY <1>4, <2>2 DEF DownloadOpen, Goto, Respond
  <2> QED
    BY <2>1, <2>2
<1>5. ASSUME NEW r \in Reqs, DownloadIndex(r) PROVE Inv'
  <2>1. CASE fileIndex[obj[r]] = {}
    <3>1. TypeOK'
      BY <1>5, <2>1 DEF DownloadIndex, Respond
    <3>2. StoredSound'
      BY <1>5, <2>1 DEF DownloadIndex, Respond
    <3>3. IndexSound'
      BY <1>5, <2>1 DEF DownloadIndex, Respond
    <3>4. QuietUnlessServing'
      BY <1>5, <2>1 DEF DownloadIndex, Respond
    <3>5. RequestsSound'
      <4>1. r \in due => readiness # "ready"
        BY <1>5, <2>1 DEF DownloadIndex
      <4>2. /\ Respond(r, "dlMissing")
            /\ UNCHANGED <<disk, boot, fileIndex, conv, acked>>
        BY <1>5, <2>1 DEF DownloadIndex
      <4> QED
        BY <4>1, <4>2 DEF Respond
    <3>6. ConversionsSound'
      BY <1>5, <2>1 DEF DownloadIndex, Respond
    <3>7. RebuildSound'
      BY <1>5, <2>1 DEF DownloadIndex, Respond
    <3>8. AckedDurable'
      BY <1>5, <2>1 DEF DownloadIndex, Respond
    <3>9. AckedReachable'
      BY <1>5, <2>1 DEF DownloadIndex, Respond
    <3> QED
      BY <3>1, <3>2, <3>3, <3>4, <3>5, <3>6, <3>7, <3>8, <3>9
  <2>2. CASE fileIndex[obj[r]] # {}
    BY <1>5, <2>2 DEF DownloadIndex
  <2> QED
    BY <2>1, <2>2
<1>6. ASSUME NEW r \in Reqs, DownloadFetch(r) PROVE Inv'
  BY <1>6 DEF DownloadFetch, Respond
<1>7. ASSUME NEW r \in Reqs, HeadIndex(r) PROVE Inv'
  <2>1. CASE fileIndex[obj[r]] # {}
    BY <1>7, <2>1 DEF HeadIndex, Goto, Respond
  <2>2. CASE fileIndex[obj[r]] = {}
    BY <1>7, <2>2 DEF HeadIndex, Goto, Respond
  <2> QED
    BY <2>1, <2>2
<1>8. ASSUME NEW r \in Reqs, HeadRaw(r) PROVE Inv'
  BY <1>8 DEF HeadRaw, Respond
<1>9. ASSUME NEW r \in Reqs, XorbExists(r) PROVE Inv'
  <2>1. CASE obj[r] \in xorbs
    BY <1>9, <2>1 DEF XorbExists, Goto, Respond
  <2>2. CASE obj[r] \notin xorbs
    BY <1>9, <2>2, SMTT(30) DEF XorbExists, Goto, Respond
  <2> QED
    BY <2>1, <2>2
<1>10. ASSUME NEW r \in Reqs, XorbStore(r) PROVE Inv'
  BY <1>10 DEF XorbStore, Respond
<1>11. ASSUME NEW r \in Reqs, ShardExists(r) PROVE Inv'
  BY <1>11 DEF ShardExists, Goto
<1>12. ASSUME NEW r \in Reqs, ShardRevalidate(r) PROVE Inv'
  <2>1. CASE Parses(Final(obj[r])) /\ Validates(obj[r])
    <3>1. TypeOK'
      BY <1>12, <2>1 DEF ShardRevalidate, Registered, Respond
    <3>2. StoredSound'
      BY <1>12, <2>1 DEF ShardRevalidate, Registered, Respond
    <3>3. IndexSound'
      BY <1>12, <2>1, SMTT(30) DEF ShardRevalidate, Registered, Respond
    <3>4. QuietUnlessServing'
      BY <1>12, <2>1 DEF ShardRevalidate, Registered, Respond
    <3>5. RequestsSound'
      BY <1>12, <2>1 DEF ShardRevalidate, Registered, Respond
    <3>6. ConversionsSound'
      BY <1>12, <2>1 DEF ShardRevalidate, Registered, Respond
    <3>7. RebuildSound'
      BY <1>12, <2>1 DEF ShardRevalidate, Registered, Respond
    <3>8. AckedDurable'
      <4>1. /\ obj[r] \in Shards /\ Final(obj[r]) \in shardObjs
            /\ obj[r] \in GoodShards /\ ShardXorbs[obj[r]] \subseteq xorbs
        BY <1>12, <2>1 DEF ShardRevalidate
      <4>2. \A f \in ShardFiles[obj[r]] : OnDisk(f)
        BY <4>1
      <4>3. \A f \in acked' : OnDisk(f)
        BY <1>12, <2>1, <4>2 DEF ShardRevalidate
      <4> QED
        BY <1>12, <2>1, <4>3 DEF ShardRevalidate
    <3>9. AckedReachable'
      BY <1>12, <2>1 DEF ShardRevalidate, Registered, Respond
    <3> QED
      BY <3>1, <3>2, <3>3, <3>4, <3>5, <3>6, <3>7, <3>8, <3>9
  <2>2. CASE ~(Parses(Final(obj[r])) /\ Validates(obj[r]))
    BY <1>12, <2>2 DEF ShardRevalidate, Respond
  <2> QED
    BY <2>1, <2>2
<1>13. ASSUME NEW r \in Reqs, ShardValidate(r) PROVE Inv'
  <2>1. CASE Validates(obj[r])
    BY <1>13, <2>1 DEF ShardValidate, Goto
  <2>2. CASE ~Validates(obj[r])
    <3>1. /\ Respond(r, "idle")
          /\ UNCHANGED <<disk, boot, fileIndex, conv, acked>>
      BY <1>13, <2>2 DEF ShardValidate
    <3> QED
      BY <3>1 DEF Respond
  <2> QED
    BY <2>1, <2>2
<1>14. ASSUME NEW r \in Reqs, ShardStore(r) PROVE Inv'
  BY <1>14 DEF ShardStore, Goto
<1>15. ASSUME NEW r \in Reqs, ShardRegister(r) PROVE Inv'
  <2>1. TypeOK'
    BY <1>15 DEF ShardRegister, Registered, Respond
  <2>2. StoredSound'
    BY <1>15 DEF ShardRegister, Registered, Respond
  <2>3. IndexSound'
    BY <1>15 DEF ShardRegister, Registered, Respond
  <2>4. QuietUnlessServing'
    BY <1>15 DEF ShardRegister, Registered, Respond
  <2>5. RequestsSound'
    BY <1>15 DEF ShardRegister, Registered, Respond
  <2>6. ConversionsSound'
    BY <1>15 DEF ShardRegister, Registered, Respond
  <2>7. RebuildSound'
    BY <1>15 DEF ShardRegister, Registered, Respond
  <2>8. AckedDurable'
    <3>1. /\ obj[r] \in Shards /\ Final(obj[r]) \in shardObjs
          /\ obj[r] \in GoodShards /\ ShardXorbs[obj[r]] \subseteq xorbs
      BY <1>15 DEF ShardRegister
    <3>2. \A f \in ShardFiles[obj[r]] : OnDisk(f)
      BY <3>1
    <3>3. \A f \in acked' : OnDisk(f)
      BY <1>15, <3>2 DEF ShardRegister
    <3> QED
      BY <1>15, <3>3 DEF ShardRegister
  <2>9. AckedReachable'
    BY <1>15 DEF ShardRegister, Registered, Respond
  <2> QED
    BY <2>1, <2>2, <2>3, <2>4, <2>5, <2>6, <2>7, <2>8, <2>9
<1>16. ASSUME NEW r \in Reqs, Abandon(r) PROVE Inv'
  BY <1>16 DEF Abandon, Respond
<1>17. ASSUME NEW r \in Reqs, BeginRequest(r) PROVE Inv'
  <2>1. ASSUME NEW o \in Oids, NEW p \in {"upExists", "dlExists", "hdIndex"}, Begin(r, p, o)
        PROVE Inv'
    BY <2>1 DEF Begin
  <2>2. ASSUME NEW x \in Xorbs, Begin(r, "xbExists", x) PROVE Inv'
    BY <2>2 DEF Begin
  <2>3. ASSUME NEW s \in Shards, Begin(r, "shExists", s) PROVE Inv'
    BY <2>3 DEF Begin
  <2> QED
    BY <1>17, <2>1, <2>2, <2>3 DEF BeginRequest
<1>18. ASSUME NEW o \in Oids, ConvertOpen(o) PROVE Inv'
  BY <1>18 DEF ConvertOpen
<1>19. ASSUME NEW o \in Oids, ConvertPutXorb(o) PROVE Inv'
  BY <1>19 DEF ConvertPutXorb
<1>20. ASSUME NEW o \in Oids, ConvertWriteShard(o) PROVE Inv'
  BY <1>20 DEF ConvertWriteShard
<1>21. ASSUME NEW o \in Oids, ConvertRenameShard(o) PROVE Inv'
  BY <1>21 DEF ConvertRenameShard
<1>22. ASSUME NEW o \in Oids, ConvertRegister(o) PROVE Inv'
  BY <1>22 DEF ConvertRegister, Registered
<1>23. ASSUME NEW o \in Oids, ConvertDelete(o) PROVE Inv'
  <2>1. TypeOK'
    BY <1>23 DEF ConvertDelete
  <2>2. StoredSound'
    BY <1>23 DEF ConvertDelete
  <2>3. IndexSound'
    BY <1>23 DEF ConvertDelete
  <2>4. QuietUnlessServing'
    BY <1>23 DEF ConvertDelete
  <2>5. RequestsSound'
    BY <1>23 DEF ConvertDelete
  <2>6. ConversionsSound'
    BY <1>23 DEF ConvertDelete
  <2>7. RebuildSound'
    BY <1>23 DEF ConvertDelete
  <2>8. AckedDurable'
    <3>0. fileIndex[o] # {}
      BY <1>23 DEF ConvertDelete
    <3>1. PICK k : k \in fileIndex[o]
      BY <3>0
    <3>2. k \in shardObjs /\ k[2] # "partial" /\ k[1] \in GoodShards
          /\ o \in ShardFiles[k[1]] /\ ShardXorbs[k[1]] \subseteq xorbs
      BY <3>1
    <3>3. OnDisk(o)'
      BY <1>23, <3>2 DEF ConvertDelete
    <3>4. ASSUME NEW f \in acked, f # o PROVE OnDisk(f)'
      BY <1>23, <3>4 DEF ConvertDelete
    <3> QED
      BY <1>23, <3>3, <3>4 DEF ConvertDelete
  <2>9. AckedReachable'
    BY <1>23 DEF ConvertDelete
  <2> QED
    BY <2>1, <2>2, <2>3, <2>4, <2>5, <2>6, <2>7, <2>8, <2>9
<1>24. ASSUME NEW o \in Oids, ConvertStop(o) PROVE Inv'
  BY <1>24 DEF ConvertStop
<1>25. CASE Start
  BY <1>25, ZenonT(60) DEF Start, EmptyIndex
<1>26. CASE ListingFails
  BY <1>26 DEF ListingFails
<1>27. CASE FinishRebuild
  BY <1>27 DEF FinishRebuild
<1>28. CASE Crash
  <2>1. TypeOK'
    BY <1>28 DEF Crash, Stop, Writing
  <2>2. StoredSound'
    <3>1. \A s \in Writing : s \in GoodShards /\ ShardXorbs[s] \subseteq xorbs
      <4>1. \A p \in Oids : conv[p] = "tmp" =>
              ConvShard[p] \in GoodShards /\ ShardXorbs[ConvShard[p]] \subseteq xorbs
        <5> SUFFICES ASSUME NEW p \in Oids, conv[p] = "tmp"
                     PROVE ShardXorbs[ConvShard[p]] \subseteq xorbs
          BY ContentAssumption
        <5>1. ConvXorb[p] \in xorbs
          BY DEF ConversionsSound
        <5>2. ShardXorbs[ConvShard[p]] = {ConvXorb[p]}
          BY ContentAssumption
        <5> QED
          BY <5>1, <5>2
      <4>2. \A q \in Reqs : pc[q] = "shCopy" =>
              obj[q] \in GoodShards /\ ShardXorbs[obj[q]] \subseteq xorbs
        OBVIOUS
      <4> QED
        BY <4>1, <4>2 DEF Writing
    <3>2. \A k \in shardObjs' : k \in shardObjs \/ k[1] \in Writing
      BY <1>28 DEF Crash, Stop
    <3> QED
      BY <1>28, <3>1, <3>2 DEF Crash, Stop
  <2>3. IndexSound'
    BY <1>28 DEF Crash, Stop, Writing
  <2>4. QuietUnlessServing'
    BY <1>28 DEF Crash, Stop, Writing
  <2>5. RequestsSound'
    BY <1>28 DEF Crash, Stop, Writing
  <2>6. ConversionsSound'
    BY <1>28 DEF Crash, Stop, Writing
  <2>7. RebuildSound'
    BY <1>28 DEF Crash, Stop, Writing
  <2>8. AckedDurable'
    BY <1>28 DEF Crash, Stop, Writing
  <2>9. AckedReachable'
    BY <1>28 DEF Crash, Stop, Writing
  <2> QED
    BY <2>1, <2>2, <2>3, <2>4, <2>5, <2>6, <2>7, <2>8, <2>9
<1>29. CASE Shutdown
  BY <1>29 DEF Shutdown, Stop
<1>30. ASSUME NEW k \in ShardKeys, RebuildKey(k) PROVE Inv'
  <2>1. TypeOK'
    <3>1. CASE Parses(k) /\ Validates(k[1])
      BY <1>30, <3>1 DEF RebuildKey, Registered
    <3>2. CASE ~(Parses(k) /\ Validates(k[1]))
      <4>1. /\ pending' = pending \ {k} /\ failures' = TRUE
            /\ UNCHANGED <<disk, phase, readiness, fileIndex, slots, conv, acked>>
        BY <1>30, <3>2 DEF RebuildKey
      <4> QED
        BY <4>1
    <3> QED
      BY <3>1, <3>2
  <2>2. StoredSound'
    BY <1>30 DEF RebuildKey, Registered
  <2>3. IndexSound'
    BY <1>30 DEF RebuildKey, Registered
  <2>4. QuietUnlessServing'
    BY <1>30 DEF RebuildKey, Registered
  <2>5. RequestsSound'
    BY <1>30 DEF RebuildKey, Registered
  <2>6. ConversionsSound'
    BY <1>30 DEF RebuildKey, Registered
  <2>7. RebuildSound'
    BY <1>30 DEF RebuildKey, Registered
  <2>8. AckedDurable'
    BY <1>30 DEF RebuildKey, Registered
  <2>9. AckedReachable'
    BY <1>30 DEF RebuildKey, Registered
  <2> QED
    BY <2>1, <2>2, <2>3, <2>4, <2>5, <2>6, <2>7, <2>8, <2>9
<1>31. ASSUME NEW k \in ShardKeys, RebuildKeyFails(k) PROVE Inv'
  BY <1>31 DEF RebuildKeyFails
<1> QED
  BY <1>1, <1>2, <1>3, <1>4, <1>5, <1>6, <1>7, <1>8, <1>9, <1>10, <1>11,
     <1>12, <1>13, <1>14, <1>15, <1>16, <1>17, <1>18, <1>19, <1>20, <1>21,
     <1>22, <1>23, <1>24, <1>25, <1>26, <1>27, <1>28, <1>29, <1>30, <1>31
  DEF Next, Handle, Convert, Lifecycle

\* So does a step that changes nothing.
LEMMA StutterInv == Inv /\ UNCHANGED vars => Inv'
  BY DEF Inv, vars, TypeOK, StoredSound, IndexSound, QuietUnlessServing, RequestsSound,
     ConversionsSound, RebuildSound, AckedDurable, AckedReachable, OnDisk, Validates,
     Reconstructs, Parses, Final

\* Inv holds in every reachable state.
LEMMA Invariance == Spec => []Inv
<1>1. Inv /\ [Next]_vars => Inv'
  BY NextInv, StutterInv
<1> QED
  BY InitInv, <1>1, PTL DEF Spec

-----------------------------------------------------------------------------
(* The properties follow. *)

\* Every variable keeps its type, and a request stays with the kind of object its
\* handler is about.
THEOREM TypeCorrect == Spec => []TypeOK
  BY Invariance, PTL DEF Inv

\* Acknowledged files survive conversions, deletions of raw blobs and crashes.
THEOREM Durability == Spec => []AckedDurable
  BY Invariance, PTL DEF Inv

\* The index only names stored contents that reconstruct the file.
THEOREM IndexSoundness == Spec => []IndexSound
  BY Invariance, PTL DEF Inv

\* A ready server finds every acknowledged file, raw or through the index.
THEOREM Reachability == Spec => []AckedReachable
  BY Invariance, PTL DEF Inv

\* A ready server never answers 404 to a download of an acknowledged file.
THEOREM DownloadsServe == Spec => []DownloadServesAcked
<1>1. Inv => DownloadServesAcked
  BY DEF Inv, TypeOK, RequestsSound, DownloadServesAcked
<1> QED
  BY Invariance, <1>1, PTL

\* No step removes a xorb or a shard, and a raw blob is removed only when the
\* index names a reference that reconstructs the file.
THEOREM DeletionsSafe == Spec => DeletesAreSafe
<1> DEFINE Safe == /\ xorbs \subseteq xorbs'
                   /\ shardObjs \subseteq shardObjs'
                   /\ \A o \in raw \ raw' : \E k \in fileIndex[o] : Reconstructs(k)
<1>1. ASSUME Inv, Next PROVE Safe
  <2>1. ASSUME NEW o \in Oids, ConvertDelete(o) PROVE Safe
    <3>1. fileIndex[o] # {} /\ \A k \in fileIndex[o] : Reconstructs(k)
      BY <1>1, <2>1 DEF Inv, ConversionsSound, IndexSound, ConvertDelete
    <3>2. raw \ raw' \subseteq {o} /\ UNCHANGED <<xorbs, shardObjs>>
      BY <2>1 DEF ConvertDelete
    <3> QED
      BY <3>1, <3>2
  <2>2. CASE ~\E o \in Oids : ConvertDelete(o)
    <3>1. raw \subseteq raw' /\ xorbs \subseteq xorbs' /\ shardObjs \subseteq shardObjs'
      BY <1>1, <2>2
      DEF Next, Handle, Convert, Lifecycle, BeginRequest, Begin, Abandon, UploadExists,
          UploadStore, DownloadExists, DownloadOpen, DownloadIndex, DownloadFetch,
          HeadIndex, HeadRaw, XorbExists, XorbStore, ShardExists, ShardRevalidate,
          ShardValidate, ShardStore, ShardRegister, ConvertOpen, ConvertPutXorb,
          ConvertWriteShard, ConvertRenameShard, ConvertRegister, ConvertStop, Start,
          ListingFails, FinishRebuild, RebuildKey, RebuildKeyFails, Crash, Shutdown,
          Stop, disk
    <3> QED
      BY <3>1
  <2> QED
    BY <2>1, <2>2
<1>2. Inv /\ [Next]_vars => [Safe]_vars
  BY <1>1
<1> QED
  BY Invariance, <1>2, PTL DEF Spec, DeletesAreSafe
=============================================================================
