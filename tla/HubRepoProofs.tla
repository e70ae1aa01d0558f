--------------------------- MODULE HubRepoProofs ---------------------------
(***************************************************************************)
(* Racing commits, deletions and listings of the Hub, for any number of    *)
(* requests, repositories, commits and paths, any page size and any        *)
(* directories.                                                            *)
(*                                                                         *)
(* The history needs two strengthenings: a repository without a head has   *)
(* no commit at all (Rooted; otherwise a cycle of commits would satisfy    *)
(* LinearHistory), and a request inside the transaction still sees the     *)
(* head and the repository it has checked, because nobody else writes      *)
(* then.  A listing is described page by page: what was handed out so far  *)
(* is the listing of the rows up to the cursor.                            *)
(*                                                                         *)
(* The last part shows that HubRepo implements AtomicRepos.  It needs in   *)
(* addition that no two names have one id, that an id is never handed out  *)
(* again, and that a commit applies the list its client sent (NamesInv).   *)
(***************************************************************************)
EXTENDS HubRepo, TLAPS, FiniteSetTheorems, SequenceTheorems, WellFoundedInduction

\* Commit ids are handed out in order, and a repository without a head has no
\* commit.
Fresh  == \A c \in Commits : c > lastCommit => rev[c] = None
Rooted == \A i \in RepoIds : heads[i] = None => RevisionsOf(i) = {}

\* What a whole listing of these rows shows.
Listing(deep, rows) ==
  SetToBag(IF deep THEN rows ELSE
    {row \in rows : DirOf[row[1]] = None}
    \cup {<<DirOf[row[1]], None>> : row \in {q \in rows : DirOf[q[1]] # None}})

UpTo(rows, last) == {row \in rows : row[1] <= last}

\* The pages so far; the cursor is one of the rows.
Seen(r) ==
  /\ listed[r] = Listing(recursive[r], UpTo(snapshot[r], cursor[r]))
  /\ cursor[r] # 0 => \E row \in snapshot[r] : row[1] = cursor[r]

ListPcs == {"lsRev", "lsPage", "lsNext", "lsDone"}

ListSound(r) ==
  pc[r] \in ListPcs =>
    /\ parent[r] = None => pc[r] = "lsRev" /\ cursor[r] = 0 /\ listed[r] = EmptyBag
    /\ parent[r] # None =>
         /\ parent[r] <= lastCommit
         /\ rev[parent[r]] # None =>
              /\ snapshot[r] = Rows(tree[parent[r]])
              /\ IF pc[r] = "lsDone" THEN listed[r] = Listing(recursive[r], snapshot[r])
                                     ELSE Seen(r)

\* Inside a commit and its transaction.
CommitSound(r) ==
  /\ pc[r] \in TxPcs <=> txOwner = r
  /\ pc[r] # "idle" => repo[r] \in RepoIds
  /\ pc[r] = "cmOps" => ops[r] # << >>
  /\ pc[r] = "txCommit" => heads[repo[r]] = parent[r] /\ Exists(repo[r])
  /\ \A i \in 1..Len(done[r]) : done[r][i].type # "delete" => done[r][i].oid \in blobs

IdleSound(r) ==
  pc[r] = "idle" => parent[r] = None /\ listed[r] = EmptyBag /\ cursor[r] = 0

ReqSound(r) == ListSound(r) /\ CommitSound(r) /\ IdleSound(r)

StoreSound == LinearHistory /\ NoOrphans /\ Fresh /\ Rooted /\ SnapshotIsDelta /\ TreesAreStored

IInv == TypeOK /\ StoreSound /\ \A r \in Reqs : ReqSound(r)

-----------------------------------------------------------------------------
\* A set of natural numbers has a least element.
LEMMA LeastNatural ==
  ASSUME NEW S \in SUBSET Nat, S # {}
  PROVE  \E m \in S : \A k \in S : m <= k
<1>1. PICK m \in S : \A k \in S : ~ <<k, m>> \in OpToRel(<, Nat)
  BY WFMin, NatLessThanWellFounded
<1>2. \A k \in S : ~ k < m
  BY <1>1 DEF OpToRel
<1> QED BY <1>2

\* A bounded one has a greatest, which is its Max.
LEMMA MaxExists ==
  ASSUME NEW n \in Nat, NEW S \in SUBSET (0..n), S # {}
  PROVE  Max(S) \in S /\ \A y \in S : y <= Max(S)
<1> DEFINE Bounds == {m \in Nat : \A y \in S : y <= m}
<1>1. n \in Bounds /\ Bounds \subseteq Nat
  OBVIOUS
<1>2. PICK m \in Bounds : \A k \in Bounds : m <= k
  BY <1>1, LeastNatural
<1>3. m \in Nat /\ \A y \in S : y \in Nat /\ y <= m
  OBVIOUS
<1>4. m \in S
  <2> SUFFICES ASSUME m \notin S PROVE FALSE
    OBVIOUS
  <2>1. \A y \in S : y < m /\ y \in Nat
    BY <1>3
  <2>2. m - 1 \in Nat /\ \A y \in S : y <= m - 1
    <3>0. PICK y \in S : TRUE
      OBVIOUS
    <3> HIDE DEF Bounds
    <3>1. m > 0
      BY <1>3, <2>1, <3>0
    <3> QED BY <1>3, <2>1, <3>1
  <2>3. m - 1 \in Bounds
    BY <2>2
  <2> HIDE DEF Bounds
  <2> QED BY <2>3, <1>2, <1>3
<1>5. \E x \in S : \A y \in S : x >= y
  BY <1>3, <1>4
<1> QED BY <1>5, <1>3 DEF Max

\* What Apply writes is of the base tree or of an operation.
LEMMA ApplyCases ==
  ASSUME NEW t, NEW changes \in Seq(Operations), NEW p \in Paths
  PROVE  \/ Apply(t, changes)[p] = t[p]
         \/ Apply(t, changes)[p] = None
         \/ \E i \in 1..Len(changes) : /\ changes[i].type # "delete"
                                       /\ Apply(t, changes)[p] = changes[i].oid
<1> DEFINE on == {i \in DOMAIN changes : changes[i].path = p}
           op == changes[Max(on)]
<1>1. Apply(t, changes)[p] = IF on = {} THEN t[p] ELSE IF op.type = "delete" THEN None ELSE op.oid
  BY DEF Apply
<1>2. Len(changes) \in Nat /\ on \in SUBSET (0..Len(changes)) /\ on \subseteq 1..Len(changes)
  OBVIOUS
<1>3. on # {} => Max(on) \in 1..Len(changes)
  <2> HIDE DEF on
  <2> QED BY <1>2, MaxExists
<1> HIDE DEF on
<1> QED BY <1>1, <1>3

\* A tree stays one.
LEMMA ApplyType ==
  ASSUME NEW t \in [Paths -> Blobs \cup {None}], NEW changes \in Seq(Operations)
  PROVE  Apply(t, changes) \in [Paths -> Blobs \cup {None}]
<1>1. Apply(t, changes) = [p \in Paths |-> Apply(t, changes)[p]]
  BY DEF Apply
<1>2. ASSUME NEW p \in Paths PROVE Apply(t, changes)[p] \in Blobs \cup {None}
  <2>1. \A i \in 1..Len(changes) : changes[i].type # "delete" => changes[i].oid \in Blobs
    <3> SUFFICES ASSUME NEW i \in 1..Len(changes), changes[i].type # "delete"
                 PROVE  changes[i].oid \in Blobs
      OBVIOUS
    <3>1. changes[i] \in Operations
      OBVIOUS
    <3> QED BY <3>1 DEF Operations
  <2> QED BY <2>1, ApplyCases
<1> QED BY <1>1, <1>2

-----------------------------------------------------------------------------
(* Pages and listings *)

\* The rows of one commit: one for each of some paths.
RowSet(rows) ==
  /\ rows \in SUBSET (Paths \X Blobs)
  /\ \A q, w \in rows : q[1] = w[1] => q = w

\* The tree of a commit has one row for each path.
LEMMA RowsAreRowSet ==
  ASSUME NEW t \in [Paths -> Blobs \cup {None}]
  PROVE  RowSet(Rows(t))
<1>1. ASSUME NEW q \in Rows(t) PROVE q \in Paths \X Blobs /\ q[2] = t[q[1]]
  BY DEF Rows
<1> QED BY <1>1 DEF RowSet

\* There are finitely many of them, so one of them is the first.
LEMMA RowSetFinite ==
  ASSUME NEW rows, RowSet(rows)
  PROVE  IsFiniteSet(rows)
<1> DEFINE f == [row \in rows |-> row[1]]
<1>1. IsFiniteSet(Paths)
  BY FS_Interval, HubAssumption DEF Paths
<1>2. f \in [rows -> Paths] /\ \A q, w \in rows : f[q] = f[w] => q = w
  BY DEF RowSet
<1>3. f \in Injection(rows, Paths)
  BY <1>2 DEF Injection, IsInjective
<1> QED BY <1>1, <1>3, FS_Injection

\* A page is a first part of the rows, and not empty if there are any.
LEMMA PageIsFirstPart ==
  ASSUME NEW rest, RowSet(rest)
  PROVE  /\ PageOf(rest) \subseteq rest
         /\ \A row \in PageOf(rest), q \in rest : q[1] < row[1] => q \in PageOf(rest)
         /\ rest # {} => PageOf(rest) # {}
<1> DEFINE Below(row) == {q \in rest : q[1] < row[1]}
<1>1. \A row : row \in PageOf(rest) <=> row \in rest /\ Cardinality(Below(row)) < PageSize
  BY DEF PageOf
<1>2. \A row \in rest : row[1] \in Nat
  BY HubAssumption DEF RowSet, Paths
<1>3. IsFiniteSet(rest)
  BY RowSetFinite
<1>4. ASSUME NEW row \in PageOf(rest), NEW q \in rest, q[1] < row[1] PROVE q \in PageOf(rest)
  <2>1. row \in rest /\ Cardinality(Below(row)) < PageSize
    BY <1>1
  <2>2. Below(q) \in SUBSET Below(row) /\ Below(row) \in SUBSET rest
    BY <1>2, <1>4, <2>1
  <2> HIDE DEF Below
  <2>3. IsFiniteSet(Below(row))
    BY <1>3, <2>2, FS_Subset
  <2>4. /\ Cardinality(Below(q)) <= Cardinality(Below(row)) /\ IsFiniteSet(Below(q))
    BY <2>2, <2>3, FS_Subset
  <2>5. Cardinality(Below(q)) \in Nat /\ Cardinality(Below(row)) \in Nat
    BY <2>3, <2>4, FS_CardinalityType
  <2>6. Cardinality(Below(q)) < PageSize
    BY <2>1, <2>4, <2>5, HubAssumption
  <2> QED BY <1>1, <2>6
<1>5. ASSUME rest # {} PROVE PageOf(rest) # {}
  <2> DEFINE at == {row[1] : row \in rest}
  <2>1. at \in SUBSET Nat /\ at # {}
    BY <1>2, <1>5
  <2>2. PICK m \in at : \A k \in at : m <= k
    BY <2>1, LeastNatural
  <2>3. PICK row \in rest : row[1] = m
    BY <2>2
  <2>4. ASSUME NEW q \in rest PROVE ~ q[1] < row[1]
    <3>1. q[1] \in at /\ m <= q[1] /\ q[1] \in Nat /\ m \in Nat
      BY <1>2, <2>2, <2>3
    <3> QED BY <2>3, <3>1
  <2>5. Below(row) = {}
    BY <2>4
  <2> HIDE DEF Below
  <2>6. Cardinality(Below(row)) < PageSize
    BY <2>5, FS_EmptySet, HubAssumption
  <2> QED BY <1>1, <2>6
<1> QED BY <1>1, <1>4, <1>5

\* A page after the given path: the part of the rows that a query may return.
PageAfter(rows, after, page) ==
  /\ RowSet(rows) /\ after \in 0..PathCount
  /\ after # 0 => \E row \in rows : row[1] = after
  /\ page \subseteq {row \in rows : row[1] > after}
  /\ \A row \in page, q \in rows : after < q[1] /\ q[1] < row[1] => q \in page

Dir(row) == DirOf[row[1]]

\* The row is the first of its directory in the whole tree.
First(rows, row) == \A q \in rows : q[1] < row[1] => Dir(q) # Dir(row)

\* The last directory met tells whether a row is the first of its directory,
\* wherever the page starts, because directories are contiguous.
LEMMA OpensIsFirst ==
  ASSUME NEW rows, NEW after, NEW page, PageAfter(rows, after, page),
         NEW row \in page, Dir(row) # None
  PROVE  LET Met == {q \in {w[1] : w \in page} : q < row[1] /\ DirOf[q] # None}
                    \cup ({after} \ {0})
         IN  (Met = {} \/ DirOf[Max(Met)] # DirOf[row[1]]) <=> First(rows, row)
<1> DEFINE Met == {q \in {w[1] : w \in page} : q < row[1] /\ DirOf[q] # None} \cup ({after} \ {0})
<1>1. /\ PathCount \in Nat /\ after \in Nat /\ after <= PathCount
      /\ \A q \in rows : q[1] \in Nat /\ 1 <= q[1] /\ q[1] <= PathCount /\ q[1] \in Paths
  BY HubAssumption DEF PageAfter, RowSet, Paths
<1>2. row \in rows /\ after < row[1] /\ \A w \in page : w \in rows /\ after < w[1]
  BY DEF PageAfter
<1>3. Met \in SUBSET (0..PathCount) /\ \A q \in Met : q < row[1]
  BY <1>1, <1>2
<1>4. \A q \in Met : \E w \in rows : w[1] = q
  BY <1>2 DEF PageAfter
<1>5. ASSUME Met # {} PROVE Max(Met) \in Met /\ \A q \in Met : q <= Max(Met)
  <2> HIDE DEF Met
  <2> QED BY <1>1, <1>3, <1>5, MaxExists
<1>6. ASSUME First(rows, row), Met # {} PROVE DirOf[Max(Met)] # DirOf[row[1]]
  <2> HIDE DEF Met
  <2>1. PICK w \in rows : w[1] = Max(Met)
    BY <1>4, <1>5, <1>6
  <2>2. w[1] < row[1]
    BY <1>3, <1>5, <1>6, <2>1
  <2> QED BY <1>6, <2>1, <2>2 DEF First, Dir
<1>7. ASSUME NEW q \in rows, q[1] < row[1], Dir(q) = Dir(row)
      PROVE  Met # {} /\ DirOf[Max(Met)] = DirOf[row[1]]
  <2>1. PICK m \in Met : q[1] <= m
    <3>1. CASE q[1] <= after
      <4>1. after \in Met
        BY <1>1, <3>1
      <4> HIDE DEF Met
      <4> QED BY <3>1, <4>1
    <3>2. CASE after < q[1]
      <4>1. q \in page
        BY <1>7, <3>2 DEF PageAfter
      <4>2. q[1] \in Met
        BY <1>7, <4>1 DEF Dir
      <4> HIDE DEF Met
      <4> QED BY <1>1, <4>2
    <3> QED BY <1>1, <3>1, <3>2
  <2> HIDE DEF Met
  <2>2. /\ Max(Met) \in 0..PathCount /\ m \in 0..PathCount
        /\ m <= Max(Met) /\ Max(Met) < row[1]
    BY <1>3, <1>5
  <2>3. Max(Met) \in q[1]..row[1]
    BY <1>1, <1>2, <2>1, <2>2
  <2>4. DirOf[Max(Met)] = DirOf[q[1]]
    BY <1>1, <1>2, <1>7, <2>3, HubAssumption DEF Dir
  <2> QED BY <1>7, <2>4 DEF Dir
<1> HIDE DEF Met
<1>8. (Met = {} \/ DirOf[Max(Met)] # DirOf[row[1]]) <=> First(rows, row)
  BY <1>6, <1>7 DEF First
<1> QED BY <1>8 DEF Met

Shown(rows, page) == {row \in page : Dir(row) = None \/ First(rows, row)}
Entry(row) == IF Dir(row) = None THEN row ELSE <<Dir(row), None>>

\* No two rows of a tree that are shown have the same entry.
LEMMA EntriesDiffer ==
  ASSUME NEW rows, RowSet(rows), NEW q \in rows, NEW w \in rows,
         Dir(q) = None \/ First(rows, q), Dir(w) = None \/ First(rows, w),
         Entry(q) = Entry(w)
  PROVE  q = w
<1>1. /\ q[1] \in Nat /\ w[1] \in Nat /\ q[2] # None /\ w[2] # None
      /\ q = <<q[1], q[2]>> /\ w = <<w[1], w[2]>>
  BY HubAssumption DEF RowSet, Paths
<1>2. CASE Dir(q) = None /\ Dir(w) = None
  BY <1>2 DEF Entry
<1>3. CASE Dir(q) = None /\ Dir(w) # None
  BY <1>1, <1>3 DEF Entry
<1>4. CASE Dir(q) # None /\ Dir(w) = None
  BY <1>1, <1>4 DEF Entry
<1>5. CASE Dir(q) # None /\ Dir(w) # None
  <2>1. Dir(q) = Dir(w)
    BY <1>5 DEF Entry
  <2>2. ~ q[1] < w[1] /\ ~ w[1] < q[1]
    BY <1>5, <2>1 DEF First
  <2>3. q[1] = w[1]
    BY <1>1, <2>2
  <2> QED BY <2>3 DEF RowSet
<1> QED BY <1>2, <1>3, <1>4, <1>5

\* What non_recursive_entries computes: each of the entries once.
LEMMA NonRecursiveEntries ==
  ASSUME NEW rows, NEW after, NEW page, PageAfter(rows, after, page)
  PROVE  non_recursive_entries(page, after) = SetToBag({Entry(row) : row \in Shown(rows, page)})
<1> DEFINE Met(p)   == {q \in {row[1] : row \in page} : q < p /\ DirOf[q] # None}
                       \cup ({after} \ {0})
           Opens(p) == Met(p) = {} \/ DirOf[Max(Met(p))] # DirOf[p]
           shown    == {row \in page : DirOf[row[1]] = None \/ Opens(row[1])}
           Ent(row) == IF DirOf[row[1]] = None THEN row ELSE <<DirOf[row[1]], None>>
<1>1. non_recursive_entries(page, after)
        = [e \in {Ent(row) : row \in shown} |-> Cardinality({row \in shown : Ent(row) = e})]
  BY DEF non_recursive_entries
<1>2. \A row : Ent(row) = Entry(row)
  BY DEF Entry, Dir
<1>3. ASSUME NEW row \in page, DirOf[row[1]] # None PROVE Opens(row[1]) <=> First(rows, row)
  BY <1>3, OpensIsFirst DEF Dir
<1> HIDE DEF Opens
<1>4. shown = Shown(rows, page)
  BY <1>3 DEF Shown, Dir
<1> HIDE DEF Ent, shown
<1>5. non_recursive_entries(page, after)
        = [e \in {Entry(row) : row \in Shown(rows, page)}
             |-> Cardinality({row \in Shown(rows, page) : Entry(row) = e})]
  BY <1>1, <1>2, <1>4
<1>6. ASSUME NEW e \in {Entry(row) : row \in Shown(rows, page)}
      PROVE  Cardinality({row \in Shown(rows, page) : Entry(row) = e}) = 1
  <2>1. PICK row \in Shown(rows, page) : Entry(row) = e
    BY <1>6
  <2>2. ASSUME NEW q \in Shown(rows, page), Entry(q) = e PROVE q = row
    <3>1. /\ q \in rows /\ row \in rows /\ RowSet(rows)
          /\ Dir(q) = None \/ First(rows, q)
          /\ Dir(row) = None \/ First(rows, row)
      BY DEF Shown, PageAfter
    <3> QED BY <2>1, <2>2, <3>1, EntriesDiffer
  <2>3. {q \in Shown(rows, page) : Entry(q) = e} = {row}
    BY <2>1, <2>2
  <2> QED BY <2>3, FS_Singleton
<1> QED BY <1>5, <1>6 DEF SetToBag

\* The next page continues the listing: what was listed up to `after` and the
\* entries of the page make up the listing of all rows so far.
LEMMA PageContinues ==
  ASSUME NEW rows, NEW after, NEW page, PageAfter(rows, after, page), NEW deep \in BOOLEAN
  PROVE  Listing(deep, UpTo(rows, after))
           (+) (IF deep THEN recursive_entries(page) ELSE non_recursive_entries(page, after))
         = Listing(deep, UpTo(rows, after) \cup page)
<1> DEFINE old == UpTo(rows, after)
           Ents(rs) == {row \in rs : DirOf[row[1]] = None}
                       \cup {<<DirOf[row[1]], None>> : row \in {q \in rs : DirOf[q[1]] # None}}
<1>0. ASSUME NEW S, NEW T, S \cap T = {} PROVE SetToBag(S) (+) SetToBag(T) = SetToBag(S \cup T)
  BY <1>0 DEF SetToBag, (+)
<1>1. /\ old \subseteq rows /\ page \subseteq rows /\ RowSet(rows)
      /\ \A q \in old, w \in page : q[1] < w[1] /\ q[1] \in Nat /\ w[1] \in Nat
  BY HubAssumption DEF PageAfter, UpTo, RowSet, Paths
<1>2. old \cap page = {}
  BY <1>1
<1>3. CASE deep
  BY <1>0, <1>2, <1>3 DEF Listing, recursive_entries
<1>4. CASE ~deep
  <2> DEFINE new == {Entry(row) : row \in Shown(rows, page)}
  <2>1. Ents(old) \cap new = {}
    <3> SUFFICES ASSUME NEW q \in old, NEW w \in Shown(rows, page),
                        (IF DirOf[q[1]] = None THEN q ELSE <<DirOf[q[1]], None>>) = Entry(w)
                 PROVE  FALSE
      OBVIOUS
    <3>1. Entry(q) = Entry(w) /\ w \in page /\ q[1] < w[1] /\ q[1] \in Nat /\ w[1] \in Nat
      BY <1>1 DEF Entry, Dir, Shown
    <3>2. /\ q[2] # None /\ w[2] # None
          /\ q = <<q[1], q[2]>> /\ w = <<w[1], w[2]>>
      BY <1>1, <3>1, HubAssumption DEF RowSet
    <3>3. Dir(w) # None
      BY <3>1, <3>2 DEF Entry
    <3>4. Dir(q) = Dir(w)
      BY <3>1, <3>2, <3>3 DEF Entry
    <3> QED BY <1>1, <3>1, <3>3, <3>4 DEF Shown, First
  <2>2. Ents(old) \cup new = Ents(old \cup page)
    <3>1. ASSUME NEW w \in Shown(rows, page) PROVE Entry(w) \in Ents(old \cup page)
      BY DEF Entry, Dir, Shown
    <3>2. ASSUME NEW w \in page, Dir(w) = None PROVE w \in new
      BY <3>2 DEF Shown, Entry
    <3>3. ASSUME NEW w \in page, Dir(w) # None PROVE <<Dir(w), None>> \in Ents(old) \cup new
      <4> DEFINE at == {q[1] : q \in {v \in rows : Dir(v) = Dir(w)}}
      <4>1. at \in SUBSET Nat /\ w[1] \in at
        BY <1>1, HubAssumption DEF RowSet, Paths
      <4>2. PICK m \in at : \A k \in at : m <= k
        BY <4>1, LeastNatural
      <4>3. PICK q \in rows : Dir(q) = Dir(w) /\ q[1] = m
        BY <4>2
      <4>4. q[1] \in Nat /\ q[1] <= w[1] /\ w[1] \in Nat /\ after \in Nat
        BY <4>1, <4>2, <4>3, HubAssumption DEF PageAfter
      <4>5. First(rows, q)
        <5> SUFFICES ASSUME NEW v \in rows, v[1] < q[1], Dir(v) = Dir(q) PROVE FALSE
          BY DEF First
        <5>1. v[1] \in at
          BY <4>3
        <5>2. m <= v[1] /\ v[1] \in Nat /\ m \in Nat
          BY <4>1, <4>2, <5>1
        <5> HIDE DEF at
        <5> QED BY <4>3, <5>2
      <4> HIDE DEF at
      <4>6. CASE q[1] <= after
        <5>1. q \in old /\ DirOf[q[1]] # None /\ DirOf[q[1]] = Dir(w)
          BY <3>3, <4>3, <4>6 DEF UpTo, Dir
        <5> HIDE DEF old, new
        <5> QED BY <5>1
      <4>7. CASE after < q[1]
        <5>1. q \in page
          <6>1. CASE q[1] = w[1]
            BY <1>1, <6>1 DEF RowSet
          <6>2. CASE q[1] < w[1]
            BY <4>7, <6>2 DEF PageAfter
          <6> QED BY <4>4, <6>1, <6>2
        <5>2. q \in Shown(rows, page) /\ Entry(q) = <<Dir(w), None>>
          BY <3>3, <4>3, <4>5, <5>1 DEF Shown, Entry
        <5> QED BY <5>2
      <4> QED BY <4>4, <4>6, <4>7
    <3> HIDE DEF new, old
    <3>4. \A e \in Ents(old \cup page) : e \in Ents(old) \cup new
      BY <3>2, <3>3 DEF Dir
    <3>5. new \subseteq Ents(old \cup page)
      BY <3>1 DEF new
    <3>6. Ents(old) \subseteq Ents(old \cup page)
      OBVIOUS
    <3> HIDE DEF Ents
    <3> QED BY <3>4, <3>5, <3>6
  <2>3. /\ Listing(deep, old) = SetToBag(Ents(old))
        /\ Listing(deep, old \cup page) = SetToBag(Ents(old \cup page))
    BY <1>4 DEF Listing
  <2>4. non_recursive_entries(page, after) = SetToBag(new)
    BY NonRecursiveEntries
  <2> HIDE DEF old, new, Ents
  <2>5. Listing(deep, old) (+) non_recursive_entries(page, after) = Listing(deep, old \cup page)
    BY <1>0, <2>1, <2>2, <2>3, <2>4
  <2> QED BY <1>4, <2>5 DEF old
<1> QED BY <1>3, <1>4

-----------------------------------------------------------------------------
(* The steps *)

LocalOK ==
  /\ pc \in [Reqs -> Pcs]
  /\ repo \in [Reqs -> RepoIds \cup {None}]
  /\ parent \in [Reqs -> Commits \cup {None}]
  /\ ops \in [Reqs -> Seq(Operations)] /\ done \in [Reqs -> Seq(Operations)]
  /\ recursive \in [Reqs -> BOOLEAN]
  /\ DOMAIN listed = Reqs
  /\ \A r \in Reqs : IsABag(listed[r]) /\ BagToSet(listed[r]) \subseteq Entries
  /\ cursor \in [Reqs -> 0..PathCount]
  /\ snapshot \in [Reqs -> SUBSET (Paths \X Blobs)]

StoreOK ==
  /\ lastRepo \in 0..MaxRepos /\ lastCommit \in 0..MaxCommits
  /\ named \in [Names -> RepoIds \cup {None}]
  /\ heads \in [RepoIds -> Commits \cup {None}]
  /\ rev \in [Commits -> [repo : RepoIds, parent : Commits \cup {None}] \cup {None}]
  /\ tree \in [Commits -> [Paths -> Blobs \cup {None}]]
  /\ applied \in [Commits -> Seq(Operations)]

\* What the other requests hold is theirs.
Alone(r) ==
  \A q \in Reqs \ {r} :
    /\ pc'[q] = pc[q] /\ repo'[q] = repo[q] /\ parent'[q] = parent[q]
    /\ ops'[q] = ops[q] /\ done'[q] = done[q] /\ recursive'[q] = recursive[q]
    /\ listed'[q] = listed[q] /\ cursor'[q] = cursor[q] /\ snapshot'[q] = snapshot[q]

\* The types in two halves: the requests and the database.
LEMMA TypeHalves ==
  TypeOK <=> LocalOK /\ StoreOK /\ txOwner \in Reqs \cup {None} /\ blobs \in SUBSET Blobs
BY DEF TypeOK, LocalOK, StoreOK

\* Commits and repositories are numbers, so none of them is None.
LEMMA NoneIsNone ==
  /\ None \notin Commits /\ None \notin RepoIds /\ None \notin Blobs /\ None \notin Reqs
  /\ MaxCommits \in Nat /\ MaxRepos \in Nat /\ PathCount \in Nat
BY HubAssumption DEF Commits, RepoIds

\* The answer of a request leaves nothing of it behind.
LEMMA RespondClears ==
  ASSUME LocalOK, NEW r \in Reqs, Respond(r), txOwner' # r
  PROVE  LocalOK' /\ Alone(r) /\ ReqSound(r)'
<1>1. Alone(r)
  BY DEF LocalOK, Alone, Respond, Goto
<1>2. LocalOK'
  <2>1. IsABag(EmptyBag) /\ BagToSet(EmptyBag) = {}
    BY DEF IsABag, EmptyBag, SetToBag, BagToSet
  <2>2. ASSUME NEW q \in Reqs PROVE IsABag(listed'[q]) /\ BagToSet(listed'[q]) \subseteq Entries
    BY <2>1 DEF LocalOK, Respond
  <2> QED BY <2>2, NoneIsNone DEF LocalOK, Respond, Goto, Pcs
<1>3. /\ pc'[r] = "idle" /\ parent'[r] = None /\ listed'[r] = EmptyBag /\ cursor'[r] = 0
      /\ done'[r] = << >>
  BY DEF LocalOK, Respond, Goto
<1>4. ReqSound(r)'
  BY <1>3 DEF ReqSound, ListSound, CommitSound, IdleSound, ListPcs, TxPcs
<1> QED BY <1>1, <1>2, <1>4

\* A request that does not move is not disturbed: what it has read of commits
\* stays, unless they are deleted, and while it has the transaction nobody
\* writes what it has checked.
LEMMA OthersKeep ==
  ASSUME IInv, NEW r, NEW q \in Reqs \ {r}, Alone(r),
         txOwner' = q <=> txOwner = q,
         blobs \subseteq blobs',
         lastCommit' \in Nat, lastCommit <= lastCommit',
         \A c \in Commits : c <= lastCommit /\ rev'[c] # None => rev[c] # None /\ tree'[c] = tree[c],
         pc[q] = "txCommit" => heads'[repo[q]] = heads[repo[q]] /\ Exists(repo[q])'
  PROVE  ReqSound(q)'
<1>1. /\ pc'[q] = pc[q] /\ repo'[q] = repo[q] /\ parent'[q] = parent[q]
      /\ ops'[q] = ops[q] /\ done'[q] = done[q] /\ recursive'[q] = recursive[q]
      /\ listed'[q] = listed[q] /\ cursor'[q] = cursor[q] /\ snapshot'[q] = snapshot[q]
  BY DEF Alone
<1>2. ReqSound(q) /\ parent[q] \in Commits \cup {None} /\ lastCommit \in Nat
  BY HubAssumption DEF IInv, TypeOK
<1>3. IdleSound(q)'
  BY <1>1, <1>2 DEF IdleSound, ReqSound
<1>4. CommitSound(q)'
  BY <1>1, <1>2 DEF CommitSound, ReqSound
<1>5. ListSound(q)'
  <2>1. Seen(q)' = Seen(q)
    BY <1>1 DEF Seen
  <2>2. ASSUME pc[q] \in ListPcs, parent[q] # None
        PROVE  /\ parent[q] \in Commits /\ parent[q] <= lastCommit /\ parent[q] <= lastCommit'
               /\ rev'[parent[q]] # None =>
                    /\ rev[parent[q]] # None
                    /\ snapshot[q] = Rows(tree'[parent[q]])
                    /\ IF pc[q] = "lsDone" THEN listed[q] = Listing(recursive[q], snapshot[q])
                                           ELSE Seen(q)
    BY <1>2, <2>2 DEF ReqSound, ListSound, Commits
  <2>3. pc[q] \in ListPcs /\ parent[q] = None =>
          pc[q] = "lsRev" /\ cursor[q] = 0 /\ listed[q] = EmptyBag
    BY <1>2 DEF ReqSound, ListSound
  <2> QED BY <1>1, <2>1, <2>2, <2>3 DEF ListSound
<1> QED BY <1>3, <1>4, <1>5 DEF ReqSound

\* Nothing is written to the database: blobs are only added.
LEMMA StoreKeeps ==
  ASSUME StoreSound, UNCHANGED <<db, applied>>, blobs \subseteq blobs'
  PROVE  StoreSound'
<1>1. UNCHANGED <<lastRepo, named, heads, rev, tree, lastCommit, applied>>
  BY DEF db
<1>2. \A i : Exists(i)' = Exists(i) /\ RevisionsOf(i)' = RevisionsOf(i)
  BY <1>1 DEF Exists, RevisionsOf
<1>3. LinearHistory' /\ Rooted'
  BY <1>1, <1>2 DEF StoreSound, LinearHistory, Rooted
<1>4. NoOrphans' /\ Fresh'
  BY <1>1, <1>2 DEF StoreSound, NoOrphans, Fresh
<1>5. SnapshotIsDelta' /\ TreesAreStored'
  BY <1>1 DEF StoreSound, SnapshotIsDelta, TreesAreStored
<1> QED BY <1>3, <1>4, <1>5 DEF StoreSound

\* A request moves without writing to the database; where it has come to has
\* to be shown.
LEMMA MoveKeeps ==
  ASSUME IInv, NEW r \in Reqs, Alone(r), UNCHANGED <<db, applied>>,
         blobs \subseteq blobs', blobs' \in SUBSET Blobs,
         txOwner' = txOwner \/ (txOwner \in {None, r} /\ txOwner' \in {None, r}),
         LocalOK', ReqSound(r)'
  PROVE  IInv'
<1>1. TypeOK'
  BY DEF IInv, TypeOK, LocalOK, db
<1>2. StoreSound'
  BY StoreKeeps DEF IInv
<1>3. ASSUME NEW q \in Reqs \ {r} PROVE ReqSound(q)'
  <2>1. pc[q] = "txCommit" => heads'[repo[q]] = heads[repo[q]] /\ Exists(repo[q])'
    BY DEF IInv, ReqSound, CommitSound, Exists, Alone, db
  <2>2. lastCommit' \in Nat /\ lastCommit <= lastCommit'
    BY HubAssumption DEF IInv, TypeOK, db
  <2>3. txOwner' = q <=> txOwner = q
    BY HubAssumption
  <2> QED BY <2>1, <2>2, <2>3, OthersKeep DEF db
<1> QED BY <1>1, <1>2, <1>3 DEF IInv

\* A request ends without having written.
LEMMA RespondKeeps ==
  ASSUME IInv, NEW r \in Reqs, Respond(r), UNCHANGED <<db, applied, blobs>>,
         txOwner' = IF txOwner = r THEN None ELSE txOwner
  PROVE  IInv'
<1>1. LocalOK /\ blobs \in SUBSET Blobs
  BY TypeHalves DEF IInv
<1>2. txOwner' # r
  BY NoneIsNone
<1>3. LocalOK' /\ Alone(r) /\ ReqSound(r)'
  BY <1>1, <1>2, RespondClears
<1> QED BY <1>1, <1>3, MoveKeeps

\* Whoever is not in the transaction does not own it.
LEMMA NotOwner ==
  ASSUME IInv, NEW r \in Reqs, pc[r] \notin TxPcs
  PROVE  txOwner # r
BY DEF IInv, ReqSound, CommitSound

\* A client stores a blob.
LEMMA UploadBlobKeeps ==
  ASSUME IInv, NEW o \in Blobs, UploadBlob(o)
  PROVE  IInv'
<1>1. /\ UNCHANGED <<db, txOwner, pc, local, applied, snapshot>>
      /\ blobs \subseteq blobs' /\ blobs' \in SUBSET Blobs
  BY DEF UploadBlob, IInv, TypeOK
<1>2. TypeOK'
  BY <1>1 DEF IInv, TypeOK, db, local
<1>3. StoreSound'
  BY <1>1, StoreKeeps DEF IInv
<1>4. ASSUME NEW q \in Reqs PROVE ReqSound(q)'
  <2>1. q \in Reqs \ {None} /\ Alone(None)
    BY <1>1, NoneIsNone DEF Alone, local
  <2>2. pc[q] = "txCommit" => heads'[repo[q]] = heads[repo[q]] /\ Exists(repo[q])'
    BY <1>1 DEF IInv, ReqSound, CommitSound, Exists, db, local
  <2>3. lastCommit' \in Nat /\ lastCommit <= lastCommit'
    BY <1>1, HubAssumption DEF IInv, TypeOK, db
  <2> QED BY <1>1, <2>1, <2>2, <2>3, OthersKeep DEF db
<1> QED BY <1>2, <1>3, <1>4 DEF IInv

\* Looking a repository up for a deletion or a commit.
LEMMA BeginKeeps ==
  ASSUME IInv, NEW r \in Reqs,
         (\E n \in Names : DeleteBegin(r, n))
         \/ \E n \in Names, base \in Commits \cup {None}, changes \in Changes :
              CommitBegin(r, n, base, changes)
  PROVE  IInv'
<1>1. /\ pc[r] = "idle" /\ ReqSound(r) /\ LocalOK /\ StoreOK
      /\ blobs \in SUBSET Blobs /\ Changes \subseteq Seq(Operations)
  BY TypeHalves, HubAssumption DEF IInv, DeleteBegin, CommitBegin
<1>2. txOwner # r
  BY <1>1, NotOwner DEF TxPcs
<1>3. CASE \E n \in Names : DeleteBegin(r, n)
  <2>1. /\ UNCHANGED <<db, txOwner, blobs, parent, ops, done, recursive, listed, cursor,
                       applied, snapshot>>
        /\ pc' = [pc EXCEPT ![r] = "delete"]
    BY <1>3 DEF DeleteBegin, Goto
  <2>2. PICK i \in RepoIds : repo' = [repo EXCEPT ![r] = i]
    BY <1>1, <1>3 DEF DeleteBegin, StoreOK
  <2>3. LocalOK' /\ Alone(r)
    BY <1>1, <2>1, <2>2 DEF LocalOK, Alone, Pcs
  <2>4. ReqSound(r)'
    BY <1>1, <1>2, <2>1, <2>2
    DEF LocalOK, ReqSound, ListSound, CommitSound, IdleSound, ListPcs, TxPcs
  <2> QED BY <1>1, <2>1, <2>3, <2>4, MoveKeeps
<1>4. CASE \E n \in Names, base \in Commits \cup {None}, changes \in Changes :
             CommitBegin(r, n, base, changes)
  <2>1. /\ UNCHANGED <<db, txOwner, blobs, done, recursive, listed, cursor, applied, snapshot>>
        /\ pc' = [pc EXCEPT ![r] = "cmHead"]
    BY <1>4 DEF CommitBegin, Goto
  <2>2. PICK i \in RepoIds, base \in Commits \cup {None}, changes \in Seq(Operations) :
          /\ repo' = [repo EXCEPT ![r] = i]
          /\ parent' = [parent EXCEPT ![r] = base]
          /\ ops' = [ops EXCEPT ![r] = changes]
    BY <1>1, <1>4 DEF CommitBegin, StoreOK
  <2>3. LocalOK' /\ Alone(r)
    BY <1>1, <2>1, <2>2 DEF LocalOK, Alone, Pcs
  <2>4. ReqSound(r)'
    BY <1>1, <1>2, <2>1, <2>2
    DEF LocalOK, ReqSound, ListSound, CommitSound, IdleSound, ListPcs, TxPcs
  <2> QED BY <1>1, <2>1, <2>3, <2>4, MoveKeeps
<1> QED BY <1>3, <1>4

\* The early check of HEAD.
LEMMA CommitHeadKeeps ==
  ASSUME IInv, NEW r \in Reqs, CommitHead(r)
  PROVE  IInv'
<1>1. pc[r] = "cmHead" /\ ReqSound(r) /\ LocalOK /\ blobs \in SUBSET Blobs
  BY TypeHalves DEF IInv, CommitHead
<1>2. txOwner # r
  BY <1>1, NotOwner DEF TxPcs
<1>3. UNCHANGED <<db, txOwner, blobs, applied>>
  BY DEF CommitHead
<1>4. CASE Respond(r)
  BY <1>2, <1>3, <1>4, RespondKeeps
<1>5. CASE /\ Goto(r, IF ops[r] = << >> THEN "cmBegin" ELSE "cmOps")
           /\ UNCHANGED <<local, snapshot>>
  <2>1. LocalOK' /\ Alone(r)
    BY <1>1, <1>5 DEF LocalOK, Alone, Goto, Pcs, local
  <2>2. /\ pc'[r] \in {"cmBegin", "cmOps"} /\ (pc'[r] = "cmOps" => ops'[r] # << >>)
        /\ repo'[r] = repo[r] /\ done'[r] = done[r]
    BY <1>1, <1>5 DEF LocalOK, Goto, local
  <2>3. ReqSound(r)'
    BY <1>1, <1>2, <1>3, <2>2
    DEF ReqSound, ListSound, CommitSound, IdleSound, ListPcs, TxPcs
  <2> QED BY <1>1, <1>3, <2>1, <2>3, MoveKeeps
<1> QED BY <1>4, <1>5 DEF CommitHead

\* An operation is processed once its content is stored.
LEMMA ProcessedKeeps ==
  ASSUME IInv, NEW r \in Reqs, pc[r] = "cmOps", Processed(r),
         UNCHANGED <<db, txOwner, applied>>,
         blobs \subseteq blobs', blobs' \in SUBSET Blobs,
         Head(ops[r]).type # "delete" => Head(ops[r]).oid \in blobs'
  PROVE  IInv'
<1>1. ReqSound(r) /\ LocalOK /\ ops[r] # << >>
  BY TypeHalves DEF IInv, ReqSound, CommitSound
<1>2. txOwner # r
  BY NotOwner DEF TxPcs
<1>3. /\ ops[r] \in Seq(Operations) /\ done[r] \in Seq(Operations)
      /\ Head(ops[r]) \in Operations /\ Tail(ops[r]) \in Seq(Operations)
  BY <1>1 DEF LocalOK
<1>4. LocalOK' /\ Alone(r)
  BY <1>1, <1>3 DEF LocalOK, Alone, Processed, Goto, Pcs
<1>5. /\ done'[r] = Append(done[r], Head(ops[r])) /\ ops'[r] = Tail(ops[r])
      /\ pc'[r] \in {"cmBegin", "cmOps"} /\ (pc'[r] = "cmOps" => ops'[r] # << >>)
      /\ repo'[r] = repo[r]
  BY <1>1, <1>3 DEF LocalOK, Processed, Goto
<1>6. \A i \in 1..Len(done'[r]) : done'[r][i].type # "delete" => done'[r][i].oid \in blobs'
  BY <1>1, <1>3, <1>5 DEF ReqSound, CommitSound
<1>7. ReqSound(r)'
  BY <1>1, <1>2, <1>5, <1>6 DEF ReqSound, ListSound, CommitSound, IdleSound, ListPcs, TxPcs
<1> QED BY <1>4, <1>7, MoveKeeps

\* The three kinds of operations.
LEMMA OperationKeeps ==
  ASSUME IInv, NEW r \in Reqs, InlineFile(r) \/ LfsFile(r) \/ DeletedEntry(r)
  PROVE  IInv'
<1>1. pc[r] = "cmOps" /\ blobs \in SUBSET Blobs /\ Head(ops[r]) \in Operations
  <2>1. pc[r] = "cmOps"
    BY DEF InlineFile, LfsFile, DeletedEntry
  <2>2. ops[r] \in Seq(Operations) /\ ops[r] # << >>
    BY <2>1 DEF IInv, TypeOK, ReqSound, CommitSound
  <2> QED BY <2>1, <2>2 DEF IInv, TypeOK
<1>2. CASE InlineFile(r)
  <2>1. Head(ops[r]).oid \in Blobs
    BY <1>1, <1>2 DEF InlineFile, Operations
  <2> QED BY <1>1, <1>2, <2>1, ProcessedKeeps DEF InlineFile
<1>3. CASE LfsFile(r)
  <2>1. txOwner # r
    BY <1>1, NotOwner DEF TxPcs
  <2>2. CASE Respond(r)
    BY <1>3, <2>1, <2>2, RespondKeeps DEF LfsFile
  <2>3. CASE Head(ops[r]).oid \in blobs /\ Processed(r)
    BY <1>1, <1>3, <2>3, ProcessedKeeps DEF LfsFile
  <2> QED BY <1>3, <2>2, <2>3 DEF LfsFile
<1>4. CASE DeletedEntry(r)
  BY <1>1, <1>4, ProcessedKeeps DEF DeletedEntry
<1> QED BY <1>2, <1>3, <1>4

\* Entering the transaction, and the check that counts.
LEMMA TxKeeps ==
  ASSUME IInv, NEW r \in Reqs, TxBegin(r) \/ TxCheck(r)
  PROVE  IInv'
<1>1. ReqSound(r) /\ LocalOK /\ blobs \in SUBSET Blobs /\ None # r
  BY TypeHalves, NoneIsNone DEF IInv
<1>2. CASE TxBegin(r)
  <2>1. /\ pc[r] = "cmBegin" /\ txOwner = None /\ txOwner' = r
        /\ UNCHANGED <<db, blobs, local, applied, snapshot>>
        /\ pc' = [pc EXCEPT ![r] = "txCheck"]
    BY <1>2 DEF TxBegin, Goto
  <2>2. LocalOK' /\ Alone(r)
    BY <1>1, <2>1 DEF LocalOK, Alone, Pcs, TxPcs, local
  <2>3. pc'[r] = "txCheck" /\ repo'[r] = repo[r] /\ done'[r] = done[r]
    BY <1>1, <2>1 DEF LocalOK, local
  <2>4. ReqSound(r)'
    BY <1>1, <2>1, <2>3 DEF ReqSound, ListSound, CommitSound, IdleSound, ListPcs, TxPcs
  <2> QED BY <1>1, <2>1, <2>2, <2>4, MoveKeeps
<1>3. CASE TxCheck(r)
  <2>1. pc[r] = "txCheck" /\ txOwner = r /\ UNCHANGED <<db, blobs, applied>>
    BY <1>1, <1>3 DEF TxCheck, ReqSound, CommitSound, TxPcs
  <2>2. CASE txOwner' = None /\ Respond(r)
    BY <2>1, <2>2, RespondKeeps
  <2>3. CASE /\ heads[repo[r]] = parent[r] /\ Exists(repo[r])
             /\ Goto(r, "txCommit") /\ UNCHANGED <<txOwner, local, snapshot>>
    <3>1. LocalOK' /\ Alone(r)
      BY <1>1, <2>3 DEF LocalOK, Alone, Pcs, TxPcs, local, Goto
    <3>2. /\ pc'[r] = "txCommit" /\ repo'[r] = repo[r] /\ done'[r] = done[r]
          /\ parent'[r] = parent[r]
      BY <1>1, <2>3 DEF LocalOK, local, Goto
    <3>3. heads'[repo'[r]] = parent'[r] /\ Exists(repo[r])'
      BY <2>1, <2>3, <3>2 DEF db, Exists
    <3>4. ReqSound(r)'
      BY <1>1, <2>1, <2>3, <3>2, <3>3
      DEF ReqSound, ListSound, CommitSound, IdleSound, ListPcs, TxPcs
    <3> QED BY <1>1, <2>1, <2>3, <3>1, <3>4, MoveKeeps
  <2> QED BY <1>3, <2>2, <2>3 DEF TxCheck
<1> QED BY <1>2, <1>3

\* A new repository has a name and nothing else yet.
LEMMA CreateRepoKeeps ==
  ASSUME IInv, NEW n \in Names, CreateRepo(n)
  PROVE  IInv'
<1>1. /\ txOwner = None /\ named[n] = None /\ lastRepo < MaxRepos
      /\ lastRepo' = lastRepo + 1 /\ named' = [named EXCEPT ![n] = lastRepo + 1]
      /\ UNCHANGED <<heads, rev, tree, lastCommit, txOwner, blobs, pc, repo, parent, ops, done,
                     recursive, listed, cursor, applied, snapshot>>
  BY DEF CreateRepo, local
<1>2. TypeOK'
  BY <1>1, NoneIsNone DEF IInv, TypeOK, RepoIds
<1>3. \A i \in RepoIds : Exists(i) => Exists(i)'
  BY <1>1, NoneIsNone DEF IInv, TypeOK, Exists
<1>4. StoreSound'
  <2>1. \A i : RevisionsOf(i)' = RevisionsOf(i)
    BY <1>1 DEF RevisionsOf
  <2>2. LinearHistory' /\ Rooted'
    BY <1>1, <2>1 DEF IInv, StoreSound, LinearHistory, Rooted
  <2>3. NoOrphans'
    <3>1. \A c \in Commits : rev[c] # None => rev[c].repo \in RepoIds
      BY DEF IInv, TypeOK
    <3> QED BY <1>1, <1>3, <3>1 DEF IInv, StoreSound, NoOrphans, EmptyTree
  <2>4. Fresh' /\ SnapshotIsDelta' /\ TreesAreStored'
    BY <1>1 DEF IInv, StoreSound, Fresh, SnapshotIsDelta, TreesAreStored
  <2> QED BY <2>2, <2>3, <2>4 DEF StoreSound
<1>5. ASSUME NEW q \in Reqs PROVE ReqSound(q)'
  <2>1. q \in Reqs \ {None} /\ Alone(None) /\ txOwner # q
    BY <1>1, NoneIsNone DEF Alone
  <2>2. pc[q] # "txCommit"
    BY <2>1 DEF IInv, ReqSound, CommitSound, TxPcs
  <2>3. lastCommit' \in Nat /\ lastCommit <= lastCommit'
    BY <1>1, HubAssumption DEF IInv, TypeOK
  <2> QED BY <1>1, <2>1, <2>2, <2>3, OthersKeep
<1> QED BY <1>2, <1>4, <1>5 DEF IInv

\* A deletion takes the commits, the head and the name together.
LEMMA DeleteRepoKeeps ==
  ASSUME IInv, NEW r \in Reqs, DeleteRepo(r)
  PROVE  IInv'
<1>0. PICK i \in RepoIds : i = repo[r]
  BY DEF IInv, ReqSound, CommitSound, DeleteRepo
<1> DEFINE gone == {c \in Commits : rev[c] # None /\ rev[c].repo = i}
<1>1. /\ pc[r] = "delete" /\ txOwner = None /\ Respond(r)
      /\ tree' = [c \in Commits |-> IF c \in gone THEN EmptyTree ELSE tree[c]]
      /\ rev' = [c \in Commits |-> IF c \in gone THEN None ELSE rev[c]]
      /\ heads' = [heads EXCEPT ![i] = None]
      /\ named' = [n \in Names |-> IF named[n] = i THEN None ELSE named[n]]
      /\ UNCHANGED <<lastRepo, lastCommit, txOwner, blobs, applied>>
  BY <1>0 DEF DeleteRepo
<1>2. LocalOK /\ StoreOK /\ blobs \in SUBSET Blobs
  BY TypeHalves DEF IInv
<1>3. LocalOK' /\ Alone(r) /\ ReqSound(r)'
  BY <1>1, <1>2, NoneIsNone, RespondClears
<1>4. StoreOK'
  <2>1. EmptyTree \in [Paths -> Blobs \cup {None}]
    BY DEF EmptyTree
  <2> HIDE DEF gone
  <2> QED BY <1>1, <1>2, <2>1 DEF StoreOK
<1>5. TypeOK'
  BY <1>1, <1>2, <1>3, <1>4 DEF TypeOK, LocalOK, StoreOK
<1>6. /\ \A j \in RepoIds : j # i => /\ RevisionsOf(j)' = RevisionsOf(j)
                                     /\ heads'[j] = heads[j]
                                     /\ Exists(j) => Exists(j)'
      /\ RevisionsOf(i)' = {} /\ heads'[i] = None
      /\ \A c \in Commits : rev'[c] # None => rev'[c] = rev[c] /\ tree'[c] = tree[c] /\ rev[c].repo # i
  <2>1. \A c \in Commits : rev'[c] = IF c \in gone THEN None ELSE rev[c]
    BY <1>1
  <2>2. \A c \in Commits : tree'[c] = IF c \in gone THEN EmptyTree ELSE tree[c]
    BY <1>1
  <2>3. \A j \in RepoIds : heads'[j] = IF j = i THEN None ELSE heads[j]
    BY <1>1, <1>2 DEF StoreOK
  <2>4. ASSUME NEW j \in RepoIds, j # i, Exists(j) PROVE Exists(j)'
    BY <1>1, <2>4 DEF Exists
  <2>5. \A j \in RepoIds : RevisionsOf(j)' = IF j = i THEN {} ELSE RevisionsOf(j)
    BY <2>1 DEF RevisionsOf
  <2>6. ASSUME NEW c \in Commits, rev'[c] # None
        PROVE  rev'[c] = rev[c] /\ tree'[c] = tree[c] /\ rev[c].repo # i
    BY <2>1, <2>2, <2>6
  <2> QED BY <1>2, <2>3, <2>4, <2>5, <2>6
<1> HIDE DEF gone
<1>7. LinearHistory' /\ Rooted'
  <2>1. ASSUME NEW j \in RepoIds
        PROVE  /\ \A c, d \in RevisionsOf(j)' : rev'[c].parent = rev'[d].parent => c = d
               /\ {rev'[c].parent : c \in RevisionsOf(j)'} \ {None} = RevisionsOf(j)' \ {heads'[j]}
               /\ heads'[j] # None => heads'[j] \in RevisionsOf(j)'
               /\ heads'[j] = None => RevisionsOf(j)' = {}
    <3>1. CASE j = i
      BY <1>6, <3>1
    <3>2. CASE j # i
      <4>1. RevisionsOf(j)' = RevisionsOf(j) /\ heads'[j] = heads[j]
        BY <1>6, <3>2
      <4>2. \A c \in RevisionsOf(j) : rev'[c] = rev[c]
        <5>1. \A c \in RevisionsOf(j)' : c \in Commits /\ rev'[c] # None
          BY DEF RevisionsOf
        <5> QED BY <1>6, <4>1, <5>1
      <4> QED BY <4>1, <4>2 DEF IInv, StoreSound, LinearHistory, Rooted
    <3> QED BY <3>1, <3>2
  <2> QED BY <2>1 DEF LinearHistory, Rooted
<1>8. NoOrphans'
  <2>1. ASSUME NEW c \in Commits
        PROVE  IF rev'[c] = None THEN tree'[c] = EmptyTree ELSE Exists(rev[c].repo)'
    <3>1. CASE rev'[c] = None
      BY <1>1, <3>1 DEF IInv, StoreSound, NoOrphans
    <3>2. CASE rev'[c] # None
      <4>1. rev'[c] = rev[c] /\ rev[c] # None /\ rev[c].repo # i /\ rev[c].repo \in RepoIds
        BY <1>2, <1>6, <3>2 DEF StoreOK
      <4>2. Exists(rev[c].repo)
        BY <4>1 DEF IInv, StoreSound, NoOrphans
      <4> QED BY <1>6, <3>2, <4>1, <4>2 DEF Exists
    <3> QED BY <3>1, <3>2
  <2>2. ASSUME NEW j \in RepoIds, heads'[j] # None PROVE Exists(j)'
    BY <1>6, <2>2 DEF IInv, StoreSound, NoOrphans
  <2> QED BY <2>1, <2>2 DEF NoOrphans, EmptyTree
<1>9. Fresh' /\ TreesAreStored'
  <2>1. Fresh'
    BY <1>1, <1>6 DEF IInv, StoreSound, Fresh
  <2>2. TreesAreStored'
    BY <1>1 DEF IInv, StoreSound, TreesAreStored, EmptyTree
  <2> QED BY <2>1, <2>2
<1>10. SnapshotIsDelta'
  <2> SUFFICES ASSUME NEW c \in Commits, rev'[c] # None
               PROVE  tree'[c] = Apply(IF rev'[c].parent = None THEN EmptyTree
                                       ELSE tree'[rev'[c].parent], applied'[c])
    BY DEF SnapshotIsDelta, Apply, EmptyTree
  <2>1. /\ rev'[c] = rev[c] /\ tree'[c] = tree[c] /\ rev[c].repo # i /\ rev[c] # None
        /\ rev[c].repo \in RepoIds
    BY <1>2, <1>6 DEF StoreOK
  <2>2. ASSUME rev[c].parent # None PROVE tree'[rev[c].parent] = tree[rev[c].parent]
    <3>1. c \in RevisionsOf(rev[c].repo)
      BY <2>1 DEF RevisionsOf
    <3>2. rev[c].parent \in RevisionsOf(rev[c].repo)
      BY <2>1, <2>2, <3>1 DEF IInv, StoreSound, LinearHistory
    <3>3. rev[c].parent \in Commits /\ rev'[rev[c].parent] # None
      BY <1>6, <2>1, <3>2 DEF RevisionsOf
    <3> QED BY <1>6, <3>3
  <2>3. tree[c] = Apply(IF rev[c].parent = None THEN EmptyTree ELSE tree[rev[c].parent], applied[c])
    BY <2>1 DEF IInv, StoreSound, SnapshotIsDelta
  <2> QED BY <1>1, <2>1, <2>2, <2>3
<1>11. ASSUME NEW q \in Reqs \ {r} PROVE ReqSound(q)'
  <2>1. pc[q] # "txCommit"
    BY <1>1, NoneIsNone DEF IInv, ReqSound, CommitSound, TxPcs
  <2>2. lastCommit' \in Nat /\ lastCommit <= lastCommit'
    BY <1>1, <1>2, HubAssumption DEF StoreOK
  <2>3. \A c \in Commits : c <= lastCommit /\ rev'[c] # None => rev[c] # None /\ tree'[c] = tree[c]
    BY <1>6
  <2> QED BY <1>1, <1>3, <2>1, <2>2, <2>3, OthersKeep
<1> QED BY <1>3, <1>5, <1>7, <1>8, <1>9, <1>10, <1>11 DEF IInv, StoreSound

\* A commit becomes the head of its repository, above the head that the
\* transaction has checked.
LEMMA TxCommitKeeps ==
  ASSUME IInv, NEW r \in Reqs, TxCommit(r)
  PROVE  IInv'
<1>1. LocalOK /\ StoreOK /\ blobs \in SUBSET Blobs /\ ReqSound(r) /\ StoreSound
  BY TypeHalves DEF IInv
<1>2. pc[r] = "txCommit" /\ txOwner = r /\ lastCommit < MaxCommits /\ lastCommit \in Nat
  BY <1>1, NoneIsNone DEF TxCommit, StoreOK, ReqSound, CommitSound, TxPcs
<1>3. PICK c \in Commits : c = lastCommit + 1
  BY <1>2, NoneIsNone DEF Commits
<1>4. PICK i \in RepoIds, b \in Commits \cup {None}, w \in Seq(Operations) :
        i = repo[r] /\ b = parent[r] /\ w = done[r]
  BY <1>1, <1>2 DEF LocalOK, ReqSound, CommitSound
<1>5. PICK new : new = Apply(BaseTree(b), w)
  OBVIOUS
<1>6. /\ rev' = [rev EXCEPT ![c] = [repo |-> i, parent |-> b]]
      /\ tree' = [tree EXCEPT ![c] = new]
      /\ heads' = [heads EXCEPT ![i] = c]
      /\ lastCommit' = c
      /\ applied' = [applied EXCEPT ![c] = w]
      /\ txOwner' = None /\ Respond(r)
      /\ UNCHANGED <<lastRepo, named, blobs>>
  BY <1>3, <1>4, <1>5 DEF TxCommit
<1>7. heads[i] = b /\ Exists(i) /\ rev[c] = None
  <2>1. heads[i] = b /\ Exists(i)
    BY <1>1, <1>2, <1>4 DEF ReqSound, CommitSound
  <2>2. c > lastCommit
    BY <1>2, <1>3
  <2> QED BY <1>1, <2>1, <2>2 DEF StoreSound, Fresh
<1>8. BaseTree(b) \in [Paths -> Blobs \cup {None}] /\ new \in [Paths -> Blobs \cup {None}]
  <2>1. BaseTree(b) \in [Paths -> Blobs \cup {None}]
    BY <1>1 DEF BaseTree, EmptyTree, StoreOK
  <2> QED BY <1>5, <2>1, ApplyType
<1>9. LocalOK' /\ Alone(r) /\ ReqSound(r)'
  BY <1>1, <1>6, NoneIsNone, RespondClears
<1>10. StoreOK'
  BY <1>1, <1>6, <1>8, NoneIsNone DEF StoreOK, Commits
<1>11. TypeOK'
  BY <1>1, <1>6, <1>9, <1>10, TypeHalves DEF TypeOK, LocalOK, StoreOK
<1>12. /\ \A d \in Commits : d # c => rev'[d] = rev[d] /\ tree'[d] = tree[d] /\ applied'[d] = applied[d]
       /\ rev'[c] = [repo |-> i, parent |-> b] /\ tree'[c] = new /\ applied'[c] = w
       /\ \A j \in RepoIds : heads'[j] = IF j = i THEN c ELSE heads[j]
       /\ \A j : Exists(j)' = Exists(j)
       /\ c # None
  BY <1>1, <1>6, NoneIsNone DEF StoreOK, Exists
<1>13. \A j \in RepoIds : /\ RevisionsOf(j)' = IF j = i THEN RevisionsOf(j) \cup {c} ELSE RevisionsOf(j)
                          /\ RevisionsOf(j) \subseteq Commits /\ c \notin RevisionsOf(j)
  <2>1. rev'[c] # None /\ rev'[c].repo = i
    BY <1>12, HubAssumption
  <2> QED BY <1>7, <1>12, <2>1 DEF RevisionsOf

<1>14. LinearHistory' /\ Rooted'
  <2>0. /\ \A x, y \in RevisionsOf(i) : rev[x].parent = rev[y].parent => x = y
        /\ {rev[x].parent : x \in RevisionsOf(i)} \ {None} = RevisionsOf(i) \ {b}
        /\ b # None => b \in RevisionsOf(i)
        /\ b = None => RevisionsOf(i) = {}
    BY <1>1, <1>7 DEF StoreSound, LinearHistory, Rooted
  <2>1. ASSUME NEW j \in RepoIds
        PROVE  /\ \A x, y \in RevisionsOf(j)' : rev'[x].parent = rev'[y].parent => x = y
               /\ {rev'[x].parent : x \in RevisionsOf(j)'} \ {None} = RevisionsOf(j)' \ {heads'[j]}
               /\ heads'[j] # None => heads'[j] \in RevisionsOf(j)'
               /\ heads'[j] = None => RevisionsOf(j)' = {}
    <3>1. CASE j # i
      <4>1. RevisionsOf(j)' = RevisionsOf(j) /\ heads'[j] = heads[j]
        BY <1>12, <1>13, <3>1
      <4>2. \A x \in RevisionsOf(j) : rev'[x] = rev[x]
        BY <1>12, <1>13
      <4> QED BY <1>1, <4>1, <4>2 DEF StoreSound, LinearHistory, Rooted
    <3>2. CASE j = i
      <4> DEFINE old == RevisionsOf(i)
      <4>1. /\ RevisionsOf(j)' = old \cup {c} /\ heads'[j] = c
            /\ rev'[c].parent = b /\ c \notin old
            /\ \A x \in old : rev'[x] = rev[x]
        BY <1>12, <1>13, <3>2
      <4>2. \A x \in old : rev[x].parent # b
        BY <2>0
      <4> HIDE DEF old
      <4>3. \A x, y \in old \cup {c} : rev'[x].parent = rev'[y].parent => x = y
        BY <2>0, <4>1, <4>2 DEF old
      <4>4. {rev'[x].parent : x \in old \cup {c}} = {rev[x].parent : x \in old} \cup {b}
        BY <4>1
      <4>5. {rev'[x].parent : x \in old \cup {c}} \ {None} = (old \cup {c}) \ {c}
        BY <2>0, <4>1, <4>4 DEF old
      <4> QED BY <1>12, <4>1, <4>3, <4>5
    <3> QED BY <3>1, <3>2
  <2> QED BY <2>1 DEF LinearHistory, Rooted
<1>15. NoOrphans' /\ Fresh'
  <2>1. ASSUME NEW d \in Commits
        PROVE  IF rev'[d] = None THEN tree'[d] = EmptyTree ELSE Exists(rev'[d].repo)
    <3>1. CASE d = c
      BY <1>7, <1>12, <3>1, HubAssumption
    <3>2. CASE d # c
      BY <1>1, <1>12, <3>2 DEF StoreSound, NoOrphans
    <3> QED BY <3>1, <3>2
  <2>2. ASSUME NEW j \in RepoIds, heads'[j] # None PROVE Exists(j)
    BY <1>1, <1>7, <1>12, <2>2 DEF StoreSound, NoOrphans
  <2>3. ASSUME NEW d \in Commits, d > c PROVE rev'[d] = None
    <3>1. d # c /\ d > lastCommit
      BY <1>2, <1>3, <2>3, NoneIsNone DEF Commits
    <3> QED BY <1>1, <1>12, <3>1 DEF StoreSound, Fresh
  <2>4. NoOrphans'
    <3>1. \A d \in Commits : rev'[d] # None => Exists(rev[d].repo)'
      BY <1>6, <2>1 DEF Exists
    <3> QED BY <1>6, <2>1, <2>2, <3>1 DEF NoOrphans, Exists, EmptyTree
  <2> QED BY <1>6, <2>3, <2>4 DEF Fresh
<1>16. TreesAreStored'
  <2>1. ASSUME NEW p \in Paths, new[p] # None PROVE new[p] \in blobs
    <3>1. \/ new[p] = BaseTree(b)[p]
          \/ \E x \in 1..Len(w) : w[x].type # "delete" /\ new[p] = w[x].oid
      BY <1>5, <2>1, ApplyCases
    <3>2. BaseTree(b)[p] # None => BaseTree(b)[p] \in blobs
      BY <1>1 DEF BaseTree, EmptyTree, StoreSound, TreesAreStored
    <3>3. \A x \in 1..Len(w) : w[x].type # "delete" => w[x].oid \in blobs
      BY <1>1, <1>4 DEF ReqSound, CommitSound
    <3> QED BY <2>1, <3>1, <3>2, <3>3
  <2>2. ASSUME NEW d \in Commits, NEW p \in Paths, tree'[d][p] # None PROVE tree'[d][p] \in blobs
    BY <1>1, <1>12, <2>1, <2>2 DEF StoreSound, TreesAreStored
  <2> QED BY <1>6, <2>2 DEF TreesAreStored
<1>17. SnapshotIsDelta'
  <2> SUFFICES ASSUME NEW d \in Commits, rev'[d] # None
               PROVE  tree'[d] = Apply(IF rev'[d].parent = None THEN EmptyTree
                                       ELSE tree'[rev'[d].parent], applied'[d])
    BY DEF SnapshotIsDelta, Apply, EmptyTree
  <2>1. CASE d = c
    <3>1. b # None => b # c
      BY <1>1, <1>7, <1>13 DEF StoreSound, LinearHistory
    <3>2. (IF b = None THEN EmptyTree ELSE tree'[b]) = BaseTree(b)
      BY <1>12, <3>1 DEF BaseTree
    <3> QED BY <1>5, <1>12, <2>1, <3>2
  <2>2. CASE d # c
    <3>1. /\ rev'[d] = rev[d] /\ tree'[d] = tree[d] /\ applied'[d] = applied[d] /\ rev[d] # None
          /\ rev[d].repo \in RepoIds
      BY <1>1, <1>12, <2>2 DEF StoreOK
    <3>2. ASSUME rev[d].parent # None PROVE tree'[rev[d].parent] = tree[rev[d].parent]
      <4>1. d \in RevisionsOf(rev[d].repo)
        BY <3>1 DEF RevisionsOf
      <4>2. rev[d].parent \in RevisionsOf(rev[d].repo)
        BY <1>1, <3>1, <3>2, <4>1 DEF StoreSound, LinearHistory
      <4> QED BY <1>12, <1>13, <3>1, <4>2
    <3>3. tree[d] = Apply(IF rev[d].parent = None THEN EmptyTree ELSE tree[rev[d].parent], applied[d])
      BY <1>1, <3>1 DEF StoreSound, SnapshotIsDelta
    <3> QED BY <3>1, <3>2, <3>3
  <2> QED BY <2>1, <2>2
<1>18. ASSUME NEW q \in Reqs \ {r} PROVE ReqSound(q)'
  <2>1. pc[q] # "txCommit" /\ txOwner # q /\ None # q
    BY <1>2, NoneIsNone DEF IInv, ReqSound, CommitSound, TxPcs
  <2>2. lastCommit' \in Nat /\ lastCommit <= lastCommit'
    BY <1>2, <1>3, <1>6
  <2>3. \A d \in Commits : d <= lastCommit /\ rev'[d] # None => rev[d] # None /\ tree'[d] = tree[d]
    BY <1>2, <1>3, <1>12
  <2> QED BY <1>6, <1>9, <2>1, <2>2, <2>3, OthersKeep
<1> QED BY <1>9, <1>11, <1>14, <1>15, <1>16, <1>17, <1>18 DEF IInv, StoreSound

\* A listing begins, or a client follows the link to the next page.
LEMMA ListBeginKeeps ==
  ASSUME IInv, NEW r \in Reqs, NEW n \in Names,
         ListNext(r, n) \/ \E deep \in BOOLEAN : ListBegin(r, n, deep)
  PROVE  IInv'
<1>1. /\ pc[r] \in {"idle", "lsNext"} /\ ReqSound(r) /\ LocalOK /\ StoreOK /\ blobs \in SUBSET Blobs
  BY TypeHalves DEF IInv, ListNext, ListBegin
<1>2. txOwner # r
  BY <1>1, NotOwner DEF TxPcs
<1>3. PICK i \in RepoIds : repo' = [repo EXCEPT ![r] = i]
  BY <1>1 DEF ListNext, ListBegin, StoreOK
<1>4. /\ pc' = [pc EXCEPT ![r] = "lsRev"]
      /\ UNCHANGED <<db, txOwner, blobs, parent, ops, done, listed, cursor, applied, snapshot>>
      /\ recursive' \in [Reqs -> BOOLEAN] /\ \A q \in Reqs \ {r} : recursive'[q] = recursive[q]
  BY <1>1 DEF ListNext, ListBegin, Goto, LocalOK
<1>5. LocalOK' /\ Alone(r)
  BY <1>1, <1>3, <1>4 DEF LocalOK, Alone, Pcs
<1>6. pc'[r] = "lsRev" /\ repo'[r] = i
  BY <1>1, <1>3, <1>4 DEF LocalOK
<1>7. CommitSound(r)' /\ IdleSound(r)'
  BY <1>1, <1>2, <1>4, <1>6 DEF ReqSound, CommitSound, IdleSound, TxPcs
<1>8. ListSound(r)'
  <2>1. CASE pc[r] = "idle"
    BY <1>1, <1>4, <1>6, <2>1 DEF ReqSound, IdleSound, ListSound
  <2>2. CASE pc[r] = "lsNext"
    <3>1. recursive'[r] = recursive[r]
      BY <2>2 DEF ListNext, ListBegin
    <3>2. Seen(r)' = Seen(r)
      BY <1>4, <3>1 DEF Seen
    <3> QED BY <1>1, <1>4, <1>6, <2>2, <3>2 DEF ReqSound, ListSound, ListPcs, db
  <2> QED BY <1>1, <2>1, <2>2
<1> QED BY <1>1, <1>4, <1>5, <1>7, <1>8, MoveKeeps DEF ReqSound

\* The commit of a listing is fixed on its first page.
LEMMA ListRevisionKeeps ==
  ASSUME IInv, NEW r \in Reqs, ListRevision(r)
  PROVE  IInv'
<1>1. /\ pc[r] = "lsRev" /\ ReqSound(r) /\ LocalOK /\ StoreOK /\ StoreSound
      /\ blobs \in SUBSET Blobs /\ UNCHANGED <<db, txOwner, blobs, applied>>
  BY TypeHalves DEF IInv, ListRevision
<1>2. txOwner # r
  BY <1>1, NotOwner DEF TxPcs
<1>3. CASE Respond(r)
  BY <1>1, <1>2, <1>3, RespondKeeps
<1>4. CASE /\ parent[r] = None /\ heads[repo[r]] # None
           /\ parent' = [parent EXCEPT ![r] = heads[repo[r]]]
           /\ snapshot' = [snapshot EXCEPT ![r] = Rows(tree[heads[repo[r]]])]
           /\ Goto(r, "lsPage")
           /\ UNCHANGED <<repo, ops, done, recursive, listed, cursor>>
  <2>1. PICK c \in Commits : c = heads[repo[r]] /\ rev[c] # None
    BY <1>1, <1>4 DEF StoreOK, StoreSound, LinearHistory, RevisionsOf, ReqSound, CommitSound
  <2>2. c <= lastCommit
    BY <1>1, <2>1, NoneIsNone DEF StoreOK, StoreSound, Fresh, Commits
  <2>3. Rows(tree[c]) \in SUBSET (Paths \X Blobs) /\ \A row \in Rows(tree[c]) : row[1] \in Paths
    BY <1>1, RowsAreRowSet DEF StoreOK, RowSet
  <2>4. LocalOK' /\ Alone(r)
    BY <1>1, <1>4, <2>1, <2>3 DEF LocalOK, Alone, Goto, Pcs
  <2>5. /\ pc'[r] = "lsPage" /\ parent'[r] = c /\ snapshot'[r] = Rows(tree[c]) /\ repo'[r] = repo[r]
        /\ cursor'[r] = 0 /\ listed'[r] = EmptyBag
    BY <1>1, <1>4, <2>1 DEF LocalOK, Goto, ReqSound, ListSound, ListPcs
  <2>6. Seen(r)'
    <3>1. UpTo(Rows(tree[c]), 0) = {}
      BY <2>3, NoneIsNone DEF UpTo, Paths
    <3>2. \A deep : Listing(deep, {}) = EmptyBag
      BY DEF Listing, EmptyBag
    <3> QED BY <2>5, <3>1, <3>2 DEF Seen
  <2>7. ReqSound(r)'
    <3>1. CommitSound(r)' /\ IdleSound(r)'
      BY <1>1, <1>2, <1>4, <2>5 DEF ReqSound, CommitSound, IdleSound, TxPcs
    <3>2. ListSound(r)'
      BY <1>1, <2>1, <2>2, <2>5, <2>6, NoneIsNone DEF ListSound, db
    <3> QED BY <3>1, <3>2 DEF ReqSound
  <2> QED BY <1>1, <2>4, <2>7, MoveKeeps
<1>5. CASE parent[r] # None /\ Goto(r, "lsPage") /\ UNCHANGED <<local, snapshot>>
  <2>1. LocalOK' /\ Alone(r)
    BY <1>1, <1>5 DEF LocalOK, Alone, Goto, Pcs, local
  <2>2. pc'[r] = "lsPage"
    BY <1>1, <1>5 DEF LocalOK, Goto
  <2>3. Seen(r)' = Seen(r)
    BY <1>5 DEF Seen, local
  <2>4. CommitSound(r)' /\ IdleSound(r)'
    BY <1>1, <1>2, <1>5, <2>2 DEF ReqSound, CommitSound, IdleSound, TxPcs, local
  <2>5. ListSound(r)'
    BY <1>1, <1>5, <2>2, <2>3 DEF ReqSound, ListSound, ListPcs, db, local
  <2> QED BY <1>1, <2>1, <2>4, <2>5, MoveKeeps DEF ReqSound
<1> QED BY <1>3, <1>4, <1>5 DEF ListRevision

\* The entries of a page are entries, and a bag.
LEMMA PageType ==
  ASSUME NEW rows, NEW after, NEW page, PageAfter(rows, after, page), NEW deep \in BOOLEAN
  PROVE  LET B == IF deep THEN recursive_entries(page) ELSE non_recursive_entries(page, after)
         IN  IsABag(B) /\ BagToSet(B) \subseteq Entries
<1>1. page \subseteq rows /\ rows \in SUBSET (Paths \X Blobs)
  BY DEF PageAfter, RowSet
<1>2. \A S : IsABag(SetToBag(S)) /\ BagToSet(SetToBag(S)) = S
  BY DEF IsABag, SetToBag, BagToSet
<1>3. {Entry(row) : row \in Shown(rows, page)} \subseteq Entries
  BY <1>1 DEF Entry, Dir, Shown, Entries
<1>4. page \subseteq Entries
  BY <1>1 DEF Entries
<1>5. CASE deep
  BY <1>2, <1>4, <1>5 DEF recursive_entries
<1>6. CASE ~deep
  <2>1. non_recursive_entries(page, after) = SetToBag({Entry(row) : row \in Shown(rows, page)})
    BY NonRecursiveEntries
  <2> QED BY <1>2, <1>3, <1>6, <2>1
<1> QED BY <1>5, <1>6

\* A page: the rows after the cursor, up to the new one or to the end.
LEMMA ListPageKeeps ==
  ASSUME IInv, NEW r \in Reqs, ListPage(r)
  PROVE  IInv'
<1>1. /\ pc[r] = "lsPage" /\ ReqSound(r) /\ LocalOK /\ StoreOK /\ StoreSound
      /\ blobs \in SUBSET Blobs
      /\ UNCHANGED <<db, txOwner, blobs, repo, parent, ops, done, recursive, applied, snapshot>>
  BY TypeHalves DEF IInv, ListPage
<1>2. txOwner # r
  BY <1>1, NotOwner DEF TxPcs
<1>3. PICK c \in Commits, after \in 0..PathCount, deep \in BOOLEAN :
        c = parent[r] /\ after = cursor[r] /\ deep = recursive[r] /\ c <= lastCommit
  BY <1>1 DEF LocalOK, ReqSound, ListSound, ListPcs
<1>4. PICK rows, rest, page :
        /\ rows = Rows(tree[c]) /\ rest = {row \in rows : row[1] > after}
        /\ page = PageOf(rest)
  OBVIOUS
<1>5. PICK B : B = IF deep THEN recursive_entries(page) ELSE non_recursive_entries(page, after)
  OBVIOUS
<1>6. /\ listed' = [listed EXCEPT ![r] = @ (+) B]
      /\ \/ page = rest /\ Goto(r, "lsDone") /\ UNCHANGED cursor
         \/ /\ page # rest /\ Goto(r, "lsNext")
            /\ cursor' = [cursor EXCEPT ![r] = Max({row[1] : row \in page})]
  BY <1>3, <1>4, <1>5 DEF ListPage
<1>7. RowSet(rows) /\ RowSet(rest) /\ \A row \in rows : row[1] \in Paths /\ row[1] \in Nat
  <2>1. tree[c] \in [Paths -> Blobs \cup {None}]
    BY <1>1 DEF StoreOK
  <2>2. RowSet(rows)
    BY <1>4, <2>1, RowsAreRowSet
  <2>3. rest \subseteq rows
    BY <1>4
  <2>4. RowSet(rest)
    BY <2>2, <2>3 DEF RowSet
  <2>5. \A row \in rows : row[1] \in Paths
    BY <2>2 DEF RowSet
  <2> QED BY <2>2, <2>4, <2>5, NoneIsNone DEF Paths
<1>8. /\ page \subseteq rest /\ rest \subseteq rows
      /\ \A row \in page, q \in rest : q[1] < row[1] => q \in page
      /\ rest # {} => page # {}
  BY <1>4, <1>7, PageIsFirstPart
<1>9. ASSUME rev[c] # None
      PROVE  PageAfter(rows, after, page) /\ snapshot[r] = rows /\ Seen(r)
  <2>1. snapshot[r] = rows /\ Seen(r)
    BY <1>1, <1>3, <1>4, <1>9, NoneIsNone DEF ReqSound, ListSound, ListPcs
  <2>2. after # 0 => \E row \in rows : row[1] = after
    BY <1>3, <2>1 DEF Seen
  <2> QED BY <1>4, <1>7, <1>8, <2>1, <2>2 DEF PageAfter
<1>10. IsABag(B) /\ BagToSet(B) \subseteq Entries
  <2>1. CASE rev[c] # None
    BY <1>5, <1>9, <2>1, PageType
  <2>2. CASE rev[c] = None
    <3>1. tree[c] = EmptyTree
      BY <1>1, <2>2 DEF StoreSound, NoOrphans
    <3>2. rows = {}
      BY <1>4, <3>1 DEF Rows, EmptyTree
    <3>3. page = {}
      BY <1>8, <3>2
    <3>4. DOMAIN B = {} /\ B = [e \in {} |-> 1]
      <4>1. non_recursive_entries({}, after) = [e \in {} |-> 1]
        BY DEF non_recursive_entries
      <4> QED BY <1>5, <3>3, <4>1 DEF recursive_entries, SetToBag
    <3> QED BY <3>4 DEF IsABag, BagToSet
  <2> QED BY <2>1, <2>2
<1>11. page # rest => /\ Max({row[1] : row \in page}) \in {row[1] : row \in page}
                      /\ \A row \in page : row[1] <= Max({q[1] : q \in page})
  <2> DEFINE at == {row[1] : row \in page}
  <2>1. PathCount \in Nat /\ at \in SUBSET (0..PathCount)
    BY <1>7, <1>8, NoneIsNone DEF Paths
  <2>2. page # rest => at # {}
    BY <1>8
  <2>3. \A row \in page : row[1] \in at
    OBVIOUS
  <2> HIDE DEF at
  <2>4. page # rest => Max(at) \in at /\ \A m \in at : m <= Max(at)
    BY <2>1, <2>2, MaxExists
  <2>5. page # rest => Max(at) \in at /\ \A row \in page : row[1] <= Max(at)
    BY <2>3, <2>4
  <2> QED BY <2>5 DEF at
<1>12. LocalOK' /\ Alone(r)
  <2>1. cursor' \in [Reqs -> 0..PathCount] /\ \A q \in Reqs \ {r} : cursor'[q] = cursor[q]
    <3>1. page # rest => Max({row[1] : row \in page}) \in 0..PathCount
      BY <1>7, <1>8, <1>11, NoneIsNone DEF Paths
    <3> QED BY <1>1, <1>6, <3>1 DEF LocalOK
  <2>2. pc' \in [Reqs -> Pcs] /\ \A q \in Reqs \ {r} : pc'[q] = pc[q]
    BY <1>1, <1>6 DEF LocalOK, Goto, Pcs
  <2>3. /\ DOMAIN listed' = Reqs /\ \A q \in Reqs \ {r} : listed'[q] = listed[q]
        /\ listed'[r] = listed[r] (+) B
    BY <1>1, <1>6 DEF LocalOK
  <2>4. IsABag(listed[r] (+) B) /\ BagToSet(listed[r] (+) B) \subseteq Entries
    <3>1. IsABag(listed[r]) /\ BagToSet(listed[r]) \subseteq Entries
      BY <1>1 DEF LocalOK
    <3> QED BY <1>10, <3>1 DEF IsABag, BagToSet, (+)
  <2>5. \A q \in Reqs : IsABag(listed'[q]) /\ BagToSet(listed'[q]) \subseteq Entries
    BY <1>1, <2>3, <2>4 DEF LocalOK
  <2> QED BY <1>1, <2>1, <2>2, <2>3, <2>5 DEF LocalOK, Alone
<1>13. /\ pc'[r] = IF page = rest THEN "lsDone" ELSE "lsNext"
       /\ listed'[r] = listed[r] (+) B
       /\ page # rest => cursor'[r] = Max({row[1] : row \in page})
  BY <1>1, <1>6 DEF LocalOK, Goto
<1>14. CommitSound(r)' /\ IdleSound(r)'
  BY <1>1, <1>2, <1>13 DEF ReqSound, CommitSound, IdleSound, TxPcs
<1>15. ListSound(r)'
  <2>1. ASSUME rev[c] # None
        PROVE  IF page = rest THEN listed'[r] = Listing(recursive'[r], snapshot'[r]) ELSE Seen(r)'
    <3>1. listed'[r] = Listing(deep, UpTo(rows, after) \cup page)
      <4>1. listed[r] = Listing(deep, UpTo(rows, after))
        BY <1>3, <1>9, <2>1 DEF Seen
      <4> QED BY <1>5, <1>9, <1>13, <2>1, <4>1, PageContinues
    <3>2. recursive'[r] = deep /\ snapshot'[r] = rows
      BY <1>1, <1>3, <1>9, <2>1
    <3>3. CASE page = rest
      <4>1. UpTo(rows, after) \cup page = rows
        BY <1>4, <1>7, <3>3 DEF UpTo
      <4> QED BY <3>1, <3>2, <3>3, <4>1
    <3>4. CASE page # rest
      <4>1. PICK m \in page : m[1] = cursor'[r] /\ \A row \in page : row[1] <= m[1]
        BY <1>11, <1>13, <3>4
      <4>2. UpTo(rows, after) \cup page = UpTo(rows, m[1])
        <5>1. m \in rows /\ m[1] > after /\ m[1] \in Nat /\ after \in Nat
          BY <1>3, <1>4, <1>7, <1>8, NoneIsNone
        <5>2. ASSUME NEW row \in rows, row[1] <= m[1], row[1] > after PROVE row \in page
          <6>1. CASE row[1] = m[1]
            BY <1>7, <5>1, <6>1 DEF RowSet
          <6>2. CASE row[1] < m[1]
            BY <1>4, <1>8, <5>2, <6>2
          <6> QED BY <1>7, <5>1, <5>2, <6>1, <6>2
        <5>3. \A row \in rows : row \in UpTo(rows, m[1]) => row \in UpTo(rows, after) \cup page
          BY <1>7, <5>1, <5>2 DEF UpTo
        <5>4. UpTo(rows, after) \subseteq UpTo(rows, m[1]) /\ page \subseteq UpTo(rows, m[1])
          BY <1>7, <1>8, <4>1, <5>1 DEF UpTo
        <5> QED BY <5>3, <5>4 DEF UpTo
      <4>3. m \in rows
        BY <1>8
      <4>4. Seen(r)'
        BY <3>1, <3>2, <4>1, <4>2, <4>3 DEF Seen
      <4> QED BY <3>4, <4>4
    <3> QED BY <3>3, <3>4
  <2>2. c # None /\ parent'[r] = c /\ lastCommit' = lastCommit /\ rev' = rev /\ tree' = tree
    BY <1>1, <1>3, NoneIsNone DEF db
  <2>3. rev[c] # None => snapshot'[r] = Rows(tree[c])
    BY <1>1, <1>4, <1>9
  <2> QED BY <1>3, <1>13, <2>1, <2>2, <2>3 DEF ListSound
<1> QED BY <1>1, <1>12, <1>14, <1>15, MoveKeeps DEF ReqSound

\* Before any request.
LEMMA InitInv == Init => IInv
<1> SUFFICES ASSUME Init PROVE IInv
  OBVIOUS
<1>1. TypeOK
  <2>1. IsABag(EmptyBag) /\ BagToSet(EmptyBag) = {}
    BY DEF IsABag, EmptyBag, SetToBag, BagToSet
  <2>2. DOMAIN listed = Reqs /\ \A r \in Reqs : listed[r] = EmptyBag
    BY DEF Init
  <2> QED BY <2>1, <2>2, NoneIsNone DEF Init, TypeOK, EmptyTree, Pcs
<1>2. \A i : RevisionsOf(i) = {}
  BY DEF Init, RevisionsOf
<1>3. StoreSound
  <2>1. LinearHistory /\ Rooted
    BY <1>2 DEF Init, LinearHistory, Rooted
  <2>2. NoOrphans /\ Fresh /\ SnapshotIsDelta /\ TreesAreStored
    BY DEF Init, NoOrphans, Fresh, SnapshotIsDelta, TreesAreStored, EmptyTree
  <2> QED BY <2>1, <2>2 DEF StoreSound
<1>4. \A r \in Reqs : ReqSound(r)
  BY NoneIsNone DEF Init, ReqSound, ListSound, CommitSound, IdleSound, ListPcs, TxPcs
<1> QED BY <1>1, <1>3, <1>4 DEF IInv

\* Every step keeps the invariant.
LEMMA NextInv == IInv /\ [Next]_vars => IInv'
<1> SUFFICES ASSUME IInv, [Next]_vars PROVE IInv'
  OBVIOUS
<1>1. ASSUME NEW r \in Reqs, Commit(r) PROVE IInv'
  BY <1>1, BeginKeeps, CommitHeadKeeps, OperationKeeps, TxKeeps, TxCommitKeeps DEF Commit
<1>2. ASSUME NEW r \in Reqs, List(r) PROVE IInv'
  BY <1>2, ListBeginKeeps, ListRevisionKeeps, ListPageKeeps DEF List
<1>3. ASSUME NEW r \in Reqs, Cancel(r) PROVE IInv'
  BY <1>3, RespondKeeps DEF Cancel
<1>4. ASSUME NEW r \in Reqs, DeleteRepo(r) \/ \E n \in Names : DeleteBegin(r, n) PROVE IInv'
  BY <1>4, DeleteRepoKeeps, BeginKeeps
<1>5. ASSUME NEW o \in Blobs, UploadBlob(o) PROVE IInv'
  BY <1>5, UploadBlobKeeps
<1>6. ASSUME NEW n \in Names, CreateRepo(n) PROVE IInv'
  BY <1>6, CreateRepoKeeps
<1>7. CASE UNCHANGED vars
  <2>1. /\ UNCHANGED <<db, applied, blobs>>
        /\ UNCHANGED <<txOwner, pc, repo, parent, ops, done, recursive, listed, cursor, snapshot>>
    BY <1>7 DEF vars, db
  <2>2. TypeOK'
    BY <2>1 DEF IInv, TypeOK, db
  <2>3. StoreSound'
    BY <2>1, StoreKeeps DEF IInv
  <2>4. ASSUME NEW q \in Reqs PROVE ReqSound(q)'
    <3>1. q \in Reqs \ {None} /\ Alone(None)
      BY <2>1, NoneIsNone DEF Alone
    <3>2. pc[q] = "txCommit" => heads'[repo[q]] = heads[repo[q]] /\ Exists(repo[q])'
      BY <2>1 DEF IInv, ReqSound, CommitSound, Exists, db
    <3>3. lastCommit' \in Nat /\ lastCommit <= lastCommit'
      BY <2>1, HubAssumption DEF IInv, TypeOK, db
    <3> QED BY <2>1, <3>1, <3>2, <3>3, OthersKeep DEF db
  <2> QED BY <2>2, <2>3, <2>4 DEF IInv
<1> QED BY <1>1, <1>2, <1>3, <1>4, <1>5, <1>6, <1>7 DEF Next

\* The invariant holds throughout every behaviour.
LEMMA Invariance == Spec => []IInv
BY InitInv, NextInv, PTL DEF Spec
-----------------------------------------------------------------------------
\* However many commits and deletions race, each repository has one line of
\* commits that ends in its head, and nothing is left of one that is gone.
THEOREM HistoryIsSound == Spec => []HistorySound
<1>1. IInv => HistorySound
  BY DEF IInv, StoreSound, HistorySound
<1> QED BY <1>1, Invariance, PTL

\* Every snapshot is its parent's with the commit's operations applied, and
\* every file of it is in the CAS.
THEOREM SnapshotsAreSound == Spec => []SnapshotsSound
<1>1. IInv => SnapshotsSound
  BY DEF IInv, StoreSound, SnapshotsSound
<1> QED BY <1>1, Invariance, PTL

\* For every page size and every tree, a client that follows the links has
\* seen each row of one commit, or each directory and top file, exactly once.
THEOREM ListingIsComplete == Spec => []ListingComplete
<1>1. ASSUME IInv, NEW r \in Reqs, pc[r] = "lsDone", rev[parent[r]] # None
      PROVE  listed[r] = Listing(recursive[r], snapshot[r])
  BY <1>1 DEF IInv, ReqSound, ListSound, ListPcs
<1>2. IInv => ListingComplete
  BY <1>1 DEF ListingComplete, Listing
<1> QED BY <1>2, Invariance, PTL

\* What a step does to a commit.
LEMMA CommitStep ==
  ASSUME IInv, Next, NEW c \in Commits, rev[c] # None
  PROVE  \/ rev'[c] = rev[c] /\ tree'[c] = tree[c] /\ applied'[c] = applied[c]
         \/ /\ \A n \in Names : named'[n] # rev[c].repo
            /\ rev'[c] = None /\ tree'[c] = EmptyTree
<1>1. TypeOK /\ Fresh
  BY DEF IInv, StoreSound
<1>2. ASSUME NEW r \in Reqs, TxCommit(r)
      PROVE  rev'[c] = rev[c] /\ tree'[c] = tree[c] /\ applied'[c] = applied[c]
  <2>1. c # lastCommit + 1
    BY <1>1, NoneIsNone DEF TypeOK, Fresh, Commits
  <2> QED BY <1>1, <1>2, <2>1 DEF TxCommit, TypeOK
<1>3. ASSUME NEW r \in Reqs, DeleteRepo(r)
      PROVE  \/ rev'[c] = rev[c] /\ tree'[c] = tree[c] /\ applied'[c] = applied[c]
             \/ /\ \A n \in Names : named'[n] # rev[c].repo
                /\ rev'[c] = None /\ tree'[c] = EmptyTree
  <2>1. rev[c].repo # None
    BY <1>1, NoneIsNone DEF TypeOK
  <2>2. CASE rev[c].repo = repo[r]
    BY <1>3, <2>1, <2>2 DEF DeleteRepo
  <2>3. CASE rev[c].repo # repo[r]
    BY <1>3, <2>3 DEF DeleteRepo
  <2> QED BY <2>2, <2>3
<1>4. \/ UNCHANGED <<rev, tree, applied>>
      \/ \E r \in Reqs : TxCommit(r) \/ DeleteRepo(r)
  <2>1. ASSUME NEW r \in Reqs, Commit(r) PROVE UNCHANGED <<rev, tree, applied>> \/ TxCommit(r)
    BY <2>1 DEF Commit, CommitBegin, CommitHead, InlineFile, LfsFile, DeletedEntry, TxBegin,
       TxCheck, db
  <2>2. ASSUME NEW r \in Reqs, List(r) PROVE UNCHANGED <<rev, tree, applied>>
    BY <2>2 DEF List, ListNext, ListBegin, ListRevision, ListPage, db
  <2> QED BY <2>1, <2>2 DEF Next, UploadBlob, CreateRepo, DeleteBegin, Cancel, db
<1> QED BY <1>2, <1>3, <1>4

\* A commit stays as it was made until its repository is deleted.
THEOREM CommitsAreImmutable == Spec => CommitsImmutable
<1>1. IInv /\ [Next]_vars =>
        [\A c \in Commits : rev[c] # None =>
           \/ rev'[c] = rev[c] /\ tree'[c] = tree[c] /\ applied'[c] = applied[c]
           \/ /\ \A n \in Names : named'[n] # rev[c].repo
              /\ rev'[c] = None /\ tree'[c] = EmptyTree]_vars
  BY CommitStep
<1> QED BY <1>1, Invariance, PTL DEF Spec, CommitsImmutable

-----------------------------------------------------------------------------
(* The refinement of AtomicRepos *)

\* A name has its own id, and ids are handed out in order.
IdsSound ==
  /\ \A n \in Names : named[n] # None => named[n] <= lastRepo
  /\ \A m, n \in Names : named[m] = named[n] /\ named[n] # None => m = n

CommitPcs == {"cmHead", "cmOps", "cmBegin"} \cup TxPcs

\* What a request has processed and what it has left are what the client sent.
Sent(r) ==
  /\ pc[r] \in CommitPcs => done[r] \o ops[r] \in Changes
  /\ pc[r] \in {"cmBegin"} \cup TxPcs => ops[r] = << >>
  /\ pc[r] \notin CommitPcs => done[r] = << >>

NamesInv == IdsSound /\ \A r \in Reqs : Sent(r)

\* Processing an operation moves it from one list to the other.
LEMMA MovedOver ==
  ASSUME NEW S, NEW s \in Seq(S), NEW t \in Seq(S), t # << >>
  PROVE  Append(s, Head(t)) \o Tail(t) = s \o t
<1>1. Append(s, Head(t)) \in Seq(S) /\ Tail(t) \in Seq(S) /\ Len(Tail(t)) = Len(t) - 1 /\ Len(t) > 0
  OBVIOUS
<1>2. Len(Append(s, Head(t)) \o Tail(t)) = Len(s \o t)
  BY <1>1
<1>3. ASSUME NEW i \in 1..Len(s \o t)
      PROVE  (Append(s, Head(t)) \o Tail(t))[i] = (s \o t)[i]
  BY <1>1
<1> QED
  BY <1>1, <1>2, <1>3, SeqEqual

\* A request that ends has nothing processed and nothing left.
LEMMA RespondSent ==
  ASSUME TypeOK, NamesInv, NEW r \in Reqs, Respond(r)
  PROVE  \A q \in Reqs : Sent(q)'
<1>1. pc'[r] = "idle" /\ done'[r] = << >>
  BY DEF TypeOK, Respond, Goto
<1>2. \A q \in Reqs \ {r} : pc'[q] = pc[q] /\ done'[q] = done[q] /\ ops'[q] = ops[q]
  BY DEF TypeOK, Respond, Goto
<1>3. ASSUME NEW q \in Reqs PROVE Sent(q)'
  <2>1. CASE q = r
    BY <1>1, <2>1 DEF Sent, CommitPcs, TxPcs
  <2>2. CASE q # r
    BY <1>2, <2>2 DEF Sent, NamesInv
  <2> QED BY <2>1, <2>2
<1> QED BY <1>3

\* A request that goes on without touching its lists.
LEMMA GotoSent ==
  ASSUME TypeOK, NamesInv, NEW r \in Reqs, NEW next, Goto(r, next), UNCHANGED <<ops, done>>,
         next \in CommitPcs <=> pc[r] \in CommitPcs,
         next \in {"cmBegin"} \cup TxPcs => ops[r] = << >>
  PROVE  \A q \in Reqs : Sent(q)'
<1>1. ASSUME NEW q \in Reqs PROVE Sent(q)'
  <2>1. Sent(q) /\ pc'[q] = IF q = r THEN next ELSE pc[q]
    BY DEF TypeOK, Goto, NamesInv
  <2> QED BY <2>1 DEF Sent
<1> QED BY <1>1

\* An operation is processed.
LEMMA ProcessedSent ==
  ASSUME IInv, NamesInv, NEW r \in Reqs, pc[r] = "cmOps", Processed(r)
  PROVE  \A q \in Reqs : Sent(q)'
<1>1. /\ TypeOK /\ ops[r] # << >> /\ ops[r] \in Seq(Operations) /\ done[r] \in Seq(Operations)
  BY DEF IInv, TypeOK, ReqSound, CommitSound
<1>2. /\ done'[r] = Append(done[r], Head(ops[r])) /\ ops'[r] = Tail(ops[r])
      /\ pc'[r] = IF Tail(ops[r]) = << >> THEN "cmBegin" ELSE "cmOps"
  BY <1>1 DEF TypeOK, Processed, Goto
<1>3. \A q \in Reqs \ {r} : pc'[q] = pc[q] /\ done'[q] = done[q] /\ ops'[q] = ops[q]
  BY <1>1 DEF TypeOK, Processed, Goto
<1>4. done'[r] \o ops'[r] = done[r] \o ops[r]
  BY <1>1, <1>2, MovedOver
<1>5. Sent(r)'
  BY <1>2, <1>4 DEF NamesInv, Sent, CommitPcs, TxPcs
<1>6. ASSUME NEW q \in Reqs \ {r} PROVE Sent(q)'
  BY <1>3 DEF NamesInv, Sent
<1> QED BY <1>5, <1>6

\* The steps of the requests keep track of what was sent.
LEMMA CommitSent ==
  ASSUME IInv, NamesInv, NEW r \in Reqs, Commit(r)
  PROVE  \A q \in Reqs : Sent(q)'
<1>1. TypeOK /\ Sent(r)
  BY DEF IInv, NamesInv
<1>2. ASSUME NEW n \in Names, NEW base \in Commits \cup {None}, NEW changes \in Changes,
             CommitBegin(r, n, base, changes)
      PROVE  \A q \in Reqs : Sent(q)'
  <2>1. pc[r] = "idle" /\ done[r] = << >>
    BY <1>1, <1>2 DEF CommitBegin, Sent, CommitPcs, TxPcs
  <2>2. /\ pc'[r] = "cmHead" /\ ops'[r] = changes /\ done'[r] = << >>
        /\ \A q \in Reqs \ {r} : pc'[q] = pc[q] /\ done'[q] = done[q] /\ ops'[q] = ops[q]
    BY <1>1, <1>2, <2>1 DEF CommitBegin, Goto, TypeOK
  <2>3. << >> \o changes = changes
    <3>1. changes \in Seq(Operations)
      BY HubAssumption
    <3> QED BY <3>1
  <2>4. Sent(r)'
    BY <2>2, <2>3 DEF Sent, CommitPcs, TxPcs
  <2>5. ASSUME NEW q \in Reqs \ {r} PROVE Sent(q)'
    BY <2>2 DEF NamesInv, Sent
  <2> QED BY <2>4, <2>5
<1>3. CASE CommitHead(r)
  <2>1. CASE Respond(r)
    BY <1>1, <2>1, RespondSent
  <2>2. CASE Goto(r, IF ops[r] = << >> THEN "cmBegin" ELSE "cmOps") /\ UNCHANGED <<local, snapshot>>
    <3>1. pc[r] = "cmHead" /\ UNCHANGED <<ops, done>>
      BY <1>3, <2>2 DEF CommitHead, local
    <3>2. PICK next : /\ next = IF ops[r] = << >> THEN "cmBegin" ELSE "cmOps"
                      /\ Goto(r, next)
      BY <2>2
    <3> QED BY <1>1, <3>1, <3>2, GotoSent DEF CommitPcs, TxPcs
  <2> QED BY <1>3, <2>1, <2>2 DEF CommitHead
<1>4. CASE InlineFile(r) \/ LfsFile(r) \/ DeletedEntry(r)
  <2>1. pc[r] = "cmOps" /\ (Processed(r) \/ Respond(r))
    BY <1>4 DEF InlineFile, LfsFile, DeletedEntry
  <2> QED BY <1>1, <2>1, ProcessedSent, RespondSent
<1>5. CASE TxBegin(r)
  <2>1. pc[r] = "cmBegin" /\ Goto(r, "txCheck") /\ UNCHANGED <<ops, done>>
    BY <1>5 DEF TxBegin, local
  <2> QED BY <1>1, <2>1, GotoSent DEF CommitPcs, TxPcs, Sent
<1>6. CASE TxCheck(r)
  <2>1. CASE Respond(r)
    BY <1>1, <2>1, RespondSent
  <2>2. CASE Goto(r, "txCommit") /\ UNCHANGED <<txOwner, local, snapshot>>
    <3>1. pc[r] = "txCheck" /\ UNCHANGED <<ops, done>>
      BY <1>6, <2>2 DEF TxCheck, local
    <3> QED BY <1>1, <2>2, <3>1, GotoSent DEF CommitPcs, TxPcs, Sent
  <2> QED BY <1>6, <2>1, <2>2 DEF TxCheck
<1>7. CASE TxCommit(r)
  BY <1>1, <1>7, RespondSent DEF TxCommit
<1> QED BY <1>2, <1>3, <1>4, <1>5, <1>6, <1>7 DEF Commit

\* Listings have nothing to do with it.
LEMMA ListSent ==
  ASSUME IInv, NamesInv, NEW r \in Reqs, List(r) \/ \E n \in Names : DeleteBegin(r, n)
  PROVE  \A q \in Reqs : Sent(q)'
<1>1. TypeOK /\ Sent(r)
  BY DEF IInv, NamesInv
<1>2. CASE Respond(r)
  BY <1>1, <1>2, RespondSent
<1>3. CASE ~Respond(r)
  <2>1. /\ pc[r] \in {"idle", "lsRev", "lsPage", "lsNext"} /\ UNCHANGED <<ops, done>>
        /\ \E next \in {"delete", "lsRev", "lsPage", "lsNext", "lsDone"} : Goto(r, next)
    BY <1>3 DEF List, ListNext, ListBegin, ListRevision, ListPage, DeleteBegin, local
  <2> QED BY <1>1, <2>1, GotoSent DEF CommitPcs, TxPcs
<1> QED BY <1>2, <1>3

\* Names keep their own ids.
LEMMA IdsKeep ==
  ASSUME IInv, NamesInv, Next
  PROVE  IdsSound'
<1>1. /\ TypeOK /\ IdsSound /\ MaxRepos \in Nat /\ lastRepo \in Nat
      /\ \A n \in Names : named[n] = None \/ named[n] \in Nat
  BY HubAssumption DEF IInv, NamesInv, TypeOK, RepoIds
<1>2. ASSUME NEW n \in Names, CreateRepo(n) PROVE IdsSound'
  <2>1. /\ lastRepo' = lastRepo + 1 /\ named' = [named EXCEPT ![n] = lastRepo + 1]
    BY <1>2 DEF CreateRepo
  <2>2. named'[n] = lastRepo + 1 /\ \A m \in Names \ {n} : named'[m] = named[m]
    BY <1>1, <2>1 DEF TypeOK
  <2>3. \A m \in Names \ {n} : named[m] # None => named[m] \in Nat /\ named[m] <= lastRepo
    BY <1>1 DEF IdsSound
  <2>4. \A m \in Names \ {n} : named'[m] # lastRepo + 1
    BY <1>1, <2>2, <2>3, NoneIsNone, HubAssumption
  <2>5. \A m \in Names : named'[m] # None => named'[m] <= lastRepo'
    BY <1>1, <2>1, <2>2, <2>3
  <2>6. ASSUME NEW m \in Names, NEW k \in Names, named'[m] = named'[k], named'[k] # None
        PROVE  m = k
    <3>1. CASE m = n \/ k = n
      BY <2>2, <2>4, <2>6, <3>1
    <3>2. CASE m # n /\ k # n
      BY <1>1, <2>2, <2>6, <3>2 DEF IdsSound
    <3> QED BY <3>1, <3>2
  <2> QED BY <2>5, <2>6 DEF IdsSound
<1>3. ASSUME NEW r \in Reqs, DeleteRepo(r) PROVE IdsSound'
  <2>1. /\ UNCHANGED lastRepo
        /\ named' = [n \in Names |-> IF named[n] = repo[r] THEN None ELSE named[n]]
    BY <1>3 DEF DeleteRepo
  <2> QED BY <1>1, <2>1 DEF IdsSound
<1>4. ASSUME UNCHANGED <<named, lastRepo>> PROVE IdsSound'
  BY <1>1, <1>4 DEF IdsSound
<1>5. ASSUME NEW r \in Reqs, Commit(r) PROVE UNCHANGED <<named, lastRepo>>
  BY <1>5 DEF Commit, CommitBegin, CommitHead, InlineFile, LfsFile, DeletedEntry, TxBegin,
              TxCheck, TxCommit, db
<1>6. ASSUME NEW r \in Reqs, List(r) PROVE UNCHANGED <<named, lastRepo>>
  BY <1>6 DEF List, ListNext, ListBegin, ListRevision, ListPage, db
<1> QED
  BY <1>2, <1>3, <1>4, <1>5, <1>6 DEF Next, UploadBlob, DeleteBegin, Cancel, db

\* Every step keeps names and lists in order.
LEMMA NamesNext == IInv /\ NamesInv /\ [Next]_vars => NamesInv'
<1> SUFFICES ASSUME IInv, NamesInv, [Next]_vars PROVE NamesInv'
  OBVIOUS
<1>1. CASE Next
  <2>1. CASE \E r \in Reqs : DeleteRepo(r) \/ Cancel(r)
    <3>1. \E r \in Reqs : Respond(r)
      BY <2>1 DEF DeleteRepo, Cancel
    <3> QED BY <1>1, <3>1, RespondSent, IdsKeep DEF NamesInv, IInv
  <2>2. CASE \E r \in Reqs : Commit(r) \/ List(r) \/ \E n \in Names : DeleteBegin(r, n)
    BY <1>1, <2>2, CommitSent, ListSent, IdsKeep DEF NamesInv
  <2>3. ASSUME UNCHANGED <<pc, ops, done>> PROVE NamesInv'
    BY <1>1, <2>3, IdsKeep DEF NamesInv, Sent
  <2> QED BY <1>1, <2>1, <2>2, <2>3 DEF Next, UploadBlob, CreateRepo, local
<1>2. CASE UNCHANGED vars
  BY <1>2 DEF vars, NamesInv, IdsSound, Sent
<1> QED BY <1>1, <1>2

-----------------------------------------------------------------------------
\* On each path the last operation counts: what Apply computes is what the
\* abstract commit demands.
LEMMA ApplyChanges ==
  ASSUME NEW t \in [Paths -> Blobs \cup {None}], NEW changes \in Seq(Operations)
  PROVE  Repos!Changed(t, changes, Apply(t, changes))
<1> SUFFICES ASSUME NEW p \in Paths
             PROVE  \/ /\ \A i \in 1..Len(changes) : changes[i].path # p
                       /\ Apply(t, changes)[p] = t[p]
                    \/ \E i \in 1..Len(changes) :
                         /\ changes[i].path = p
                         /\ \A j \in (i + 1)..Len(changes) : changes[j].path # p
                         /\ Apply(t, changes)[p]
                              = IF changes[i].type = "delete" THEN None ELSE changes[i].oid
  BY DEF Repos!Changed
<1> DEFINE on == {i \in DOMAIN changes : changes[i].path = p}
           op == changes[Max(on)]
<1>1. Apply(t, changes)[p] = IF on = {} THEN t[p] ELSE IF op.type = "delete" THEN None ELSE op.oid
  BY DEF Apply
<1>2. /\ Len(changes) \in Nat /\ on \in SUBSET (0..Len(changes))
      /\ \A i : i \in on <=> i \in 1..Len(changes) /\ changes[i].path = p
  OBVIOUS
<1>3. CASE on = {}
  BY <1>1, <1>2, <1>3
<1>4. CASE on # {}
  <2> HIDE DEF on
  <2>1. Max(on) \in on /\ \A i \in on : i <= Max(on)
    BY <1>2, <1>4, MaxExists
  <2>2. PICK m \in 1..Len(changes) : m = Max(on) /\ changes[m].path = p
    BY <1>2, <2>1
  <2>3. ASSUME NEW j \in (m + 1)..Len(changes) PROVE changes[j].path # p
    <3>1. j \in 1..Len(changes) /\ ~ j <= m
      BY <1>2
    <3> QED BY <1>2, <2>1, <2>2, <3>1
  <2>4. Apply(t, changes)[p] = IF changes[m].type = "delete" THEN None ELSE changes[m].oid
    BY <1>1, <1>4, <2>2
  <2> QED BY <2>2, <2>3, <2>4
<1> QED BY <1>3, <1>4

\* What a name shows depends on its id, its head and its rows only.
LEMMA SameVisible ==
  ASSUME NEW n \in Names, named'[n] = named[n],
         named[n] # None =>
           /\ heads'[named[n]] = heads[named[n]]
           /\ \A c \in Commits : (rev'[c] # None /\ rev'[c].repo = named[n])
                                   <=> (rev[c] # None /\ rev[c].repo = named[n])
           /\ \A c \in Commits : rev[c] # None /\ rev[c].repo = named[n] =>
                                   rev'[c] = rev[c] /\ tree'[c] = tree[c]
  PROVE  Visible'[n] = Visible[n]
<1>1. CASE named[n] = None
  BY <1>1 DEF Visible
<1>2. CASE named[n] # None
  <2>1. RevisionsOf(named[n])' = RevisionsOf(named[n])
    BY <1>2 DEF RevisionsOf
  <2>2. \A c \in RevisionsOf(named[n]) : rev'[c] = rev[c] /\ tree'[c] = tree[c]
    BY <1>2 DEF RevisionsOf
  <2>3. Visible'[n] = [head |-> heads[named[n]],
                       commits |-> [c \in RevisionsOf(named[n]) |->
                                      [parent |-> rev'[c].parent, files |-> tree'[c]]]]
    BY <1>2, <2>1 DEF Visible
  <2>4. Visible[n] = [head |-> heads[named[n]],
                      commits |-> [c \in RevisionsOf(named[n]) |->
                                     [parent |-> rev[c].parent, files |-> tree[c]]]]
    BY <1>2 DEF Visible
  <2> QED BY <2>2, <2>3, <2>4
<1> QED BY <1>1, <1>2

\* Two functions on the names.
LEMMA VisibleIs ==
  /\ Visible = [n \in Names |-> Visible[n]]
  /\ Visible' = [n \in Names |-> Visible'[n]]
BY DEF Visible

\* The tables stay as they are.
LEMMA QuietStep ==
  ASSUME UNCHANGED db
  PROVE  Visible' = Visible /\ UNCHANGED lastCommit
<1>1. ASSUME NEW n \in Names PROVE Visible'[n] = Visible[n]
  BY SameVisible DEF db
<1> QED BY <1>1, VisibleIs DEF db

\* create_repo makes an empty repository under the name.
LEMMA CreateStep ==
  ASSUME IInv, NamesInv, NEW n \in Names, CreateRepo(n)
  PROVE  Repos!Create(n)
<1>1. TypeOK /\ NoOrphans /\ IdsSound /\ lastRepo \in Nat /\ MaxRepos \in Nat
  BY HubAssumption DEF IInv, StoreSound, NamesInv, TypeOK
<1>2. PICK i \in RepoIds : i = lastRepo + 1
  BY <1>1 DEF CreateRepo, RepoIds
<1>3. /\ named[n] = None /\ named' = [named EXCEPT ![n] = i]
      /\ UNCHANGED <<heads, rev, tree, lastCommit, blobs>>
  BY <1>2 DEF CreateRepo
<1>4. ~Exists(i)
  <2>1. \A m \in Names : named[m] # None => named[m] \in Nat /\ named[m] <= lastRepo
    BY <1>1 DEF TypeOK, IdsSound, RepoIds
  <2>2. i # None
    BY <1>2, NoneIsNone
  <2> QED BY <1>1, <1>2, <2>1, <2>2 DEF Exists
<1>5. heads[i] = None /\ RevisionsOf(i)' = {}
  <2>1. heads[i] = None /\ \A c \in Commits : rev[c] # None => rev[c].repo # i
    BY <1>1, <1>4 DEF NoOrphans
  <2> QED BY <1>3, <2>1 DEF RevisionsOf
<1>6. named'[n] = i /\ i # None /\ heads'[i] = None
  BY <1>1, <1>3, <1>5, NoneIsNone DEF TypeOK
<1>7. Visible[n] = None /\ Visible'[n] = [head |-> None, commits |-> [c \in {} |-> None]]
  <2>1. Visible'[n] = [head |-> heads'[i],
                       commits |-> [c \in RevisionsOf(i)' |->
                                      [parent |-> rev'[c].parent, files |-> tree'[c]]]]
    BY <1>6 DEF Visible
  <2>2. [c \in RevisionsOf(i)' |-> [parent |-> rev'[c].parent, files |-> tree'[c]]]
          = [c \in {} |-> None]
    BY <1>5
  <2>3. Visible[n] = None
    BY <1>3 DEF Visible
  <2> QED BY <1>6, <2>1, <2>2, <2>3
<1>8. ASSUME NEW m \in Names \ {n} PROVE Visible'[m] = Visible[m]
  <2>1. named'[m] = named[m]
    BY <1>1, <1>3 DEF TypeOK
  <2> QED BY <1>3, <2>1, SameVisible
<1>9. Visible' = [Visible EXCEPT ![n] = [head |-> None, commits |-> [c \in {} |-> None]]]
  BY <1>7, <1>8, VisibleIs
<1> QED BY <1>3, <1>7, <1>9 DEF Repos!Create

\* A name that has a repository shows one.
LEMMA LiveIsVisible ==
  ASSUME TypeOK, NEW n \in Names, named[n] # None
  PROVE  Visible[n] # None
<1>1. PICK i \in RepoIds : i = named[n]
  BY DEF TypeOK
<1>2. PICK S \in SUBSET Commits : S = RevisionsOf(i)
  BY DEF RevisionsOf
<1>3. [c \in S |-> [parent |-> rev[c].parent, files |-> tree[c]]]
        \in [S -> [parent : Commits \cup {None}, files : [Paths -> Blobs \cup {None}]]]
  <2>1. ASSUME NEW c \in S
        PROVE  rev[c].parent \in Commits \cup {None} /\ tree[c] \in [Paths -> Blobs \cup {None}]
    BY <1>2 DEF TypeOK, RevisionsOf
  <2> QED BY <2>1
<1>4. Visible[n] = [head |-> heads[i],
                    commits |-> [c \in S |-> [parent |-> rev[c].parent, files |-> tree[c]]]]
  BY <1>1, <1>2 DEF Visible
<1>5. heads[i] \in Commits \cup {None}
  BY DEF TypeOK
<1> QED BY <1>3, <1>4, <1>5, HubAssumption

\* delete_repo takes the repository from the name that has it; if another
\* request was faster, nothing is to be seen.
LEMMA DeleteStep ==
  ASSUME IInv, NamesInv, NEW r \in Reqs, DeleteRepo(r)
  PROVE  (\E n \in Names : Repos!Delete(n)) \/ UNCHANGED Repos!vars
<1>1. TypeOK /\ NoOrphans /\ IdsSound /\ repo[r] \in RepoIds /\ repo[r] # None
  BY NoneIsNone DEF IInv, StoreSound, NamesInv, TypeOK, DeleteRepo, ReqSound, CommitSound
<1>2. /\ named' = [n \in Names |-> IF named[n] = repo[r] THEN None ELSE named[n]]
      /\ heads' = [heads EXCEPT ![repo[r]] = None]
      /\ \A c \in Commits : IF rev[c] # None /\ rev[c].repo = repo[r]
                            THEN rev'[c] = None
                            ELSE rev'[c] = rev[c] /\ tree'[c] = tree[c]
      /\ UNCHANGED <<lastCommit, blobs>>
  BY DEF DeleteRepo
<1>3. ASSUME NEW m \in Names, named[m] # repo[r] PROVE Visible'[m] = Visible[m]
  <2>1. named'[m] = named[m] /\ (named[m] # None => heads'[named[m]] = heads[named[m]])
    BY <1>1, <1>2, <1>3 DEF TypeOK
  <2> QED BY <1>2, <1>3, <2>1, SameVisible
<1>4. CASE ~Exists(repo[r])
  <2>1. Visible' = Visible
    BY <1>3, <1>4, VisibleIs DEF Exists
  <2> QED BY <1>2, <2>1 DEF Repos!vars
<1>5. ASSUME NEW n \in Names, named[n] = repo[r] PROVE Repos!Delete(n)
  <2>1. Visible'[n] = None
    BY <1>2, <1>5 DEF Visible
  <2>2. Visible[n] # None
    BY <1>1, <1>5, LiveIsVisible
  <2>3. \A m \in Names \ {n} : named[m] # repo[r]
    BY <1>1, <1>5 DEF IdsSound
  <2>4. Visible' = [Visible EXCEPT ![n] = None]
    BY <1>3, <2>1, <2>3, VisibleIs
  <2> QED BY <1>2, <2>2, <2>4 DEF Repos!Delete
<1> QED BY <1>4, <1>5 DEF Exists

\* COMMIT extends the head with the operations that the client sent.
LEMMA TxCommitStep ==
  ASSUME IInv, NamesInv, NEW r \in Reqs, TxCommit(r)
  PROVE  \E n \in Names, c \in Commits : Repos!Commit(n, c)
<1>1. /\ TypeOK /\ Fresh /\ NoOrphans /\ LinearHistory /\ IdsSound /\ Sent(r) /\ CommitSound(r)
      /\ repo[r] \in RepoIds /\ pc[r] = "txCommit" /\ heads[repo[r]] = parent[r]
      /\ Exists(repo[r])
  BY DEF IInv, StoreSound, NamesInv, TxCommit, ReqSound, CommitSound
<1>2. PICK i \in RepoIds : i = repo[r]
  BY <1>1
<1>3. PICK base \in Commits \cup {None} : base = parent[r]
  BY <1>1 DEF TypeOK
<1>4. PICK n \in Names : named[n] = i
  BY <1>1, <1>2 DEF Exists
<1>5. PICK c \in Commits : c = lastCommit + 1
  BY <1>1, HubAssumption DEF TxCommit, TypeOK, Commits
<1>6. PICK files \in [Paths -> Blobs \cup {None}] : files = Apply(BaseTree(base), done[r])
  <2>1. BaseTree(base) \in [Paths -> Blobs \cup {None}]
    BY <1>1 DEF TypeOK, BaseTree, EmptyTree
  <2>2. done[r] \in Seq(Operations)
    BY <1>1 DEF TypeOK
  <2> QED BY <2>1, <2>2, ApplyType
<1>7. PICK changes \in Changes : changes = done[r]
  <2>1. done[r] \o << >> \in Changes /\ done[r] \in Seq(Operations)
    BY <1>1 DEF Sent, CommitPcs, TxPcs, TypeOK
  <2> QED BY <2>1
<1>8. /\ rev' = [rev EXCEPT ![c] = [repo |-> i, parent |-> base]]
      /\ tree' = [tree EXCEPT ![c] = files]
      /\ heads' = [heads EXCEPT ![i] = c]
      /\ lastCommit' = c
      /\ UNCHANGED <<named, blobs>>
  BY <1>2, <1>3, <1>5, <1>6 DEF TxCommit
<1>9. rev[c] = None /\ i # None /\ lastCommit \in Nat
  BY <1>1, <1>2, <1>5, NoneIsNone, HubAssumption, SMTT(30) DEF Fresh, TypeOK
<1>10. [repo |-> i, parent |-> base] # None
  BY HubAssumption
<1>11. /\ rev'[c] = [repo |-> i, parent |-> base] /\ tree'[c] = files /\ heads'[i] = c
       /\ \A d \in Commits \ {c} : rev'[d] = rev[d] /\ tree'[d] = tree[d]
       /\ \A j \in RepoIds \ {i} : heads'[j] = heads[j]
  BY <1>1, <1>8 DEF TypeOK
<1>12. Visible[n] = [head |-> base,
                     commits |-> [d \in RevisionsOf(i) |->
                                    [parent |-> rev[d].parent, files |-> tree[d]]]]
  BY <1>1, <1>2, <1>3, <1>4, <1>9 DEF Visible
<1>13. RevisionsOf(i)' = RevisionsOf(i) \cup {c} /\ c \notin RevisionsOf(i)
  BY <1>9, <1>10, <1>11 DEF RevisionsOf
<1>14. Visible'[n] = Repos!Extended(Visible[n], c, files)
  <2>1. Visible'[n] = [head |-> c,
                       commits |-> [d \in RevisionsOf(i) \cup {c} |->
                                      [parent |-> rev'[d].parent, files |-> tree'[d]]]]
    <3>1. named'[n] = i
      BY <1>4, <1>8
    <3> QED BY <1>9, <1>11, <1>13, <3>1 DEF Visible
  <2>2. DOMAIN Visible[n].commits = RevisionsOf(i) /\ Visible[n].head = base
    BY <1>12
  <2>3. ASSUME NEW d \in RevisionsOf(i) \cup {c}
        PROVE  [parent |-> rev'[d].parent, files |-> tree'[d]]
                 = IF d = c THEN [parent |-> base, files |-> files] ELSE Visible[n].commits[d]
    <3>1. CASE d = c
      BY <1>11, <3>1
    <3>2. CASE d # c
      <4>1. d \in RevisionsOf(i) /\ d \in Commits
        BY <3>2 DEF RevisionsOf
      <4>2. Visible[n].commits[d] = [parent |-> rev[d].parent, files |-> tree[d]]
        BY <1>12, <4>1
      <4> QED BY <1>11, <3>2, <4>1, <4>2
    <3> QED BY <3>1, <3>2
  <2> QED BY <2>1, <2>2, <2>3, ZenonT(60) DEF Repos!Extended
<1>15. ASSUME NEW m \in Names \ {n} PROVE Visible'[m] = Visible[m]
  <2>1. named'[m] = named[m] /\ named[m] # i
    BY <1>1, <1>4, <1>8, <1>9 DEF IdsSound
  <2>2. named[m] # None => heads'[named[m]] = heads[named[m]]
    BY <1>1, <1>11, <2>1 DEF TypeOK
  <2>3. ASSUME NEW d \in Commits
        PROVE  /\ (rev'[d] # None /\ rev'[d].repo = named[m])
                    <=> (rev[d] # None /\ rev[d].repo = named[m])
               /\ rev[d] # None /\ rev[d].repo = named[m] => rev'[d] = rev[d] /\ tree'[d] = tree[d]
    <3>1. CASE d = c
      BY <1>9, <1>11, <2>1, <3>1
    <3>2. CASE d # c
      BY <1>11, <3>2
    <3> QED BY <3>1, <3>2
  <2> QED BY <2>1, <2>2, <2>3, SameVisible
<1>16. Visible' = [Visible EXCEPT ![n] = Repos!Extended(@, c, files)]
  BY <1>14, <1>15, VisibleIs
<1>17. Repos!HeadFiles(Visible[n]) = BaseTree(base)
  <2>1. Visible[n].head = base
    BY <1>12
  <2>2. CASE base = None
    BY <2>1, <2>2 DEF Repos!HeadFiles, BaseTree, EmptyTree
  <2>3. CASE base # None
    <3>1. base \in RevisionsOf(i)
      BY <1>1, <1>2, <1>3, <2>3 DEF LinearHistory
    <3>2. Visible[n].commits[base].files = tree[base]
      BY <1>12, <3>1
    <3> QED BY <2>1, <2>3, <3>2 DEF Repos!HeadFiles, BaseTree
  <2> QED BY <2>2, <2>3
<1>18. Repos!Changed(Repos!HeadFiles(Visible[n]), changes, files)
  <2>1. BaseTree(base) \in [Paths -> Blobs \cup {None}] /\ done[r] \in Seq(Operations)
    BY <1>1 DEF TypeOK, BaseTree, EmptyTree
  <2> QED BY <1>6, <1>7, <1>17, <2>1, ApplyChanges
<1>19. \A j \in 1..Len(changes) : changes[j].type # "delete" => changes[j].oid \in blobs
  BY <1>1, <1>7 DEF CommitSound
<1>20. /\ c \notin 1..lastCommit /\ 1..lastCommit' = (1..lastCommit) \cup {c}
       /\ Visible[n] # None /\ UNCHANGED blobs
  <2>1. Visible[n] # None
    BY <1>1, <1>4, <1>9, LiveIsVisible
  <2> QED BY <1>5, <1>8, <1>9, <2>1
<1>21. Repos!Commit(n, c)
  BY <1>16, <1>18, <1>19, <1>20 DEF Repos!Commit
<1> QED BY <1>21

\* Every step of the Hub is a step on its repositories, or is not to be seen.
LEMMA ReposStep == IInv /\ NamesInv /\ [Next]_vars => [Repos!Next]_(Repos!vars)
<1> SUFFICES ASSUME IInv, NamesInv, [Next]_vars PROVE Repos!Next \/ UNCHANGED Repos!vars
  OBVIOUS
<1>1. ASSUME UNCHANGED db, UNCHANGED blobs PROVE UNCHANGED Repos!vars
  BY <1>1, QuietStep DEF Repos!vars
<1>2. ASSUME NEW o \in Blobs, UNCHANGED db, blobs' = blobs \cup {o} PROVE Repos!Next
  BY <1>2, QuietStep DEF Repos!Next, Repos!Store
<1>3. ASSUME NEW r \in Reqs, Commit(r) PROVE Repos!Next \/ UNCHANGED Repos!vars
  <2>1. CASE TxCommit(r)
    BY <2>1, TxCommitStep DEF Repos!Next
  <2>2. CASE InlineFile(r)
    <3>1. Head(ops[r]) \in Operations
      <4>1. ops[r] \in Seq(Operations) /\ ops[r] # << >>
        BY <2>2 DEF InlineFile, IInv, TypeOK, ReqSound, CommitSound
      <4> QED BY <4>1
    <3>2. Head(ops[r]).oid \in Blobs
      BY <2>2, <3>1 DEF InlineFile, Operations
    <3> QED BY <1>2, <2>2, <3>2 DEF InlineFile
  <2>3. CASE ~TxCommit(r) /\ ~InlineFile(r)
    <3>1. UNCHANGED db /\ UNCHANGED blobs
      BY <1>3, <2>3 DEF Commit, CommitBegin, CommitHead, LfsFile, DeletedEntry, TxBegin, TxCheck
    <3> QED BY <1>1, <3>1
  <2> QED BY <2>1, <2>2, <2>3
<1>4. ASSUME NEW r \in Reqs, List(r) \/ Cancel(r) \/ \E n \in Names : DeleteBegin(r, n)
      PROVE  UNCHANGED Repos!vars
  <2>1. UNCHANGED db /\ UNCHANGED blobs
    BY <1>4 DEF List, ListNext, ListBegin, ListRevision, ListPage, Cancel, DeleteBegin
  <2> QED BY <1>1, <2>1
<1>5. ASSUME NEW r \in Reqs, DeleteRepo(r) PROVE Repos!Next \/ UNCHANGED Repos!vars
  BY <1>5, DeleteStep DEF Repos!Next
<1>6. ASSUME NEW n \in Names, CreateRepo(n) PROVE Repos!Next
  BY <1>6, CreateStep DEF Repos!Next
<1>7. ASSUME NEW o \in Blobs, UploadBlob(o) PROVE Repos!Next
  BY <1>2, <1>7 DEF UploadBlob
<1>8. CASE UNCHANGED vars
  BY <1>1, <1>8 DEF vars, db
<1> QED BY <1>3, <1>4, <1>5, <1>6, <1>7, <1>8 DEF Next

\* However requests, lookups, deletions and transactions interleave, the Hub
\* behaves as if each name had a repository that is created, extended by one
\* commit or deleted in a single step: CommitService::commit, create_repo and
\* delete_repo are atomic to every client.
THEOREM ReposAreAtomic == Spec => ReposAtomic
<1>1. Init => Repos!Init
  <2> SUFFICES ASSUME Init PROVE Repos!Init
    OBVIOUS
  <2>1. Visible = [n \in Names |-> None]
    BY DEF Init, Visible
  <2>2. 1..lastCommit = {} /\ blobs = {}
    BY DEF Init
  <2> QED BY <2>1, <2>2 DEF Repos!Init
<1>2. Init => NamesInv
  BY DEF Init, NamesInv, IdsSound, Sent, CommitPcs, TxPcs
<1> QED BY <1>1, <1>2, NamesNext, ReposStep, Invariance, PTL DEF Spec, ReposAtomic, Repos!Spec
=============================================================================
