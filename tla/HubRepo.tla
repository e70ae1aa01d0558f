------------------------------ MODULE HubRepo ------------------------------
(***************************************************************************)
(* The Hub's repositories: the SQLite tables repos, heads, revisions and   *)
(* file_tree, the commit, create, delete and listing services over them,   *)
(* and the blobs that commits put into the CAS or look up there.  An       *)
(* action is one query, one call of the CAS or one step of the commit      *)
(* transaction; SQLite lets one transaction write at a time (txOwner) and  *)
(* shows readers committed rows only.                                      *)
(***************************************************************************)
EXTENDS Naturals, Sequences, FiniteSets, FiniteSetsExt, Bags

CONSTANTS
  Names,       \* (namespace, name, repo_type)
  PathCount,   \* paths are 1..PathCount, in the order of their names
  DirOf,       \* the top directory of each path, or None
  Blobs,       \* contents, by oid
  Reqs,        \* slots for HTTP requests being handled at the same time
  Changes,     \* the operation lists that clients send
  PageSize,    \* TREE_PAGE_SIZE
  MaxRepos,    \* bound: repository ids handed out
  MaxCommits,  \* bound: commits made
  None

Paths   == 1..PathCount
RepoIds == 1..MaxRepos
Commits == 1..MaxCommits

\* "file" is an inline file, "lfs" a pointer to an uploaded blob.
Operations == [type : {"file", "lfs"}, path : Paths, oid : Blobs]
              \cup [type : {"delete"}, path : Paths]

ASSUME HubAssumption ==
  /\ PathCount \in Nat /\ MaxRepos \in Nat /\ MaxCommits \in Nat
  /\ PageSize \in Nat \ {0}
  /\ Changes \subseteq Seq(Operations)
  /\ DOMAIN DirOf = Paths
  /\ \A p, q \in Paths :                  \* paths sort by their bytes
       DirOf[p] # None /\ DirOf[p] = DirOf[q] => \A o \in p..q : DirOf[o] = DirOf[p]
  /\ None \notin Blobs \cup Nat \cup Names \cup Reqs
  /\ None \notin [repo : RepoIds, parent : Commits \cup {None}]
  /\ \A S \in SUBSET Commits :
       None \notin [head : Commits \cup {None},
                   commits : [S -> [parent : Commits \cup {None},
                                    files : [Paths -> Blobs \cup {None}]]]]

VARIABLES
  \* The database.
  lastRepo,    \* AUTOINCREMENT of repos.id
  named,       \* repos: the id that each name has
  heads,       \* heads: repository -> commit
  rev,         \* revisions: commit -> repository and parent
  tree,        \* file_tree: commit -> path -> cas_hash
  lastCommit,  \* commits made so far: commit ids are fresh
  txOwner,     \* the request inside BEGIN IMMEDIATE ... COMMIT
  \* The CAS.
  blobs,       \* oids stored there
  \* The requests.
  pc,
  repo,        \* the id that get_repo returned
  parent,      \* parentRevision of the commit, commit of a listing
  ops,         \* commit: operations not processed yet
  done,        \* commit: processed operations
  recursive,   \* listing: whether files below directories are listed
  listed,      \* listing: entries seen so far, as a bag
  cursor,      \* listing: last path seen
  \* History.
  applied,     \* the operations of each commit
  snapshot     \* listing: the rows of its commit when the listing began

db       == <<lastRepo, named, heads, rev, tree, lastCommit>>
local    == <<repo, parent, ops, done, recursive, listed, cursor>>
vars     == <<lastRepo, named, heads, rev, tree, lastCommit, txOwner, blobs, pc,
              repo, parent, ops, done, recursive, listed, cursor, applied, snapshot>>

EmptyTree == [p \in Paths |-> None]
Rows(t)   == {<<p, t[p]>> : p \in {q \in Paths : t[q] # None}}
Entries   == (Paths \X Blobs) \cup ({DirOf[p] : p \in Paths} \X {None})
Exists(i) == \E n \in Names : named[n] = i

TxPcs == {"txCheck", "txCommit"}
Pcs   == {"idle", "cmHead", "cmOps", "cmBegin", "delete", "lsRev", "lsPage",
          "lsNext", "lsDone"} \cup TxPcs

\* What the variables may hold.
TypeOK ==
  /\ lastRepo \in 0..MaxRepos /\ lastCommit \in 0..MaxCommits
  /\ named \in [Names -> RepoIds \cup {None}]
  /\ heads \in [RepoIds -> Commits \cup {None}]
  /\ rev \in [Commits -> [repo : RepoIds, parent : Commits \cup {None}] \cup {None}]
  /\ tree \in [Commits -> [Paths -> Blobs \cup {None}]]
  /\ txOwner \in Reqs \cup {None}
  /\ blobs \in SUBSET Blobs
  /\ pc \in [Reqs -> Pcs]
  /\ repo \in [Reqs -> RepoIds \cup {None}]
  /\ parent \in [Reqs -> Commits \cup {None}]
  /\ ops \in [Reqs -> Seq(Operations)] /\ done \in [Reqs -> Seq(Operations)]
  /\ recursive \in [Reqs -> BOOLEAN]
  /\ DOMAIN listed = Reqs
  /\ \A r \in Reqs : IsABag(listed[r]) /\ BagToSet(listed[r]) \subseteq Entries
  /\ cursor \in [Reqs -> 0..PathCount]
  /\ applied \in [Commits -> Seq(Operations)]
  /\ snapshot \in [Reqs -> SUBSET (Paths \X Blobs)]

Init ==
  /\ lastRepo = 0 /\ lastCommit = 0
  /\ named = [n \in Names |-> None]
  /\ heads = [i \in RepoIds |-> None]
  /\ rev = [c \in Commits |-> None]
  /\ tree = [c \in Commits |-> EmptyTree]
  /\ txOwner = None
  /\ blobs = {}
  /\ pc = [r \in Reqs |-> "idle"]
  /\ repo = [r \in Reqs |-> None] /\ parent = [r \in Reqs |-> None]
  /\ ops = [r \in Reqs |-> <<>>] /\ done = [r \in Reqs |-> <<>>]
  /\ recursive = [r \in Reqs |-> FALSE]
  /\ listed = [r \in Reqs |-> EmptyBag] /\ cursor = [r \in Reqs |-> 0]
  /\ applied = [c \in Commits |-> <<>>]
  /\ snapshot = [r \in Reqs |-> {}]

Goto(r, next) == pc' = [pc EXCEPT ![r] = next]

\* The handler answers and its locals are gone.
Respond(r) ==
  /\ Goto(r, "idle")
  /\ repo' = [repo EXCEPT ![r] = None]
  /\ parent' = [parent EXCEPT ![r] = None]
  /\ ops' = [ops EXCEPT ![r] = <<>>]
  /\ done' = [done EXCEPT ![r] = <<>>]
  /\ recursive' = [recursive EXCEPT ![r] = FALSE]
  /\ listed' = [listed EXCEPT ![r] = EmptyBag]
  /\ cursor' = [cursor EXCEPT ![r] = 0]
  /\ snapshot' = [snapshot EXCEPT ![r] = {}]

-----------------------------------------------------------------------------
(* Repositories *)

\* A client stores a blob through the LFS proxy or the CAS itself.
UploadBlob(o) ==
  /\ blobs' = blobs \cup {o}
  /\ UNCHANGED <<db, txOwner, pc, local, applied, snapshot>>

\* create_repo is one INSERT; it needs the write lock and a free name.
CreateRepo(n) ==
  /\ txOwner = None
  /\ named[n] = None
  /\ lastRepo < MaxRepos
  /\ lastRepo' = lastRepo + 1
  /\ named' = [named EXCEPT ![n] = lastRepo + 1]
  /\ UNCHANGED <<heads, rev, tree, lastCommit, txOwner, blobs, pc, local,
                 applied, snapshot>>

DeleteBegin(r, n) ==
  /\ pc[r] = "idle"
  /\ named[n] # None
  /\ repo' = [repo EXCEPT ![r] = named[n]]
  /\ Goto(r, "delete")
  /\ UNCHANGED <<db, txOwner, blobs, parent, ops, done, recursive, listed, cursor,
                 applied, snapshot>>

\* delete_repo: the rows of four tables in one transaction.  Another request
\* may have deleted the repository since it was looked up: nothing changes then.
DeleteRepo(r) ==
  /\ pc[r] = "delete"
  /\ txOwner = None
  /\ LET gone == {c \in Commits : rev[c] # None /\ rev[c].repo = repo[r]}
     IN  /\ tree' = [c \in Commits |-> IF c \in gone THEN EmptyTree ELSE tree[c]]
         /\ rev' = [c \in Commits |-> IF c \in gone THEN None ELSE rev[c]]
  /\ heads' = [heads EXCEPT ![repo[r]] = None]
  /\ named' = [n \in Names |-> IF named[n] = repo[r] THEN None ELSE named[n]]
  /\ Respond(r)
  /\ UNCHANGED <<lastRepo, lastCommit, txOwner, blobs, applied>>

-----------------------------------------------------------------------------
(* CommitService::commit *)

CommitBegin(r, n, base, changes) ==
  /\ pc[r] = "idle"
  /\ named[n] # None
  /\ repo' = [repo EXCEPT ![r] = named[n]]
  /\ parent' = [parent EXCEPT ![r] = base]
  /\ ops' = [ops EXCEPT ![r] = changes]
  /\ Goto(r, "cmHead")
  /\ UNCHANGED <<db, txOwner, blobs, done, recursive, listed, cursor, applied, snapshot>>

\* get_head and ensure_parent_matches_head: the early check.
CommitHead(r) ==
  /\ pc[r] = "cmHead"
  /\ \/ /\ heads[repo[r]] = parent[r]
        /\ Goto(r, IF ops[r] = <<>> THEN "cmBegin" ELSE "cmOps")
        /\ UNCHANGED <<local, snapshot>>
     \/ /\ heads[repo[r]] # parent[r]
        /\ Respond(r)                     \* 409
  /\ UNCHANGED <<db, txOwner, blobs, applied>>

\* The operation is done; the next one, or the transaction, follows.
Processed(r) ==
  /\ done' = [done EXCEPT ![r] = Append(@, Head(ops[r]))]
  /\ ops' = [ops EXCEPT ![r] = Tail(@)]
  /\ Goto(r, IF Tail(ops[r]) = <<>> THEN "cmBegin" ELSE "cmOps")
  /\ UNCHANGED <<repo, parent, recursive, listed, cursor, snapshot>>

\* process_inline_file: the content is in the CAS before the entry is made.
InlineFile(r) ==
  /\ pc[r] = "cmOps" /\ Head(ops[r]).type = "file"
  /\ blobs' = blobs \cup {Head(ops[r]).oid}
  /\ Processed(r)
  /\ UNCHANGED <<db, txOwner, applied>>

\* process_lfs_file: the CAS must know the blob (head_blob).
LfsFile(r) ==
  /\ pc[r] = "cmOps" /\ Head(ops[r]).type = "lfs"
  /\ \/ Head(ops[r]).oid \in blobs /\ Processed(r)
     \/ Head(ops[r]).oid \notin blobs /\ Respond(r)    \* 422
  /\ UNCHANGED <<db, txOwner, blobs, applied>>

DeletedEntry(r) ==
  /\ pc[r] = "cmOps" /\ Head(ops[r]).type = "delete"
  /\ Processed(r)
  /\ UNCHANGED <<db, txOwner, blobs, applied>>

\* BEGIN IMMEDIATE
TxBegin(r) ==
  /\ pc[r] = "cmBegin"
  /\ txOwner = None
  /\ txOwner' = r
  /\ Goto(r, "txCheck")
  /\ UNCHANGED <<db, blobs, local, applied, snapshot>>

\* Mutant: the early check is taken for the authoritative one.
TxCheckNothing(r) ==
  /\ pc[r] = "txCheck"
  /\ Exists(repo[r])
  /\ Goto(r, "txCommit")
  /\ UNCHANGED <<db, txOwner, blobs, local, applied, snapshot>>

\* The authoritative check of HEAD, and the INSERT of the revision, which the
\* foreign key on repos refuses when the repository is gone.
TxCheck(r) ==
  /\ pc[r] = "txCheck"
  /\ \/ /\ heads[repo[r]] = parent[r] /\ Exists(repo[r])
        /\ Goto(r, "txCommit")
        /\ UNCHANGED <<txOwner, local, snapshot>>
     \/ /\ heads[repo[r]] # parent[r] \/ ~Exists(repo[r])
        /\ txOwner' = None                \* ROLLBACK
        /\ Respond(r)                     \* 409 or 500
  /\ UNCHANGED <<db, blobs, applied>>

\* INSERT OR REPLACE and DELETE, in the order of the request: the last
\* operation on a path decides.
Apply(t, changes) ==
  [p \in Paths |->
     LET on == {i \in DOMAIN changes : changes[i].path = p}
         op == changes[Max(on)]
     IN  IF on = {} THEN t[p] ELSE IF op.type = "delete" THEN None ELSE op.oid]

\* Mutant: the commit starts from nothing instead of its parent's snapshot.
BaseIsEmpty(base) == EmptyTree

\* The copy of the parent's rows.
BaseTree(base) == IF base = None THEN EmptyTree ELSE tree[base]

\* Mutant: the changes go to the rows of the parent as well.
TxCommitInPlace(r) ==
  /\ pc[r] = "txCommit"
  /\ lastCommit < MaxCommits
  /\ LET c   == lastCommit + 1
         new == Apply(BaseTree(parent[r]), done[r])
     IN  /\ rev' = [rev EXCEPT ![c] = [repo |-> repo[r], parent |-> parent[r]]]
         /\ tree' = [d \in Commits |-> IF d \in {c, parent[r]} THEN new ELSE tree[d]]
         /\ heads' = [heads EXCEPT ![repo[r]] = c]
         /\ lastCommit' = c
         /\ applied' = [applied EXCEPT ![c] = done[r]]
  /\ txOwner' = None
  /\ Respond(r)
  /\ UNCHANGED <<lastRepo, named, blobs>>

\* Snapshot copy, changes and heads, all visible at COMMIT.
TxCommit(r) ==
  /\ pc[r] = "txCommit"
  /\ lastCommit < MaxCommits
  /\ LET c == lastCommit + 1
     IN  /\ rev' = [rev EXCEPT ![c] = [repo |-> repo[r], parent |-> parent[r]]]
         /\ tree' = [tree EXCEPT ![c] = Apply(BaseTree(parent[r]), done[r])]
         /\ heads' = [heads EXCEPT ![repo[r]] = c]
         /\ lastCommit' = c
         /\ applied' = [applied EXCEPT ![c] = done[r]]
  /\ txOwner' = None
  /\ Respond(r)                           \* 200, if the client is still there
  /\ UNCHANGED <<lastRepo, named, blobs>>

-----------------------------------------------------------------------------
(* TreeService::list_tree, and a client that follows the next links *)

ListBegin(r, n, deep) ==
  /\ pc[r] = "idle"
  /\ named[n] # None
  /\ repo' = [repo EXCEPT ![r] = named[n]]
  /\ recursive' = [recursive EXCEPT ![r] = deep]
  /\ Goto(r, "lsRev")
  /\ UNCHANGED <<db, txOwner, blobs, parent, ops, done, listed, cursor, applied,
                 snapshot>>

\* get_revision finds the row.
IsRevision(i, c) == rev[c] # None /\ rev[c].repo = i

\* Mutant: every page resolves "main" again.
ListRevisionMain(r) ==
  /\ pc[r] = "lsRev"
  /\ heads[repo[r]] # None
  /\ parent' = [parent EXCEPT ![r] = heads[repo[r]]]
  /\ snapshot' = IF cursor[r] = 0
                 THEN [snapshot EXCEPT ![r] = Rows(tree[heads[repo[r]]])]
                 ELSE snapshot
  /\ Goto(r, "lsPage")
  /\ UNCHANGED <<db, txOwner, blobs, repo, ops, done, recursive, listed, cursor, applied>>

\* resolve_revision_id: "main" on the first page, the commit that the next
\* link names on the others.
ListRevision(r) ==
  /\ pc[r] = "lsRev"
  /\ \/ /\ parent[r] = None /\ heads[repo[r]] # None
        /\ parent' = [parent EXCEPT ![r] = heads[repo[r]]]
        /\ snapshot' = [snapshot EXCEPT ![r] = Rows(tree[heads[repo[r]]])]
        /\ Goto(r, "lsPage")
        /\ UNCHANGED <<repo, ops, done, recursive, listed, cursor>>
     \/ /\ parent[r] # None
        /\ IsRevision(repo[r], parent[r])
        /\ Goto(r, "lsPage")
        /\ UNCHANGED <<local, snapshot>>
     \/ /\ IF parent[r] = None THEN heads[repo[r]] = None
           ELSE ~IsRevision(repo[r], parent[r])
        /\ Respond(r)                     \* 404
  /\ UNCHANGED <<db, txOwner, blobs, applied>>

\* ORDER BY path LIMIT: the first PageSize of the rows.
PageOf(rows) == {row \in rows : Cardinality({q \in rows : q[1] < row[1]}) < PageSize}

recursive_entries(rows) == SetToBag(rows)

\* The rows go by in the order of their paths.  A row below a directory is
\* passed over when the last directory met, in this page or at its start, is
\* the same one.
non_recursive_entries(rows, after) ==
  LET Met(p)     == {q \in {row[1] : row \in rows} : q < p /\ DirOf[q] # None}
                    \cup ({after} \ {0})
      Opens(p)   == Met(p) = {} \/ DirOf[Max(Met(p))] # DirOf[p]
      shown      == {row \in rows : DirOf[row[1]] = None \/ Opens(row[1])}
      Entry(row) == IF DirOf[row[1]] = None THEN row ELSE <<DirOf[row[1]], None>>
  IN  [e \in {Entry(row) : row \in shown} |-> Cardinality({row \in shown : Entry(row) = e})]

\* get_file_tree_prefix_page: one row more than the page is fetched to see
\* whether a next link is needed; it continues after the page's last path.
ListPage(r) ==
  /\ pc[r] = "lsPage"
  /\ LET rest == {row \in Rows(tree[parent[r]]) : row[1] > cursor[r]}
         page == PageOf(rest)
     IN  /\ listed' = [listed EXCEPT ![r] = @ (+)
                         IF recursive[r] THEN recursive_entries(page)
                                         ELSE non_recursive_entries(page, cursor[r])]
         /\ \/ /\ page = rest
               /\ Goto(r, "lsDone")
               /\ UNCHANGED cursor
            \/ /\ page # rest
               /\ cursor' = [cursor EXCEPT ![r] = Max({row[1] : row \in page})]
               /\ Goto(r, "lsNext")
  /\ UNCHANGED <<db, txOwner, blobs, repo, parent, ops, done, recursive, applied, snapshot>>

\* The client follows the link: a new request, which looks the name up again.
ListNext(r, n) ==
  /\ pc[r] = "lsNext"
  /\ named[n] # None
  /\ repo' = [repo EXCEPT ![r] = named[n]]
  /\ Goto(r, "lsRev")
  /\ UNCHANGED <<db, txOwner, blobs, parent, ops, done, recursive, listed, cursor,
                 applied, snapshot>>

\* A request ends early: the client is gone, a query or a call of the CAS
\* failed, the process stopped.  An open transaction is rolled back.
Cancel(r) ==
  /\ pc[r] # "idle"
  /\ txOwner' = IF txOwner = r THEN None ELSE txOwner
  /\ Respond(r)
  /\ UNCHANGED <<db, blobs, applied>>

-----------------------------------------------------------------------------
Commit(r) ==
  \/ \E n \in Names, base \in Commits \cup {None}, changes \in Changes :
       CommitBegin(r, n, base, changes)
  \/ CommitHead(r) \/ InlineFile(r) \/ LfsFile(r) \/ DeletedEntry(r)
  \/ TxBegin(r) \/ TxCheck(r) \/ TxCommit(r)

List(r) ==
  \/ \E n \in Names : ListNext(r, n) \/ \E deep \in BOOLEAN : ListBegin(r, n, deep)
  \/ ListRevision(r) \/ ListPage(r)

Next ==
  \/ \E o \in Blobs : UploadBlob(o)
  \/ \E n \in Names : CreateRepo(n)
  \/ \E r \in Reqs :
       \/ \E n \in Names : DeleteBegin(r, n)
       \/ DeleteRepo(r) \/ Commit(r) \/ List(r) \/ Cancel(r)

Spec == Init /\ [][Next]_vars

-----------------------------------------------------------------------------
(* Properties *)

RevisionsOf(i) == {c \in Commits : rev[c] # None /\ rev[c].repo = i}

\* The commits of a repository form one line that ends in its head: whatever
\* commits race, none forks the history or overwrites another one.  The check
\* of HEAD inside the transaction is what this rests on.
LinearHistory ==
  \A i \in RepoIds :
    /\ \A c, d \in RevisionsOf(i) : rev[c].parent = rev[d].parent => c = d
    /\ {rev[c].parent : c \in RevisionsOf(i)} \ {None} = RevisionsOf(i) \ {heads[i]}
    /\ heads[i] # None => heads[i] \in RevisionsOf(i)

\* Every snapshot is its parent's snapshot with the commit's operations applied
\* in order: the parent that the rows are copied from inside the transaction is
\* the one the client saw.
SnapshotIsDelta ==
  \A c \in Commits : rev[c] # None =>
    tree[c] = Apply(IF rev[c].parent = None THEN EmptyTree ELSE tree[rev[c].parent],
                    applied[c])

\* Every file of every snapshot has its content in the CAS: inline content is
\* uploaded, and pointers are looked up, before the commit becomes visible.
TreesAreStored ==
  \A c \in Commits, p \in Paths : tree[c][p] # None => tree[c][p] \in blobs

\* No row outlives its repository, even when the repository is deleted, and its
\* name taken again, between a commit's lookup and its transaction.
NoOrphans ==
  /\ \A c \in Commits : IF rev[c] = None THEN tree[c] = EmptyTree
                                         ELSE Exists(rev[c].repo)
  /\ \A i \in RepoIds : heads[i] # None => Exists(i)

\* Racing commits and deletions leave one line of commits per repository, and
\* nothing of a repository that is gone.
HistorySound == TypeOK /\ LinearHistory /\ NoOrphans

\* Every snapshot is what its commit says, and can be downloaded.
SnapshotsSound == SnapshotIsDelta /\ TreesAreStored

\* A client that follows the next links sees the rows of one commit, each of
\* them once and in the other listing each directory once, whatever is committed
\* meanwhile and wherever the pages end; only deleting the repository can cut
\* the listing short.
ListingComplete ==
  \A r \in Reqs : pc[r] = "lsDone" /\ rev[parent[r]] # None =>
    listed[r] = SetToBag(IF recursive[r] THEN snapshot[r] ELSE
      {row \in snapshot[r] : DirOf[row[1]] = None}
      \cup {<<DirOf[row[1]], None>> : row \in {q \in snapshot[r] : DirOf[q[1]] # None}})

\* What a client can see under each name: the head, and every commit with its
\* parent and files.
Visible ==
  [n \in Names |->
     IF named[n] = None THEN None
     ELSE [head    |-> heads[named[n]],
           commits |-> [c \in RevisionsOf(named[n]) |->
                          [parent |-> rev[c].parent, files |-> tree[c]]]]]

Repos == INSTANCE AtomicRepos
  WITH repos <- Visible, used <- 1..lastCommit, stored <- blobs

\* The lookups, the calls of the CAS, the transaction over four tables and the
\* deletions that overtake them look like single steps on the repository that
\* has the name: a commit extends the head of that moment with exactly the
\* operations sent, and nothing else ever changes what a name shows.
ReposAtomic == Repos!Spec

\* A commit never changes: its parent and its rows stay as they were committed
\* until the whole repository is deleted.
CommitsImmutable ==
  [][\A c \in Commits : rev[c] # None =>
       \/ rev'[c] = rev[c] /\ tree'[c] = tree[c] /\ applied'[c] = applied[c]
       \/ /\ \A n \in Names : named'[n] # rev[c].repo
          /\ rev'[c] = None /\ tree'[c] = EmptyTree]_vars
=============================================================================
