---------------------------- MODULE AtomicRepos ----------------------------
(***************************************************************************)
(* What the Hub promises of its repositories: each name is an object with  *)
(* a head and a history, and creating, deleting and committing are single  *)
(* steps on it.  There are no repository ids, no tables, no requests that  *)
(* looked something up earlier and no transactions; HubRepo implements it. *)
(***************************************************************************)
EXTENDS Naturals, Sequences

CONSTANTS Names, Paths, Blobs, Commits, Changes, None

VARIABLES
  repos,   \* None, or the head and the commits that a name has
  used,    \* the ids of all commits ever made
  stored   \* contents

vars == <<repos, used, stored>>

Init == repos = [n \in Names |-> None] /\ used = {} /\ stored = {}

Store(o) == stored' = stored \cup {o} /\ UNCHANGED <<repos, used>>

Create(n) ==
  /\ repos[n] = None
  /\ repos' = [repos EXCEPT ![n] = [head |-> None, commits |-> [c \in {} |-> None]]]
  /\ UNCHANGED <<used, stored>>

Delete(n) ==
  /\ repos[n] # None
  /\ repos' = [repos EXCEPT ![n] = None]
  /\ UNCHANGED <<used, stored>>

\* The files after the changes, made one after the other: on each path the last
\* one counts.
Changed(old, changes, new) ==
  \A p \in Paths :
    \/ /\ \A i \in 1..Len(changes) : changes[i].path # p
       /\ new[p] = old[p]
    \/ \E i \in 1..Len(changes) :
         /\ changes[i].path = p
         /\ \A j \in (i + 1)..Len(changes) : changes[j].path # p
         /\ new[p] = IF changes[i].type = "delete" THEN None ELSE changes[i].oid

\* The files of the head, or none.
HeadFiles(repo) ==
  IF repo.head = None THEN [p \in Paths |-> None] ELSE repo.commits[repo.head].files

\* The repository with one commit more.
Extended(repo, c, files) ==
  [head    |-> c,
   commits |-> [d \in DOMAIN repo.commits \cup {c} |->
                  IF d = c THEN [parent |-> repo.head, files |-> files]
                           ELSE repo.commits[d]]]

\* A commit extends the head with a new id; all its contents are stored.
Commit(n, c) ==
  /\ repos[n] # None
  /\ c \notin used
  /\ used' = used \cup {c}
  /\ UNCHANGED stored
  /\ \E changes \in Changes, files \in [Paths -> Blobs \cup {None}] :
       /\ \A i \in 1..Len(changes) :
            changes[i].type # "delete" => changes[i].oid \in stored
       /\ Changed(HeadFiles(repos[n]), changes, files)
       /\ repos' = [repos EXCEPT ![n] = Extended(@, c, files)]

Next ==
  \/ \E o \in Blobs : Store(o)
  \/ \E n \in Names :
       Create(n) \/ Delete(n) \/ \E c \in Commits : Commit(n, c)

Spec == Init /\ [][Next]_vars
=============================================================================
