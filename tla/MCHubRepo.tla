----------------------------- MODULE MCHubRepo -----------------------------
(***************************************************************************)
(* Operation lists that interact: they write the same paths, delete what   *)
(* the parent has or lacks, and write a path twice in one commit.          *)
(***************************************************************************)
EXTENDS HubRepo, TLC

CONSTANTS a, b, dir

File(p, o) == [type |-> "file", path |-> p, oid |-> o]
Lfs(p, o)  == [type |-> "lfs", path |-> p, oid |-> o]
Delete(p)  == [type |-> "delete", path |-> p]

\* Paths 1 and 2 are in a directory, 3 is not.
Directories == <<dir, dir, None>>

CommitLists == {<<File(1, a), Lfs(2, b), File(3, a)>>, <<Delete(1), Lfs(1, b)>>, <<Delete(2)>>, <<>>}

Symmetric == Permutations(Reqs)
=============================================================================
