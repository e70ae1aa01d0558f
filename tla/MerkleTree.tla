----------------------------- MODULE MerkleTree -----------------------------
(***************************************************************************)
(* Hashes, and the Merkle tree over the chunks of a xorb or of a file:     *)
(* src/src/hash/merkle_tree.rs.  A hash is the tagged value that was       *)
(* hashed, so that two hashes are equal exactly when their inputs are; the *)
(* tags stand for the hash functions and the keys of the keyed ones.       *)
(***************************************************************************)
EXTENDS Integers, Sequences

CONSTANTS
  MaxGroup,       \* MAX_GROUP_SIZE
  NaturalCut(_)   \* is_natural_cut: does a hash end a group

ASSUME MerkleAssumption == MaxGroup \in Nat /\ MaxGroup >= 2

\* MIN_GROUP_SIZE
MinGroup == 2

\* compute_data_hash of raw bytes, and the SHA-256 and the BLAKE3 of a whole
\* file, which has the key of compute_data_hash: a file of one chunk has the
\* chunk's hash.
DataHash(bytes) == <<"data", bytes>>
Sha256(bytes) == <<"sha256", bytes>>
Blake3(bytes) == DataHash(bytes)

\* MerkleHash::default, the hash of an empty list.
DefaultHash == <<"default">>

\* The sum of a sequence of numbers.
SumSeq(s) ==
  LET sum[i \in 0..Len(s)] == IF i = 0 THEN 0 ELSE sum[i - 1] + s[i]
  IN  sum[Len(s)]

\* next_merge_cut: how many of the nodes from read_idx on form the next
\* group.
NextMergeCut(nodes, read_idx) ==
  LET left == Len(nodes) - read_idx
      end == IF left < MaxGroup THEN left ELSE MaxGroup
      cuts == {i \in (MinGroup + 1)..end : NaturalCut(nodes[read_idx + i][1])}
  IN  IF left <= MinGroup THEN left
      ELSE IF cuts = {} THEN end
      ELSE CHOOSE i \in cuts : \A j \in cuts : i <= j

\* merged_hash_of_sequence: the hash of the group's hashes and sizes.
MergedHash(group) ==
  <<<<"node", group>>, SumSeq([i \in 1..Len(group) |-> group[i][2]])>>

\* One round of aggregated_node_hash.
MergeRound(nodes) ==
  LET from[read_idx \in 0..Len(nodes)] ==
        IF read_idx = Len(nodes) THEN << >>
        ELSE LET cut == read_idx + NextMergeCut(nodes, read_idx)
             IN  <<MergedHash(SubSeq(nodes, read_idx + 1, cut))>> \o from[cut]
  IN  from[0]

\* aggregated_node_hash: a round leaves fewer nodes, so as many rounds as
\* there are nodes are enough; one that finds a single node changes nothing.
AggregatedNodeHash(nodes) ==
  LET round[n \in 0..Len(nodes)] ==
        IF n = 0 THEN nodes
        ELSE IF Len(round[n - 1]) > 1 THEN MergeRound(round[n - 1]) ELSE round[n - 1]
  IN  IF nodes = << >> THEN DefaultHash ELSE round[Len(nodes)][1][1]

XorbHash(nodes) == AggregatedNodeHash(nodes)

\* file_hash: the root is hashed once more, with a salt.
FileHash(nodes) ==
  IF nodes = << >> THEN DefaultHash ELSE <<"file", AggregatedNodeHash(nodes)>>
=============================================================================
