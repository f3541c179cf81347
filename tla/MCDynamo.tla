------------------------------ MODULE MCDynamo ------------------------------
(* Instances of DynamoChain for TLC. *)
EXTENDS DynamoChain, TLC

CONSTANTS
  Folders,     \* ids of a root folder
  Nigoris,     \* ids of the root folder a new client looks for
  DirectiveTag, FolderTag

MCIds == HistoryIds \cup DirectiveIds \cup Folders \cup Nigoris

MCTagOf ==
  [i \in MCIds |-> CASE i \in DirectiveIds -> DirectiveTag
                     [] i \in Folders -> FolderTag
                     [] i \in Nigoris -> NigoriTag
                     [] OTHER -> NoTag]

Symmetry ==
  Permutations(Writers) \cup Permutations(HistoryIds) \cup Permutations(DirectiveIds)
    \cup Permutations(Folders) \cup Permutations(Nigoris)
=============================================================================
