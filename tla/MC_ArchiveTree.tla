--------------------------- MODULE MC_ArchiveTree ---------------------------
EXTENDS ArchiveTree, TLC

AtMostOne == {keys \in SUBSET Keys : Cardinality(keys) <= 1}

Alike == Permutations(Dirs) \cup Permutations(Keys) \cup Permutations(Requests)
=============================================================================
