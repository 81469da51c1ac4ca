------------------------- MODULE MCStorageBackends --------------------------
EXTENDS StorageBackends

Sym == Permutations(Accounts) \cup Permutations(Externals)
=============================================================================
