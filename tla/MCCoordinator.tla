--------------------------- MODULE MCCoordinator ---------------------------
\* Coordinator for TLC: instances of two services at most, one or two backup
\* requests, and the faults each configuration allows.
EXTENDS Coordinator, TLC

Symmetry == Permutations(Services) \union Permutations(Backups)
=============================================================================
