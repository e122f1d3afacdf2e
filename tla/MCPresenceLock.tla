--------------------------- MODULE MCPresenceLock ---------------------------
EXTENDS PresenceLock, TLC

\* Processes and lock files are interchangeable.
Symmetry == Permutations(Proc) \cup Permutations(Inode)
=============================================================================
