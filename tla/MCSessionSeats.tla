--------------------------- MODULE MCSessionSeats ---------------------------
EXTENDS SessionSeats, TLC

\* The cores are interchangeable, and so are the windows.
Symmetry == Permutations(Core) \cup Permutations(Glass)
=============================================================================
