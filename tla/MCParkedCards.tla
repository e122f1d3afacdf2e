--------------------------- MODULE MCParkedCards ---------------------------
(* Instances of ParkedCards for TLC.                                          *)
EXTENDS ParkedCards, TLC
CONSTANTS c1, c2, c3

Alike == Permutations(Card)
=============================================================================
