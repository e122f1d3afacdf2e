------------------------------ MODULE MCTurns ------------------------------
(* Instances of Turns for TLC.                                                *)
EXTENDS Turns
CONSTANTS m1, m2, f1

\* One call for every turn; or two for m1's, and an answer at once for the
\* continuation's.
OneCall == [i \in Input |-> 1]
TwoCalls == [i \in Input |-> IF i = m1 THEN 2 ELSE 0]
=============================================================================
