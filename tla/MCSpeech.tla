------------------------------ MODULE MCSpeech ------------------------------
(* Instances of Speech for TLC.                                               *)
EXTENDS Speech

\* A first reply of two sentences or a short one, so that a draft may restate
\* the one it replaces, lose its end, or say something else; then a reply that
\* repeats its first sentence or has none.
Replies == [n \in 1 .. MaxTurns |-> IF n = 1 THEN {<<"a", "b">>, <<"c">>} ELSE {<<"a">>, <<>>}]
=============================================================================
