---------------------------- MODULE SerialTurns ----------------------------
(* What the orchestrator promises whoever speaks to it, whatever cards, Stops *)
(* and continuations come between: one turn has the floor at a time; an input *)
(* is told its end once, and nothing after it; it is begun again with more    *)
(* words only if it was told nothing; and what has left never comes back.     *)
EXTENDS Naturals

CONSTANT Input

VARIABLES
  stage,  \* "unsent", "waiting", "running", "ended", "restarted", "folded"
  told    \* how many ends each input was told

Init ==
  /\ stage = [i \in Input |-> "unsent"]
  /\ told = [i \in Input |-> 0]

Become(i, from, to) == stage[i] = from /\ stage' = [stage EXCEPT ![i] = to]
TellEnd(i) == told' = [told EXCEPT ![i] = 1]

Send(i) == Become(i, "unsent", "waiting") /\ UNCHANGED told

\* The words of a continuation go to the card that is open.
Fold(i) == Become(i, "waiting", "folded") /\ UNCHANGED told

\* A file it names was refused before its turn came.
Refuse(i) == Become(i, "waiting", "ended") /\ told[i] = 0 /\ TellEnd(i)

Start(i) ==
  /\ \A j \in Input : stage[j] # "running"
  /\ Become(i, "waiting", "running") /\ UNCHANGED told

Tell(i) == stage[i] = "running" /\ told[i] = 0 /\ TellEnd(i) /\ UNCHANGED stage

\* Whoever was told nothing by now is told with the end of the turn.
End(i) == Become(i, "running", "ended") /\ TellEnd(i)

Restart(i) == Become(i, "running", "restarted") /\ told[i] = 0 /\ UNCHANGED told

Next ==
  \E i \in Input :
    Send(i) \/ Fold(i) \/ Refuse(i) \/ Start(i) \/ Tell(i) \/ End(i) \/ Restart(i)

Spec == Init /\ [][Next]_<<stage, told>>
=============================================================================
