----------------------------- MODULE RemoteCall -----------------------------
(* What a call to the house through somebody else's machine may promise: the  *)
(* house acts on it once at most; "away" means that it never will; an answer  *)
(* means that it has.  A caller told neither cannot know.                     *)
EXTENDS Naturals

CONSTANT Calls

VARIABLES
  outcome,  \* what the caller knows: "open", "away", "answered", "unsure"
  ran       \* how often the house has acted on the call

Init ==
  /\ outcome = [c \in Calls |-> "open"]
  /\ ran = [c \in Calls |-> 0]

Run(c) ==
  /\ outcome[c] # "away" /\ ran[c] = 0
  /\ ran' = [ran EXCEPT ![c] = 1]
  /\ UNCHANGED outcome

Settle(c, o) ==
  /\ outcome[c] = "open"
  /\ o = "away" => ran[c] = 0
  /\ o = "answered" => ran[c] = 1
  /\ outcome' = [outcome EXCEPT ![c] = o]
  /\ UNCHANGED ran

\* The wires everybody shares may break: any number of callers are left unsure.
Break ==
  /\ \E S \in SUBSET {c \in Calls : outcome[c] = "open"} :
       outcome' = [c \in Calls |-> IF c \in S THEN "unsure" ELSE outcome[c]]
  /\ UNCHANGED ran

Next ==
  \/ \E c \in Calls : Run(c) \/ \E o \in {"away", "answered", "unsure"} : Settle(c, o)
  \/ Break

Spec == Init /\ [][Next]_<<outcome, ran>>
=============================================================================
