---------------------------- MODULE MCTextIngest ----------------------------
(* Instances of TextIngest for TLC.                                           *)
EXTENDS TextIngest
CONSTANTS t1, t2, t3

\* t3 repeats the wording of t1 in the same conversation: the companion gives it the
\* same id (key and hash of the words), SMSGate another.
MCId == [s \in Source |-> [t \in Texts |-> IF s = "phone" /\ t = t3 THEN <<s, t1>> ELSE <<s, t>>]]

\* Both sources name the sender of t1 and t3 alike; SMSGate gives the number of t2's
\* sender, who is no contact, where the notification has a label.
MCPrint == [s \in Source |-> [t \in Texts |-> IF t = t2 THEN <<s, t>> ELSE <<"both", t1>>]]
=============================================================================
