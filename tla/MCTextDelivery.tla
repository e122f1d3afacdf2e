--------------------------- MODULE MCTextDelivery ---------------------------
(* Instances of TextDelivery for TLC.                                         *)
EXTENDS TextDelivery
CONSTANTS t1, t2

\* Every text has an id of its own from each source.
MCId == [s \in Source |-> [t \in Texts |-> <<s, t>>]]

\* Both sources name the sender of t1 alike; SMSGate gives the number of t2's
\* sender, who is no contact, where the notification has a label.
MCPrint == [s \in Source |-> [t \in Texts |-> IF t = t2 THEN <<s, t>> ELSE <<"both", t>>]]
=============================================================================
