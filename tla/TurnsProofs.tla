---------------------------- MODULE TurnsProofs ----------------------------
(* Proofs about Turns, for any inputs, tools and bounds.                      *)
EXTENDS Turns, TLAPS

\* A sequence stays a sequence of its elements when it is extended or consumed.
LEMMA SeqOps ==
  ASSUME NEW S, NEW s \in Seq(S)
  PROVE /\ <<>> \in Seq(S)
        /\ \A e \in S : Append(s, e) \in Seq(S)
        /\ s # <<>> => Tail(s) \in Seq(S) /\ Head(s) \in S
OBVIOUS

\* What the model proposes is a call, with whatever card it gets.
LEMMA ProposedAreCalls ==
  ASSUME NEW c \in Proposed
  PROVE  /\ c \in Call /\ c.card = 0
         /\ \A n \in Nat : [c EXCEPT !.card = n] \in Call /\ [c EXCEPT !.card = n].card = n
<1>1. c \in [kind : Kind, named : BOOLEAN, forced : BOOLEAN, card : {0}]
  BY DEF Proposed
<1>2. c.kind \in {"free", "send"} \cup DOMAIN Toggle
  BY <1>1, TurnsAssumption
<1> QED
  BY <1>1, <1>2 DEF Call

\* Every step of the program leaves every variable in its type.
LEMMA TypeStep == TypeOK /\ [Next]_vars => TypeOK'
<1> SUFFICES ASSUME TypeOK, [Next]_vars PROVE TypeOK'
  OBVIOUS
<1> USE DEF TypeOK
<1>0. ASSUME NEW i \in Input, NEW p \in Phase, Move(i, p) PROVE phase' \in [Input -> Phase]
  BY <1>0 DEF Move
<1>s. /\ \A e \in Event : Append(bus, e) \in Seq(Event)
      /\ \A r \in Row : Append(rows, r) \in Seq(Row)
      /\ \A i \in Input : Append(queue, i) \in Seq(Input) /\ Append(voice, i) \in Seq(Input)
      /\ voice # <<>> => Tail(voice) \in Seq(Input)
      /\ <<>> \in Seq(Row)
  BY SeqOps
<1>1. ASSUME NEW i \in Input, Say(i) PROVE TypeOK'
  <2>1. bus' \in Seq(Event)
    BY <1>1 DEF Say, Publish, Event
  <2>2. phase' \in [Input -> Phase]
    BY <1>0, <1>1 DEF Say, Phase
  <2> QED
    BY <1>1, <2>1, <2>2 DEF Say, lockVars, cardVars, loopVars, askVars
<1>2. ASSUME NEW card \in shown, NEW say \in Answers, AnswerCard(card, say) PROVE TypeOK'
  <2>0. say \in Decision
    BY TurnsAssumption
  <2>1. bus' \in Seq(Event)
    BY <1>2, <2>0 DEF AnswerCard, Publish, Event
  <2> QED
    BY <1>2, <2>0, <2>1, SMTT(20) DEF AnswerCard, lockVars, loopVars, askVars
<1>3. ASSUME NEW what \in Happening, Happen(what) PROVE TypeOK'
  <2>1. bus' \in Seq(Event)
    BY <1>3 DEF Happen, Publish, Event
  <2>2. left' \in [Happening -> Nat]
    BY <1>3, SMTT(20) DEF Happen
  <2>u. UNCHANGED <<phase, queue, turn, voice, waiter, asked, shown, lapsed, cancel, stopping, merging,
                    quietly, started, grant, call, calls, walk, off, carded, lastAsk, stoppedAsk, rows, terminals, said, stopped>>
    BY <1>3 DEF Happen, lockVars, cardVars, loopVars, askVars
  <2> QED
    BY <2>1, <2>2, <2>u
<1>4. ASSUME NEW type, Handle(type) PROVE bus' \in Seq(Event) /\ Head(bus) \in Event
  BY <1>4 DEF Handle
<1>5. ASSUME NEW i \in Input, OpenCard(i)
      PROVE /\ asked' \in [Input -> Nat] /\ shown' \subseteq Card /\ lapsed' \subseteq Card
            /\ waiter' \in [Input -> {"none", "open"} \cup Decision]
  <2>1. <<i, asked[i] + 1>> \in Card
    BY SMTT(20) DEF Card
  <2>2. shown' \subseteq Card /\ lapsed' \subseteq Card
    BY <1>5, <2>1 DEF OpenCard
  <2>3. asked' \in [Input -> Nat]
    BY <1>5, SMTT(20) DEF OpenCard
  <2>4. waiter' \in [Input -> {"none", "open"} \cup Decision]
    BY <1>5 DEF OpenCard
  <2> QED
    BY <2>2, <2>3, <2>4
<1>6. ASSUME NEW i \in Input, OnUser(i) \/ OnVoice(i) PROVE TypeOK'
  <2>1. bus' \in Seq(Event)
    BY <1>4, <1>6 DEF OnUser, OnVoice
  <2>2. phase' \in [Input -> Phase]
    BY <1>0, <1>6 DEF OnUser, OnVoice, Phase
  <2>3. queue' \in Seq(Input) /\ voice' \in Seq(Input)
    BY <1>6, <1>s DEF OnUser, OnVoice, lockVars
  <2>4. /\ asked' \in [Input -> Nat] /\ shown' \subseteq Card /\ lapsed' \subseteq Card
        /\ waiter' \in [Input -> {"none", "open"} \cup Decision]
    BY <1>5, <1>6 DEF OnUser, OnVoice, cardVars
  <2> QED
    BY <1>6, <2>1, <2>2, <2>3, <2>4 DEF OnUser, OnVoice, lockVars, loopVars, askVars
<1>7. ASSUME OnReply PROVE TypeOK'
  <2>1. bus' \in Seq(Event) /\ Head(bus) \in Event /\ Head(bus).type = "reply"
    BY <1>4, <1>7 DEF OnReply, Handle
  <2>2. Head(bus).card \in Card /\ Head(bus).say \in Decision
    BY <2>1 DEF Event, Happening
  <2>3. waiter' \in [Input -> {"none", "open"} \cup Decision]
    BY <1>7, <2>2 DEF OnReply, Card
  <2>4. shown' \subseteq Card
    BY <1>7 DEF OnReply
  <2>5. UNCHANGED <<phase, lockVars, voice, asked, lapsed, cancel, stopping, merging, loopVars,
                    askVars, rows, left, terminals, said, stopped>>
    BY <1>7 DEF OnReply
  <2> QED
    BY <2>1, <2>3, <2>4, <2>5, SMTT(20) DEF lockVars, loopVars, askVars
<1>8. ASSUME OnStop PROVE TypeOK'
  <2>1. bus' \in Seq(Event)
    BY <1>4, <1>8 DEF OnStop
  <2>2. stopped' \subseteq Input /\ stopping' \in BOOLEAN
    BY <1>8 DEF OnStop, TurnLive
  <2>3. waiter' \in [Input -> {"none", "open"} \cup Decision]
    BY <1>8 DEF OnStop, Decision, Consent
  <2> QED
    BY <1>8, <2>1, <2>2, <2>3 DEF OnStop, lockVars, loopVars, askVars
<1>9. ASSUME OnLoad \/ OnSync PROVE TypeOK'
  <2>1. bus' \in Seq(Event)
    BY <1>4, <1>9 DEF OnLoad, OnSync
  <2>2. Row1(Phone, "user") \in Row
    BY DEF Row1, Row
  <2>3. rows' \in Seq(Row)
    BY <1>9, <2>2, <1>s DEF OnLoad, OnSync
  <2> QED
    BY <1>9, <2>1, <2>3, SMTT(30) DEF OnLoad, OnSync, lockVars, cardVars, loopVars, askVars
<1>11. ASSUME NEW i \in Input, QueueFollow(i) \/ RestartFollow(i) PROVE TypeOK'
  <2>1. bus' \in Seq(Event)
    <3>1. [type |-> "user", who |-> i] \in Event
      BY DEF Event
    <3> QED
      BY <1>11, <1>s, <3>1 DEF QueueFollow, RestartFollow, Publish
  <2>2. phase' \in [Input -> Phase]
    BY <1>0, <1>11 DEF QueueFollow, RestartFollow, Phase
  <2>4. voice' \in Seq(Input)
    BY <1>11, <1>s DEF QueueFollow, RestartFollow
  <2> QED
    BY <1>11, <2>1, <2>2, <2>4
       DEF QueueFollow, RestartFollow, lockVars, cardVars, loopVars, askVars
<1>12. ASSUME NEW i \in Input, MergeFollow(i) PROVE TypeOK'
  <2>1. phase' \in [Input -> Phase]
    BY <1>0, <1>12 DEF MergeFollow, Phase
  <2> QED
    BY <1>12, <2>1 DEF MergeFollow, lockVars, cardVars, askVars
<1>13. ASSUME NEW i \in Input, NewTask(i)
       PROVE /\ phase' \in [Input -> Phase] /\ cancel' \in BOOLEAN
             /\ quietly' \in BOOLEAN /\ started' \in BOOLEAN
             /\ grant' \in BOOLEAN /\ call' \in Call /\ calls' \in Nat
             /\ walk' \in {"none", "owed", "done"}
             /\ off' \subseteq OffAtStart \cup {Toggle[k] : k \in Persists}
             /\ carded' \in [Input -> SUBSET Call]
             /\ lastAsk' \in Input \cup {None} /\ stoppedAsk' \in Input \cup {None}
  <2>1. phase' \in [Input -> Phase]
    BY <1>0, <1>13 DEF NewTask, Phase
  <2>2. call' \in Call
    BY <1>13 DEF NewTask, NoCall, Call
  <2> QED
    BY <1>13, <2>1, <2>2 DEF NewTask
<1>10. ASSUME NEW i \in Input, TakeLock(i) PROVE TypeOK'
  <2>1. phase' \in [Input -> Phase]
    BY <1>0, <1>10, <1>13 DEF TakeLock, Phase
  <2>2. queue' \in Seq(Input)
    BY <1>10 DEF TakeLock
  <2>3. /\ asked' \in [Input -> Nat] /\ shown' \subseteq Card /\ lapsed' \subseteq Card
        /\ waiter' \in [Input -> {"none", "open"} \cup Decision]
    BY <1>5, <1>10 DEF TakeLock, cardVars
  <2>4. /\ cancel' \in BOOLEAN /\ quietly' \in BOOLEAN /\ started' \in BOOLEAN
        /\ grant' \in BOOLEAN /\ call' \in Call /\ calls' \in Nat
        /\ walk' \in {"none", "owed", "done"}
        /\ off' \subseteq OffAtStart \cup {Toggle[k] : k \in Persists}
        /\ carded' \in [Input -> SUBSET Call]
        /\ lastAsk' \in Input \cup {None} /\ stoppedAsk' \in Input \cup {None}
    BY <1>10, <1>13 DEF TakeLock, loopVars, askVars
  <2> QED
    BY <1>10, <2>1, <2>2, <2>3, <2>4 DEF TakeLock
<1>14. ASSUME NEW i \in Input, NEW d \in Decision, Resume(i, d)
       PROVE /\ phase' \in [Input -> Phase] /\ queue' \in Seq(Input) /\ turn' \in Input \cup {None}
             /\ cancel' \in BOOLEAN /\ quietly' \in BOOLEAN /\ started' \in BOOLEAN
             /\ grant' \in BOOLEAN /\ call' \in Call /\ calls' \in Nat
             /\ walk' \in {"none", "owed", "done"}
             /\ off' \subseteq OffAtStart \cup {Toggle[k] : k \in Persists}
             /\ carded' \in [Input -> SUBSET Call]
             /\ lastAsk' \in Input \cup {None} /\ stoppedAsk' \in Input \cup {None}
             /\ terminals' \in [Input -> Nat]
  <2>1. phase' \in [Input -> Phase]
    BY <1>0, <1>13, <1>14 DEF Resume, Phase
  <2>2. queue' \in Seq(Input)
    BY <1>14, <1>s DEF Resume, lockVars
  <2>4. turn' \in Input \cup {None}
    BY <1>14 DEF Resume, lockVars
  <2>3. terminals' \in [Input -> Nat]
    <3>1. terminals' = terminals \/ Terminal(i)
      BY <1>14 DEF Resume
    <3> QED
      BY <3>1, SMTT(20) DEF Terminal
  <2>5. off' \subseteq OffAtStart \cup {Toggle[k] : k \in Persists}
    BY <1>13, <1>14 DEF Resume, loopVars
  <2> QED
    BY <1>13, <1>14, <2>1, <2>2, <2>3, <2>4, <2>5 DEF Resume, loopVars, askVars
<1>15. ASSUME NEW i \in Input, CardAnswered(i) PROVE TypeOK'
  <2>1. Resume(i, waiter[i]) /\ waiter[i] \in Decision
    BY <1>15 DEF CardAnswered
  <2>2. waiter' \in [Input -> {"none", "open"} \cup Decision]
    BY <1>15 DEF CardAnswered
  <2> QED
    BY <1>14, <1>15, <2>1, <2>2 DEF CardAnswered
<1>16. ASSUME NEW i \in Input, CardTimedOut(i) PROVE TypeOK'
  <2>1. Resume(i, "skip") /\ "skip" \in Decision
    BY <1>16 DEF CardTimedOut, Decision, Consent
  <2>2. <<i, asked[i]>> \in Card
    BY DEF Card
  <2>3. bus' \in Seq(Event)
    BY <1>16, <2>1, <2>2 DEF CardTimedOut, Publish, Event
  <2>4. waiter' \in [Input -> {"none", "open"} \cup Decision] /\ lapsed' \subseteq Card
    BY <1>16, <2>2 DEF CardTimedOut
  <2> QED
    BY <1>14, <1>16, <2>1, <2>3, <2>4 DEF CardTimedOut
<1>17. ASSUME NEW i \in Input, Begin(i) \/ Prepared(i) PROVE TypeOK'
  <2>1. Row1(i, "user") \in Row
    BY DEF Row1, Row
  <2>2. rows' \in Seq(Row)
    BY <1>17, <2>1, <1>s DEF Begin, Prepared, WriteLine
  <2>3. phase' \in [Input -> Phase]
    BY <1>0, <1>17 DEF Begin, Prepared, WriteLine, Phase
  <2> QED
    BY <1>17, <2>2, <2>3 DEF Begin, Prepared, lockVars, cardVars, loopVars, askVars
<1>18. ASSUME NEW i \in Input, FirstChunk(i) PROVE TypeOK'
  BY <1>18 DEF FirstChunk, Walk, lockVars, cardVars, askVars
<1>19. ASSUME NEW i \in Input, NEW c \in Proposed, CallTool(i, c) PROVE TypeOK'
  <2>1. phase' \in [Input -> Phase]
    BY <1>0, <1>19 DEF CallTool, Phase
  <2>2. /\ asked' \in [Input -> Nat] /\ shown' \subseteq Card /\ lapsed' \subseteq Card
        /\ waiter' \in [Input -> {"none", "open"} \cup Decision]
    BY <1>5, <1>19 DEF CallTool, cardVars
  <2>3. call' \in Call /\ calls' \in Nat
    <3>1. call' = [c EXCEPT !.card = 0] \/ call' = [c EXCEPT !.card = asked[i] + 1]
      BY <1>19 DEF CallTool
    <3>2. calls' = calls + 1
      BY <1>19 DEF CallTool
    <3>a. asked \in [Input -> Nat] /\ calls \in Nat
      BY Zenon
    <3> HIDE DEF TypeOK
    <3>3. asked[i] + 1 \in Nat /\ 0 \in Nat /\ calls + 1 \in Nat
      BY <3>a
    <3>4. call' \in Call
      BY <3>1, <3>3, ProposedAreCalls
    <3> QED
      BY <3>2, <3>3, <3>4
  <2>4. carded' \in [Input -> SUBSET Call]
    <3>1. carded' = carded \/ carded' = [carded EXCEPT ![i] = @ \cup {call'}]
      BY <1>19 DEF CallTool
    <3> QED
      BY <2>3, <3>1
  <2> QED
    BY <1>19, <2>1, <2>2, <2>3, <2>4 DEF CallTool, lockVars, askVars
<1>20. LastUserMarked \in Seq(Row)
  <2>1. DOMAIN rows = 1..Len(rows) /\ \A k \in 1..Len(rows) : rows[k] \in Row
    OBVIOUS
  <2>2. ASSUME NEW r \in Row PROVE [r EXCEPT !.cancelled = TRUE] \in Row
    BY DEF Row
  <2> QED
    BY <2>1, <2>2, SMTT(20) DEF LastUserMarked
<1>21. ASSUME NEW i \in Input, Answer(i) \/ Notice(i) \/ GoOn(i)
       PROVE phase' \in [Input -> Phase] /\ terminals' \in [Input -> Nat] /\ rows' \in Seq(Row)
  <2>1. Row1(i, "assistant") \in Row
    BY DEF Row1, Row
  <2>2. phase' \in [Input -> Phase]
    BY <1>0, <1>21 DEF Answer, Notice, GoOn, Phase
  <2>3. terminals' \in [Input -> Nat]
    BY <1>21, SMTT(20) DEF Answer, Notice, GoOn, Terminal
  <2>4. rows' \in Seq(Row)
    BY <1>20, <1>21, <2>1, <1>s DEF Answer, Notice, GoOn
  <2> QED
    BY <2>2, <2>3, <2>4
<1>22. ASSUME NEW i \in Input, Settle(i) PROVE TypeOK'
  <2>1. phase' \in [Input -> Phase] /\ terminals' \in [Input -> Nat] /\ rows' \in Seq(Row)
    BY <1>0, <1>21, <1>22 DEF Settle, Phase
  <2> QED
    BY <1>22, <2>1 DEF Settle, lockVars, cardVars, loopVars, askVars
<1>23. ASSUME NEW i \in Input, ToolDone(i) \/ StreamEnds(i) PROVE TypeOK'
  <2>1. phase' \in [Input -> Phase] /\ terminals' \in [Input -> Nat] /\ rows' \in Seq(Row)
    BY <1>21, <1>23 DEF ToolDone, StreamEnds
  <2>2. walk' \in {"none", "owed", "done"}
    BY <1>23 DEF ToolDone, StreamEnds, loopVars
  <2>u. UNCHANGED <<bus, queue, turn, voice, waiter, asked, shown, lapsed, cancel, stopping, merging,
                    quietly, started, grant, call, calls, off, carded, lastAsk, stoppedAsk, left, said, stopped>>
    BY <1>23 DEF ToolDone, StreamEnds, lockVars, cardVars, loopVars, askVars
  <2> QED
    BY <2>1, <2>2, <2>u, ZenonT(40)
<1>28. ASSUME NEW i \in Input, Walk(i) PROVE TypeOK'
  BY <1>28 DEF Walk, lockVars, cardVars, askVars
<1>24. ASSUME NEW i \in Input, Fail(i) PROVE TypeOK'
  <2>1. phase' \in [Input -> Phase]
    BY <1>0, <1>24 DEF Fail, Phase
  <2>2. terminals' \in [Input -> Nat]
    BY <1>24, SMTT(20) DEF Fail, Terminal
  <2>u. UNCHANGED <<bus, queue, turn, voice, waiter, asked, shown, lapsed, cancel, stopping, merging,
                    quietly, started, grant, call, calls, walk, off, carded, lastAsk, stoppedAsk, rows, left, said, stopped>>
    BY <1>24 DEF Fail, lockVars, cardVars, loopVars, askVars
  <2> QED
    BY <2>1, <2>2, <2>u, ZenonT(40)
<1>25. ASSUME NEW i \in Input, DeliverCancel(i) PROVE TypeOK'
  <2>1. phase' \in [Input -> Phase] /\ terminals' \in [Input -> Nat] /\ rows' \in Seq(Row)
    BY <1>0, <1>21, <1>25 DEF DeliverCancel, Phase
  <2>2. waiter' \in [Input -> {"none", "open"} \cup Decision]
    BY <1>25 DEF DeliverCancel
  <2> QED
    BY <1>25, <2>1, <2>2 DEF DeliverCancel, lockVars, loopVars, askVars
<1>26. ASSUME NEW i \in Input, CloseTurn(i) PROVE TypeOK'
  <2>1. phase' \in [Input -> Phase]
    BY <1>0, <1>26 DEF CloseTurn, Phase
  <2>2. terminals' \in [Input -> Nat]
    BY <1>26, SMTT(20) DEF CloseTurn
  <2> QED
    BY <1>26, <2>1, <2>2 DEF CloseTurn, cardVars, loopVars, askVars
<1>27. CASE UNCHANGED vars
  BY <1>27 DEF vars, lockVars, cardVars, loopVars, askVars
<1> QED
  BY <1>1, <1>2, <1>3, <1>6, <1>7, <1>8, <1>9, <1>10, <1>11, <1>12, <1>13, <1>15, <1>16,
     <1>17, <1>18, <1>19, <1>22, <1>23, <1>24, <1>25, <1>26, <1>27, <1>28
     DEF Next, HandlerStep, TaskStep, BusStep

\* Type correctness of the turns, whatever the inputs and the bounds.
THEOREM TypeCorrect == Spec => []TypeOK
<1>1. ASSUME Init PROVE TypeOK
  <2>1. bus \in Seq(Event) /\ queue \in Seq(Input) /\ voice \in Seq(Input) /\ rows \in Seq(Row)
    BY <1>1 DEF Init
  <2>2. left \in [Happening -> Nat]
    BY <1>1, TurnsAssumption DEF Init, Budget, Happening
  <2>3. phase \in [Input -> Phase] /\ waiter \in [Input -> {"none", "open"} \cup Decision]
    BY <1>1 DEF Init, Phase
  <2>4. asked \in [Input -> Nat] /\ terminals \in [Input -> Nat]
    BY <1>1 DEF Init
  <2>5. call \in Call
    BY <1>1 DEF Init, NoCall, Call
  <2> QED
    BY <1>1, <2>1, <2>2, <2>3, <2>4, <2>5 DEF Init, TypeOK
<1> QED
  BY <1>1, TypeStep, PTL DEF Spec

-----------------------------------------------------------------------------
(* One terminal event per input.  The invariant follows the lock, the task    *)
(* that runs under it, and the cancel that a continuation asked for: a quiet  *)
(* end belongs to the turn that holds the lock and that has not answered, and *)
(* nothing but its end can happen to that turn any more.                      *)

Running == Live \cup {"finished", "cut"}

TurnInv ==
  /\ \A i \in Input : phase[i] \in Running \cup {"grants"} => turn = i
  /\ turn # None => phase[turn] \in Running \cup {"grants"}
  /\ stopping => TurnLive
  /\ merging # None => merging = turn /\ phase[turn] \in Running /\ quietly
  /\ turn # None /\ phase[turn] \in Running =>
       /\ quietly => merging = turn /\ ~started
       /\ phase[turn] \in Live /\ quietly => stopping
       /\ phase[turn] \in {"card", "allowed", "declined", "tool"} => started
       /\ ~started => calls = 0
  /\ \A i \in Input :
       terminals[i] = IF phase[i] = "done" \/ (phase[i] = "finished" /\ ~quietly) THEN 1 ELSE 0

\* The part of the type invariant this argument needs.
Slim ==
  /\ phase \in [Input -> Phase] /\ terminals \in [Input -> Nat] /\ waiter \in [Input -> {"none", "open"} \cup Decision]
  /\ turn \in Input \cup {None} /\ merging \in Input \cup {None}
  /\ quietly \in BOOLEAN /\ started \in BOOLEAN /\ stopping \in BOOLEAN /\ calls \in Nat
  /\ None \notin Input

\* Every step keeps it.
LEMMA TurnInvStep == TypeOK /\ TurnInv /\ [Next]_vars => TurnInv'
<1> SUFFICES ASSUME TypeOK, TurnInv, [Next]_vars PROVE TurnInv'
  OBVIOUS
<1>0. Slim
  BY TurnsAssumption DEF TypeOK, Slim
<1> USE <1>0 DEF Slim, TurnInv, Running, Live, TurnLive, Move, Terminal,
       lockVars, cardVars, loopVars, askVars
<1> HIDE DEF TypeOK
<1>1. ASSUME NEW i \in Input, Say(i) \/ OnUser(i) \/ OnVoice(i) PROVE TurnInv'
  BY <1>1 DEF Say, OnUser, OnVoice
<1>2. ASSUME NEW i \in Input, QueueFollow(i) \/ RestartFollow(i) PROVE TurnInv'
  BY <1>2 DEF QueueFollow, RestartFollow
<1>3. ASSUME NEW i \in Input, MergeFollow(i) PROVE TurnInv'
  BY <1>3 DEF MergeFollow, CanMerge
<1>4. ASSUME NEW i \in Input, TakeLock(i) PROVE TurnInv'
  BY <1>4 DEF TakeLock, NewTask
<1>5. ASSUME NEW i \in Input, NEW d \in Decision, Resume(i, d), UNCHANGED <<stopping, merging>>
      PROVE TurnInv'
  BY <1>5 DEF Resume, NewTask
<1>6. ASSUME NEW i \in Input, CardAnswered(i) \/ CardTimedOut(i) PROVE TurnInv'
  BY <1>5, <1>6 DEF CardAnswered, CardTimedOut, Decision, Consent
<1>7. ASSUME NEW i \in Input, Begin(i) \/ Prepared(i) PROVE TurnInv'
  BY <1>7 DEF Begin, Prepared, Free, WriteLine
<1>8. ASSUME NEW i \in Input, FirstChunk(i) \/ Walk(i) PROVE TurnInv'
  BY <1>8 DEF FirstChunk, Walk, Free
<1>9. ASSUME NEW i \in Input, NEW c \in Proposed, CallTool(i, c) PROVE TurnInv'
  BY <1>9 DEF CallTool, Free
<1>10. ASSUME NEW i \in Input, Settle(i) PROVE TurnInv'
  BY <1>10 DEF Settle, GoOn, Answer, Notice
<1>11. ASSUME NEW i \in Input, ToolDone(i) PROVE TurnInv'
  BY <1>11 DEF ToolDone, Free, GoOn, Answer, Notice
<1>12. ASSUME NEW i \in Input, StreamEnds(i) PROVE TurnInv'
  BY <1>12 DEF StreamEnds, Free, Answer, Notice
<1>13. ASSUME NEW i \in Input, Fail(i) PROVE TurnInv'
  BY <1>13 DEF Fail, Free
<1>14. ASSUME NEW i \in Input, DeliverCancel(i) PROVE TurnInv'
  BY <1>14 DEF DeliverCancel, Notice
<1>15. ASSUME NEW i \in Input, CloseTurn(i) PROVE TurnInv'
  BY <1>15 DEF CloseTurn
<1>16. ASSUME OnStop PROVE TurnInv'
  BY <1>16 DEF OnStop
<1>17. ASSUME OnReply \/ OnLoad \/ OnSync PROVE TurnInv'
  BY <1>17 DEF OnReply, OnLoad, OnSync
<1>18. ASSUME NEW what \in Happening, Happen(what) PROVE TurnInv'
  BY <1>18 DEF Happen
<1>19. ASSUME NEW card \in shown, NEW say \in Answers, AnswerCard(card, say) PROVE TurnInv'
  BY <1>19 DEF AnswerCard
<1>20. CASE UNCHANGED vars
  BY <1>20 DEF vars
<1> QED
  BY <1>1, <1>2, <1>3, <1>4, <1>6, <1>7, <1>8, <1>9, <1>10, <1>11, <1>12, <1>13, <1>14, <1>15,
     <1>16, <1>17, <1>18, <1>19, <1>20 DEF Next, HandlerStep, TaskStep, BusStep

\* An input that ends has one terminal event, or none if it was restarted.
THEOREM EndsOnce == Spec => []OneTerminal
<1>1. ASSUME Init PROVE TurnInv
  BY <1>1, TurnsAssumption DEF Init, TurnInv, Running, Live, TurnLive
<1>2. TypeOK /\ TurnInv => OneTerminal
  BY DEF TypeOK, TurnInv, OneTerminal
<1> QED
  BY <1>1, <1>2, TypeCorrect, TurnInvStep, PTL DEF Spec

\* Only the end of the turn a continuation cancelled leaves an input merged.
LEMMA MergedByClose ==
  ASSUME TypeOK, TurnInv, Next, NEW i \in Input, phase'[i] = "merged", phase[i] # "merged"
  PROVE  CloseTurn(i) /\ merging = i
<1>0. Slim
  BY TurnsAssumption DEF TypeOK, Slim
<1> USE <1>0 DEF Slim, Move
<1>1. ASSUME NEW j \in Input, CloseTurn(j) PROVE CloseTurn(i) /\ merging = i
  BY <1>1 DEF CloseTurn
<1>2. ASSUME NEW j \in Input, HandlerStep(j) PROVE FALSE
  BY <1>2 DEF HandlerStep, OnUser, OnVoice, QueueFollow, MergeFollow, RestartFollow, TakeLock,
     NewTask, CardAnswered, CardTimedOut, Resume
<1>3. ASSUME NEW j \in Input, TaskStep(j), ~CloseTurn(j) PROVE FALSE
  BY <1>3 DEF TaskStep, Begin, Prepared, WriteLine, FirstChunk, Walk, CallTool, Settle, ToolDone,
     StreamEnds, Fail, DeliverCancel, GoOn, Answer, Notice
<1>4. ASSUME NEW j \in Input, Say(j) PROVE FALSE
  BY <1>4 DEF Say
<1>5. ASSUME BusStep \/ (\E what \in Happening : Happen(what))
             \/ (\E card \in shown, say \in Answers : AnswerCard(card, say))
      PROVE FALSE
  BY <1>5 DEF BusStep, OnReply, OnStop, OnLoad, OnSync, Happen, AnswerCard
<1> QED
  BY <1>1, <1>2, <1>3, <1>4, <1>5 DEF Next, TaskStep

\* A continuation restarts only a turn that has not begun to answer.
THEOREM MergeSparesAnswers == Spec => QuietOnlyUnanswered
<1>1. ASSUME TypeOK, TurnInv, [Next]_vars
      PROVE [\A i \in Input : phase'[i] = "merged" /\ phase[i] # "merged" => ~started /\ calls = 0]_vars
  <2>1. ASSUME Next, NEW i \in Input, phase'[i] = "merged", phase[i] # "merged"
        PROVE ~started /\ calls = 0
    <3>1. CloseTurn(i) /\ merging = i
      BY <1>1, <2>1, MergedByClose
    <3> QED
      BY <1>1, <3>1, TurnsAssumption DEF TurnInv, CloseTurn, Running
  <2> QED
    BY <1>1, <2>1
<1>2. ASSUME Init PROVE TurnInv
  BY <1>2, TurnsAssumption DEF Init, TurnInv, Running, Live, TurnLive
<1> QED
  BY <1>1, <1>2, TypeCorrect, TurnInvStep, PTL DEF Spec, QuietOnlyUnanswered

-----------------------------------------------------------------------------
(* Nothing runs unallowed.  The invariant follows a yes from the user to the  *)
(* bus, to the future of the one card it names, and to the calls it lets run: *)
(* its own, or later ones through a setting or the rest of the ask; a card    *)
(* that lapsed is closed for good.                                            *)

\* A reply on the bus that is not a skip is one the user gave.
ReplyInv ==
  \A k \in DOMAIN bus : bus[k].type = "reply" /\ bus[k].say # "skip" => <<bus[k].card, bus[k].say>> \in said

\* Only an asker that waits has an open card: its newest, which did not lapse.
WaiterInv ==
  \A i \in Input :
    /\ phase[i] \notin {"staging", "grants", "card"} => waiter[i] = "none"
    /\ waiter[i] # "none" => asked[i] >= 1 /\ <<i, asked[i]>> \notin lapsed
    /\ waiter[i] \in Consent => <<<<i, asked[i]>>, waiter[i]>> \in said

LapsedInv == \A i \in Input, n \in Nat : <<i, n>> \in lapsed => n <= asked[i]

\* A yes to the card of a call, which is not the card that is open now.
Closed(i, c) == c.card \in 1..asked[i] /\ (waiter[i] # "none" => c.card < asked[i])
Settled(i, c, say) == c \in carded[i] /\ Closed(i, c) /\ Consented(i, c, say)

\* A call that waits for its card, or was allowed on it, has the newest card.
OwnInv ==
  \A i \in Input : phase[i] \in {"card", "allowed"} =>
    call.card = asked[i] /\ asked[i] >= 1 /\ call \in carded[i]
YesInv ==
  \A i \in Input : phase[i] = "allowed" => \E say \in Consent : Consented(i, call, say)

\* What stands behind the turn's grant, and behind a setting that is off.
Granted(i) == walk = "done" \/ \E c \in Call : Settled(i, c, "allow_turn")
GrantInv == \A i \in Input : turn = i /\ phase[i] \in Running /\ grant => Granted(i)
SwitchedOff(t) ==
  \E j \in Input, c \in Call :
    /\ ~c.forced /\ c.kind \in Persists /\ Toggle[c.kind] = t
    /\ Settled(j, c, "allow_always")
OffInv == \A t \in off : t \in OffAtStart \/ SwitchedOff(t)

\* What stands behind a call that runs.
Backed(i) ==
  \/ call \in carded[i] /\ \E say \in Consent : Consented(i, call, say)
  \/ /\ ~call.forced /\ call.kind # "send"
     /\ call.kind \in DOMAIN Toggle =>
          \/ Toggle[call.kind] \in OffAtStart \/ SwitchedOff(Toggle[call.kind])
          \/ AskIsGrant /\ call.named /\ call.kind \in AskCovers
          \/ call.kind \in GrantCovers /\ Granted(i)
BackedInv == \A i \in Input : phase[i] = "tool" => Backed(i)

CallInv == OwnInv /\ YesInv /\ GrantInv /\ OffInv /\ BackedInv

AllowInv == ReplyInv /\ WaiterInv /\ LapsedInv /\ CallInv

\* Replies: only the user and the lapse of a card put one on the bus.
LEMMA ReplyInvStep == TypeOK /\ ReplyInv /\ [Next]_vars => ReplyInv'
<1> SUFFICES ASSUME TypeOK, ReplyInv, [Next]_vars PROVE ReplyInv'
  OBVIOUS
<1>0. bus \in Seq(Event)
  BY DEF TypeOK
<1>1. ASSUME NEW e \in Event, bus' = Append(bus, e), said \subseteq said',
             e.type = "reply" /\ e.say # "skip" => <<e.card, e.say>> \in said'
      PROVE ReplyInv'
  <2> SUFFICES ASSUME NEW k \in DOMAIN bus', bus'[k].type = "reply", bus'[k].say # "skip"
               PROVE <<bus'[k].card, bus'[k].say>> \in said'
    BY DEF ReplyInv
  <2>1. (k \in DOMAIN bus /\ bus'[k] = bus[k]) \/ bus'[k] = e
    BY <1>0, <1>1
  <2> QED
    BY <1>1, <2>1 DEF ReplyInv
<1>2. ASSUME bus # <<>>, bus' = Tail(bus), said' = said PROVE ReplyInv'
  <2> SUFFICES ASSUME NEW k \in DOMAIN bus', bus'[k].type = "reply", bus'[k].say # "skip"
               PROVE <<bus'[k].card, bus'[k].say>> \in said'
    BY DEF ReplyInv
  <2>1. k + 1 \in DOMAIN bus /\ bus'[k] = bus[k + 1]
    BY <1>0, <1>2
  <2> QED
    BY <1>2, <2>1 DEF ReplyInv
<1>3. ASSUME bus' = bus, said' = said PROVE ReplyInv'
  BY <1>3 DEF ReplyInv
<1>4. ASSUME NEW i \in Input, Say(i) \/ QueueFollow(i) \/ RestartFollow(i) PROVE ReplyInv'
  <2>1. /\ [type |-> "user", who |-> i] \in Event /\ [type |-> "user", who |-> i].type # "reply"
        /\ [type |-> "voice", who |-> i] \in Event /\ [type |-> "voice", who |-> i].type # "reply"
    BY DEF Event
  <2> QED
    BY <1>1, <1>4, <2>1 DEF Say, QueueFollow, RestartFollow, Publish
<1>5. ASSUME NEW card \in shown, NEW say \in Answers, AnswerCard(card, say) PROVE ReplyInv'
  <2> DEFINE e == [type |-> "reply", card |-> card, say |-> say]
  <2>1. e \in Event /\ e.card = card /\ e.say = say
    BY TurnsAssumption DEF Event, TypeOK
  <2>2. bus' = Append(bus, e) /\ said' = said \cup {<<card, say>>}
    BY <1>5 DEF AnswerCard, Publish
  <2> HIDE DEF e
  <2> QED
    BY <1>1, <2>1, <2>2
<1>6. ASSUME NEW what \in Happening, Happen(what) PROVE ReplyInv'
  <2>1. [type |-> what] \in Event /\ [type |-> what].type # "reply"
    BY DEF Event, Happening
  <2> QED
    BY <1>1, <1>6, <2>1 DEF Happen, Publish
<1>7. ASSUME NEW i \in Input, CardTimedOut(i) PROVE ReplyInv'
  <2> DEFINE e == [type |-> "reply", card |-> <<i, asked[i]>>, say |-> "skip"]
  <2>1. e \in Event /\ e.say = "skip"
    BY DEF Event, TypeOK, Card, Decision, Consent
  <2>2. bus' = Append(bus, e) /\ said' = said
    BY <1>7 DEF CardTimedOut, Publish
  <2> HIDE DEF e
  <2> QED
    BY <1>1, <2>1, <2>2
<1>8. ASSUME NEW i \in Input, OnUser(i) \/ OnVoice(i) PROVE ReplyInv'
  BY <1>2, <1>8 DEF OnUser, OnVoice, Handle
<1>9. ASSUME BusStep PROVE ReplyInv'
  BY <1>2, <1>9 DEF BusStep, OnReply, OnStop, OnLoad, OnSync, Handle
<1>10. ASSUME NEW i \in Input, MergeFollow(i) \/ TakeLock(i) \/ CardAnswered(i) \/ TaskStep(i)
       PROVE ReplyInv'
  BY <1>3, <1>10 DEF MergeFollow, TakeLock, CardAnswered, TaskStep, Begin, Prepared, FirstChunk, Walk,
     CallTool, Settle, ToolDone, StreamEnds, Fail, DeliverCancel, CloseTurn
<1>11. CASE UNCHANGED vars
  BY <1>3, <1>11 DEF vars
<1> QED
  BY <1>4, <1>5, <1>6, <1>7, <1>8, <1>9, <1>10, <1>11 DEF Next, HandlerStep

\* What this argument needs of the type invariant.
SlimCards ==
  /\ phase \in [Input -> Phase] /\ asked \in [Input -> Nat]
  /\ waiter \in [Input -> {"none", "open"} \cup Decision]
  /\ turn \in Input \cup {None} /\ None \notin Input /\ lapsed \subseteq Card

\* Cards: opening, answering, lapsing and skipping them keeps the facts about them.
LEMMA CardInvStep ==
  TypeOK /\ TurnInv /\ ReplyInv /\ WaiterInv /\ LapsedInv /\ [Next]_vars => WaiterInv' /\ LapsedInv'
<1> SUFFICES ASSUME TypeOK, TurnInv, ReplyInv, WaiterInv, LapsedInv, [Next]_vars
             PROVE  WaiterInv' /\ LapsedInv'
  OBVIOUS
<1>0. SlimCards
  BY TurnsAssumption DEF TypeOK, SlimCards
<1> USE <1>0 DEF SlimCards, WaiterInv, LapsedInv, Move, lockVars, cardVars, loopVars, askVars,
        Decision, Consent
<1>o. ASSUME NEW i \in Input, OpenCard(i), said' = said,
             phase' = [phase EXCEPT ![i] = "staging"] \/ phase' = [phase EXCEPT ![i] = "grants"]
      PROVE WaiterInv' /\ LapsedInv'
  <2>1. <<i, asked[i] + 1>> \notin lapsed
    OBVIOUS
  <2>2. asked' = [asked EXCEPT ![i] = @ + 1] /\ waiter' = [waiter EXCEPT ![i] = "open"] /\ lapsed' = lapsed
    BY <1>o DEF OpenCard
  <2>3. LapsedInv'
    BY <2>2
  <2>4. WaiterInv'
    BY <1>o, <2>1, <2>2 DEF Decision, Consent
  <2> QED
    BY <2>3, <2>4
<1>1. ASSUME NEW i \in Input, Say(i) \/ OnUser(i) \/ OnVoice(i) PROVE WaiterInv' /\ LapsedInv'
  <2>1. CASE OpenCard(i)
    BY <1>1, <1>o, <2>1 DEF Say, OnUser, OnVoice
  <2>2. CASE UNCHANGED cardVars
    BY <1>1, <2>2 DEF Say, OnUser, OnVoice
  <2> QED
    BY <1>1, <2>1, <2>2 DEF Say, OnUser, OnVoice
<1>2. ASSUME NEW i \in Input, QueueFollow(i) \/ RestartFollow(i) \/ MergeFollow(i)
      PROVE WaiterInv' /\ LapsedInv'
  BY <1>2 DEF QueueFollow, RestartFollow, MergeFollow
<1>3. ASSUME NEW i \in Input, TakeLock(i) PROVE WaiterInv' /\ LapsedInv'
  <2>1. CASE OpenCard(i)
    BY <1>3, <1>o, <2>1 DEF TakeLock, NewTask
  <2>2. CASE UNCHANGED cardVars
    BY <1>3, <2>2 DEF TakeLock, NewTask
  <2> QED
    BY <1>3, <2>1, <2>2 DEF TakeLock
<1>4. ASSUME NEW i \in Input, CardAnswered(i) PROVE WaiterInv' /\ LapsedInv'
  BY <1>4 DEF CardAnswered, Resume, NewTask
<1>5. ASSUME NEW i \in Input, CardTimedOut(i) PROVE WaiterInv' /\ LapsedInv'
  BY <1>5 DEF CardTimedOut, Resume, NewTask
<1>6. ASSUME NEW i \in Input, Begin(i) \/ Prepared(i) \/ FirstChunk(i) \/ Walk(i) PROVE WaiterInv' /\ LapsedInv'
  BY <1>6 DEF Begin, Prepared, WriteLine, FirstChunk, Walk, Free
<1>7. ASSUME NEW i \in Input, NEW c \in Proposed, CallTool(i, c) PROVE WaiterInv' /\ LapsedInv'
  BY <1>7 DEF CallTool, OpenCard
<1>8. ASSUME NEW i \in Input, Settle(i) PROVE WaiterInv' /\ LapsedInv'
  BY <1>8 DEF Settle, GoOn, Answer, Notice
<1>9. ASSUME NEW i \in Input, ToolDone(i) \/ StreamEnds(i) \/ Fail(i) PROVE WaiterInv' /\ LapsedInv'
  BY <1>9 DEF ToolDone, StreamEnds, Fail, GoOn, Answer, Notice
<1>10. ASSUME NEW i \in Input, DeliverCancel(i) \/ CloseTurn(i) PROVE WaiterInv' /\ LapsedInv'
  BY <1>10 DEF DeliverCancel, CloseTurn, Notice
<1>11. ASSUME OnStop PROVE WaiterInv' /\ LapsedInv'
  BY <1>11 DEF OnStop
<1>12. ASSUME OnReply PROVE WaiterInv' /\ LapsedInv'
  <2>1. Head(bus) \in Event /\ Head(bus).type = "reply" /\ 1 \in DOMAIN bus /\ Head(bus) = bus[1]
    BY <1>12 DEF OnReply, Handle, TypeOK
  <2>2. Head(bus).card \in Input \X Nat /\ Head(bus).say \in Decision
    BY <2>1 DEF Event, Happening, Card
  <2>3. Head(bus).say # "skip" => <<Head(bus).card, Head(bus).say>> \in said
    BY <2>1 DEF ReplyInv
  <2>4. ASSUME NEW i \in Input, Head(bus).card[1] = i, Head(bus).card[2] = asked[i]
        PROVE Head(bus).card = <<i, asked[i]>>
    BY <2>2, <2>4
  <2> QED
    BY <1>12, <2>2, <2>3, <2>4 DEF OnReply, Decision, Consent
<1>13. ASSUME OnLoad \/ OnSync \/ UNCHANGED vars PROVE WaiterInv' /\ LapsedInv'
  BY <1>13 DEF OnLoad, OnSync, vars
<1>14. ASSUME NEW what \in Happening, Happen(what) PROVE WaiterInv' /\ LapsedInv'
  BY <1>14 DEF Happen
<1>15. ASSUME NEW card \in shown, NEW say \in Answers, AnswerCard(card, say)
       PROVE WaiterInv' /\ LapsedInv'
  BY <1>15 DEF AnswerCard
<1> QED
  BY <1>1, <1>2, <1>3, <1>4, <1>5, <1>6, <1>7, <1>8, <1>9, <1>10, <1>11, <1>12, <1>13, <1>14,
      <1>15
     DEF Next, HandlerStep, TaskStep, BusStep

\* A yes stays one: the user's answers are kept, and a card lapses only while open.
LEMMA YesStays ==
  ASSUME TypeOK, WaiterInv, LapsedInv, [Next]_vars, NEW i \in Input, NEW c \in Call, NEW say,
         Consented(i, c, say), c.card < asked[i] \/ waiter[i] # "open"
  PROVE  Consented(i, c, say)'
<1>0. SlimCards
  BY TurnsAssumption DEF TypeOK, SlimCards
<1>1. said \subseteq said'
  BY ZenonT(30) DEF Next, HandlerStep, TaskStep, BusStep, Say, OnUser, OnVoice, QueueFollow, MergeFollow,
     RestartFollow, TakeLock, CardAnswered, CardTimedOut, Begin, Prepared, FirstChunk, Walk, CallTool,
     Settle, ToolDone, StreamEnds, Fail, DeliverCancel, CloseTurn, AnswerCard, Happen, OnReply,
     OnStop, OnLoad, OnSync, vars
<1>2. lapsed' = lapsed \/ \E j \in Input : waiter[j] = "open" /\ lapsed' = lapsed \cup {<<j, asked[j]>>}
  <2>1. ASSUME NEW j \in Input, CardTimedOut(j)
        PROVE waiter[j] = "open" /\ lapsed' = lapsed \cup {<<j, asked[j]>>}
    BY <2>1 DEF CardTimedOut
  <2>2. ASSUME ~(\E j \in Input : CardTimedOut(j)) PROVE lapsed' = lapsed
    BY <2>2, ZenonT(30) DEF Next, HandlerStep, TaskStep, BusStep, Say, OnUser, OnVoice, QueueFollow,
       MergeFollow, RestartFollow, TakeLock, CardAnswered, Begin, Prepared, FirstChunk, Walk, CallTool,
       Settle, ToolDone, StreamEnds, Fail, DeliverCancel, CloseTurn, AnswerCard, Happen, OnReply,
       OnStop, OnLoad, OnSync, vars, cardVars, OpenCard
  <2> QED
    BY <2>1, <2>2
<1>3. <<i, c.card>> \notin lapsed'
  BY <1>0, <1>2 DEF Consented, SlimCards
<1> QED
  BY <1>1, <1>3 DEF Consented

\* A card is opened with a new number, and by an asker that then waits for it.
LEMMA CardMoves ==
  ASSUME TypeOK, [Next]_vars, NEW i \in Input
  PROVE  \/ asked'[i] = asked[i] /\ (waiter[i] = "none" => waiter'[i] = "none")
         \/ /\ asked'[i] = asked[i] + 1 /\ waiter'[i] = "open"
            /\ phase'[i] \in {"staging", "grants", "card"}
<1>0. SlimCards
  BY TurnsAssumption DEF TypeOK, SlimCards
<1> DEFINE Same == asked' = asked /\ (waiter[i] = "none" => waiter'[i] = "none")
<1> DEFINE Opened(j) == OpenCard(j) /\ phase'[j] \in {"staging", "grants", "card"}
<1>1. ASSUME NEW j \in Input, OnUser(j) \/ TakeLock(j) \/ (\E c \in Proposed : CallTool(j, c))
      PROVE Same \/ Opened(j)
  BY <1>0, <1>1 DEF OnUser, TakeLock, CallTool, cardVars, Move, SlimCards, NewTask
<1>2. ASSUME NEW j \in Input,
             Say(j) \/ OnVoice(j) \/ QueueFollow(j) \/ MergeFollow(j) \/ RestartFollow(j)
             \/ CardAnswered(j) \/ CardTimedOut(j) \/ Begin(j) \/ Prepared(j) \/ FirstChunk(j) \/ Walk(j)
             \/ Settle(j) \/ ToolDone(j) \/ StreamEnds(j) \/ Fail(j) \/ DeliverCancel(j) \/ CloseTurn(j)
      PROVE Same
  BY <1>0, <1>2 DEF Say, OnVoice, QueueFollow, MergeFollow, RestartFollow, CardAnswered,
     CardTimedOut, Begin, Prepared, FirstChunk, Walk, Settle, ToolDone, StreamEnds, Fail, DeliverCancel,
     CloseTurn, cardVars, SlimCards
<1>3. ASSUME BusStep \/ UNCHANGED vars \/ (\E what \in Happening : Happen(what))
             \/ (\E card \in shown, say \in Answers : AnswerCard(card, say))
      PROVE Same
  BY <1>0, <1>3 DEF BusStep, OnReply, OnStop, OnLoad, OnSync, Happen, AnswerCard, vars, cardVars,
     SlimCards
<1>4. Same \/ \E j \in Input : Opened(j)
  BY <1>1, <1>2, <1>3 DEF Next, HandlerStep, TaskStep
<1> QED
  BY <1>0, <1>4 DEF OpenCard, SlimCards

\* Whoever comes to wait for a tool's card has just opened it.
LEMMA CardOpens ==
  ASSUME TypeOK, TurnInv, [Next]_vars, NEW i \in Input
  PROVE  /\ phase'[i] = "card" /\ phase[i] # "card" => asked'[i] = asked[i] + 1
         /\ phase[i] \in {"card", "allowed"} => asked'[i] = asked[i]
<1>0. Slim /\ SlimCards
  BY TurnsAssumption DEF TypeOK, Slim, SlimCards
<1> DEFINE Goal == /\ phase'[i] = "card" /\ phase[i] # "card" => asked'[i] = asked[i] + 1
                   /\ phase[i] \in {"card", "allowed"} => asked'[i] = asked[i]
<1> USE <1>0 DEF SlimCards, Slim, Move, cardVars, OpenCard
<1>1. ASSUME NEW j \in Input, OnUser(j) \/ TakeLock(j) PROVE Goal
  BY <1>1 DEF OnUser, TakeLock, NewTask
<1>2. ASSUME NEW j \in Input, NEW c \in Proposed, CallTool(j, c) PROVE Goal
  BY <1>2 DEF CallTool
<1>3. ASSUME NEW j \in Input,
             Say(j) \/ OnVoice(j) \/ QueueFollow(j) \/ MergeFollow(j) \/ RestartFollow(j)
             \/ CardAnswered(j) \/ CardTimedOut(j)
      PROVE Goal
  BY <1>3 DEF Say, OnVoice, QueueFollow, MergeFollow, RestartFollow, CardAnswered, CardTimedOut,
     Resume, NewTask
<1>4. ASSUME NEW j \in Input,
             Begin(j) \/ Prepared(j) \/ FirstChunk(j) \/ Walk(j) \/ Settle(j) \/ ToolDone(j)
             \/ StreamEnds(j) \/ Fail(j) \/ DeliverCancel(j) \/ CloseTurn(j)
      PROVE Goal
  BY <1>4 DEF Begin, Prepared, WriteLine, FirstChunk, Walk, Settle, ToolDone, StreamEnds, Fail,
     DeliverCancel, CloseTurn, GoOn, Answer, Notice
<1>5. ASSUME BusStep \/ UNCHANGED vars \/ (\E what \in Happening : Happen(what))
             \/ (\E card \in shown, say \in Answers : AnswerCard(card, say))
      PROVE Goal
  BY <1>5 DEF BusStep, OnReply, OnStop, OnLoad, OnSync, Happen, AnswerCard, vars
<1> QED
  BY <1>1, <1>2, <1>3, <1>4, <1>5 DEF Next, HandlerStep, TaskStep

\* How a call comes to have its card, to be allowed, to run, and to have the grant.
LEMMA CallMoves ==
  ASSUME TypeOK, TurnInv, [Next]_vars, NEW i \in Input
  PROVE  /\ phase'[i] = "card" /\ phase[i] # "card" => call'.card = asked'[i] /\ call' \in carded'[i]
         /\ phase'[i] \in {"card", "allowed", "tool"} /\ phase[i] # "model" => call' = call
         /\ phase'[i] = "allowed" /\ phase[i] # "allowed" => phase[i] = "card" /\ waiter[i] \in Consent
         /\ phase'[i] = "tool" /\ phase[i] # "tool" =>
              \/ phase[i] = "allowed"
              \/ turn = i /\ phase[i] = "model" /\ \E c \in Call : call' = c /\ ~NeedsCard(c)
         /\ phase[i] \in Running /\ phase'[i] \in Running /\ walk = "done" => walk' = "done"
         /\ turn' = i /\ phase'[i] \in Running /\ grant' =>
              \/ turn = i /\ phase[i] \in Running /\ grant
              \/ walk' = "done"
              \/ phase[i] = "card" /\ waiter[i] = "allow_turn" /\ waiter'[i] = "none" /\ asked'[i] = asked[i]
<1>0. Slim /\ SlimCards
  BY TurnsAssumption DEF TypeOK, Slim, SlimCards
<1> DEFINE Goal ==
      /\ phase'[i] = "card" /\ phase[i] # "card" => call'.card = asked'[i] /\ call' \in carded'[i]
      /\ phase'[i] \in {"card", "allowed", "tool"} /\ phase[i] # "model" => call' = call
      /\ phase'[i] = "allowed" /\ phase[i] # "allowed" => phase[i] = "card" /\ waiter[i] \in Consent
      /\ phase'[i] = "tool" /\ phase[i] # "tool" =>
           \/ phase[i] = "allowed"
           \/ turn = i /\ phase[i] = "model" /\ \E c \in Call : call' = c /\ ~NeedsCard(c)
      /\ phase[i] \in Running /\ phase'[i] \in Running /\ walk = "done" => walk' = "done"
      /\ turn' = i /\ phase'[i] \in Running /\ grant' =>
           \/ turn = i /\ phase[i] \in Running /\ grant
           \/ walk' = "done"
           \/ phase[i] = "card" /\ waiter[i] = "allow_turn" /\ waiter'[i] = "none" /\ asked'[i] = asked[i]
<1> USE <1>0 DEF SlimCards, Slim, TurnInv, Running, Live, Move, lockVars, cardVars, loopVars,
    askVars
<1>1. ASSUME NEW j \in Input, Say(j) \/ OnUser(j) \/ OnVoice(j) PROVE Goal
  BY <1>1 DEF Say, OnUser, OnVoice
<1>2. ASSUME NEW j \in Input, QueueFollow(j) \/ MergeFollow(j) \/ RestartFollow(j) PROVE Goal
  BY <1>2 DEF QueueFollow, MergeFollow, RestartFollow
<1>3. ASSUME NEW j \in Input, TakeLock(j) PROVE Goal
  BY <1>3 DEF TakeLock, NewTask
<1>4. ASSUME NEW j \in Input, CardAnswered(j) PROVE Goal
  BY <1>4 DEF CardAnswered, Resume, NewTask, Decision, Consent
<1>5. ASSUME NEW j \in Input, CardTimedOut(j) PROVE Goal
  BY <1>5 DEF CardTimedOut, Resume, NewTask
<1>6. ASSUME NEW j \in Input, Begin(j) \/ Prepared(j) \/ FirstChunk(j) \/ Walk(j) \/ Fail(j) PROVE Goal
  BY <1>6 DEF Begin, Prepared, WriteLine, FirstChunk, Walk, Free, Fail
<1>7. ASSUME NEW j \in Input, NEW c \in Proposed, CallTool(j, c) PROVE Goal
  <2>1. c \in Call /\ c.card = 0
    BY ProposedAreCalls
  <2>c. carded \in [Input -> SUBSET Call]
    BY DEF TypeOK
  <2>2. CASE NeedsCard(c)
    <3>1. /\ phase' = [phase EXCEPT ![j] = "card"] /\ asked' = [asked EXCEPT ![j] = @ + 1]
          /\ call' = [c EXCEPT !.card = asked[j] + 1] /\ call' \in carded'[j]
          /\ UNCHANGED <<turn, walk, grant>> /\ turn = j /\ phase[j] = "model"
      BY <1>7, <2>2, <2>c DEF CallTool, OpenCard, Free
    <3>2. call'.card = asked[j] + 1
      BY <2>1, <3>1 DEF Call
    <3> QED
      BY <3>1, <3>2
  <2>3. CASE ~NeedsCard(c)
    <3>1. /\ phase' = [phase EXCEPT ![j] = "tool"] /\ call' = [c EXCEPT !.card = 0]
          /\ UNCHANGED <<turn, walk, grant>> /\ turn = j /\ phase[j] = "model"
      BY <1>7, <2>3 DEF CallTool, Free
    <3>2. [c EXCEPT !.card = 0] = c
      BY <2>1 DEF Call
    <3> QED
      BY <2>1, <2>3, <3>1, <3>2
  <2> QED
    BY <2>2, <2>3
<1>8. ASSUME NEW j \in Input, Settle(j) \/ ToolDone(j) \/ StreamEnds(j) PROVE Goal
  BY <1>8 DEF Settle, ToolDone, StreamEnds, Free, GoOn, Answer, Notice
<1>9. ASSUME NEW j \in Input, DeliverCancel(j) \/ CloseTurn(j) PROVE Goal
  BY <1>9 DEF DeliverCancel, CloseTurn, Notice
<1>10. ASSUME BusStep \/ UNCHANGED vars \/ (\E what \in Happening : Happen(what))
              \/ (\E card \in shown, say \in Answers : AnswerCard(card, say))
       PROVE Goal
  <2>1. UNCHANGED <<phase, turn, call, grant, walk>>
    BY <1>10 DEF BusStep, OnReply, OnStop, OnLoad, OnSync, Happen, AnswerCard, vars
  <2> QED
    BY <2>1
<1> QED
  BY <1>1, <1>2, <1>3, <1>4, <1>5, <1>6, <1>7, <1>8, <1>9, <1>10 DEF Next, HandlerStep, TaskStep

\* Carded calls stay on record; a setting is switched off by the card that asks for it.
LEMMA PolicyMoves ==
  ASSUME TypeOK, TurnInv, [Next]_vars
  PROVE  /\ \A k \in Input : carded[k] \subseteq carded'[k]
         /\ \/ off' = off
            \/ \E j \in Input :
                 /\ phase[j] = "card" /\ waiter[j] = "allow_always" /\ waiter'[j] = "none"
                 /\ asked' = asked /\ ~call.forced /\ call.kind \in Persists
                 /\ off' = off \cup {Toggle[call.kind]}
<1> DEFINE Off(j) ==
      /\ phase[j] = "card" /\ waiter[j] = "allow_always" /\ waiter'[j] = "none"
      /\ asked' = asked /\ ~call.forced /\ call.kind \in Persists
      /\ off' = off \cup {Toggle[call.kind]}
<1>0. SlimCards
  BY TurnsAssumption DEF TypeOK, SlimCards
<1>1. ASSUME NEW j \in Input, CardAnswered(j) PROVE carded' = carded /\ (off' = off \/ Off(j))
  <2>1. carded' = carded
    BY <1>1 DEF CardAnswered, Resume, NewTask, loopVars
  <2>2. off' = off \/ (/\ phase[j] = "card" /\ waiter[j] = "allow_always" /\ ~call.forced
                       /\ call.kind \in Persists /\ off' = off \cup {Toggle[call.kind]})
    BY <1>1 DEF CardAnswered, Resume, NewTask, loopVars
  <2>3. asked' = asked /\ waiter'[j] = "none"
    BY <1>0, <1>1 DEF CardAnswered, SlimCards
  <2> QED
    BY <2>1, <2>2, <2>3
<1>2. ASSUME NEW j \in Input, CardTimedOut(j) PROVE carded' = carded /\ off' = off
  BY <1>2 DEF CardTimedOut, Resume, NewTask, loopVars
<1>3. ASSUME NEW j \in Input, HandlerStep(j), ~CardAnswered(j), ~CardTimedOut(j)
      PROVE carded' = carded /\ off' = off
  BY <1>3 DEF HandlerStep, OnUser, OnVoice, QueueFollow, MergeFollow, RestartFollow, TakeLock,
     NewTask, loopVars
<1>4. ASSUME NEW j \in Input, TaskStep(j)
      PROVE (\A k \in Input : carded[k] \subseteq carded'[k]) /\ off' = off
  <2>0. carded \in [Input -> SUBSET Call]
    BY DEF TypeOK
  <2>1. ASSUME NEW c \in Proposed, CallTool(j, c)
        PROVE off' = off /\ (carded' = carded \/ carded' = [carded EXCEPT ![j] = @ \cup {call'}])
    BY <2>1 DEF CallTool
  <2>2. ASSUME ~(\E c \in Proposed : CallTool(j, c)) PROVE carded' = carded /\ off' = off
    BY <1>4, <2>2 DEF TaskStep, Begin, Prepared, FirstChunk, Walk, Settle, ToolDone, StreamEnds,
       Fail, DeliverCancel, CloseTurn, loopVars
  <2> QED
    BY <2>0, <2>1, <2>2
<1>5. ASSUME BusStep \/ UNCHANGED vars \/ (\E what \in Happening : Happen(what))
             \/ (\E card \in shown, say \in Answers : AnswerCard(card, say))
             \/ (\E j \in Input : Say(j))
      PROVE carded' = carded /\ off' = off
  BY <1>5 DEF BusStep, OnReply, OnStop, OnLoad, OnSync, Happen, AnswerCard, Say, vars, loopVars
<1> QED
  BY <1>1, <1>2, <1>3, <1>4, <1>5 DEF Next

\* The yes to a card that is closed is never lost.
LEMMA SettledStays ==
  ASSUME TypeOK, TurnInv, WaiterInv, LapsedInv, [Next]_vars, NEW i \in Input, NEW c \in Call, NEW say,
         Settled(i, c, say)
  PROVE  Settled(i, c, say)'
<1>0. SlimCards
  BY TurnsAssumption DEF TypeOK, SlimCards
<1>1. Consented(i, c, say)'
  BY YesStays DEF Settled, Closed
<1>2. Closed(i, c)'
  BY <1>0, CardMoves DEF Settled, Closed, SlimCards
<1>3. c \in carded'[i]
  BY PolicyMoves DEF Settled
<1> QED
  BY <1>1, <1>2, <1>3 DEF Settled

\* An asker that resumes leaves the yes it got with its closed card.
LEMMA Resumed ==
  ASSUME TypeOK, TurnInv, WaiterInv, LapsedInv, OwnInv, [Next]_vars, NEW i \in Input, NEW c, NEW say,
         c = call, say = waiter[i],
         phase[i] = "card", say \in Consent, waiter'[i] = "none", asked'[i] = asked[i]
  PROVE  c \in Call /\ Settled(i, c, say)'
<1>0. SlimCards /\ c \in Call
  BY TurnsAssumption DEF TypeOK, SlimCards
<1>1. c.card = asked[i] /\ asked[i] >= 1 /\ c \in carded[i] /\ asked[i] \in Nat
  BY <1>0 DEF OwnInv, SlimCards
<1>2. Consented(i, c, say) /\ waiter[i] # "open"
  BY <1>1 DEF WaiterInv, Consented, Consent
<1>4. Consented(i, c, say)'
  BY <1>0, <1>2, YesStays
<1>5. c \in carded'[i]
  BY <1>1, PolicyMoves
<1>6. Closed(i, c)'
  BY <1>1 DEF Closed
<1> QED
  BY <1>0, <1>4, <1>5, <1>6 DEF Settled

\* The yes a call rests on is neither replaced nor lapsed under it.
LEMMA CallInvStep == TypeOK /\ TurnInv /\ AllowInv /\ [Next]_vars => CallInv'
<1> SUFFICES ASSUME TypeOK, TurnInv, WaiterInv, LapsedInv, CallInv, [Next]_vars PROVE CallInv'
  BY DEF AllowInv
<1>0. SlimCards /\ call \in Call /\ call' \in Call
  BY TurnsAssumption, TypeStep DEF TypeOK, SlimCards
<1>c. OwnInv /\ YesInv /\ GrantInv /\ OffInv /\ BackedInv
  BY DEF CallInv
<1>p. \A k \in Input : carded[k] \subseteq carded'[k]
  BY PolicyMoves
<1>1. OwnInv'
  <2> SUFFICES ASSUME NEW i \in Input, phase'[i] \in {"card", "allowed"}
               PROVE call'.card = asked'[i] /\ asked'[i] >= 1 /\ call' \in carded'[i]
    BY DEF OwnInv
  <2>1. CASE phase'[i] = "card" /\ phase[i] # "card"
    <3>1. call'.card = asked'[i] /\ call' \in carded'[i]
      BY <2>1, CallMoves
      <3>3. asked'[i] = asked[i] + 1
      BY <2>1, CardOpens
    <3> QED
      BY <1>0, <3>1, <3>3 DEF SlimCards
  <2>2. CASE phase[i] \in {"card", "allowed"} /\ ~(phase'[i] = "card" /\ phase[i] # "card")
    <3>1. call' = call /\ call.card = asked[i] /\ asked[i] >= 1 /\ call \in carded[i]
      BY <1>c, <2>2, CallMoves DEF OwnInv
    <3>2. asked'[i] = asked[i]
      BY <2>2, CardOpens
    <3> QED
      BY <1>p, <3>1, <3>2
  <2> QED
    BY <2>1, <2>2, CallMoves
<1>2. YesInv'
  <2> SUFFICES ASSUME NEW i \in Input, phase'[i] = "allowed"
               PROVE \E say \in Consent : Consented(i, call, say)'
    BY DEF YesInv
  <2>1. call' = call /\ phase[i] \in {"card", "allowed"} /\ call.card = asked[i]
    BY <1>c, CallMoves DEF OwnInv
  <2>2. PICK c \in Call : c = call
    BY <1>0
  <2>3. PICK say \in Consent : Consented(i, c, say) /\ waiter[i] # "open"
    <3>1. CASE phase[i] = "allowed"
      BY <1>c, <2>2, <3>1 DEF YesInv, WaiterInv
    <3>2. CASE phase[i] # "allowed"
      BY <2>1, <2>2, <3>2, CallMoves DEF WaiterInv, Consented, Consent
    <3> QED
      BY <3>1, <3>2
  <2>4. Consented(i, c, say)'
    BY <2>3, YesStays
  <2> QED
    BY <2>1, <2>2, <2>4 DEF Consented
<1>g. ASSUME NEW i \in Input, Granted(i), walk = "done" => walk' = "done" PROVE Granted(i)'
  <2>1. CASE walk = "done"
    BY <1>g, <2>1 DEF Granted
  <2>2. CASE walk # "done"
    <3>1. PICK c \in Call : Settled(i, c, "allow_turn")
      BY <1>g, <2>2 DEF Granted
    <3> QED
      BY <3>1, SettledStays DEF Granted
  <2> QED
    BY <2>1, <2>2
<1>3. GrantInv'
  <2> SUFFICES ASSUME NEW i \in Input, turn' = i, phase'[i] \in Running, grant'
               PROVE Granted(i)'
    BY DEF GrantInv, Running, Live
  <2>1. CASE turn = i /\ phase[i] \in Running /\ grant
    BY <1>c, <1>g, <2>1, CallMoves DEF GrantInv
  <2>2. CASE walk' = "done"
    BY <2>2 DEF Granted
  <2>3. CASE phase[i] = "card" /\ waiter[i] = "allow_turn" /\ waiter'[i] = "none" /\ asked'[i] = asked[i]
    <3>1. PICK c \in Call : c = call
      BY <1>0
    <3>2. Settled(i, c, "allow_turn")'
      BY <1>c, <2>3, <3>1, Resumed DEF Consent
    <3> QED
      BY <3>2 DEF Granted
  <2> QED
    BY <2>1, <2>2, <2>3, CallMoves
<1>s. ASSUME NEW t, SwitchedOff(t) PROVE SwitchedOff(t)'
  <2>1. PICK j \in Input : \E c \in Call :
          /\ ~c.forced /\ c.kind \in Persists /\ Toggle[c.kind] = t
          /\ Settled(j, c, "allow_always")
    BY <1>s DEF SwitchedOff
  <2>2. PICK c \in Call : ~c.forced /\ c.kind \in Persists /\ Toggle[c.kind] = t
                         /\ Settled(j, c, "allow_always")
    BY <2>1
  <2>3. Settled(j, c, "allow_always")'
    BY <2>2, SettledStays
  <2> QED
    BY <2>2, <2>3 DEF SwitchedOff
<1>4. OffInv'
  <2> SUFFICES ASSUME NEW t \in off' PROVE t \in OffAtStart \/ SwitchedOff(t)'
    BY DEF OffInv
  <2>1. CASE t \in off
    BY <1>c, <1>s, <2>1 DEF OffInv
  <2>2. CASE t \notin off
    <3>1. PICK j \in Input :
            /\ phase[j] = "card" /\ waiter[j] = "allow_always" /\ waiter'[j] = "none"
            /\ asked' = asked /\ ~call.forced /\ call.kind \in Persists
            /\ off' = off \cup {Toggle[call.kind]}
      BY <2>2, PolicyMoves
    <3>2. PICK c \in Call : c = call
      BY <1>0
    <3>3. Settled(j, c, "allow_always")'
      BY <1>c, <3>1, <3>2, Resumed DEF Consent
    <3>4. Toggle[c.kind] = t /\ ~c.forced /\ c.kind \in Persists
      BY <2>2, <3>1, <3>2
    <3> QED
      BY <3>3, <3>4 DEF SwitchedOff
  <2> QED
    BY <2>1, <2>2
<1>5. BackedInv'
  <2> SUFFICES ASSUME NEW i \in Input, phase'[i] = "tool" PROVE Backed(i)'
    BY DEF BackedInv
  <2>0. PICK c \in Call : c = call'
    BY <1>0
  <2>w. phase[i] \in Running /\ walk = "done" => walk' = "done"
    BY CallMoves DEF Running, Live
  <2>n. phase[i] \in {"tool", "allowed", "model"} /\ waiter[i] = "none"
    BY CallMoves DEF WaiterInv
  <2>1. CASE phase[i] \in {"tool", "allowed"}
    <3>1. call' = call
      BY <2>1, CallMoves
    <3>2. Backed(i)
      BY <1>c, <2>1 DEF BackedInv, OwnInv, YesInv, Backed
    <3>3. CASE c \in carded[i] /\ \E say \in Consent : Consented(i, c, say)
      <4>1. PICK say \in Consent : Consented(i, c, say)
        BY <3>3
      <4>2. Consented(i, c, say)' /\ c \in carded'[i]
        BY <1>p, <2>n, <3>3, <4>1, YesStays
      <4> QED
        BY <2>0, <4>2 DEF Backed, Consented
    <3>4. CASE ~(c \in carded[i] /\ \E say \in Consent : Consented(i, c, say))
      <4>1. Granted(i) => Granted(i)'
        BY <1>g, <2>1, <2>w DEF Running, Live
      <4>2. SwitchedOff(Toggle[c.kind]) => SwitchedOff(Toggle[c.kind])'
        BY <1>s
      <4> QED
        BY <2>0, <3>1, <3>2, <3>4, <4>1, <4>2 DEF Backed
    <3> QED
      BY <3>3, <3>4
  <2>2. CASE phase[i] = "model"
    <3>1. turn = i /\ ~NeedsCard(c)
      BY <2>0, <2>2, CallMoves
    <3>2. grant => Granted(i)'
      BY <1>c, <1>g, <2>2, <2>w, <3>1 DEF GrantInv, Running, Live
    <3>3. c.kind \in DOMAIN Toggle /\ Toggle[c.kind] \in off =>
            Toggle[c.kind] \in OffAtStart \/ SwitchedOff(Toggle[c.kind])'
      BY <1>c, <1>s DEF OffInv
    <3> QED
      BY <2>0, <3>1, <3>2, <3>3 DEF Backed, NeedsCard
  <2> QED
    BY <2>n, <2>1, <2>2
<1> QED
  BY <1>1, <1>2, <1>3, <1>4, <1>5 DEF CallInv

\* A send, and whatever a card is forced for, runs only on the yes to its own
\* card; any other gated call runs on that, or on one of the listed shortcuts.
THEOREM NothingRunsUnallowed == Spec => []ToolNeedsItsAllow
<1>1. ASSUME Init PROVE TurnInv /\ AllowInv
  <2>1. TurnInv
    BY <1>1, TurnsAssumption DEF Init, TurnInv, Running, Live, TurnLive
  <2>2. ReplyInv /\ WaiterInv /\ LapsedInv
    BY <1>1 DEF Init, ReplyInv, WaiterInv, LapsedInv, Consent
  <2>3. CallInv
    BY <1>1 DEF Init, CallInv, OwnInv, YesInv, GrantInv, OffInv, BackedInv
  <2> QED
    BY <2>1, <2>2, <2>3 DEF AllowInv
<1>2. TypeOK /\ TurnInv /\ AllowInv /\ [Next]_vars => AllowInv'
  BY ReplyInvStep, CardInvStep, CallInvStep DEF AllowInv
<1>3. AllowInv => ToolNeedsItsAllow
  <2> SUFFICES ASSUME AllowInv, NEW i \in Input, phase[i] = "tool" PROVE Allowed(i)
    BY DEF ToolNeedsItsAllow
  <2>1. Backed(i)
    BY DEF AllowInv, CallInv, BackedInv
  <2>2. ASSUME NEW t, SwitchedOff(t)
        PROVE \E j \in Input : \E c \in carded[j] : /\ ~c.forced /\ c.kind \in Persists /\ Toggle[c.kind] = t
                                                       /\ Consented(j, c, "allow_always")
    BY <2>2 DEF SwitchedOff, Settled
  <2>3. Granted(i) => \/ walk = "done"
                      \/ \E c \in carded[i] : Consented(i, c, "allow_turn")
    BY DEF Granted, Settled
  <2> QED
    BY <2>1, <2>2, <2>3 DEF Backed, Allowed
<1> QED
  BY <1>1, <1>2, <1>3, TypeCorrect, TurnInvStep, PTL DEF Spec

-----------------------------------------------------------------------------
(* The answer and its question.  A turn's row joins the conversation with the *)
(* step that lets it talk to the model, and from then on the turn is live, so *)
(* no switch of the conversation is let through.                              *)

HasAsk(i) == \E k \in DOMAIN rows : rows[k].who = i /\ rows[k].role = "user"

\* What a step does to the conversation.
RowsKept ==
  \/ UNCHANGED rows
  \/ \E r \in Row : rows' = Append(rows, r)
  \/ rows' = LastUserMarked
  \/ ~TurnLive

LEMMA HasAskKept ==
  ASSUME TypeOK, RowsKept, TurnLive, NEW i \in Input, HasAsk(i)
  PROVE  HasAsk(i)'
<1>a. rows \in Seq(Row)
  BY DEF TypeOK
<1>k. PICK k \in DOMAIN rows : rows[k].who = i /\ rows[k].role = "user"
  BY DEF HasAsk
<1>1. CASE UNCHANGED rows
  BY <1>1, <1>k DEF HasAsk
<1>2. ASSUME NEW r \in Row, rows' = Append(rows, r) PROVE HasAsk(i)'
  <2>1. k \in DOMAIN rows' /\ rows'[k] = rows[k]
    BY <1>a, <1>k, <1>2
  <2> QED
    BY <2>1, <1>k DEF HasAsk
<1>3. CASE rows' = LastUserMarked
  <2>1. k \in DOMAIN rows'
    BY <1>3, <1>k DEF LastUserMarked
  <2>2. rows[k] \in Row
    BY <1>a, <1>k
  <2>3. rows'[k].who = rows[k].who /\ rows'[k].role = rows[k].role
    BY <1>3, <1>k, <2>2 DEF LastUserMarked, Row
  <2> QED
    BY <2>1, <2>3, <1>k DEF HasAsk
<1> QED
  BY <1>1, <1>2, <1>3 DEF RowsKept

\* A turn comes to talk to the model with its own row, or talked to it before.
LEMMA AskMoves ==
  ASSUME TypeOK, TurnInv, [Next]_vars
  PROVE  /\ RowsKept
         /\ \A i \in Input : phase'[i] \in Answering =>
              \/ phase[i] \in Answering
              \/ rows' = Append(rows, Row1(i, "user"))
<1>0. Slim
  BY TurnsAssumption DEF TypeOK, Slim
<1>r. \A i \in Input \cup {Phone}, role \in {"user", "assistant"} : Row1(i, role) \in Row
  BY DEF Row1, Row
<1> DEFINE Goal ==
      /\ RowsKept
      /\ \A i \in Input : phase'[i] \in Answering =>
           phase[i] \in Answering \/ rows' = Append(rows, Row1(i, "user"))
<1> USE <1>0, <1>r DEF Slim, Answering, Move, RowsKept
<1>1. ASSUME NEW j \in Input, Say(j) \/ OnUser(j) \/ OnVoice(j) PROVE Goal
  BY <1>1 DEF Say, OnUser, OnVoice
<1>2. ASSUME NEW j \in Input, QueueFollow(j) \/ MergeFollow(j) \/ RestartFollow(j) PROVE Goal
  BY <1>2 DEF QueueFollow, MergeFollow, RestartFollow
<1>3. ASSUME NEW j \in Input, TakeLock(j) PROVE Goal
  BY <1>3 DEF TakeLock, NewTask
<1>4. ASSUME NEW j \in Input, CardAnswered(j) \/ CardTimedOut(j) PROVE Goal
  BY <1>4 DEF CardAnswered, CardTimedOut, Resume, NewTask
<1>5. ASSUME NEW j \in Input, Begin(j) \/ Prepared(j) PROVE Goal
  BY <1>5 DEF Begin, Prepared, WriteLine
<1>6. ASSUME NEW j \in Input, FirstChunk(j) \/ Walk(j) \/ Fail(j) \/ CloseTurn(j) PROVE Goal
  BY <1>6 DEF FirstChunk, Walk, Fail, CloseTurn
<1>7. ASSUME NEW j \in Input, NEW c \in Proposed, CallTool(j, c) PROVE Goal
  BY <1>7 DEF CallTool
<1>8. ASSUME NEW j \in Input, Settle(j) \/ ToolDone(j) \/ StreamEnds(j) PROVE Goal
  BY <1>8 DEF Settle, ToolDone, StreamEnds, GoOn, Answer, Notice
<1>9. ASSUME NEW j \in Input, DeliverCancel(j) PROVE Goal
  BY <1>9 DEF DeliverCancel, Notice
<1>10. ASSUME BusStep \/ UNCHANGED vars \/ (\E what \in Happening : Happen(what))
              \/ (\E card \in shown, say \in Answers : AnswerCard(card, say))
       PROVE Goal
  BY <1>10 DEF BusStep, OnReply, OnStop, OnLoad, OnSync, Happen, AnswerCard, vars
<1> QED
  BY <1>1, <1>2, <1>3, <1>4, <1>5, <1>6, <1>7, <1>8, <1>9, <1>10 DEF Next, HandlerStep, TaskStep

\* Whatever is switched, synced, restarted or stopped meanwhile, a turn that
\* talks to the model has its own message in the conversation.
THEOREM AnswersSeeTheirAsk == Spec => []AnswerSeesItsAsk
<1>1. ASSUME Init PROVE TurnInv /\ AnswerSeesItsAsk
  BY <1>1, TurnsAssumption DEF Init, TurnInv, Running, Live, TurnLive, AnswerSeesItsAsk, Answering
<1>2. ASSUME TypeOK, TurnInv, AnswerSeesItsAsk, [Next]_vars PROVE AnswerSeesItsAsk'
  <2> SUFFICES ASSUME NEW i \in Input, phase'[i] \in Answering PROVE HasAsk(i)'
    BY DEF AnswerSeesItsAsk, HasAsk
  <2>1. CASE phase[i] \in Answering
    <3>1. HasAsk(i)
      BY <1>2, <2>1 DEF AnswerSeesItsAsk, HasAsk
    <3>2. TurnLive
      BY <1>2, <2>1, TurnsAssumption DEF TurnInv, TurnLive, Answering, Running, Live
    <3> QED
      BY <1>2, <3>1, <3>2, AskMoves, HasAskKept
  <2>2. CASE rows' = Append(rows, Row1(i, "user"))
    <3>1. rows \in Seq(Row) /\ Row1(i, "user") \in Row
      BY <1>2 DEF TypeOK, Row1, Row
    <3>2. Len(rows) + 1 \in DOMAIN rows' /\ rows'[Len(rows) + 1] = Row1(i, "user")
      BY <2>2, <3>1
    <3> QED
      BY <3>2 DEF HasAsk, Row1
  <2> QED
    BY <1>2, <2>1, <2>2, AskMoves
<1> QED
  BY <1>1, <1>2, TypeCorrect, TurnInvStep, PTL DEF Spec

-----------------------------------------------------------------------------
(* After a Stop.  The flag stays up, or the CancelledError is still to come,  *)
(* until the stopped turn ends; a continuation that lowers the flag resumes   *)
(* before the next turn has done anything.                                    *)

Wound(i) ==
  /\ phase[i] \in Running \cup {"done", "merged"}
  /\ phase[i] \in Live => \/ stopping /\ (cancel \/ phase[i] = "new")
                          \/ phase[i] = "tool" /\ cancel

StopInv ==
  /\ \A i \in stopped : Wound(i)
  /\ RestartDue => \A i \in Input : phase[i] \in Live => phase[i] = "new"

LEMMA StopInvStep == TypeOK /\ TurnInv /\ StopInv /\ [Next]_vars => StopInv'
<1> SUFFICES ASSUME TypeOK, TurnInv, StopInv, [Next]_vars PROVE StopInv'
  OBVIOUS
<1>0. Slim /\ stopped \subseteq Input /\ cancel \in BOOLEAN
  BY TurnsAssumption DEF TypeOK, Slim
<1>t. /\ \A i \in Input : phase[i] \in Running \cup {"grants"} => turn = i
      /\ merging # None => merging = turn
      /\ stopping => TurnLive
  BY DEF TurnInv
<1> USE <1>0, <1>t DEF Slim, StopInv, Wound, RestartDue, Running, Live, TurnLive, Move,
       lockVars, cardVars, loopVars, askVars
<1> HIDE DEF TypeOK, TurnInv
<1>1. ASSUME NEW i \in Input, Say(i) \/ OnUser(i) \/ OnVoice(i) PROVE StopInv'
  <2>1. /\ \A j \in Input : j # i => phase'[j] = phase[j]
        /\ phase[i] \in {"unsent", "sent"} /\ phase'[i] \in {"sent", "staging", "queued", "edited", "heard"}
    BY <1>1 DEF Say, OnUser, OnVoice
  <2>2. UNCHANGED <<cancel, stopping, merging, stopped>>
    BY <1>1 DEF Say, OnUser, OnVoice
  <2>3. RestartDue' <=> RestartDue
    BY <2>1, <2>2
  <2> QED
    BY <2>1, <2>2, <2>3
<1>2. ASSUME NEW i \in Input, QueueFollow(i) PROVE StopInv'
  BY <1>2 DEF QueueFollow
<1>3. ASSUME NEW i \in Input, MergeFollow(i) PROVE StopInv'
  BY <1>3 DEF MergeFollow, CanMerge
<1>4. ASSUME NEW i \in Input, RestartFollow(i) PROVE StopInv'
  BY <1>4 DEF RestartFollow
<1>5. ASSUME NEW i \in Input, TakeLock(i) PROVE StopInv'
  BY <1>5 DEF TakeLock, NewTask
<1>6. ASSUME NEW i \in Input, NEW d \in Decision, Resume(i, d),
             UNCHANGED <<stopping, merging, stopped>>
      PROVE  StopInv'
  <2>0. /\ \A j \in Input : j # i => phase'[j] = phase[j]
        /\ RestartDue' <=> RestartDue
        /\ phase[i] \in {"staging", "grants", "card"} /\ phase'[i] # "merging"
    BY <1>6 DEF Resume, NewTask
  <2>1. CASE phase[i] = "staging"
    <3>1. i \notin stopped /\ phase'[i] \notin Live /\ cancel' = cancel
      BY <1>6, <2>1 DEF Resume
    <3> QED
      BY <1>6, <2>0, <3>1
  <2>2. CASE phase[i] = "grants"
    <3>1. i \notin stopped /\ \A j \in Input : j # i => phase[j] \notin Live
      BY <2>2
    <3>2. phase'[i] \in Live => phase'[i] = "new"
      BY <1>6, <2>2 DEF Resume, NewTask
    <3> QED
      BY <1>6, <2>0, <3>1, <3>2
  <2>3. CASE phase[i] = "card"
    <3>1. i \notin stopped /\ cancel' = cancel /\ ~RestartDue
      BY <1>6, <2>3 DEF Resume
    <3> QED
      BY <1>6, <2>0, <3>1
  <2> QED
    BY <2>0, <2>1, <2>2, <2>3
<1>7. ASSUME NEW i \in Input, CardAnswered(i) \/ CardTimedOut(i) PROVE StopInv'
  BY <1>6, <1>7 DEF CardAnswered, CardTimedOut, Decision, Consent
<1>8. ASSUME NEW i \in Input, Begin(i) \/ Prepared(i) PROVE StopInv'
  BY <1>8 DEF Begin, Prepared, Free, WriteLine
<1>9. ASSUME NEW i \in Input, FirstChunk(i) \/ Walk(i) \/ Fail(i) PROVE StopInv'
  BY <1>9 DEF FirstChunk, Walk, Fail, Free
<1>10. ASSUME NEW i \in Input, NEW c \in Proposed, CallTool(i, c) PROVE StopInv'
  BY <1>10 DEF CallTool, Free
<1>11. ASSUME NEW i \in Input, Settle(i) PROVE StopInv'
  BY <1>11 DEF Settle, GoOn, Answer, Notice
<1>12. ASSUME NEW i \in Input, ToolDone(i) \/ StreamEnds(i) PROVE StopInv'
  BY <1>12 DEF ToolDone, StreamEnds, Free, GoOn, Answer, Notice
<1>13. ASSUME NEW i \in Input, DeliverCancel(i) PROVE StopInv'
  BY <1>13 DEF DeliverCancel, Notice
<1>14. ASSUME NEW i \in Input, CloseTurn(i) PROVE StopInv'
  BY <1>14 DEF CloseTurn
<1>15. ASSUME OnStop PROVE StopInv'
  BY <1>15 DEF OnStop
<1>16. ASSUME OnReply \/ OnLoad \/ OnSync PROVE StopInv'
  BY <1>16 DEF OnReply, OnLoad, OnSync
<1>17. ASSUME \/ \E what \in Happening : Happen(what)
              \/ \E card \in shown, say \in Answers : AnswerCard(card, say)
              \/ UNCHANGED vars
       PROVE  StopInv'
  BY <1>17 DEF Happen, AnswerCard, vars
<1> QED
  BY <1>1, <1>2, <1>3, <1>4, <1>5, <1>7, <1>8, <1>9, <1>10, <1>11, <1>12, <1>13, <1>14, <1>15,
     <1>16, <1>17 DEF Next, HandlerStep, TaskStep, BusStep

\* When an input opens a card, and when its turn starts a call from the stream.
LEMMA OpensWhen ==
  ASSUME TypeOK, [Next]_vars, NEW i \in Input
  PROVE  /\ asked'[i] = asked[i] \/ phase[i] \in {"sent", "queued"} \/ (phase[i] = "model" /\ ~stopping)
         /\ phase'[i] = "tool" /\ phase[i] = "model" => ~stopping
<1>0. Slim /\ asked \in [Input -> Nat]
  BY TurnsAssumption DEF TypeOK, Slim
<1> DEFINE Goal ==
      /\ asked'[i] = asked[i] \/ phase[i] \in {"sent", "queued"} \/ (phase[i] = "model" /\ ~stopping)
      /\ phase'[i] = "tool" /\ phase[i] = "model" => ~stopping
<1> USE <1>0 DEF Slim, Move, cardVars, OpenCard
<1>1. ASSUME NEW j \in Input, Say(j) \/ OnUser(j) \/ OnVoice(j) PROVE Goal
  BY <1>1 DEF Say, OnUser, OnVoice
<1>2. ASSUME NEW j \in Input, QueueFollow(j) \/ MergeFollow(j) \/ RestartFollow(j) PROVE Goal
  BY <1>2 DEF QueueFollow, MergeFollow, RestartFollow
<1>3. ASSUME NEW j \in Input, TakeLock(j) PROVE Goal
  BY <1>3 DEF TakeLock, NewTask
<1>4. ASSUME NEW j \in Input, CardAnswered(j) \/ CardTimedOut(j) PROVE Goal
  BY <1>4 DEF CardAnswered, CardTimedOut, Resume, NewTask
<1>5. ASSUME NEW j \in Input, NEW c \in Proposed, CallTool(j, c) PROVE Goal
  BY <1>5 DEF CallTool, Free
<1>6. ASSUME NEW j \in Input, TaskStep(j), ~\E c \in Proposed : CallTool(j, c) PROVE Goal
  BY <1>6 DEF TaskStep, Begin, Prepared, WriteLine, FirstChunk, Walk, Settle, ToolDone, StreamEnds, Fail,
     DeliverCancel, CloseTurn, GoOn, Answer, Notice, Free
<1>7. ASSUME BusStep \/ UNCHANGED vars \/ (\E what \in Happening : Happen(what))
             \/ (\E card \in shown, say \in Answers : AnswerCard(card, say))
      PROVE Goal
  BY <1>7 DEF BusStep, OnReply, OnStop, OnLoad, OnSync, Happen, AnswerCard, vars
<1> QED
  BY <1>1, <1>2, <1>3, <1>4, <1>5, <1>6, <1>7 DEF Next, HandlerStep

\* After a Stop the turn opens no card and starts no call, other than the one
\* whose card was answered before the Stop was handled.
THEOREM StoppedMeansOver == Spec => StoppedTurnWindsDown
<1>1. ASSUME TypeOK, TurnInv, StopInv, [Next]_vars
      PROVE  [\A i \in stopped : /\ asked'[i] = asked[i]
                                 /\ phase'[i] = "tool" => phase[i] \in {"allowed", "tool"}]_vars
  <2> SUFFICES ASSUME NEW i \in stopped
               PROVE  asked'[i] = asked[i] /\ (phase'[i] = "tool" => phase[i] \in {"allowed", "tool"})
    OBVIOUS
  <2>1. i \in Input /\ Wound(i)
    BY <1>1 DEF TypeOK, StopInv
  <2>2. phase[i] \notin {"unsent", "sent", "staging", "queued", "grants"}
        /\ (phase[i] = "model" => stopping)
    BY <2>1 DEF Wound, Running, Live
  <2>3. asked'[i] = asked[i]
    BY <1>1, <2>1, <2>2, OpensWhen
  <2>4. phase'[i] = "tool" => phase[i] \in {"allowed", "tool"}
    <3>1. CASE phase'[i] = "tool" /\ phase[i] = "model"
      BY <1>1, <2>1, <2>2, <3>1, OpensWhen
    <3> QED
      BY <1>1, <2>1, <3>1, CallMoves
  <2> QED
    BY <2>3, <2>4
<1>2. ASSUME Init PROVE TurnInv /\ StopInv
  BY <1>2, TurnsAssumption DEF Init, TurnInv, StopInv, RestartDue, Running, Live, TurnLive
<1> QED
  BY <1>1, <1>2, TypeCorrect, TurnInvStep, StopInvStep, PTL DEF Spec, StoppedTurnWindsDown

-----------------------------------------------------------------------------
(* Nobody is stranded.  The inputs that are sent, queued or spoken are exactly *)
(* those on the bus, in the queue and in line behind the voice lock, each      *)
(* once; the first of a line, whoever holds the lock, or an open card's asker  *)
(* then always has a step of its own.                                          *)

Sent == {i \in Input : phase[i] = "sent"}
Queued == {i \in Input : phase[i] = "queued"}
Voiced == {i \in Input : phase[i] \in {"heard", "merging"}}

\* The line s holds the members of P, each once.
InLine(s, P) ==
  /\ \A k \in 1 .. Len(s) : s[k] \in P
  /\ \A k, l \in 1 .. Len(s) : s[k] = s[l] => k = l
  /\ \A x \in P : \E k \in 1 .. Len(s) : s[k] = x

Spoken(e) == e.type \in {"user", "voice"}

\* The events b bring the inputs P, each once.
Bring(b, P) ==
  /\ \A k \in 1 .. Len(b) : Spoken(b[k]) => b[k].who \in P
  /\ \A k, l \in 1 .. Len(b) : Spoken(b[k]) /\ Spoken(b[l]) /\ b[k].who = b[l].who => k = l
  /\ \A x \in P : \E k \in 1 .. Len(b) : Spoken(b[k]) /\ b[k].who = x

PlaceInv ==
  /\ Bring(bus, Sent) /\ InLine(queue, Queued) /\ InLine(voice, Voiced)
  /\ \A i \in Input : phase[i] = "merging" => Head(voice) = i
  /\ \A i \in Input : phase[i] \in {"staging", "grants", "card"} => waiter[i] # "none"

LEMMA AppendParts ==
  ASSUME NEW S, NEW s \in Seq(S), NEW e \in S
  PROVE  /\ Len(Append(s, e)) = Len(s) + 1 /\ Len(s) \in Nat
         /\ Append(s, e)[Len(s) + 1] = e /\ \A k \in 1 .. Len(s) : Append(s, e)[k] = s[k]
         /\ s # <<>> => Head(Append(s, e)) = Head(s)
OBVIOUS

LEMMA TailParts ==
  ASSUME NEW S, NEW s \in Seq(S), s # <<>>
  PROVE  /\ Len(Tail(s)) = Len(s) - 1 /\ Len(s) \in Nat /\ Len(s) >= 1
         /\ Head(s) = s[1] /\ \A k \in 1 .. Len(s) - 1 : Tail(s)[k] = s[k + 1]
OBVIOUS

LEMMA LineAppend ==
  ASSUME NEW P \in SUBSET Input, NEW s \in Seq(Input), InLine(s, P), NEW x \in Input, x \notin P
  PROVE  InLine(Append(s, x), P \cup {x})
<1> DEFINE a == Append(s, x)
<1>1. /\ Len(a) = Len(s) + 1 /\ Len(s) \in Nat
      /\ a[Len(s) + 1] = x /\ \A k \in 1 .. Len(s) : a[k] = s[k]
  BY AppendParts
<1> HIDE DEF a
<1>2. \A k \in 1 .. Len(a) : k \in 1 .. Len(s) \/ k = Len(s) + 1
  BY <1>1
<1>3. \A k \in 1 .. Len(a) : a[k] \in P \cup {x}
  BY <1>1, <1>2 DEF InLine
<1>4. \A k, l \in 1 .. Len(a) : a[k] = a[l] => k = l
  BY <1>1, <1>2 DEF InLine
<1>5. \A y \in P \cup {x} : \E k \in 1 .. Len(a) : a[k] = y
  <2>1. Len(s) + 1 \in 1 .. Len(a) /\ 1 .. Len(s) \subseteq 1 .. Len(a)
    BY <1>1
  <2> QED
    BY <1>1, <2>1 DEF InLine
<1> QED
  BY <1>3, <1>4, <1>5 DEF InLine, a

LEMMA LineTail ==
  ASSUME NEW P \in SUBSET Input, NEW s \in Seq(Input), InLine(s, P), s # <<>>
  PROVE  Head(s) \in P /\ InLine(Tail(s), P \ {Head(s)})
<1> DEFINE t == Tail(s)
<1>1. /\ Len(t) = Len(s) - 1 /\ Len(s) \in Nat /\ Len(s) >= 1
      /\ Head(s) = s[1] /\ \A k \in 1 .. Len(t) : t[k] = s[k + 1]
  BY TailParts
<1> HIDE DEF t
<1>2. \A k \in 1 .. Len(t) : k + 1 \in 1 .. Len(s) /\ k + 1 # 1
  BY <1>1
<1>3. Head(s) \in P
  BY <1>1 DEF InLine
<1>4. 1 \in 1 .. Len(s)
  BY <1>1
<1>5. \A k \in 1 .. Len(t) : t[k] \in P \ {Head(s)}
  BY <1>1, <1>2, <1>4 DEF InLine
<1>6. \A k, l \in 1 .. Len(t) : t[k] = t[l] => k = l
  <2> TAKE k, l \in 1 .. Len(t)
  <2> HAVE t[k] = t[l]
  <2>1. k + 1 = l + 1
    BY <1>1, <1>2 DEF InLine
  <2> QED
    BY <2>1
<1>7. \A y \in P \ {Head(s)} : \E k \in 1 .. Len(t) : t[k] = y
  <2> TAKE y \in P \ {Head(s)}
  <2>1. PICK k \in 1 .. Len(s) : s[k] = y
    BY DEF InLine
  <2>2. k # 1
    BY <1>1, <2>1
  <2>3. k - 1 \in 1 .. Len(t) /\ (k - 1) + 1 = k
    BY <1>1, <2>1, <2>2
  <2> QED
    BY <1>1, <2>1, <2>3
<1> QED
  BY <1>3, <1>5, <1>6, <1>7 DEF InLine, t

LEMMA BringAppend ==
  ASSUME NEW P \in SUBSET Input, NEW b \in Seq(Event), Bring(b, P), NEW e \in Event
  PROVE  /\ ~Spoken(e) => Bring(Append(b, e), P)
         /\ Spoken(e) /\ e.who \notin P => Bring(Append(b, e), P \cup {e.who})
<1> DEFINE a == Append(b, e)
<1>1. /\ Len(a) = Len(b) + 1 /\ Len(b) \in Nat
      /\ a[Len(b) + 1] = e /\ \A k \in 1 .. Len(b) : a[k] = b[k]
  BY AppendParts
<1> HIDE DEF a
<1>2. \A k \in 1 .. Len(a) : k \in 1 .. Len(b) \/ k = Len(b) + 1
  BY <1>1
<1>3. Len(b) + 1 \in 1 .. Len(a) /\ 1 .. Len(b) \subseteq 1 .. Len(a)
  BY <1>1
<1>4. ASSUME ~Spoken(e) PROVE Bring(a, P)
  <2>1. \A k \in 1 .. Len(a) : Spoken(a[k]) => k \in 1 .. Len(b) /\ a[k] = b[k]
    BY <1>1, <1>2, <1>4
  <2> QED
    BY <1>1, <1>3, <2>1 DEF Bring
<1>5. ASSUME Spoken(e), e.who \notin P PROVE Bring(a, P \cup {e.who})
  <2>1. \A k \in 1 .. Len(a) : Spoken(a[k]) => a[k].who \in P \cup {e.who}
    BY <1>1, <1>2 DEF Bring
  <2>2. ASSUME NEW k \in 1 .. Len(a), NEW l \in 1 .. Len(a),
               Spoken(a[k]), Spoken(a[l]), a[k].who = a[l].who
        PROVE  k = l
    BY <1>1, <1>2, <1>5, <2>2 DEF Bring
  <2>3. \A x \in P \cup {e.who} : \E k \in 1 .. Len(a) : Spoken(a[k]) /\ a[k].who = x
    BY <1>1, <1>3, <1>5 DEF Bring
  <2> QED
    BY <2>1, <2>2, <2>3 DEF Bring
<1> QED
  BY <1>4, <1>5 DEF a

LEMMA BringTail ==
  ASSUME NEW P \in SUBSET Input, NEW b \in Seq(Event), Bring(b, P), b # <<>>
  PROVE  /\ ~Spoken(Head(b)) => Bring(Tail(b), P)
         /\ Spoken(Head(b)) => Head(b).who \in P /\ Bring(Tail(b), P \ {Head(b).who})
<1> DEFINE t == Tail(b)
<1>1. /\ Len(t) = Len(b) - 1 /\ Len(b) \in Nat /\ Len(b) >= 1
      /\ Head(b) = b[1] /\ \A k \in 1 .. Len(t) : t[k] = b[k + 1]
  BY TailParts
<1> HIDE DEF t
<1>2. \A k \in 1 .. Len(t) : k + 1 \in 1 .. Len(b) /\ k + 1 # 1
  BY <1>1
<1>3. 1 \in 1 .. Len(b)
  BY <1>1
<1>4. \A k, l \in 1 .. Len(t) : Spoken(t[k]) /\ Spoken(t[l]) /\ t[k].who = t[l].who => k = l
  <2> TAKE k, l \in 1 .. Len(t)
  <2> HAVE Spoken(t[k]) /\ Spoken(t[l]) /\ t[k].who = t[l].who
  <2>1. k + 1 = l + 1
    BY <1>1, <1>2 DEF Bring
  <2> QED
    BY <2>1
<1>5. ASSUME NEW x \in P, Spoken(Head(b)) => x # Head(b).who
      PROVE  \E k \in 1 .. Len(t) : Spoken(t[k]) /\ t[k].who = x
  <2>1. PICK k \in 1 .. Len(b) : Spoken(b[k]) /\ b[k].who = x
    BY DEF Bring
  <2>2. k # 1
    BY <1>1, <1>5, <2>1
  <2>3. k - 1 \in 1 .. Len(t) /\ (k - 1) + 1 = k
    BY <1>1, <2>1, <2>2
  <2>4. Spoken(t[k - 1]) /\ t[k - 1].who = x
    BY <1>1, <2>1, <2>3
  <2> QED
    BY <2>3, <2>4
<1>6. ASSUME ~Spoken(Head(b)) PROVE Bring(t, P)
  <2>1. \A k \in 1 .. Len(t) : Spoken(t[k]) => t[k].who \in P
    BY <1>1, <1>2 DEF Bring
  <2> QED
    BY <1>4, <1>5, <1>6, <2>1 DEF Bring
<1>7. ASSUME Spoken(Head(b)) PROVE Head(b).who \in P /\ Bring(t, P \ {Head(b).who})
  <2>1. Head(b).who \in P
    BY <1>1, <1>3, <1>7 DEF Bring
  <2>2. \A k \in 1 .. Len(t) : Spoken(t[k]) => t[k].who \in P \ {Head(b).who}
    BY <1>1, <1>2, <1>3, <1>7 DEF Bring
  <2>3. \A x \in P \ {Head(b).who} : \E k \in 1 .. Len(t) : Spoken(t[k]) /\ t[k].who = x
    BY <1>5
  <2> QED
    BY <1>4, <2>1, <2>2, <2>3 DEF Bring
<1> QED
  BY <1>6, <1>7 DEF t

\* Where one input's move leaves the three sets.
LEMMA SetsMove ==
  ASSUME TypeOK, NEW i \in Input, NEW p \in Phase, Move(i, p)
  PROVE  /\ Sent' = IF p = "sent" THEN Sent \cup {i} ELSE Sent \ {i}
         /\ Queued' = IF p = "queued" THEN Queued \cup {i} ELSE Queued \ {i}
         /\ Voiced' = IF p \in {"heard", "merging"} THEN Voiced \cup {i} ELSE Voiced \ {i}
<1>1. phase'[i] = p /\ \A j \in Input : j # i => phase'[j] = phase[j]
  BY DEF TypeOK, Move
<1> QED
  BY <1>1 DEF Sent, Queued, Voiced

LEMMA SetsStay == UNCHANGED phase => Sent' = Sent /\ Queued' = Queued /\ Voiced' = Voiced
BY DEF Sent, Queued, Voiced

LEMMA PlaceTypes ==
  ASSUME TypeOK
  PROVE  /\ Sent \in SUBSET Input /\ Queued \in SUBSET Input /\ Voiced \in SUBSET Input
         /\ bus \in Seq(Event) /\ queue \in Seq(Input) /\ voice \in Seq(Input)
         /\ phase \in [Input -> Phase]
         /\ waiter \in [Input -> {"none", "open"} \cup Decision]
BY DEF TypeOK, Sent, Queued, Voiced

\* What is said at the composer or into the microphone, and what becomes of it.
LEMMA SayKept ==
  ASSUME TypeOK, PlaceInv, NEW i \in Input, Say(i)
  PROVE  PlaceInv'
<1>a. Sent \in SUBSET Input /\ bus \in Seq(Event) /\ phase \in [Input -> Phase]
  BY PlaceTypes DEF PlaceInv
<1>1. phase[i] = "unsent" /\ Move(i, "sent") /\ UNCHANGED <<queue, voice, waiter>>
  BY DEF Say, lockVars, cardVars
<1>2. PICK e \in Event : Spoken(e) /\ e.who = i /\ bus' = Append(bus, e)
  <2>1. \A t \in {"user", "voice"} : [type |-> t, who |-> i] \in Event
    BY DEF Event
  <2> QED
    BY <2>1 DEF Say, Publish, Spoken
<1>3. Sent' = Sent \cup {i} /\ Queued' = Queued /\ Voiced' = Voiced /\ i \notin Sent
  <2>1. "sent" \in Phase
    BY DEF Phase
  <2>2. i \notin Sent /\ i \notin Queued /\ i \notin Voiced
    BY <1>1 DEF Sent, Queued, Voiced
  <2> QED
    BY <1>1, <2>1, <2>2, SetsMove
<1>4. Bring(bus', Sent')
  BY <1>a, <1>2, <1>3, BringAppend DEF PlaceInv
<1>5. \A j \in Input : phase'[j] = phase[j] \/ phase'[j] = "sent"
  BY <1>a, <1>1 DEF Move
<1> QED
  BY <1>1, <1>3, <1>4, <1>5 DEF PlaceInv

LEMMA OnUserKept ==
  ASSUME TypeOK, PlaceInv, NEW i \in Input, OnUser(i)
  PROVE  PlaceInv'
<1>a. /\ Sent \in SUBSET Input /\ Queued \in SUBSET Input
      /\ bus \in Seq(Event) /\ queue \in Seq(Input) /\ phase \in [Input -> Phase]
      /\ waiter \in [Input -> {"none", "open"} \cup Decision]
  BY PlaceTypes
<1>1. bus # <<>> /\ Spoken(Head(bus)) /\ Head(bus).who = i /\ bus' = Tail(bus)
      /\ phase[i] = "sent" /\ UNCHANGED voice
  BY DEF OnUser, Handle, Spoken
<1>2. i \in Sent /\ i \notin Queued /\ i \notin Voiced
  BY <1>1 DEF Sent, Queued, Voiced
<1>3. Bring(bus', Sent \ {i})
  BY <1>a, <1>1, BringTail DEF PlaceInv
<1>4. CASE i \in Picture
  <2>1. Move(i, "staging") /\ waiter' = [waiter EXCEPT ![i] = "open"] /\ UNCHANGED queue
    BY <1>4 DEF OnUser, OpenCard
  <2>2. Sent' = Sent \ {i} /\ Queued' = Queued /\ Voiced' = Voiced
    BY <1>2, <2>1, SetsMove DEF Phase
  <2>3. \A j \in Input : j # i => phase'[j] = phase[j] /\ waiter'[j] = waiter[j]
    BY <1>a, <2>1 DEF Move
  <2>4. phase'[i] = "staging" /\ waiter'[i] = "open"
    BY <1>a, <2>1 DEF Move
  <2> QED
    BY <1>1, <1>3, <2>1, <2>2, <2>3, <2>4 DEF PlaceInv
<1>5. CASE i \notin Picture
  <2>1. Move(i, "queued") /\ queue' = Append(queue, i) /\ UNCHANGED waiter
    BY <1>5 DEF OnUser, cardVars
  <2>0. "queued" \in Phase
    BY DEF Phase
  <2>5. Sent' = Sent \ {i} /\ Voiced' = Voiced \ {i}
    BY <2>0, <2>1, SetsMove
  <2>6. Queued' = Queued \cup {i}
    BY <2>0, <2>1, SetsMove
  <2>2. Sent' = Sent \ {i} /\ Queued' = Queued \cup {i} /\ Voiced' = Voiced
    BY <1>2, <2>5, <2>6
  <2>3. \A j \in Input : phase'[j] = phase[j] \/ phase'[j] = "queued"
    BY <1>a, <2>1 DEF Move
  <2>4. InLine(queue', Queued')
    BY <1>a, <1>2, <2>1, <2>2, LineAppend DEF PlaceInv
  <2> QED
    BY <1>1, <1>3, <2>1, <2>2, <2>3, <2>4 DEF PlaceInv
<1> QED
  BY <1>4, <1>5

LEMMA OnVoiceKept ==
  ASSUME TypeOK, PlaceInv, NEW i \in Input, OnVoice(i)
  PROVE  PlaceInv'
<1>a. /\ Sent \in SUBSET Input /\ Voiced \in SUBSET Input
      /\ bus \in Seq(Event) /\ voice \in Seq(Input) /\ phase \in [Input -> Phase]
  BY PlaceTypes
<1>1. bus # <<>> /\ Spoken(Head(bus)) /\ Head(bus).who = i /\ bus' = Tail(bus)
      /\ phase[i] = "sent" /\ UNCHANGED <<queue, waiter>>
  BY DEF OnVoice, Handle, Spoken, lockVars, cardVars
<1>2. i \in Sent /\ i \notin Queued /\ i \notin Voiced
  BY <1>1 DEF Sent, Queued, Voiced
<1>3. Bring(bus', Sent \ {i})
  BY <1>a, <1>1, BringTail DEF PlaceInv
<1>4. CASE Waiting
  <2>1. Move(i, "edited") /\ UNCHANGED voice
    BY <1>4 DEF OnVoice
  <2>2. Sent' = Sent \ {i} /\ Queued' = Queued /\ Voiced' = Voiced
    BY <1>2, <2>1, SetsMove DEF Phase
  <2>3. \A j \in Input : phase'[j] = phase[j] \/ phase'[j] = "edited"
    BY <1>a, <2>1 DEF Move
  <2> QED
    BY <1>1, <1>3, <2>1, <2>2, <2>3 DEF PlaceInv
<1>5. CASE ~Waiting
  <2>1. Move(i, "heard") /\ voice' = Append(voice, i)
    BY <1>5 DEF OnVoice
  <2>2. Sent' = Sent \ {i} /\ Queued' = Queued /\ Voiced' = Voiced \cup {i}
    BY <1>2, <2>1, SetsMove DEF Phase
  <2>3. \A j \in Input : phase'[j] = phase[j] \/ phase'[j] = "heard"
    BY <1>a, <2>1 DEF Move
  <2>4. InLine(voice', Voiced')
    BY <1>a, <1>2, <2>1, <2>2, LineAppend DEF PlaceInv
  <2>5. ASSUME NEW j \in Input, phase'[j] = "merging" PROVE Head(voice') = j
    <3>1. phase[j] = "merging" /\ j \in Voiced
      BY <2>3, <2>5 DEF Voiced
    <3>2. voice # <<>>
      <4>1. \E k \in 1 .. Len(voice) : voice[k] = j
        BY <3>1 DEF PlaceInv, InLine
      <4> QED
        BY <1>a, <4>1
    <3> QED
      BY <1>a, <2>1, <3>1, <3>2, AppendParts DEF PlaceInv
  <2> QED
    BY <1>1, <1>3, <2>2, <2>3, <2>4, <2>5 DEF PlaceInv
<1> QED
  BY <1>4, <1>5

\* A continuation leaves the head of its line for the bus.
LEMMA FollowKept ==
  ASSUME TypeOK, PlaceInv, NEW i \in Input, QueueFollow(i) \/ RestartFollow(i)
  PROVE  PlaceInv'
<1>a. /\ Sent \in SUBSET Input /\ Voiced \in SUBSET Input
      /\ bus \in Seq(Event) /\ voice \in Seq(Input) /\ phase \in [Input -> Phase]
  BY PlaceTypes
<1>1. /\ voice # <<>> /\ Head(voice) = i /\ phase[i] \in {"heard", "merging"}
      /\ Move(i, "sent") /\ voice' = Tail(voice) /\ UNCHANGED <<queue, waiter>>
  BY DEF QueueFollow, RestartFollow, lockVars, cardVars
<1>2. PICK e \in Event : Spoken(e) /\ e.who = i /\ bus' = Append(bus, e)
  <2>1. [type |-> "user", who |-> i] \in Event
    BY DEF Event
  <2> QED
    BY <2>1 DEF QueueFollow, RestartFollow, Publish, Spoken
<1>3. i \notin Sent /\ i \notin Queued
  BY <1>1 DEF Sent, Queued
<1>4. Sent' = Sent \cup {i} /\ Queued' = Queued /\ Voiced' = Voiced \ {i}
  BY <1>1, <1>3, SetsMove DEF Phase
<1>5. Bring(bus', Sent')
  BY <1>a, <1>2, <1>3, <1>4, BringAppend DEF PlaceInv
<1>6. InLine(voice', Voiced')
  BY <1>a, <1>1, <1>4, LineTail DEF PlaceInv
<1>7. \A j \in Input : j # i => phase'[j] = phase[j]
  BY <1>a, <1>1 DEF Move
<1>8. phase'[i] = "sent"
  BY <1>a, <1>1 DEF Move
<1>9. \A j \in Input : phase'[j] # "merging"
  BY <1>1, <1>7, <1>8 DEF PlaceInv
<1> QED
  BY <1>1, <1>4, <1>5, <1>6, <1>7, <1>8, <1>9 DEF PlaceInv

LEMMA MergeKept ==
  ASSUME TypeOK, PlaceInv, NEW i \in Input, MergeFollow(i)
  PROVE  PlaceInv'
<1>1. /\ Head(voice) = i /\ phase[i] = "heard" /\ Move(i, "merging")
      /\ UNCHANGED <<bus, queue, voice, waiter>>
  BY DEF MergeFollow, lockVars, cardVars
<1>2. i \in Voiced /\ i \notin Sent /\ i \notin Queued
  BY <1>1 DEF Voiced, Sent, Queued
<1>3. Sent' = Sent /\ Queued' = Queued /\ Voiced' = Voiced
  BY <1>1, <1>2, SetsMove DEF Phase
<1>4. \A j \in Input : j # i => phase'[j] = phase[j]
  BY <1>1, PlaceTypes DEF Move
<1>5. phase'[i] = "merging"
  BY <1>1, PlaceTypes DEF Move
<1> QED
  BY <1>1, <1>3, <1>4, <1>5 DEF PlaceInv

\* The lock goes to the first in the queue.
LEMMA LockKept ==
  ASSUME TypeOK, PlaceInv, NEW i \in Input, TakeLock(i)
  PROVE  PlaceInv'
<1>a. /\ Queued \in SUBSET Input /\ queue \in Seq(Input) /\ phase \in [Input -> Phase]
      /\ waiter \in [Input -> {"none", "open"} \cup Decision]
  BY PlaceTypes
<1>1. /\ queue # <<>> /\ Head(queue) = i /\ phase[i] = "queued" /\ queue' = Tail(queue)
      /\ UNCHANGED <<bus, voice>>
  BY DEF TakeLock
<1>2. PICK p \in {"grants", "new"} : Move(i, p) /\ (p = "grants" => waiter' = [waiter EXCEPT ![i] = "open"])
                                 /\ (p = "new" => UNCHANGED waiter)
  <2>1. CASE i \in Outside
    BY <2>1 DEF TakeLock, OpenCard
  <2>2. CASE i \notin Outside
    BY <2>2 DEF TakeLock, NewTask, cardVars
  <2> QED
    BY <2>1, <2>2
<1>3. i \notin Sent /\ i \notin Voiced
  BY <1>1 DEF Sent, Voiced
<1>4. Sent' = Sent /\ Queued' = Queued \ {i} /\ Voiced' = Voiced
  BY <1>2, <1>3, SetsMove DEF Phase
<1>5. InLine(queue', Queued')
  BY <1>a, <1>1, <1>4, LineTail DEF PlaceInv
<1>6. \A j \in Input : j # i => phase'[j] = phase[j] /\ waiter'[j] = waiter[j]
  BY <1>a, <1>2 DEF Move
<1>7. phase'[i] = p /\ (p = "grants" => waiter'[i] = "open")
  BY <1>a, <1>2 DEF Move
<1> QED
  BY <1>1, <1>4, <1>5, <1>6, <1>7 DEF PlaceInv

\* A card is decided: its asker goes on, to the queue or with its turn.
LEMMA ResumeKept ==
  ASSUME TypeOK, PlaceInv, NEW i \in Input, NEW d \in Decision, Resume(i, d),
         waiter' = [waiter EXCEPT ![i] = "none"], UNCHANGED voice, Bring(bus', Sent)
  PROVE  PlaceInv'
<1>a. /\ Queued \in SUBSET Input /\ queue \in Seq(Input) /\ phase \in [Input -> Phase]
      /\ waiter \in [Input -> {"none", "open"} \cup Decision]
  BY PlaceTypes
<1>1. phase[i] \in {"staging", "grants", "card"}
  BY DEF Resume
<1>2. i \notin Sent /\ i \notin Queued /\ i \notin Voiced
  BY <1>1 DEF Sent, Queued, Voiced
<1>3. ASSUME NEW p \in Phase \ {"sent", "heard", "merging", "staging", "grants", "card"}, Move(i, p),
             InLine(queue', IF p = "queued" THEN Queued \cup {i} ELSE Queued)
      PROVE  PlaceInv'
  <2>1. Sent' = Sent /\ Voiced' = Voiced
    BY <1>2, <1>3, SetsMove
  <2>2. Queued' = IF p = "queued" THEN Queued \cup {i} ELSE Queued
    BY <1>2, <1>3, SetsMove
  <2>3. \A j \in Input : j # i => phase'[j] = phase[j] /\ waiter'[j] = waiter[j]
    BY <1>a, <1>3 DEF Move
  <2>4. phase'[i] = p
    BY <1>a, <1>3 DEF Move
  <2> QED
    BY <1>3, <2>1, <2>2, <2>3, <2>4 DEF PlaceInv
<1>4. CASE Move(i, "queued") /\ queue' = Append(queue, i)
  <2>1. InLine(queue', Queued \cup {i})
    BY <1>a, <1>2, <1>4, LineAppend DEF PlaceInv
  <2> QED
    BY <1>3, <1>4, <2>1 DEF Phase
<1>5. ASSUME NEW p \in {"new", "done", "declined", "allowed"}, Move(i, p), UNCHANGED queue
      PROVE  PlaceInv'
  BY <1>3, <1>5 DEF PlaceInv, Phase
<1>6. \/ Move(i, "queued") /\ queue' = Append(queue, i)
      \/ \E p \in {"new", "done", "declined", "allowed"} : Move(i, p) /\ UNCHANGED queue
  BY DEF Resume, NewTask, lockVars
<1> QED
  BY <1>4, <1>5, <1>6

\* The running turn goes on: nobody's place changes but its own, and a card it
\* opens has a future.
LEMMA TaskMoves ==
  ASSUME TypeOK, TurnInv, NEW i \in Input, TaskStep(i)
  PROVE  /\ phase[i] \in Running /\ UNCHANGED <<bus, queue, voice>>
         /\ \A j \in Input : j # i => waiter'[j] = waiter[j]
         /\ \/ UNCHANGED phase /\ UNCHANGED waiter
            \/ \E p \in (Running \ {"card"}) \cup {"done", "merged"} : Move(i, p)
            \/ Move(i, "card") /\ waiter'[i] = "open"
<1>a. waiter \in [Input -> {"none", "open"} \cup Decision]
  BY PlaceTypes
<1> USE DEF Running, Live, lockVars, cardVars
<1>1. CASE Begin(i) \/ Prepared(i)
  BY <1>1 DEF Begin, Prepared, WriteLine
<1>2. CASE FirstChunk(i) \/ Walk(i)
  BY <1>2 DEF FirstChunk, Walk
<1>3. CASE \E c \in Proposed : CallTool(i, c)
  <2>1. PICK c \in Proposed : CallTool(i, c)
    BY <1>3
  <2>2. CASE NeedsCard(c)
    BY <2>1, <2>2, <1>a DEF CallTool, OpenCard
  <2>3. CASE ~NeedsCard(c)
    BY <2>1, <2>3 DEF CallTool
  <2> QED
    BY <2>2, <2>3
<1>4. CASE Settle(i) \/ ToolDone(i)
  BY <1>4 DEF Settle, ToolDone, GoOn, Answer, Notice
<1>5. CASE StreamEnds(i) \/ Fail(i)
  BY <1>5 DEF StreamEnds, Fail, Answer, Notice
<1>6. CASE DeliverCancel(i)
  BY <1>6, <1>a DEF DeliverCancel, Notice
<1>7. CASE CloseTurn(i)
  BY <1>7 DEF CloseTurn
<1> QED
  BY <1>1, <1>2, <1>3, <1>4, <1>5, <1>6, <1>7 DEF TaskStep

LEMMA TaskKept ==
  ASSUME TypeOK, TurnInv, PlaceInv, NEW i \in Input, TaskStep(i)
  PROVE  PlaceInv'
<1>a. phase \in [Input -> Phase]
  BY PlaceTypes
<1>1. /\ phase[i] \in Running /\ UNCHANGED <<bus, queue, voice>>
      /\ \A j \in Input : j # i => waiter'[j] = waiter[j]
  BY TaskMoves
<1>2. CASE UNCHANGED phase /\ UNCHANGED waiter
  BY <1>1, <1>2, SetsStay DEF PlaceInv
<1>3. ASSUME NEW p \in Running \cup {"done", "merged"}, Move(i, p), p = "card" => waiter'[i] = "open"
      PROVE  PlaceInv'
  <2>1. p \in Phase /\ p \notin {"sent", "queued", "heard", "merging", "staging", "grants"}
    BY DEF Running, Live, Phase
  <2>2. i \notin Sent /\ i \notin Queued /\ i \notin Voiced
    BY <1>1 DEF Sent, Queued, Voiced, Running, Live
  <2>3. Sent' = Sent /\ Queued' = Queued /\ Voiced' = Voiced
    BY <1>3, <2>1, <2>2, SetsMove
  <2>4. \A j \in Input : j # i => phase'[j] = phase[j]
    BY <1>3, <1>a DEF Move
  <2>5. phase'[i] = p
    BY <1>3, <1>a DEF Move
  <2> QED
    BY <1>1, <1>3, <2>1, <2>3, <2>4, <2>5 DEF PlaceInv
<1>4. \/ UNCHANGED phase /\ UNCHANGED waiter
      \/ \E p \in (Running \ {"card"}) \cup {"done", "merged"} : Move(i, p)
      \/ Move(i, "card") /\ waiter'[i] = "open"
  BY TaskMoves
<1>5. "card" \in Running
  BY DEF Running, Live
<1> QED
  BY <1>2, <1>3, <1>4, <1>5

LEMMA CardKept ==
  ASSUME TypeOK, PlaceInv, NEW i \in Input, CardAnswered(i) \/ CardTimedOut(i)
  PROVE  PlaceInv'
<1>a. Sent \in SUBSET Input /\ bus \in Seq(Event) /\ asked \in [Input -> Nat]
  BY PlaceTypes DEF TypeOK
<1>1. CASE CardAnswered(i)
  <2>1. /\ waiter[i] \in Decision /\ Resume(i, waiter[i])
        /\ waiter' = [waiter EXCEPT ![i] = "none"] /\ UNCHANGED <<bus, voice>>
    BY <1>1 DEF CardAnswered
  <2>2. Bring(bus', Sent)
    BY <2>1 DEF PlaceInv
  <2> QED
    BY <2>1, <2>2, ResumeKept
<1>2. CASE CardTimedOut(i)
  <2> DEFINE e == [type |-> "reply", card |-> <<i, asked[i]>>, say |-> "skip"]
  <2>1. /\ Resume(i, "skip") /\ bus' = Append(bus, e)
        /\ waiter' = [waiter EXCEPT ![i] = "none"] /\ UNCHANGED voice
    BY <1>2 DEF CardTimedOut, Publish
  <2>2. e \in Event /\ ~Spoken(e)
    BY <1>a DEF Event, Card, Decision, Consent, Spoken
  <2>3. Bring(bus', Sent)
    BY <1>a, <2>1, <2>2, BringAppend DEF PlaceInv
  <2>4. "skip" \in Decision
    BY DEF Decision, Consent
  <2> QED
    BY <2>1, <2>3, <2>4, ResumeKept
<1> QED
  BY <1>1, <1>2

\* What comes from the outside, and the handlers that move no input.
LEMMA OtherKept ==
  ASSUME TypeOK, PlaceInv, [Next]_vars,
         ~ \E i \in Input : Say(i) \/ HandlerStep(i) \/ TaskStep(i)
  PROVE  PlaceInv'
<1>a. /\ Sent \in SUBSET Input /\ bus \in Seq(Event)
      /\ waiter \in [Input -> {"none", "open"} \cup Decision]
      /\ shown \subseteq Card
  BY PlaceTypes DEF TypeOK
<1>1. ASSUME UNCHANGED <<phase, queue, voice>>, Bring(bus', Sent),
             \A j \in Input : waiter[j] # "none" => waiter'[j] # "none"
      PROVE  PlaceInv'
  BY <1>1, SetsStay DEF PlaceInv
<1>2. ASSUME NEW e \in Event, ~Spoken(e), bus' = Append(bus, e), UNCHANGED <<phase, queue, voice, waiter>>
      PROVE  PlaceInv'
  <2>1. Bring(bus', Sent)
    BY <1>a, <1>2, BringAppend DEF PlaceInv
  <2> QED
    BY <1>1, <1>2, <2>1
<1>3. CASE \E card \in shown, say \in Answers : AnswerCard(card, say)
  <2>1. PICK card \in shown, say \in Answers : AnswerCard(card, say)
    BY <1>3
  <2> DEFINE e == [type |-> "reply", card |-> card, say |-> say]
  <2>2. e \in Event /\ ~Spoken(e)
    BY <1>a, TurnsAssumption DEF Event, Spoken
  <2>3. bus' = Append(bus, e) /\ UNCHANGED <<phase, queue, voice, waiter>>
    BY <2>1 DEF AnswerCard, Publish, lockVars
  <2> QED
    BY <1>2, <2>2, <2>3
<1>4. CASE \E what \in Happening : Happen(what)
  <2>1. PICK what \in Happening : Happen(what)
    BY <1>4
  <2> DEFINE e == [type |-> what]
  <2>2. e \in Event /\ ~Spoken(e)
    BY DEF Event, Spoken, Happening
  <2>3. bus' = Append(bus, e) /\ UNCHANGED <<phase, queue, voice, waiter>>
    BY <2>1 DEF Happen, Publish, lockVars, cardVars
  <2> QED
    BY <1>2, <2>2, <2>3
<1>5. CASE BusStep
  <2>1. /\ bus # <<>> /\ Head(bus).type \in {"reply", "stop", "load", "sync"} /\ bus' = Tail(bus)
        /\ UNCHANGED <<phase, queue, voice>>
    BY <1>5 DEF BusStep, OnReply, OnStop, OnLoad, OnSync, Handle, lockVars
  <2>2. Bring(bus', Sent)
    BY <1>a, <2>1, BringTail DEF PlaceInv, Spoken
  <2>3. ASSUME OnReply, NEW j \in Input, waiter[j] # "none" PROVE waiter'[j] # "none"
    <3>1. Head(bus) \in Event /\ Head(bus).type = "reply"
      BY <1>a, <2>3, SeqOps DEF OnReply, Handle
    <3>2. Head(bus).say \in Decision
      BY <3>1 DEF Event, Happening
    <3>3. PICK i : i = Head(bus).card[1]
      OBVIOUS
    <3>4. waiter' = [waiter EXCEPT ![i] =
                    IF @ = "open" /\ Head(bus).card[2] = asked[i] THEN Head(bus).say ELSE @]
      BY <2>3, <3>3 DEF OnReply
    <3> QED
      BY <1>a, <2>3, <3>2, <3>4 DEF Decision, Consent
  <2>4. ASSUME OnStop \/ OnLoad \/ OnSync, NEW j \in Input, waiter[j] # "none" PROVE waiter'[j] # "none"
    BY <1>a, <2>4 DEF OnStop, OnLoad, OnSync, cardVars
  <2>5. \A j \in Input : waiter[j] # "none" => waiter'[j] # "none"
    BY <1>5, <2>3, <2>4 DEF BusStep
  <2> QED
    BY <1>1, <2>1, <2>2, <2>5
<1>6. CASE UNCHANGED vars
  BY <1>6, SetsStay DEF PlaceInv, vars, lockVars, cardVars
<1> QED
  BY <1>3, <1>4, <1>5, <1>6 DEF Next

LEMMA InitPlace == Init => PlaceInv
<1> SUFFICES ASSUME Init PROVE PlaceInv
  OBVIOUS
<1>1. Sent = {} /\ Queued = {} /\ Voiced = {} /\ bus = <<>> /\ queue = <<>> /\ voice = <<>>
      /\ \A i \in Input : phase[i] = "unsent"
  BY DEF Init, Sent, Queued, Voiced
<1>2. \A k \in 1 .. Len(<<>>) : FALSE
  OBVIOUS
<1> QED
  BY <1>1, <1>2 DEF PlaceInv, Bring, InLine

LEMMA PlaceKept == TypeOK /\ TurnInv /\ PlaceInv /\ [Next]_vars => PlaceInv'
<1> SUFFICES ASSUME TypeOK, TurnInv, PlaceInv, [Next]_vars PROVE PlaceInv'
  OBVIOUS
<1>1. ASSUME NEW i \in Input, HandlerStep(i) PROVE PlaceInv'
  BY <1>1, OnUserKept, OnVoiceKept, FollowKept, MergeKept, LockKept, CardKept DEF HandlerStep
<1> QED
  BY <1>1, SayKept, TaskKept, OtherKept

\* Somebody can go on, or no input is under way.
LEMMA SomebodyIsDue ==
  ASSUME TypeOK, TurnInv, PlaceInv, ~BusMoves, NEW i \in Input, phase[i] \notin Ended \cup {"unsent"}
  PROVE  \E j \in Input : Due(j)
<1>a. /\ bus \in Seq(Event) /\ queue \in Seq(Input) /\ voice \in Seq(Input)
      /\ phase \in [Input -> Phase] /\ turn \in Input \cup {None} /\ None \notin Input
  BY TurnsAssumption DEF TypeOK
<1>1. bus = <<>> /\ phase[i] # "sent"
  <2>1. ASSUME bus # <<>> PROVE FALSE
    <3>1. Head(bus) = bus[1] /\ 1 \in 1 .. Len(bus)
      BY <1>a, <2>1
    <3>2. Spoken(Head(bus)) => Head(bus).who \in Sent
      BY <3>1 DEF PlaceInv, Bring
    <3> QED
      BY <2>1, <3>2 DEF BusMoves, Spoken, Sent
  <2>2. \A k \in 1 .. Len(bus) : FALSE
    BY <2>1
  <2>3. i \notin Sent
    BY <2>2 DEF PlaceInv, Bring
  <2> QED
    BY <2>1, <2>3 DEF Sent
<1>2. ASSUME NEW j \in Voiced
      PROVE  voice # <<>> /\ Head(voice) \in Input /\ phase[Head(voice)] \in {"heard", "merging"}
  <2>1. PICK k \in 1 .. Len(voice) : voice[k] = j
    BY DEF PlaceInv, InLine
  <2>2. voice # <<>> /\ Head(voice) = voice[1] /\ 1 \in 1 .. Len(voice)
    BY <1>a, <2>1
  <2> QED
    BY <2>2 DEF PlaceInv, InLine, Voiced
<1>3. CASE turn # None
  <2>1. turn \in Input /\ phase[turn] \in Running \cup {"grants"}
    BY <1>3, <1>a DEF TurnInv
  <2>2. CASE phase[turn] = "new" /\ ~stopping /\ RestartDue
    <3>1. PICK j \in Input : phase[j] = "merging" /\ merging = None
      BY <2>2 DEF RestartDue
    <3>2. Head(voice) = j /\ voice # <<>>
      BY <1>2, <3>1 DEF PlaceInv, Voiced
    <3> QED
      BY <3>1, <3>2 DEF Due
  <2>3. CASE ~(phase[turn] = "new" /\ ~stopping /\ RestartDue)
    <3>1. phase[turn] \in {"grants", "card"} => waiter[turn] # "none"
      BY <2>1 DEF PlaceInv
    <3>2. Due(turn)
      BY <2>1, <2>3, <3>1 DEF Due, Running, Live
    <3> QED
      BY <2>1, <3>2
  <2> QED
    BY <2>2, <2>3
<1>4. CASE turn = None
  <2>0. merging = None
    BY <1>4 DEF TurnInv
  <2>1. phase[i] \in {"staging", "queued", "heard", "merging"}
    <3>1. phase[i] \in Phase /\ phase[i] \notin Running \cup {"grants"}
      BY <1>4, <1>a DEF TurnInv
    <3> QED
      BY <1>1, <3>1 DEF Phase, Running, Live, Ended
  <2>2. CASE phase[i] = "staging"
    BY <2>2 DEF Due, PlaceInv
  <2>3. CASE phase[i] = "queued"
    <3>1. PICK k \in 1 .. Len(queue) : queue[k] = i
      BY <2>3 DEF PlaceInv, InLine, Queued
    <3>2. queue # <<>> /\ Head(queue) = queue[1] /\ 1 \in 1 .. Len(queue)
      BY <1>a, <3>1
    <3>3. Head(queue) \in Input /\ phase[Head(queue)] = "queued"
      BY <3>2 DEF PlaceInv, InLine, Queued
    <3> QED
      BY <1>4, <3>2, <3>3 DEF Due
  <2>4. CASE phase[i] \in {"heard", "merging"}
    <3>1. voice # <<>> /\ Head(voice) \in Input /\ phase[Head(voice)] \in {"heard", "merging"}
      BY <1>2, <2>4 DEF Voiced
    <3> QED
      BY <2>0, <3>1 DEF Due
  <2> QED
    BY <2>1, <2>2, <2>3, <2>4
<1> QED
  BY <1>3, <1>4

\* No message and no continuation is dropped between the bus, the queue, the voice
\* lock and a turn, and whoever waits there waits for somebody who can go on: the
\* locks, the cards and the restart of a turn never wait for each other.
THEOREM WaitingEnds == Spec => []NobodyIsStranded
<1>1. Init => TurnInv
  BY TurnsAssumption DEF Init, TurnInv, Running, Live, TurnLive
<1>2. TypeOK /\ TurnInv /\ PlaceInv /\ [Next]_vars => TurnInv' /\ PlaceInv'
  BY TurnInvStep, PlaceKept
<1>3. TypeOK /\ TurnInv /\ PlaceInv => NobodyIsStranded
  <2> SUFFICES ASSUME TypeOK, TurnInv, PlaceInv, NEW i \in Input, phase[i] \notin Ended \cup {"unsent"}
               PROVE  Kept(i) /\ (BusMoves \/ \E j \in Input : Due(j))
    BY DEF NobodyIsStranded
  <2>1. DOMAIN bus = 1 .. Len(bus) /\ DOMAIN queue = 1 .. Len(queue) /\ DOMAIN voice = 1 .. Len(voice)
    BY PlaceTypes
  <2>2. Kept(i)
    BY <2>1 DEF Kept, PlaceInv, Bring, InLine, Sent, Queued, Voiced, Spoken
  <2> QED
    BY <2>2, SomebodyIsDue
<1> QED
  BY <1>1, <1>2, <1>3, InitPlace, TypeCorrect, PTL DEF Spec

-----------------------------------------------------------------------------
(* One turn at a time: each step is a step of SerialTurns or none.            *)

stage == [i \in Input |-> Stage[phase[i]]]

LEMMA StageOf ==
  /\ \A p \in {"sent", "staging", "queued", "heard", "merging"} : Stage[p] = "waiting"
  /\ \A p \in Running \cup {"grants"} : Stage[p] = "running"
  /\ Stage["unsent"] = "unsent" /\ Stage["done"] = "ended"
  /\ Stage["merged"] = "restarted" /\ Stage["edited"] = "folded"
BY DEF Stage, Phase, Running, Live

\* A move of one input within its stage, and out of it.
LEMMA StageMove ==
  ASSUME phase \in [Input -> Phase], NEW i \in Input, NEW p \in Phase, Move(i, p)
  PROVE  /\ stage' = [stage EXCEPT ![i] = Stage[p]]
         /\ Stage[p] = stage[i] => stage' = stage
<1>1. phase'[i] = p /\ \A j \in Input : j # i => phase'[j] = phase[j]
  BY DEF Move
<1>2. \A j \in Input : stage'[j] = IF j = i THEN Stage[p] ELSE stage[j]
  BY <1>1 DEF stage
<1>3. stage' = [j \in Input |-> stage'[j]] /\ stage = [j \in Input |-> stage[j]]
  BY DEF stage
<1> QED
  BY <1>2, <1>3

LEMMA SerialStep == TypeOK /\ TurnInv /\ [Next]_vars => [Serial!Next]_<<stage, terminals>>
<1> SUFFICES ASSUME TypeOK, TurnInv, [Next]_vars,
                    ~(UNCHANGED <<stage, terminals>>)
             PROVE  Serial!Next
  OBVIOUS
<1>0. phase \in [Input -> Phase] /\ terminals \in [Input -> Nat]
  BY DEF TypeOK
<1>a. ASSUME NEW i \in Input, NEW p \in Phase, Move(i, p)
      PROVE  stage' = [stage EXCEPT ![i] = Stage[p]] /\ (Stage[p] = stage[i] => stage' = stage)
  BY <1>0, <1>a, StageMove
<1>b. \A i \in Input : stage[i] = Stage[phase[i]]
  BY DEF stage
<1>c. UNCHANGED phase => stage' = stage
  BY DEF stage
<1>1. ASSUME NEW i \in Input, Say(i) PROVE Serial!Next
  <2>1. phase[i] = "unsent" /\ Move(i, "sent") /\ UNCHANGED terminals /\ "sent" \in Phase
    BY <1>1 DEF Say, Phase
  <2>2. stage[i] = "unsent" /\ stage' = [stage EXCEPT ![i] = "waiting"]
    BY <2>1, <1>a, <1>b, StageOf
  <2> QED
    BY <2>1, <2>2 DEF Serial!Next, Serial!Send, Serial!Become, stage
<1>2. ASSUME NEW i \in Input, OnUser(i) \/ QueueFollow(i) \/ MergeFollow(i) \/ RestartFollow(i) PROVE FALSE
  <2>1. UNCHANGED terminals /\ phase[i] \in {"sent", "heard", "merging"}
        /\ \E p \in {"sent", "staging", "queued", "merging"} : Move(i, p)
    BY <1>2 DEF OnUser, QueueFollow, MergeFollow, RestartFollow
  <2>2. PICK p \in {"sent", "staging", "queued", "merging"} : Move(i, p)
    BY <2>1
  <2>3. p \in Phase /\ Stage[p] = "waiting" /\ stage[i] = "waiting"
    BY <2>1, <2>2, <1>b, StageOf DEF Phase
  <2> QED
    BY <2>1, <2>2, <2>3, <1>a
<1>3. ASSUME NEW i \in Input, OnVoice(i) PROVE Serial!Next
  <2>1. phase[i] = "sent" /\ UNCHANGED terminals /\ (Move(i, "edited") \/ Move(i, "heard"))
    BY <1>3 DEF OnVoice
  <2>2. "edited" \in Phase /\ "heard" \in Phase /\ stage[i] = "waiting"
    BY <2>1, <1>b, StageOf DEF Phase
  <2>3. ~Move(i, "heard")
    BY <2>1, <2>2, <1>a, StageOf
  <2>4. stage' = [stage EXCEPT ![i] = "folded"]
    BY <2>1, <2>2, <2>3, <1>a, StageOf
  <2> QED
    BY <2>1, <2>2, <2>4 DEF Serial!Next, Serial!Fold, Serial!Become, stage
<1>4. ASSUME NEW i \in Input, TakeLock(i) PROVE Serial!Next
  <2>1. turn = None /\ phase[i] = "queued" /\ UNCHANGED terminals
        /\ (Move(i, "grants") \/ Move(i, "new"))
    BY <1>4 DEF TakeLock, NewTask
  <2>2. PICK p \in {"grants", "new"} : Move(i, p)
    BY <2>1
  <2>3. p \in Phase /\ Stage[p] = "running" /\ stage[i] = "waiting"
    BY <2>1, <1>b, StageOf DEF Phase, Running, Live
  <2>4. \A j \in Input : stage[j] # "running"
    <3>1. \A j \in Input : phase[j] \in Phase /\ phase[j] \notin Running \cup {"grants"}
      BY <1>0, <2>1, TurnsAssumption DEF TurnInv
    <3>2. \A p1 \in Phase : p1 \notin Running \cup {"grants"} => Stage[p1] # "running"
      BY DEF Stage, Phase, Running, Live
    <3> QED
      BY <1>b, <3>1, <3>2
  <2>5. stage' = [stage EXCEPT ![i] = "running"]
    BY <2>2, <2>3, <1>a
  <2> QED
    BY <2>1, <2>3, <2>4, <2>5 DEF Serial!Next, Serial!Start, Serial!Become, stage
<1>5. ASSUME NEW i \in Input, NEW d \in Decision, Resume(i, d) PROVE Serial!Next
  <2>1. CASE phase[i] \in {"staging", "grants"} /\ Move(i, "done") /\ Terminal(i)
    <3>1. terminals[i] = 0
      BY <2>1 DEF TurnInv
    <3>2. terminals' = [terminals EXCEPT ![i] = 1]
      BY <1>0, <2>1, <3>1 DEF Terminal
    <3>3. stage' = [stage EXCEPT ![i] = "ended"]
      BY <2>1, <1>a, StageOf DEF Phase
    <3>4. phase[i] = "staging" => stage[i] = "waiting"
      BY <1>b, StageOf
    <3>5. phase[i] = "grants" => stage[i] = "running"
      BY <1>b, StageOf
    <3>6. Serial!Refuse(i) \/ Serial!End(i)
      BY <2>1, <3>1, <3>2, <3>3, <3>4, <3>5 DEF Serial!Refuse, Serial!End, Serial!Become, Serial!TellEnd, stage
    <3> QED
      BY <3>6 DEF Serial!Next
  <2>2. CASE phase[i] = "staging" /\ Move(i, "queued") /\ UNCHANGED terminals
    BY <2>2, <1>a, <1>b, StageOf DEF Phase
  <2>3. CASE /\ phase[i] \in Running \cup {"grants"} /\ UNCHANGED terminals
             /\ \E p \in Running : Move(i, p)
    <3>1. PICK p \in Running : Move(i, p)
      BY <2>3
    <3>2. p \in Phase /\ Stage[p] = stage[i]
      BY <2>3, <1>b, StageOf DEF Phase, Running, Live
    <3> QED
      BY <2>3, <3>1, <3>2, <1>a
  <2>4. "new" \in Running /\ "declined" \in Running /\ "allowed" \in Running /\ "card" \in Running
    BY DEF Running, Live
  <2> QED
    BY <1>5, <2>1, <2>2, <2>3, <2>4 DEF Resume, NewTask
<1>6. ASSUME NEW i \in Input, CardAnswered(i) \/ CardTimedOut(i) PROVE Serial!Next
  BY <1>5, <1>6 DEF CardAnswered, CardTimedOut, Decision, Consent
<1>7. ASSUME NEW i \in Input, TaskStep(i), ~CloseTurn(i) PROVE Serial!Next
  <2>1. /\ phase[i] \in Live
        /\ UNCHANGED phase \/ \E p \in Running : Move(i, p)
        /\ UNCHANGED terminals \/ Terminal(i)
    BY <1>7 DEF TaskStep, Begin, Prepared, WriteLine, FirstChunk, Walk, CallTool, Settle, ToolDone, StreamEnds,
       Fail, DeliverCancel, GoOn, Answer, Notice, Free, Running, Live
  <2>2. stage' = stage
    <3>1. CASE \E p \in Running : Move(i, p)
      <4>1. PICK p \in Running : Move(i, p)
        BY <3>1
      <4>2. p \in Phase /\ Stage[p] = stage[i]
        BY <2>1, <1>b, StageOf DEF Phase, Running, Live
      <4> QED
        BY <4>1, <4>2, <1>a
    <3> QED
      BY <2>1, <3>1, <1>c
  <2>3. stage[i] = "running" /\ terminals[i] = 0
    BY <2>1, <1>b, StageOf DEF TurnInv, Running, Live
  <2>4. terminals' = [terminals EXCEPT ![i] = 1]
    BY <1>0, <2>1, <2>2, <2>3 DEF Terminal
  <2> QED
    BY <2>2, <2>3, <2>4 DEF Serial!Next, Serial!Tell, Serial!TellEnd, stage
<1>8. ASSUME NEW i \in Input, CloseTurn(i) PROVE Serial!Next
  <2>1. phase[i] \in {"finished", "cut"} /\ turn = i /\ stage[i] = "running"
    BY <1>8, <1>b, StageOf DEF CloseTurn, Running
  <2>2. CASE merging = i
    <3>1. Move(i, "merged") /\ UNCHANGED terminals
      BY <1>8, <2>2 DEF CloseTurn
    <3>2. terminals[i] = 0
      BY <2>1, <2>2, TurnsAssumption DEF TurnInv
    <3>3. stage' = [stage EXCEPT ![i] = "restarted"]
      BY <3>1, <1>a, StageOf DEF Phase
    <3> QED
      BY <2>1, <3>1, <3>2, <3>3 DEF Serial!Next, Serial!Restart, Serial!Become, stage
  <2>3. CASE merging # i
    <3>1. Move(i, "done")
          /\ terminals' = IF phase[i] = "cut" THEN [terminals EXCEPT ![i] = @ + 1] ELSE terminals
      BY <1>8, <2>3 DEF CloseTurn
    <3>2. terminals[i] = IF phase[i] = "cut" THEN 0 ELSE 1
      BY <2>1, <2>3, TurnsAssumption DEF TurnInv, Running
    <3>3. terminals' = [terminals EXCEPT ![i] = 1]
      <4>1. CASE phase[i] = "cut"
        <5>1. terminals[i] + 1 = 1
          BY <3>2, <4>1
        <5> QED
          BY <3>1, <4>1, <5>1
      <4>2. CASE phase[i] # "cut"
        <5>1. terminals[i] = 1 /\ terminals' = terminals
          BY <3>1, <3>2, <4>2
        <5> QED
          BY <1>0, <5>1
      <4> QED
        BY <4>1, <4>2
    <3>4. stage' = [stage EXCEPT ![i] = "ended"]
      BY <3>1, <1>a, StageOf DEF Phase
    <3> QED
      BY <2>1, <3>3, <3>4 DEF Serial!Next, Serial!End, Serial!Become, Serial!TellEnd, stage
  <2> QED
    BY <2>2, <2>3
<1>9. ASSUME UNCHANGED <<phase, terminals>> PROVE FALSE
  BY <1>9, <1>c
<1>10. ASSUME BusStep \/ (\E what \in Happening : Happen(what))
              \/ (\E card \in shown, say \in Answers : AnswerCard(card, say)) \/ UNCHANGED vars
       PROVE  FALSE
  BY <1>9, <1>10 DEF BusStep, OnReply, OnStop, OnLoad, OnSync, Happen, AnswerCard, vars
<1> QED
  BY <1>1, <1>2, <1>3, <1>4, <1>6, <1>7, <1>8, <1>10 DEF Next, HandlerStep, TaskStep

\* The orchestrator serves its inputs one at a time, whatever cards, Stops and
\* continuations come between; it tells each its end once, and begins again only
\* what it has told nothing.
THEOREM TurnsImplementSerial == Spec => OneAtATime
<1>1. Init => TurnInv
  BY TurnsAssumption DEF Init, TurnInv, Running, Live, TurnLive
<1>2. Init => Serial!Init
  BY StageOf DEF Init, Serial!Init, stage
<1> QED
  BY <1>1, <1>2, TypeCorrect, TurnInvStep, SerialStep, PTL DEF Spec, OneAtATime, Serial!Spec, stage
=============================================================================
