---------------------------- MODULE SpeechProofs ----------------------------
(* Proofs about Speech.                                                       *)
(*                                                                            *)
(* Numbers only grow, and every withdrawal and every Stop marks the last one  *)
(* given: what the drain renders above the mark is the reply the stream is    *)
(* open for, and its words are those of no withdrawn draft.                   *)
EXTENDS Speech, FiniteSetTheorems, TLAPS

LEMMA SeqParts ==
  ASSUME NEW S
  PROVE  /\ <<>> \in Seq(S)
         /\ \A s \in Seq(S) : s # <<>> => Head(s) \in S /\ Tail(s) \in Seq(S)
         /\ \A s \in Seq(S), e \in S : Append(s, e) \in Seq(S)
         /\ \A s, t \in Seq(S) : s \o t \in Seq(S)
OBVIOUS

LEMMA SeqSlice ==
  ASSUME NEW S, NEW s \in Seq(S), NEW i \in Nat, NEW j \in 0 .. Len(s)
  PROVE  SubSeq(s, i + 1, j) \in Seq(S)
OBVIOUS

LEMMA EmptySlice ==
  ASSUME NEW s, NEW i \in Nat
  PROVE  SubSeq(s, i + 1, i) = <<>>
OBVIOUS

LEMMA HeardCountType == \A r \in Seq(Sentences) : HeardCount(r) \in Nat
<1> TAKE r \in Seq(Sentences)
<1> DEFINE same == {k \in DOMAIN r \cap DOMAIN heard : \A i \in 1 .. k : r[i].text = heard[i].text}
<1>1. DOMAIN r = 1 .. Len(r) /\ Len(r) \in Nat
  OBVIOUS
<1>2. IsFiniteSet(1 .. Len(r))
  BY <1>1, FS_Interval
<1>3. IsFiniteSet(same)
  BY <1>1, <1>2, FS_Subset
<1> QED
  BY <1>3, FS_CardinalityType DEF HeardCount

\* What _queue_from_buffer does to the stream.
LEMMA QueueEffect ==
  ASSUME TypeOK, NEW S, NEW r \in Seq(S), NEW final \in BOOLEAN,
         S \subseteq Sentences, pending \in Seq(S), Queue(r, final)
  PROVE  /\ raw' = r /\ pending' \in Seq(S) /\ spoken' \in Nat
         /\ \/ UNCHANGED <<open, seq, utter>>
            \/ ~open /\ open' = TRUE /\ seq' = seq + 1 /\ utter' = seq + 1
<1> DEFINE already == Larger(spoken, HeardCount(r))
<1>1. already \in Nat
  <2>1. r \in Seq(Sentences)
    OBVIOUS
  <2> QED
    BY <2>1, HeardCountType DEF Larger, TypeOK
<1> HIDE DEF already
<1>2. PICK k \in already .. Larger(already, Len(r)) :
        /\ raw' = r /\ spoken' = k
        /\ pending' = pending \o SubSeq(r, already + 1, k)
        /\ IF k > already /\ ~open
           THEN open' = TRUE /\ seq' = seq + 1 /\ utter' = seq + 1
           ELSE UNCHANGED <<open, seq, utter>>
  BY DEF Queue, already
<1>3. k \in Nat /\ (k = already \/ k \in 0 .. Len(r))
  BY <1>1, <1>2 DEF Larger
<1>4. SubSeq(r, already + 1, k) \in Seq(S)
  <2>1. CASE k = already
    BY <1>1, <2>1, EmptySlice, SeqParts
  <2>2. CASE k \in 0 .. Len(r)
    BY <1>1, <2>2, SeqSlice
  <2> QED
    BY <1>3, <2>1, <2>2
<1>5. pending' \in Seq(S)
  BY <1>2, <1>4, SeqParts
<1> QED
  BY <1>2, <1>3, <1>5

LEMMA SentencesType ==
  ASSUME NEW n \in Turn, NEW d \in Nat, NEW t \in Seq(STRING)
  PROVE  AsSentences(n, d, t) \in Seq({x \in Sentences : Draft(x) = <<n, d>>})
<1>1. \A i \in 1 .. Len(t) :
        Sentence(n, d, i, t[i]) \in {x \in Sentences : Draft(x) = <<n, d>>}
  BY DEF Sentence, Sentences, Draft
<1> QED
  BY <1>1 DEF AsSentences

LEMMA AnswerType ==
  ASSUME NEW n \in Turn, NEW d \in Nat, NEW t \in Seq(STRING), NEW kept \in Nat
  PROVE  Answer(n, d, t, kept) \in Seq({x \in Sentences : Draft(x) = <<n, d>>})
<1> DEFINE s == AsSentences(n, d, t)
           S == {x \in Sentences : Draft(x) = <<n, d>>}
<1>1. s \in Seq(S) /\ Len(s) = Len(t)
  BY SentencesType DEF AsSentences
<1> HIDE DEF s, S
<1>2. SubSeq(s, kept + 1, Len(s)) \in Seq(S)
  BY <1>1, SeqSlice
<1> QED
  BY <1>1, <1>2 DEF Answer, s, S

-----------------------------------------------------------------------------
\* Types.

LEMMA InitTypes == Init => TypeOK
<1> SUFFICES ASSUME Init PROVE TypeOK
  OBVIOUS
<1>1. drain \in [st : {"idle", "new", "line", "render"}, item : Sentences \cup {Nothing}, u : Nat]
      /\ drain.st # "render"
  BY DEF Init, NoDrain
<1>2. NoTask \in Tasks
  BY SeqParts DEF NoTask, Tasks
<1>3. task \in [Turn -> Tasks]
  BY <1>2 DEF Init
<1>4. turn \in [n : 0 .. MaxTurns, draft : Nat, text : Seq(STRING), kept : Nat, at : Nat,
               live : BOOLEAN]
      /\ ~turn.live
  BY SpeechAssumption, SeqParts DEF Init
<1>5. /\ raw \in Seq(Sentences) /\ heard \in Seq(Sentences) /\ pending \in Seq(Sentences)
      /\ line \in Seq(Nat) /\ said \in [Turn -> Seq(Clips)]
  BY SeqParts DEF Init
<1>6. /\ speak \in BOOLEAN /\ leaving \in BOOLEAN /\ open \in BOOLEAN
      /\ spoken \in Nat /\ utter \in Nat /\ seq \in Nat /\ cancelled \in Nat
  BY DEF Init
<1>7. /\ retracts \subseteq [u : Nat, woken : BOOLEAN] /\ closed \subseteq Nat
      /\ withdrawn \subseteq Nat \X Nat /\ spared \subseteq Sentences
      /\ excused \subseteq Turn
  BY DEF Init
<1>8. upsets \in 0 .. MaxUpsets
  BY SpeechAssumption DEF Init
<1> QED
  BY <1>1, <1>3, <1>4, <1>5, <1>6, <1>7, <1>8 DEF TypeOK

TurnTypes ==
  /\ speak \in BOOLEAN /\ leaving \in BOOLEAN
  /\ turn \in [n : 0 .. MaxTurns, draft : Nat, text : Seq(STRING), kept : Nat, at : Nat,
               live : BOOLEAN]
  /\ turn.live => turn.n \in Turn
  /\ excused \subseteq Turn
  /\ upsets \in 0 .. MaxUpsets

StreamTypes ==
  /\ open \in BOOLEAN
  /\ raw \in Seq(Sentences) /\ heard \in Seq(Sentences) /\ pending \in Seq(Sentences)
  /\ spoken \in Nat /\ utter \in Nat /\ seq \in Nat /\ cancelled \in Nat

TaskTypes ==
  /\ drain \in [st : {"idle", "new", "line", "render"}, item : Sentences \cup {Nothing}, u : Nat]
  /\ drain.st = "render" => drain.item \in Sentences
  /\ line \in Seq(Nat) /\ task \in [Turn -> Tasks]
  /\ retracts \subseteq [u : Nat, woken : BOOLEAN]

PastTypes ==
  /\ said \in [Turn -> Seq(Clips)] /\ closed \subseteq Nat
  /\ withdrawn \subseteq Nat \X Nat /\ spared \subseteq Sentences

LEMMA TypeParts == TypeOK <=> TurnTypes /\ StreamTypes /\ TaskTypes /\ PastTypes
BY DEF TypeOK, TurnTypes, StreamTypes, TaskTypes, PastTypes

LEMMA OverType ==
  ASSUME TurnTypes
  PROVE  /\ Over \in [n : 0 .. MaxTurns, draft : Nat, text : Seq(STRING), kept : Nat, at : Nat,
               live : BOOLEAN]
         /\ Over.n = turn.n /\ Over.live = FALSE
BY SeqParts DEF TurnTypes, Over

LEMMA TurnTypesKept == TypeOK /\ [Next]_vars => TurnTypes'
<1> SUFFICES ASSUME TypeOK, [Next]_vars PROVE TurnTypes'
  OBVIOUS
<1>a. TurnTypes
  BY TypeParts
<1>b. Active \subseteq Turn
  BY DEF Active
<1>c. Upset => upsets' \in 0 .. MaxUpsets
  BY <1>a, SpeechAssumption DEF Upset, TurnTypes
<1>1. CASE TurnStarts
  <2>1. PICK t \in Texts[turn.n + 1] :
          turn' = [n |-> turn.n + 1, draft |-> 1, text |-> t, kept |-> 0, at |-> 0, live |-> TRUE]
    BY <1>1 DEF TurnStarts
  <2>0. turn.n + 1 \in 1 .. MaxTurns
    BY <1>1, <1>a, SpeechAssumption DEF TurnStarts, TurnTypes
  <2>2. turn.n + 1 \in Turn /\ t \in Seq(STRING)
    BY <2>0, SpeechAssumption DEF Turn
  <2>3. turn' \in [n : 0 .. MaxTurns, draft : Nat, text : Seq(STRING), kept : Nat, at : Nat,
               live : BOOLEAN]
        /\ turn'.n \in Turn
    BY <2>1, <2>2 DEF Turn
  <2> QED
    BY <2>3, <1>1, <1>a DEF TurnStarts, TurnTypes, pastVars
<1>2. CASE OnDelta
  <2>1. turn' = [turn EXCEPT !.at = @ + 1] /\ UNCHANGED <<speak, leaving, upsets>>
        /\ (excused' = excused \/ Meets(turn.n)) /\ turn.n \in Turn
    BY <1>2, <1>a DEF OnDelta, TurnTypes
  <2>2. excused' \subseteq Turn
    BY <2>1, <1>a, <1>b DEF Meets, TurnTypes
  <2> QED
    BY <2>1, <2>2, <1>a DEF TurnTypes
<1>3. CASE OnRetract
  <2>1. PICK t \in Texts[turn.n] : turn' = [turn EXCEPT !.draft = @ + 1, !.text = t, !.kept = 0, !.at = 0]
    BY <1>3 DEF OnRetract
  <2>0. turn.n \in 1 .. MaxTurns
    BY <1>3, <1>a DEF OnRetract, TurnTypes, Turn
  <2>2. t \in Seq(STRING)
    BY <2>0, SpeechAssumption
  <2>3. turn' \in [n : 0 .. MaxTurns, draft : Nat, text : Seq(STRING), kept : Nat, at : Nat,
               live : BOOLEAN]
        /\ turn'.n = turn.n /\ turn'.live = turn.live
    <3>1. turn' = [n |-> turn.n, draft |-> turn.draft + 1, text |-> t, kept |-> 0, at |-> 0, live |-> turn.live]
      BY <2>1, <1>a DEF TurnTypes
    <3>2. turn.n \in 0 .. MaxTurns /\ turn.draft + 1 \in Nat /\ turn.live \in BOOLEAN
      BY <1>a DEF TurnTypes
    <3> QED
      BY <3>1, <3>2, <2>2
  <2> QED
    BY <2>3, <1>3, <1>a, <1>b, <1>c DEF OnRetract, TurnTypes
<1>4. CASE OnTurnError \/ OnTurnCancel
  <2>1. turn' = Over /\ excused' = excused \cup Active /\ Upset /\ UNCHANGED <<speak, leaving>>
    BY <1>4 DEF OnTurnError, OnTurnCancel
  <2> QED
    BY <2>1, <1>a, <1>b, <1>c, OverType DEF TurnTypes
<1>5. CASE CancelSpeech \/ LeaveConversation \/ EnterConversation
  <2>1. /\ UNCHANGED turn /\ excused' = excused \cup Active
        /\ speak' \in BOOLEAN /\ leaving' \in BOOLEAN
        /\ Upset \/ UNCHANGED upsets
    BY <1>5, <1>a DEF CancelSpeech, LeaveConversation, EnterConversation, TurnTypes
  <2> QED
    BY <2>1, <1>a, <1>b, <1>c DEF TurnTypes
<1>6. CASE OnSpeak \/ SpeakNothing
  <2>1. /\ turn' = Over /\ UNCHANGED <<speak, leaving>>
        /\ excused' = excused \/ Meets(turn.n) \/ excused' = excused \cup Active
        /\ turn.n \in Turn /\ (Upset \/ UNCHANGED upsets)
    BY <1>6, <1>a DEF OnSpeak, SpeakNothing, TurnTypes
  <2>2. excused' \subseteq Turn
    BY <2>1, <1>a, <1>b DEF Meets, TurnTypes
  <2> QED
    BY <2>1, <2>2, <1>a, <1>c, OverType DEF TurnTypes
<1>7. CASE DrainFails \/ \E n \in Turn : WholeFails(n)
  <2>1. excused' = excused \cup Active /\ Upset /\ UNCHANGED <<speak, leaving, turn>>
    BY <1>7 DEF DrainFails, WholeFails
  <2> QED
    BY <2>1, <1>a, <1>b, <1>c DEF TurnTypes
<1>8. CASE \/ DrainStarts \/ DrainNext \/ DrainClip \/ RetractResumes \/ UNCHANGED vars
           \/ \E n \in Turn : SpeakResumes(n) \/ WholeStarts(n) \/ WholeNext(n) \/ WholeClip(n)
  <2>1. UNCHANGED <<speak, leaving, turn, excused, upsets>>
    BY <1>8 DEF DrainStarts, DrainNext, DrainClip, RetractResumes, SpeakResumes, WholeStarts,
         WholeNext, WholeClip, vars, pastVars
  <2> QED
    BY <2>1, <1>a DEF TurnTypes
<1>9. CASE KeepDraft
  <2>1. PICK t \in Texts[turn.n] : turn' = [turn EXCEPT !.text = turn.text \o t, !.kept = Len(turn.text)]
    BY <1>9 DEF KeepDraft
  <2>0. turn.n \in 1 .. MaxTurns
    BY <1>9, <1>a DEF KeepDraft, TurnTypes, Turn
  <2>2. t \in Seq(STRING) /\ turn.text \in Seq(STRING)
    BY <2>0, <1>a, SpeechAssumption DEF TurnTypes
  <2>3. turn.text \o t \in Seq(STRING) /\ Len(turn.text) \in Nat
    BY <2>2
  <2>4. turn' \in [n : 0 .. MaxTurns, draft : Nat, text : Seq(STRING), kept : Nat, at : Nat,
                  live : BOOLEAN]
        /\ turn'.n = turn.n /\ turn'.live = turn.live
    BY <2>1, <2>3, <1>a DEF TurnTypes
  <2> QED
    BY <2>4, <1>9, <1>a, <1>c DEF KeepDraft, TurnTypes, pastVars
<1> QED
  BY <1>1, <1>2, <1>3, <1>4, <1>5, <1>6, <1>7, <1>8, <1>9 DEF Next

\* The buffer and the queue hold what they held, and sentences of the draft the
\* turn is at.
LEMMA BufferKept ==
  ASSUME TypeOK, [Next]_vars, NEW S, S \subseteq Sentences,
         raw \in Seq(S), pending \in Seq(S),
         turn.live => \A x \in Sentences : Draft(x) = <<turn.n, turn.draft>> => x \in S
  PROVE  raw' \in Seq(S) /\ pending' \in Seq(S)
<1>a. TurnTypes /\ StreamTypes
  BY TypeParts
<1>b. <<>> \in Seq(S) /\ (pending # <<>> => Tail(pending) \in Seq(S))
  BY SeqParts
<1>1. CASE OnDelta
  <2> DEFINE x == Sentence(turn.n, turn.draft, turn.at + 1, turn.text[turn.at + 1])
  <2>1. turn.live /\ turn.at < Len(turn.text)
        /\ (Queue(Append(raw, x), FALSE) \/ UNCHANGED <<raw, pending>>)
    BY <1>1 DEF OnDelta, bufVars
  <2>2. turn.text[turn.at + 1] \in STRING /\ turn.at + 1 \in Nat /\ turn.n \in Turn
    BY <2>1, <1>a DEF TurnTypes
  <2>3. x \in Sentences /\ Draft(x) = <<turn.n, turn.draft>>
    BY <2>2, <1>a DEF TurnTypes, Sentence, Sentences, Draft
  <2>4. x \in S
    BY <2>1, <2>3
  <2> HIDE DEF x
  <2>5. Append(raw, x) \in Seq(S)
    BY <2>4, SeqParts
  <2>6. CASE Queue(Append(raw, x), FALSE)
    BY <2>5, <2>6, QueueEffect
  <2> QED
    BY <2>1, <2>6
<1>2. CASE OnSpeak
  <2> DEFINE final == Answer(turn.n, turn.draft, turn.text, turn.kept)
  <2>1. turn.live /\ (Queue(final, TRUE) \/ UNCHANGED <<raw, pending>>)
    BY <1>2 DEF OnSpeak, bufVars
  <2>2. final \in Seq({x \in Sentences : Draft(x) = <<turn.n, turn.draft>>})
    BY <1>a, <2>1, AnswerType DEF TurnTypes
  <2> HIDE DEF final
  <2>3. {x \in Sentences : Draft(x) = <<turn.n, turn.draft>>} \subseteq S
    BY <2>1
  <2>4. final \in Seq(S)
    BY <2>2, <2>3
  <2>5. CASE Queue(final, TRUE)
    BY <2>4, <2>5, QueueEffect
  <2> QED
    BY <2>1, <2>5
<1>3. CASE \/ OnRetract \/ OnTurnError \/ OnTurnCancel \/ SpeakNothing
           \/ \E n \in Turn : SpeakResumes(n) \/ WholeFails(n)
  <2>1. raw' = <<>> /\ pending' = <<>>
    BY <1>3 DEF OnRetract, OnTurnError, OnTurnCancel, SpeakNothing, SpeakResumes, WholeFails,
         Withdraw, Finish, Reset, Drop
  <2> QED
    BY <2>1, <1>b
<1>4. CASE \E n \in Turn : WholeNext(n)
  <2>1. (raw' = <<>> /\ pending' = <<>>) \/ UNCHANGED <<raw, pending>>
    BY <1>4 DEF WholeNext, Finish, Reset, bufVars
  <2> QED
    BY <2>1, <1>b
<1>5. CASE CancelSpeech \/ DrainFails
  <2>1. raw' = raw /\ pending' = <<>>
    BY <1>5 DEF CancelSpeech, DrainFails, bufVars
  <2> QED
    BY <2>1, <1>b
<1>6. CASE DrainNext
  <2>1. raw' = raw /\ (pending' = <<>> \/ (pending # <<>> /\ pending' = Tail(pending)))
    BY <1>6 DEF DrainNext, bufVars
  <2> QED
    BY <2>1, <1>b
<1>7. CASE \/ TurnStarts \/ KeepDraft \/ LeaveConversation \/ EnterConversation \/ DrainStarts
           \/ DrainClip \/ RetractResumes \/ UNCHANGED vars
           \/ \E n \in Turn : WholeStarts(n) \/ WholeClip(n)
  <2>1. UNCHANGED <<raw, pending>>
    BY <1>7 DEF TurnStarts, KeepDraft, LeaveConversation, EnterConversation, DrainStarts, DrainClip, RetractResumes,
         WholeStarts, WholeClip, vars, bufVars, queueVars
  <2> QED
    BY <2>1
<1> QED
  BY <1>1, <1>2, <1>3, <1>4, <1>5, <1>6, <1>7 DEF Next

\* The numbers of the stream.
LEMMA StreamStep ==
  ASSUME TypeOK, [Next]_vars
  PROVE  /\ spoken' \in Nat
         /\ seq' \in {seq, seq + 1} /\ cancelled' \in {cancelled, seq}
         /\ \/ utter' = 0 /\ open' = FALSE
            \/ UNCHANGED <<utter, open>>
            \/ ~open /\ open' = TRUE /\ seq' = seq + 1 /\ utter' = seq + 1 /\ speak
<1>a. TurnTypes /\ StreamTypes
  BY TypeParts
<1>1. CASE OnDelta
  <2> DEFINE x == Sentence(turn.n, turn.draft, turn.at + 1, turn.text[turn.at + 1])
  <2>1. /\ turn.live /\ turn.at < Len(turn.text) /\ UNCHANGED cancelled
        /\ \/ speak /\ Queue(Append(raw, x), FALSE)
           \/ UNCHANGED <<spoken, seq, utter, open>>
    BY <1>1 DEF OnDelta, bufVars
  <2>2. turn.text[turn.at + 1] \in STRING /\ turn.at + 1 \in Nat /\ turn.n \in Turn
    BY <2>1, <1>a DEF TurnTypes
  <2>3. x \in Sentences
    BY <2>2, <1>a DEF TurnTypes, Sentence, Sentences
  <2> HIDE DEF x
  <2>4. Append(raw, x) \in Seq(Sentences) /\ pending \in Seq(Sentences)
    BY <2>3, <1>a, SeqParts DEF StreamTypes
  <2>5. CASE speak /\ Queue(Append(raw, x), FALSE)
    <3>1. /\ spoken' \in Nat
          /\ \/ UNCHANGED <<open, seq, utter>>
             \/ ~open /\ open' = TRUE /\ seq' = seq + 1 /\ utter' = seq + 1
      BY <2>4, <2>5, QueueEffect
    <3> QED
      BY <3>1, <2>1, <2>5
  <2> QED
    BY <2>1, <2>5, <1>a DEF StreamTypes
<1>2. CASE OnSpeak
  <2> DEFINE final == Answer(turn.n, turn.draft, turn.text, turn.kept)
  <2>1. /\ turn.live /\ UNCHANGED cancelled
        /\ \/ speak /\ Queue(final, TRUE)
           \/ UNCHANGED <<spoken, seq, utter, open>>
    BY <1>2 DEF OnSpeak, bufVars
  <2>2. final \in Seq({x \in Sentences : Draft(x) = <<turn.n, turn.draft>>})
    BY <1>a, <2>1, AnswerType DEF TurnTypes
  <2> HIDE DEF final
  <2>3. final \in Seq(Sentences) /\ pending \in Seq(Sentences)
    BY <2>2, <1>a DEF StreamTypes
  <2>4. CASE speak /\ Queue(final, TRUE)
    <3>1. /\ spoken' \in Nat
          /\ \/ UNCHANGED <<open, seq, utter>>
             \/ ~open /\ open' = TRUE /\ seq' = seq + 1 /\ utter' = seq + 1
      BY <2>3, <2>4, QueueEffect
    <3> QED
      BY <3>1, <2>1, <2>4
  <2> QED
    BY <2>1, <2>4, <1>a DEF StreamTypes
<1>3. CASE \/ OnRetract \/ OnTurnError \/ OnTurnCancel \/ SpeakNothing
           \/ \E n \in Turn : SpeakResumes(n) \/ WholeFails(n)
  <2>1. CASE OnRetract \/ OnTurnError
    <3>1. Withdraw => Drop \/ (Reset /\ UNCHANGED cancelled)
      BY DEF Withdraw
    <3>2. UNCHANGED seq /\ (Drop \/ (Reset /\ UNCHANGED cancelled))
      BY <2>1, <3>1 DEF OnRetract, OnTurnError
    <3> QED
      BY <3>2 DEF Drop, Reset
  <2>2. CASE OnTurnCancel \/ SpeakNothing
    BY <2>2 DEF OnTurnCancel, SpeakNothing, Reset, StopNumber
  <2>3. CASE \E n \in Turn : SpeakResumes(n) \/ WholeFails(n)
    BY <2>3 DEF SpeakResumes, WholeFails, Finish, Reset
  <2> QED
    BY <1>3, <2>1, <2>2, <2>3
<1>4. CASE \E n \in Turn : WholeNext(n)
  BY <1>4, <1>a DEF WholeNext, Finish, Reset, bufVars, StreamTypes
<1>5. CASE \/ TurnStarts \/ KeepDraft \/ CancelSpeech \/ LeaveConversation \/ EnterConversation
           \/ DrainStarts \/ DrainNext \/ DrainClip \/ DrainFails \/ RetractResumes \/ UNCHANGED vars
           \/ \E n \in Turn : WholeStarts(n) \/ WholeClip(n)
  <2>1. UNCHANGED <<spoken, utter, open>> /\ seq' \in {seq, seq + 1}
        /\ cancelled' \in {cancelled, seq}
    BY <1>5 DEF TurnStarts, KeepDraft, CancelSpeech, LeaveConversation, EnterConversation,
         DrainStarts, DrainNext, DrainClip, DrainFails, RetractResumes, WholeStarts, WholeClip,
         vars, bufVars, queueVars
  <2> QED
    BY <2>1, <1>a DEF StreamTypes
<1> QED
  BY <1>1, <1>2, <1>3, <1>4, <1>5 DEF Next

LEMMA StreamTypesKept == TypeOK /\ [Next]_vars => StreamTypes'
<1> SUFFICES ASSUME TypeOK, [Next]_vars PROVE StreamTypes'
  OBVIOUS
<1>a. StreamTypes /\ TaskTypes
  BY TypeParts
<1>1. raw' \in Seq(Sentences) /\ pending' \in Seq(Sentences)
  BY BufferKept, <1>a DEF StreamTypes
<1>2. /\ spoken' \in Nat /\ utter' \in Nat /\ seq' \in Nat /\ cancelled' \in Nat
      /\ open' \in BOOLEAN
  <2>1. /\ spoken' \in Nat
        /\ seq' \in {seq, seq + 1} /\ cancelled' \in {cancelled, seq}
        /\ \/ utter' = 0 /\ open' = FALSE
           \/ UNCHANGED <<utter, open>>
           \/ ~open /\ open' = TRUE /\ seq' = seq + 1 /\ utter' = seq + 1
    BY StreamStep
  <2>2. seq \in Nat /\ cancelled \in Nat /\ utter \in Nat /\ open \in BOOLEAN
    BY <1>a DEF StreamTypes
  <2>3. spoken' \in Nat /\ seq' \in Nat /\ cancelled' \in Nat
    BY <2>1, <2>2
  <2>4. utter' \in {0, utter, seq + 1}
    BY <2>1
  <2>5. open' \in BOOLEAN
    BY <2>1, <2>2, Zenon
  <2> QED
    BY <2>2, <2>3, <2>4, <2>5
<1>3. heard' \in Seq(Sentences)
  <2>1. CASE DrainClip
    <3>1. drain.item \in Sentences /\ (heard' = heard \/ heard' = Append(heard, drain.item))
      BY <2>1, <1>a DEF DrainClip, TaskTypes
    <3> QED
      BY <3>1, <1>a, SeqParts DEF StreamTypes
  <2>2. CASE OnRetract \/ OnTurnError \/ OnTurnCancel \/ SpeakNothing
    <3>1. heard' = heard \/ heard' = <<>>
      BY <2>2 DEF OnRetract, OnTurnError, OnTurnCancel, SpeakNothing, Withdraw, Reset
    <3> QED
      BY <3>1, <1>a, SeqParts DEF StreamTypes
  <2>3. CASE \E n \in Turn : SpeakResumes(n) \/ WholeNext(n) \/ WholeFails(n)
    <3>1. heard' = heard \/ heard' = <<>>
      BY <2>3 DEF SpeakResumes, WholeNext, WholeFails, Finish, Reset, bufVars
    <3> QED
      BY <3>1, <1>a, SeqParts DEF StreamTypes
  <2>4. CASE \/ TurnStarts \/ OnDelta \/ KeepDraft \/ OnSpeak \/ CancelSpeech \/ LeaveConversation
             \/ EnterConversation \/ DrainStarts \/ DrainNext \/ DrainFails \/ RetractResumes
             \/ UNCHANGED vars \/ \E n \in Turn : WholeStarts(n) \/ WholeClip(n)
    <3>1. UNCHANGED heard
      BY <2>4 DEF TurnStarts, OnDelta, KeepDraft, OnSpeak, CancelSpeech, LeaveConversation,
           EnterConversation, DrainStarts, DrainNext, DrainFails, RetractResumes, WholeStarts,
           WholeClip, vars, bufVars
    <3> QED
      BY <3>1, <1>a DEF StreamTypes
  <2> QED
    BY <2>1, <2>2, <2>3, <2>4 DEF Next
<1> QED
  BY <1>1, <1>2, <1>3 DEF StreamTypes

\* A task's record, with some of its fields replaced.
LEMMA TaskUpdates ==
  ASSUME TaskTypes, NEW n \in Turn,
         NEW st \in {"none", "await", "woken", "line", "whole", "render", "done"}
  PROVE  /\ [task EXCEPT ![n].st = st] \in [Turn -> Tasks]
         /\ \A todo \in Seq(Sentences) :
              [task EXCEPT ![n].st = st, ![n].todo = todo] \in [Turn -> Tasks]
         /\ \A todo \in Seq(Sentences), u \in Nat :
              [task EXCEPT ![n].st = st, ![n].u = u, ![n].todo = todo] \in [Turn -> Tasks]
<1>1. task[n] \in Tasks
  BY DEF TaskTypes
<1>2. [task[n] EXCEPT !.st = st] \in Tasks
  BY <1>1 DEF Tasks
<1>3. \A todo \in Seq(Sentences) : [[task[n] EXCEPT !.st = st] EXCEPT !.todo = todo] \in Tasks
  BY <1>1 DEF Tasks
<1>4. \A todo \in Seq(Sentences), u \in Nat :
        [[[task[n] EXCEPT !.st = st] EXCEPT !.u = u] EXCEPT !.todo = todo] \in Tasks
  BY <1>1 DEF Tasks
<1> QED
  BY <1>2, <1>3, <1>4 DEF TaskTypes

LEMMA JobType ==
  ASSUME TurnTypes, NEW u \in Nat,
         NEW st \in {"none", "await", "woken", "line", "whole", "render", "done"}
  PROVE  /\ Job(st, u) \in Tasks
         /\ Job(st, u).st = st /\ Job(st, u).u = u /\ Job(st, u).draft = turn.draft
<1>1. /\ turn.draft \in Nat /\ turn.text \in Seq(STRING) /\ turn.kept \in Nat
      /\ <<>> \in Seq(Sentences)
  BY SeqParts DEF TurnTypes
<1> QED
  BY <1>1 DEF Job, Tasks

LEMMA DrainEndsTypes ==
  ASSUME TaskTypes, line # <<>>, DrainEnds
  PROVE  TaskTypes'
<1>1. drain' = NoDrain /\ line' = Tail(line)
  BY DEF DrainEnds
<1>2. drain' \in [st : {"idle", "new", "line", "render"}, item : Sentences \cup {Nothing}, u : Nat]
      /\ drain'.st = "idle"
  BY <1>1 DEF NoDrain
<1>3. line' \in Seq(Nat)
  BY <1>1, SeqParts DEF TaskTypes
<1>4. task' \in [Turn -> Tasks]
  <2>1. \A n \in Turn : task[n] \in Tasks
    BY DEF TaskTypes
  <2>2. \A n \in Turn : [task[n] EXCEPT !.st = "woken"] \in Tasks
    BY <2>1 DEF Tasks
  <2> QED
    BY <2>1, <2>2 DEF DrainEnds
<1>5. retracts' \subseteq [u : Nat, woken : BOOLEAN]
  <2>1. \A w \in retracts : [w EXCEPT !.woken = TRUE] \in [u : Nat, woken : BOOLEAN]
    BY DEF TaskTypes
  <2> QED
    BY <2>1 DEF DrainEnds
<1> QED
  BY <1>2, <1>3, <1>4, <1>5 DEF TaskTypes

\* Inside _speak_lock there is the drain or one reply, and a drain that somebody
\* has been woken from is over.
LineInv ==
  /\ drain.st = "render" => Holds(0)
  /\ \A n \in Turn : task[n].st \in {"whole", "render"} => Holds(n)
  /\ \A n \in Turn : task[n].st = "woken" => drain.st \in {"idle", "new"}
  /\ \A n \in Turn : task[n].st = "render" => task[n].todo # <<>>

LEMMA TaskTypesKept == TypeOK /\ LineInv /\ [Next]_vars => TaskTypes'
<1> SUFFICES ASSUME TypeOK, LineInv, [Next]_vars PROVE TaskTypes'
  OBVIOUS
<1>a. TurnTypes /\ StreamTypes /\ TaskTypes
  BY TypeParts
<1>1. CASE \/ TurnStarts \/ KeepDraft \/ CancelSpeech \/ LeaveConversation \/ EnterConversation
           \/ UNCHANGED vars
  <2>1. UNCHANGED <<drain, line, task, retracts>>
    BY <1>1 DEF TurnStarts, KeepDraft, CancelSpeech, LeaveConversation, EnterConversation, vars, taskVars
  <2> QED
    BY <2>1, <1>a DEF TaskTypes
<1>2. CASE OnDelta
  <2>1. UNCHANGED <<line, task, retracts>>
        /\ (drain' = drain \/ drain' = [drain EXCEPT !.st = "new"])
    BY <1>2 DEF OnDelta, EnsureDrain
  <2> QED
    BY <2>1, <1>a DEF TaskTypes
<1>3. CASE OnRetract \/ OnTurnError \/ OnTurnCancel
  <2>1. UNCHANGED <<drain, line, task>>
        /\ (retracts' = retracts \/ retracts' = retracts \cup {[u |-> utter, woken |-> FALSE]})
    BY <1>3 DEF OnRetract, OnTurnError, OnTurnCancel, Withdraw
  <2>2. [u |-> utter, woken |-> FALSE] \in [u : Nat, woken : BOOLEAN]
    BY <1>a DEF StreamTypes
  <2>3. retracts' \subseteq [u : Nat, woken : BOOLEAN]
    BY <2>1, <2>2, <1>a DEF TaskTypes
  <2> QED
    BY <2>1, <2>3, <1>a DEF TaskTypes
<1>4. CASE OnSpeak
  <2>1. utter' \in Nat
    BY StreamTypesKept DEF StreamTypes
  <2>2. turn.n \in Turn /\ turn.n \in Nat
    BY <1>4, <1>a DEF OnSpeak, TurnTypes, Turn
  <2>3. UNCHANGED retracts /\ (drain' = drain \/ drain' = [drain EXCEPT !.st = "new"])
        /\ (line' = line \/ line' = Append(line, turn.n))
        /\ \/ task' = task
           \/ task' = [task EXCEPT ![turn.n] = Job("await", utter')]
           \/ task' = [task EXCEPT ![turn.n] = Job("line", 0)]
    BY <1>4 DEF OnSpeak, EnsureDrain
  <2>6. Job("await", utter') \in Tasks /\ Job("line", 0) \in Tasks
    BY <1>a, <2>1, JobType
  <2>7. task' \in [Turn -> Tasks]
    BY <2>2, <2>3, <2>6, <1>a DEF TaskTypes
  <2>8. line' \in Seq(Nat)
    <3>1. line \in Seq(Nat) /\ Append(line, turn.n) \in Seq(Nat)
      BY <2>2, <1>a, SeqParts DEF TaskTypes
    <3> QED
      BY <3>1, <2>3
  <2> QED
    BY <2>3, <2>7, <2>8, <1>a DEF TaskTypes
<1>14. CASE SpeakNothing
  <2>1. UNCHANGED <<drain, line, retracts>> /\ task' = [task EXCEPT ![turn.n] = Job("done", 0)]
        /\ turn.n \in Turn
    BY <1>14, <1>a DEF SpeakNothing, TurnTypes
  <2>2. Job("done", 0) \in Tasks
    BY <1>a, JobType
  <2>3. task' \in [Turn -> Tasks]
    BY <2>1, <2>2, <1>a DEF TaskTypes
  <2> QED
    BY <2>1, <2>3, <1>a DEF TaskTypes
<1>5. CASE RetractResumes
  BY <1>5, <1>a DEF RetractResumes, TaskTypes
<1>6. ASSUME NEW n \in Turn, SpeakResumes(n) PROVE TaskTypes'
  <2>1. UNCHANGED <<drain, line, retracts>> /\ task' = [task EXCEPT ![n].st = "done"]
    BY <1>6 DEF SpeakResumes, Finish
  <2>2. task' \in [Turn -> Tasks]
    BY <2>1, <1>a, TaskUpdates
  <2> QED
    BY <2>1, <2>2, <1>a DEF TaskTypes
<1>7. ASSUME NEW n \in Turn, WholeStarts(n) PROVE TaskTypes'
  <2> DEFINE final == Answer(n, task[n].draft, task[n].text, task[n].kept)
  <2>1. task[n] \in Tasks /\ n \in Nat
    BY <1>a DEF TaskTypes, Turn
  <2>2. task[n].draft \in Nat /\ task[n].text \in Seq(STRING) /\ task[n].kept \in Nat
    BY <2>1 DEF Tasks
  <2>3. final \in Seq({x \in Sentences : Draft(x) = <<n, task[n].draft>>})
    BY <2>1, <2>2, AnswerType
  <2>4. UNCHANGED <<drain, line, retracts>>
        /\ task' = [task EXCEPT ![n].st = "whole", ![n].u = seq + 1,
                      ![n].todo = SubSeq(final, HeardCount(final) + 1, Len(final))]
    BY <1>7 DEF WholeStarts
  <2> HIDE DEF final
  <2>5. final \in Seq(Sentences)
    BY <2>3
  <2>6. SubSeq(final, HeardCount(final) + 1, Len(final)) \in Seq(Sentences)
    BY <2>5, HeardCountType, SeqSlice
  <2>7. seq + 1 \in Nat
    BY <1>a DEF StreamTypes
  <2>8. task' \in [Turn -> Tasks]
    BY <2>4, <2>6, <2>7, <1>a, TaskUpdates
  <2> QED
    BY <2>4, <2>8, <1>a DEF TaskTypes
<1>8. ASSUME NEW n \in Turn, WholeNext(n) \/ WholeFails(n) PROVE TaskTypes'
  <2>1. UNCHANGED <<drain, retracts>>
        /\ \E st \in {"done", "render"} : task' = [task EXCEPT ![n].st = st]
        /\ (line' = line \/ line' = Tail(line)) /\ task[n].st \in {"whole", "render"}
    BY <1>8 DEF WholeNext, WholeFails, Finish
  <2>2. line # <<>> /\ line \in Seq(Nat)
    BY <2>1, <1>a DEF LineInv, Holds, TaskTypes
  <2>3. Tail(line) \in Seq(Nat)
    BY <2>2, SeqParts
  <2>4. task' \in [Turn -> Tasks]
    <3>1. PICK st \in {"done", "render"} : task' = [task EXCEPT ![n].st = st]
      BY <2>1
    <3>2. [task EXCEPT ![n].st = st] \in [Turn -> Tasks]
      BY <1>a, TaskUpdates
    <3> QED
      BY <3>1, <3>2
  <2> QED
    BY <2>1, <2>2, <2>3, <2>4, <1>a DEF TaskTypes
<1>9. ASSUME NEW n \in Turn, WholeClip(n) PROVE TaskTypes'
  <2>1. UNCHANGED <<drain, line, retracts>>
        /\ task' = [task EXCEPT ![n].st = "whole", ![n].todo = Tail(task[n].todo)]
    BY <1>9 DEF WholeClip
  <2>2. task[n].todo \in Seq(Sentences) /\ task[n].todo # <<>>
    BY <1>9, <1>a DEF WholeClip, LineInv, TaskTypes, Tasks
  <2>3. Tail(task[n].todo) \in Seq(Sentences)
    BY <2>2, SeqParts
  <2>4. task' \in [Turn -> Tasks]
    BY <2>1, <2>3, <1>a, TaskUpdates
  <2> QED
    BY <2>1, <2>4, <1>a DEF TaskTypes
<1>10. CASE DrainStarts
  <2>1. UNCHANGED <<task, retracts>> /\ line' = Append(line, 0)
        /\ drain' = [drain EXCEPT !.st = "line"]
    BY <1>10 DEF DrainStarts
  <2>2. line' \in Seq(Nat)
    BY <2>1, <1>a, SeqParts DEF TaskTypes
  <2> QED
    BY <2>1, <2>2, <1>a DEF TaskTypes
<1>11. CASE DrainNext
  <2>1. CASE DrainEnds
    BY <2>1, <1>11, <1>a, DrainEndsTypes DEF DrainNext, Holds
  <2>2. CASE ~DrainEnds
    <3>1. UNCHANGED <<line, task, retracts>> /\ pending # <<>>
          /\ drain' = [drain EXCEPT !.st = "render", !.item = Head(pending), !.u = utter]
      BY <1>11, <2>2 DEF DrainNext
    <3>2. Head(pending) \in Sentences
      BY <3>1, <1>a, SeqParts DEF StreamTypes
    <3> QED
      BY <3>1, <3>2, <1>a DEF TaskTypes, StreamTypes
  <2> QED
    BY <2>1, <2>2
<1>12. CASE DrainClip
  <2>1. UNCHANGED <<line, task, retracts>>
    BY <1>12 DEF DrainClip
  <2>2. drain' = [st |-> "line", item |-> Nothing, u |-> 0]
    BY <1>12 DEF DrainClip, NoDrain
  <2>3. drain' \in [st : {"idle", "new", "line", "render"}, item : Sentences \cup {Nothing}, u : Nat]
        /\ drain'.st = "line"
    BY <2>2
  <2> QED
    BY <2>1, <2>3, <1>a DEF TaskTypes
<1>13. CASE DrainFails
  BY <1>13, <1>a, DrainEndsTypes DEF DrainFails, LineInv, Holds
<1> QED
  BY <1>1, <1>2, <1>3, <1>4, <1>5, <1>6, <1>7, <1>8, <1>9, <1>10, <1>11, <1>12, <1>13, <1>14
     DEF Next

LEMMA ClipType == \A x \in Sentences, u \in Nat : Clip(x, u) \in Clips
BY DEF Clip, Clips, Sentences

LEMMA PastTypesKept == TypeOK /\ LineInv /\ [Next]_vars => PastTypes'
<1> SUFFICES ASSUME TypeOK, LineInv, [Next]_vars PROVE PastTypes'
  OBVIOUS
<1>a. TurnTypes /\ StreamTypes /\ TaskTypes /\ PastTypes
  BY TypeParts
<1>b. \A n \in Turn : n \in Nat /\ task[n] \in Tasks /\ task[n].u \in Nat /\ task[n].draft \in Nat
  BY <1>a DEF TaskTypes, Tasks, Turn
<1>c. Rendering \subseteq Sentences
  <2>1. \A n \in Turn : task[n].st = "render" => task[n].todo[1] \in Sentences
    <3>1. ASSUME NEW n \in Turn, task[n].st = "render" PROVE task[n].todo[1] \in Sentences
      <4>1. task[n].todo \in Seq(Sentences) /\ task[n].todo # <<>>
        BY <3>1, <1>b DEF LineInv, Tasks
      <4> QED
        BY <4>1
    <3> QED
      BY <3>1
  <2> QED
    BY <2>1, <1>a DEF Rendering, TaskTypes
<1>1. CASE \/ TurnStarts \/ OnDelta \/ KeepDraft \/ OnSpeak \/ CancelSpeech \/ LeaveConversation
           \/ EnterConversation \/ DrainStarts \/ DrainNext \/ DrainFails \/ (\E n \in Turn : WholeStarts(n)) \/ UNCHANGED vars
  <2>1. UNCHANGED <<said, closed, withdrawn, spared>>
    BY <1>1 DEF TurnStarts, OnDelta, KeepDraft, OnSpeak, CancelSpeech, LeaveConversation,
         EnterConversation, DrainStarts, DrainNext, DrainFails, WholeStarts, vars, pastVars
  <2> QED
    BY <2>1, <1>a DEF PastTypes
<1>2. CASE OnRetract \/ OnTurnError
  <2>1. UNCHANGED said /\ withdrawn' = withdrawn \cup {<<turn.n, turn.draft>>}
        /\ spared' = spared \cup Rendering
        /\ (closed' = closed \/ closed' = closed \cup {utter})
    BY <1>2 DEF OnRetract, OnTurnError, Withdraw
  <2>2. <<turn.n, turn.draft>> \in Nat \X Nat
    BY <1>a DEF TurnTypes
  <2> QED
    BY <2>1, <2>2, <1>a, <1>c DEF PastTypes, StreamTypes
<1>3. CASE OnTurnCancel
  <2> DEFINE now == {n \in Active : task[n].st # "line"}
             of(n) == IF Live(n) THEN turn.draft ELSE task[n].draft
  <2>1. UNCHANGED said /\ withdrawn' = withdrawn \cup {<<n, of(n)>> : n \in now}
        /\ spared' = spared \cup Rendering
        /\ (closed' = closed \/ closed' = closed \cup {utter})
    BY <1>3 DEF OnTurnCancel
  <2>2. \A n \in now : <<n, of(n)>> \in Nat \X Nat
    BY <1>a, <1>b DEF Active, TurnTypes
  <2> HIDE DEF now, of
  <2>3. withdrawn' \subseteq Nat \X Nat
    BY <2>1, <2>2, <1>a DEF PastTypes
  <2> QED
    BY <2>1, <2>3, <1>a, <1>c DEF PastTypes, StreamTypes
<1>4. CASE RetractResumes
  <2>1. UNCHANGED <<said, withdrawn, spared>> /\ \E w \in retracts : closed' = closed \cup {w.u}
    BY <1>4 DEF RetractResumes
  <2> QED
    BY <2>1, <1>a DEF PastTypes, TaskTypes
<1>5. CASE \E n \in Turn : SpeakResumes(n) \/ WholeNext(n) \/ WholeFails(n)
  <2>1. PICK n \in Turn : SpeakResumes(n) \/ WholeNext(n) \/ WholeFails(n)
    BY <1>5
  <2>2. UNCHANGED <<said, withdrawn, spared>>
        /\ closed' \in {closed, closed \cup {utter}, closed \cup {task[n].u}}
    BY <2>1 DEF SpeakResumes, WholeNext, WholeFails, Finish
  <2> QED
    BY <2>2, <1>a, <1>b DEF PastTypes, StreamTypes
<1>6. CASE \E n \in Turn : WholeClip(n)
  <2>1. PICK n \in Turn : WholeClip(n)
    BY <1>6
  <2>2. UNCHANGED <<closed, withdrawn, spared>>
        /\ said' = [said EXCEPT ![n] = Append(said[n], Clip(Head(task[n].todo), task[n].u))]
    BY <2>1 DEF WholeClip
  <2>3. task[n].todo \in Seq(Sentences) /\ task[n].todo # <<>>
    BY <2>1, <1>b DEF WholeClip, LineInv, Tasks
  <2>4. Head(task[n].todo) \in Sentences
    BY <2>3, SeqParts
  <2>5. Clip(Head(task[n].todo), task[n].u) \in Clips
    BY <2>4, <1>b, ClipType
  <2> QED
    BY <2>2, <2>5, <1>a, SeqParts DEF PastTypes
<1>7. CASE DrainClip
  <2>1. UNCHANGED <<closed, withdrawn, spared>>
        /\ \/ said' = said
           \/ said' = [said EXCEPT ![drain.item.turn] =
                         Append(said[drain.item.turn], Clip(drain.item, drain.u))]
    BY <1>7 DEF DrainClip
  <2>2. Clip(drain.item, drain.u) \in Clips /\ drain.item.turn \in Turn
    <3>1. drain.item \in Sentences /\ drain.u \in Nat
      BY <1>7, <1>a DEF DrainClip, TaskTypes
    <3> QED
      BY <3>1, ClipType DEF Sentences
  <2> DEFINE m == drain.item.turn
             c == Clip(drain.item, drain.u)
  <2>3. said' = said \/ said' = [said EXCEPT ![m] = Append(said[m], c)]
    BY <2>1
  <2>4. m \in Turn /\ c \in Clips
    BY <2>2
  <2> HIDE DEF m, c
  <2>5. Append(said[m], c) \in Seq(Clips)
    BY <2>4, <1>a, SeqParts DEF PastTypes
  <2>6. said' \in [Turn -> Seq(Clips)]
    BY <2>3, <2>5, <1>a DEF PastTypes
  <2> QED
    BY <2>1, <2>6, <1>a DEF PastTypes
<1>8. CASE SpeakNothing
  <2>1. UNCHANGED <<said, withdrawn, spared>> /\ closed' = closed \cup {0}
    BY <1>8 DEF SpeakNothing
  <2> QED
    BY <2>1, <1>a DEF PastTypes
<1> QED
  BY <1>1, <1>2, <1>3, <1>4, <1>5, <1>6, <1>7, <1>8 DEF Next

LEMMA LineInvKept == TypeOK /\ LineInv /\ [Next]_vars => LineInv'
<1> SUFFICES ASSUME TypeOK, LineInv, [Next]_vars PROVE LineInv'
  OBVIOUS
<1>a. TurnTypes /\ StreamTypes /\ TaskTypes
  BY TypeParts
<1>b. \A x, y \in Nat : Holds(x) /\ line' = Append(line, y) => Holds(x)'
  BY <1>a DEF TaskTypes, Holds
<1>1. CASE \/ TurnStarts \/ KeepDraft \/ CancelSpeech \/ LeaveConversation \/ EnterConversation
           \/ UNCHANGED vars \/ OnRetract \/ OnTurnError \/ OnTurnCancel \/ RetractResumes
  <2>1. UNCHANGED <<drain, line, task>>
    BY <1>1 DEF TurnStarts, KeepDraft, CancelSpeech, LeaveConversation, EnterConversation, OnRetract,
         OnTurnError, OnTurnCancel, RetractResumes, vars, taskVars
  <2> QED
    BY <2>1 DEF LineInv, Holds
<1>c. \A n \in Turn : n \in Nat /\ n # 0
  BY DEF Turn
<1>2. CASE OnDelta
  <2>1. UNCHANGED <<line, task>> /\ (drain'.st = drain.st \/ (drain.st = "idle" /\ drain'.st = "new"))
    BY <1>2, <1>a DEF OnDelta, EnsureDrain, TaskTypes
  <2> QED
    BY <2>1 DEF LineInv, Holds
<1>3. CASE OnSpeak
  <2>0. turn.n \in Turn /\ \E r : r.st \in {"await", "line"}
                              /\ (task' = task \/ task' = [task EXCEPT ![turn.n] = r])
    <3>1. turn.n \in Turn
      BY <1>3, <1>a DEF OnSpeak, TurnTypes
    <3>2. task' = task \/ task' = [task EXCEPT ![turn.n] = Job("await", utter')]
          \/ task' = [task EXCEPT ![turn.n] = Job("line", 0)]
      BY <1>3 DEF OnSpeak
    <3>3. Job("await", utter').st \in {"await", "line"} /\ Job("line", 0).st \in {"await", "line"}
      BY DEF Job
    <3> QED
      BY <3>1, <3>2, <3>3
  <2>1. (drain'.st = drain.st \/ (drain.st = "idle" /\ drain'.st = "new"))
        /\ (line' = line \/ line' = Append(line, turn.n))
        /\ turn.n \in Turn
        /\ \A m \in Turn : task'[m] = task[m] \/ task'[m].st \in {"await", "line"}
    <3>1. (drain'.st = drain.st \/ (drain.st = "idle" /\ drain'.st = "new"))
          /\ (line' = line \/ line' = Append(line, turn.n))
      BY <1>3, <1>a DEF OnSpeak, EnsureDrain, TaskTypes
    <3> QED
      BY <2>0, <3>1, <1>a DEF TaskTypes
  <2>2. \A x \in Nat : Holds(x) => Holds(x)'
    BY <2>1, <1>b, <1>c DEF Holds
  <2> QED
    BY <2>1, <2>2, <1>c DEF LineInv
<1>11. CASE SpeakNothing
  <2>1. UNCHANGED <<drain, line>> /\ task' = [task EXCEPT ![turn.n] = Job("done", 0)]
    BY <1>11 DEF SpeakNothing
  <2>2. Job("done", 0).st = "done"
    BY DEF Job
  <2>3. \A m \in Turn : task'[m] = task[m] \/ task'[m].st = "done"
    BY <2>1, <2>2, <1>a DEF TaskTypes
  <2> QED
    BY <2>1, <2>3 DEF LineInv, Holds
<1>4. ASSUME NEW n \in Turn, SpeakResumes(n) PROVE LineInv'
  <2>1. UNCHANGED <<drain, line>>
        /\ \A m \in Turn : task'[m] = task[m] \/ task'[m].st = "done"
    BY <1>4, <1>a DEF SpeakResumes, Finish, TaskTypes
  <2> QED
    BY <2>1 DEF LineInv, Holds
<1>5. ASSUME NEW n \in Turn, WholeStarts(n) PROVE LineInv'
  <2>1. UNCHANGED <<drain, line>> /\ Holds(n) /\ task'[n].st = "whole"
        /\ \A m \in Turn : m # n => task'[m] = task[m]
    BY <1>5, <1>a DEF WholeStarts, TaskTypes, Tasks
  <2> QED
    BY <2>1 DEF LineInv, Holds
<1>6. ASSUME NEW n \in Turn, WholeClip(n) PROVE LineInv'
  <2>1. UNCHANGED <<drain, line>> /\ task[n].st = "render" /\ task'[n].st = "whole"
        /\ \A m \in Turn : m # n => task'[m] = task[m]
    BY <1>6, <1>a DEF WholeClip, TaskTypes, Tasks
  <2> QED
    BY <2>1 DEF LineInv, Holds
<1>7. ASSUME NEW n \in Turn, WholeNext(n) \/ WholeFails(n) PROVE LineInv'
  <2>1. UNCHANGED drain /\ task[n].st \in {"whole", "render"}
        /\ \A m \in Turn : m # n => task'[m] = task[m]
    BY <1>7, <1>a DEF WholeNext, WholeFails, Finish, TaskTypes
  <2>2. Holds(n)
    BY <2>1 DEF LineInv
  <2>3. CASE task'[n].st = "done"
    <3>1. drain.st # "render" /\ \A m \in Turn : m # n => task[m].st \notin {"whole", "render"}
      BY <2>2, <1>c DEF LineInv, Holds
    <3> QED
      BY <2>1, <2>3, <3>1 DEF LineInv
  <2>4. CASE task'[n].st # "done"
    <3>1. WholeNext(n) /\ task[n].todo # <<>> /\ UNCHANGED line
          /\ task' = [task EXCEPT ![n].st = "render"]
      BY <1>7, <2>4, <1>a DEF WholeNext, WholeFails, Finish, TaskTypes, Tasks
    <3>2. task'[n].st = "render" /\ task'[n].todo = task[n].todo
      BY <3>1, <1>a DEF TaskTypes, Tasks
    <3> QED
      BY <2>1, <2>2, <3>1, <3>2 DEF LineInv, Holds
  <2> QED
    BY <2>3, <2>4
<1>8. CASE DrainStarts
  <2>1. drain'.st = "line" /\ line' = Append(line, 0) /\ UNCHANGED task
        /\ \A m \in Turn : task[m].st # "woken"
    BY <1>8, <1>a DEF DrainStarts, TaskTypes
  <2>2. \A x \in Nat : Holds(x) => Holds(x)'
    BY <2>1, <1>b
  <2> QED
    BY <2>1, <2>2, <1>c DEF LineInv
<1>9. CASE (DrainNext /\ DrainEnds) \/ DrainFails
  <2>1. Holds(0) /\ drain'.st = "idle"
        /\ \A m \in Turn : task'[m] = task[m] \/ task'[m].st = "woken"
    BY <1>9, <1>a DEF DrainNext, DrainFails, DrainEnds, NoDrain, LineInv, TaskTypes, Tasks
  <2>2. \A m \in Turn : task[m].st \notin {"whole", "render"}
    BY <2>1, <1>c DEF LineInv, Holds
  <2> QED
    BY <2>1, <2>2 DEF LineInv
<1>10. CASE (DrainNext /\ ~DrainEnds) \/ DrainClip
  <2>1. UNCHANGED <<line, task>> /\ drain'.st \in {"render", "line"}
        /\ drain.st \in {"render", "line"} /\ (drain'.st = "render" => Holds(0))
    BY <1>10, <1>a DEF DrainNext, DrainClip, NoDrain, TaskTypes
  <2> QED
    BY <2>1 DEF LineInv, Holds
<1> QED
  BY <1>1, <1>2, <1>3, <1>4, <1>5, <1>6, <1>7, <1>8, <1>9, <1>10, <1>11 DEF Next

LEMMA TypesInductive == TypeOK /\ LineInv /\ [Next]_vars => TypeOK' /\ LineInv'
<1>1. TypeOK' <=> TurnTypes' /\ StreamTypes' /\ TaskTypes' /\ PastTypes'
  BY DEF TypeOK, TurnTypes, StreamTypes, TaskTypes, PastTypes
<1> QED
  BY <1>1, TurnTypesKept, StreamTypesKept, TaskTypesKept, PastTypesKept, LineInvKept

LEMMA InitLine == Init => LineInv
BY DEF Init, LineInv, NoDrain, NoTask

\* Every state is well-typed, for any texts and any numbers of replies and upsets.
THEOREM SpeechTypeCorrect == Spec => []TypeOK
BY InitTypes, InitLine, TypesInductive, PTL DEF Spec

-----------------------------------------------------------------------------
\* What a step does to the numbers: to those that had their last word, to those
\* a withdrawal waits for, to the drain's and to the replies'.

LEMMA ClosedStep ==
  ASSUME TypeOK, LineInv, [Next]_vars
  PROVE  \/ UNCHANGED closed
         \/ closed' = closed \cup {utter} /\ open' = FALSE /\ (cancelled' = seq \/ drain.st # "render")
         \/ closed' = closed \cup {0} /\ open' = FALSE
         \/ /\ open' = FALSE /\ drain.st # "render"
            /\ \E m \in Turn : /\ task[m].st \in {"woken", "whole", "render"}
                               /\ task'[m].st = "done" /\ closed' = closed \cup {task[m].u}
         \/ /\ UNCHANGED <<utter, open>>
            /\ \E w \in retracts : closed' = closed \cup {w.u}
<1>a. TaskTypes
  BY TypeParts
<1>b. \A m \in Turn : task[m].st \in {"woken", "whole", "render"} => drain.st # "render"
  BY DEF LineInv, Holds, Turn
<1>1. CASE OnRetract \/ OnTurnError
  <2>1. Withdraw => \/ UNCHANGED closed
                    \/ closed' = closed \cup {utter} /\ open' = FALSE /\ cancelled' = seq
    BY DEF Withdraw, Drop
  <2> QED
    BY <1>1, <2>1 DEF OnRetract, OnTurnError
<1>2. CASE OnTurnCancel
  BY <1>2 DEF OnTurnCancel, Reset, StopNumber
<1>3. CASE RetractResumes
  BY <1>3 DEF RetractResumes, bufVars
<1>4. ASSUME NEW n \in Turn, SpeakResumes(n) \/ WholeFails(n) \/ WholeNext(n)
      PROVE  \/ UNCHANGED closed
             \/ closed' = closed \cup {utter} /\ open' = FALSE /\ drain.st # "render"
             \/ /\ open' = FALSE /\ drain.st # "render"
                /\ \E m \in Turn : /\ task[m].st \in {"woken", "whole", "render"}
                                   /\ task'[m].st = "done" /\ closed' = closed \cup {task[m].u}
  <2>1. CASE UNCHANGED closed
    BY <2>1
  <2>2. CASE ~UNCHANGED closed
    <3>1. task[n].st \in {"woken", "whole", "render"}
          /\ task' = [task EXCEPT ![n].st = "done"] /\ open' = FALSE
          /\ (closed' = closed \cup {utter} \/ closed' = closed \cup {task[n].u})
      BY <1>4, <2>2 DEF SpeakResumes, WholeFails, WholeNext, Finish, Reset
    <3>2. task'[n].st = "done" /\ drain.st # "render"
      BY <3>1, <1>a, <1>b DEF TaskTypes, Tasks
    <3> QED
      BY <3>1, <3>2
  <2> QED
    BY <2>1, <2>2
<1>5. CASE SpeakNothing
  BY <1>5 DEF SpeakNothing, Reset
<1>6. CASE \/ TurnStarts \/ OnDelta \/ KeepDraft \/ OnSpeak \/ CancelSpeech \/ LeaveConversation
           \/ EnterConversation \/ DrainStarts \/ DrainNext \/ DrainClip \/ DrainFails
           \/ UNCHANGED vars \/ \E n \in Turn : WholeStarts(n) \/ WholeClip(n)
  BY <1>6 DEF TurnStarts, OnDelta, KeepDraft, OnSpeak, CancelSpeech, LeaveConversation,
       EnterConversation, DrainStarts, DrainNext, DrainClip, DrainFails, WholeStarts, WholeClip,
       vars, pastVars
<1> QED
  BY <1>1, <1>2, <1>3, <1>4, <1>5, <1>6 DEF Next

LEMMA RetractStep ==
  ASSUME TypeOK, [Next]_vars
  PROVE  \A v \in retracts' : \/ \E w \in retracts : v.u = w.u
                              \/ v.u = utter /\ open /\ open' = FALSE /\ cancelled' = seq
<1>1. CASE OnRetract \/ OnTurnError
  <2>1. retracts' = retracts \/ (retracts' = retracts \cup {[u |-> utter, woken |-> FALSE]}
                                 /\ open /\ open' = FALSE /\ cancelled' = seq)
    BY <1>1 DEF OnRetract, OnTurnError, Withdraw, Drop
  <2> QED
    BY <2>1
<1>2. CASE DrainNext \/ DrainFails
  <2>1. retracts' = retracts \/ retracts' = {[w EXCEPT !.woken = TRUE] : w \in retracts}
    BY <1>2 DEF DrainNext, DrainFails, DrainEnds
  <2>2. \A w \in retracts : [w EXCEPT !.woken = TRUE].u = w.u
    BY TypeParts DEF TaskTypes
  <2>3. ASSUME NEW v \in retracts' PROVE \E w \in retracts : v.u = w.u
    <3>1. v \in retracts \/ \E w \in retracts : v = [w EXCEPT !.woken = TRUE]
      BY <2>1, Zenon
    <3> QED
      BY <3>1, <2>2, Zenon
  <2> QED
    BY <2>3
<1>3. CASE \/ TurnStarts \/ OnDelta \/ KeepDraft \/ OnSpeak \/ SpeakNothing \/ OnTurnCancel
           \/ CancelSpeech \/ LeaveConversation \/ EnterConversation \/ DrainStarts \/ DrainClip \/ RetractResumes \/ UNCHANGED vars
           \/ \E n \in Turn : SpeakResumes(n) \/ WholeStarts(n) \/ WholeNext(n) \/ WholeClip(n)
                               \/ WholeFails(n)
  <2>1. retracts' \subseteq retracts
    BY <1>3 DEF TurnStarts, OnDelta, KeepDraft, OnSpeak, SpeakNothing, OnTurnCancel, CancelSpeech,
         LeaveConversation, EnterConversation, DrainStarts, DrainClip, RetractResumes, SpeakResumes, WholeStarts,
         WholeNext, WholeClip, WholeFails, vars, taskVars
  <2> QED
    BY <2>1
<1> QED
  BY <1>1, <1>2, <1>3 DEF Next

LEMMA DrainStep ==
  ASSUME TypeOK, [Next]_vars
  PROVE  /\ drain'.u \in {0, drain.u, utter}
         /\ drain'.st = "render" =>
              \/ UNCHANGED drain
              \/ /\ UNCHANGED <<turn, utter, open, seq, cancelled, retracts, closed, withdrawn>>
                 /\ cancelled < utter /\ drain'.u = utter /\ pending # <<>> /\ drain'.item = Head(pending)
<1>a. TaskTypes
  BY TypeParts
<1>1. CASE OnDelta \/ OnSpeak
  <2>1. UNCHANGED drain \/ drain' = [drain EXCEPT !.st = "new"]
    BY <1>1 DEF OnDelta, OnSpeak, EnsureDrain
  <2> QED
    BY <2>1, <1>a DEF TaskTypes
<1>2. CASE DrainStarts \/ DrainClip \/ DrainFails \/ (DrainNext /\ DrainEnds)
  <2>1. drain' = NoDrain \/ drain' = [drain EXCEPT !.st = "line"]
        \/ drain' = [NoDrain EXCEPT !.st = "line"]
    BY <1>2 DEF DrainStarts, DrainClip, DrainFails, DrainEnds
  <2> QED
    BY <2>1, <1>a DEF TaskTypes, NoDrain
<1>3. CASE DrainNext /\ ~DrainEnds
  <2>1. /\ UNCHANGED <<turn, utter, open, seq, cancelled, retracts, closed, withdrawn>>
        /\ ~(cancelled >= utter)
        /\ drain' = [drain EXCEPT !.st = "render", !.item = Head(pending), !.u = utter]
        /\ pending # <<>>
    BY <1>3 DEF DrainNext, bufVars, pastVars
  <2>2. drain'.u = utter /\ drain'.item = Head(pending)
    BY <2>1, <1>a DEF TaskTypes
  <2>3. cancelled < utter
    BY <2>1, TypeParts DEF StreamTypes
  <2> QED
    BY <2>1, <2>2, <2>3
<1>4. CASE \/ TurnStarts \/ KeepDraft \/ OnRetract \/ OnTurnError \/ SpeakNothing \/ OnTurnCancel
           \/ CancelSpeech \/ LeaveConversation \/ EnterConversation \/ RetractResumes \/ UNCHANGED vars
           \/ \E n \in Turn : SpeakResumes(n) \/ WholeStarts(n) \/ WholeNext(n) \/ WholeClip(n)
                               \/ WholeFails(n)
  <2>1. UNCHANGED drain
    BY <1>4 DEF TurnStarts, KeepDraft, OnRetract, OnTurnError, SpeakNothing, OnTurnCancel,
         CancelSpeech, LeaveConversation, EnterConversation, RetractResumes, SpeakResumes, WholeStarts, WholeNext, WholeClip,
         WholeFails, vars, taskVars
  <2> QED
    BY <2>1
<1> QED
  BY <1>1, <1>2, <1>3, <1>4 DEF Next

\* What may become of a reply's record.
Same(m) == task'[m] = task[m]

Ends(m) == task[m].st \in {"woken", "whole", "render"} /\ task'[m].st = "done" /\ task'[m].u = task[m].u

Moves(m) ==
  /\ task'[m].u = task[m].u /\ task'[m].draft = task[m].draft
  /\ \/ task[m].st = "await" /\ task'[m].st = "woken"
     \/ task[m].st = "whole" /\ task'[m].st = "render" /\ task'[m].todo = task[m].todo
        /\ cancelled < task[m].u /\ task[m].todo # <<>>
     \/ task[m].st = "render" /\ task'[m].st = "whole" /\ task'[m].todo = Tail(task[m].todo)

Begins(m) ==
  /\ turn.live /\ m = turn.n /\ ~turn'.live /\ task'[m].draft = turn.draft
  /\ UNCHANGED <<withdrawn, closed, retracts>>
  /\ \/ task'[m].st = "await" /\ task'[m].u = utter'
     \/ task'[m].st = "line" /\ task'[m].u = 0

\* The reply that had nothing to say, or no voice.
Mutes(m) ==
  /\ turn.live /\ m = turn.n /\ ~turn'.live /\ UNCHANGED withdrawn
  /\ task'[m].st = "done" /\ task'[m].u = 0 /\ task'[m].draft = turn.draft

Enters(m) ==
  /\ task[m].st = "line" /\ task'[m].st = "whole" /\ task'[m].draft = task[m].draft
  /\ task'[m].u = seq + 1 /\ seq' = seq + 1
  /\ \A i \in DOMAIN task'[m].todo : Draft(task'[m].todo[i]) = <<m, task[m].draft>>
  /\ UNCHANGED <<utter, open, closed, retracts, cancelled, withdrawn, spared>>

LEMMA TaskStep ==
  ASSUME TypeOK, [Next]_vars
  PROVE  \/ \A m \in Turn : Same(m) \/ Ends(m) \/ Moves(m) \/ Begins(m) \/ Mutes(m)
         \/ \E m \in Turn : Enters(m) /\ \A k \in Turn \ {m} : Same(k)
<1>a. TurnTypes /\ StreamTypes /\ TaskTypes
  BY TypeParts
<1>1. CASE OnSpeak
  <2>1. /\ turn.live /\ turn' = Over /\ UNCHANGED <<withdrawn, closed, retracts>>
        /\ \/ task' = task
           \/ task' = [task EXCEPT ![turn.n] = Job("await", utter')]
           \/ task' = [task EXCEPT ![turn.n] = Job("line", 0)]
    BY <1>1 DEF OnSpeak
  <2>2. ~turn'.live /\ turn.n \in Turn
    BY <2>1, <1>a, OverType DEF TurnTypes
  <2>3. \A st, u : Job(st, u).st = st /\ Job(st, u).u = u /\ Job(st, u).draft = turn.draft
    BY DEF Job
  <2>4. ASSUME NEW m \in Turn PROVE Same(m) \/ Begins(m)
    <3>1. task'[m] = task[m] \/ (m = turn.n /\ (task'[m] = Job("await", utter') \/ task'[m] = Job("line", 0)))
      BY <2>1, <1>a DEF TaskTypes
    <3> QED
      BY <3>1, <2>1, <2>2, <2>3 DEF Same, Begins
  <2> QED
    BY <2>4
<1>2. ASSUME NEW n \in Turn, WholeStarts(n)
      PROVE  Enters(n) /\ \A k \in Turn \ {n} : Same(k)
  <2> DEFINE final == Answer(n, task[n].draft, task[n].text, task[n].kept)
             todo == SubSeq(final, HeardCount(final) + 1, Len(final))
             S == {x \in Sentences : Draft(x) = <<n, task[n].draft>>}
  <2>1. /\ task[n] \in Tasks /\ n \in Nat /\ task[n].draft \in Nat /\ task[n].text \in Seq(STRING)
        /\ task[n].kept \in Nat
    BY <1>a DEF TaskTypes, Turn, Tasks
  <2>2. final \in Seq(S)
    BY <2>1, AnswerType
  <2>3. task[n].st = "line" /\ seq' = seq + 1
        /\ UNCHANGED <<utter, open, closed, retracts, cancelled, withdrawn, spared>>
        /\ task' = [task EXCEPT ![n].st = "whole", ![n].u = seq + 1, ![n].todo = todo]
    BY <1>2 DEF WholeStarts, bufVars, pastVars
  <2> HIDE DEF final
  <2>4. final \in Seq(Sentences)
    BY <2>2
  <2>5. todo \in Seq(S)
    BY <2>2, <2>4, HeardCountType, SeqSlice
  <2> HIDE DEF todo
  <2>6. task'[n].st = "whole" /\ task'[n].u = seq + 1 /\ task'[n].todo = todo
        /\ task'[n].draft = task[n].draft /\ \A k \in Turn \ {n} : task'[k] = task[k]
    BY <2>1, <2>3, <1>a DEF TaskTypes, Tasks
  <2>7. \A i \in DOMAIN todo : Draft(todo[i]) = <<n, task[n].draft>>
    BY <2>5
  <2> QED
    BY <2>3, <2>6, <2>7 DEF Enters, Same
<1>3. ASSUME NEW n \in Turn, WholeNext(n), NEW m \in Turn PROVE Same(m) \/ Ends(m) \/ Moves(m)
  <2>1. CASE task[n].todo = <<>> \/ cancelled >= task[n].u
    <3>1. task[n].st = "whole" /\ task' = [task EXCEPT ![n].st = "done"]
      BY <1>3, <2>1 DEF WholeNext, Finish
    <3> QED
      BY <3>1, <1>a DEF TaskTypes, Tasks, Same, Ends
  <2>2. CASE ~(task[n].todo = <<>> \/ cancelled >= task[n].u)
    <3>1. task[n].st = "whole" /\ task' = [task EXCEPT ![n].st = "render"]
      BY <1>3, <2>2 DEF WholeNext
    <3>2. cancelled < task[n].u
      BY <2>2, <1>a DEF StreamTypes, TaskTypes, Tasks
    <3> QED
      BY <3>1, <3>2, <2>2, <1>a DEF TaskTypes, Tasks, Same, Moves
  <2> QED
    BY <2>1, <2>2
<1>4. ASSUME NEW n \in Turn, WholeClip(n), NEW m \in Turn PROVE Same(m) \/ Moves(m)
  <2>1. task[n].st = "render"
        /\ task' = [task EXCEPT ![n].st = "whole", ![n].todo = Tail(task[n].todo)]
    BY <1>4 DEF WholeClip
  <2> QED
    BY <2>1, <1>a DEF TaskTypes, Tasks, Same, Moves
<1>5. ASSUME NEW n \in Turn, WholeFails(n) \/ SpeakResumes(n), NEW m \in Turn
      PROVE  Same(m) \/ Ends(m)
  <2>1. task[n].st \in {"woken", "render"} /\ task' = [task EXCEPT ![n].st = "done"]
    BY <1>5 DEF WholeFails, SpeakResumes, Finish
  <2> QED
    BY <2>1, <1>a DEF TaskTypes, Tasks, Same, Ends
<1>6. ASSUME (DrainNext /\ DrainEnds) \/ DrainFails, NEW m \in Turn PROVE Same(m) \/ Moves(m)
  <2>1. task' = [n \in Turn |-> IF task[n].st = "await" THEN [task[n] EXCEPT !.st = "woken"]
                                                       ELSE task[n]]
    BY <1>6 DEF DrainFails, DrainEnds
  <2> QED
    BY <2>1, <1>a DEF TaskTypes, Tasks, Same, Moves
<1>8. CASE SpeakNothing
  <2>1. /\ turn.live /\ turn' = Over /\ UNCHANGED withdrawn
        /\ task' = [task EXCEPT ![turn.n] = Job("done", 0)]
    BY <1>8 DEF SpeakNothing
  <2>2. ~turn'.live /\ turn.n \in Turn
    BY <2>1, <1>a, OverType DEF TurnTypes
  <2>3. Job("done", 0).st = "done" /\ Job("done", 0).u = 0 /\ Job("done", 0).draft = turn.draft
    BY DEF Job
  <2>4. ASSUME NEW m \in Turn PROVE Same(m) \/ Mutes(m)
    <3>1. task'[m] = task[m] \/ (m = turn.n /\ task'[m] = Job("done", 0))
      BY <2>1, <1>a DEF TaskTypes
    <3> QED
      BY <3>1, <2>1, <2>2, <2>3 DEF Same, Mutes
  <2> QED
    BY <2>4
<1>7. CASE \/ TurnStarts \/ OnDelta \/ KeepDraft \/ OnRetract \/ OnTurnError \/ OnTurnCancel
           \/ CancelSpeech \/ LeaveConversation \/ EnterConversation \/ RetractResumes \/ DrainStarts
           \/ (DrainNext /\ ~DrainEnds) \/ DrainClip \/ UNCHANGED vars
  <2>1. UNCHANGED task
    BY <1>7 DEF TurnStarts, OnDelta, KeepDraft, OnRetract, OnTurnError, OnTurnCancel, CancelSpeech,
         LeaveConversation, EnterConversation, RetractResumes, DrainStarts, DrainNext, DrainClip,
         vars, taskVars
  <2> QED
    BY <2>1 DEF Same
<1> QED
  BY <1>1, <1>2, <1>3, <1>4, <1>5, <1>6, <1>7, <1>8 DEF Next

-----------------------------------------------------------------------------
\* The numbers.  What the drain renders above the cancel mark is of an utterance
\* whose last word has not been given and that no withdrawal is about to close.
Voiced == drain.st = "render" /\ cancelled < drain.u

NumberInv ==
  /\ open <=> utter # 0
  /\ cancelled <= seq /\ utter <= seq /\ drain.u <= seq
  /\ \A n \in Turn : task[n].u <= seq
  /\ \A u \in closed : u <= seq
  /\ \A w \in retracts : w.u <= seq /\ (open => w.u < utter)
  /\ open => utter \notin closed
  /\ Voiced => drain.u \notin closed /\ \A w \in retracts : w.u # drain.u

LEMMA InitNumbers == Init => NumberInv
<1> SUFFICES ASSUME Init PROVE NumberInv
  OBVIOUS
<1>1. drain.u = 0 /\ drain.st = "idle" /\ \A n \in Turn : task[n].u = 0
  BY DEF Init, NoDrain, NoTask
<1> QED
  BY <1>1 DEF Init, NumberInv, Voiced

LEMMA NumbersKept == TypeOK /\ LineInv /\ NumberInv /\ [Next]_vars => NumberInv'
<1> SUFFICES ASSUME TypeOK, LineInv, NumberInv, [Next]_vars PROVE NumberInv'
  OBVIOUS
<1>a. /\ open \in BOOLEAN /\ utter \in Nat /\ seq \in Nat /\ cancelled \in Nat /\ drain.u \in Nat
      /\ \A n \in Turn : task[n].u \in Nat
      /\ \A w \in retracts : w.u \in Nat
      /\ closed \subseteq Nat
  BY TypeParts DEF StreamTypes, TaskTypes, Tasks, PastTypes
<1>b. /\ open' \in BOOLEAN /\ utter' \in Nat /\ seq' \in Nat /\ cancelled' \in Nat
      /\ drain'.u \in Nat
  BY TypesInductive DEF TypeOK
<1>c. /\ cancelled <= seq /\ utter <= seq /\ drain.u <= seq
      /\ \A n \in Turn : task[n].u <= seq
      /\ \A u \in closed : u <= seq
      /\ \A w \in retracts : w.u <= seq
  BY DEF NumberInv
<1>s. /\ seq' \in {seq, seq + 1} /\ cancelled' \in {cancelled, seq}
      /\ \/ utter' = 0 /\ open' = FALSE
         \/ UNCHANGED <<utter, open>>
         \/ ~open /\ open' = TRUE /\ seq' = seq + 1 /\ utter' = seq + 1 /\ speak
  BY StreamStep
<1>1. open' <=> utter' # 0
  BY <1>s, <1>a DEF NumberInv
<1>2. cancelled' <= seq' /\ utter' <= seq' /\ drain'.u <= seq'
  BY <1>s, <1>a, <1>c, DrainStep
<1>3. \A n \in Turn : task'[n].u <= seq'
  <2>1. ASSUME NEW n \in Turn PROVE task'[n].u <= seq'
    <3>1. task'[n].u = task[n].u \/ task'[n].u = utter' \/ task'[n].u = 0
          \/ (task'[n].u = seq + 1 /\ seq' = seq + 1)
      <4>1. CASE \A m \in Turn : Same(m) \/ Ends(m) \/ Moves(m) \/ Begins(m) \/ Mutes(m)
        BY <4>1 DEF Same, Ends, Moves, Begins, Mutes
      <4>2. CASE \E m \in Turn : Enters(m) /\ \A k \in Turn \ {m} : Same(k)
        BY <4>2 DEF Same, Enters
      <4> QED
        BY <4>1, <4>2, TaskStep
    <3> QED
      BY <3>1, <1>a, <1>b, <1>c, <1>s, <1>2
  <2> QED
    BY <2>1
<1>4. \A u \in closed' : u <= seq'
  <2>1. ASSUME NEW u \in closed' PROVE u <= seq
    <3>1. \/ u \in closed \/ u = utter \/ u = 0 \/ \E m \in Turn : u = task[m].u
          \/ \E w \in retracts : u = w.u
      <4>1. \/ closed' = closed
            \/ closed' = closed \cup {utter}
            \/ closed' = closed \cup {0}
            \/ \E m \in Turn : closed' = closed \cup {task[m].u}
            \/ \E w \in retracts : closed' = closed \cup {w.u}
        BY ClosedStep, Zenon
      <4> QED
        BY <4>1, Zenon
    <3>2. 0 <= seq
      BY <1>a
    <3> QED
      BY <3>1, <3>2, <1>c
  <2>2. closed' \subseteq Nat
    BY TypesInductive DEF TypeOK
  <2> QED
    BY <2>1, <2>2, <1>s, <1>a
<1>5. \A w \in retracts' : w.u <= seq' /\ (open' => w.u < utter')
  <2>1. ASSUME NEW v \in retracts' PROVE v.u <= seq' /\ (open' => v.u < utter')
    <3>1. CASE v.u = utter /\ open /\ open' = FALSE
      BY <3>1, <1>a, <1>c, <1>s
    <3>2. CASE \E w \in retracts : v.u = w.u
      <4>1. PICK w \in retracts : v.u = w.u
        BY <3>2
      <4>2. w.u \in Nat /\ w.u <= seq /\ (open => w.u < utter)
        BY <1>a DEF NumberInv
      <4> QED
        BY <4>1, <4>2, <1>a, <1>s
    <3> QED
      BY <3>1, <3>2, RetractStep
  <2> QED
    BY <2>1
<1>6. open' => utter' \notin closed'
  <2>1. SUFFICES ASSUME open' PROVE utter' \notin closed'
    OBVIOUS
  <2>2. utter' \notin closed
    <3>1. CASE UNCHANGED <<utter, open>>
      BY <3>1, <2>1 DEF NumberInv
    <3>2. CASE utter' = seq + 1
      BY <3>2, <1>a, <1>c
    <3> QED
      BY <3>1, <3>2, <2>1, <1>s
  <2>3. CASE UNCHANGED closed
    BY <2>2, <2>3
  <2>4. CASE UNCHANGED <<utter, open>> /\ \E w \in retracts : closed' = closed \cup {w.u}
    BY <2>1, <2>2, <2>4, <1>a DEF NumberInv
  <2> QED
    BY <2>1, <2>3, <2>4, ClosedStep
<1>7. Voiced' => drain'.u \notin closed' /\ \A w \in retracts' : w.u # drain'.u
  <2>1. SUFFICES ASSUME drain'.st = "render", cancelled' < drain'.u
                 PROVE  drain'.u \notin closed' /\ \A w \in retracts' : w.u # drain'.u
    BY DEF Voiced
  <2>2. CASE UNCHANGED <<open, utter, retracts, closed>> /\ cancelled < utter /\ drain'.u = utter
    <3>1. open
      BY <2>2, <1>a DEF NumberInv
    <3> QED
      BY <2>2, <3>1, <1>a DEF NumberInv
  <2>3. CASE UNCHANGED drain
    <3>1. cancelled <= cancelled'
      BY <1>s, <1>a, <1>c
    <3>2. cancelled < drain.u /\ drain.st = "render" /\ drain.u # 0
      BY <2>1, <2>3, <3>1, <1>a, <1>b
    <3>3. drain.u \notin closed /\ \A w \in retracts : w.u # drain.u
      BY <3>2 DEF NumberInv, Voiced
    <3>4. cancelled' # seq
      BY <2>1, <2>3, <1>a, <1>c
    <3>5. \A v \in retracts' : v.u # drain.u
      BY <3>3, <3>4, RetractStep
    <3>6. drain.u \notin closed'
      BY <3>2, <3>3, <3>4, ClosedStep
    <3> QED
      BY <2>3, <3>5, <3>6
  <2> QED
    BY <2>1, <2>2, <2>3, DrainStep
<1> QED
  BY <1>1, <1>2, <1>3, <1>4, <1>5, <1>6, <1>7 DEF NumberInv

-----------------------------------------------------------------------------
\* A reply that is spoken whole has a number of its own.
Own(n) == task[n].st \in {"whole", "render"}

WholeInv ==
  \A n \in Turn : Own(n) =>
    /\ task[n].u \notin closed /\ task[n].u # utter /\ task[n].u # 0
    /\ \A w \in retracts : w.u # task[n].u
    /\ \A m \in Turn \ {n} :
         task[m].st \in {"await", "woken", "whole", "render"} => task[m].u # task[n].u

LEMMA WholeKept == TypeOK /\ LineInv /\ NumberInv /\ WholeInv /\ [Next]_vars => WholeInv'
<1> SUFFICES ASSUME TypeOK, LineInv, NumberInv, WholeInv, [Next]_vars PROVE WholeInv'
  OBVIOUS
<1>a. /\ utter \in Nat /\ seq \in Nat /\ utter <= seq
      /\ \A n \in Turn : task[n].u \in Nat /\ task[n].u <= seq
      /\ \A w \in retracts : w.u \in Nat /\ w.u <= seq
      /\ \A u \in closed : u \in Nat /\ u <= seq
  BY TypeParts DEF StreamTypes, TaskTypes, Tasks, PastTypes, NumberInv
<1>b. utter' \in {0, utter, seq + 1}
  BY StreamStep
<1>c. \A v \in retracts' : v.u = utter \/ \E w \in retracts : v.u = w.u
  BY RetractStep
<1>1. CASE \E m \in Turn : Enters(m) /\ \A k \in Turn \ {m} : Same(k)
  <2>1. PICK m \in Turn : Enters(m) /\ \A k \in Turn \ {m} : Same(k)
    BY <1>1
  <2>2. /\ UNCHANGED <<utter, closed, retracts>>
        /\ task'[m].u = seq + 1 /\ \A k \in Turn \ {m} : task'[k] = task[k]
    BY <2>1 DEF Enters, Same
  <2>3. SUFFICES ASSUME NEW n \in Turn, Own(n)'
                 PROVE  /\ task'[n].u \notin closed' /\ task'[n].u # utter' /\ task'[n].u # 0
                        /\ \A w \in retracts' : w.u # task'[n].u
                        /\ \A k \in Turn \ {n} :
                             task'[k].st \in {"await", "woken", "whole", "render"} =>
                               task'[k].u # task'[n].u
    BY DEF WholeInv
  <2>4. CASE n = m
    BY <2>2, <2>4, <1>a
  <2>5. CASE n # m
    <3>1. task'[n] = task[n] /\ Own(n)
      BY <2>2, <2>3, <2>5 DEF Own
    <3>2. task'[n].u # task'[m].u
      BY <2>2, <3>1, <1>a
    <3> QED
      BY <2>2, <3>1, <3>2 DEF WholeInv
  <2> QED
    BY <2>4, <2>5
<1>2. CASE \A m \in Turn : Same(m) \/ Ends(m) \/ Moves(m) \/ Begins(m) \/ Mutes(m)
  <2>1. SUFFICES ASSUME NEW n \in Turn, Own(n)'
                 PROVE  /\ task'[n].u \notin closed' /\ task'[n].u # utter' /\ task'[n].u # 0
                        /\ \A w \in retracts' : w.u # task'[n].u
                        /\ \A k \in Turn \ {n} :
                             task'[k].st \in {"await", "woken", "whole", "render"} =>
                               task'[k].u # task'[n].u
    BY DEF WholeInv
  <2>2. Own(n) /\ task'[n].u = task[n].u
    BY <1>2, <2>1 DEF Own, Same, Ends, Moves, Begins, Mutes
  <2>3. /\ task[n].u \notin closed /\ task[n].u # utter /\ task[n].u # 0
        /\ \A w \in retracts : w.u # task[n].u
        /\ \A m \in Turn \ {n} :
             task[m].st \in {"await", "woken", "whole", "render"} => task[m].u # task[n].u
    BY <2>2 DEF WholeInv
  <2>4. task[n].u # utter'
    BY <2>2, <2>3, <1>a, <1>b
  <2>5. \A v \in retracts' : v.u # task[n].u
    BY <2>3, <1>c
  <2>6. task[n].u \notin closed'
    <3>1. \A m \in Turn : task[m].st \in {"woken", "whole", "render"} /\ task'[m].st = "done" =>
            task[m].u # task[n].u
      BY <2>1, <2>3 DEF Own
    <3>2. \/ closed' = closed
          \/ closed' = closed \cup {utter}
          \/ closed' = closed \cup {0}
          \/ \E m \in Turn : /\ task[m].st \in {"woken", "whole", "render"}
                             /\ task'[m].st = "done" /\ closed' = closed \cup {task[m].u}
          \/ \E w \in retracts : closed' = closed \cup {w.u}
      BY ClosedStep, Zenon
    <3> QED
      BY <2>3, <3>1, <3>2
  <2>7. ASSUME NEW k \in Turn \ {n}, task'[k].st \in {"await", "woken", "whole", "render"}
        PROVE  task'[k].u # task[n].u
    <3>1. \/ task'[k].u = utter'
          \/ task'[k].u = task[k].u /\ task[k].st \in {"await", "woken", "whole", "render"}
      BY <1>2, <2>7 DEF Same, Ends, Moves, Begins, Mutes
    <3> QED
      BY <2>3, <2>4, <3>1
  <2> QED
    BY <2>2, <2>3, <2>4, <2>5, <2>6, <2>7
<1> QED
  BY <1>1, <1>2, TaskStep

SpeechInv == TypeOK /\ LineInv /\ NumberInv /\ WholeInv

LEMMA InitSpeech == Init => SpeechInv
<1>1. Init => WholeInv
  BY DEF Init, WholeInv, Own, NoTask
<1> QED
  BY <1>1, InitTypes, InitLine, InitNumbers DEF SpeechInv

LEMMA SpeechInductive == SpeechInv /\ [Next]_vars => SpeechInv'
BY TypesInductive, NumbersKept, WholeKept DEF SpeechInv

LEMMA LastAppended ==
  ASSUME NEW S, NEW s \in Seq(S), NEW x \in S
  PROVE  Last(Append(s, x)) = x
BY DEF Last

LEMMA OnlyClips ==
  ASSUME [Next]_vars, ~DrainClip, ~\E n \in Turn : WholeClip(n)
  PROVE  UNCHANGED said
BY DEF Next, TurnStarts, OnDelta, KeepDraft, OnRetract, OnTurnError, OnSpeak, SpeakNothing,
    OnTurnCancel, CancelSpeech, LeaveConversation, EnterConversation, DrainStarts, DrainNext, DrainFails, RetractResumes,
    SpeakResumes, WholeStarts, WholeNext, WholeFails, vars, pastVars

\* Whose clip a step publishes.
LEMMA ClipStep ==
  ASSUME SpeechInv, [Next]_vars, NEW m \in Turn, NewClip(m)
  PROVE  \/ /\ WholeClip(m) /\ task[m].st = "render"
            /\ task[m].todo \in Seq(Sentences) /\ task[m].todo # <<>>
            /\ Last(said'[m]) = Clip(Head(task[m].todo), task[m].u)
         \/ /\ drain.st = "render" /\ cancelled < drain.u /\ drain.item.turn = m
            /\ Last(said'[m]) = Clip(drain.item, drain.u)
<1>a. TypeOK /\ LineInv /\ TaskTypes /\ PastTypes
  BY TypeParts DEF SpeechInv
<1>1. CASE \E n \in Turn : WholeClip(n)
  <2>1. PICK n \in Turn : WholeClip(n)
    BY <1>1
  <2>2. /\ task[n].st = "render"
        /\ said' = [said EXCEPT ![n] = Append(said[n], Clip(Head(task[n].todo), task[n].u))]
    BY <2>1 DEF WholeClip
  <2>3. n = m
    BY <2>2, <1>a DEF PastTypes, NewClip
  <2>4. task[n].todo \in Seq(Sentences) /\ task[n].todo # <<>> /\ task[n].u \in Nat
    BY <2>2, <1>a DEF LineInv, TaskTypes, Tasks
  <2>5. Clip(Head(task[n].todo), task[n].u) \in Clips
    BY <2>4, SeqParts, ClipType
  <2>6. said'[m] = Append(said[m], Clip(Head(task[n].todo), task[n].u)) /\ said[m] \in Seq(Clips)
    BY <2>2, <2>3, <1>a DEF PastTypes
  <2>7. Last(said'[m]) = Clip(Head(task[n].todo), task[n].u)
    BY <2>5, <2>6, LastAppended
  <2> QED
    BY <2>1, <2>2, <2>3, <2>4, <2>7
<1>2. CASE DrainClip
  <2>1. /\ drain.st = "render" /\ cancelled < drain.u
        /\ said' = [said EXCEPT ![drain.item.turn] =
                      Append(said[drain.item.turn], Clip(drain.item, drain.u))]
    BY <1>2 DEF DrainClip, DrainSpeaks, NewClip
  <2>2. drain.item \in Sentences /\ drain.u \in Nat
    BY <2>1, <1>a DEF TaskTypes
  <2>3. drain.item.turn = m
    BY <2>1, <1>a DEF PastTypes, NewClip
  <2>4. said'[m] = Append(said[m], Clip(drain.item, drain.u)) /\ said[m] \in Seq(Clips)
    BY <2>1, <2>3, <1>a DEF PastTypes
  <2>5. Last(said'[m]) = Clip(drain.item, drain.u)
    BY <2>2, <2>4, ClipType, LastAppended
  <2> QED
    BY <2>1, <2>3, <2>5
<1>3. CASE ~DrainClip /\ ~\E n \in Turn : WholeClip(n)
  BY <1>3, OnlyClips DEF NewClip
<1> QED
  BY <1>1, <1>2, <1>3

\* VOICE_SPEECH_DONE is the last word of its utterance: whatever is withdrawn,
\* stopped, interrupted or fails, no clip follows it.
THEOREM NothingAfterDone == Spec => DoneIsLast
<1>1. SpeechInv /\ [Next]_vars =>
        [\A n \in Turn : NewClip(n) => Last(said'[n]).u \notin closed]_vars
  <2> SUFFICES ASSUME SpeechInv, [Next]_vars, NEW n \in Turn, NewClip(n)
               PROVE  Last(said'[n]).u \notin closed
    OBVIOUS
  <2>1. CASE task[n].st = "render" /\ Last(said'[n]) = Clip(Head(task[n].todo), task[n].u)
    BY <2>1 DEF Clip, WholeInv, Own, SpeechInv
  <2>2. CASE drain.st = "render" /\ cancelled < drain.u /\ Last(said'[n]) = Clip(drain.item, drain.u)
    <3>1. drain.u \notin closed
      BY <2>2 DEF NumberInv, Voiced, SpeechInv
    <3> QED
      BY <2>2, <3>1 DEF Clip
  <2> QED
    BY <2>1, <2>2, ClipStep
<1> QED
  BY <1>1, InitSpeech, SpeechInductive, PTL DEF Spec, DoneIsLast

-----------------------------------------------------------------------------
\* The drafts.  What was taken back is neither in the buffer nor in the queue;
\* the drain renders it only under a cancelled number, and so does a reply that
\* is spoken whole, except for the sentence it was at.  The words around are of
\* the draft being written and of those before, and of that draft the drain
\* renders nothing above the mark unless the stream is open.
Standing == {x \in Sentences : Draft(x) \notin withdrawn}

Past == {x \in Sentences : x.turn <= turn.n /\ (x.turn = turn.n => x.draft <= turn.draft)}

TaskDrafts(n) ==
  /\ task[n].st # "none" => n <= turn.n /\ (turn.live => n < turn.n)
  /\ task[n].st = "line" => <<n, task[n].draft>> \notin withdrawn
  /\ Own(n) /\ <<n, task[n].draft>> \in withdrawn => task[n].u <= cancelled
  /\ task[n].st = "render" /\ <<n, task[n].draft>> \in withdrawn => Head(task[n].todo) \in spared
  /\ Own(n) => \A i \in DOMAIN task[n].todo : Draft(task[n].todo[i]) = <<n, task[n].draft>>

DraftInv ==
  /\ \A x \in withdrawn : x[1] <= turn.n /\ (x[1] = turn.n /\ turn.live => x[2] < turn.draft)
  /\ raw \in Seq(Standing) /\ pending \in Seq(Standing)
  /\ raw \in Seq(Past) /\ pending \in Seq(Past)
  /\ drain.st = "render" => drain.item \in Past
  /\ Voiced => Draft(drain.item) \notin withdrawn \/ drain.item \in spared
  /\ Voiced /\ turn.live /\ Draft(drain.item) = <<turn.n, turn.draft>> => open
  /\ \A n \in Turn : TaskDrafts(n)

LEMMA InitDrafts == Init => DraftInv
<1> SUFFICES ASSUME Init PROVE DraftInv
  OBVIOUS
<1>1. drain.st = "idle" /\ \A n \in Turn : task[n].st = "none"
  BY DEF Init, NoDrain, NoTask
<1>2. /\ raw \in Seq(Standing) /\ pending \in Seq(Standing) /\ withdrawn = {}
      /\ raw \in Seq(Past) /\ pending \in Seq(Past)
  BY SeqParts DEF Init
<1> QED
  BY <1>1, <1>2 DEF DraftInv, TaskDrafts, Own, Voiced

\* How the turn moves on.
LEMMA TurnStep ==
  ASSUME TypeOK, [Next]_vars
  PROVE  /\ turn'.n = turn.n \/ (turn'.n = turn.n + 1 /\ ~turn.live)
         /\ turn'.n = turn.n => turn'.draft \in {turn.draft, turn.draft + 1}
         /\ turn'.live /\ turn'.n = turn.n => turn.live
<1>a. TurnTypes
  BY TypeParts
<1>1. CASE TurnStarts
  BY <1>1, <1>a DEF TurnStarts, TurnTypes
<1>2. CASE OnDelta \/ KeepDraft \/ OnRetract
  <2>1. turn.live /\ turn'.n = turn.n /\ turn'.draft \in {turn.draft, turn.draft + 1}
    BY <1>2, <1>a DEF OnDelta, KeepDraft, OnRetract, TurnTypes
  <2> QED
    BY <2>1
<1>3. CASE OnTurnError \/ OnTurnCancel \/ OnSpeak \/ SpeakNothing
  <2>1. turn' = Over
    BY <1>3 DEF OnTurnError, OnTurnCancel, OnSpeak, SpeakNothing
  <2>2. turn'.draft = turn.draft
    BY <2>1, <1>a DEF Over, TurnTypes
  <2> QED
    BY <2>1, <2>2, <1>a, OverType
<1>4. CASE ~(\/ TurnStarts \/ OnDelta \/ KeepDraft \/ OnRetract \/ OnTurnError \/ OnTurnCancel
             \/ OnSpeak \/ SpeakNothing)
  <2>1. UNCHANGED turn
    BY <1>4 DEF Next, CancelSpeech, LeaveConversation, EnterConversation, DrainStarts, DrainNext,
         DrainClip, DrainFails, RetractResumes, SpeakResumes, WholeStarts, WholeNext, WholeClip,
         WholeFails, vars
  <2> QED
    BY <2>1
<1> QED
  BY <1>1, <1>2, <1>3, <1>4

\* A draft is withdrawn by a retract or an error of its turn, or by a Stop.
Retracts ==
  /\ turn.live /\ withdrawn' = withdrawn \cup {<<turn.n, turn.draft>>}
  /\ turn'.n = turn.n /\ (turn'.live => turn'.draft = turn.draft + 1)
  /\ spared' = spared \cup Rendering
  /\ ~open \/ ~speak \/ cancelled' = seq

Stops ==
  LET now == {n \in Active : task[n].st # "line"}
      of(n) == IF Live(n) THEN turn.draft ELSE task[n].draft
  IN  /\ withdrawn' = withdrawn \cup {<<n, of(n)>> : n \in now}
      /\ spared' = spared \cup Rendering
      /\ turn'.n = turn.n /\ ~turn'.live
      /\ cancelled' = seq

LEMMA WithdrawStep ==
  ASSUME TypeOK, [Next]_vars
  PROVE  \/ UNCHANGED <<withdrawn, spared>>
         \/ /\ Retracts \/ Stops
            /\ raw' = <<>> /\ pending' = <<>> /\ UNCHANGED <<task, drain>> /\ spared \subseteq spared'
<1>a. TurnTypes
  BY TypeParts
<1>1. CASE OnRetract \/ OnTurnError
  <2>1. /\ turn.live /\ withdrawn' = withdrawn \cup {<<turn.n, turn.draft>>}
        /\ spared' = spared \cup Rendering /\ UNCHANGED <<task, drain>>
    BY <1>1 DEF OnRetract, OnTurnError
  <2>2. Withdraw => (~speak /\ Reset) \/ Drop
    BY DEF Withdraw
  <2>3. (~speak /\ Reset) \/ (~open /\ Reset) \/ Drop
    BY <1>1, <2>2 DEF OnRetract, OnTurnError
  <2>4. raw' = <<>> /\ pending' = <<>> /\ (~open \/ ~speak \/ cancelled' = seq)
    BY <2>3 DEF Reset, Drop
  <2>5. turn'.n = turn.n /\ (turn'.live => turn'.draft = turn.draft + 1)
    <3>1. CASE OnRetract
      BY <3>1, <1>a DEF OnRetract, TurnTypes
    <3>2. CASE OnTurnError
      BY <3>2, <1>a, OverType DEF OnTurnError
    <3> QED
      BY <1>1, <3>1, <3>2
  <2> QED
    BY <2>1, <2>4, <2>5 DEF Retracts
<1>2. CASE OnTurnCancel
  <2>1. turn'.n = turn.n /\ ~turn'.live
    BY <1>2, <1>a, OverType DEF OnTurnCancel
  <2>2. Stops /\ raw' = <<>> /\ pending' = <<>> /\ UNCHANGED <<task, drain>>
    BY <1>2, <2>1 DEF OnTurnCancel, Stops, Reset, StopNumber
  <2>3. spared \subseteq spared'
    BY <2>2 DEF Stops
  <2> QED
    BY <2>2, <2>3
<1>3. CASE ~(OnRetract \/ OnTurnError \/ OnTurnCancel)
  BY <1>3 DEF Next, TurnStarts, OnDelta, KeepDraft, OnSpeak, SpeakNothing, CancelSpeech,
       LeaveConversation, EnterConversation, DrainStarts, DrainNext, DrainClip, DrainFails, RetractResumes,
       SpeakResumes, WholeStarts, WholeNext, WholeClip, WholeFails, vars, pastVars
<1> QED
  BY <1>1, <1>2, <1>3

\* What is withdrawn belongs to the replies begun so far, and not to the draft
\* that is being written.
WithdrawnPast == \A x \in withdrawn : x[1] <= turn.n /\ (x[1] = turn.n /\ turn.live => x[2] < turn.draft)

LEMMA WithdrawnPastKept == TypeOK /\ DraftInv /\ [Next]_vars => WithdrawnPast'
<1> SUFFICES ASSUME TypeOK, DraftInv, [Next]_vars, NEW x \in withdrawn'
             PROVE  x[1] <= turn'.n /\ (x[1] = turn'.n /\ turn'.live => x[2] < turn'.draft)
  BY DEF WithdrawnPast
<1>a. turn.n \in Nat /\ turn.draft \in Nat /\ withdrawn \subseteq Nat \X Nat
  BY TypeParts DEF TurnTypes, PastTypes
<1>b. turn'.n = turn.n \/ (turn'.n = turn.n + 1 /\ ~turn.live)
  BY TurnStep
<1>c. turn'.live /\ turn'.n = turn.n => turn.live /\ turn'.draft \in {turn.draft, turn.draft + 1}
  BY TurnStep, Zenon
<1>1. CASE x \in withdrawn
  <2>1. x[1] \in Nat /\ x[2] \in Nat /\ x[1] <= turn.n
        /\ (x[1] = turn.n /\ turn.live => x[2] < turn.draft)
    BY <1>1, <1>a DEF DraftInv
  <2> QED
    BY <2>1, <1>a, <1>b, <1>c
<1>2. CASE Retracts /\ x = <<turn.n, turn.draft>>
  BY <1>2, <1>a DEF Retracts
<1>3. CASE Stops /\ x \notin withdrawn
  <2>1. PICK n \in Active : x[1] = n
    BY <1>3 DEF Stops
  <2>2. n = turn.n \/ task[n].st # "none"
    BY <2>1 DEF Active, Live, Speaking
  <2>3. n <= turn.n
    <3>1. n \in Turn
      BY DEF Active
    <3>2. task[n].st # "none" => n <= turn.n
      BY <3>1 DEF DraftInv, TaskDrafts
    <3> QED
      BY <2>2, <3>2, <1>a
  <2> QED
    BY <2>1, <2>3, <1>3 DEF Stops
<1> QED
  BY <1>1, <1>2, <1>3, WithdrawStep DEF Retracts

LEMMA BufferStands == TypeOK /\ DraftInv /\ [Next]_vars => raw' \in Seq(Standing') /\ pending' \in Seq(Standing')
<1> SUFFICES ASSUME TypeOK, DraftInv, [Next]_vars
             PROVE  raw' \in Seq(Standing') /\ pending' \in Seq(Standing')
  OBVIOUS
<1>1. CASE UNCHANGED withdrawn
  <2>1. Standing' = Standing
    BY <1>1 DEF Standing, Draft
  <2>2. turn.live => \A x \in Sentences : Draft(x) = <<turn.n, turn.draft>> => x \in Standing
    <3> SUFFICES ASSUME turn.live, NEW x \in Sentences, Draft(x) = <<turn.n, turn.draft>>
                 PROVE  <<turn.n, turn.draft>> \notin withdrawn
      BY DEF Standing
    <3>1. turn.draft \in Nat
      BY TypeParts DEF TurnTypes
    <3> QED
      BY <3>1 DEF DraftInv
  <2>3. Standing \subseteq Sentences /\ raw \in Seq(Standing) /\ pending \in Seq(Standing)
    BY DEF Standing, DraftInv
  <2>4. raw' \in Seq(Standing) /\ pending' \in Seq(Standing)
    BY <2>2, <2>3, BufferKept
  <2> QED
    BY <2>1, <2>4
<1>2. CASE raw' = <<>> /\ pending' = <<>>
  BY <1>2, SeqParts
<1> QED
  BY <1>1, <1>2, WithdrawStep

LEMMA PastGrows == TypeOK /\ [Next]_vars => Past \subseteq Past'
<1> SUFFICES ASSUME TypeOK, [Next]_vars, NEW x \in Past
             PROVE  x.turn <= turn'.n /\ (x.turn = turn'.n => x.draft <= turn'.draft)
  BY DEF Past
<1>1. turn.n \in Nat /\ turn.draft \in Nat
  BY TypeParts DEF TurnTypes
<1>2. x.turn \in Nat /\ x.draft \in Nat /\ x.turn <= turn.n /\ (x.turn = turn.n => x.draft <= turn.draft)
  BY DEF Past, Sentences, Turn
<1>3. \/ turn'.n = turn.n /\ turn'.draft \in {turn.draft, turn.draft + 1}
      \/ turn'.n = turn.n + 1
  BY TurnStep, Zenon
<1> QED
  BY <1>1, <1>2, <1>3

LEMMA BufferPast ==
  ASSUME TypeOK, DraftInv, [Next]_vars
  PROVE  /\ raw' \in Seq(Past') /\ pending' \in Seq(Past')
         /\ drain'.st = "render" => drain'.item \in Past'
<1>1. turn.live => \A x \in Sentences : Draft(x) = <<turn.n, turn.draft>> => x \in Past
  BY TypeParts DEF Past, Draft, TurnTypes
<1>2. Past \subseteq Sentences /\ raw \in Seq(Past) /\ pending \in Seq(Past)
  BY DEF Past, DraftInv
<1>3. raw' \in Seq(Past) /\ pending' \in Seq(Past)
  BY <1>1, <1>2, BufferKept
<1>4. Past \subseteq Past'
  BY PastGrows
<1>5. drain'.st = "render" => drain'.item \in Past
  <2>1. CASE UNCHANGED drain
    BY <2>1 DEF DraftInv
  <2>2. CASE pending # <<>> /\ drain'.item = Head(pending)
    BY <2>2, <1>2, SeqParts
  <2> QED
    BY <2>1, <2>2, DrainStep
<1>6. raw' \in Seq(Past') /\ pending' \in Seq(Past')
  BY <1>3, <1>4
<1> QED
  BY <1>4, <1>5, <1>6

\* The stream is closed under a rendering only with the mark set, by the window
\* that has left, or when the turn is over.
LEMMA OpenStep ==
  ASSUME TypeOK, LineInv, [Next]_vars, open, ~open', drain.st = "render"
  PROVE  cancelled' = seq \/ ~turn'.live \/ turn'.draft # turn.draft
<1>a. TurnTypes
  BY TypeParts
<1>1. CASE OnDelta
  BY <1>1 DEF OnDelta, Queue, bufVars
<1>2. CASE OnRetract
  <2>1. turn'.draft = turn.draft + 1 /\ turn.draft \in Nat
    BY <1>2, <1>a DEF OnRetract, TurnTypes
  <2> QED
    BY <2>1
<1>3. CASE OnTurnError \/ OnTurnCancel \/ OnSpeak \/ SpeakNothing
  <2>1. turn' = Over
    BY <1>3 DEF OnTurnError, OnTurnCancel, OnSpeak, SpeakNothing
  <2> QED
    BY <2>1, <1>a, OverType
<1>4. CASE \E n \in Turn : SpeakResumes(n) \/ WholeNext(n) \/ WholeFails(n)
  <2>1. \E n \in Turn : task[n].st \in {"woken", "whole", "render"}
    BY <1>4 DEF SpeakResumes, WholeNext, WholeFails
  <2> QED
    BY <2>1 DEF LineInv, Holds, Turn
<1>5. CASE \/ TurnStarts \/ KeepDraft \/ CancelSpeech \/ LeaveConversation \/ EnterConversation
           \/ DrainStarts \/ DrainNext \/ DrainClip \/ DrainFails \/ RetractResumes
           \/ UNCHANGED vars \/ \E n \in Turn : WholeStarts(n) \/ WholeClip(n)
  BY <1>5 DEF TurnStarts, KeepDraft, CancelSpeech, LeaveConversation, EnterConversation,
       DrainStarts, DrainNext, DrainClip, DrainFails, RetractResumes, WholeStarts, WholeClip,
       vars, bufVars
<1> QED
  BY <1>1, <1>2, <1>3, <1>4, <1>5 DEF Next

LEMMA RenderedStands ==
  ASSUME SpeechInv, DraftInv, [Next]_vars, drain'.st = "render", cancelled' < drain'.u
  PROVE  /\ Draft(drain'.item) \notin withdrawn' \/ drain'.item \in spared'
         /\ turn'.live /\ Draft(drain'.item) = <<turn'.n, turn'.draft>> => open'
<1>a. /\ seq \in Nat /\ cancelled \in Nat /\ drain.u \in Nat /\ cancelled <= seq /\ drain.u <= seq
      /\ cancelled' \in Nat /\ drain'.u \in Nat /\ utter \in Nat
  BY TypeParts, SpeechInductive DEF SpeechInv, StreamTypes, TaskTypes, NumberInv, TypeOK
<1>b. cancelled' \in {cancelled, seq}
  BY StreamStep DEF SpeechInv
<1>1. CASE /\ UNCHANGED <<turn, utter, open, seq, cancelled, retracts, closed, withdrawn>>
           /\ cancelled < utter /\ drain'.u = utter /\ pending # <<>> /\ drain'.item = Head(pending)
  <2>1. Head(pending) \in Standing
    BY <1>1, SeqParts DEF DraftInv
  <2>2. open
    BY <1>1, <1>a DEF SpeechInv, NumberInv
  <2> QED
    BY <1>1, <2>1, <2>2 DEF Standing
<1>2. CASE UNCHANGED drain
  <2>1. cancelled < drain.u /\ cancelled' # seq /\ drain.st = "render"
    BY <1>2, <1>a, <1>b
  <2>2. /\ Draft(drain.item) \notin withdrawn \/ drain.item \in spared
        /\ turn.live /\ Draft(drain.item) = <<turn.n, turn.draft>> => open
        /\ drain.item \in Past
    BY <2>1 DEF DraftInv, Voiced
  <2>3. drain'.item = drain.item
    BY <1>2
  <2>4. Draft(drain.item) \notin withdrawn' \/ drain.item \in spared'
    <3>1. CASE UNCHANGED <<withdrawn, spared>>
      BY <2>2, <3>1
    <3>2. CASE Retracts
      <4>1. CASE ~speak
        BY <2>1, <3>2, <4>1 DEF Retracts, Rendering
      <4>2. CASE ~open
        BY <2>2, <3>2, <4>2 DEF Retracts
      <4> QED
        BY <2>1, <3>2, <4>1, <4>2 DEF Retracts
    <3>3. CASE Stops
      BY <2>1, <3>3 DEF Stops
    <3> QED
      BY <3>1, <3>2, <3>3, WithdrawStep DEF SpeechInv
  <2>5. turn'.live /\ Draft(drain.item) = <<turn'.n, turn'.draft>> => open'
    <3> SUFFICES ASSUME turn'.live, Draft(drain.item) = <<turn'.n, turn'.draft>>, ~open'
                 PROVE  FALSE
      OBVIOUS
    <3>1. turn.n \in Nat /\ turn.draft \in Nat
      BY TypeParts DEF TurnTypes, SpeechInv
    <3>2. /\ turn'.n = turn.n \/ turn'.n = turn.n + 1
          /\ turn'.n = turn.n => turn.live /\ turn'.draft \in {turn.draft, turn.draft + 1}
      BY TurnStep DEF SpeechInv
    <3>3. drain.item.turn = turn'.n /\ drain.item.draft = turn'.draft
      BY DEF Draft
    <3>4. drain.item.turn <= turn.n /\ (drain.item.turn = turn.n => drain.item.draft <= turn.draft)
      BY <2>2 DEF Past
    <3>5. turn'.n = turn.n /\ turn.live /\ turn'.draft = turn.draft
      BY <3>1, <3>2, <3>3, <3>4
    <3>6. open
      BY <2>2, <3>5
    <3> QED
      BY <2>1, <3>5, <3>6, OpenStep DEF SpeechInv
  <2> QED
    BY <2>3, <2>4, <2>5
<1> QED
  BY <1>1, <1>2, DrainStep DEF SpeechInv

\* A reply that goes on with its task: nothing of it changes, but a Stop or a
\* withdrawal may reach it.
LEMMA SameStands ==
  ASSUME SpeechInv, DraftInv, [Next]_vars, NEW n \in Turn, Same(n)
  PROVE  TaskDrafts(n)'
<1>a. /\ seq \in Nat /\ cancelled \in Nat /\ cancelled <= seq /\ turn.n \in Nat /\ n \in Nat
      /\ task[n].u \in Nat /\ task[n].u <= seq
  <2>1. seq \in Nat /\ cancelled \in Nat /\ turn.n \in Nat /\ n \in Nat
    BY TypeParts DEF SpeechInv, StreamTypes, TurnTypes, Turn
  <2>2. task[n].u \in Nat
    BY TypeParts DEF SpeechInv, TaskTypes, Tasks
  <2> QED
    BY <2>1, <2>2 DEF SpeechInv, NumberInv
<1>b. cancelled' \in {cancelled, seq}
  BY StreamStep DEF SpeechInv
<1>c. /\ task[n].st # "none" => n <= turn.n /\ (turn.live => n < turn.n)
      /\ task[n].st = "line" => <<n, task[n].draft>> \notin withdrawn
      /\ Own(n) /\ <<n, task[n].draft>> \in withdrawn => task[n].u <= cancelled
      /\ task[n].st = "render" /\ <<n, task[n].draft>> \in withdrawn => Head(task[n].todo) \in spared
      /\ Own(n) => \A i \in DOMAIN task[n].todo : Draft(task[n].todo[i]) = <<n, task[n].draft>>
  BY DEF DraftInv, TaskDrafts
<1>1. task'[n].st # "none" => n <= turn'.n /\ (turn'.live => n < turn'.n)
  BY <1>a, <1>c, TurnStep DEF Same, SpeechInv
<1>2. Own(n)' => \A i \in DOMAIN task'[n].todo : Draft(task'[n].todo[i]) = <<n, task'[n].draft>>
  BY <1>c DEF Same, Own
<1>3. CASE UNCHANGED <<withdrawn, spared>>
  <2>1. Own(n)' /\ <<n, task'[n].draft>> \in withdrawn' => task'[n].u <= cancelled'
    BY <1>3, <1>a, <1>b, <1>c DEF Same, Own
  <2> QED
    BY <1>1, <1>2, <1>3, <1>c, <2>1 DEF Same, TaskDrafts
<1>4. CASE Retracts /\ spared \subseteq spared'
  <2>1. task[n].st # "none" => (<<n, task[n].draft>> \in withdrawn' => <<n, task[n].draft>> \in withdrawn)
    BY <1>4, <1>a, <1>c DEF Retracts
  <2>2. Own(n)' /\ <<n, task'[n].draft>> \in withdrawn' => task'[n].u <= cancelled'
    BY <2>1, <1>a, <1>b, <1>c DEF Same, Own
  <2> QED
    BY <1>1, <1>2, <1>4, <1>c, <2>1, <2>2 DEF Same, TaskDrafts
<1>5. CASE Stops
  <2>1. Own(n)' => task'[n].u <= cancelled'
    BY <1>5, <1>a DEF Same, Stops
  <2>2. task'[n].st = "line" => <<n, task'[n].draft>> \notin withdrawn'
    BY <1>5, <1>c DEF Same, Stops
  <2>3. task'[n].st = "render" => Head(task'[n].todo) \in spared'
    <3>1. task[n].st = "render" => task[n].todo # <<>> /\ task[n].todo \in Seq(Sentences)
      BY TypeParts DEF SpeechInv, LineInv, TaskTypes, Tasks
    <3>2. task[n].st = "render" => task[n].todo[1] \in Rendering
      BY DEF Rendering
    <3>3. task[n].st = "render" => Head(task[n].todo) = task[n].todo[1]
      BY <3>1
    <3> QED
      BY <1>5, <3>2, <3>3 DEF Same, Stops
  <2> QED
    BY <1>1, <1>2, <2>1, <2>2, <2>3 DEF TaskDrafts
<1> QED
  BY <1>3, <1>4, <1>5, WithdrawStep DEF SpeechInv

\* A task that moves does not meet a withdrawal in the same step.
LEMMA MovedStands ==
  ASSUME SpeechInv, DraftInv, [Next]_vars, NEW n \in Turn,
         Ends(n) \/ Moves(n) \/ Begins(n) \/ Mutes(n) \/ Enters(n)
  PROVE  TaskDrafts(n)'
<1>a. /\ seq \in Nat /\ cancelled \in Nat /\ cancelled <= seq /\ turn.n \in Nat /\ n \in Nat
      /\ turn.draft \in Nat
      /\ task[n].u \in Nat /\ task[n].u <= seq /\ task[n].todo \in Seq(Sentences)
  <2>1. seq \in Nat /\ cancelled \in Nat /\ turn.n \in Nat /\ turn.draft \in Nat /\ n \in Nat
    BY TypeParts DEF SpeechInv, StreamTypes, TurnTypes, Turn
  <2>2. task[n].u \in Nat /\ task[n].todo \in Seq(Sentences)
    BY TypeParts DEF SpeechInv, TaskTypes, Tasks
  <2> QED
    BY <2>1, <2>2 DEF SpeechInv, NumberInv
<1>b. cancelled' \in {cancelled, seq}
  BY StreamStep DEF SpeechInv
<1>t. (turn'.n = turn.n \/ (turn'.n = turn.n + 1 /\ ~turn.live))
      /\ (turn'.live /\ turn'.n = turn.n => turn.live)
  BY TurnStep DEF SpeechInv
<1>c. /\ task[n].st # "none" => n <= turn.n /\ (turn.live => n < turn.n)
      /\ task[n].st = "line" => <<n, task[n].draft>> \notin withdrawn
      /\ Own(n) /\ <<n, task[n].draft>> \in withdrawn => task[n].u <= cancelled
      /\ Own(n) => \A i \in DOMAIN task[n].todo : Draft(task[n].todo[i]) = <<n, task[n].draft>>
  BY DEF DraftInv, TaskDrafts
<1>d. Ends(n) \/ Moves(n) \/ Enters(n) =>
        (task'[n].st # "none" => n <= turn'.n /\ (turn'.live => n < turn'.n))
  BY <1>a, <1>c, <1>t DEF Ends, Moves, Enters
<1>1. CASE Ends(n)
  BY <1>1, <1>d DEF Ends, TaskDrafts, Own
<1>2. CASE Moves(n)
  <2>1. UNCHANGED withdrawn
    BY <1>2, WithdrawStep DEF Moves, SpeechInv
  <2>2. CASE task'[n].st = "woken"
    BY <1>2, <1>d, <2>2 DEF TaskDrafts, Own
  <2>3. CASE task[n].st = "whole" /\ task'[n].st = "render"
    <3>1. cancelled < task[n].u /\ Own(n)
      BY <1>2, <2>3 DEF Moves, Own
    <3>2. <<n, task[n].draft>> \notin withdrawn
      BY <3>1, <1>a, <1>c
    <3> QED
      BY <1>2, <1>c, <1>d, <2>1, <2>3, <3>1, <3>2 DEF Moves, TaskDrafts, Own
  <2>4. CASE task[n].st = "render" /\ task'[n].st = "whole"
    <3>1. task'[n].todo = Tail(task[n].todo) /\ task[n].todo # <<>> /\ Own(n)
      BY <1>2, <2>4 DEF Moves, Own, SpeechInv, LineInv
    <3>2. \A i \in DOMAIN task'[n].todo : i + 1 \in DOMAIN task[n].todo
                                          /\ task'[n].todo[i] = task[n].todo[i + 1]
      BY <3>1, <1>a
    <3>3. \A i \in DOMAIN task'[n].todo : Draft(task'[n].todo[i]) = <<n, task[n].draft>>
      BY <3>1, <3>2, <1>c
    <3>4. <<n, task[n].draft>> \in withdrawn => task[n].u <= cancelled'
      BY <3>1, <1>a, <1>b, <1>c
    <3> QED
      BY <1>2, <1>d, <2>1, <2>4, <3>3, <3>4 DEF Moves, TaskDrafts, Own
  <2> QED
    BY <1>2, <2>2, <2>3, <2>4 DEF Moves
<1>3. CASE Begins(n)
  <2>1. <<turn.n, turn.draft>> \notin withdrawn
    BY <1>3, <1>a DEF Begins, DraftInv
  <2> QED
    BY <1>3, <1>a, <1>t, <2>1 DEF Begins, TaskDrafts, Own
<1>4. CASE Enters(n)
  BY <1>4, <1>c, <1>d DEF Enters, TaskDrafts, Own
<1>5. CASE Mutes(n)
  BY <1>5, <1>a, <1>t DEF Mutes, TaskDrafts, Own
<1> QED
  BY <1>1, <1>2, <1>3, <1>4, <1>5

LEMMA DraftsKept == SpeechInv /\ DraftInv /\ [Next]_vars => DraftInv'
<1> SUFFICES ASSUME SpeechInv, DraftInv, [Next]_vars PROVE DraftInv'
  OBVIOUS
<1>1. WithdrawnPast' /\ raw' \in Seq(Standing') /\ pending' \in Seq(Standing')
  BY WithdrawnPastKept, BufferStands DEF SpeechInv
<1>2. drain'.st = "render" /\ cancelled' < drain'.u =>
        /\ Draft(drain'.item) \notin withdrawn' \/ drain'.item \in spared'
        /\ turn'.live /\ Draft(drain'.item) = <<turn'.n, turn'.draft>> => open'
  BY RenderedStands
<1>5. /\ raw' \in Seq(Past') /\ pending' \in Seq(Past')
      /\ drain'.st = "render" => drain'.item \in Past'
  BY BufferPast DEF SpeechInv
<1>3. \A n \in Turn : TaskDrafts(n)'
  <2>1. \A n \in Turn : Same(n) \/ Ends(n) \/ Moves(n) \/ Begins(n) \/ Mutes(n) \/ Enters(n)
    BY TaskStep DEF SpeechInv
  <2> QED
    BY <2>1, SameStands, MovedStands
<1>4. (Draft(drain.item))' = Draft(drain'.item)
  BY DEF Draft
<1> QED
  BY <1>1, <1>2, <1>3, <1>4, <1>5 DEF DraftInv, WithdrawnPast, Voiced

\* What a retract, the start of a tool, an error or a Stop took back stays
\* unsaid, but for the sentence on_speak was rendering at that moment, or the
\* drain while the window was leaving the conversation.
THEOREM TakenBackStaysUnsaid == Spec => WithdrawnStaysSilent
<1>1. SpeechInv /\ DraftInv /\ [Next]_vars =>
        [\A n \in Turn : NewClip(n) =>
           LET c == Last(said'[n])
           IN  Draft(c) \notin withdrawn \/ \E x \in spared : Draft(x) = Draft(c) /\ x.pos = c.pos]_vars
  <2> SUFFICES ASSUME SpeechInv, DraftInv, [Next]_vars, NEW n \in Turn, NewClip(n),
                      Draft(Last(said'[n])) \in withdrawn
               PROVE  \E x \in spared : Draft(x) = Draft(Last(said'[n]))
                                      /\ x.pos = Last(said'[n]).pos
    OBVIOUS
  <2>1. CASE /\ task[n].st = "render" /\ task[n].todo \in Seq(Sentences) /\ task[n].todo # <<>>
             /\ Last(said'[n]) = Clip(Head(task[n].todo), task[n].u)
    <3> DEFINE x == Head(task[n].todo)
    <3>1. x = task[n].todo[1] /\ 1 \in DOMAIN task[n].todo
      BY <2>1
    <3>2. Last(said'[n]) = Clip(x, task[n].u)
      BY <2>1
    <3> HIDE DEF x
    <3>3. Draft(Last(said'[n])) = Draft(x) /\ Last(said'[n]).pos = x.pos
      BY <3>2 DEF Clip, Draft
    <3>4. Draft(x) = <<n, task[n].draft>>
      BY <2>1, <3>1 DEF DraftInv, TaskDrafts, Own
    <3>5. x \in spared
      BY <2>1, <3>3, <3>4 DEF x, DraftInv, TaskDrafts
    <3> QED
      BY <3>3, <3>5
  <2>2. CASE drain.st = "render" /\ cancelled < drain.u /\ Last(said'[n]) = Clip(drain.item, drain.u)
    <3>1. Draft(Last(said'[n])) = Draft(drain.item)
      BY <2>2 DEF Clip, Draft
    <3>2. Last(said'[n]).pos = drain.item.pos
      BY <2>2 DEF Clip
    <3>3. drain.item \in spared
      BY <2>2, <3>1 DEF DraftInv, Voiced
    <3> QED
      BY <3>1, <3>2, <3>3
  <2> QED
    BY <2>1, <2>2, ClipStep
<1>2. Init => SpeechInv /\ DraftInv
  BY InitSpeech, InitDrafts
<1>3. SpeechInv /\ DraftInv /\ [Next]_vars => (SpeechInv /\ DraftInv)'
  BY SpeechInductive, DraftsKept
<1> QED
  BY <1>1, <1>2, <1>3, PTL DEF Spec, WithdrawnStaysSilent

-----------------------------------------------------------------------------
\* Nothing is stuck.  In line for _speak_lock are exactly the drain and the replies
\* that are past its door, each once, so the first of them can go on; whoever waits
\* for a drain has one that is not over.

Members ==
  {x \in {0} \cup Turn : IF x = 0 THEN drain.st \in {"line", "render"}
                                  ELSE task[x].st \in {"line", "whole", "render"}}

\* The line s holds the members of P, each once.
ListOf(s, P) ==
  /\ \A k \in 1 .. Len(s) : s[k] \in P
  /\ \A k, l \in 1 .. Len(s) : s[k] = s[l] => k = l
  /\ \A x \in P : \E k \in 1 .. Len(s) : s[k] = x

WaitInv ==
  /\ ListOf(line, Members)
  /\ drain.st = "idle" =>
       /\ pending = <<>>
       /\ \A n \in Turn : task[n].st # "await"
       /\ \A w \in retracts : w.woken

LEMMA ListAppend ==
  ASSUME NEW P \in SUBSET Nat, NEW s \in Seq(Nat), ListOf(s, P), NEW x \in Nat, x \notin P
  PROVE  ListOf(Append(s, x), P \cup {x})
<1> DEFINE a == Append(s, x)
<1>1. /\ Len(a) = Len(s) + 1 /\ Len(s) \in Nat
      /\ a[Len(s) + 1] = x /\ \A k \in 1 .. Len(s) : a[k] = s[k]
  OBVIOUS
<1> HIDE DEF a
<1>2. \A k \in 1 .. Len(a) : k \in 1 .. Len(s) \/ k = Len(s) + 1
  BY <1>1
<1>3. \A k \in 1 .. Len(a) : a[k] \in P \cup {x}
  BY <1>1, <1>2 DEF ListOf
<1>4. \A k, l \in 1 .. Len(a) : a[k] = a[l] => k = l
  BY <1>1, <1>2 DEF ListOf
<1>5. \A y \in P \cup {x} : \E k \in 1 .. Len(a) : a[k] = y
  <2>1. Len(s) + 1 \in 1 .. Len(a) /\ 1 .. Len(s) \subseteq 1 .. Len(a)
    BY <1>1
  <2> QED
    BY <1>1, <2>1 DEF ListOf
<1> QED
  BY <1>3, <1>4, <1>5 DEF ListOf, a

LEMMA ListTail ==
  ASSUME NEW P \in SUBSET Nat, NEW s \in Seq(Nat), ListOf(s, P), s # <<>>
  PROVE  Head(s) \in P /\ ListOf(Tail(s), P \ {Head(s)})
<1> DEFINE t == Tail(s)
<1>1. /\ Len(t) = Len(s) - 1 /\ Len(s) \in Nat /\ Len(s) >= 1
      /\ Head(s) = s[1] /\ \A k \in 1 .. Len(t) : t[k] = s[k + 1]
  OBVIOUS
<1> HIDE DEF t
<1>2. \A k \in 1 .. Len(t) : k + 1 \in 1 .. Len(s) /\ k + 1 # 1
  BY <1>1
<1>3. 1 \in 1 .. Len(s)
  BY <1>1
<1>4. Head(s) \in P
  BY <1>1, <1>3 DEF ListOf
<1>5. \A k \in 1 .. Len(t) : t[k] \in P \ {Head(s)}
  BY <1>1, <1>2, <1>3 DEF ListOf
<1>6. \A k, l \in 1 .. Len(t) : t[k] = t[l] => k = l
  <2> TAKE k, l \in 1 .. Len(t)
  <2> HAVE t[k] = t[l]
  <2>1. s[k + 1] = s[l + 1] /\ k + 1 \in 1 .. Len(s) /\ l + 1 \in 1 .. Len(s)
    BY <1>1, <1>2
  <2>2. k + 1 = l + 1
    BY <2>1 DEF ListOf
  <2> QED
    BY <2>2
<1>7. \A y \in P \ {Head(s)} : \E k \in 1 .. Len(t) : t[k] = y
  <2> TAKE y \in P \ {Head(s)}
  <2>1. PICK k \in 1 .. Len(s) : s[k] = y
    BY DEF ListOf
  <2>2. k # 1
    BY <1>1, <2>1
  <2>3. k - 1 \in 1 .. Len(t) /\ (k - 1) + 1 = k
    BY <1>1, <2>1, <2>2
  <2> QED
    BY <1>1, <2>1, <2>3
<1> QED
  BY <1>4, <1>5, <1>6, <1>7 DEF ListOf, t

\* Who is in line depends on the states alone.
LEMMA SameMembers ==
  ASSUME drain'.st \in {"line", "render"} <=> drain.st \in {"line", "render"},
         \A m \in Turn : task'[m].st \in {"line", "whole", "render"}
                           <=> task[m].st \in {"line", "whole", "render"}
  PROVE  Members' = Members
<1>1. \A m \in Turn : m # 0
  BY DEF Turn
<1> QED
  BY <1>1 DEF Members

LEMMA MembersType == Members \in SUBSET Nat
BY DEF Members, Turn

\* The turn's handlers: they fill the buffer, empty it, or hand a reply over.
LEMMA WaitTurnKept ==
  ASSUME TypeOK, DraftInv, WaitInv,
         \/ TurnStarts \/ OnDelta \/ KeepDraft \/ OnRetract \/ OnTurnError \/ OnTurnCancel
         \/ CancelSpeech \/ LeaveConversation \/ EnterConversation \/ RetractResumes \/ UNCHANGED vars
  PROVE  WaitInv'
<1>a. TurnTypes /\ StreamTypes /\ TaskTypes
  BY TypeParts
<1>1. CASE OnDelta
  <2>1. UNCHANGED <<line, task, retracts>>
    BY <1>1 DEF OnDelta
  <2>2. CASE speak
    <3>1. drain'.st # "idle" /\ (drain'.st \in {"line", "render"} <=> drain.st \in {"line", "render"})
      BY <1>1, <1>a, <2>2 DEF OnDelta, EnsureDrain, TaskTypes
    <3> QED
      BY <2>1, <3>1, SameMembers DEF WaitInv
  <2>3. CASE ~speak
    <3>1. UNCHANGED <<drain, pending>>
      BY <1>1, <2>3 DEF OnDelta
    <3> QED
      BY <2>1, <3>1, SameMembers DEF WaitInv
  <2> QED
    BY <2>2, <2>3
<1>2. CASE ~OnDelta
  <2>1. UNCHANGED <<drain, line, task>>
    BY <1>2 DEF TurnStarts, KeepDraft, OnRetract, OnTurnError, OnTurnCancel, CancelSpeech, LeaveConversation,
       EnterConversation, RetractResumes, vars, taskVars
  <2>2. pending' = pending \/ pending' = <<>>
    BY <1>2 DEF TurnStarts, KeepDraft, OnRetract, OnTurnError, OnTurnCancel, CancelSpeech, LeaveConversation,
       EnterConversation, RetractResumes, vars, queueVars, Withdraw, Reset, Drop
  <2>3. drain.st = "idle" => retracts' \subseteq retracts
    <3>1. Withdraw /\ drain.st = "idle" => retracts' = retracts
      BY DEF Withdraw
    <3> QED
      BY <1>2, <3>1 DEF TurnStarts, KeepDraft, OnRetract, OnTurnError, OnTurnCancel, CancelSpeech,
         LeaveConversation, EnterConversation, RetractResumes, vars, taskVars
  <2> QED
    BY <2>1, <2>2, <2>3, SameMembers DEF WaitInv
<1> QED
  BY <1>1, <1>2

LEMMA WaitSpeakKept ==
  ASSUME TypeOK, DraftInv, WaitInv, OnSpeak \/ SpeakNothing
  PROVE  WaitInv'
<1>a. TurnTypes /\ StreamTypes /\ TaskTypes
  BY TypeParts
<1>b. \A m \in Turn : m \in Nat /\ m # 0
  BY DEF Turn
<1>1. PICK n \in Turn : n = turn.n
  BY <1>a DEF OnSpeak, SpeakNothing, TurnTypes
<1>2. task[n].st = "none" /\ UNCHANGED retracts
  <2>1. turn.live /\ UNCHANGED retracts
    BY DEF OnSpeak, SpeakNothing
  <2>2. task[n].st # "none" => n < turn.n
    BY <2>1 DEF DraftInv, TaskDrafts
  <2>3. ~(n < turn.n)
    BY <1>1 DEF Turn
  <2> QED
    BY <2>1, <2>2, <2>3
<1>3. CASE OnSpeak /\ ~speak
  <2>1. UNCHANGED <<pending, drain, line, task>>
    BY <1>3 DEF OnSpeak
  <2> QED
    BY <1>2, <2>1, SameMembers DEF WaitInv
<1>4. CASE OnSpeak /\ speak /\ open
  <2>1. EnsureDrain /\ UNCHANGED line /\ task' = [task EXCEPT ![n] = Job("await", utter')]
    BY <1>1, <1>4 DEF OnSpeak
  <2>2. drain'.st # "idle" /\ (drain'.st \in {"line", "render"} <=> drain.st \in {"line", "render"})
    BY <1>a, <2>1 DEF EnsureDrain, TaskTypes
  <2>3. Job("await", utter').st = "await"
    BY DEF Job
  <2>4. task'[n].st = "await" /\ \A m \in Turn : m # n => task'[m] = task[m]
    BY <1>a, <2>1, <2>3 DEF TaskTypes
  <2>5. Members' = Members
    BY <1>2, <2>2, <2>4, SameMembers
  <2> QED
    BY <1>2, <2>1, <2>2, <2>5 DEF WaitInv
<1>5. CASE OnSpeak /\ speak /\ ~open
  <2>1. UNCHANGED <<pending, drain>> /\ line' = Append(line, n) /\ task' = [task EXCEPT ![n] = Job("line", 0)]
    BY <1>1, <1>5 DEF OnSpeak
  <2>2. Job("line", 0).st = "line"
    BY DEF Job
  <2>3. task'[n].st = "line" /\ \A m \in Turn : m # n => task'[m] = task[m]
    BY <1>a, <2>1, <2>2 DEF TaskTypes
  <2>4. Members' = Members \cup {n} /\ n \notin Members
    BY <1>2, <1>b, <2>1, <2>3 DEF Members
  <2>5. ListOf(line', Members')
    BY <1>a, <1>b, <2>1, <2>4, ListAppend, MembersType DEF WaitInv, TaskTypes
  <2>6. \A m \in Turn : task'[m].st = "await" => task[m].st = "await"
    BY <2>3
  <2> QED
    BY <1>2, <2>1, <2>5, <2>6 DEF WaitInv
<1>6. CASE SpeakNothing
  <2>1. /\ UNCHANGED <<drain, line>> /\ pending' = <<>>
        /\ task' = [task EXCEPT ![n] = Job("done", 0)]
    BY <1>1, <1>6 DEF SpeakNothing, Reset
  <2>2. Job("done", 0).st = "done"
    BY DEF Job
  <2>3. task'[n].st = "done" /\ \A m \in Turn : m # n => task'[m] = task[m]
    BY <1>a, <2>1, <2>2 DEF TaskTypes
  <2>4. Members' = Members
    BY <1>2, <2>1, <2>3, SameMembers
  <2> QED
    BY <1>2, <2>1, <2>3, <2>4 DEF WaitInv
<1> QED
  BY <1>3, <1>4, <1>5, <1>6

\* A reply in the hands of on_speak: it keeps its place until it is done.
LEMMA WaitReplyKept ==
  ASSUME TypeOK, LineInv, WaitInv, NEW n \in Turn,
         SpeakResumes(n) \/ WholeStarts(n) \/ WholeNext(n) \/ WholeClip(n) \/ WholeFails(n)
  PROVE  WaitInv'
<1>a. TaskTypes
  BY TypeParts
<1>b. \A m \in Turn : m \in Nat /\ m # 0
  BY DEF Turn
<1>1. /\ UNCHANGED <<drain, retracts>> /\ (pending' = pending \/ pending' = <<>>)
      /\ \A m \in Turn : m # n => task'[m] = task[m]
  BY <1>a DEF SpeakResumes, WholeStarts, WholeNext, WholeClip, WholeFails, Finish, Reset, queueVars, TaskTypes
<1>2. task'[n].st # "await"
  BY <1>a DEF SpeakResumes, WholeStarts, WholeNext, WholeClip, WholeFails, Finish, TaskTypes, Tasks
<1>3. drain'.st = "idle" => /\ pending' = <<>> /\ \A m \in Turn : task'[m].st # "await"
                            /\ \A w \in retracts' : w.woken
  BY <1>1, <1>2 DEF WaitInv
<1>4. CASE SpeakResumes(n) \/ WholeStarts(n) \/ WholeClip(n) \/ (WholeNext(n) /\ task'[n].st # "done")
  <2>1. UNCHANGED line /\ (task'[n].st \in {"line", "whole", "render"} <=> task[n].st \in {"line", "whole", "render"})
    BY <1>4, <1>a DEF SpeakResumes, WholeStarts, WholeNext, WholeClip, Finish, TaskTypes, Tasks
  <2>2. Members' = Members
    BY <1>1, <2>1, SameMembers
  <2> QED
    BY <1>3, <2>1, <2>2 DEF WaitInv
<1>5. CASE WholeFails(n) \/ (WholeNext(n) /\ task'[n].st = "done")
  <2>1. task[n].st \in {"whole", "render"} /\ task'[n].st = "done" /\ line' = Tail(line)
    BY <1>5, <1>a DEF WholeFails, WholeNext, Finish, TaskTypes, Tasks
  <2>2. line # <<>> /\ Head(line) = n
    BY <2>1 DEF LineInv, Holds
  <2>3. Members' = Members \ {n}
    BY <1>1, <1>b, <2>1 DEF Members
  <2>4. ListOf(line', Members')
    BY <1>a, <2>1, <2>2, <2>3, ListTail, MembersType DEF WaitInv, TaskTypes
  <2> QED
    BY <1>3, <2>4 DEF WaitInv
<1> QED
  BY <1>4, <1>5

LEMMA WaitDrainKept ==
  ASSUME TypeOK, LineInv, WaitInv, DrainStarts \/ DrainNext \/ DrainClip \/ DrainFails
  PROVE  WaitInv'
<1>a. TaskTypes
  BY TypeParts
<1>b. \A m \in Turn : m \in Nat /\ m # 0
  BY DEF Turn
<1>1. CASE DrainStarts
  <2>1. drain.st = "new" /\ drain'.st = "line" /\ line' = Append(line, 0) /\ UNCHANGED task
    BY <1>1, <1>a DEF DrainStarts, TaskTypes
  <2>2. Members' = Members \cup {0} /\ 0 \notin Members
    BY <1>b, <2>1 DEF Members
  <2>3. ListOf(line', Members')
    BY <1>a, <2>1, <2>2, ListAppend, MembersType DEF WaitInv, TaskTypes
  <2> QED
    BY <2>1, <2>3 DEF WaitInv
<1>2. CASE (DrainNext \/ DrainFails) /\ DrainEnds
  <2>1. drain.st \in {"line", "render"} /\ Holds(0) /\ pending' = <<>>
    BY <1>2 DEF DrainNext, DrainFails, LineInv, DrainEnds, NoDrain
  <2>2. drain'.st = "idle" /\ line' = Tail(line) /\ \A w \in retracts' : w.woken
    BY <1>2, <1>a DEF DrainEnds, NoDrain, TaskTypes
  <2>3. \A m \in Turn : task'[m].st = IF task[m].st = "await" THEN "woken" ELSE task[m].st
    BY <1>2, <1>a DEF DrainEnds, TaskTypes, Tasks
  <2>4. Members' = Members \ {0}
    BY <1>b, <2>2, <2>3 DEF Members
  <2>5. ListOf(line', Members')
    BY <1>a, <2>1, <2>2, <2>4, ListTail, MembersType DEF WaitInv, TaskTypes, Holds
  <2> QED
    BY <2>1, <2>2, <2>3, <2>5 DEF WaitInv
<1>3. CASE DrainClip \/ (DrainNext /\ ~DrainEnds)
  <2>1. /\ UNCHANGED <<line, task>> /\ drain'.st \in {"line", "render"} /\ drain.st \in {"line", "render"}
    BY <1>3, <1>a DEF DrainClip, DrainNext, NoDrain, TaskTypes
  <2>2. Members' = Members
    BY <2>1, SameMembers
  <2> QED
    BY <2>1, <2>2 DEF WaitInv
<1> QED
  BY <1>1, <1>2, <1>3 DEF DrainFails

LEMMA WaitKept == SpeechInv /\ DraftInv /\ WaitInv /\ [Next]_vars => WaitInv'
<1> SUFFICES ASSUME SpeechInv, DraftInv, WaitInv, [Next]_vars PROVE WaitInv'
  OBVIOUS
<1>1. TypeOK /\ LineInv
  BY DEF SpeechInv
<1> QED
  BY <1>1, WaitTurnKept, WaitSpeakKept, WaitReplyKept, WaitDrainKept DEF Next

LEMMA InitWait == Init => WaitInv
<1> SUFFICES ASSUME Init PROVE WaitInv
  OBVIOUS
<1>1. Members = {}
  BY DEF Init, Members, NoDrain, NoTask, Turn
<1>2. \A k \in 1 .. Len(<<>>) : FALSE
  OBVIOUS
<1> QED
  BY <1>1, <1>2 DEF Init, WaitInv, ListOf, NoTask

LEMMA SomebodyIsDue ==
  ASSUME TypeOK, WaitInv, drain.st # "idle" \/ retracts # {} \/ \E n \in Turn : Speaking(n),
         \A w \in retracts : ~w.woken, \A n \in Turn : task[n].st # "woken"
  PROVE  DrainDue \/ \E n \in Turn : SpeakDue(n)
<1>a. TaskTypes
  BY TypeParts
<1>1. CASE line # <<>>
  <2>1. Head(line) = line[1] /\ 1 \in 1 .. Len(line)
    BY <1>1, <1>a DEF TaskTypes
  <2>2. Head(line) \in Members
    BY <2>1 DEF WaitInv, ListOf
  <2>3. Holds(Head(line))
    BY <1>1 DEF Holds
  <2> QED
    BY <2>2, <2>3 DEF Members, DrainDue, SpeakDue, Turn
<1>2. CASE line = <<>>
  <2>1. \A x \in Members : FALSE
    <3>1. \A k \in 1 .. Len(line) : FALSE
      BY <1>2
    <3> QED
      BY <3>1 DEF WaitInv, ListOf
  <2>2. drain.st \notin {"line", "render"} /\ \A n \in Turn : task[n].st \notin {"line", "whole", "render"}
    BY <2>1 DEF Members, Turn
  <2>3. drain.st \in {"idle", "new"}
    BY <1>a, <2>2 DEF TaskTypes
  <2>4. drain.st # "idle"
    <3>1. \A n \in Turn : task[n].st \in {"none", "await", "done"}
      BY <1>a, <2>2 DEF TaskTypes, Tasks
    <3> QED
      BY <3>1 DEF WaitInv, Speaking
  <2> QED
    BY <2>3, <2>4 DEF DrainDue
<1> QED
  BY <1>1, <1>2

\* The drain, _speak_lock and those who wait for the drain's end never wait for
\* each other, and no sentence waits without a drain, whatever is withdrawn,
\* stopped, interrupted or fails.
THEOREM WaitersAreServed == Spec => []NothingIsStuck
<1>1. Init => SpeechInv /\ DraftInv /\ WaitInv
  BY InitSpeech, InitDrafts, InitWait
<1>2. SpeechInv /\ DraftInv /\ WaitInv /\ [Next]_vars => (SpeechInv /\ DraftInv /\ WaitInv)'
  BY SpeechInductive, DraftsKept, WaitKept
<1>3. SpeechInv /\ WaitInv => NothingIsStuck
  <2> SUFFICES ASSUME SpeechInv, WaitInv PROVE NothingIsStuck
    OBVIOUS
  <2>1. TypeOK
    BY DEF SpeechInv
  <2>2. pending # <<>> => drain.st # "idle"
    BY DEF WaitInv
  <2>3. CASE (\E w \in retracts : w.woken) \/ \E n \in Turn : task[n].st = "woken"
    <3>1. (\E n \in Turn : task[n].st = "woken") => \E n \in Turn : SpeakDue(n)
      BY DEF SpeakDue
    <3> QED
      BY <2>2, <2>3, <3>1 DEF NothingIsStuck
  <2>4. CASE (\A w \in retracts : ~w.woken) /\ \A n \in Turn : task[n].st # "woken"
    BY <2>1, <2>2, <2>4, SomebodyIsDue DEF NothingIsStuck
  <2> QED
    BY <2>3, <2>4
<1> QED
  BY <1>1, <1>2, <1>3, PTL DEF Spec
=============================================================================
