------------------------------- MODULE Speech -------------------------------
(* The spoken half of a conversation: VoiceService (voice/__init__.py).       *)
(*                                                                            *)
(* An answer streams in as sentences (on_delta), may be withdrawn and begun   *)
(* anew (on_retract), and is handed over with its final text (on_speak).      *)
(* Sentences go to one drain task, which renders them one at a time under     *)
(* _speak_lock; a reply that did not stream is rendered by on_speak itself    *)
(* under the same lock.  Each reply gets a number, its utterance; a Stop      *)
(* marks the last number given as cancelled.  Handlers are tasks of one event *)
(* loop: what lies between two awaits is one step here, and _stream_lock,     *)
(* never held across an await, needs no variable.                             *)
(*                                                                            *)
(* The final text is not always what streamed: a draft whose native tool call *)
(* is declined stays up, the next round's words follow it in the buffer, and  *)
(* on_speak is given the last round alone.                                    *)
EXTENDS Naturals, FiniteSets, Sequences, SequencesExt

CONSTANTS
  Texts,      \* for each reply the texts it may have, sequences of sentences; an
              \* empty one has nothing to be spoken (a table, a block of code)
  MaxTurns,   \* bound: replies
  MaxUpsets   \* bound: drafts withdrawn or kept, Stops, interruptions, failures,
              \* and times the conversation is left

ASSUME SpeechAssumption ==
  /\ \A n \in 1 .. MaxTurns : Texts[n] \subseteq Seq(STRING)
  /\ MaxTurns \in Nat /\ MaxUpsets \in Nat

Turn == 1 .. MaxTurns

VARIABLES
  speak,      \* speak_enabled: the window is in conversation mode
  leaving,    \* on_voice_mode cleared speak_enabled and has yet to stop the speech
  turn,       \* the running turn: its number, draft, the text of the draft, how much
              \* of it are words of rounds before the last, deltas sent
  raw,        \* _stream_raw, as sentences
  spoken,     \* _spoken_count
  utter,      \* _stream_utterance
  open,       \* _stream_open
  heard,      \* _heard_sentences
  pending,    \* _pending
  seq,        \* _speak_seq
  cancelled,  \* _speak_cancelled
  drain,      \* _drain_task: its number, its state, the sentence it renders
  line,       \* who holds _speak_lock and who waits: 0 for the drain
  task,       \* the on_speak of each reply
  retracts,   \* on_retracts that wait for a drain
  said,       \* history: the clips published, reply by reply
  closed,     \* history: utterances that had a VOICE_SPEECH_DONE
  withdrawn,  \* history: drafts taken back
  spared,     \* history: sentences whose rendering no mark reached when they were
              \* taken back
  excused,    \* history: replies that were stopped, failed or ran into another
  upsets

bufVars == <<raw, spoken, utter, open, heard>>
queueVars == <<pending, seq, cancelled>>
taskVars == <<drain, line, task, retracts>>
pastVars == <<said, closed, withdrawn, spared, excused>>
vars == <<speak, leaving, turn, bufVars, queueVars, taskVars, pastVars, upsets>>

Sentence(n, d, i, s) == [turn |-> n, draft |-> d, pos |-> i, text |-> s]
Draft(x) == <<x.turn, x.draft>>
AsSentences(n, d, t) == [i \in DOMAIN t |-> Sentence(n, d, i, t[i])]

\* The text on_speak is given: what the draft says after the rounds it kept.
Answer(n, d, t, kept) == SubSeq(AsSentences(n, d, t), kept + 1, Len(t))

\* Who is inside _speak_lock: the drain is 0.
Holds(x) == line # <<>> /\ Head(line) = x

Upset == upsets < MaxUpsets /\ upsets' = upsets + 1

Over == [turn EXCEPT !.live = FALSE, !.text = <<>>, !.kept = 0, !.at = 0]

Nothing == Sentence(0, 0, 0, "")
NoDrain == [st |-> "idle", item |-> Nothing, u |-> 0]
NoTask == [st |-> "none", u |-> 0, todo |-> <<>>, draft |-> 0, text |-> <<>>, kept |-> 0]

\* The replies being written or spoken.
Live(n) == turn.live /\ turn.n = n
Speaking(n) == task[n].st \notin {"none", "done"}
Active == {n \in Turn : Live(n) \/ Speaking(n)}

Sentences == [turn : Turn, draft : Nat, pos : Nat, text : STRING]
Clips == [turn : Turn, draft : Nat, pos : Nat, text : STRING, u : Nat]
Tasks == [st : {"none", "await", "woken", "line", "whole", "render", "done"},
          u : Nat, todo : Seq(Sentences), draft : Nat, text : Seq(STRING), kept : Nat]

TypeOK ==
  /\ speak \in BOOLEAN /\ leaving \in BOOLEAN /\ open \in BOOLEAN
  /\ turn \in [n : 0 .. MaxTurns, draft : Nat, text : Seq(STRING), kept : Nat, at : Nat,
               live : BOOLEAN]
  /\ turn.live => turn.n \in Turn
  /\ raw \in Seq(Sentences) /\ heard \in Seq(Sentences) /\ pending \in Seq(Sentences)
  /\ spoken \in Nat /\ utter \in Nat /\ seq \in Nat /\ cancelled \in Nat
  /\ drain \in [st : {"idle", "new", "line", "render"}, item : Sentences \cup {Nothing}, u : Nat]
  /\ drain.st = "render" => drain.item \in Sentences
  /\ line \in Seq(Nat) /\ task \in [Turn -> Tasks]
  /\ retracts \subseteq [u : Nat, woken : BOOLEAN]
  /\ said \in [Turn -> Seq(Clips)] /\ closed \subseteq Nat
  /\ withdrawn \subseteq Nat \X Nat /\ spared \subseteq Sentences
  /\ excused \subseteq Turn
  /\ upsets \in 0 .. MaxUpsets

Init ==
  /\ speak = TRUE /\ leaving = FALSE
  /\ turn = [n |-> 0, draft |-> 0, text |-> <<>>, kept |-> 0, at |-> 0, live |-> FALSE]
  /\ raw = <<>> /\ spoken = 0 /\ utter = 0 /\ open = FALSE /\ heard = <<>>
  /\ pending = <<>> /\ seq = 0 /\ cancelled = 0
  /\ drain = NoDrain
  /\ line = <<>> /\ task = [n \in Turn |-> NoTask] /\ retracts = {}
  /\ said = [n \in Turn |-> <<>>] /\ closed = {} /\ withdrawn = {} /\ spared = {}
  /\ excused = {}
  /\ upsets = 0

-----------------------------------------------------------------------------
(* The buffer and the queue.                                                  *)

\* Mutant: what was heard before is said again.
HeardNothing(r) == 0

\* heard_sentence_count: how many leading sentences of r were already spoken.
HeardCount(r) ==
  Cardinality({k \in DOMAIN r \cap DOMAIN heard : \A i \in 1 .. k : r[i].text = heard[i].text})

Larger(a, b) == IF a < b THEN b ELSE a

\* _queue_from_buffer: what the drain does not have yet, up to sentence k.  While
\* the reply grows its last sentence may lack its end, and a short one before it
\* waits for a neighbour.
Queue(r, final) ==
  LET already == Larger(spoken, HeardCount(r))
  IN  \E k \in already .. Larger(already, Len(r)) :
        /\ IF final THEN k >= Len(r) ELSE k + 2 >= Len(r) /\ (Len(r) > 1 => k >= 1)
        /\ raw' = r
        /\ spoken' = k
        /\ pending' = pending \o SubSeq(r, already + 1, k)
        /\ IF k > already /\ ~open
           THEN open' = TRUE /\ seq' = seq + 1 /\ utter' = seq + 1
           ELSE UNCHANGED <<open, seq, utter>>

EnsureDrain ==
  drain' = IF drain.st = "idle" THEN [drain EXCEPT !.st = "new"] ELSE drain

\* _reset_stream
Reset ==
  /\ raw' = <<>> /\ spoken' = 0 /\ utter' = 0 /\ open' = FALSE /\ heard' = <<>>
  /\ pending' = <<>>

\* Mutant: the sentence that is being rendered is not marked.
DropKeepsNumber ==
  /\ raw' = <<>> /\ spoken' = 0 /\ utter' = 0 /\ open' = FALSE
  /\ pending' = <<>> /\ UNCHANGED cancelled

\* _drop_withdrawn_speech: as a reset, but what was heard stays known.
Drop ==
  /\ raw' = <<>> /\ spoken' = 0 /\ utter' = 0 /\ open' = FALSE
  /\ pending' = <<>> /\ cancelled' = seq

\* What is rendered and a withdrawal does not mark: the sentence of an on_speak of
\* its own, and the drain's if the window has just left the conversation.
Rendering ==
  {task[n].todo[1] : n \in {m \in Turn : task[m].st = "render"}}
  \cup (IF ~speak /\ drain.st = "render" THEN {drain.item} ELSE {})

\* A sentence that was taken back while it was rendered is dropped.
DrainSpeaks == cancelled < drain.u

\* A reply that meets another one at the synthesizer, or its words in the buffer
\* or in the drain.
Meets(n) ==
  LET others == Active \ {n}
      stale == \/ \E x \in ToSet(raw) \cup ToSet(heard) : x.turn # n
               \/ drain.st = "render" /\ DrainSpeaks /\ drain.item.turn # n
  IN  excused' = excused \cup others \cup (IF others # {} \/ stale THEN {n} ELSE {})

-----------------------------------------------------------------------------
(* The turn: what the agent loop publishes, and the handler of each event.    *)

TurnStarts ==
  /\ ~turn.live /\ turn.n < MaxTurns
  /\ \E t \in Texts[turn.n + 1] :
       turn' = [n |-> turn.n + 1, draft |-> 1, text |-> t, kept |-> 0, at |-> 0, live |-> TRUE]
  /\ UNCHANGED <<speak, leaving, bufVars, queueVars, taskVars, pastVars, upsets>>

\* on_delta.  Outside a conversation the words go by unheard.
OnDelta ==
  LET x == Sentence(turn.n, turn.draft, turn.at + 1, turn.text[turn.at + 1])
  IN  /\ turn.live /\ turn.at < Len(turn.text)
      /\ turn' = [turn EXCEPT !.at = @ + 1]
      /\ IF speak
         THEN Queue(Append(raw, x), FALSE) /\ EnsureDrain /\ Meets(turn.n)
         ELSE UNCHANGED <<bufVars, pending, seq, drain, excused>>
      /\ UNCHANGED <<speak, leaving, cancelled, heard, line, task, retracts, said, closed,
                     withdrawn, spared, upsets>>

\* A native tool call ends a round and its tool does not start: the draft stays,
\* nobody tells the voice, and the next round's words follow it.
KeepDraft ==
  /\ turn.live /\ turn.at > 0 /\ turn.at = Len(turn.text) /\ Upset
  /\ \E t \in Texts[turn.n] : turn' = [turn EXCEPT !.text = @ \o t, !.kept = Len(turn.text)]
  /\ UNCHANGED <<speak, leaving, bufVars, queueVars, taskVars, pastVars>>

\* on_retract up to its await.  A cycle that was open is closed when the drain
\* has let go of the sentence it renders.
Withdraw ==
  IF ~speak
  THEN Reset /\ UNCHANGED <<cancelled, retracts, closed>>
  ELSE /\ Drop
       /\ IF open /\ drain.st # "idle"
          THEN retracts' = retracts \cup {[u |-> utter, woken |-> FALSE]} /\ UNCHANGED closed
          ELSE closed' = (IF open THEN closed \cup {utter} ELSE closed) /\ UNCHANGED retracts

\* A retract, or the start of a tool of a turn that streamed a draft.
OnRetract ==
  /\ turn.live /\ turn.at > 0 /\ Upset
  /\ \E t \in Texts[turn.n] :
       turn' = [turn EXCEPT !.draft = @ + 1, !.text = t, !.kept = 0, !.at = 0]
  /\ Withdraw /\ (speak => UNCHANGED heard)
  /\ withdrawn' = withdrawn \cup {<<turn.n, turn.draft>>}
  /\ spared' = spared \cup Rendering
  /\ excused' = excused \cup (Active \ {turn.n})
  /\ UNCHANGED <<speak, leaving, seq, drain, line, task, said>>

\* on_turn_error forgets what was heard, and closes an open cycle.
OnTurnError ==
  /\ turn.live /\ turn' = Over /\ Upset
  /\ IF open
     THEN Withdraw /\ heard' = <<>>
     ELSE Reset /\ UNCHANGED <<cancelled, retracts, closed>>
  /\ withdrawn' = withdrawn \cup {<<turn.n, turn.draft>>}
  /\ spared' = spared \cup Rendering
  /\ excused' = excused \cup Active
  /\ UNCHANGED <<speak, leaving, seq, drain, line, task, said>>

-----------------------------------------------------------------------------
(* Stop, and the Qt thread, which calls cancel_speech when it likes.          *)

\* Mutant: Stop empties the buffer and forgets the sentence being rendered.
StopKeepsNumber == UNCHANGED cancelled

\* cancel_speech
StopNumber == cancelled' = seq

\* on_turn_cancel.  A reply that waits for _speak_lock takes its number later,
\* above the mark, and is spoken.
OnTurnCancel ==
  LET now == {n \in Active : task[n].st # "line"}
      of(n) == IF Live(n) THEN turn.draft ELSE task[n].draft
  IN  /\ Upset
      /\ turn' = Over
      /\ Reset /\ StopNumber
      /\ closed' = IF open THEN closed \cup {utter} ELSE closed
      /\ withdrawn' = withdrawn \cup {<<n, of(n)>> : n \in now}
      /\ spared' = spared \cup Rendering
      /\ excused' = excused \cup Active
      /\ UNCHANGED <<speak, leaving, seq, drain, line, task, retracts, said>>

\* stop_speech: an interruption, a playback error, an ERROR that the window shows,
\* or the second half of leaving the conversation.
CancelSpeech ==
  /\ IF leaving THEN leaving' = FALSE /\ UNCHANGED upsets ELSE Upset /\ UNCHANGED leaving
  /\ cancelled' = seq /\ pending' = <<>>
  /\ excused' = excused \cup Active
  /\ UNCHANGED <<speak, turn, bufVars, seq, taskVars, said, closed, withdrawn, spared>>

\* on_voice_mode: speech is off before it is stopped, and the event loop runs on
\* between the two.
LeaveConversation ==
  /\ speak /\ speak' = FALSE /\ leaving' = TRUE
  /\ Upset
  /\ excused' = excused \cup Active
  /\ UNCHANGED <<turn, bufVars, queueVars, taskVars, said, closed, withdrawn, spared>>

EnterConversation ==
  /\ ~speak /\ ~leaving /\ speak' = TRUE
  /\ excused' = excused \cup Active
  /\ UNCHANGED <<leaving, turn, bufVars, queueVars, taskVars, said, closed, withdrawn, spared,
                 upsets>>

-----------------------------------------------------------------------------
(* on_speak: the reply is complete.                                           *)

\* The task of on_speak.
Job(st, u) ==
  [st |-> st, u |-> u, todo |-> <<>>, draft |-> turn.draft, text |-> turn.text, kept |-> turn.kept]

\* The reply streamed, or its only words come now (a cue, a command's answer).
\* The buffer becomes the final text; how many sentences the drain has been given
\* is still counted over what streamed.
OnSpeak ==
  LET n == turn.n
      final == Answer(n, turn.draft, turn.text, turn.kept)
  IN  /\ turn.live /\ turn.at \in {0, Len(turn.text)}
      /\ turn' = Over
      /\ IF ~speak
         THEN UNCHANGED <<bufVars, pending, seq, drain, line, task, excused>>
         ELSE /\ Meets(n)
              /\ IF open
                 THEN /\ Queue(final, TRUE) /\ EnsureDrain /\ UNCHANGED line
                      /\ task' = [task EXCEPT ![n] = Job("await", utter')]
                 ELSE /\ final # <<>> /\ line' = Append(line, n)
                      /\ task' = [task EXCEPT ![n] = Job("line", 0)]
                      /\ UNCHANGED <<raw, spoken, utter, open, pending, seq, drain>>
      /\ UNCHANGED <<speak, leaving, heard, cancelled, retracts, said, closed, withdrawn,
                     spared, upsets>>

\* on_speak that returns at once, with nothing to say or with a synthesizer that
\* has a problem: it waits for nobody, and its VOICE_SPEECH_DONE has number 0.
SpeakNothing ==
  LET n == turn.n
  IN  /\ turn.live /\ turn.at \in {0, Len(turn.text)} /\ speak
      /\ turn' = Over
      /\ \/ /\ ~open /\ Answer(n, turn.draft, turn.text, turn.kept) = <<>>
            /\ Meets(n) /\ UNCHANGED upsets
         \/ Upset /\ excused' = excused \cup Active
      /\ task' = [task EXCEPT ![n] = Job("done", 0)]
      /\ closed' = closed \cup {0}
      /\ Reset
      /\ UNCHANGED <<speak, leaving, seq, cancelled, drain, line, retracts, said, withdrawn,
                     spared>>

Finish(n, u) ==
  /\ task' = [task EXCEPT ![n].st = "done"]
  /\ closed' = closed \cup {u}
  /\ Reset

\* The clips and the number are read again after the await.
SpeakResumes(n) ==
  /\ task[n].st = "woken"
  /\ Finish(n, IF utter = 0 THEN task[n].u ELSE utter)
  /\ UNCHANGED <<speak, leaving, turn, seq, cancelled, drain, line, retracts, said, withdrawn,
                 spared, excused, upsets>>

RetractResumes ==
  /\ \E w \in retracts :
       /\ w.woken
       /\ retracts' = retracts \ {w} /\ closed' = closed \cup {w.u}
  /\ UNCHANGED <<speak, leaving, turn, bufVars, queueVars, drain, line, task, said, withdrawn,
                 spared, excused, upsets>>

\* A reply that did not stream: its turn at the lock, its number, what of it
\* was not heard before.
WholeStarts(n) ==
  LET final == Answer(n, task[n].draft, task[n].text, task[n].kept)
  IN  /\ task[n].st = "line" /\ Holds(n)
      /\ seq' = seq + 1
      /\ task' = [task EXCEPT ![n].st = "whole", ![n].u = seq + 1,
                    ![n].todo = SubSeq(final, HeardCount(final) + 1, Len(final))]
      /\ UNCHANGED <<speak, leaving, turn, bufVars, pending, cancelled, drain, line, retracts,
                     pastVars, upsets>>

WholeNext(n) ==
  /\ task[n].st = "whole"
  /\ IF task[n].todo = <<>> \/ cancelled >= task[n].u
     THEN Finish(n, task[n].u) /\ line' = Tail(line)
     ELSE task' = [task EXCEPT ![n].st = "render"] /\ UNCHANGED <<bufVars, pending, closed, line>>
  /\ UNCHANGED <<speak, leaving, turn, seq, cancelled, drain, retracts, said, withdrawn, spared,
                 excused, upsets>>

Clip(x, u) == [turn |-> x.turn, draft |-> x.draft, pos |-> x.pos, text |-> x.text, u |-> u]

\* Nobody looks at the cancel mark between the rendering and the clip.
WholeClip(n) ==
  /\ task[n].st = "render"
  /\ said' = [said EXCEPT ![n] = Append(@, Clip(Head(task[n].todo), task[n].u))]
  /\ task' = [task EXCEPT ![n].st = "whole", ![n].todo = Tail(@)]
  /\ UNCHANGED <<speak, leaving, turn, bufVars, queueVars, drain, line, retracts, closed, withdrawn,
                 spared, excused, upsets>>

\* Mutant: the reply that failed leaves without the lock's release.
WholeFailsHolding(n) ==
  /\ task[n].st = "render" /\ Upset
  /\ Finish(n, task[n].u) /\ UNCHANGED line
  /\ excused' = excused \cup Active
  /\ UNCHANGED <<speak, leaving, turn, seq, cancelled, drain, retracts, said, withdrawn, spared>>

WholeFails(n) ==
  /\ task[n].st = "render" /\ Upset
  /\ Finish(n, task[n].u) /\ line' = Tail(line)
  /\ excused' = excused \cup Active
  /\ UNCHANGED <<speak, leaving, turn, seq, cancelled, drain, retracts, said, withdrawn, spared>>

-----------------------------------------------------------------------------
(* _drain_pending                                                             *)

\* Whoever waited for the last drain resumes before a new one begins.
DrainStarts ==
  /\ drain.st = "new" /\ drain' = [drain EXCEPT !.st = "line"]
  /\ \A w \in retracts : ~w.woken
  /\ \A n \in Turn : task[n].st # "woken"
  /\ line' = Append(line, 0)
  /\ UNCHANGED <<speak, leaving, turn, bufVars, queueVars, task, retracts, pastVars, upsets>>

DrainEnds ==
  /\ drain' = NoDrain /\ line' = Tail(line)
  /\ task' = [n \in Turn |-> IF task[n].st = "await" THEN [task[n] EXCEPT !.st = "woken"]
                                                    ELSE task[n]]
  /\ retracts' = {[w EXCEPT !.woken = TRUE] : w \in retracts}

\* The next sentence, under the number the stream has now.
DrainNext ==
  /\ drain.st = "line" /\ Holds(0)
  /\ IF pending = <<>> \/ utter = 0 \/ cancelled >= utter
     THEN DrainEnds /\ pending' = <<>>
     ELSE /\ pending' = Tail(pending) /\ UNCHANGED <<line, task, retracts>>
          /\ drain' = [drain EXCEPT !.st = "render", !.item = Head(pending), !.u = utter]
  /\ UNCHANGED <<speak, leaving, turn, bufVars, seq, cancelled, pastVars, upsets>>

DrainClip ==
  /\ drain.st = "render" /\ drain' = [NoDrain EXCEPT !.st = "line"]
  /\ IF DrainSpeaks
     THEN /\ said' = [said EXCEPT ![drain.item.turn] = Append(@, Clip(drain.item, drain.u))]
          /\ heard' = Append(heard, drain.item)
     ELSE UNCHANGED <<said, heard>>
  /\ UNCHANGED <<speak, leaving, turn, raw, spoken, utter, open, queueVars, line, task, retracts,
                 closed, withdrawn, spared, excused, upsets>>

DrainFails ==
  /\ drain.st = "render" /\ Upset
  /\ DrainEnds /\ pending' = <<>>
  /\ excused' = excused \cup Active
  /\ UNCHANGED <<speak, leaving, turn, bufVars, seq, cancelled, said, closed, withdrawn, spared>>

Next ==
  \/ TurnStarts \/ OnDelta \/ KeepDraft \/ OnRetract \/ OnTurnError \/ OnSpeak \/ SpeakNothing
  \/ OnTurnCancel \/ CancelSpeech \/ LeaveConversation \/ EnterConversation
  \/ DrainStarts \/ DrainNext \/ DrainClip \/ DrainFails \/ RetractResumes
  \/ \E n \in Turn : SpeakResumes(n) \/ WholeStarts(n) \/ WholeNext(n) \/ WholeClip(n)
                      \/ WholeFails(n)

Spec == Init /\ [][Next]_vars

DrainTask == DrainStarts \/ DrainNext \/ DrainClip \/ DrainFails
SpeakTask(n) == SpeakResumes(n) \/ WholeStarts(n) \/ WholeNext(n) \/ WholeClip(n) \/ WholeFails(n)

\* The event loop runs each task that is ready, and a rendering comes to an end.
Fairness ==
  /\ WF_vars(DrainTask) /\ WF_vars(RetractResumes)
  /\ \A n \in Turn : WF_vars(SpeakTask(n))

FairSpec == Spec /\ Fairness

-----------------------------------------------------------------------------
NewClip(n) == said'[n] # said[n]

\* What was taken back stays unsaid: no clip of a draft that a retract, a tool,
\* an error or a Stop withdrew, except the sentence on_speak was rendering then, or
\* the drain between the two halves of leaving the conversation.
WithdrawnStaysSilent ==
  [][\A n \in Turn : NewClip(n) =>
       LET c == Last(said'[n])
       IN  Draft(c) \notin withdrawn \/ \E x \in spared : Draft(x) = Draft(c) /\ x.pos = c.pos]_vars

\* VOICE_SPEECH_DONE is the last word of its utterance (events.py:61).
DoneIsLast == [][\A n \in Turn : NewClip(n) => Last(said'[n]).u \notin closed]_vars

\* Clips c as a telling of text t in draft d: the first old of them are of drafts
\* before, known of these say what t begins with, and then come the sentences of
\* t that follow, once each and in order.
Tells(c, d, t, old, known) ==
  /\ \A i \in 1 .. old : c[i].draft < d
  /\ known <= Len(t) /\ \A i \in 1 .. known : c[i].text = t[i]
  /\ known < old /\ known < Len(t) => c[known + 1].text # t[known + 1]
  /\ Len(c) - old <= Len(t) - known
  /\ \A i \in 1 .. Len(c) - old :
       c[old + i].draft = d /\ c[old + i].pos = known + i /\ c[old + i].text = t[known + i]

\* What the drafts before the last one had said of the final text stays said; of
\* the rest every sentence is said once, in order, unless the reply was stopped,
\* failed, met another reply, or kept a draft whose tool never started: on_speak
\* then takes the kept sentences for as many of the answer, and leaves its last
\* ones unsaid if they were not in the queue yet.
SpokenWhole ==
  \A n \in Turn \ excused :
    task[n].st = "done" /\ task[n].kept = 0 =>
      \E old \in 0 .. Len(said[n]) : \E known \in 0 .. old :
        /\ Tells(said[n], task[n].draft, task[n].text, old, known)
        /\ known + Len(said[n]) - old = Len(task[n].text)

\* Who can go on at once: the drain, a woken withdrawal, a reply.
DrainDue ==
  \/ drain.st = "render"
  \/ drain.st = "line" /\ Holds(0)
  \/ drain.st = "new" /\ (\A w \in retracts : ~w.woken) /\ \A n \in Turn : task[n].st # "woken"
SpeakDue(n) == task[n].st \in {"woken", "whole", "render"} \/ (task[n].st = "line" /\ Holds(n))

\* A sentence that is queued has a drain, and while a sentence, a withdrawal or a
\* reply waits somebody can go on: _speak_lock, the drain and those who wait for
\* its end never wait for each other.
NothingIsStuck ==
  /\ pending # <<>> => drain.st # "idle"
  /\ drain.st # "idle" \/ retracts # {} \/ (\E n \in Turn : Speaking(n)) =>
       DrainDue \/ (\E w \in retracts : w.woken) \/ \E n \in Turn : SpeakDue(n)

\* Every reply handed over and every withdrawal that waits comes to its
\* VOICE_SPEECH_DONE: conversation mode cannot listen again without it.
EverySpeakCloses ==
  /\ \A n \in Turn : Speaking(n) ~> ~Speaking(n)
  /\ retracts # {} ~> retracts = {}
=============================================================================
