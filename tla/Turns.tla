------------------------------- MODULE Turns -------------------------------
(* Turns of a conversation: messages, cards, Stop, and speech that joins in.  *)
(*                                                                            *)
(* The orchestrator (src/arelis/core/orchestrator*.py) runs one turn at a     *)
(* time under an asyncio lock.  Each bus event is handled by its own task, so *)
(* a turn that waits for a card overlaps with the handlers of every later     *)
(* event: an answer to the card, Stop, a conversation switch, another         *)
(* message, or a spoken continuation that cancels a turn that has not         *)
(* answered yet and starts it again.  One action is what a task runs between  *)
(* two of its awaits; publishing on the bus never waits.                      *)
EXTENDS Naturals, Sequences, FiniteSets

CONSTANTS
  Msg,          \* messages the user sends from the composer or the phone
  Follow,       \* spoken continuations, delivered while a turn is open
  Picture,      \* messages that name an outside picture: card before the lock
  Outside,      \* messages that name another outside file: card under the lock
  Research,     \* inputs whose turn waits for the GPU before it is written down
  None,         \* no input
  Phone,        \* the phone talk folded in by MOBILE_SYNC
  Kind,         \* what the tools on the menu do
  Forced,       \* those of them whose card something may force
  Answers,      \* the answers the user gives: a set of decisions
  Ink,          \* inputs with a tool that draws pages the program has to look at
  AskIsGrant,   \* the setting ask_is_grant: the ask that names a tool allows it
  OffAtStart,   \* settings whose cards are switched off when the program starts
  MaxCalls,     \* bound: tool calls of each input's turn (the round budget)
  MaxStops, MaxLoads, MaxSyncs,  \* bounds: events of each kind from the outside
  MaxBus        \* bound: events waiting when another comes from the outside

Input == Msg \cup Follow
Happening == {"stop", "load", "sync"}
Consent  == {"allow", "allow_turn", "allow_always"}
Decision == Consent \cup {"skip"}
Budget == [stop |-> MaxStops, load |-> MaxLoads, sync |-> MaxSyncs]

\* The setting a call's card answers to (tools/policy.py): a file, a page, a
\* payment, the calendar, a program.  A read has no card; a send or a delete has
\* one whatever the settings say.
Toggle == [write |-> "writes", agenda |-> "writes", open |-> "browser", pay |-> "browser",
           program |-> "run"]
AskCovers   == {"write", "agenda", "open"}  \* calls that do not always pause
GrantCovers == {"write", "open", "pay"}     \* calls the rest of the ask covers
Persists    == AskCovers                    \* cards that take "don't ask again"

ASSUME TurnsAssumption ==
  /\ Msg \cap Follow = {}
  /\ Picture \subseteq Msg /\ Outside \subseteq Msg /\ Research \subseteq Input
  /\ Picture \cap Outside = {}
  /\ None \notin Input /\ Phone \notin Input
  /\ Kind \subseteq {"free", "send"} \cup DOMAIN Toggle
  /\ Forced \subseteq Kind
  /\ Answers \subseteq Decision
  /\ Ink \subseteq Input /\ AskIsGrant \in BOOLEAN
  /\ MaxCalls \in [Input -> Nat]
  /\ MaxStops \in Nat /\ MaxLoads \in Nat /\ MaxSyncs \in Nat
  /\ MaxBus \in Nat

VARIABLES
  bus,         \* published events whose handler has not started
  phase,       \* how far each input has come
  queue,       \* inputs waiting for _turn_lock, in order
  turn,        \* the input whose handler holds _turn_lock
  voice,       \* continuations waiting for _voice_follow_lock; the first holds it
  waiter,      \* the future of each input's open card in _confirm_waiters
  asked,       \* how many cards each input has opened: the number is the card's id
  cancel,      \* _cancel
  stopping,    \* task.cancel() was called and its CancelledError is not yet raised
  merging,     \* _voice_merge_task
  quietly,     \* restart_quietly of the running loop
  started,     \* _model_has_started of the running loop
  grant,       \* allow_writes_this_turn of the running turn
  call,        \* the tool call the running turn is making
  calls,       \* how many tool calls it has made
  walk,        \* the program's look at the drawn pages: "none", "owed" or "done"
  off,         \* the settings confirm_* that are off
  lastAsk,     \* _last_ask
  stoppedAsk,  \* _stopped_ask
  rows,        \* SessionMemory.messages
  shown,       \* cards on a screen, which the user may still answer
  left,        \* how often the outside may still stop, load or sync
  terminals,   \* history: terminal events published for each input
  said,        \* history: what the user answered, card by card
  carded,      \* history: the calls of each input that a card was opened for
  lapsed,      \* history: cards that timed out
  stopped      \* history: inputs whose task was live when a Stop was handled

loopVars == <<quietly, started, grant, call, calls, walk, off, carded>>
cardVars == <<waiter, asked, shown, lapsed>>
askVars  == <<lastAsk, stoppedAsk>>
lockVars == <<queue, turn>>
vars == <<bus, phase, lockVars, voice, cardVars, cancel, stopping, merging, loopVars,
          askVars, rows, left, terminals, said, stopped>>

Phase == {"unsent", "sent", "staging", "queued", "grants", "new", "prepare", "model",
          "card", "allowed", "declined", "tool", "finished", "cut", "done",
          "heard", "merging", "merged", "edited"}
Live     == {"new", "prepare", "model", "card", "allowed", "declined", "tool"}
Answering == {"model", "card", "allowed", "declined", "tool"}
Ended    == {"done", "merged", "edited"}
\* A call: whether the ask named its tool, whether something forces its card (an
\* address that carries private text, a program nobody has approved), and the
\* number of the card opened for it, 0 if none was.
Call == [kind : {"free", "send"} \cup DOMAIN Toggle, named : BOOLEAN, forced : BOOLEAN,
         card : Nat]
Proposed == {c \in [kind : Kind, named : BOOLEAN, forced : BOOLEAN, card : {0}] :
               /\ c.named => c.kind \in AskCovers /\ ~c.forced   \* where it counts
               /\ c.forced => c.kind \in Forced}
NoCall == [kind |-> "free", named |-> FALSE, forced |-> FALSE, card |-> 0]
Card     == Input \X Nat
Event == [type : {"user", "voice"}, who : Input]
         \cup [type : {"reply"}, card : Card, say : Decision]
         \cup [type : Happening]
Row == [who : Input \cup {Phone}, role : {"user", "assistant"}, cancelled : BOOLEAN]

Init ==
  /\ bus = <<>> /\ phase = [i \in Input |-> "unsent"]
  /\ queue = <<>> /\ turn = None /\ voice = <<>>
  /\ waiter = [i \in Input |-> "none"] /\ asked = [i \in Input |-> 0]
  /\ cancel = FALSE /\ stopping = FALSE /\ merging = None
  /\ quietly = FALSE /\ started = FALSE /\ grant = FALSE /\ call = NoCall /\ calls = 0
  /\ walk = "none" /\ off = OffAtStart /\ carded = [i \in Input |-> {}]
  /\ lastAsk = None /\ stoppedAsk = None /\ rows = <<>>
  /\ shown = {} /\ left = Budget
  /\ terminals = [i \in Input |-> 0] /\ said = {} /\ lapsed = {} /\ stopped = {}

-----------------------------------------------------------------------------
(* Helpers. *)

\* _turn_live: the turn's task exists and is not done.
TurnLive == turn # None /\ phase[turn] \in Live

\* _confirm_waiters is not empty.  A card leaves it when its asker resumes.
Waiting == \E i \in Input : waiter[i] # "none"

\* What the orchestrator checks before a continuation may replace the turn.
CanMergeAnswered == TurnLive /\ ~Waiting   \* Mutant of CanMerge: it does not ask whether the model started.
CanMerge == TurnLive /\ ~Waiting /\ ~started

\* memory.add
Row1(who, role) == [who |-> who, role |-> role, cancelled |-> FALSE]

\* mark_last_user_cancelled: the latest user row, whoever's it is.
LastUserMarked ==
  [k \in DOMAIN rows |->
    IF rows[k].role = "user" /\ \A l \in DOMAIN rows : rows[l].role = "user" => l <= k
    THEN [rows[k] EXCEPT !.cancelled = TRUE] ELSE rows[k]]

Publish(e) == bus' = Append(bus, e)
Move(i, p) == phase' = [phase EXCEPT ![i] = p]
Terminal(i) == terminals' = [terminals EXCEPT ![i] = @ + 1]

\* _request_confirm up to its wait: a new id, its future, and the card on screen.
OpenCard(i) ==
  /\ asked' = [asked EXCEPT ![i] = @ + 1]
  /\ waiter' = [waiter EXCEPT ![i] = "open"]
  /\ shown' = shown \cup {<<i, asked[i] + 1>>}
  /\ UNCHANGED lapsed

-----------------------------------------------------------------------------
(* What happens outside: the user, the phone, and the desktop.                *)

\* The user sends a message, or speaks while a turn is open.
Say(i) ==
  /\ Len(bus) < MaxBus
  /\ phase[i] = "unsent" /\ Move(i, "sent")
  /\ Publish([type |-> IF i \in Msg THEN "user" ELSE "voice", who |-> i])
  /\ UNCHANGED <<lockVars, voice, cardVars, cancel, stopping, merging, loopVars, askVars,
                 rows, left, terminals, said, stopped>>

\* The user answers a card some screen still shows.
AnswerCard(card, say) ==
  /\ Len(bus) < MaxBus
  /\ card \in shown /\ shown' = shown \ {card}
  /\ said' = said \cup {<<card, say>>}
  /\ Publish([type |-> "reply", card |-> card, say |-> say])
  /\ UNCHANGED <<phase, lockVars, voice, waiter, asked, lapsed, cancel, stopping, merging,
                 loopVars, askVars, rows, left, terminals, stopped>>

\* The user presses Stop or opens another conversation, or the phone syncs.
Happen(what) ==
  /\ Len(bus) < MaxBus
  /\ left[what] > 0 /\ left' = [left EXCEPT ![what] = @ - 1]
  /\ Publish([type |-> what])
  /\ UNCHANGED <<phase, lockVars, voice, cardVars, cancel, stopping, merging, loopVars,
                 askVars, rows, terminals, said, stopped>>

-----------------------------------------------------------------------------
(* Handlers: the bus starts them in the order of the events.                  *)

Handle(type) == bus # <<>> /\ Head(bus).type = type /\ bus' = Tail(bus)

\* on_user_message: an outside picture asks for its card before the turn lock.
OnUser(i) ==
  /\ Handle("user") /\ Head(bus).who = i /\ phase[i] = "sent"
  /\ IF i \in Picture
       THEN Move(i, "staging") /\ OpenCard(i) /\ UNCHANGED queue
       ELSE Move(i, "queued") /\ queue' = Append(queue, i) /\ UNCHANGED cardVars
  /\ UNCHANGED <<turn, voice, cancel, stopping, merging, loopVars, askVars, rows, left,
                 terminals, said, stopped>>

\* on_voice_transcript: with a card open the words go to the card's draft.
OnVoice(i) ==
  /\ Handle("voice") /\ Head(bus).who = i /\ phase[i] = "sent"
  /\ IF Waiting
       THEN Move(i, "edited") /\ UNCHANGED voice
       ELSE Move(i, "heard") /\ voice' = Append(voice, i)
  /\ UNCHANGED <<lockVars, cardVars, cancel, stopping, merging, loopVars, askVars, rows, left,
                 terminals, said, stopped>>

\* on_confirm_reply: only the card of that id, and only while it waits.  The
\* screens hear the same event and take the card down.
OnReplyAnyCard ==   \* Mutant of OnReply: the answer goes to the open card, whatever its id.
  /\ Handle("reply")
  /\ LET i == Head(bus).card[1] IN
       waiter' = [waiter EXCEPT ![i] = IF @ = "open" THEN Head(bus).say ELSE @]
  /\ shown' = shown \ {Head(bus).card}
  /\ UNCHANGED <<phase, lockVars, voice, asked, lapsed, cancel, stopping, merging,
                 loopVars, askVars, rows, left, terminals, said, stopped>>
OnReply ==
  /\ Handle("reply")
  /\ LET i == Head(bus).card[1] IN
       waiter' = [waiter EXCEPT ![i] =
                    IF @ = "open" /\ Head(bus).card[2] = asked[i] THEN Head(bus).say ELSE @]
  /\ shown' = shown \ {Head(bus).card}
  /\ UNCHANGED <<phase, lockVars, voice, asked, lapsed, cancel, stopping, merging,
                 loopVars, askVars, rows, left, terminals, said, stopped>>

\* on_turn_cancel: snapshot the ask, set the flag, skip every card, cancel the task.
OnStopWithoutFlag ==   \* Mutant of OnStop: it only cancels the task.
  /\ Handle("stop")
  /\ stoppedAsk' = IF lastAsk # None /\ (TurnLive \/ Waiting) THEN lastAsk ELSE stoppedAsk
  /\ waiter' = [i \in Input |-> IF waiter[i] = "open" THEN "skip" ELSE waiter[i]]
  /\ stopping' = TurnLive
  /\ stopped' = IF TurnLive THEN stopped \cup {turn} ELSE stopped
  /\ UNCHANGED <<phase, lockVars, voice, asked, shown, lapsed, cancel, merging, loopVars, lastAsk,
                 rows, left, terminals, said>>
OnStop ==
  /\ Handle("stop")
  /\ stoppedAsk' = IF lastAsk # None /\ (TurnLive \/ Waiting) THEN lastAsk ELSE stoppedAsk
  /\ cancel' = TRUE
  /\ waiter' = [i \in Input |-> IF waiter[i] = "open" THEN "skip" ELSE waiter[i]]
  /\ stopping' = TurnLive
  /\ stopped' = IF TurnLive THEN stopped \cup {turn} ELSE stopped
  /\ UNCHANGED <<phase, lockVars, voice, asked, shown, lapsed, merging, loopVars, lastAsk, rows,
                 left, terminals, said>>

\* on_session_load of a new conversation: refused while the task is live.
OnLoadUnchecked ==   \* Mutant of OnLoad: it does not look at the task.
  /\ Handle("load") /\ rows' = <<>>
  /\ UNCHANGED <<phase, lockVars, voice, cardVars, cancel, stopping, merging, loopVars, askVars,
                 left, terminals, said, stopped>>
OnLoad ==
  /\ Handle("load")
  /\ rows' = IF TurnLive THEN rows ELSE <<>>
  /\ UNCHANGED <<phase, lockVars, voice, cardVars, cancel, stopping, merging, loopVars, askVars,
                 left, terminals, said, stopped>>

\* on_mobile_sync: the phone's rows join the open conversation at once.
OnSync ==
  /\ Handle("sync")
  /\ rows' = Append(rows, Row1(Phone, "user"))
  /\ UNCHANGED <<phase, lockVars, voice, cardVars, cancel, stopping, merging, loopVars, askVars,
                 left, terminals, said, stopped>>

-----------------------------------------------------------------------------
(* The voice follow: queue behind the turn, or cancel it and start again.     *)

\* _queue_voice_follow
QueueFollowDropped(i) ==   \* Mutant of QueueFollow: the words are dropped behind a busy turn.
  /\ voice # <<>> /\ Head(voice) = i /\ phase[i] = "heard"
  /\ ~CanMerge
  /\ Move(i, "sent") /\ voice' = Tail(voice)
  /\ UNCHANGED <<bus, lockVars, cardVars, cancel, stopping, merging, loopVars, askVars, rows,
                 left, terminals, said, stopped>>
QueueFollow(i) ==
  /\ voice # <<>> /\ Head(voice) = i /\ phase[i] = "heard"
  /\ ~CanMerge
  /\ Move(i, "sent") /\ voice' = Tail(voice)
  /\ Publish([type |-> "user", who |-> i])
  /\ UNCHANGED <<lockVars, cardVars, cancel, stopping, merging, loopVars, askVars, rows, left,
                 terminals, said, stopped>>

\* _merge_voice_follow up to its wait for the cancelled task.
MergeFollow(i) ==
  /\ voice # <<>> /\ Head(voice) = i /\ phase[i] = "heard"
  /\ CanMerge
  /\ Move(i, "merging")
  /\ quietly' = TRUE /\ merging' = turn /\ cancel' = TRUE /\ stopping' = TRUE
  /\ UNCHANGED <<bus, lockVars, voice, cardVars, started, grant, call, calls, walk, off, carded, askVars, rows,
                 left, terminals, said, stopped>>

\* The rest of it.  The cancelled task raises at its next step, so it ends
\* cancelled and unanswered: the branch that keeps its answer is not reached.
RestartFollow(i) ==
  /\ voice # <<>> /\ Head(voice) = i /\ phase[i] = "merging" /\ merging = None
  /\ cancel' = FALSE
  /\ Move(i, "sent") /\ voice' = Tail(voice)
  /\ Publish([type |-> "user", who |-> i])
  /\ UNCHANGED <<lockVars, cardVars, stopping, merging, loopVars, askVars, rows, left,
                 terminals, said, stopped>>

-----------------------------------------------------------------------------
(* The handler of a message, around its turn.                                 *)

\* _run_turn from the reset of the flags to create_task.
NewTask(i) ==
  /\ Move(i, "new")
  /\ cancel' = FALSE /\ lastAsk' = i /\ stoppedAsk' = None
  /\ quietly' = FALSE /\ started' = FALSE /\ grant' = FALSE /\ call' = NoCall /\ calls' = 0
  /\ walk' = "none" /\ UNCHANGED <<off, carded>>

\* The lock is free and i is first in line.  An outside path asks under the lock.
TakeLockAtOnce(i) ==   \* Mutant of TakeLock: it does not wait for the turn before.
  /\ queue # <<>> /\ Head(queue) = i /\ phase[i] = "queued"
  /\ turn' = i /\ queue' = Tail(queue)
  /\ IF i \in Outside
       THEN /\ Move(i, "grants") /\ OpenCard(i)
            /\ UNCHANGED <<cancel, askVars, loopVars>>
       ELSE NewTask(i) /\ UNCHANGED cardVars
  /\ UNCHANGED <<bus, voice, stopping, merging, rows, left, terminals, said, stopped>>
TakeLock(i) ==
  /\ turn = None /\ queue # <<>> /\ Head(queue) = i /\ phase[i] = "queued"
  /\ turn' = i /\ queue' = Tail(queue)
  /\ IF i \in Outside
       THEN /\ Move(i, "grants") /\ OpenCard(i)
            /\ UNCHANGED <<cancel, askVars, loopVars>>
       ELSE NewTask(i) /\ UNCHANGED cardVars
  /\ UNCHANGED <<bus, voice, stopping, merging, rows, left, terminals, said, stopped>>

\* What the asker of i's card does when _request_confirm returns its decision.
\* A path card takes two of the three yeses; "don't ask again" on a tool's card
\* switches its setting off, unless the card was forced or is not of that kind.
Resume(i, decision) ==
  \/ /\ phase[i] = "staging" /\ decision \in {"allow", "allow_turn"}
     /\ Move(i, "queued") /\ queue' = Append(queue, i)
     /\ UNCHANGED <<turn, cancel, askVars, loopVars, terminals>>
  \/ /\ phase[i] = "grants" /\ decision \in {"allow", "allow_turn"}
     /\ NewTask(i)
     /\ UNCHANGED <<lockVars, terminals>>
  \/ /\ phase[i] \in {"staging", "grants"} /\ decision \notin {"allow", "allow_turn"}
     /\ Move(i, "done") /\ Terminal(i)
     /\ turn' = IF turn = i THEN None ELSE turn
     /\ UNCHANGED <<queue, cancel, askVars, loopVars>>
  \/ /\ phase[i] = "card" /\ ~stopping
     /\ Move(i, IF decision = "skip" THEN "declined" ELSE "allowed")
     /\ grant' = (grant \/ decision = "allow_turn")
     /\ off' = off \cup {t \in {Toggle[k] : k \in Persists \cap {call.kind}} :
                           decision = "allow_always" /\ ~call.forced}
     /\ UNCHANGED <<lockVars, cancel, askVars, quietly, started, call, calls, walk, carded,
                    terminals>>

\* The card was answered, or skipped by Stop: its asker resumes.
CardAnswered(i) ==
  /\ waiter[i] \in Decision
  /\ Resume(i, waiter[i])
  /\ waiter' = [waiter EXCEPT ![i] = "none"]
  /\ UNCHANGED <<bus, voice, asked, shown, lapsed, stopping, merging, rows, left, said, stopped>>

\* confirm_timeout_s passed: the asker skips, and says so to the screens.
CardTimedOut(i) ==
  /\ waiter[i] = "open"
  /\ Resume(i, "skip")
  /\ waiter' = [waiter EXCEPT ![i] = "none"]
  /\ lapsed' = lapsed \cup {<<i, asked[i]>>}
  /\ Publish([type |-> "reply", card |-> <<i, asked[i]>>, say |-> "skip"])
  /\ UNCHANGED <<voice, asked, shown, stopping, merging, rows, left, said, stopped>>

-----------------------------------------------------------------------------
(* The turn's task: AgentLoop.run.  A pending cancel leaves it one next step. *)

Free(i) == turn = i /\ ~stopping

\* memory.add("user"), at the end of what runs before the first request.
WriteLine(i) == rows' = Append(rows, Row1(i, "user")) /\ Move(i, "model")

\* A continuation whose cancelled turn has ended is about to resume.  It was
\* woken with the end of that turn, before the next turn's task is created, so
\* the event loop resumes it before that task's first step.
RestartDue == merging = None /\ \E i \in Input : phase[i] = "merging"

\* The task begins; a research turn first waits for the GPU's other tenants.
Begin(i) ==
  /\ Free(i) /\ phase[i] = "new" /\ ~RestartDue
  /\ IF i \in Research THEN Move(i, "prepare") /\ UNCHANGED rows ELSE WriteLine(i)
  /\ UNCHANGED <<bus, lockVars, voice, cardVars, cancel, stopping, merging, loopVars, askVars,
                 left, terminals, said, stopped>>

Prepared(i) ==
  /\ Free(i) /\ phase[i] = "prepare" /\ WriteLine(i)
  /\ UNCHANGED <<bus, lockVars, voice, cardVars, cancel, stopping, merging, loopVars, askVars,
                 left, terminals, said, stopped>>

\* The first token, thinking chunk or tool call of the stream.
FirstChunk(i) ==
  /\ Free(i) /\ phase[i] = "model" /\ ~cancel /\ ~started
  /\ started' = TRUE
  /\ UNCHANGED <<bus, phase, lockVars, voice, cardVars, cancel, stopping, merging, quietly,
                 grant, call, calls, walk, off, carded, askVars, rows, left, terminals, said,
                 stopped>>

\* needs_confirm, and what forces a card in spite of it.
NeedsCard(c) ==
  \/ c.forced \/ c.kind = "send"
  \/ /\ c.kind \in DOMAIN Toggle /\ Toggle[c.kind] \notin off
     /\ ~(grant /\ c.kind \in GrantCovers)
     /\ ~(AskIsGrant /\ c.named /\ c.kind \in AskCovers)

\* The model asked for a tool, or the program's walk does: it waits for its card,
\* or runs at once.
CallTool(i, c) ==
  /\ Free(i) /\ phase[i] = "model" /\ ~cancel /\ started /\ calls < MaxCalls[i]
  /\ calls' = calls + 1
  /\ call' = [c EXCEPT !.card = IF NeedsCard(c) THEN asked[i] + 1 ELSE 0]
  /\ IF NeedsCard(c)
       THEN Move(i, "card") /\ OpenCard(i) /\ carded' = [carded EXCEPT ![i] = @ \cup {call'}]
       ELSE Move(i, "tool") /\ UNCHANGED <<cardVars, carded>>
  /\ UNCHANGED <<bus, lockVars, voice, cancel, stopping, merging, quietly, started, grant,
                 walk, off, askVars, rows, left, terminals, said, stopped>>

\* A tool drew pages and nothing looked at them: the program calls for the look
\* itself, and first gives itself the rest of the ask.
Walk(i) ==
  /\ Free(i) /\ phase[i] = "model" /\ walk = "owed"
  /\ walk' = "done" /\ grant' = TRUE
  /\ UNCHANGED <<bus, phase, lockVars, voice, cardVars, cancel, stopping, merging, quietly,
                 started, call, calls, off, carded, askVars, rows, left, terminals, said,
                 stopped>>

\* _finish
Answer(i) ==
  /\ Move(i, "finished") /\ Terminal(i)
  /\ rows' = Append(rows, Row1(i, "assistant"))

\* _cancel_notice, unless a continuation asked for a quiet end.
Notice(i) ==
  /\ Move(i, "finished")
  /\ IF quietly THEN UNCHANGED <<terminals, rows>> ELSE Terminal(i) /\ rows' = LastUserMarked

\* After a tool or a refusal: answer from it, see the flag, or ask the model again.
GoOn(i) ==
  \/ Answer(i)
  \/ cancel /\ Notice(i)
  \/ ~cancel /\ Move(i, "model") /\ UNCHANGED <<terminals, rows>>

\* The card's heartbeat is cancelled and awaited.  That await suppresses
\* CancelledError, so a Stop that lands on it is lost and the tool runs.
Settle(i) ==
  /\ turn = i /\ phase[i] \in {"allowed", "declined"}
  /\ stopping' = FALSE
  /\ IF phase[i] = "allowed" THEN Move(i, "tool") /\ UNCHANGED <<terminals, rows>> ELSE GoOn(i)
  /\ UNCHANGED <<bus, lockVars, voice, cardVars, cancel, merging, loopVars, askVars,
                 left, said, stopped>>

\* The tool is over; one of Ink's may leave pages that nobody has looked at.
ToolDone(i) ==
  /\ Free(i) /\ phase[i] = "tool" /\ GoOn(i)
  /\ walk' \in {walk} \cup (IF i \in Ink /\ walk = "none" THEN {"owed"} ELSE {})
  /\ UNCHANGED <<bus, lockVars, voice, cardVars, cancel, stopping, merging, quietly, started,
                 grant, call, calls, off, carded, askVars, left, said, stopped>>

\* The stream ends, in an answer or because the loop saw the flag.
StreamEnds(i) ==
  /\ Free(i) /\ phase[i] = "model"
  /\ \/ ~cancel /\ Answer(i)
     \/ cancel /\ Notice(i)
  /\ UNCHANGED <<bus, lockVars, voice, cardVars, cancel, stopping, merging, loopVars, askVars,
                 left, said, stopped>>

\* An exception ends the turn in one ERROR.
Fail(i) ==
  /\ Free(i) /\ phase[i] \in {"prepare", "model", "tool"}
  /\ Move(i, "finished") /\ Terminal(i)
  /\ UNCHANGED <<bus, lockVars, voice, cardVars, cancel, stopping, merging, loopVars, askVars,
                 rows, left, said, stopped>>

\* The pending CancelledError is raised.  A task that never ran says nothing.
DeliverCancel(i) ==
  /\ turn = i /\ stopping /\ phase[i] \in Live \ {"allowed", "declined"}
  /\ stopping' = FALSE
  /\ waiter' = [waiter EXCEPT ![i] = "none"]
  /\ IF phase[i] = "new" THEN Move(i, "cut") /\ UNCHANGED <<terminals, rows>> ELSE Notice(i)
  /\ UNCHANGED <<bus, lockVars, voice, asked, shown, lapsed, cancel, merging, loopVars, askVars,
                 left, said, stopped>>

\* _run_turn after the task: the quiet end of a merge, or Stopped if the loop
\* did not get that far; then the lock goes to the next in line.
CloseTurnSilently(i) ==   \* Mutant of CloseTurn: it trusts the loop to have said Stopped.
  /\ turn = i /\ phase[i] \in {"finished", "cut"}
  /\ turn' = None
  /\ merging' = IF merging = i THEN None ELSE merging
  /\ Move(i, IF merging = i THEN "merged" ELSE "done")
  /\ UNCHANGED <<bus, queue, voice, cardVars, cancel, stopping, loopVars, askVars, rows, left,
                 terminals, said, stopped>>
CloseTurnHoldsMerge(i) ==   \* Mutant of CloseTurn: the continuation is not told that its turn is over.
  /\ turn = i /\ phase[i] \in {"finished", "cut"}
  /\ turn' = None
  /\ Move(i, IF merging = i THEN "merged" ELSE "done")
  /\ terminals' = IF phase[i] = "cut" /\ merging # i
                  THEN [terminals EXCEPT ![i] = @ + 1] ELSE terminals
  /\ UNCHANGED <<bus, queue, voice, cardVars, cancel, stopping, merging, loopVars, askVars, rows,
                 left, said, stopped>>
CloseTurn(i) ==
  /\ turn = i /\ phase[i] \in {"finished", "cut"}
  /\ turn' = None
  /\ merging' = IF merging = i THEN None ELSE merging
  /\ Move(i, IF merging = i THEN "merged" ELSE "done")
  /\ terminals' = IF phase[i] = "cut" /\ merging # i
                  THEN [terminals EXCEPT ![i] = @ + 1] ELSE terminals
  /\ UNCHANGED <<bus, queue, voice, cardVars, cancel, stopping, loopVars, askVars, rows, left,
                 said, stopped>>

-----------------------------------------------------------------------------
TaskStep(i) ==
  \/ Begin(i) \/ Prepared(i) \/ FirstChunk(i) \/ Settle(i) \/ Walk(i)
  \/ (\E c \in Proposed : CallTool(i, c))
  \/ ToolDone(i) \/ StreamEnds(i) \/ Fail(i) \/ DeliverCancel(i) \/ CloseTurn(i)

HandlerStep(i) ==
  \/ OnUser(i) \/ OnVoice(i) \/ QueueFollow(i) \/ MergeFollow(i) \/ RestartFollow(i)
  \/ TakeLock(i) \/ CardAnswered(i) \/ CardTimedOut(i)

BusStep == OnReply \/ OnStop \/ OnLoad \/ OnSync

Next ==
  \/ \E i \in Input : Say(i) \/ HandlerStep(i) \/ TaskStep(i)
  \/ \E card \in shown, say \in Answers : AnswerCard(card, say)
  \/ \E what \in Happening : Happen(what)
  \/ BusStep

Spec == Init /\ [][Next]_vars

\* The event loop runs every ready handler and task, the model and each tool
\* have time limits, and so has a card.  The user owes nothing.
Fairness ==
  /\ WF_vars(BusStep)
  /\ \A i \in Input : WF_vars(HandlerStep(i)) /\ WF_vars(TaskStep(i))
FairSpec == Spec /\ Fairness

-----------------------------------------------------------------------------
TypeOK ==
  /\ bus \in Seq(Event) /\ phase \in [Input -> Phase]
  /\ queue \in Seq(Input) /\ turn \in Input \cup {None} /\ voice \in Seq(Input)
  /\ waiter \in [Input -> {"none", "open"} \cup Decision] /\ asked \in [Input -> Nat]
  /\ cancel \in BOOLEAN /\ stopping \in BOOLEAN /\ merging \in Input \cup {None}
  /\ quietly \in BOOLEAN /\ started \in BOOLEAN /\ grant \in BOOLEAN
  /\ call \in Call /\ calls \in Nat /\ walk \in {"none", "owed", "done"}
  /\ off \subseteq OffAtStart \cup {Toggle[k] : k \in Persists} /\ carded \in [Input -> SUBSET Call]
  /\ lastAsk \in Input \cup {None} /\ stoppedAsk \in Input \cup {None}
  /\ rows \in Seq(Row) /\ shown \subseteq Card /\ left \in [Happening -> Nat]
  /\ terminals \in [Input -> Nat] /\ said \subseteq Card \X Decision /\ lapsed \subseteq Card
  /\ stopped \subseteq Input

\* However Stop, cards, errors and continuations interleave, an input that ends
\* has exactly one terminal event, or none if it was restarted with more words:
\* the composer clears on that event and on nothing else.
OneTerminal ==
  \A i \in Input : /\ terminals[i] <= 1
                   /\ phase[i] = "done" => terminals[i] = 1
                   /\ phase[i] \in {"merged", "edited"} => terminals[i] = 0

\* The user's yes to the card of a call, given before the card lapsed.
Consented(i, c, say) == <<<<i, c.card>>, say>> \in said /\ <<i, c.card>> \notin lapsed

\* Everything that lets i's call run.
Allowed(i) ==
  \/ call \in carded[i] /\ \E say \in Consent : Consented(i, call, say)
  \/ /\ ~call.forced /\ call.kind # "send"
     /\ call.kind \in DOMAIN Toggle =>
          \/ Toggle[call.kind] \in OffAtStart
          \/ \E j \in Input : \E c \in carded[j] :
               /\ ~c.forced /\ c.kind \in Persists /\ Toggle[c.kind] = Toggle[call.kind]
               /\ Consented(j, c, "allow_always")
          \/ AskIsGrant /\ call.named /\ call.kind \in AskCovers
          \/ /\ call.kind \in GrantCovers
             /\ \/ walk = "done"
                \/ \E c \in carded[i] : Consented(i, c, "allow_turn")

\* A send, a delete, and a call whose card is forced run only on the user's yes to
\* their very own card.  Any other gated call may run on less, and then on
\* nothing but: a setting that was off or that the user switched off on a card of
\* that class, the ask that named it, the rest of this ask, allowed on an
\* earlier tool card of this turn or taken by the program's own look at pages.
ToolNeedsItsAllow == \A i \in Input : phase[i] = "tool" => Allowed(i)

\* Whatever was switched or synced meanwhile, a turn that talks to the model has
\* its own message in the conversation its answer will be added to.
AnswerSeesItsAsk ==
  \A i \in Input : phase[i] \in Answering =>
    \E k \in DOMAIN rows : rows[k].who = i /\ rows[k].role = "user"

\* A continuation never throws away a turn that has begun to answer.
QuietOnlyUnanswered ==
  [][\A i \in Input : phase'[i] = "merged" /\ phase[i] # "merged" => ~started /\ calls = 0]_vars

\* After a Stop the turn opens no card and starts no call, other than the one
\* whose card was answered before the Stop was handled.
StoppedTurnWindsDown ==
  [][\A i \in stopped : /\ asked'[i] = asked[i]
                        /\ phase'[i] = "tool" => phase[i] \in {"allowed", "tool"}]_vars

\* One turn at a time, each told its end once (SerialTurns): what a phase is to
\* whoever waits outside.
Stage == [p \in Phase |->
  CASE p \in {"sent", "staging", "queued", "heard", "merging"} -> "waiting"
    [] p \in {"unsent"} -> "unsent"
    [] p \in {"done"} -> "ended"
    [] p \in {"merged"} -> "restarted"
    [] p \in {"edited"} -> "folded"
    [] OTHER -> "running"]

Serial == INSTANCE SerialTurns WITH stage <- [i \in Input |-> Stage[phase[i]]], told <- terminals

\* The orchestrator serves its inputs one at a time and tells each its end once.
OneAtATime == Serial!Spec

\* The bus's first event has a handler that can take it: a message's or a
\* continuation's is not handled twice.
BusMoves ==
  bus # <<>> /\ (Head(bus).type \in {"user", "voice"} => phase[Head(bus).who] = "sent")

\* The next step is i's own: it waits for no other input.
Due(i) ==
  \/ phase[i] = "heard" /\ voice # <<>> /\ Head(voice) = i
  \/ phase[i] = "merging" /\ voice # <<>> /\ Head(voice) = i /\ merging = None
  \/ phase[i] = "queued" /\ queue # <<>> /\ Head(queue) = i /\ turn = None
  \/ phase[i] \in {"staging", "grants"} /\ waiter[i] # "none"
  \/ phase[i] = "card" /\ turn = i /\ (stopping \/ waiter[i] # "none")
  \/ phase[i] = "new" /\ turn = i /\ (stopping \/ ~RestartDue)
  \/ phase[i] \in {"prepare", "model", "allowed", "declined", "tool", "finished", "cut"} /\ turn = i

\* Where an input that is under way is kept.
Kept(i) ==
  /\ phase[i] = "sent" => \E k \in DOMAIN bus : bus[k].type \in {"user", "voice"} /\ bus[k].who = i
  /\ phase[i] = "queued" => \E k \in DOMAIN queue : queue[k] = i
  /\ phase[i] \in {"heard", "merging"} => \E k \in DOMAIN voice : voice[k] = i

\* Whoever waits - for the lock, for a turn to end, for a card - waits for somebody
\* who can go on without the user: no step leaves an input out of every queue, and
\* no two wait for each other.
NobodyIsStranded ==
  \A i \in Input : phase[i] \notin Ended \cup {"unsent"} =>
    Kept(i) /\ (BusMoves \/ \E j \in Input : Due(j))

\* Every message and every continuation gets its end, though the user answers no card.
EveryInputEnds == \A i \in Input : phase[i] = "sent" ~> phase[i] \in Ended

\* Stop cancels the task, so work in flight does not go on (orchestrator.py:437):
\* no tool of the turn starts after the Stop was handled.
NoToolAfterStop ==
  [][\A i \in stopped : phase[i] # "tool" => phase'[i] # "tool"]_vars
=============================================================================
