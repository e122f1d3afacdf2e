---------------------------- MODULE TextDelivery ----------------------------
(* A text's way from the phone's notification to the house.                   *)
(*                                                                            *)
(* The notification listener posts each text on its own thread and puts it in *)
(* a queue file when the house does not answer (MessagesNotifyService.kt).    *)
(* A flush (InboundWorker.kt, also run every 15 minutes by BridgeWorker.kt)   *)
(* reads the file, posts what it read and writes back what failed.  Each      *)
(* thread has an InboundQueue of its own, and the lock of one is not the lock *)
(* of another.  The house is TextIngest; between the two a request or its     *)
(* answer may be lost or late, over the LAN or the relay.                     *)
EXTENDS TextIngest

CONSTANTS
  Listener,    \* the single thread of the listener's executor
  Flushes,     \* threads that run InboundWorker.flush
  MaxTries,    \* bound: posts of one text in one go (the LAN, the relay, once more)
  MaxRounds,   \* bound: runs of the flush
  MaxDeaths    \* bound: deaths of the phone's process

Thread == Flushes \cup {Listener}

ASSUME TextDeliveryAssumption ==
  /\ Listener \notin Flushes
  /\ MaxTries \in Nat \ {0} /\ MaxRounds \in Nat /\ MaxDeaths \in Nat

VARIABLES
  ignored,   \* the texts parse_ingest_payload() drops: empty, or from the owner
  recent,    \* ids the listener has taken on in the last ten minutes
  executor,  \* the texts its thread still has to post
  file,      \* inbound_queue.json
  pc,        \* what each thread is doing
  todo,      \* the texts a thread still has to post, the one in hand first
  kept,      \* the texts it writes back: those that failed, or the new queue
  try,       \* the post of the text in hand that is under way
  wire,      \* requests on their way to the house
  serving,   \* the request on the house's desk
  answers,   \* 2xx answers on their way back
  rounds,    \* runs of the flush so far
  deaths,    \* deaths of the phone's process so far
  queued,    \* history: texts whose enqueue has written the file
  acked      \* history: texts the phone has had a 2xx answer for

phoneVars == <<ignored, recent, executor, file, pc, todo, kept, try, wire, serving, answers,
               rounds, deaths, queued, acked>>
vars == <<houseVars, phoneVars>>

Request == [from : Thread, text : Texts, try : 1 .. MaxTries]

DeliveryTypes ==
  /\ ignored \subseteq Texts
  /\ recent \subseteq Ids
  /\ executor \in Seq(Texts)
  /\ file \in Seq(Texts)
  /\ pc \in [Thread -> {"idle", "send", "wait", "load", "clear", "write"}]
  /\ todo \in [Thread -> Seq(Texts)]
  /\ kept \in [Thread -> Seq(Texts)]
  /\ try \in [Thread -> 1 .. MaxTries]
  /\ wire \subseteq Request
  /\ serving \in Request \cup {None}
  /\ answers \subseteq Request
  /\ queued \subseteq Texts
  /\ acked \subseteq Texts

Init ==
  /\ IngestInit
  /\ ignored \in SUBSET Texts
  /\ recent = {} /\ executor = <<>> /\ file = <<>>
  /\ pc = [p \in Thread |-> "idle"]
  /\ todo = [p \in Thread |-> <<>>]
  /\ kept = [p \in Thread |-> <<>>]
  /\ try = [p \in Thread |-> 1]
  /\ wire = {} /\ serving = None /\ answers = {}
  /\ rounds = 0 /\ deaths = 0
  /\ queued = {} /\ acked = {}

Held(s) == {s[i] : i \in DOMAIN s}
InHand(p) == [from |-> p, text |-> Head(todo[p]), try |-> try[p]]
Goto(p, step) == pc' = [pc EXCEPT ![p] = step]

-----------------------------------------------------------------------------
(* The listener *)

\* onNotificationPosted(): a text whose id was taken on lately is dropped here.
Notify(t) ==
  /\ Arrive(t)
  /\ recent' = recent \cup {Id["phone"][t]}
  /\ executor' = IF Id["phone"][t] \in recent THEN executor ELSE Append(executor, t)
  /\ UNCHANGED <<ignored, file, pc, todo, kept, try, wire, serving, answers, rounds,
                 deaths, queued, acked>>

\* prune() forgets the ids of more than ten minutes ago.
TickAndPrune ==
  /\ Tick
  /\ recent' \in SUBSET recent
  /\ UNCHANGED <<ignored, executor, file, pc, todo, kept, try, wire, serving, answers, rounds,
                 deaths, queued, acked>>

TakeOn ==
  /\ pc[Listener] = "idle" /\ executor # <<>>
  /\ executor' = Tail(executor)
  /\ todo' = [todo EXCEPT ![Listener] = <<Head(executor)>>]
  /\ try' = [try EXCEPT ![Listener] = 1]
  /\ Goto(Listener, "send")
  /\ UNCHANGED <<houseVars, ignored, recent, file, kept, wire, serving, answers, rounds, deaths,
                 queued, acked>>

\* enqueue() reads the file; a text that is in it is left alone.
Load ==
  /\ pc[Listener] = "load"
  /\ LET t == Head(todo[Listener]) IN
       IF t \in Held(file)
       THEN /\ Goto(Listener, "idle")
            /\ todo' = [todo EXCEPT ![Listener] = <<>>]
            /\ UNCHANGED kept
       ELSE /\ Goto(Listener, "clear")
            /\ kept' = [kept EXCEPT ![Listener] = Append(file, t)]
            /\ UNCHANGED todo
  /\ UNCHANGED <<houseVars, ignored, recent, executor, file, try, wire, serving, answers, rounds,
                 deaths, queued, acked>>

-----------------------------------------------------------------------------
(* The flush *)

\* snapshot().  A run may begin at any time: after an enqueue, on a retry, every
\* 15 minutes, and beside a run that WorkManager has replaced but not stopped.
BeginFlush(f) ==
  /\ pc[f] = "idle" /\ rounds < MaxRounds
  /\ rounds' = rounds + 1
  /\ todo' = [todo EXCEPT ![f] = file]
  /\ kept' = [kept EXCEPT ![f] = <<>>]
  /\ try' = [try EXCEPT ![f] = 1]
  /\ Goto(f, IF file = <<>> THEN "clear" ELSE "send")
  /\ UNCHANGED <<houseVars, ignored, recent, executor, file, wire, serving, answers, deaths,
                 queued, acked>>

\* saveLocked(): writeText() truncates the file, then fills it.
Clear(p) ==
  /\ pc[p] = "clear"
  /\ file' = <<>>
  /\ Goto(p, "write")
  /\ UNCHANGED <<houseVars, ignored, recent, executor, todo, kept, try, wire, serving, answers,
                 rounds, deaths, queued, acked>>

Write(p) ==
  /\ pc[p] = "write"
  /\ file' = kept[p]
  /\ queued' = IF p = Listener THEN queued \cup Held(todo[p]) ELSE queued
  /\ todo' = [todo EXCEPT ![p] = <<>>]
  /\ kept' = [kept EXCEPT ![p] = <<>>]
  /\ Goto(p, "idle")
  /\ UNCHANGED <<houseVars, ignored, recent, executor, try, wire, serving, answers, rounds, deaths,
                 acked>>

-----------------------------------------------------------------------------
(* A post: postInbound(), with one more after HouseReach.recover() *)

Send(p) ==
  /\ pc[p] = "send"
  /\ InHand(p) \notin wire \cup {serving}   \* bound: no second copy of one attempt
  /\ wire' = wire \cup {InHand(p)}
  /\ Goto(p, "wait")
  /\ UNCHANGED <<houseVars, ignored, recent, executor, file, todo, kept, try, serving, answers,
                 rounds, deaths, queued, acked>>

\* The text in hand is done with: the listener rests or goes to the queue, a flush
\* goes on to its next text and, after the last one, to replaceAll().
DoneWith(p, missed) ==
  LET t == Head(todo[p]) rest == Tail(todo[p]) IN
  /\ try' = [try EXCEPT ![p] = 1]
  /\ IF p = Listener
     THEN /\ Goto(p, IF missed THEN "load" ELSE "idle")
          /\ todo' = [todo EXCEPT ![p] = IF missed THEN @ ELSE <<>>]
          /\ UNCHANGED kept
     ELSE /\ Goto(p, IF rest = <<>> THEN "clear" ELSE "send")
          /\ todo' = [todo EXCEPT ![p] = rest]
          /\ kept' = [kept EXCEPT ![p] = IF missed THEN Append(@, t) ELSE @]

\* Mutant of Answered: the status code is not looked at, so the 500 of a house that
\* is still busy with the text counts.
AnsweredAnyCode(p) ==
  /\ pc[p] = "wait" /\ InHand(p) \in answers \cup {serving}
  /\ answers' = answers \ {InHand(p)}
  /\ acked' = acked \cup {Head(todo[p])}
  /\ DoneWith(p, FALSE)
  /\ UNCHANGED <<houseVars, ignored, recent, executor, file, wire, serving, rounds, deaths, queued>>

Answered(p) ==
  /\ pc[p] = "wait" /\ InHand(p) \in answers
  /\ answers' = answers \ {InHand(p)}
  /\ acked' = acked \cup {Head(todo[p])}
  /\ DoneWith(p, FALSE)
  /\ UNCHANGED <<houseVars, ignored, recent, executor, file, wire, serving, rounds, deaths, queued>>

\* No answer, or not a 2xx: the request may still be on its way or on the desk.
TryAgain(p) ==
  /\ pc[p] = "wait" /\ try[p] < MaxTries
  /\ answers' = answers \ {InHand(p)}
  /\ try' = [try EXCEPT ![p] = @ + 1]
  /\ Goto(p, "send")
  /\ UNCHANGED <<houseVars, ignored, recent, executor, file, todo, kept, wire, serving, rounds,
                 deaths, queued, acked>>

GiveUp(p) ==
  /\ pc[p] = "wait"
  /\ answers' = answers \ {InHand(p)}
  /\ DoneWith(p, TRUE)
  /\ UNCHANGED <<houseVars, ignored, recent, executor, file, wire, serving, rounds, deaths, queued,
                 acked>>

Lose(r) ==
  /\ r \in wire
  /\ wire' = wire \ {r}
  /\ UNCHANGED <<houseVars, ignored, recent, executor, file, pc, todo, kept, try, serving, answers,
                 rounds, deaths, queued, acked>>

\* Android ends the process: threads and memory go, the file stays as it is.
PhoneDies ==
  /\ deaths < MaxDeaths
  /\ deaths' = deaths + 1
  /\ recent' = {} /\ executor' = <<>> /\ answers' = {}
  /\ pc' = [p \in Thread |-> "idle"]
  /\ todo' = [p \in Thread |-> <<>>]
  /\ kept' = [p \in Thread |-> <<>>]
  /\ try' = [p \in Thread |-> 1]
  /\ UNCHANGED <<houseVars, ignored, file, wire, serving, rounds, queued, acked>>

-----------------------------------------------------------------------------
(* The house, seen from the wire *)

\* A 2xx goes back if the phone still waits for it.
Awaited(r) == pc[r.from] = "wait" /\ todo[r.from] # <<>> /\ InHand(r.from) = r

Reply(r) == answers' = IF Awaited(r) THEN answers \cup {r} ELSE answers

phoneOnly == <<ignored, recent, executor, file, pc, todo, kept, try, rounds, deaths, queued, acked>>

\* do_POST: what the parser drops is answered 202 by the server's own thread; a new
\* text whose first save raises is answered 500, which the phone takes for no answer.
ServeRequest(r) ==
  /\ r \in wire
  /\ wire' = wire \ {r}
  /\ \/ up /\ r.text \in ignored /\ Reply(r) /\ UNCHANGED <<houseVars, serving>>
     \/ r.text \notin ignored /\ ServeKnown(r.text) /\ Reply(r) /\ UNCHANGED serving
     \/ r.text \notin ignored /\ ServeNew(r.text) /\ serving' = r /\ UNCHANGED answers
     \/ r.text \notin ignored /\ ServeNewFails(r.text) /\ UNCHANGED <<serving, answers>>
  /\ UNCHANGED phoneOnly

\* publish_inbound() has returned: the request on the desk gets its answer.
ClearDesk ==
  /\ MarkPrint \/ Announce
  /\ IF desk' = None /\ serving # None
     THEN Reply(serving) /\ serving' = None
     ELSE UNCHANGED <<serving, answers>>
  /\ UNCHANGED <<phoneOnly, wire>>

\* Or it has raised: 500.
BreakOff == MarkPrintFails /\ serving' = None /\ UNCHANGED <<phoneOnly, wire, answers>>

HouseCrash == Crash /\ serving' = None /\ UNCHANGED <<phoneOnly, wire, answers>>

PollInbox ==
  /\ \/ \E inbox \in SUBSET Texts : \/ Seed(inbox) \/ SeedFails(inbox)
                                  \/ Poll(inbox) \/ PollFails(inbox)
     \/ \E t \in Texts : TakeRow(t) \/ TakeRowFails(t)
  /\ UNCHANGED phoneVars

HouseStart == Start /\ UNCHANGED phoneVars

Next ==
  \/ \E t \in Texts : Notify(t)
  \/ TakeOn \/ Load
  \/ \E f \in Flushes : BeginFlush(f)
  \/ \E p \in Thread : Send(p) \/ Answered(p) \/ TryAgain(p) \/ GiveUp(p) \/ Clear(p) \/ Write(p)
  \/ \E r \in wire : Lose(r) \/ ServeRequest(r)
  \/ ClearDesk \/ BreakOff \/ PollInbox \/ HouseCrash \/ HouseStart
  \/ TickAndPrune \/ PhoneDies

Spec == Init /\ [][Next]_vars

-----------------------------------------------------------------------------
(* Properties *)

\* A text whose post was answered 2xx, which the phone then forgets, has been
\* announced; or the parser drops it, it was too old, a crash fell on it between the
\* first save and the bus, one of the house's saves for it failed, or the house had a
\* text it cannot tell from it.  (publish_inbound marks before it publishes; do_POST
\* answers 2xx to a duplicate as well.)
AckedIsHandled == \A t \in acked : t \in ignored \/ Told(t) \/ Excused(t)

\* "Failed POSTs stay in a queue on the phone and retry when the PC is back"
\* (docs/notify-inbound.md:140): a text that was put in the queue and never answered
\* is in the file, or a thread has it in hand to write it back.
QueuedStays ==
  \A t \in queued \ acked :
    \/ t \in Held(file)
    \/ \E p \in Thread : t \in Held(todo[p]) \cup Held(kept[p])
=============================================================================
