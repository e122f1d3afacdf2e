---------------------------- MODULE RelayMailbox ----------------------------
(* The mailbox between the phone and the house when they share no network     *)
(* (arelis/relay/server.py, arelis/relay/house.py, RelayTransport.kt).        *)
(*                                                                            *)
(* The house dials out: one loop polls the relay for calls and hands each to  *)
(* a pool of workers, which repeat it to the house's own door and post the    *)
(* answer back.  A phone's call waits at the relay for its answer.  A poll    *)
(* whose connection died leaves a handler behind at the relay, which takes    *)
(* the next call for a house that will never read it.  One instance, so one   *)
(* slot.                                                                      *)
EXTENDS Naturals, Sequences, FiniteSets, SequencesExt

CONSTANTS
  Calls,     \* the phones' calls, a retry being a call of its own
  Streams,   \* those that stream their answer line by line
  Foreign,   \* those a new pairing may overtake: sealed under a key the house drops
  Workers,   \* threads of the house's pool
  Lines,     \* lines in a streamed answer
  MaxFaults  \* bound: broken connections, stops, crashes and restarts

ASSUME RelayAssumption ==
  /\ Streams \subseteq Calls /\ Foreign \subseteq Calls
  /\ Workers \in Nat \ {0} /\ Lines \in Nat /\ MaxFaults \in Nat

VARIABLES
  phone,    \* what each caller knows; "empty" is an end without an answer
  calls,    \* slot.calls: the calls whose handler still waits at the relay
  pending,  \* slot.pending
  queue,    \* call.reply or call.chunks: what the house has posted
  got,      \* the lines the phone has read
  loop,     \* the house's poll loop: "off", "ready" or "polling"
  orphans,  \* handlers of polls nobody reads any more
  seen,     \* whether last_seen is less than 35 seconds ago
  job,      \* where each call is in the house
  made,     \* lines posted of the streamed answer
  halted,   \* calls whose tunnel was stopped while a worker had them
  ran,      \* history: how often the call reached the house's door
  lost,     \* history: calls the faults took something from
  faults

relayVars == <<calls, pending, queue, orphans, seen>>
houseVars == <<loop, job, made, halted>>
vars == <<phone, got, relayVars, houseVars, ran, lost, faults>>

\* What a worker posts: a line's number, End for the answer of a plain call and
\* the "end" envelope of a stream, Close for the empty blob.
End == Lines + 1
Close == 0

TypeOK ==
  /\ phone \in [Calls -> {"idle", "waiting", "away", "answered", "empty", "timeout", "dead"}]
  /\ calls \subseteq Calls
  /\ pending \in Seq(Calls)
  /\ queue \in [Calls -> Seq(0 .. Lines + 1)]
  /\ got \in [Calls -> Seq(1 .. Lines)]
  /\ loop \in {"off", "ready", "polling"}
  /\ orphans \in Nat
  /\ seen \in BOOLEAN
  /\ job \in [Calls -> {"none", "queued", "running", "speaking", "closing", "failing", "over"}]
  /\ made \in [Calls -> 0 .. Lines]
  /\ halted \subseteq Calls
  /\ ran \in [Calls -> Nat]
  /\ lost \subseteq Calls
  /\ faults \in 0 .. MaxFaults

Init ==
  /\ phone = [c \in Calls |-> "idle"]
  /\ calls = {} /\ pending = <<>>
  /\ queue = [c \in Calls |-> <<>>] /\ got = [c \in Calls |-> <<>>]
  /\ loop = "off" /\ orphans = 0 /\ seen = FALSE
  /\ job = [c \in Calls |-> "none"] /\ made = [c \in Calls |-> 0]
  /\ halted = {} /\ ran = [c \in Calls |-> 0] /\ lost = {} /\ faults = 0

Fault == faults < MaxFaults /\ faults' = faults + 1

-----------------------------------------------------------------------------
(* The phone and its handler at the relay.                                    *)

inflight == orphans + IF loop = "polling" THEN 1 ELSE 0

house_here == inflight > 0 \/ seen

Accept(c) ==
  /\ phone[c] = "idle" /\ house_here
  /\ phone' = [phone EXCEPT ![c] = "waiting"]
  /\ calls' = calls \cup {c}
  /\ pending' = Append(pending, c)
  /\ UNCHANGED <<queue, got, orphans, seen, houseVars, ran, lost, faults>>

\* Mutant of TurnAway: the call is queued before anybody looks for the house.
TurnAwayQueued(c) ==
  /\ phone[c] = "idle" /\ ~house_here
  /\ phone' = [phone EXCEPT ![c] = "away"]
  /\ pending' = Append(pending, c)
  /\ UNCHANGED <<calls, queue, orphans, seen, got, houseVars, ran, lost, faults>>

TurnAway(c) ==
  /\ phone[c] = "idle" /\ ~house_here
  /\ phone' = [phone EXCEPT ![c] = "away"]
  /\ UNCHANGED <<got, relayVars, houseVars, ran, lost, faults>>

\* The caller learns o, unless it has gone.
Tell(c, o) == phone' = IF phone[c] = "waiting" THEN [phone EXCEPT ![c] = o] ELSE phone

\* The answer of a plain call: call.reply.get() and the end of the handler.
FetchReply(c) ==
  /\ c \in calls \ Streams /\ queue[c] # <<>>
  /\ Tell(c, IF Head(queue[c]) = End THEN "answered" ELSE "empty")
  /\ calls' = calls \ {c}
  /\ queue' = [queue EXCEPT ![c] = Tail(@)]
  /\ UNCHANGED <<pending, got, orphans, seen, houseVars, ran, lost, faults>>

\* One turn of _pipe_stream.  A phone reads up to the end envelope; writing to
\* one that has left may raise, which ends the handler, or go unnoticed.
FetchChunk(c) ==
  LET item == Head(queue[c]) IN
  /\ c \in calls \cap Streams /\ queue[c] # <<>>
  /\ queue' = [queue EXCEPT ![c] = Tail(@)]
  /\ IF item = Close THEN Tell(c, "empty")
     ELSE IF item = End THEN Tell(c, "answered") ELSE UNCHANGED phone
  /\ got' = IF phone[c] = "waiting" /\ item \in 1 .. Lines
            THEN [got EXCEPT ![c] = Append(@, item)] ELSE got
  /\ \/ item = Close /\ calls' = calls \ {c}
     \/ item # Close /\ UNCHANGED calls
     \/ item # Close /\ phone[c] # "waiting" /\ calls' = calls \ {c}
  /\ UNCHANGED <<pending, orphans, seen, houseVars, ran, lost, faults>>

\* PHONE_WAIT_S without a reply, or STREAM_WAIT_S over.  The call stays pending.
TimeOut(c) ==
  /\ c \in calls
  /\ c \in Streams \/ queue[c] = <<>>
  /\ Tell(c, IF c \in Streams THEN "empty" ELSE "timeout")
  /\ calls' = calls \ {c}
  /\ UNCHANGED <<pending, queue, got, orphans, seen, houseVars, ran, lost, faults>>

\* The phone's connection breaks; its handler at the relay does not know.
HangUp(c) ==
  /\ phone[c] = "waiting"
  /\ Fault
  /\ phone' = [phone EXCEPT ![c] = "dead"]
  /\ UNCHANGED <<got, relayVars, houseVars, ran, lost>>

-----------------------------------------------------------------------------
(* The house's loop and its handlers at the relay.                            *)

Poll ==
  /\ loop = "ready"
  /\ loop' = "polling" /\ seen' = TRUE
  /\ UNCHANGED <<phone, calls, pending, queue, got, orphans, job, made, halted, ran, lost,
                 faults>>

\* HOUSE_WAIT_S without a call.
PollEmpty ==
  /\ loop = "polling" /\ pending = <<>>
  /\ loop' = "ready"
  /\ UNCHANGED <<phone, got, relayVars, job, made, halted, ran, lost, faults>>

PollBreaks ==
  /\ loop = "polling"
  /\ Fault
  /\ loop' = "ready" /\ orphans' = orphans + 1
  /\ UNCHANGED <<phone, calls, pending, queue, got, seen, job, made, halted, ran, lost>>

Take ==
  /\ loop = "polling" /\ pending # <<>>
  /\ pending' = Tail(pending)
  /\ loop' = "ready"
  /\ \/ /\ job' = [job EXCEPT ![Head(pending)] = "queued"]
        /\ UNCHANGED <<lost, faults>>
     \/ \* the 200 never arrives
        /\ Fault /\ lost' = lost \cup {Head(pending)} /\ UNCHANGED job
  /\ UNCHANGED <<phone, calls, queue, got, orphans, seen, made, halted, ran>>

OrphanTakes ==
  /\ orphans > 0 /\ pending # <<>>
  /\ pending' = Tail(pending)
  /\ orphans' = orphans - 1
  /\ lost' = lost \cup {Head(pending)}
  /\ UNCHANGED <<phone, calls, queue, got, seen, houseVars, ran, faults>>

OrphanEnds ==
  /\ orphans > 0 /\ pending = <<>>
  /\ orphans' = orphans - 1
  /\ UNCHANGED <<phone, calls, pending, queue, got, seen, houseVars, ran, lost, faults>>

\* 35 seconds since the last poll arrived; no poll lasts that long.
Age ==
  /\ seen /\ inflight = 0
  /\ seen' = FALSE
  /\ UNCHANGED <<phone, calls, pending, queue, got, orphans, houseVars, ran, lost, faults>>

-----------------------------------------------------------------------------
(* A worker of the house's pool.                                              *)

Busy == {c \in Calls : job[c] \in {"running", "speaking", "closing", "failing"}}

\* Mutant of Begin: a call that cannot be opened is dropped without a word.
BeginSilently(c) ==
  /\ job[c] = "queued" /\ Cardinality(Busy) < Workers
  /\ \/ job' = [job EXCEPT ![c] = "running"]
     \/ c \in Foreign /\ job' = [job EXCEPT ![c] = "over"]
  /\ UNCHANGED <<phone, got, relayVars, loop, made, halted, ran, lost, faults>>

\* _handle opens the box; a call sealed under another key is failed.
Begin(c) ==
  /\ job[c] = "queued" /\ Cardinality(Busy) < Workers
  /\ \/ job' = [job EXCEPT ![c] = "running"]
     \/ c \in Foreign /\ job' = [job EXCEPT ![c] = "failing"]
  /\ UNCHANGED <<phone, got, relayVars, loop, made, halted, ran, lost, faults>>

\* The request to the house's door, which may fail before it arrived or after.
Repeat(c) ==
  /\ job[c] = "running"
  /\ \/ /\ ran' = [ran EXCEPT ![c] = @ + 1]
        /\ \E j \in {"speaking", "failing"} : job' = [job EXCEPT ![c] = j]
     \/ job' = [job EXCEPT ![c] = "failing"] /\ UNCHANGED ran
  /\ UNCHANGED <<phone, got, relayVars, loop, made, halted, lost, faults>>

\* A post of item: it arrives and the worker goes on to j; or the worker sees
\* an error, whether it arrived or not.  The relay ignores a call it has dropped,
\* and the worker does not look at the relay's answer.
Arrives(c, item) ==
  queue' = IF c \in calls THEN [queue EXCEPT ![c] = Append(@, item)] ELSE queue

Post(c, item, j) ==
  \/ Arrives(c, item) /\ job' = [job EXCEPT ![c] = j] /\ UNCHANGED faults
  \/ /\ Arrives(c, item) \/ UNCHANGED queue
     /\ Fault
     /\ job' = [job EXCEPT ![c] = "failing"]

\* Mutant of PostLine: the error of a line's post is swallowed, and the worker goes on.
PostLineRegardless(c) ==
  /\ job[c] = "speaking" /\ c \in Streams \ halted /\ made[c] < Lines
  /\ made' = [made EXCEPT ![c] = @ + 1]
  /\ \/ Arrives(c, made[c] + 1) /\ UNCHANGED faults
     \/ UNCHANGED queue /\ Fault
  /\ UNCHANGED <<phone, calls, pending, got, orphans, seen, loop, job, halted, ran, lost>>

PostLine(c) ==
  /\ job[c] = "speaking" /\ c \in Streams \ halted /\ made[c] < Lines
  /\ made' = [made EXCEPT ![c] = @ + 1]
  /\ Post(c, made[c] + 1, "speaking")
  /\ UNCHANGED <<phone, calls, pending, got, orphans, seen, loop, halted, ran, lost>>

\* The answer of a plain call, or the "end" of a stream, which a stopped tunnel
\* posts for a stream it breaks off too.
PostEnd(c) ==
  /\ job[c] = "speaking"
  /\ c \in Streams => made[c] = Lines \/ c \in halted
  /\ Post(c, End, IF c \in Streams THEN "closing" ELSE "over")
  /\ UNCHANGED <<phone, calls, pending, got, orphans, seen, loop, made, halted, ran, lost>>

PostClose(c) ==
  /\ job[c] = "closing"
  /\ Post(c, Close, "over")
  /\ UNCHANGED <<phone, calls, pending, got, orphans, seen, loop, made, halted, ran, lost>>

\* The stream from the house's door breaks.
DoorBreaks(c) ==
  /\ job[c] = "speaking" /\ c \in Streams
  /\ Fault
  /\ job' = [job EXCEPT ![c] = "failing"]
  /\ UNCHANGED <<phone, got, relayVars, loop, made, halted, ran, lost>>

\* _fail posts the empty blob once, and does not mind an error.
PostFail(c) ==
  /\ job[c] = "failing"
  /\ job' = [job EXCEPT ![c] = "over"]
  /\ \/ Arrives(c, Close) /\ UNCHANGED <<lost, faults>>
     \/ Fault /\ lost' = lost \cup {c} /\ UNCHANGED queue
  /\ UNCHANGED <<phone, calls, pending, got, orphans, seen, loop, made, halted, ran>>

\* The loop of a stopped tunnel closes the clients its workers still use.
ClientGone(c) ==
  /\ c \in halted /\ c \in Busy
  /\ job' = [job EXCEPT ![c] = "over"]
  /\ lost' = lost \cup {c}
  /\ UNCHANGED <<phone, got, relayVars, loop, made, halted, ran, faults>>

-----------------------------------------------------------------------------
(* Starting, stopping, crashing.                                              *)

Start ==
  /\ loop = "off"
  /\ loop' = "ready"
  /\ UNCHANGED <<phone, got, relayVars, job, made, halted, ran, lost, faults>>

\* stop() lets its poll run on and cancels what no worker has begun; so does a
\* tunnel that is replaced.
Stop ==
  LET queued == {c \in Calls : job[c] = "queued"} IN
  /\ loop # "off"
  /\ Fault
  /\ loop' = "off" /\ orphans' = inflight
  /\ job' = [c \in Calls |-> IF c \in queued THEN "over" ELSE job[c]]
  /\ halted' = halted \cup Busy
  /\ lost' = lost \cup queued
  /\ UNCHANGED <<phone, calls, pending, queue, got, seen, made, ran>>

HouseCrash ==
  LET held == Busy \cup {c \in Calls : job[c] = "queued"} IN
  /\ loop # "off"
  /\ Fault
  /\ loop' = "off" /\ orphans' = inflight
  /\ job' = [c \in Calls |-> IF c \in held THEN "over" ELSE job[c]]
  /\ lost' = lost \cup held
  /\ UNCHANGED <<phone, calls, pending, queue, got, seen, made, halted, ran>>

\* Everything the relay knows is in its memory.
RelayRestart ==
  /\ Fault
  /\ calls' = {} /\ pending' = <<>> /\ queue' = [c \in Calls |-> <<>>]
  /\ orphans' = 0 /\ seen' = FALSE
  /\ loop' = IF loop = "polling" THEN "ready" ELSE loop
  /\ phone' = [c \in Calls |-> IF phone[c] = "waiting" THEN "dead" ELSE phone[c]]
  /\ UNCHANGED <<got, job, made, halted, ran, lost>>

PhoneStep(c) ==
  Accept(c) \/ TurnAway(c) \/ FetchReply(c) \/ FetchChunk(c) \/ TimeOut(c) \/ HangUp(c)

LoopStep == Poll \/ PollEmpty \/ PollBreaks \/ Take \/ OrphanTakes \/ OrphanEnds \/ Age

WorkerStep(c) ==
  \/ Begin(c) \/ Repeat(c) \/ PostLine(c) \/ PostEnd(c) \/ PostClose(c) \/ DoorBreaks(c)
  \/ PostFail(c) \/ ClientGone(c)

Next ==
  \/ \E c \in Calls : PhoneStep(c) \/ WorkerStep(c)
  \/ LoopStep \/ Start \/ Stop \/ HouseCrash \/ RelayRestart

Spec == Init /\ [][Next]_vars

-----------------------------------------------------------------------------
(* Properties.                                                                *)

\* However polls die, tunnels are replaced, posts fail and phones give up: the
\* house acts once at most on a call; never on one it was said to be away for,
\* where the phone uses its own model instead; and always did on one that is
\* answered (server.py:4, house.py:102-188).
outcome ==
  [c \in Calls |-> CASE phone[c] \in {"idle", "waiting"} -> "open"
                     [] phone[c] \in {"away", "answered"} -> phone[c]
                     [] OTHER -> "unsure"]

R == INSTANCE RemoteCall

OncePerCall == R!Spec

\* No error path of the house forgets a caller: a call whose handler waits is in
\* the queue, at work in the house or answered, unless a broken connection, a
\* stop or a crash took it (house.py:102-188, server.py:127-155).
NobodyForgotten ==
  \A c \in calls : \/ c \in ToSet(pending)
                   \/ job[c] \notin {"none", "over"}
                   \/ queue[c] # <<>>
                   \/ c \in lost

\* The lines of a stream reach the phone in order and without a gap, and the end
\* envelope is read only after all of them, unless the tunnel was stopped
\* (house.py:121-150, server.py:238-257).
StreamIsWhole ==
  \A c \in Streams :
    /\ \A i \in DOMAIN got[c] : got[c][i] = i
    /\ phone[c] = "answered" => Len(got[c]) = Lines \/ c \in halted
=============================================================================
