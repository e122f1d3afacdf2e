---------------------------- MODULE RelayProofs ----------------------------
(* Proofs about RelayMailbox, for any calls, workers, lines and faults.       *)
EXTENDS RelayMailbox, TLAPS

\* A queue stays one when it is extended or consumed.
LEMMA QueueOps ==
  ASSUME NEW S, NEW s \in Seq(S)
  PROVE /\ <<>> \in Seq(S)
        /\ \A e \in S : Append(s, e) \in Seq(S)
        /\ s # <<>> => Tail(s) \in Seq(S) /\ Head(s) \in S
OBVIOUS

Job == {"none", "queued", "running", "speaking", "closing", "failing", "over"}

\* What a post may change.
PostTypes ==
  /\ queue \in [Calls -> Seq(0 .. Lines + 1)]
  /\ job \in [Calls -> Job]
  /\ faults \in 0 .. MaxFaults

\* A step counts one fault at most.
LEMMA FaultCount ==
  ASSUME RelayAssumption, faults \in 0 .. MaxFaults, Fault \/ UNCHANGED faults
  PROVE faults' \in 0 .. MaxFaults
BY DEF RelayAssumption, Fault

\* Every step leaves every variable in its type.
LEMMA TypeStep == ASSUME RelayAssumption, TypeOK, [Next]_vars PROVE TypeOK'
<1> USE DEF TypeOK, RelayAssumption, relayVars, houseVars, Fault, Tell, Busy, inflight
<1>q. \A c \in Calls : queue[c] # <<>> => [queue EXCEPT ![c] = Tail(@)] \in [Calls -> Seq(0 .. Lines + 1)]
  BY QueueOps
<1>a. ASSUME NEW c \in Calls, NEW item \in 0 .. Lines + 1, Arrives(c, item)
      PROVE queue' \in [Calls -> Seq(0 .. Lines + 1)]
  BY <1>a, QueueOps DEF Arrives
<1>j. /\ job \in [Calls -> Job] /\ "queued" \in Job /\ "failing" \in Job /\ "speaking" \in Job
      /\ \A c \in Calls, j \in Job : [job EXCEPT ![c] = j] \in [Calls -> Job]
  BY DEF Job
<1>p. ASSUME NEW c \in Calls, NEW item \in 0 .. Lines + 1, NEW j \in Job, Post(c, item, j)
      PROVE PostTypes'
  <2>1. queue' \in [Calls -> Seq(0 .. Lines + 1)]
    BY <1>p, <1>a DEF Post
  <2>2. job' \in [Calls -> Job]
    BY <1>p, <1>j DEF Post
  <2>3. faults' \in 0 .. MaxFaults
    BY <1>p DEF Post
  <2> QED BY <2>1, <2>2, <2>3 DEF PostTypes
<1>1. ASSUME NEW c \in Calls, PhoneStep(c) PROVE TypeOK'
  <2>1. CASE Accept(c)  BY <2>1 DEF Accept
  <2>2. CASE TurnAway(c)  BY <2>2 DEF TurnAway
  <2>3. CASE FetchReply(c)
    <3>1. queue' \in [Calls -> Seq(0 .. Lines + 1)]
      BY <2>3, <1>q DEF FetchReply
    <3> QED BY <2>3, <3>1 DEF FetchReply
  <2>4. CASE FetchChunk(c)
    <3>1. queue' \in [Calls -> Seq(0 .. Lines + 1)]
      BY <2>4, <1>q DEF FetchChunk
    <3>2. got' \in [Calls -> Seq(1 .. Lines)]
      BY <2>4, QueueOps DEF FetchChunk
    <3>3. phone' \in [Calls -> {"idle", "waiting", "away", "answered", "empty", "timeout", "dead"}]
      BY <2>4 DEF FetchChunk
    <3> QED BY <2>4, <3>1, <3>2, <3>3 DEF FetchChunk
  <2>5. CASE TimeOut(c)  BY <2>5 DEF TimeOut
  <2>6. CASE HangUp(c)  BY <2>6 DEF HangUp
  <2> QED BY <1>1, <2>1, <2>2, <2>3, <2>4, <2>5, <2>6 DEF PhoneStep
<1>2. ASSUME NEW c \in Calls, WorkerStep(c) PROVE TypeOK'
  <2>1. CASE Begin(c)
    <3>1. job' \in [Calls -> Job]
      BY <2>1 DEF Begin, Job
    <3> QED BY <2>1, <3>1 DEF Begin, Job
  <2>2. CASE Repeat(c)
    <3>1. \E j \in {"speaking", "failing"} : job' = [job EXCEPT ![c] = j]
      BY <2>2 DEF Repeat
    <3>2. job' \in [Calls -> Job]
      BY <3>1, <1>j
    <3>3. ran' = [ran EXCEPT ![c] = @ + 1] \/ ran' = ran
      BY <2>2 DEF Repeat
    <3>4. ran' \in [Calls -> Nat]
      <4>1. ran \in [Calls -> Nat] /\ [ran EXCEPT ![c] = @ + 1] \in [Calls -> Nat]
        OBVIOUS
      <4> QED BY <3>3, <4>1
    <3> QED BY <2>2, <3>2, <3>4 DEF Repeat, Job
  <2>3. CASE PostLine(c)
    <3>1. made[c] + 1 \in 0 .. Lines /\ made' \in [Calls -> 0 .. Lines]
      BY <2>3 DEF PostLine
    <3>2. Post(c, made[c] + 1, "speaking")
      BY <2>3 DEF PostLine
    <3>3. PostTypes'
      BY <3>1, <3>2, <1>p DEF Job
    <3> QED BY <2>3, <3>1, <3>3 DEF PostLine, PostTypes, Job
  <2>4. CASE PostEnd(c)
    <3>1. PostTypes'
      BY <2>4, <1>p DEF PostEnd, End, Job
    <3> QED BY <2>4, <3>1 DEF PostEnd, PostTypes, Job
  <2>5. CASE PostClose(c)
    <3>1. PostTypes'
      BY <2>5, <1>p DEF PostClose, Close, Job
    <3> QED BY <2>5, <3>1 DEF PostClose, PostTypes, Job
  <2>6. CASE DoorBreaks(c)  BY <2>6 DEF DoorBreaks
  <2>7. CASE PostFail(c)
    <3>1. queue' \in [Calls -> Seq(0 .. Lines + 1)]
      BY <2>7, <1>a DEF PostFail, Close
    <3>2. job' \in [Calls -> Job] /\ lost' \subseteq Calls /\ faults' \in 0 .. MaxFaults
      BY <2>7 DEF PostFail, Job
    <3> QED BY <2>7, <3>1, <3>2 DEF PostFail, Job
  <2>8. CASE ClientGone(c)  BY <2>8 DEF ClientGone
  <2> QED BY <1>2, <2>1, <2>2, <2>3, <2>4, <2>5, <2>6, <2>7, <2>8 DEF WorkerStep
<1>3. CASE Poll  BY <1>3 DEF Poll
<1>4. CASE PollEmpty  BY <1>4 DEF PollEmpty
<1>5. CASE PollBreaks  BY <1>5 DEF PollBreaks
<1>6. CASE Take
  <2>1. pending' \in Seq(Calls) /\ Head(pending) \in Calls
    BY <1>6, QueueOps DEF Take
  <2>2. job' \in [Calls -> Job]
    BY <1>6, <1>j, <2>1 DEF Take
  <2>3. lost' \subseteq Calls
    BY <1>6, <2>1 DEF Take
  <2>4. faults' \in 0 .. MaxFaults
    <3>1. faults \in 0 .. MaxFaults /\ MaxFaults \in Nat
      OBVIOUS
    <3>2. Fault \/ UNCHANGED faults
      BY <1>6 DEF Take
    <3> QED BY <3>1, <3>2, FaultCount
  <2> QED BY <1>6, <2>1, <2>2, <2>3, <2>4 DEF Take, Job
<1>7. CASE OrphanTakes  BY <1>7, SMTT(20) DEF OrphanTakes
<1>8. CASE OrphanEnds  BY <1>8 DEF OrphanEnds
<1>9. CASE Age  BY <1>9 DEF Age
<1>10. CASE Start  BY <1>10 DEF Start
<1>11. CASE Stop  BY <1>11 DEF Stop
<1>12. CASE HouseCrash  BY <1>12 DEF HouseCrash
<1>13. CASE RelayRestart
  <2>1. queue' \in [Calls -> Seq(0 .. Lines + 1)] /\ pending' \in Seq(Calls)
    BY <1>13, QueueOps DEF RelayRestart
  <2>2. phone' \in [Calls -> {"idle", "waiting", "away", "answered", "empty", "timeout", "dead"}]
    BY <1>13 DEF RelayRestart
  <2>3. loop' \in {"off", "ready", "polling"} /\ orphans' \in Nat /\ seen' \in BOOLEAN /\ calls' \subseteq Calls
    BY <1>13 DEF RelayRestart
  <2> QED BY <1>13, <2>1, <2>2, <2>3 DEF RelayRestart
<1>14. CASE UNCHANGED vars  BY <1>14 DEF vars, relayVars, houseVars
<1> QED BY <1>1, <1>2, <1>3, <1>4, <1>5, <1>6, <1>7, <1>8, <1>9, <1>10, <1>11, <1>12, <1>13,
    <1>14 DEF Next, LoopStep

-----------------------------------------------------------------------------
(* Once per call.                                                             *)

\* Where the elements of an extended or consumed sequence are.
LEMMA AppendAt ==
  ASSUME NEW S, NEW s \in Seq(S), NEW e
  PROVE /\ DOMAIN Append(s, e) = 1 .. Len(s) + 1 /\ DOMAIN s = 1 .. Len(s) /\ Len(s) \in Nat
        /\ \A i \in DOMAIN s : Append(s, e)[i] = s[i]
        /\ Append(s, e)[Len(s) + 1] = e
OBVIOUS

LEMMA TailAt ==
  ASSUME NEW S, NEW s \in Seq(S), s # <<>>
  PROVE /\ Head(s) = s[1] /\ 1 \in DOMAIN s /\ Head(s) \in S
        /\ \A i \in DOMAIN Tail(s) : i \in Nat \ {0} /\ i + 1 \in DOMAIN s /\ Tail(s)[i] = s[i + 1]
OBVIOUS

\* A worker's step touches the job of its own call, and no call is new to it.
LEMMA WorkerJob ==
  ASSUME TypeOK, NEW c \in Calls, WorkerStep(c)
  PROVE /\ job[c] # "none" /\ job'[c] # "none"
        /\ \A d \in Calls : d # c => job'[d] = job[d] /\ queue'[d] = queue[d] /\ made'[d] = made[d]
        /\ UNCHANGED <<phone, calls, pending, got, halted>> /\ lost \subseteq lost'
<1> USE DEF TypeOK, relayVars, Busy, Post, Arrives
<1>1. CASE Begin(c)  BY <1>1 DEF Begin
<1>2. CASE Repeat(c)  BY <1>2 DEF Repeat
<1>3. CASE PostLine(c)  BY <1>3 DEF PostLine
<1>4. CASE PostEnd(c)  BY <1>4 DEF PostEnd
<1>5. CASE PostClose(c)  BY <1>5 DEF PostClose
<1>6. CASE DoorBreaks(c)  BY <1>6 DEF DoorBreaks
<1>7. CASE PostFail(c)  BY <1>7 DEF PostFail
<1>8. CASE ClientGone(c)  BY <1>8 DEF ClientGone
<1> QED BY <1>1, <1>2, <1>3, <1>4, <1>5, <1>6, <1>7, <1>8 DEF WorkerStep

\* What a post leaves in the queues.
LEMMA ArriveQueue ==
  ASSUME TypeOK, NEW c \in Calls, NEW item, Arrives(c, item) \/ UNCHANGED queue
  PROVE \A d \in Calls : \A i \in DOMAIN queue'[d] :
          (i \in DOMAIN queue[d] /\ queue'[d][i] = queue[d][i]) \/ (d = c /\ i = Len(queue[d]) + 1 /\ queue'[d][i] = item)
<1> SUFFICES ASSUME NEW d \in Calls, NEW i \in DOMAIN queue'[d]
             PROVE (i \in DOMAIN queue[d] /\ queue'[d][i] = queue[d][i]) \/ (d = c /\ i = Len(queue[d]) + 1 /\ queue'[d][i] = item)
  OBVIOUS
<1>1. queue[d] \in Seq(0 .. Lines + 1)
  BY DEF TypeOK
<1>2. CASE queue'[d] = queue[d]
  BY <1>2
<1>3. CASE queue'[d] # queue[d]
  <2>1. d = c /\ queue'[d] = Append(queue[d], item)
    BY <1>3 DEF TypeOK, Arrives
  <2>2. i \in DOMAIN queue[d] \/ i = Len(queue[d]) + 1
    BY <1>1, <2>1, AppendAt
  <2> QED BY <1>1, <2>1, <2>2, AppendAt
<1> QED BY <1>2, <1>3

LEMMA PostQueue ==
  ASSUME TypeOK, NEW c \in Calls, NEW item, NEW j, Post(c, item, j)
  PROVE \A d \in Calls : \A i \in DOMAIN queue'[d] :
          (i \in DOMAIN queue[d] /\ queue'[d][i] = queue[d][i]) \/ (d = c /\ i = Len(queue[d]) + 1 /\ queue'[d][i] = item)
<1>1. Arrives(c, item) \/ UNCHANGED queue
  BY DEF Post
<1> QED BY <1>1, ArriveQueue

\* A pending call is there once, and no worker has it.
PendingIsFresh ==
  /\ \A i, j \in DOMAIN pending : pending[i] = pending[j] => i = j
  /\ \A i \in DOMAIN pending :
       job[pending[i]] = "none" /\ phone[pending[i]] \notin {"idle", "away"}

\* A call that was not made, or turned away, is nowhere.
UnmadeIsNowhere ==
  \A c \in Calls : phone[c] \in {"idle", "away"} => job[c] = "none" /\ c \notin calls

\* A worker goes to the door once, and there is an end to read only after that.
RunsOnce ==
  \A c \in Calls :
    /\ ran[c] \in {0, 1}
    /\ job[c] \in {"none", "queued", "running"} => ran[c] = 0
    /\ job[c] \in {"speaking", "closing"} => ran[c] = 1
    /\ \A i \in DOMAIN queue[c] : queue[c][i] = End => ran[c] = 1
    /\ phone[c] = "answered" => ran[c] = 1

OnceInv == TypeOK /\ PendingIsFresh /\ UnmadeIsNowhere /\ RunsOnce

LEMMA FreshStep == ASSUME OnceInv, [Next]_vars PROVE PendingIsFresh' /\ UnmadeIsNowhere'
<1> USE DEF OnceInv, TypeOK, PendingIsFresh, UnmadeIsNowhere, relayVars, houseVars, Fault,
    Tell, Busy, inflight, Arrives, Post
<1>1. ASSUME NEW c \in Calls, PhoneStep(c) PROVE PendingIsFresh' /\ UnmadeIsNowhere'
  <2>1. CASE Accept(c)
    <3>1. \A i \in DOMAIN pending' : \/ i \in DOMAIN pending /\ pending'[i] = pending[i]
                                     \/ i = Len(pending) + 1 /\ pending'[i] = c
      <4>1. pending' = Append(pending, c)
        BY <2>1 DEF Accept
      <4>2. \A i \in DOMAIN pending' : i \in DOMAIN pending \/ i = Len(pending) + 1
        BY <4>1, AppendAt
      <4>3. (\A i \in DOMAIN pending : pending'[i] = pending[i]) /\ pending'[Len(pending) + 1] = c
        <5>1. pending \in Seq(Calls)
          OBVIOUS
        <5> HIDE DEF OnceInv, TypeOK, PendingIsFresh, UnmadeIsNowhere
        <5> QED BY <4>1, <5>1, AppendAt
      <4> QED BY <4>2, <4>3
    <3>2. \A i \in DOMAIN pending : pending[i] # c
      BY <2>1 DEF Accept
    <3>3. \A i \in DOMAIN pending : pending[i] \in Calls
      OBVIOUS
    <3>4. \A d \in Calls : d # c => phone'[d] = phone[d] /\ job'[d] = job[d]
      BY <2>1 DEF Accept
    <3>5. phone'[c] = "waiting" /\ job'[c] = "none"
      BY <2>1 DEF Accept
    <3>6. PendingIsFresh'
      <4> HIDE DEF TypeOK
      <4>1. \A i, j \in DOMAIN pending' : pending'[i] = pending'[j] => i = j
        BY <3>1, <3>2
      <4>2. \A i \in DOMAIN pending' : job'[pending'[i]] = "none" /\ phone'[pending'[i]] \notin {"idle", "away"}
        BY <3>1, <3>2, <3>3, <3>4, <3>5
      <4> QED BY <4>1, <4>2
    <3> QED BY <2>1, <3>6 DEF Accept
  <2>2. CASE TurnAway(c)  BY <2>2, SMTT(20) DEF TurnAway
  <2>3. CASE FetchReply(c)  BY <2>3 DEF FetchReply
  <2>4. CASE FetchChunk(c)
    <3>1. UNCHANGED <<pending, job>> /\ calls' \subseteq calls
      BY <2>4 DEF FetchChunk
    <3>2. \A d \in Calls : phone'[d] \in {"idle", "away"} <=> phone[d] \in {"idle", "away"}
      BY <2>4 DEF FetchChunk
    <3>3. \A i \in DOMAIN pending : pending[i] \in Calls
      OBVIOUS
    <3> HIDE DEF TypeOK
    <3> QED BY <3>1, <3>2, <3>3
  <2>5. CASE TimeOut(c)  BY <2>5 DEF TimeOut
  <2>6. CASE HangUp(c)  BY <2>6 DEF HangUp
  <2> QED BY <1>1, <2>1, <2>2, <2>3, <2>4, <2>5, <2>6 DEF PhoneStep
<1>2. ASSUME NEW c \in Calls, WorkerStep(c) PROVE PendingIsFresh' /\ UnmadeIsNowhere'
  <2>1. \A i \in DOMAIN pending : pending[i] \in Calls
    OBVIOUS
  <2>2. /\ job[c] # "none" /\ job'[c] # "none"
        /\ \A d \in Calls : d # c => job'[d] = job[d]
        /\ UNCHANGED <<phone, calls, pending>>
    BY <1>2, WorkerJob
  <2> HIDE DEF TypeOK
  <2> QED BY <2>1, <2>2
<1>3. CASE Poll  BY <1>3 DEF Poll
<1>4. CASE PollEmpty  BY <1>4 DEF PollEmpty
<1>5. CASE PollBreaks  BY <1>5 DEF PollBreaks
<1>6. CASE Take
  <2>1. pending # <<>> /\ pending' = Tail(pending)
    BY <1>6 DEF Take
  <2>2. \A i \in DOMAIN pending' : i \in Nat \ {0} /\ i + 1 \in DOMAIN pending /\ pending'[i] = pending[i + 1]
    BY <2>1, TailAt
  <2>3. Head(pending) = pending[1] /\ 1 \in DOMAIN pending /\ Head(pending) \in Calls
    BY <2>1, TailAt
  <2>4. \A d \in Calls : d # Head(pending) => job'[d] = job[d]
    BY <1>6 DEF Take
  <2>5. UNCHANGED <<phone, calls>>
    BY <1>6 DEF Take
  <2>6. \A i, j \in DOMAIN pending' : pending'[i] = pending'[j] => i = j
    <3> HIDE DEF TypeOK
    <3>1. SUFFICES ASSUME NEW i \in DOMAIN pending', NEW j \in DOMAIN pending', pending'[i] = pending'[j]
                   PROVE i = j
      OBVIOUS
    <3>2. i + 1 = j + 1
      BY <2>2, <3>1
    <3> QED BY <2>2, <3>2
  <2>7. \A i \in DOMAIN pending' : pending[i + 1] # Head(pending) /\ pending[i + 1] \in Calls
    BY <2>2, <2>3
  <2>8. \A i \in DOMAIN pending' : job'[pending'[i]] = "none" /\ phone'[pending'[i]] \notin {"idle", "away"}
    <3>1. SUFFICES ASSUME NEW i \in DOMAIN pending'
                   PROVE job'[pending'[i]] = "none" /\ phone'[pending'[i]] \notin {"idle", "away"}
      OBVIOUS
    <3>2. job[pending[i + 1]] = "none" /\ phone[pending[i + 1]] \notin {"idle", "away"}
      BY <2>2
    <3> QED BY <2>2, <2>4, <2>5, <2>7, <3>2
  <2>9. phone[Head(pending)] \notin {"idle", "away"}
    BY <2>3
  <2> QED BY <2>4, <2>5, <2>6, <2>8, <2>9
<1>7. CASE OrphanTakes
  <2>1. pending # <<>> /\ pending' = Tail(pending)
    BY <1>7 DEF OrphanTakes
  <2>2. \A i \in DOMAIN pending' : i \in Nat \ {0} /\ i + 1 \in DOMAIN pending /\ pending'[i] = pending[i + 1]
    BY <2>1, TailAt
  <2>3. Head(pending) = pending[1] /\ 1 \in DOMAIN pending /\ Head(pending) \in Calls
    BY <2>1, TailAt
  <2>4. \A d \in Calls : d # Head(pending) => job'[d] = job[d]
    BY <1>7 DEF OrphanTakes
  <2>5. UNCHANGED <<phone, calls>>
    BY <1>7 DEF OrphanTakes
  <2>6. \A i, j \in DOMAIN pending' : pending'[i] = pending'[j] => i = j
    <3> HIDE DEF TypeOK
    <3>1. SUFFICES ASSUME NEW i \in DOMAIN pending', NEW j \in DOMAIN pending', pending'[i] = pending'[j]
                   PROVE i = j
      OBVIOUS
    <3>2. i + 1 = j + 1
      BY <2>2, <3>1
    <3> QED BY <2>2, <3>2
  <2>7. \A i \in DOMAIN pending' : pending[i + 1] # Head(pending) /\ pending[i + 1] \in Calls
    BY <2>2, <2>3
  <2>8. \A i \in DOMAIN pending' : job'[pending'[i]] = "none" /\ phone'[pending'[i]] \notin {"idle", "away"}
    <3>1. SUFFICES ASSUME NEW i \in DOMAIN pending'
                   PROVE job'[pending'[i]] = "none" /\ phone'[pending'[i]] \notin {"idle", "away"}
      OBVIOUS
    <3>2. job[pending[i + 1]] = "none" /\ phone[pending[i + 1]] \notin {"idle", "away"}
      BY <2>2
    <3> QED BY <2>2, <2>4, <2>5, <2>7, <3>2
  <2>9. phone[Head(pending)] \notin {"idle", "away"}
    BY <2>3
  <2> QED BY <2>4, <2>5, <2>6, <2>8, <2>9
<1>8. CASE OrphanEnds  BY <1>8 DEF OrphanEnds
<1>9. CASE Age  BY <1>9 DEF Age
<1>10. CASE Start  BY <1>10 DEF Start
<1>11. CASE Stop  BY <1>11, SMTT(20) DEF Stop
<1>12. CASE HouseCrash  BY <1>12 DEF HouseCrash
<1>13. CASE RelayRestart  BY <1>13 DEF RelayRestart
<1>14. CASE UNCHANGED vars  BY <1>14 DEF vars, relayVars, houseVars
<1> QED BY <1>1, <1>2, <1>3, <1>4, <1>5, <1>6, <1>7, <1>8, <1>9, <1>10, <1>11, <1>12, <1>13,
    <1>14 DEF Next, LoopStep

LEMMA RunsStep == ASSUME RelayAssumption, OnceInv, [Next]_vars PROVE RunsOnce'
<1> USE DEF OnceInv, TypeOK, RelayAssumption, PendingIsFresh, RunsOnce, UnmadeIsNowhere, End,
    Close, relayVars, houseVars, Fault, Tell, Busy, inflight
<1>1. ASSUME NEW c \in Calls, PhoneStep(c) PROVE RunsOnce'
  <2>1. CASE Accept(c)  BY <2>1 DEF Accept
  <2>2. CASE TurnAway(c)  BY <2>2 DEF TurnAway
  <2>3. CASE FetchReply(c)  BY <2>3, SMTT(20) DEF FetchReply
  <2>4. CASE FetchChunk(c)  BY <2>4, SMTT(20) DEF FetchChunk
  <2>5. CASE TimeOut(c)  BY <2>5 DEF TimeOut
  <2>6. CASE HangUp(c)  BY <2>6 DEF HangUp
  <2> QED BY <1>1, <2>1, <2>2, <2>3, <2>4, <2>5, <2>6 DEF PhoneStep
<1>2. ASSUME NEW c \in Calls, WorkerStep(c) PROVE RunsOnce'
  <2>1. CASE Begin(c)  BY <2>1 DEF Begin
  <2>2. CASE Repeat(c)
    <3>1. ran[c] = 0 /\ UNCHANGED <<phone, queue>>
      BY <2>2 DEF Repeat
    <3>2. \A d \in Calls : d # c => job'[d] = job[d] /\ ran'[d] = ran[d]
      BY <2>2 DEF Repeat
    <3>3. \/ ran'[c] = 1 /\ job'[c] \in {"speaking", "failing"}
          \/ ran'[c] = 0 /\ job'[c] = "failing"
      BY <2>2 DEF Repeat
    <3>4. \A i \in DOMAIN queue[c] : queue[c][i] # End
      BY <3>1
    <3>5. phone[c] # "answered"
      BY <3>1
    <3> QED BY <3>1, <3>2, <3>3, <3>4, <3>5
  <2>3. CASE PostLine(c)
    <3>1. \A d \in Calls : \A i \in DOMAIN queue'[d] :
            (i \in DOMAIN queue[d] /\ queue'[d][i] = queue[d][i]) \/ (d = c /\ queue'[d][i] = made[c] + 1)
      BY <2>3, PostQueue, SMTT(20) DEF PostLine
    <3>2. \A d \in Calls : d # c => job'[d] = job[d]
      BY <2>3 DEF PostLine, Post
    <3>3. job[c] \in {"speaking", "closing"} /\ job'[c] \notin {"none", "queued", "running"}
      BY <2>3 DEF PostLine, Post
    <3>4. UNCHANGED <<phone, ran>>
      BY <2>3 DEF PostLine
    <3>5. ran[c] = 1
      BY <3>3
    <3>6. made[c] + 1 \in 0 .. Lines + 1
      BY <2>3 DEF PostLine
    <3> HIDE DEF TypeOK
    <3> QED BY <3>1, <3>2, <3>3, <3>4, <3>5
  <2>4. CASE PostEnd(c)
    <3>1. \A d \in Calls : \A i \in DOMAIN queue'[d] :
            (i \in DOMAIN queue[d] /\ queue'[d][i] = queue[d][i]) \/ (d = c /\ queue'[d][i] = End)
      BY <2>4, PostQueue DEF PostEnd
    <3>2. \A d \in Calls : d # c => job'[d] = job[d]
      BY <2>4 DEF PostEnd, Post
    <3>3. job[c] \in {"speaking", "closing"} /\ job'[c] \notin {"none", "queued", "running"}
      BY <2>4 DEF PostEnd, Post
    <3>4. UNCHANGED <<phone, ran>>
      BY <2>4 DEF PostEnd
    <3>5. ran[c] = 1
      BY <3>3
    <3>6. End \in 0 .. Lines + 1
      BY <2>4 DEF PostEnd
    <3> HIDE DEF TypeOK
    <3> QED BY <3>1, <3>2, <3>3, <3>4, <3>5
  <2>5. CASE PostClose(c)
    <3>1. \A d \in Calls : \A i \in DOMAIN queue'[d] :
            (i \in DOMAIN queue[d] /\ queue'[d][i] = queue[d][i]) \/ (d = c /\ queue'[d][i] = Close)
      BY <2>5, PostQueue DEF PostClose
    <3>2. \A d \in Calls : d # c => job'[d] = job[d]
      BY <2>5 DEF PostClose, Post
    <3>3. job[c] \in {"speaking", "closing"} /\ job'[c] \notin {"none", "queued", "running"}
      BY <2>5 DEF PostClose, Post
    <3>4. UNCHANGED <<phone, ran>>
      BY <2>5 DEF PostClose
    <3>5. ran[c] = 1
      BY <3>3
    <3>6. Close \in 0 .. Lines + 1
      BY <2>5 DEF PostClose
    <3> HIDE DEF TypeOK
    <3> QED BY <3>1, <3>2, <3>3, <3>4, <3>5
  <2>6. CASE DoorBreaks(c)  BY <2>6 DEF DoorBreaks
  <2>7. CASE PostFail(c)
    <3>1. \A d \in Calls : \A i \in DOMAIN queue'[d] :
            (i \in DOMAIN queue[d] /\ queue'[d][i] = queue[d][i]) \/ (d = c /\ queue'[d][i] = Close)
      BY <2>7, ArriveQueue, SMTT(20) DEF PostFail
    <3>2. \A d \in Calls : d # c => job'[d] = job[d]
      BY <2>7 DEF PostFail
    <3>3. job'[c] = "over" /\ UNCHANGED <<phone, ran>> /\ Close # End
      BY <2>7 DEF PostFail
    <3> HIDE DEF TypeOK, End, Close
    <3> QED BY <3>1, <3>2, <3>3
  <2>8. CASE ClientGone(c)  BY <2>8 DEF ClientGone
  <2> QED BY <1>2, <2>1, <2>2, <2>3, <2>4, <2>5, <2>6, <2>7, <2>8 DEF WorkerStep
<1>3. CASE Poll  BY <1>3 DEF Poll
<1>4. CASE PollEmpty  BY <1>4 DEF PollEmpty
<1>5. CASE PollBreaks  BY <1>5 DEF PollBreaks
<1>6. CASE Take  BY <1>6, SMTT(20) DEF Take
<1>7. CASE OrphanTakes  BY <1>7 DEF OrphanTakes
<1>8. CASE OrphanEnds  BY <1>8 DEF OrphanEnds
<1>9. CASE Age  BY <1>9 DEF Age
<1>10. CASE Start  BY <1>10 DEF Start
<1>11. CASE Stop  BY <1>11 DEF Stop
<1>12. CASE HouseCrash  BY <1>12 DEF HouseCrash
<1>13. CASE RelayRestart  BY <1>13 DEF RelayRestart
<1>14. CASE UNCHANGED vars  BY <1>14 DEF vars, relayVars, houseVars
<1> QED BY <1>1, <1>2, <1>3, <1>4, <1>5, <1>6, <1>7, <1>8, <1>9, <1>10, <1>11, <1>12, <1>13,
    <1>14 DEF Next, LoopStep

LEMMA OnceInit == ASSUME RelayAssumption PROVE Init => OnceInv
<1> SUFFICES ASSUME Init PROVE OnceInv
  OBVIOUS
<1>1. TypeOK
  <2>1. \A S : <<>> \in Seq(S)
    OBVIOUS
  <2>2. /\ phone \in [Calls -> {"idle", "waiting", "away", "answered", "empty", "timeout", "dead"}]
        /\ job \in [Calls -> {"none", "queued", "running", "speaking", "closing", "failing", "over"}]
        /\ queue \in [Calls -> Seq(0 .. Lines + 1)] /\ got \in [Calls -> Seq(1 .. Lines)]
    BY <2>1 DEF Init
  <2>3. made \in [Calls -> 0 .. Lines] /\ ran \in [Calls -> Nat] /\ faults \in 0 .. MaxFaults
    BY DEF Init, RelayAssumption
  <2> QED BY <2>1, <2>2, <2>3 DEF Init, TypeOK
<1>2. PendingIsFresh /\ UnmadeIsNowhere /\ RunsOnce
  BY DEF Init, PendingIsFresh, UnmadeIsNowhere, RunsOnce
<1> QED BY <1>1, <1>2 DEF OnceInv

LEMMA OnceStep == ASSUME RelayAssumption, OnceInv, [Next]_vars PROVE OnceInv'
BY TypeStep, FreshStep, RunsStep DEF OnceInv

\* A caller that learns something settles its call.
LEMMA Settled ==
  ASSUME OnceInv, NEW c \in Calls, phone[c] \in {"idle", "waiting"}, UNCHANGED ran,
         NEW o \in {"away", "answered", "empty", "timeout", "dead"},
         phone' = [phone EXCEPT ![c] = o],
         o = "away" => ran[c] = 0, o = "answered" => ran[c] = 1
  PROVE R!Next
<1> DEFINE told == IF o \in {"away", "answered"} THEN o ELSE "unsure"
<1>1. outcome[c] = "open"
  BY DEF outcome
<1>2. outcome' = [outcome EXCEPT ![c] = told]
  BY DEF outcome, OnceInv, TypeOK
<1>3. R!Settle(c, told)
  BY <1>1, <1>2 DEF R!Settle
<1> QED BY <1>3 DEF R!Next

LEMMA StutterSame == phone' = phone /\ ran' = ran => UNCHANGED <<outcome, ran>>
BY DEF outcome

\* Every step is a step of RemoteCall or changes nothing of it.
LEMMA OnceMaps ==
  ASSUME RelayAssumption, OnceInv, OnceInv', [Next]_vars
  PROVE [R!Next]_<<outcome, ran>>
<1> DEFINE Goal == R!Next \/ UNCHANGED <<outcome, ran>>
<1> SUFFICES Goal
  OBVIOUS
<1> HIDE DEF Goal
<1>1. ASSUME NEW c \in Calls, PhoneStep(c) PROVE Goal
  <2>1. CASE Accept(c)
    <3>1. UNCHANGED <<outcome, ran>>
      BY <2>1 DEF Accept, outcome, OnceInv, TypeOK
    <3> QED BY <3>1 DEF Goal
  <2>2. CASE TurnAway(c)
    <3>1. ran[c] = 0
      BY <2>2 DEF TurnAway, OnceInv, UnmadeIsNowhere, RunsOnce
    <3> QED BY <2>2, <3>1, Settled DEF TurnAway, Goal
  <2>3. CASE \E o \in {"answered", "empty", "timeout", "dead"} :
               /\ UNCHANGED ran
               /\ \/ phone' = phone
                  \/ phone[c] = "waiting" /\ phone' = [phone EXCEPT ![c] = o]
    <3>1. PICK o \in {"answered", "empty", "timeout", "dead"} :
                 /\ UNCHANGED ran
                 /\ \/ phone' = phone
                    \/ phone[c] = "waiting" /\ phone' = [phone EXCEPT ![c] = o]
      BY <2>3
    <3>2. CASE phone' = phone
      BY <3>1, <3>2, StutterSame DEF Goal
    <3>3. CASE phone[c] = "waiting" /\ phone' = [phone EXCEPT ![c] = o]
      <4>1. o = "answered" => ran'[c] = 1
        BY <3>3 DEF OnceInv, TypeOK, RunsOnce
      <4> QED BY <3>1, <3>3, <4>1, Settled DEF Goal
    <3> QED BY <3>1, <3>2, <3>3
  <2>4. CASE FetchReply(c)
    BY <2>3, <2>4 DEF FetchReply, Tell
  <2>5. CASE FetchChunk(c)
    BY <2>3, <2>5 DEF FetchChunk, Tell
  <2>6. CASE TimeOut(c)
    BY <2>3, <2>6 DEF TimeOut, Tell
  <2>7. CASE HangUp(c)
    BY <2>3, <2>7 DEF HangUp
  <2> QED BY <1>1, <2>1, <2>2, <2>4, <2>5, <2>6, <2>7 DEF PhoneStep
<1>2. ASSUME NEW c \in Calls, WorkerStep(c) PROVE Goal
  <2>1. CASE Repeat(c) /\ ran' # ran
    <3>1. ran[c] = 0 /\ ran' = [ran EXCEPT ![c] = 1] /\ UNCHANGED phone
      BY <2>1 DEF Repeat, OnceInv, RunsOnce
    <3>2. outcome[c] # "away" /\ UNCHANGED outcome
      BY <2>1, <3>1 DEF Repeat, outcome, OnceInv, UnmadeIsNowhere
    <3>3. R!Run(c)
      BY <3>1, <3>2 DEF R!Run
    <3> QED BY <3>3 DEF R!Next, Goal
  <2>2. CASE ~(Repeat(c) /\ ran' # ran)
    <3>1. UNCHANGED ran
      BY <1>2, <2>2 DEF WorkerStep, Begin, PostLine, PostEnd, PostClose, DoorBreaks,
         PostFail, ClientGone
    <3>2. UNCHANGED phone
      BY <1>2, WorkerJob DEF OnceInv
    <3> QED BY <3>1, <3>2, StutterSame DEF Goal
  <2> QED BY <2>1, <2>2
<1>3. CASE RelayRestart
  <2> DEFINE S == {c \in Calls : phone[c] = "waiting"}
  <2>1. outcome' = [c \in Calls |-> IF c \in S THEN "unsure" ELSE outcome[c]]
    BY <1>3 DEF RelayRestart, outcome
  <2>2. S \in SUBSET {c \in Calls : outcome[c] = "open"}
    BY DEF outcome
  <2>3. UNCHANGED ran
    BY <1>3 DEF RelayRestart
  <2>4. R!Break
    BY <2>1, <2>2, <2>3 DEF R!Break
  <2> QED BY <2>4 DEF R!Next, Goal
<1>4. CASE LoopStep \/ Start \/ Stop \/ HouseCrash \/ UNCHANGED vars
  <2>1. UNCHANGED <<phone, ran>>
    BY <1>4 DEF LoopStep, Poll, PollEmpty, PollBreaks, Take, OrphanTakes, OrphanEnds, Age,
       Start, Stop, HouseCrash, vars
  <2> QED BY <2>1, StutterSame DEF Goal
<1> QED BY <1>1, <1>2, <1>3, <1>4 DEF Next

(* The house acts once at most on a call, never on one it was away for, and   *)
(* has acted on every one that is answered, whatever breaks on the way        *)
(* (RelayMailbox implements RemoteCall).                                      *)
THEOREM MailboxImplementsCall == ASSUME RelayAssumption PROVE Spec => OncePerCall
<1>1. Init => R!Init
  BY DEF Init, R!Init, outcome
<1>2. OnceInv /\ [Next]_vars => OnceInv'
  BY OnceStep
<1>3. OnceInv /\ OnceInv' /\ [Next]_vars => [R!Next]_<<outcome, ran>>
  BY OnceMaps
<1> QED BY <1>1, <1>2, <1>3, OnceInit, PTL DEF Spec, OncePerCall, R!Spec

(* Types hold. *)
THEOREM RelayTypeCorrect == ASSUME RelayAssumption PROVE Spec => []TypeOK
<1>1. OnceInv /\ [Next]_vars => OnceInv'
  BY OnceStep
<1>2. OnceInv => TypeOK
  BY DEF OnceInv
<1> QED BY <1>1, <1>2, OnceInit, PTL DEF Spec

-----------------------------------------------------------------------------
(* Nobody forgotten.                                                          *)

In(s, x) == \E i \in DOMAIN s : s[i] = x

\* What stays in an extended or consumed sequence.
LEMMA AppendKeeps ==
  ASSUME NEW S, NEW s \in Seq(S), NEW e
  PROVE /\ \A x : In(s, x) \/ x = e => In(Append(s, e), x)
        /\ Append(s, e) # <<>>
<1>1. \A x : In(s, x) => In(Append(s, e), x)
  BY AppendAt DEF In
<1>2. Len(s) + 1 \in DOMAIN Append(s, e) /\ Append(s, e)[Len(s) + 1] = e
  BY AppendAt
<1>3. In(Append(s, e), e)
  BY <1>2 DEF In
<1> QED BY <1>1, <1>2, <1>3

LEMMA TailKeeps ==
  ASSUME NEW S, NEW s \in Seq(S), s # <<>>
  PROVE \A x : In(s, x) /\ x # Head(s) => In(Tail(s), x)
<1> SUFFICES ASSUME NEW x, In(s, x), x # Head(s) PROVE In(Tail(s), x)
  OBVIOUS
<1>1. PICK i \in DOMAIN s : s[i] = x
  BY DEF In
<1>2. i - 1 \in DOMAIN Tail(s) /\ Tail(s)[i - 1] = s[i]
  BY <1>1
<1> QED BY <1>1, <1>2 DEF In

\* A call no worker has is pending, and a worker that is done has left
\* something to read: for a stream, the empty blob that closes it.
WaitingIsPending ==
  \A c \in calls : job[c] = "none" /\ c \notin lost => In(pending, c)

DoneIsAnswered ==
  \A c \in calls : job[c] = "over" /\ c \notin lost =>
    IF c \in Streams THEN In(queue[c], Close) ELSE queue[c] # <<>>

CareInv == OnceInv /\ WaitingIsPending /\ DoneIsAnswered

LEMMA WaitingStep == ASSUME CareInv, [Next]_vars PROVE WaitingIsPending'
<1> USE DEF CareInv, OnceInv, TypeOK, WaitingIsPending, relayVars, houseVars, Fault, Tell,
    Busy, inflight
<1>1. ASSUME NEW c \in Calls, PhoneStep(c) PROVE WaitingIsPending'
  <2>1. CASE Accept(c)
    <3>1. calls' = calls \cup {c} /\ UNCHANGED <<job, lost>>
      BY <2>1 DEF Accept
    <3>2. \A x : In(pending, x) \/ x = c => In(pending', x)
      BY <2>1, AppendKeeps DEF Accept
    <3> HIDE DEF OnceInv, TypeOK
    <3> QED BY <3>1, <3>2
  <2>2. CASE TurnAway(c)  BY <2>2 DEF TurnAway
  <2>3. CASE FetchReply(c)  BY <2>3 DEF FetchReply
  <2>4. CASE FetchChunk(c)  BY <2>4 DEF FetchChunk
  <2>5. CASE TimeOut(c)  BY <2>5 DEF TimeOut
  <2>6. CASE HangUp(c)  BY <2>6 DEF HangUp
  <2> QED BY <1>1, <2>1, <2>2, <2>3, <2>4, <2>5, <2>6 DEF PhoneStep
<1>2. ASSUME NEW c \in Calls, WorkerStep(c) PROVE WaitingIsPending'
  <2>1. /\ job[c] # "none" /\ job'[c] # "none" /\ UNCHANGED <<calls, pending>> /\ lost \subseteq lost'
        /\ \A d \in Calls : d # c => job'[d] = job[d]
    BY <1>2, WorkerJob
  <2>2. calls \subseteq Calls
    OBVIOUS
  <2> HIDE DEF OnceInv, TypeOK
  <2> QED BY <2>1, <2>2
<1>3. CASE Poll  BY <1>3 DEF Poll
<1>4. CASE PollEmpty  BY <1>4 DEF PollEmpty
<1>5. CASE PollBreaks  BY <1>5 DEF PollBreaks
<1>6. CASE Take
  <2>1. \A x : In(pending, x) /\ x # Head(pending) => In(pending', x)
    BY <1>6, TailKeeps DEF Take
  <2>2. Head(pending) \in Calls
    BY <1>6, QueueOps DEF Take
  <2>3. job'[Head(pending)] = "queued" \/ Head(pending) \in lost'
    BY <1>6, <2>2 DEF Take
  <2>4. \A d \in Calls : d # Head(pending) => job'[d] = job[d]
    BY <1>6 DEF Take
  <2>5. UNCHANGED calls /\ lost \subseteq lost' /\ calls \subseteq Calls
    BY <1>6 DEF Take
  <2> HIDE DEF OnceInv, TypeOK
  <2> QED BY <2>1, <2>3, <2>4, <2>5
<1>7. CASE OrphanTakes
  <2>1. \A x : In(pending, x) /\ x # Head(pending) => In(pending', x)
    BY <1>7, TailKeeps DEF OrphanTakes
  <2>2. Head(pending) \in Calls
    BY <1>7, QueueOps DEF OrphanTakes
  <2>3. job'[Head(pending)] = "queued" \/ Head(pending) \in lost'
    BY <1>7, <2>2 DEF OrphanTakes
  <2>4. \A d \in Calls : d # Head(pending) => job'[d] = job[d]
    BY <1>7 DEF OrphanTakes
  <2>5. UNCHANGED calls /\ lost \subseteq lost' /\ calls \subseteq Calls
    BY <1>7 DEF OrphanTakes
  <2> HIDE DEF OnceInv, TypeOK
  <2> QED BY <2>1, <2>3, <2>4, <2>5
<1>8. CASE OrphanEnds  BY <1>8 DEF OrphanEnds
<1>9. CASE Age  BY <1>9 DEF Age
<1>10. CASE Start  BY <1>10 DEF Start
<1>11. CASE Stop  BY <1>11 DEF Stop
<1>12. CASE HouseCrash  BY <1>12 DEF HouseCrash
<1>13. CASE RelayRestart  BY <1>13 DEF RelayRestart
<1>14. CASE UNCHANGED vars  BY <1>14 DEF vars, relayVars, houseVars
<1> QED BY <1>1, <1>2, <1>3, <1>4, <1>5, <1>6, <1>7, <1>8, <1>9, <1>10, <1>11, <1>12, <1>13,
    <1>14 DEF Next, LoopStep

LEMMA DoneStep == ASSUME RelayAssumption, CareInv, [Next]_vars PROVE DoneIsAnswered'
<1> USE DEF CareInv, OnceInv, TypeOK, RelayAssumption, DoneIsAnswered, Close, End, relayVars,
    houseVars, Fault, Tell, Busy, inflight
<1>1. ASSUME NEW c \in Calls, PhoneStep(c) PROVE DoneIsAnswered'
  <2>1. CASE Accept(c)
    <3>1. job[c] = "none"
      BY <2>1 DEF Accept, UnmadeIsNowhere
    <3> QED BY <2>1, <3>1 DEF Accept
  <2>2. CASE TurnAway(c)  BY <2>2 DEF TurnAway
  <2>3. CASE FetchReply(c)  BY <2>3 DEF FetchReply
  <2>4. CASE FetchChunk(c)
    <3>1. UNCHANGED <<job, lost>> /\ calls' \subseteq calls /\ \A d \in Calls : d # c => queue'[d] = queue[d]
      BY <2>4 DEF FetchChunk
    <3>2. c \in calls' => queue[c] # <<>> /\ queue'[c] = Tail(queue[c]) /\ Head(queue[c]) # Close
      BY <2>4 DEF FetchChunk
    <3>3. c \in Streams /\ queue[c] \in Seq(0 .. Lines + 1) /\ calls \subseteq Calls
      BY <2>4 DEF FetchChunk
    <3> HIDE DEF CareInv, OnceInv, TypeOK, Close, End
    <3>4. c \in calls' /\ In(queue[c], Close) => In(queue'[c], Close)
      BY <3>2, <3>3, TailKeeps
    <3> HIDE DEF OnceInv, TypeOK
    <3> QED BY <3>1, <3>3, <3>4 DEF CareInv
  <2>5. CASE TimeOut(c)  BY <2>5 DEF TimeOut
  <2>6. CASE HangUp(c)  BY <2>6 DEF HangUp
  <2> QED BY <1>1, <2>1, <2>2, <2>3, <2>4, <2>5, <2>6 DEF PhoneStep
<1>o. ASSUME NEW c \in Calls, WorkerStep(c),
             c \in calls /\ job'[c] = "over" /\ c \notin lost' =>
               IF c \in Streams THEN In(queue'[c], Close) ELSE queue'[c] # <<>>
      PROVE DoneIsAnswered'
  <2>1. /\ UNCHANGED calls /\ lost \subseteq lost'
        /\ \A d \in Calls : d # c => job'[d] = job[d] /\ queue'[d] = queue[d]
    BY <1>o, WorkerJob
  <2>2. calls \subseteq Calls
    OBVIOUS
  <2> HIDE DEF OnceInv, TypeOK, Close
  <2> QED BY <1>o, <2>1, <2>2
<1>2. ASSUME NEW c \in Calls, WorkerStep(c) PROVE DoneIsAnswered'
  <2>1. CASE Begin(c)  BY <2>1 DEF Begin
  <2>2. CASE Repeat(c)
    <3>1. job'[c] # "over"
      BY <2>2 DEF Repeat, Post
    <3> QED BY <1>2, <1>o, <3>1
  <2>3. CASE PostLine(c)
    <3>1. job'[c] # "over"
      BY <2>3 DEF PostLine, Post
    <3> QED BY <1>2, <1>o, <3>1
  <2>4. CASE PostEnd(c)
    <3>1. job'[c] = "over" /\ c \in calls /\ c \notin lost' => queue'[c] = Append(queue[c], End)
      BY <2>4 DEF PostEnd, Arrives, Post
    <3>2. queue[c] \in Seq(0 .. Lines + 1)
      OBVIOUS
    <3>4. c \in Streams /\ job'[c] = "over" => End = Close
      BY <2>4 DEF PostEnd, Post
    <3> HIDE DEF CareInv, OnceInv, TypeOK, Close, End
    <3>3. job'[c] = "over" /\ c \in calls /\ c \notin lost' => In(queue'[c], End) /\ queue'[c] # <<>>
      BY <3>1, <3>2, AppendKeeps
    <3> QED BY <1>2, <1>o, <3>3, <3>4
  <2>5. CASE PostClose(c)
    <3>1. job'[c] = "over" /\ c \in calls /\ c \notin lost' => queue'[c] = Append(queue[c], Close)
      BY <2>5 DEF PostClose, Arrives, Post
    <3>2. queue[c] \in Seq(0 .. Lines + 1)
      OBVIOUS
    <3>4. c \in Streams /\ job'[c] = "over" => Close = Close
      BY <2>5 DEF PostClose, Post
    <3> HIDE DEF CareInv, OnceInv, TypeOK, Close, End
    <3>3. job'[c] = "over" /\ c \in calls /\ c \notin lost' => In(queue'[c], Close) /\ queue'[c] # <<>>
      BY <3>1, <3>2, AppendKeeps
    <3> QED BY <1>2, <1>o, <3>3, <3>4
  <2>6. CASE DoorBreaks(c)  BY <2>6 DEF DoorBreaks
  <2>7. CASE PostFail(c)
    <3>1. job'[c] = "over" /\ c \in calls /\ c \notin lost' => queue'[c] = Append(queue[c], Close)
      BY <2>7 DEF PostFail, Arrives
    <3>2. queue[c] \in Seq(0 .. Lines + 1)
      OBVIOUS
    <3>4. c \in Streams /\ job'[c] = "over" => Close = Close
      BY <2>7 DEF PostFail
    <3> HIDE DEF CareInv, OnceInv, TypeOK, Close, End
    <3>3. job'[c] = "over" /\ c \in calls /\ c \notin lost' => In(queue'[c], Close) /\ queue'[c] # <<>>
      BY <3>1, <3>2, AppendKeeps
    <3> QED BY <1>2, <1>o, <3>3, <3>4
  <2>8. CASE ClientGone(c)  BY <2>8 DEF ClientGone
  <2> QED BY <1>2, <2>1, <2>2, <2>3, <2>4, <2>5, <2>6, <2>7, <2>8 DEF WorkerStep
<1>3. CASE Poll  BY <1>3 DEF Poll
<1>4. CASE PollEmpty  BY <1>4 DEF PollEmpty
<1>5. CASE PollBreaks  BY <1>5 DEF PollBreaks
<1>6. CASE Take  BY <1>6 DEF Take
<1>7. CASE OrphanTakes  BY <1>7 DEF OrphanTakes
<1>8. CASE OrphanEnds  BY <1>8 DEF OrphanEnds
<1>9. CASE Age  BY <1>9 DEF Age
<1>10. CASE Start  BY <1>10 DEF Start
<1>11. CASE Stop  BY <1>11 DEF Stop
<1>12. CASE HouseCrash  BY <1>12 DEF HouseCrash
<1>13. CASE RelayRestart  BY <1>13 DEF RelayRestart
<1>14. CASE UNCHANGED vars  BY <1>14 DEF vars, relayVars, houseVars
<1> QED BY <1>1, <1>2, <1>3, <1>4, <1>5, <1>6, <1>7, <1>8, <1>9, <1>10, <1>11, <1>12, <1>13,
    <1>14 DEF Next, LoopStep

(* A caller that waits at the relay is in the queue, at work in the house or  *)
(* answered, unless a fault took the call (house.py, server.py).              *)
THEOREM NobodyIsForgotten == ASSUME RelayAssumption PROVE Spec => []NobodyForgotten
<1>1. Init => CareInv
  BY OnceInit DEF Init, CareInv, WaitingIsPending, DoneIsAnswered
<1>2. CareInv /\ [Next]_vars => CareInv'
  BY OnceStep, WaitingStep, DoneStep DEF CareInv
<1>3. CareInv => NobodyForgotten
  <2> SUFFICES ASSUME CareInv, NEW c \in calls, job[c] \in {"none", "over"}, c \notin lost
               PROVE c \in ToSet(pending) \/ queue[c] # <<>>
    BY DEF NobodyForgotten
  <2>1. In(pending, c) => c \in ToSet(pending)
    BY DEF In, ToSet
  <2>2. In(queue[c], Close) => queue[c] # <<>>
    BY DEF In
  <2> QED BY <2>1, <2>2 DEF CareInv, WaitingIsPending, DoneIsAnswered
<1> QED BY <1>1, <1>2, <1>3, PTL DEF Spec

-----------------------------------------------------------------------------
(* The whole stream.                                                          *)

\* Lengths of any sequences, when one line is read and when one is posted.
LEMMA SumRead ==
  \A g, q, g1, q1, m : /\ Len(g) \in Nat /\ Len(q) \in Nat
                       /\ Len(g1) = Len(g) + 1 /\ Len(q1) = Len(q) - 1
                       /\ m = Len(g) + Len(q)
    => m = Len(g1) + Len(q1)
OBVIOUS

LEMMA SumShift ==
  \A g, g1, i, v : Len(g) \in Nat /\ i \in Nat /\ Len(g1) = Len(g) + 1 /\ v = Len(g) + (i + 1)
    => v = Len(g1) + i
OBVIOUS

LEMMA SumPost ==
  \A g, q, q1, m, m1 : /\ Len(g) \in Nat /\ Len(q) \in Nat /\ Len(q1) = Len(q) + 1
                       /\ m1 = m + 1 /\ m = Len(g) + Len(q)
    => m1 = Len(g) + Len(q1)
OBVIOUS

LEMMA SumLast ==
  \A g, q, m : Len(g) \in Nat /\ Len(q) \in Nat /\ m = Len(g) + Len(q)
    => m + 1 = Len(g) + (Len(q) + 1)
OBVIOUS

\* Counting on.
LEMMA CountsUp ==
  ASSUME NEW S, NEW s \in Seq(S), \A i \in DOMAIN s : s[i] = i
  PROVE /\ Len(Append(s, Len(s) + 1)) = Len(s) + 1
        /\ \A i \in DOMAIN Append(s, Len(s) + 1) : Append(s, Len(s) + 1)[i] = i
<1>1. \A i \in DOMAIN Append(s, Len(s) + 1) : i \in DOMAIN s \/ i = Len(s) + 1
  BY AppendAt
<1> QED BY <1>1, AppendAt

\* Nothing is posted for a call before its worker has been to the door.
NothingEarly ==
  \A c \in Calls : job[c] \in {"none", "queued", "running"} =>
    queue[c] = <<>> /\ got[c] = <<>> /\ made[c] = 0

WaitersAreCalls == \A c \in Calls : phone[c] = "waiting" => c \in calls

\* What waits in the queue of a stream follows what its phone has read.
Follows(c) ==
  /\ job[c] = "speaking" => made[c] = Len(got[c]) + Len(queue[c])
  /\ \A i \in DOMAIN queue[c] :
       /\ queue[c][i] \in 1 .. Lines => queue[c][i] = Len(got[c]) + i
       /\ queue[c][i] = End => Len(got[c]) + i = Lines + 1 \/ c \in halted

InOrder ==
  \A c \in Streams :
    /\ \A i \in DOMAIN got[c] : got[c][i] = i
    /\ phone[c] = "answered" => Len(got[c]) = Lines \/ c \in halted
    /\ phone[c] = "waiting" => Follows(c)

StreamInv == OnceInv /\ NothingEarly /\ WaitersAreCalls /\ InOrder

LEMMA EarlyStep == ASSUME StreamInv, [Next]_vars PROVE NothingEarly' /\ WaitersAreCalls'
<1> USE DEF StreamInv, OnceInv, TypeOK, NothingEarly, WaitersAreCalls, relayVars, houseVars,
    Fault, Tell, Busy, inflight, Arrives, Post
<1>1. ASSUME NEW c \in Calls, PhoneStep(c) PROVE NothingEarly' /\ WaitersAreCalls'
  <2>1. CASE Accept(c)  BY <2>1 DEF Accept
  <2>2. CASE TurnAway(c)  BY <2>2 DEF TurnAway
  <2>3. CASE FetchReply(c)  BY <2>3 DEF FetchReply
  <2>4. CASE FetchChunk(c)  BY <2>4 DEF FetchChunk
  <2>5. CASE TimeOut(c)  BY <2>5 DEF TimeOut
  <2>6. CASE HangUp(c)  BY <2>6 DEF HangUp
  <2> QED BY <1>1, <2>1, <2>2, <2>3, <2>4, <2>5, <2>6 DEF PhoneStep
<1>2. ASSUME NEW c \in Calls, WorkerStep(c) PROVE NothingEarly' /\ WaitersAreCalls'
  <2>1. CASE Begin(c)  BY <2>1 DEF Begin
  <2>2. CASE Repeat(c)  BY <2>2 DEF Repeat
  <2>3. CASE PostLine(c)  BY <2>3 DEF PostLine
  <2>4. CASE PostEnd(c)  BY <2>4 DEF PostEnd
  <2>5. CASE PostClose(c)  BY <2>5 DEF PostClose
  <2>6. CASE DoorBreaks(c)  BY <2>6 DEF DoorBreaks
  <2>7. CASE PostFail(c)  BY <2>7 DEF PostFail
  <2>8. CASE ClientGone(c)  BY <2>8 DEF ClientGone
  <2> QED BY <1>2, <2>1, <2>2, <2>3, <2>4, <2>5, <2>6, <2>7, <2>8 DEF WorkerStep
<1>3. CASE Poll  BY <1>3 DEF Poll
<1>4. CASE PollEmpty  BY <1>4 DEF PollEmpty
<1>5. CASE PollBreaks  BY <1>5 DEF PollBreaks
<1>6. CASE Take
  <2>1. Head(pending) \in Calls /\ job[Head(pending)] = "none"
    BY <1>6, TailAt DEF Take, PendingIsFresh
  <2> QED BY <1>6, <2>1 DEF Take
<1>7. CASE OrphanTakes  BY <1>7 DEF OrphanTakes
<1>8. CASE OrphanEnds  BY <1>8 DEF OrphanEnds
<1>9. CASE Age  BY <1>9 DEF Age
<1>10. CASE Start  BY <1>10 DEF Start
<1>11. CASE Stop  BY <1>11 DEF Stop
<1>12. CASE HouseCrash  BY <1>12 DEF HouseCrash
<1>13. CASE RelayRestart  BY <1>13 DEF RelayRestart
<1>14. CASE UNCHANGED vars  BY <1>14 DEF vars, relayVars, houseVars
<1> QED BY <1>1, <1>2, <1>3, <1>4, <1>5, <1>6, <1>7, <1>8, <1>9, <1>10, <1>11, <1>12, <1>13,
    <1>14 DEF Next, LoopStep

LEMMA InOrderStep == ASSUME RelayAssumption, StreamInv, [Next]_vars PROVE InOrder'
<1> USE DEF StreamInv, OnceInv, TypeOK, RelayAssumption, InOrder, Follows, End, Close,
    relayVars, houseVars, Fault, Tell, Busy, inflight
<1>1. ASSUME NEW c \in Calls, PhoneStep(c) PROVE InOrder'
  <2>1. CASE Accept(c)
    <3>1. job[c] = "none" /\ queue[c] = <<>> /\ UNCHANGED <<got, queue, job, made, halted>>
      BY <2>1 DEF Accept, UnmadeIsNowhere, NothingEarly
    <3>2. phone'[c] = "waiting" /\ \A d \in Calls : d # c => phone'[d] = phone[d]
      BY <2>1 DEF Accept
    <3>3. Follows(c)'
      BY <3>1
    <3>4. phone[c] = "idle"
      BY <2>1 DEF Accept
    <3> HIDE DEF OnceInv, TypeOK, Follows
    <3>5. \A d \in Streams : d # c => (Follows(d) <=> Follows(d)')
      BY <3>1, <3>2 DEF Follows
    <3> QED BY <3>1, <3>2, <3>3, <3>5
  <2>2. CASE TurnAway(c)  BY <2>2 DEF TurnAway
  <2>3. CASE FetchReply(c)  BY <2>3 DEF FetchReply
  <2>4. CASE FetchChunk(c)
    <3>1. /\ UNCHANGED <<job, made, halted>>
          /\ \A d \in Calls : d # c => queue'[d] = queue[d] /\ got'[d] = got[d] /\ phone'[d] = phone[d]
      BY <2>4 DEF FetchChunk
    <3>2. \A d \in Streams \ {c} : Follows(d) => Follows(d)'
      BY <3>1
    <3>3. c \in Streams /\ queue[c] # <<>> /\ queue'[c] = Tail(queue[c]) /\ Head(queue[c]) = queue[c][1] /\ 1 \in DOMAIN queue[c]
      BY <2>4, TailAt DEF FetchChunk
    <3>4. CASE phone[c] # "waiting"
      <4>1. UNCHANGED <<phone, got>>
        BY <2>4, <3>4 DEF FetchChunk
      <4> HIDE DEF OnceInv, TypeOK, Follows
      <4> QED BY <3>1, <3>2, <3>4, <4>1
    <3>5. CASE phone[c] = "waiting" /\ Head(queue[c]) \in 1 .. Lines
      <4>1. phone' = phone /\ got'[c] = Append(got[c], Head(queue[c]))
        BY <2>4, <3>5 DEF FetchChunk
      <4>2. Head(queue[c]) = Len(got[c]) + 1
        BY <3>3, <3>5
      <4>3. got[c] \in Seq(1 .. Lines) /\ queue[c] \in Seq(0 .. Lines + 1)
        OBVIOUS
      <4>4. Len(got'[c]) = Len(got[c]) + 1 /\ \A i \in DOMAIN got'[c] : got'[c][i] = i
        <5>1. \A i \in DOMAIN got[c] : got[c][i] = i
          BY <3>3
        <5> HIDE DEF OnceInv, TypeOK, Follows, InOrder, StreamInv
        <5> QED BY <4>1, <4>2, <4>3, <5>1, CountsUp
      <4>5. Len(queue'[c]) = Len(queue[c]) - 1 /\ \A i \in DOMAIN queue'[c] : i \in Nat /\ i + 1 \in DOMAIN queue[c] /\ queue'[c][i] = queue[c][i + 1]
        BY <3>3, <4>3, TailAt
      <4>6. Follows(c)'
        <5>1. Len(got[c]) \in Nat /\ Len(queue[c]) \in Nat /\ made[c] \in Nat
          BY <4>3
        <5>2. Follows(c)
          BY <3>3, <3>5
        <5> HIDE DEF OnceInv, TypeOK, InOrder, StreamInv
        <5>3. job'[c] = "speaking" => made'[c] = Len(got'[c]) + Len(queue'[c])
          <6>1. made'[c] = made[c] /\ job'[c] = job[c]
            BY <3>1
          <6>2. Len(got'[c]) = Len(got[c]) + 1 /\ Len(queue'[c]) = Len(queue[c]) - 1
            BY <4>4, <4>5
          <6>3. job[c] = "speaking" => made[c] = Len(got[c]) + Len(queue[c])
            BY <5>2
          <6> HIDE DEF Follows
          <6> QED BY <5>1, <6>1, <6>2, <6>3, SumRead
        <5>4. ASSUME NEW i \in DOMAIN queue'[c]
              PROVE /\ queue'[c][i] \in 1 .. Lines => queue'[c][i] = Len(got'[c]) + i
                    /\ queue'[c][i] = End => Len(got'[c]) + i = Lines + 1 \/ c \in halted'
          <6>1. i \in Nat /\ i + 1 \in DOMAIN queue[c] /\ queue'[c][i] = queue[c][i + 1]
            BY <4>5
          <6>2. Len(got'[c]) = Len(got[c]) + 1
            BY <4>4
          <6>3. /\ queue[c][i + 1] \in 1 .. Lines => queue[c][i + 1] = Len(got[c]) + (i + 1)
                /\ queue[c][i + 1] = End => Len(got[c]) + (i + 1) = Lines + 1 \/ c \in halted
            BY <5>2, <6>1
          <6>4. halted' = halted
            BY <3>1
          <6> HIDE DEF Follows
          <6> QED BY <5>1, <6>1, <6>2, <6>3, <6>4, SumShift
        <5> QED BY <5>3, <5>4
      <4> HIDE DEF OnceInv, TypeOK, Follows
      <4> QED BY <3>1, <3>2, <3>5, <4>1, <4>4, <4>6
    <3>6. CASE phone[c] = "waiting" /\ Head(queue[c]) \notin 1 .. Lines
      <4>1. UNCHANGED got
        BY <2>4, <3>6 DEF FetchChunk
      <4>2. queue[c] \in Seq(0 .. Lines + 1) /\ Head(queue[c]) \in 0 .. Lines + 1
        BY <3>3
      <4>3. phone'[c] = "empty" \/ (phone'[c] = "answered" /\ Head(queue[c]) = End)
        <5>1. /\ Head(queue[c]) = Close \/ Head(queue[c]) = End
              /\ Close # End /\ phone[c] = "waiting"
          <6> HIDE DEF StreamInv, OnceInv, TypeOK, InOrder, Follows
          <6> QED BY <3>6, <4>2
        <5>3. phone \in [Calls -> {"idle", "waiting", "away", "answered", "empty", "timeout", "dead"}]
          OBVIOUS
        <5>2. phone' = IF Head(queue[c]) = Close THEN [phone EXCEPT ![c] = "empty"]
                       ELSE IF Head(queue[c]) = End THEN [phone EXCEPT ![c] = "answered"]
                       ELSE phone
          BY <2>4, <5>1 DEF FetchChunk
        <5> HIDE DEF StreamInv, OnceInv, TypeOK, InOrder, Follows, End, Close
        <5> QED BY <5>1, <5>2, <5>3
      <4>0. Len(got[c]) \in Nat
        OBVIOUS
      <4>4. Head(queue[c]) = End => Len(got[c]) = Lines \/ c \in halted
        <5>1. queue[c][1] = End => Len(got[c]) + 1 = Lines + 1 \/ c \in halted
          BY <3>3, <3>6
        <5> HIDE DEF StreamInv, OnceInv, TypeOK, InOrder, Follows
        <5> QED BY <3>3, <4>0, <5>1
      <4> HIDE DEF OnceInv, TypeOK, Follows
      <4> QED BY <3>1, <3>2, <4>1, <4>3, <4>4
    <3> QED BY <3>4, <3>5, <3>6
  <2>5. CASE TimeOut(c)  BY <2>5 DEF TimeOut
  <2>6. CASE HangUp(c)  BY <2>6 DEF HangUp
  <2> QED BY <1>1, <2>1, <2>2, <2>3, <2>4, <2>5, <2>6 DEF PhoneStep
<1>o. ASSUME NEW c \in Calls, WorkerStep(c), c \in Streams /\ phone[c] = "waiting" => Follows(c)'
      PROVE InOrder'
  <2>1. /\ UNCHANGED <<phone, got, halted>>
        /\ \A d \in Calls : d # c => job'[d] = job[d] /\ queue'[d] = queue[d] /\ made'[d] = made[d]
    BY <1>o, WorkerJob
  <2>2. \A d \in Streams \ {c} : Follows(d) => Follows(d)'
    BY <2>1
  <2> HIDE DEF OnceInv, TypeOK, Follows
  <2> QED BY <1>o, <2>1, <2>2
<1>2. ASSUME NEW c \in Calls, WorkerStep(c) PROVE InOrder'
  <2>1. CASE Begin(c)
    <3>1. job'[c] # "speaking" /\ queue'[c] = queue[c] /\ UNCHANGED <<got, halted>>
      BY <2>1 DEF Begin
    <3>2. c \in Streams /\ phone[c] = "waiting" => Follows(c)'
      BY <3>1
    <3> QED BY <1>2, <1>o, <3>2
  <2>2. CASE Repeat(c)
    <3>1. queue[c] = <<>> /\ got[c] = <<>> /\ made[c] = 0 /\ UNCHANGED <<queue, got, halted, made>>
      BY <2>2 DEF Repeat, NothingEarly
    <3>2. Follows(c)'
      BY <3>1
    <3> QED BY <1>2, <1>o, <3>2
  <2>3. CASE PostLine(c)
    <3>1. \A i \in DOMAIN queue'[c] :
            (i \in DOMAIN queue[c] /\ queue'[c][i] = queue[c][i]) \/ (i = Len(queue[c]) + 1 /\ queue'[c][i] = made[c] + 1)
      <4>1. Post(c, made[c] + 1, "speaking")
        BY <2>3 DEF PostLine
      <4> HIDE DEF End, Close
      <4> QED BY <4>1, PostQueue, SMTT(20)
    <3>2. /\ queue[c] \in Seq(0 .. Lines + 1) /\ Len(queue[c]) \in Nat /\ Len(got[c]) \in Nat /\ made[c] \in 0 .. Lines
          /\ UNCHANGED <<got, halted>>
      BY <2>3 DEF PostLine
    <3>3. job[c] = "speaking" /\ made'[c] = made[c] + 1 /\ made[c] < Lines
      BY <2>3 DEF PostLine
    <3>4. job'[c] = "speaking" /\ c \in calls => queue'[c] = Append(queue[c], made[c] + 1)
      BY <2>3 DEF PostLine, Post, Arrives
    <3>5. c \in calls /\ job'[c] = "speaking" => Len(queue'[c]) = Len(queue[c]) + 1
      BY <3>2, <3>4
    <3>6. ASSUME c \in Streams, phone[c] = "waiting" PROVE Follows(c)'
      <4>1. Follows(c) /\ c \in calls
        BY <3>6 DEF WaitersAreCalls
      <4> HIDE DEF OnceInv, TypeOK, StreamInv, InOrder
      <4>2. job'[c] = "speaking" => made'[c] = Len(got'[c]) + Len(queue'[c])
        <5>1. job[c] = "speaking" => made[c] = Len(got[c]) + Len(queue[c])
          BY <4>1
        <5>2. got'[c] = got[c]
          BY <3>2
        <5> HIDE DEF Follows
        <5> QED BY <3>2, <3>3, <3>5, <4>1, <5>1, <5>2, SumPost
      <4>3. ASSUME NEW i \in DOMAIN queue'[c]
            PROVE /\ queue'[c][i] \in 1 .. Lines => queue'[c][i] = Len(got'[c]) + i
                  /\ queue'[c][i] = End => Len(got'[c]) + i = Lines + 1 \/ c \in halted'
        <5>1. CASE i \in DOMAIN queue[c] /\ queue'[c][i] = queue[c][i]
          BY <3>2, <4>1, <5>1
        <5>2. CASE i = Len(queue[c]) + 1 /\ queue'[c][i] = made[c] + 1
          <6>1. job[c] = "speaking" => made[c] = Len(got[c]) + Len(queue[c])
            BY <4>1
          <6>2. got'[c] = got[c] /\ halted' = halted
            BY <3>2
          <6>3. Len(queue[c]) \in Nat /\ Len(got[c]) \in Nat /\ made[c] \in 0 .. Lines
            BY <3>2
          <6> HIDE DEF Follows
          <6>4. job[c] = "speaking" => made[c] + 1 = Len(got[c]) + i
            <7>1. i = Len(queue[c]) + 1
              BY <5>2
            <7> QED BY <6>1, <6>3, <7>1, SumLast
          <6>5. (made[c] + 1 \in 1 .. Lines => made[c] + 1 = Len(got[c]) + i)
                /\ (made[c] + 1 = End => Len(got[c]) + i = Lines + 1 \/ c \in halted)
            BY <3>3, <3>6, <6>3, <6>4
          <6> HIDE DEF End, Close
          <6> QED BY <5>2, <6>2, <6>5
        <5> QED BY <3>1, <5>1, <5>2
      <4> QED BY <4>2, <4>3
    <3> QED BY <1>2, <1>o, <3>6
  <2>4. CASE PostEnd(c)
    <3>1. \A i \in DOMAIN queue'[c] :
            (i \in DOMAIN queue[c] /\ queue'[c][i] = queue[c][i]) \/ (i = Len(queue[c]) + 1 /\ queue'[c][i] = End)
      <4>1. Post(c, End, IF c \in Streams THEN "closing" ELSE "over")
        BY <2>4 DEF PostEnd
      <4> HIDE DEF End, Close
      <4> QED BY <4>1, PostQueue
    <3>2. /\ queue[c] \in Seq(0 .. Lines + 1) /\ Len(queue[c]) \in Nat /\ Len(got[c]) \in Nat /\ made[c] \in 0 .. Lines
          /\ UNCHANGED <<got, halted>>
      BY <2>4 DEF PostEnd
    <3>3. job[c] = "speaking" /\ job'[c] # "speaking" /\ (c \in Streams => made[c] = Lines \/ c \in halted)
      BY <2>4 DEF PostEnd, Post
    <3>6. ASSUME c \in Streams, phone[c] = "waiting" PROVE Follows(c)'
      <4>1. Follows(c) /\ c \in calls
        BY <3>6 DEF WaitersAreCalls
      <4> HIDE DEF OnceInv, TypeOK, StreamInv, InOrder
      <4>2. job'[c] = "speaking" => made'[c] = Len(got'[c]) + Len(queue'[c])
        <5>1. job[c] = "speaking" => made[c] = Len(got[c]) + Len(queue[c])
          BY <4>1
        <5>2. got'[c] = got[c]
          BY <3>2
        <5> HIDE DEF Follows
        <5> QED BY <3>2, <3>3, <4>1, <5>1, <5>2, SumPost
      <4>3. ASSUME NEW i \in DOMAIN queue'[c]
            PROVE /\ queue'[c][i] \in 1 .. Lines => queue'[c][i] = Len(got'[c]) + i
                  /\ queue'[c][i] = End => Len(got'[c]) + i = Lines + 1 \/ c \in halted'
        <5>1. CASE i \in DOMAIN queue[c] /\ queue'[c][i] = queue[c][i]
          BY <3>2, <4>1, <5>1
        <5>2. CASE i = Len(queue[c]) + 1 /\ queue'[c][i] = End
          <6>1. job[c] = "speaking" => made[c] = Len(got[c]) + Len(queue[c])
            BY <4>1
          <6>2. got'[c] = got[c] /\ halted' = halted
            BY <3>2
          <6>3. Len(queue[c]) \in Nat /\ Len(got[c]) \in Nat /\ made[c] \in 0 .. Lines
            BY <3>2
          <6> HIDE DEF Follows
          <6>4. job[c] = "speaking" => made[c] + 1 = Len(got[c]) + i
            <7>1. i = Len(queue[c]) + 1
              BY <5>2
            <7> QED BY <6>1, <6>3, <7>1, SumLast
          <6>5. (End \in 1 .. Lines => End = Len(got[c]) + i)
                /\ (Len(got[c]) + i = Lines + 1 \/ c \in halted)
            BY <3>3, <3>6, <6>3, <6>4
          <6> HIDE DEF End, Close
          <6> QED BY <5>2, <6>2, <6>5
        <5> QED BY <3>1, <5>1, <5>2
      <4> QED BY <4>2, <4>3
    <3> QED BY <1>2, <1>o, <3>6
  <2>5. CASE PostClose(c)
    <3>1. \A i \in DOMAIN queue'[c] :
            (i \in DOMAIN queue[c] /\ queue'[c][i] = queue[c][i]) \/ (i = Len(queue[c]) + 1 /\ queue'[c][i] = Close)
      <4>1. Post(c, Close, "over")
        BY <2>5 DEF PostClose
      <4> HIDE DEF End, Close
      <4> QED BY <4>1, PostQueue
    <3>2. /\ queue[c] \in Seq(0 .. Lines + 1) /\ Len(queue[c]) \in Nat /\ Len(got[c]) \in Nat /\ made[c] \in 0 .. Lines
          /\ UNCHANGED <<got, halted>>
      BY <2>5 DEF PostClose
    <3>3. job'[c] # "speaking"
      BY <2>5 DEF PostClose, Post
    <3>6. ASSUME c \in Streams, phone[c] = "waiting" PROVE Follows(c)'
      <4>1. Follows(c) /\ c \in calls
        BY <3>6 DEF WaitersAreCalls
      <4> HIDE DEF OnceInv, TypeOK, StreamInv, InOrder
      <4>2. job'[c] = "speaking" => made'[c] = Len(got'[c]) + Len(queue'[c])
        <5>1. job[c] = "speaking" => made[c] = Len(got[c]) + Len(queue[c])
          BY <4>1
        <5>2. got'[c] = got[c]
          BY <3>2
        <5> HIDE DEF Follows
        <5> QED BY <3>2, <3>3, <4>1, <5>1, <5>2, SumPost
      <4>3. ASSUME NEW i \in DOMAIN queue'[c]
            PROVE /\ queue'[c][i] \in 1 .. Lines => queue'[c][i] = Len(got'[c]) + i
                  /\ queue'[c][i] = End => Len(got'[c]) + i = Lines + 1 \/ c \in halted'
        <5>1. CASE i \in DOMAIN queue[c] /\ queue'[c][i] = queue[c][i]
          BY <3>2, <4>1, <5>1
        <5>2. CASE i = Len(queue[c]) + 1 /\ queue'[c][i] = Close
          <6>1. job[c] = "speaking" => made[c] = Len(got[c]) + Len(queue[c])
            BY <4>1
          <6>2. got'[c] = got[c] /\ halted' = halted
            BY <3>2
          <6>3. Len(queue[c]) \in Nat /\ Len(got[c]) \in Nat /\ made[c] \in 0 .. Lines
            BY <3>2
          <6> HIDE DEF Follows
          <6>4. job[c] = "speaking" => made[c] + 1 = Len(got[c]) + i
            <7>1. i = Len(queue[c]) + 1
              BY <5>2
            <7> QED BY <6>1, <6>3, <7>1, SumLast
          <6>5. (Close \in 1 .. Lines => Close = Len(got[c]) + i)
                /\ (Close = End => Len(got[c]) + i = Lines + 1 \/ c \in halted)
            BY <3>3, <3>6, <6>3, <6>4
          <6> HIDE DEF End, Close
          <6> QED BY <5>2, <6>2, <6>5
        <5> QED BY <3>1, <5>1, <5>2
      <4> QED BY <4>2, <4>3
    <3> QED BY <1>2, <1>o, <3>6
  <2>6. CASE DoorBreaks(c)
    <3>1. job'[c] # "speaking" /\ queue'[c] = queue[c] /\ UNCHANGED <<got, halted>>
      BY <2>6 DEF DoorBreaks
    <3>2. c \in Streams /\ phone[c] = "waiting" => Follows(c)'
      BY <3>1
    <3> QED BY <1>2, <1>o, <3>2
  <2>7. CASE PostFail(c)
    <3>1. \A i \in DOMAIN queue'[c] :
            (i \in DOMAIN queue[c] /\ queue'[c][i] = queue[c][i]) \/ (i = Len(queue[c]) + 1 /\ queue'[c][i] = Close)
      <4>1. Arrives(c, Close) \/ UNCHANGED queue
        BY <2>7 DEF PostFail
      <4> HIDE DEF End, Close
      <4> QED BY <4>1, ArriveQueue
    <3>2. /\ queue[c] \in Seq(0 .. Lines + 1) /\ Len(queue[c]) \in Nat /\ Len(got[c]) \in Nat /\ made[c] \in 0 .. Lines
          /\ UNCHANGED <<got, halted>>
      BY <2>7 DEF PostFail
    <3>3. job'[c] # "speaking"
      BY <2>7 DEF PostFail
    <3>6. ASSUME c \in Streams, phone[c] = "waiting" PROVE Follows(c)'
      <4>1. Follows(c) /\ c \in calls
        BY <3>6 DEF WaitersAreCalls
      <4> HIDE DEF OnceInv, TypeOK, StreamInv, InOrder
      <4>2. job'[c] = "speaking" => made'[c] = Len(got'[c]) + Len(queue'[c])
        <5>1. job[c] = "speaking" => made[c] = Len(got[c]) + Len(queue[c])
          BY <4>1
        <5>2. got'[c] = got[c]
          BY <3>2
        <5> HIDE DEF Follows
        <5> QED BY <3>2, <3>3, <4>1, <5>1, <5>2, SumPost
      <4>3. ASSUME NEW i \in DOMAIN queue'[c]
            PROVE /\ queue'[c][i] \in 1 .. Lines => queue'[c][i] = Len(got'[c]) + i
                  /\ queue'[c][i] = End => Len(got'[c]) + i = Lines + 1 \/ c \in halted'
        <5>1. CASE i \in DOMAIN queue[c] /\ queue'[c][i] = queue[c][i]
          BY <3>2, <4>1, <5>1
        <5>2. CASE i = Len(queue[c]) + 1 /\ queue'[c][i] = Close
          <6>1. job[c] = "speaking" => made[c] = Len(got[c]) + Len(queue[c])
            BY <4>1
          <6>2. got'[c] = got[c] /\ halted' = halted
            BY <3>2
          <6>3. Len(queue[c]) \in Nat /\ Len(got[c]) \in Nat /\ made[c] \in 0 .. Lines
            BY <3>2
          <6> HIDE DEF Follows
          <6>4. job[c] = "speaking" => made[c] + 1 = Len(got[c]) + i
            <7>1. i = Len(queue[c]) + 1
              BY <5>2
            <7> QED BY <6>1, <6>3, <7>1, SumLast
          <6>5. (Close \in 1 .. Lines => Close = Len(got[c]) + i)
                /\ (Close = End => Len(got[c]) + i = Lines + 1 \/ c \in halted)
            BY <3>3, <3>6, <6>3, <6>4
          <6> HIDE DEF End, Close
          <6> QED BY <5>2, <6>2, <6>5
        <5> QED BY <3>1, <5>1, <5>2
      <4> QED BY <4>2, <4>3
    <3> QED BY <1>2, <1>o, <3>6
  <2>8. CASE ClientGone(c)
    <3>1. job'[c] # "speaking" /\ queue'[c] = queue[c] /\ UNCHANGED <<got, halted>>
      BY <2>8 DEF ClientGone
    <3>2. c \in Streams /\ phone[c] = "waiting" => Follows(c)'
      BY <3>1
    <3> QED BY <1>2, <1>o, <3>2
  <2> QED BY <1>2, <2>1, <2>2, <2>3, <2>4, <2>5, <2>6, <2>7, <2>8 DEF WorkerStep
<1>3. CASE Poll  BY <1>3 DEF Poll
<1>4. CASE PollEmpty  BY <1>4 DEF PollEmpty
<1>5. CASE PollBreaks  BY <1>5 DEF PollBreaks
<1>6. CASE Take  BY <1>6 DEF Take
<1>7. CASE OrphanTakes  BY <1>7 DEF OrphanTakes
<1>8. CASE OrphanEnds  BY <1>8 DEF OrphanEnds
<1>9. CASE Age  BY <1>9 DEF Age
<1>10. CASE Start  BY <1>10 DEF Start
<1>11. CASE Stop  BY <1>11 DEF Stop
<1>12. CASE HouseCrash  BY <1>12 DEF HouseCrash
<1>13. CASE RelayRestart  BY <1>13 DEF RelayRestart
<1>14. CASE UNCHANGED vars  BY <1>14 DEF vars, relayVars, houseVars
<1> QED BY <1>1, <1>2, <1>3, <1>4, <1>5, <1>6, <1>7, <1>8, <1>9, <1>10, <1>11, <1>12, <1>13,
    <1>14 DEF Next, LoopStep

(* A phone reads the lines of a stream in order and without a gap, and the    *)
(* end envelope only after all of them, unless its tunnel was stopped.        *)
THEOREM StreamsAreWhole == ASSUME RelayAssumption PROVE Spec => []StreamIsWhole
<1>1. Init => StreamInv
  <2> SUFFICES ASSUME Init PROVE StreamInv
    OBVIOUS
  <2>1. OnceInv
    BY OnceInit
  <2>2. NothingEarly /\ WaitersAreCalls
    BY DEF Init, NothingEarly, WaitersAreCalls
  <2>3. InOrder
    BY DEF Init, InOrder, RelayAssumption
  <2> QED BY <2>1, <2>2, <2>3 DEF StreamInv
<1>2. StreamInv /\ [Next]_vars => StreamInv'
  BY OnceStep, EarlyStep, InOrderStep DEF StreamInv
<1>3. StreamInv => StreamIsWhole
  BY DEF StreamInv, InOrder, StreamIsWhole
<1> QED BY <1>1, <1>2, <1>3, PTL DEF Spec
=============================================================================
