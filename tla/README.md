# A TLA+ verification of Arelis

Arelis (`src/`) is an assistant that runs on its owner's PC: a Python process with an
asyncio event loop and a desktop window (or a core without one), a language model on the
same machine, tools that reach the outside only behind a confirm card, and an Android
companion that reaches the PC over the LAN or through a mailbox on a server. This
directory models the parts of it where actors interleave, checks them with TLC and proves
their most important properties with TLAPS.

## 1. Inventory

### The system and where its difficulty lies

| Part | State it keeps | Operations | Talks to | What is hard | What makes it correct | Here |
|---|---|---|---|---|---|---|
| Single-instance locks (`presence/lock.py`) | lock file, byte lock, named mutex, pid sidecar | `acquire`, `release`, `lock_held_by_other` | every process of the user | several processes between any two system calls, crashes, Windows and POSIX differ | at most one holder; nobody pulls the sidecar from under it | `PresenceLock` |
| Session token (`presence/ipc_token.py`) | `ipc.token` | `claim_session_token`, `ensure_token`, `read_token` | core, window, IPC server | who is first, a rotation under a running seat | every seat has the token a hello is checked against | `SessionSeats` |
| Orchestrator (`core/orchestrator*.py`) | turn lock and task, waiters and cards, `_cancel`, voice queue, last asks | message, transcript, card answer, Stop, conversation switch, phone sync | bus, turn, screens, phone | every `await` lets another handler run | each input ends once; an answer belongs to its card; Stop winds the turn down | `Turns` |
| Turn (`core/agent_loop.py`, `turn_*.py`, `memory.py`) | rounds, tool calls, conversation rows | prepare, stream, call, confirm, execute, finish, cancel | model, tools, orchestrator | cancellation arrives at any `await` | one terminal event; a send, a delete and a forced card only on their own Allow, any other gated call only on that or a road the user or the settings opened | `Turns` |
| Inbound texts, house (`sms_ingest.py`, `sms_inbound.py`) | ids, fingerprints and the seeded flag on disk | `publish_inbound`, `poll_once` | companion, SMSGate, bus | two sources of one text, retries, crashes between saves, saves that fail, a memory of 500 ids | announced once; never quietly forgotten | `TextIngest` |
| Inbound texts, phone (`MessagesNotifyService.kt`, `InboundQueue.kt`, `InboundWorker.kt`, `BridgeWorker.kt`) | queue file, recent ids | notification, post, enqueue, flush | house over LAN or relay | a file several threads rewrite; lost and late answers | what was answered is handled; what was not stays | `TextDelivery` |
| Relay (`relay/server.py`, `relay/house.py`, `RelayTransport.kt`) | pending calls, waiting handlers, inflight polls; the house's pool | poll, call, reply, chunk, start, stop | phone, house | dead polls that still swallow calls, a tunnel that is replaced, posts nobody looks at | once per call; nobody waits in vain; a stream is whole | `RelayMailbox` |
| Inbound doors of a window (`presence/glass_inbound.py`, `inbound_runtime.py`) | owned runtime, `claimed` | watch, claim, adopt | core, other windows | a claim that finds a sibling; check, then bind | somebody listens; not two | not modelled, hazards listed |
| Allow cards that outlive the window (`presence/pending_confirms.py`, `confirm_*.py`, `ui/window_turn.py`, `ui/event_host.py`, `sms_auto_reply.py`) | a JSON store of two processes, the card on screen and those behind it, waiters | draft, forward, show, answer, expire, restore, execute | core, window, phone, turn | read, change, write by two processes that share a temporary file and take a failed read for an empty store; two roads to the send tool; a screen that lags behind the bus | a send for each Allow at most; a card leaves the store by its answer | `ParkedCards` |
| IPC bridge (`presence/ipc*.py`) | attached clients | hello, forward, replay | core, window | a window that attaches in the middle of a turn | every screen ends with the same card and turn state | hello in `SessionSeats`, forwarded cards in `ParkedCards` |
| Phone's bridge (`mobile.py`) | streams of running turns | turn, sync, confirm | orchestrator, phone | a listener that leaves in the middle | a stream ends with its turn | the Allow in `ParkedCards`; the rest not modelled |
| Event bus (`core/bus.py`) | queue, subscribers | publish, dispatch, drain | everything | one task per event, overlapping handlers | order of dispatch; a failing subscriber harms nobody | order used by `Turns` |
| Model router, llama.cpp driver (`llm/`) | pinned model, the server's process | load, stream | turn | – (one process, one server; unloading does nothing) | – | not modelled |
| Browser (`browser/reserve.py`, `hold.py`) | who owns the page | reserve, hold, release | tools, user | tool and user at once | one owner | not modelled |
| Jobs (`jobs/`) | run lock, missed runs | due, run, settle | Task Scheduler | double runs, restarts | each due run at most once | not modelled |
| Notify center, guard, memory store (`notify/`, `guard/`, `memory/`) | keys, counters, SQLite rows | arm, dismiss; count; supersede, forget | UI, turn | little: one thread, one lock or one transaction each | one pill per key; one current fact | not modelled |
| Spoken replies (`voice/__init__.py`) | buffer of the streamed answer, queue, drain task, numbers of utterances, `_speak_lock` | delta, retract, tool, error, Stop, speak, drain | turn, window, synthesizer | drafts that are withdrawn while they are spoken, or kept although the final text leaves them out; a Stop during a rendering | what was taken back stays unsaid; the rest is said once and in order; every reply closes | `Speech` |
| Ears (`voice/stt.py`, `vad.py`, …) | audio threads | listen, barge in | orchestrator | threads against the loop | nothing heard twice | transcripts are inputs of `Turns` |
| Android talk (`TalkQueue.kt`, `HouseReach.kt`, `ArelisClient.kt`) | queued turns, reach | talk, recover, fall back | house, relay | a turn repeated over the second road | at most once, or known to be unsure | not modelled, hazard listed |
| Tools, calendar, location, research, briefing, desktop, telemetry, first-open setup | little or none | one call each | outside services | I/O | – | not modelled |
| Heuristics (redirects, finish gates, skills), persona, spatial, earth, physics, science | none shared | functions of text or numbers | turn | wording, floating point | – | not modelled |
| User interface, installers, sentinel, eval board, assets | widgets | display, build, test | everything | – | – | environment, or not part of the system |

### How the parts interact

    notification ─► listener/queue ─► LAN or relay ─► publish_inbound ─► event bus ─► screens
                                        │                                  ▲
    phone's turn ───────────────────────┴─► /mobile/turn ──────────────────┤
    composer, microphone, Stop, card answers, conversation switch ─────────┴─► orchestrator ─► turn ─► tools
    turn ─► sentences, withdrawn drafts, final text ─► VoiceService ─► clips ─► player
    core's draft ─► pending_confirms.json ◄─► window ◄─ Allow at the desk or on the phone
    core and window: one lock each, one token between them, IPC socket

Every hazard the code has in the modelled parts is listed in `PROJECT.json` under
`hazards`, at the line where it bites, with the properties that would catch it; a hazard
without one says why.

## 2. Modules

| Module | Models | State ↔ code | Actions ↔ code |
|---|---|---|---|
| `AtomicLock` | what a lock promises: one owner, taken and given up in one step | `owner` | `Acquire`, `Release` |
| `PresenceLock` | `PresenceLock.acquire` and `release`, one action per system call, on Windows and on POSIX (`Nt`) | `handle` open handles of the named mutex; `path`, `fd`, `flock` the lock file by inode and whom its lock admitted; `sidecar` the `.pid` file; `doubled` (history) | `CreateMutex`, `MutexRaises`, `OpenFile`, `LockFile`, `DoubleAdmit`, `WritePid`, `Unlock`, `Unlink`, `UnlinkPid`, `CloseMutex`, `Crash` … |
| `SessionSeats` | cores and windows of one user, each with an atomic lock, and the token file | `lock`, `token`, `sent` (the token read for a hello), `raced` (history) | `TakeOwnLock`, `Claim`, `Rotate`, `ReadToken`, `CreateToken`, `Probe`, `ReadForHello`, `Quit`, `Crash` … |
| `Turns` | orchestrator and turn, one action per stretch between two awaits | `bus`; `queue`/`turn` = `_turn_lock`; `voice` = `_voice_follow_lock`; `waiter` = `_confirm_waiters`; `cancel`, `stopping`, `merging`; `quietly`, `started`, `grant` (= `allow_writes_this_turn`) of the loop; `call` the call in hand: what it does, whether its card is forced, whether the ask names it; `walk` the program's look at pages; `off` the `confirm_*` settings switched off; `carded` (history); `rows` = `SessionMemory.messages` | `OnUser`, `OnVoice`, `OnReply`, `OnStop`, `OnLoad`, `OnSync`; `MergeFollow`, `RestartFollow`; `TakeLock`, `CardAnswered`, `CardTimedOut`; `Begin`, `CallTool`, `Settle`, `Resume`, `Walk`, `ToolDone` … `DeliverCancel`, `CloseTurn` |
| `SerialTurns` | what the orchestrator promises whoever speaks to it | `stage`, `told` (= `terminals`) | `Send`, `Start`, `Tell`, `End`, `Restart`, `Refuse`, `Fold` |
| `TextIngest` | the house's door for texts | `seen` = `_order`, `prints` = `_fps`, `seeded`; `disk` what the file holds of them; `desk` the text between its saves; `rows` of the poll under way; `cut`, `failed`, `forgotten` (histories) | `ServeKnown`, `ServeNew`, `MarkPrint`, `Announce`, `Seed`, `Poll`, `TakeRow`, each with its `…Fails`; `Crash`, `Start` |
| `TextDelivery` | the phone's listener and flushes, the wire, and `TextIngest` behind it | `file` the queue; `todo`, `kept` of each thread; `wire`, `serving`, `answers`; `ignored` what the parser drops | `Notify`, `TakeOn`, `Send`, `Answered`, `TryAgain`, `GiveUp`, `Load`, `BeginFlush`, `Clear`, `Write`, `Lose`, `ServeRequest`, `PhoneDies` … |
| `RemoteCall` | what a call through somebody else's machine may promise | `outcome`, `ran` | `Run`, `Settle`, `Break` |
| `ParkedCards` | `pending_confirms.json` under its two writers, a turn's cards and the core's, the window's bus and the Qt thread behind it | `file`; `taken` a process's read before its write; `clobbered`, `torn`, `broken` (histories) what stale, late, failed or half written saves did; `link` the socket; `bus`, `view`; `open`, `queue`, `restoring` of the window; `waiter` of a turn; `sends` under way | `CoreDrafts`, `CoreSaves`, `LinkDelivers`; `TurnAsks`, `TimesOut`, `OnConfirm`, `OnReply`, `OnCancel`, `WindowSaves`; `ShowConfirm`, `ShowReply`, `ShowCancel`, `ShowNext`, `Decide`, `PressStop`, `PhoneDecides`; `Opens`, `RestoresParked`, `SendRuns`, `WindowEnds`, `CoreEnds` … |
| `Speech` | `VoiceService`'s speaking half, one action per stretch between two awaits | `speak`, `leaving` the window's mode; `turn` the draft that streams and what of it earlier rounds kept; `raw`, `spoken`, `utter`, `open`, `heard` the buffer; `pending`, `seq`, `cancelled`; `drain` the drain task; `line` = `_speak_lock`; `task` each reply's `on_speak` | `OnDelta`, `KeepDraft`, `OnRetract`, `OnTurnError`, `OnTurnCancel`, `CancelSpeech`, `OnSpeak`, `SpeakNothing`; `DrainStarts`, `DrainNext`, `DrainClip`, `DrainFails`; `WholeStarts` … `WholeFails`; `LeaveConversation`, `EnterConversation` |
| `RelayMailbox` | the relay's slot, the house's loop and pool, the phone's handler | `pending`, `calls`, `queue` of the slot; `loop`, `orphans`, `seen` for `inflight` and `last_seen`; `job` of each call in the house | `Accept`, `TurnAway`, `FetchReply`, `FetchChunk`, `TimeOut`; `Poll`, `Take`, `OrphanTakes`; `Begin`, `Repeat`, `PostLine`, `PostEnd`, `PostClose`, `PostFail`; `Stop`, `HouseCrash`, `RelayRestart` … |

`MC*` modules give TLC its instances. `*Proofs` modules hold theorems. An operator marked
"Mutant of …" is a broken form of the definition after it, kept to show that a run would
notice the bug; it is used by no specification.

Conventions: one action is what an actor does between two points where another may run;
history variables (marked so) record what a property needs and no guard reads; bounds are
constants named `Max…` and stand in the guards.

### What the models leave to choice

* `PresenceLock`: whether the code around the mutex raises (`MayFallBack`), and whether the
  byte lock admits a process beside another (`MayDoubleAdmit`): `lock.py:65-66` says that it
  "can occasionally double-admit".
* `Turns`: what the model says, which tool it calls, whether the ask named that call and
  whether something forces its card (a private address in the arguments, a program's call after
  a declined one), and whether a step fails. Cards may be
  answered early, late, twice or never. Handlers start in the order of their events. Of the
  order of ready tasks only this is used: the continuation that was woken by the end of the
  turn it cancelled goes on before the next turn's task takes its first step (`RestartDue` in
  `Begin`). Both hang on the cancelled task, the continuation directly, the next turn behind
  the lock's hand-over and a `create_task`, and asyncio runs ready callbacks first in, first out.
* `TextIngest`: `publish_inbound` and the rows of a poll give the event loop back only
  after the event is on the bus, so one text is on the desk at a time and only a crash
  separates its three steps (id saved, fingerprint saved, event). Each save may raise, after
  the memory was changed: the handling ends there, and the file is as before or is broken off,
  which the next start reads as empty; a load may fail as well. A crash inside a write is such
  a save and the crash after it. One clock tick is about half an hour, and
  none falls inside a stretch of the loop.
* `TextDelivery`: a request or an answer may be lost or late, and a post that timed out may
  still be handled. A thread never repeats an attempt that is still on the wire under the
  same number.
* `ParkedCards`: who drafts, what is answered and where; when the Qt thread catches up, the
  two processes read and write the file, and either of them ends. A read that fails gives no rows; a save may
  raise at its write or its replace. The two processes' temporary file has one name: between
  the other's read and write, a save may put the other's half written file in place, which then
  reads as empty. Writing that file and replacing the store are one step otherwise, since a
  whole file of the other is the other's save and a name that is gone is a save that raised.
  A send takes a step of its own, which a crash may cut off.
* `Speech`: what a draft says, where it stops, and whether its last sentence is short enough to
  wait for more; whether a draft is kept when its tool does not start, a rendering fails, or the
  synthesizer has a problem when `on_speak` asks. Two replies may overlap at the synthesizer.
* `RelayMailbox`: an orphan is the relay's handler of a poll whose connection died; it lives
  up to 20 s and swallows the next call. `seen` (35 s) ages only while no poll is
  outstanding, because a poll lasts 20 s at most. The order in which the pool begins queued
  calls is left open. A call in `Foreign` may be sealed under a key the house has dropped.

## 3. Runs

| Run | Instance | What it shows |
|---|---|---|
| `presence_lock` | 3 Windows processes, 4 inodes, mutex code that may raise, a byte lock that may admit two | `MutualExclusion`, `AtomicSpec` (implements `AtomicLock`), `SidecarSpared`, crashes between any two calls: what the mutex gives, and what is left without it |
| `session_seats` | 2 cores, 2 windows, 4 tokens, file of an earlier session or none | `HelloMatches`, `SeatHasToken`, `NoRotationUnderASeat` |
| `turns_cards` | a research message with 2 tool calls, free or a write, named by the ask or not, forced or not, and pages the program looks at; answers of all four kinds; a continuation, one Stop, weak fairness | `ToolNeedsItsAllow`, `StoppedTurnWindsDown`, `EveryInputEnds` |
| `turns_queue` | 2 messages (path card before, path card under the lock), a continuation, Stop, switch, sync | `OneTerminal`, `AnswerSeesItsAsk`, `NobodyIsStranded`, `QuietOnlyUnanswered`, `OneAtATime` (implements `SerialTurns`) |
| `turns_tool_after_stop` | one message, one tool call, one Stop | **violation** of `NoToolAfterStop` |
| `text_ingest` | 3 texts: one repeats another's words, one is named differently by the two sources; id memory 1, burst 1, a crash, a save or load that fails, a tick past both limits | `AnnouncedOnce`, `SeenIsHandled` |
| `text_delivery` | 1 text, listener and one flush thread, 2 tries each, one flush, a death of the phone, a crash of the house, a save of the house that fails, a text the parser drops, SMSGate | `AckedIsHandled` |
| `text_queue` | 1 text, one flush, nothing crashes | **violation** of `QueuedStays` |
| `relay_mailbox` | a plain call and a stream of 2 lines, one worker, 3 faults | `OncePerCall` (implements `RemoteCall`), `NobodyForgotten`, `StreamIsWhole` |
| `parked_cards` | 2 cards, one end of a process, one mishap (a read or save that fails, a Stop, the end of a turn), the Qt thread one event behind | `SendNeedsItsAllow`, `SentTwiceOnlyIfUndone`, `LeavesByAnswer` |
| `parked_allow` | 1 card, nothing crashes | **violation** of `CoreAllowSends` |
| `speech` | a reply of two sentences or a short one, then one that repeats its first or has none; drafts withdrawn or kept, and the rest, up to 2 upsets; weak fairness | `SpokenWhole`, `NothingIsStuck`, `WithdrawnStaysSilent`, `DoneIsLast`, `EverySpeakCloses` |

Why the bounds are enough to meet the interesting cases:

* *Locks.* The races are between a releaser, a newcomer that opened the old file and one
  that makes a new file: three processes. Each may have a file of its own, and one more
  inode is always free. Processes and inodes are interchangeable (`SYMMETRY`).
* *Seats.* Two of each kind cover a double start on either side and a restart beside a
  running seat. Four tokens: the old file, one for each racing seat and one more.
* *Turns.* A hazard needs a turn, what disturbs it, and what comes next. The two big
  runs split the questions: cards, tools and liveness with a message and a continuation behind
  it, locks and switches with three inputs. `MaxCalls` is a bound for each input: the message
  of `turns_cards` calls twice, its continuation answers at once. A `write` stands for the calls
  with most roads (setting, named, rest of the ask, forced card); `send`, which has none, runs in
  `turns_tool_after_stop`, and the proof covers all kinds. `MaxBus` limits only what the outside publishes ahead of the handlers; the
  program's own events are not limited.
* *Texts.* An id memory of 1 makes the second id push out the first, which takes 501 in the
  code; one tick puts the clock at both limits. Where they are configured (30 min, 2 h) they leave a
  skew of 90 min, and `ClockAssumption` says so; the proof covers limits apart and any skew
  between. One failed save meets one crash and one tick in every order.
* *Cards.* One card on screen and one behind it; one stale write-back, one crash and one
  mishap meet in every order. The cards are interchangeable (`SYMMETRY`). Two backlogs are enough: an
  answer handled on the bus and not yet shown, and a card announced behind it.
* *Speech.* A reply in the synthesizer and one that follows it; a draft of two sentences has one
  in the renderer while one waits. Two upsets are a withdrawal, or
  a draft that was kept, and what goes wrong during it.
* *Relay.* Two calls and one worker make one wait for the other; two lines give a middle;
  three faults let a poll die, its orphan swallow a call, and a stop come on top.

TLC's own deadlock check is off (`CHECK_DEADLOCK FALSE`) in `turns_*`, `text_*`, `relay_mailbox`,
`parked_*` and `speech`:
once every input has ended and every bound is used up, nothing has to happen. What a deadlock
would be there is an invariant: `NobodyIsStranded` (a message is in some queue until it is
served, and somebody can go on without the user) and `NothingIsStuck` (the same for
sentences, replies and withdrawals). Both are the safety half of the liveness property beside them
and, unlike it, proved.

**Fairness.** In `turns_cards`, `WF` on the bus's handlers, on each input's handler and on each
turn's task: asyncio runs every ready task, the model's stream and every tool have time limits,
and a card waits `confirm_timeout_s`, 300 s, and then skips itself. In `speech`, `WF` on the
drain task, on each reply's `on_speak` and on a withdrawal that waits: each is a task of the same
loop, and a rendering returns or raises. No fairness on the user or the model: nobody has to
answer, stop, send or stream anything.

## 4. Findings

1. **A Stop that is swallowed** (`turns_tool_after_stop`). After an Allow the asker cancels
   the card's heartbeat and awaits it under `suppress(asyncio.CancelledError)`
   (`turn_confirm.py:355-358`). A Stop handled at that moment is suppressed too, and the
   tool starts and runs to its end.
2. **An Allow that sends nothing** (`parked_allow`). A draft the core forwards to an attached
   window has no waiter, and is not among `_restoring_confirm_ids`, which only the launch fills
   (`launch.py:833`). Its Allow takes it out of the file and nobody sends it, though
   `window_turn.py:327` says "Restored / core-parked cards have no live waiter — Allow must send
   here."
3. **A text lost on the phone** (`text_queue`). A flush reads the queue, posts for seconds
   or minutes, and writes back what it read; what the listener put there meanwhile is gone
   (`InboundWorker.kt:47`).

Met while modelling, and judged by no run:

* `lock.py:65-66` says the byte lock of msvcrt "can occasionally double-admit", and the mutex
  that is there for it is given up by `except Exception: pass` (`lock.py:88-89`). `PresenceLock`
  has both. What holds then: processes that have the mutex share an atomic lock among
  themselves (`AtomicSpec`), and it is this lock that `SessionSeats` builds on; two processes hold
  at once only if the byte lock admitted one beside the other and one of them runs without the
  mutex (`MutualExclusion`). In that case two do hold.
* On POSIX `release()` unlinks the path after it unlocked and closed the file. A process that
  opened the old file in between locks that, another creates and locks a new one, and both run.
  `PresenceLock` has these steps: `MutualExclusion` fails with `Nt = FALSE`.
* A continuation that cancels a turn which still waits for the GPU, before its message is
  written, loses that message, though `orchestrator.py:145` says "The fragment row stays".
* A Stop during the wait of a merge does not reach the restarted turn; a Stop on a path card
  keeps the previous ask as the stopped one; a Stop during a GPU wait marks the previous,
  answered message as stopped.
* A spoken Stop takes a turn's card off the screen and leaves it in `pending_confirms.json`; a
  card behind one that an error or another screen's answer took away stays off the screen until
  the next decision.
* A reply that waits for `_speak_lock` when a Stop comes takes its number afterwards and is
  spoken; the window has cut the playback by then.
* `server.py:4` says a phone gets 503 if no house holds a poll, while `house_here` also accepts
  calls up to 35 s after the last one.
* After a save of the store that failed, `publish_inbound` has the id in memory and the post is
  answered 500 (`sms_ingest.py:865-868`); its retry is answered 200 "duplicate", and the phone
  forgets a text nobody was told of. `SeenIsHandled` and `AckedIsHandled` excuse this text by name
  (`failed`), as they do the one a crash fell on (`cut`).
* A `get()` of the card store whose read fails finds nothing: the Allow of a restored card then
  sends nothing, and the card is removed (`window_turn.py:327-335`). A read that fails inside
  `upsert` or `remove` empties the store of every other card at the save that follows.
* The rest of the ask covers more than `policy.py` says. `NEVER_BATCH` (`policy.py:104-107`,
  "Approved one at a time, never covered by 'allow all this turn'") lists the inbox and
  `batch_ok` (`policy.py:517-521`) rules out payments, yet `confirm_toggles_for_call` (524-545) lets a
  turn that was allowed the rest move mail and pay in the browser without a card.
* The rest of the ask that the program takes for its own look at pages (`turn_round.py:450`,
  `1109`) stays for the rest of the turn: a file the model writes afterwards has no card.
* "Don't ask again" on a card for a path counts as a refusal (`orchestrator_turns.py:376`).
* After a native tool call that was declined the draft stays on screen and in the voice's count
  (`turn_dispatch.py:182-188`). `on_speak` is given the last round's text alone, takes the kept
  sentences for as many of it and leaves up to so many of its last ones unsaid, a whole short
  answer among them, though `events.py:55-56` says that VOICE_SPEAK "flushes any remainder from the
  final written answer". `_finish` does not retract (`agent_loop.py:2101-2111`), since what
  streamed in the last round is a beginning of its text. `SpokenWhole` excuses such a reply by name
  (`kept`).
* A synthesizer that has a problem when `on_speak` asks ends the reply with a VOICE_SPEECH_DONE
  of number 0 at once, while a sentence may still be in the synthesizer.

## 5. Proofs

Every theorem holds for any value of the constants that meets the module's named
assumptions; none of them bounds the number of processes, inputs, texts, calls or crashes.

| Module | Theorem | Argument |
|---|---|---|
| `PresenceLockProofs` | `TypeCorrect`; `WindowsMutualExclusion`, `WindowsImplementsAtomic`, `WindowsSidecar` (all three assume `Nt`) | `FileInv`: who is between open and close has the file the path names (Windows deletes no open file), and its lock has admitted exactly those who are past it, all but one of them beside another (`doubled`). `MutexInv`: of the processes past the mutex that have it there is one. Mutual exclusion needs both: without `doubled` the file lock excludes, and with it the mutex excludes those that have one. The refinement maps the owner to whoever has the mutex and is between the byte lock and its release; it rests on `MutexInv` and not on the byte lock. So does the sidecar. |
| `SessionSeatsProofs` | `SeatTypes`, `HelloAlwaysMatches`, `SeatsHaveTokens`, `TokenStable` | `SeatInv`: a seat owns its lock; one that may rotate owns the other lock too, so no other kind is up; a seated process past its claim has seen a token; a hello on its way comes from a window that is up. `HelloMatches` alone is not inductive: a rotation would break it were it not for the two locks. |
| `TurnsProofs` | `TypeCorrect`, `EndsOnce`, `MergeSparesAnswers`, `NothingRunsUnallowed`, `AnswersSeeTheirAsk`, `StoppedMeansOver`, `WaitingEnds`, `TurnsImplementSerial` | `TurnInv` ties the phases to the lock and to `merging`, `quietly` and `stopping`, and counts terminal events phase by phase. `AllowInv` follows an answer from the user through the bus and the future to the calls it lets run: every reply on the bus was said or is the skip of a lapsed card (`ReplyInv`, `WaiterInv`, `LapsedInv`); a call in hand that has a card is among those carded (`OwnInv`), and one that was allowed has its own yes (`YesInv`); the rest of the ask stems from a yes to an earlier card of this turn or from the program's look at pages (`GrantInv`); a setting that is off was so at the start or was switched off by a yes to a card that may (`OffInv`); and a call that runs without a card has one of these, or the ask that named it, behind it (`BackedInv`). `RowsKept`: while a turn is live no step takes a row away or gives it to another, and a turn reaches the model only with its row or by writing it. `StopInv`: in a stopped turn the flag is up and the cancellation pending, or it runs the tool that was allowed before; it needs `RestartDue`, for a continuation lowers the flag. `PlaceInv`: the inputs that are sent, queued or spoken are exactly those on the bus, in the queue and in line for the voice lock, each once, a continuation that restarts a turn is first in its line, and whoever asked has its future; so the head of a line, the holder of the turn lock or the asker always has a step of its own. The refinement maps a phase to waiting, running or a way to have left; that nobody runs when a turn starts, and that no end is told twice, is `TurnInv`. |
| `TextProofs` | `IngestTypeCorrect`, `AnnouncedAtMostOnce`, `SeenMeansHandled`, `DeliveryImplementsIngest`, `AckedMeansHandled` | `OnceInv`: an announced text has left a fingerprint that lasts as long as the text counts as fresh, or else is stale (here `ClockAssumption` is used); `FreshIsUnspent` then says that what is put on the desk to be announced has not been. A save that fails changes the memory and not the file, so both carry the claim (`SpentIsMarked`, and `forgotten` for a start that reads nothing). `HandledInv`: each id and fingerprint, in memory and in the file, has an origin that was told, is on the desk or is excused. The delivery proof maps each of its steps to a step of the house or a stutter, and `DeliveryInv` carries `SeenIsHandled` over the wire: an answer is true when it is sent and stays so. |
| `RelayProofs` | `RelayTypeCorrect`, `MailboxImplementsCall`, `NobodyIsForgotten`, `StreamsAreWhole` | `OnceInv`: a call is in the queue once, only before the house has it, and its run count follows its job, so a taken call never comes back. `CareInv` adds: a waiting call nobody took is in the queue; a job that is over has posted, or something was lost. `StreamInv` adds: what the phone has read and what is queued for it are, in order, what was posted, and the end comes after the last line. |
| `ParkedProofs` | `SendsAreAllowed`, `ParkedUntilAnswered`, `TwiceOnlyIfUndone` | `Backed`: whatever travels on a bus stems from a draft, an answer given, an Allow counted. `SendInv`: a card a turn waits for was neither restored nor sent, so the waiter and the window never both carry out one Allow; a removal about to be written back is one that was answered (`WriteBack`), and what the write-back of a stale or failed read and a half written file drop is recorded (`clobbered`, `broken`), as is a removal that was not written (`torn`). The second send: `PastInv` says of each card what its sends, Allows and copies on the way add up to; `StoreInv` what the file and the two read copies may still hold of an answered card; `AnswerInv` that a card whose answer stands, undone by none of these, is neither asked, restored nor owed again (`OpeningInv`, `RestoredInv`, `OwedInv`, `OnceInv`). |
| `SpeechProofs` | `SpeechTypeCorrect`, `NothingAfterDone`, `TakenBackStaysUnsaid`, `WaitersAreServed` | `LineInv`: the drain or one reply is inside `_speak_lock`. `NumberInv`: above the cancel mark (`Voiced`) the drain renders under a number whose last word has not been given, the open stream's if there is one. `WholeInv`: a reply spoken whole has a number of its own. `DraftInv`: what was withdrawn is in no buffer and no queue, and in the synthesizer only under a cancelled number, or as a sentence no mark reached when it was taken back (`spared`: `on_speak`'s own, or the drain's between the two halves of leaving the conversation). `WaitInv`: in line for `_speak_lock` are exactly the drain and the replies past its door, each once, and when the drain is over nothing is queued and nobody still waits for it. |
| `SpokenProofs` | `NothingLeftUnsaid` | What is coming for a reply (`Coming`: the sentence in the synthesizer, if it is `Voiced`, and the queue) is what the text goes on with after the clips that are out (`Tells`). Before anything of a draft is out, `heard_sentence_count` finds exactly how far the earlier clips agree with it (`CountIs`), so the next sentence is the first that differs; afterwards `_spoken_count` goes on from there. `BufferInv`: a closed stream has an empty queue, and while nobody speaks an empty buffer is a closed stream. `LiveInv` ties the buffer to the text of the reply while it streams, kept drafts included, and `TaskInv` speaks of it in the hands of `on_speak`, there only of one that kept none; replies to come are untold, and one that was stopped, failed or met another is excused. |

Only model-checked: liveness (`EveryInputEnds`, `EverySpeakCloses`), since the prover does not
handle fairness and ENABLED, and the three violations. Nothing recursive over data is
defined, and the induction such a definition would need is out of the prover's reach.

To check: `tlc -config <run>.cfg MC<module>` and `tlapm <Module>Proofs.tla`. The proofs take
a few minutes; leaves that need longer than the prover's default say so (`SMTT(20)`).

## 6. Not modelled, and why

* In the modelled parts. `Turns`: pause and resume, slash commands, hang-up and
  repeat phrases, headset barge-in, the fan-out of read-only tools (it joins before the round
  goes on), and the branch of `_merge_voice_follow` that keeps an answer, which a cancelled task
  never reaches; Filament's cards in voice mode, the settings window while a turn runs (only
  `OffAtStart`), and a repeat of a declined call, which is skipped without a card. A call of
  Python after a program that was declined and a script whose bytes nobody approved are
  `Forced`. `TextIngest`: pictures, contacts.
  `TextDelivery`: the 30-day expiry of the queue, pairing, re-posted notifications.
  `ParkedCards`: a spoken yes or no, a phone chat that keeps cards off the screen,
  an auto-reply drafted in the window itself. `Speech`: how a text is cut into sentences, the
  player, the half that listens, a cue of another producer that is spoken while a turn streams.
  `RelayMailbox`: wrong tokens, oversized blobs, several instances (their slots share nothing), and a phone that tries the relay after the LAN, whose second attempt is a
  call of its own.
* Pure I/O, wording and numerics: tools, calendar, location, research, briefing, desktop,
  setup, telemetry, the heuristics of a turn, persona, spatial, earth, physics, science.
* Not part of the running system: eval board, installers, scripts, sentinel, assets.
* The user interface, whose inputs are the environment of `Turns`; of it only the cards' part is
  in `ParkedCards`.
* The doors of a window (`glass_inbound.py`), the phone's talk queue, jobs, browser reservation:
  small protocols of probes and time-outs, see the next section.

## 7. What is left, in order of worth

1. The doors of a window: core, window and the port; claim, sibling, takeover. It would
   compose with the locks of `SessionSeats`. Its two hazards (a watch that never claims again;
   two listeners after check, then bind) are listed at their lines.
2. A turn over the LAN and then over the relay: `RemoteCall` twice, and what the phone may know.
3. The IPC bridge and the phone's bridge: attach, replay and leave in the middle of a turn.
4. Jobs, browser reservation, the event bus with failing subscribers.

Runs stay few: a new module brings one run, and runs that ask the same question of neighbouring
modules are merged (`turns_cards` carries the liveness, `text_ingest` is the house of
`text_delivery`).
