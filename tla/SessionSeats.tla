---------------------------- MODULE SessionSeats ----------------------------
(* The seats of one user's session and the token they share.                  *)
(*                                                                            *)
(* A core (`arelis --core`, run_core of src/arelis/presence/core.py) takes    *)
(* the core lock, a desktop window (run_ui of src/arelis/ui/launch.py) takes  *)
(* the UI lock, and each then calls claim_session_token with the other's      *)
(* lock: the first process of a session writes a new token, every later one   *)
(* reads the file.  A client sends the token on hello and the IPC server      *)
(* compares it with the file again (src/arelis/presence/ipc_token.py).        *)
(* Each lock is an AtomicLock here, as PresenceLock shows it to be for the     *)
(* processes that have the named mutex.                                       *)
EXTENDS Naturals

CONSTANTS
  Core,        \* processes started as `arelis --core`
  Glass,       \* processes started as the desktop window
  None,        \* nobody
  MaxToken     \* bound: tokens are numbered up to this one

ASSUME SessionSeatsAssumption ==
  /\ Core \cap Glass = {}
  /\ None \notin Core \cup Glass
  /\ MaxToken \in Nat

Proc == Core \cup Glass
NoToken == 0

VARIABLES
  pc,      \* where each process is in its start-up, its life or its exit
  lock,    \* the owner of the core lock and of the UI lock
  token,   \* the contents of ipc.token, NoToken when the file is missing
  newest,  \* the last token any process generated
  sent,    \* the token a window's client read for its hello, or NoToken
  raced    \* history: a seat that found no file has replaced one made since

vars == <<pc, lock, token, newest, sent, raced>>

Own(p) == IF p \in Core THEN "core" ELSE "ui"
Other(p) == IF p \in Core THEN "ui" ELSE "core"

Steps == {"down", "refused", "waiting", "claim", "rotate", "unclaim", "read", "create",
          "up", "probe"}

\* A process that has its own lock and is past claim_session_token().
Up(p) == pc[p] \in {"up", "probe"}
Seated(p) == pc[p] \notin {"down", "refused", "waiting"}

TypeOK ==
  /\ pc \in [Proc -> Steps]
  /\ lock \in [{"core", "ui"} -> Proc \cup {None}]
  /\ token \in Nat
  /\ newest \in Nat
  /\ sent \in [Proc -> Nat]
  /\ raced \in BOOLEAN

Init ==
  /\ pc = [p \in Proc |-> "down"]
  /\ lock = [l \in {"core", "ui"} |-> None]
  /\ token \in {NoToken, 1}     \* 1: the file of an earlier session
  /\ newest = 1
  /\ sent = [p \in Proc |-> NoToken]
  /\ raced = FALSE

Goto(p, s) == pc' = [pc EXCEPT ![p] = s]

-----------------------------------------------------------------------------
(* Start-up *)

TakeOwnLock(p) ==
  /\ pc[p] \in {"down", "waiting"}
  /\ lock[Own(p)] = None
  /\ lock' = [lock EXCEPT ![Own(p)] = p]
  /\ Goto(p, "claim")
  /\ UNCHANGED <<token, newest, sent, raced>>

\* run_core() logs that another core holds the lock and exits with code 2.
RefuseCore(p) ==
  /\ p \in Core
  /\ pc[p] = "down"
  /\ lock["core"] # None
  /\ Goto(p, "refused")
  /\ UNCHANGED <<lock, token, newest, sent, raced>>

\* The user or the scheduled start tries again.
StartAgain(p) ==
  /\ pc[p] = "refused"
  /\ Goto(p, "down")
  /\ UNCHANGED <<lock, token, newest, sent, raced>>

\* _second_launch(): ask the running window to show, and retry the lock while
\* it finishes quitting; it exits when the window answers or after its tries.
SecondLaunch(p) ==
  /\ p \in Glass
  /\ pc[p] = "down"
  /\ lock["ui"] # None
  /\ Goto(p, "waiting")
  /\ UNCHANGED <<lock, token, newest, sent, raced>>

LeaveSecondLaunch(p) ==
  /\ pc[p] = "waiting"
  /\ Goto(p, "down")
  /\ UNCHANGED <<lock, token, newest, sent, raced>>

\* Mutant of Claim: the other lock is looked at but not held while rotating.
ClaimWithoutHolding(p) ==
  /\ pc[p] = "claim"
  /\ lock' = lock
  /\ Goto(p, IF lock[Other(p)] = None THEN "rotate" ELSE "read")
  /\ UNCHANGED <<token, newest, sent, raced>>

\* Mutant of Claim: every seat rotates.
ClaimAlwaysRotates(p) ==
  /\ pc[p] = "claim"
  /\ lock' = [lock EXCEPT ![Other(p)] = IF @ = None THEN p ELSE @]
  /\ Goto(p, "rotate")
  /\ UNCHANGED <<token, newest, sent, raced>>

\* claim_session_token(): rotate only if the other seat's lock is free, and
\* hold that lock meanwhile.
Claim(p) ==
  /\ pc[p] = "claim"
  /\ IF lock[Other(p)] = None
     THEN lock' = [lock EXCEPT ![Other(p)] = p] /\ Goto(p, "rotate")
     ELSE lock' = lock /\ Goto(p, "read")
  /\ UNCHANGED <<token, newest, sent, raced>>

\* secrets.token_urlsafe and os.replace: a new token takes the file's place.
WriteToken ==
  /\ newest < MaxToken
  /\ newest' = newest + 1
  /\ token' = newest + 1

Rotate(p) ==
  /\ pc[p] = "rotate"
  /\ WriteToken
  /\ Goto(p, "unclaim")
  /\ UNCHANGED <<lock, sent, raced>>

Unclaim(p) ==
  /\ pc[p] = "unclaim"
  /\ lock' = [lock EXCEPT ![Other(p)] = None]
  /\ Goto(p, "up")
  /\ UNCHANGED <<token, newest, sent, raced>>

\* Mutant of ReadToken: a missing file stays missing.
ReadTokenOnly(p) ==
  /\ pc[p] = "read"
  /\ Goto(p, "up")
  /\ UNCHANGED <<lock, token, newest, sent, raced>>

\* ensure_token(rotate=False): keep the file, or write one if it is missing.
ReadToken(p) ==
  /\ pc[p] = "read"
  /\ Goto(p, IF token = NoToken THEN "create" ELSE "up")
  /\ UNCHANGED <<lock, token, newest, sent, raced>>

CreateToken(p) ==
  /\ pc[p] = "create"
  /\ WriteToken
  /\ raced' = (raced \/ token # NoToken)
  /\ Goto(p, "up")
  /\ UNCHANGED <<lock, sent>>

-----------------------------------------------------------------------------
(* The life of a seat *)

\* lock_held_by_other(): a probe takes the other lock when it is free, and
\* gives it back.  The window asks it of the core lock, the core of the UI lock.
Probe(p) ==
  /\ pc[p] = "up"
  /\ lock[Other(p)] = None
  /\ lock' = [lock EXCEPT ![Other(p)] = p]
  /\ Goto(p, "probe")
  /\ UNCHANGED <<token, newest, sent, raced>>

EndProbe(p) ==
  /\ pc[p] = "probe"
  /\ lock' = [lock EXCEPT ![Other(p)] = None]
  /\ Goto(p, "up")
  /\ UNCHANGED <<token, newest, sent, raced>>

\* The window's client reads the file to say hello to the core.
ReadForHello(p) ==
  /\ p \in Glass
  /\ Up(p)
  /\ sent[p] = NoToken
  /\ sent' = [sent EXCEPT ![p] = token]
  /\ UNCHANGED <<pc, lock, token, newest, raced>>

\* The hello is answered, or its connection is lost, and the next connection
\* reads the file again.
HelloDone(p) ==
  /\ sent[p] # NoToken
  /\ sent' = [sent EXCEPT ![p] = NoToken]
  /\ UNCHANGED <<pc, lock, token, newest, raced>>

\* A clean exit releases the process's own lock.
Quit(p) ==
  /\ pc[p] = "up"
  /\ lock' = [lock EXCEPT ![Own(p)] = None]
  /\ Goto(p, "down")
  /\ sent' = [sent EXCEPT ![p] = NoToken]
  /\ UNCHANGED <<token, newest, raced>>

\* A process dies anywhere, with whatever locks it owns.
Crash(p) ==
  /\ Seated(p)
  /\ lock' = [l \in {"core", "ui"} |-> IF lock[l] = p THEN None ELSE lock[l]]
  /\ Goto(p, "down")
  /\ sent' = [sent EXCEPT ![p] = NoToken]
  /\ UNCHANGED <<token, newest, raced>>

StartUp(p) == \/ TakeOwnLock(p) \/ RefuseCore(p) \/ StartAgain(p)
              \/ SecondLaunch(p) \/ LeaveSecondLaunch(p) \/ Claim(p)
              \/ Rotate(p) \/ Unclaim(p) \/ ReadToken(p) \/ CreateToken(p)

Life(p) == \/ Probe(p) \/ EndProbe(p) \/ ReadForHello(p) \/ HelloDone(p)
           \/ Quit(p) \/ Crash(p)

Next == \E p \in Proc : StartUp(p) \/ Life(p)

Spec == Init /\ [][Next]_vars

-----------------------------------------------------------------------------
(* Properties *)

\* A new token never replaces the file under a seat that is up: replacing it
\* would lock that seat out of the bridge (claim_session_token).  The exception
\* is the race of the first run: two seats that both found no file.
NoRotationUnderASeat ==
  [][token' # token /\ ~raced' => \A p \in Proc : ~Up(p)]_vars

\* The hello a window has on its way carries the token the core will read when
\* it checks it, whatever seats came, left or crashed in between, unless the
\* first file of the user was made twice.
HelloMatches ==
  ~raced => \A p \in Glass : sent[p] # NoToken => sent[p] = token

\* A seat that is up, whether it came up alone or beside another, with or
\* without a file from an earlier session, has a token to hand out.
SeatHasToken == (\E p \in Proc : Up(p)) => token # NoToken
=============================================================================
