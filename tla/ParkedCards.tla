---------------------------- MODULE ParkedCards ----------------------------
(* The Allow cards of texts and mails, which outlive the window.              *)
(*                                                                            *)
(* A card for send_sms or send_email is written to pending_confirms.json when *)
(* it is announced and taken out when it is answered.  Two processes do so:   *)
(* the window (ConfirmPersister) and the headless core (core.py), each behind *)
(* a lock of its own object, so that a read and the write that follows it may *)
(* have the other process's write in between.  The core's drafts have nobody  *)
(* who waits for the answer: it saves them and forwards them to an attached   *)
(* window.  The cards of a turn have a waiter in the window's orchestrator.   *)
(* A window that starts shows what the file holds and carries out the Allow   *)
(* itself.                                                                    *)
(*                                                                            *)
(* A read that fails returns no rows, and the caller goes on with that.  A    *)
(* save writes a file beside the store, under a name both processes use, and  *)
(* replaces the store with it: the write or the replace may raise, and        *)
(* then the handler of the event ends.  If the other process is between its   *)
(* own read and write, what is put in place may be that process's half        *)
(* written file, which the next read takes for empty.  The other ways the two *)
(* can share the name come to one of these: a whole file of the other is the  *)
(* other's save, and the one who finds the name gone has a save that raised.  *)
EXTENDS Naturals, Sequences, SequencesExt

CONSTANTS
  Card,        \* ids of cards, each drafted once
  NoCard,
  MaxCrashes,  \* bound: ends of the window or the core
  MaxMishaps,  \* bound: reads and saves of the file that fail, Stops and ends of turns
  MaxBus,      \* bound: events on the window's bus not yet handled
  MaxLag       \* bound: events the Qt thread may be behind the bus

ASSUME ParkedAssumption ==
  /\ NoCard \notin Card
  /\ MaxCrashes \in Nat /\ MaxMishaps \in Nat /\ MaxBus \in Nat
  /\ MaxLag \in Nat \ {0}

VARIABLES
  file,      \* pending_confirms.json
  taken,     \* each process's read of the file that it is about to write back
  core,      \* the core runs
  link,      \* cards on the socket to the window
  win,       \* the window's life: "down", "opening", "up"
  client,    \* the window was started to attach to a core
  attached,  \* the core counts it among its clients
  bus,       \* the window's bus, in publish order
  view,      \* the events mirrored to the Qt thread and not yet shown
  open,      \* the card on screen
  queue,     \* _pending_queue
  restoring, \* _restoring_confirm_ids
  later,     \* _show_next_pending_confirm is scheduled
  echo,      \* _ignore_cancel_echo
  phone,     \* the card the window's mobile hub holds
  waiter,    \* cards whose answer a turn waits for
  sends,     \* cards whose send is under way in the window
  kind,      \* history: who drafted a card
  yes,       \* history: Allows given to it
  sent,      \* history: sends of it
  answered,  \* history: cards a reply was published for
  clobbered, \* history: cards the write-back of a stale or failed read dropped or
             \* brought back
  torn,      \* history: cards whose removal was not written, or undone by a late copy
  broken,    \* history: cards in the file when a half written one replaced it
  crashes, mishaps

storeVars == <<file, taken>>
linkVars == <<link, client, attached>>
glassVars == <<open, queue, restoring, later, echo>>
turnVars == <<waiter, sends>>
pastVars == <<kind, yes, sent, answered, clobbered, torn, broken>>
vars == <<storeVars, core, linkVars, win, bus, view, glassVars, phone, turnVars,
          pastVars, crashes, mishaps>>

Idle == [op |-> "none"]
Seats == {"core", "window"}
Event(t, c, d) == [type |-> t, card |-> c, decision |-> d]

EventType ==
  [type : {"confirm"}, card : Card, decision : {""}]
    \cup [type : {"reply"}, card : Card, decision : {"allow", "skip"}]
    \cup [type : {"cancel"}, card : {NoCard}, decision : {""}]

TypeOK ==
  /\ file \subseteq Card
  /\ taken \in [Seats -> {Idle} \cup [op : {"put", "drop"}, card : Card, items : SUBSET Card]]
  /\ core \in BOOLEAN
  /\ link \in Seq(Card)
  /\ win \in {"down", "opening", "up"}
  /\ client \in BOOLEAN /\ attached \in BOOLEAN
  /\ bus \in Seq(EventType) /\ view \in Seq(EventType)
  /\ open \in Card \cup {NoCard} /\ phone \in Card \cup {NoCard}
  /\ queue \subseteq Card /\ restoring \subseteq Card
  /\ later \in BOOLEAN /\ echo \in BOOLEAN
  /\ waiter \subseteq Card /\ sends \subseteq Card
  /\ kind \in [Card -> {"none", "core", "turn"}]
  /\ yes \in [Card -> Nat] /\ sent \in [Card -> Nat]
  /\ answered \subseteq Card /\ clobbered \subseteq Card /\ torn \subseteq Card
  /\ broken \subseteq Card
  /\ crashes \in 0 .. MaxCrashes /\ mishaps \in 0 .. MaxMishaps

Init ==
  /\ file = {} /\ taken = [s \in Seats |-> Idle]
  /\ core \in BOOLEAN
  /\ link = <<>> /\ client = FALSE /\ attached = FALSE
  /\ win = "down" /\ bus = <<>> /\ view = <<>>
  /\ open = NoCard /\ queue = {} /\ restoring = {} /\ later = FALSE /\ echo = FALSE
  /\ phone = NoCard /\ waiter = {} /\ sends = {}
  /\ kind = [c \in Card |-> "none"]
  /\ yes = [c \in Card |-> 0] /\ sent = [c \in Card |-> 0]
  /\ answered = {} /\ clobbered = {} /\ torn = {} /\ broken = {}
  /\ crashes = 0 /\ mishaps = 0

-----------------------------------------------------------------------------
(* The store: upsert and remove read the file, and write what they read       *)
(* without or with the card.                                                  *)

\* A read returns the rows of the file or, when it fails, none.
Reads(rows) ==
  \/ rows = file /\ UNCHANGED mishaps
  \/ rows = {} /\ file # {} /\ mishaps < MaxMishaps /\ mishaps' = mishaps + 1

Take(s, op, c, rows) ==
  /\ Reads(rows)
  /\ taken' = [taken EXCEPT ![s] = [op |-> op, card |-> c, items |-> rows]]

\* Mutant: upsert() writes the new card alone.
RowsOfTheNewest(t) == IF t.op = "put" THEN {t.card} ELSE t.items \ {t.card}

Rows(t) == IF t.op = "put" THEN t.items \cup {t.card} ELSE t.items \ {t.card}

\* Mutant: remove() forgets to save.
SavesPutsOnly(t) == t.op = "put"

\* remove() saves only when the card was among the rows it read.
Saves(t) == t.op = "put" \/ t.card \in t.items

\* What another process changed since the read, or the read has missed, is undone.
Saved(s) ==
  LET t == taken[s]
      stale == (t.items \ file) \cup (file \ t.items)
  IN  /\ file' = IF Saves(t) THEN Rows(t) ELSE file
      /\ clobbered' = clobbered \cup IF Saves(t) THEN stale \ {t.card} ELSE {}
      /\ UNCHANGED <<torn, broken, mishaps>>

\* A save that raises: the file is as it was, or what the other had half written.
SaveFails(s) ==
  LET t == taken[s] IN
  /\ Saves(t) /\ mishaps < MaxMishaps
  /\ mishaps' = mishaps + 1
  /\ torn' = IF t.op = "drop" THEN torn \cup {t.card} ELSE torn
  /\ \/ UNCHANGED <<file, broken>>
     \/ /\ \E other \in Seats \ {s} : taken[other] # Idle
        /\ file' = {} /\ broken' = broken \cup file
  /\ UNCHANGED clobbered

Save(s) == (Saved(s) \/ SaveFails(s)) /\ taken' = [taken EXCEPT ![s] = Idle]

-----------------------------------------------------------------------------
(* The core: an auto-reply draft is announced, saved, forwarded.              *)

CoreStarts ==
  /\ ~core /\ core' = TRUE
  /\ UNCHANGED <<storeVars, linkVars, win, bus, view, glassVars, phone,
                 turnVars, pastVars, crashes, mishaps>>

CoreEnds ==
  /\ core /\ crashes < MaxCrashes
  /\ crashes' = crashes + 1
  /\ core' = FALSE
  /\ taken' = [taken EXCEPT !["core"] = Idle]
  /\ link' = <<>> /\ attached' = FALSE
  /\ UNCHANGED <<file, client, win, bus, view, glassVars, phone, turnVars, pastVars,
                 mishaps>>

\* The draft's waiter is dropped as soon as the card is announced; the core's
\* handler of that event saves it.
CoreDrafts(c) ==
  /\ core /\ kind[c] = "none" /\ taken["core"] = Idle
  /\ kind' = [kind EXCEPT ![c] = "core"]
  /\ \E rows \in {file, {}} : Take("core", "put", c, rows)
  /\ UNCHANGED <<file, core, linkVars, win, bus, view, glassVars, phone, turnVars,
                 yes, sent, answered, clobbered, torn, broken, crashes>>

\* Then ensure_ui_open looks for a window, and the IPC server, a subscriber of its
\* own, forwards the event, saved or not.
CoreSaves ==
  /\ taken["core"] # Idle
  /\ Save("core")
  /\ link' = IF attached THEN Append(link, taken["core"].card) ELSE link
  /\ UNCHANGED <<core, client, attached, win, bus, view, glassVars, phone, turnVars,
                 kind, yes, sent, answered, crashes>>

-----------------------------------------------------------------------------
(* The window's life.                                                         *)

\* A window attaches if it finds a core, or was spawned by one that may be gone.
Opens ==
  /\ win = "down" /\ win' = "opening"
  /\ client' \in {core, TRUE}
  /\ UNCHANGED <<storeVars, core, link, attached, bus, view, glassVars, phone, turnVars,
                 pastVars, crashes, mishaps>>

Attaches ==
  /\ win # "down" /\ client /\ core /\ ~attached
  /\ attached' = TRUE
  /\ UNCHANGED <<storeVars, core, link, client, win, bus, view, glassVars, phone,
                 turnVars, pastVars, crashes, mishaps>>

\* The end of the launch: what the file holds is queued for the person.
RestoresParked ==
  /\ win = "opening" /\ win' = "up" /\ taken["window"] = Idle
  /\ \E rows \in {file, {}} :
       /\ Reads(rows)
       /\ queue' = rows /\ restoring' = rows
       /\ later' = (rows # {})
  /\ UNCHANGED <<storeVars, core, linkVars, bus, view, open, echo, phone, turnVars,
                 pastVars, crashes>>

\* Cards answered on the window's bus whose removal is not written yet.
Unsaved ==
  {c \in Card : \E i \in 1 .. Len(bus) : bus[i].type = "reply" /\ bus[i].card = c}
    \cup {c \in Card : taken["window"].op = "drop" /\ taken["window"].card = c}

\* Quit and crash alike take what the process held in memory.
WindowEnds ==
  /\ win # "down" /\ crashes < MaxCrashes
  /\ crashes' = crashes + 1
  /\ win' = "down" /\ client' = FALSE /\ attached' = FALSE /\ link' = <<>>
  /\ bus' = <<>> /\ view' = <<>>
  /\ open' = NoCard /\ queue' = {} /\ restoring' = {} /\ later' = FALSE /\ echo' = FALSE
  /\ phone' = NoCard /\ waiter' = {} /\ sends' = {}
  /\ taken' = [taken EXCEPT !["window"] = Idle]
  /\ torn' = torn \cup Unsaved
  /\ UNCHANGED <<file, core, kind, yes, sent, answered, clobbered, broken, mishaps>>

-----------------------------------------------------------------------------
(* The window's bus.  The mirror to the Qt thread and the hub are wildcard    *)
(* subscribers and run first; then the orchestrator, then the persister.      *)

Publish(e) == Len(bus) < MaxBus /\ bus' = Append(bus, e)

\* A turn asks for a send; the waiter is there before the event.
TurnAsks(c) ==
  /\ win = "up" /\ kind[c] = "none"
  /\ kind' = [kind EXCEPT ![c] = "turn"]
  /\ waiter' = waiter \cup {c}
  /\ Publish(Event("confirm", c, ""))
  /\ UNCHANGED <<storeVars, core, linkVars, win, view, glassVars, phone, sends,
                 yes, sent, answered, clobbered, torn, broken, crashes, mishaps>>

LinkDelivers ==
  /\ link # <<>> /\ attached
  /\ Publish(Event("confirm", Head(link), ""))
  /\ link' = Tail(link)
  /\ UNCHANGED <<storeVars, core, client, attached, win, view, glassVars, phone,
                 turnVars, pastVars, crashes, mishaps>>

Handled(t) ==
  /\ bus # <<>> /\ Head(bus).type = t /\ taken["window"] = Idle /\ Len(view) < MaxLag
  /\ bus' = Tail(bus) /\ view' = Append(view, Head(bus))

\* A forwarded copy that comes after the answer puts the card back.
OnConfirm ==
  LET c == Head(bus).card
  IN  /\ Handled("confirm")
      /\ \E rows \in {file, {}} : Take("window", "put", c, rows)
      /\ phone' = IF client THEN phone ELSE c
      /\ torn' = IF c \in answered THEN torn \cup {c} ELSE torn
      /\ UNCHANGED <<file, core, linkVars, win, glassVars, turnVars, kind, yes, sent,
                     answered, clobbered, broken, crashes>>

\* A removal that cannot read the card has nothing to save.
OnReply ==
  LET c == Head(bus).card
  IN  /\ Handled("reply")
      /\ \E rows \in {file, {}} :
           /\ Take("window", "drop", c, rows)
           /\ torn' = torn \cup ({c} \cap (file \ rows))
      /\ phone' = IF phone = c THEN NoCard ELSE phone
      /\ waiter' = waiter \ {c}
      /\ sends' = IF c \in waiter /\ Head(bus).decision = "allow" THEN sends \cup {c} ELSE sends
      /\ UNCHANGED <<file, core, linkVars, win, glassVars, kind, yes, sent, answered,
                     clobbered, broken, crashes>>

\* Stop skips every waiter, and cancels a turn whose send is under way.
OnCancel ==
  /\ Handled("cancel")
  /\ waiter' = {}
  /\ sends' \in {sends, {c \in sends : kind[c] = "core"}}
  /\ UNCHANGED <<storeVars, core, linkVars, win, glassVars, phone, pastVars, crashes,
                 mishaps>>

WindowSaves ==
  /\ taken["window"] # Idle
  /\ Save("window")
  /\ UNCHANGED <<core, linkVars, win, bus, view, glassVars, phone, turnVars,
                 kind, yes, sent, answered, crashes>>

\* The send tool ran, or failed: the card is gone from the file either way.
SendRuns(c) ==
  /\ c \in sends /\ sends' = sends \ {c}
  /\ \/ sent' = [sent EXCEPT ![c] = @ + 1]
     \/ UNCHANGED sent
  /\ UNCHANGED <<storeVars, core, linkVars, win, bus, view, glassVars, phone, waiter,
                 kind, yes, answered, clobbered, torn, broken, crashes, mishaps>>

TimesOut(c) ==
  /\ c \in waiter /\ waiter' = waiter \ {c}
  /\ Publish(Event("reply", c, "skip"))
  /\ answered' = answered \cup {c}
  /\ UNCHANGED <<storeVars, core, linkVars, win, view, glassVars, phone, sends,
                 kind, yes, sent, clobbered, torn, broken, crashes, mishaps>>

-----------------------------------------------------------------------------
(* The Qt thread.                                                             *)

Shown(t) == win = "up" /\ view # <<>> /\ Head(view).type = t /\ view' = Tail(view)

\* A new card takes the place of the one on screen.
ShowConfirm ==
  /\ Shown("confirm")
  /\ open' = Head(view).card
  /\ UNCHANGED <<storeVars, core, linkVars, win, bus, queue, restoring, later, echo,
                 phone, turnVars, pastVars, crashes, mishaps>>

ShowReply ==
  /\ Shown("reply")
  /\ open' = IF open = Head(view).card THEN NoCard ELSE open
  /\ UNCHANGED <<storeVars, core, linkVars, win, bus, queue, restoring, later, echo,
                 phone, turnVars, pastVars, crashes, mishaps>>

\* A Stop that this window did not press takes the card off without a reply.
ShowCancel ==
  /\ Shown("cancel") /\ echo' = FALSE
  /\ IF echo
     THEN UNCHANGED <<open, queue, restoring, later>>
     ELSE open' = NoCard /\ queue' = queue \ {open} /\ restoring' = restoring \ {open}
          /\ later' = TRUE
  /\ UNCHANGED <<storeVars, core, linkVars, win, bus, phone, turnVars, pastVars, crashes,
                 mishaps>>

\* The oldest of the queue; which it is makes no difference here.
ShowNext ==
  /\ win = "up" /\ later /\ later' = FALSE
  /\ IF open = NoCard /\ queue # {} THEN open' \in queue ELSE UNCHANGED open
  /\ UNCHANGED <<storeVars, core, linkVars, win, bus, view, queue, restoring, echo,
                 phone, turnVars, pastVars, crashes, mishaps>>

\* Mutant: the window carries out any Allow, waiter or not.
SendsHereAnyCard(c, d) == d = "allow"

\* Nobody waits for the answer to a restored card: its Allow sends from here.
SendsHere(c, d) == c \in restoring /\ d = "allow"

\* get() of the store finds the card to send, or not.
Decide(d) ==
  /\ win = "up" /\ open # NoCard /\ taken["window"] = Idle
  /\ open' = NoCard /\ queue' = queue \ {open} /\ restoring' = restoring \ {open}
  /\ later' = TRUE
  /\ Publish(Event("reply", open, d))
  /\ answered' = answered \cup {open}
  /\ yes' = IF d = "allow" THEN [yes EXCEPT ![open] = @ + 1] ELSE yes
  /\ \E rows \in {file, {}} :
       /\ Reads(rows)
       /\ sends' = IF SendsHere(open, d) /\ open \in rows THEN sends \cup {open} ELSE sends
  /\ UNCHANGED <<storeVars, core, linkVars, win, view, echo, phone, waiter, kind, sent,
                 clobbered, torn, broken, crashes>>

PhoneDecides(d) ==
  /\ phone # NoCard /\ phone' = NoCard
  /\ Publish(Event("reply", phone, d))
  /\ answered' = answered \cup {phone}
  /\ yes' = IF d = "allow" THEN [yes EXCEPT ![phone] = @ + 1] ELSE yes
  /\ UNCHANGED <<storeVars, core, linkVars, win, view, glassVars, turnVars, kind, sent,
                 clobbered, torn, broken, crashes, mishaps>>

PressStop ==
  /\ win = "up" /\ mishaps < MaxMishaps /\ mishaps' = mishaps + 1
  /\ Len(bus) < MaxBus
  /\ bus' = bus \o (IF open = NoCard THEN <<>> ELSE <<Event("reply", open, "skip")>>)
                \o <<Event("cancel", NoCard, "")>>
  /\ answered' = IF open = NoCard THEN answered ELSE answered \cup {open}
  /\ open' = NoCard /\ queue' = queue \ {open} /\ restoring' = restoring \ {open}
  /\ echo' = TRUE /\ later' = TRUE
  /\ UNCHANGED <<storeVars, core, linkVars, win, view, phone, turnVars, kind, yes, sent,
                 clobbered, torn, broken, crashes>>

SayStop ==
  /\ win = "up" /\ mishaps < MaxMishaps /\ mishaps' = mishaps + 1
  /\ Publish(Event("cancel", NoCard, ""))
  /\ UNCHANGED <<storeVars, core, linkVars, win, view, glassVars, phone, turnVars,
                 pastVars, crashes>>

\* An error takes any card off the screen, an answer any but an auto-reply's.
TurnEnds ==
  /\ win = "up" /\ open # NoCard /\ mishaps < MaxMishaps /\ mishaps' = mishaps + 1
  /\ open' = NoCard
  /\ UNCHANGED <<storeVars, core, linkVars, win, bus, view, queue, restoring, later, echo,
                 phone, turnVars, pastVars, crashes>>

Next ==
  \/ CoreStarts \/ CoreEnds \/ CoreSaves
  \/ Opens \/ Attaches \/ RestoresParked \/ WindowEnds
  \/ LinkDelivers \/ OnConfirm \/ OnReply \/ OnCancel \/ WindowSaves
  \/ ShowConfirm \/ ShowReply \/ ShowCancel \/ ShowNext
  \/ PressStop \/ SayStop \/ TurnEnds
  \/ \E c \in Card : CoreDrafts(c) \/ TurnAsks(c) \/ SendRuns(c) \/ TimesOut(c)
  \/ \E d \in {"allow", "skip"} : Decide(d) \/ PhoneDecides(d)

Spec == Init /\ [][Next]_vars

-----------------------------------------------------------------------------
\* Every send has an Allow of its own: neither two processes, two roads to the
\* same tool nor an answer that comes twice make two sends of one Allow.
SendNeedsItsAllow == \A c \in Card : sent[c] + (IF c \in sends THEN 1 ELSE 0) <= yes[c]

\* A card is sent twice only if its answer did not stay on disk: the removal met a
\* read or a save that failed or an end of the window, or a late copy or the other
\* process's write-back brought the card back.
SentTwiceOnlyIfUndone == \A c \in Card : sent[c] > 1 => c \in clobbered \cup torn

\* A card leaves the file only by its answer, by the write-back of a read that was
\* stale or had failed, or with the file, when the two processes write at once.
LeavesByAnswer == [][file \ file' \subseteq answered \cup clobbered' \cup broken']_vars

\* What window_turn.py:327 says of a card of the core: its Allow sends from the
\* window, since nobody waits for the answer.
CoreAllowSends ==
  [][\A c \in Card : kind[c] = "core" /\ yes'[c] > yes[c] /\ c \in file => c \in sends']_vars
=============================================================================
