----------------------------- MODULE TextIngest -----------------------------
(* The house's door for inbound texts.                                        *)
(*                                                                            *)
(* A text reaches the PC twice: the companion posts the phone's notification  *)
(* to /inbound/sms, and a watcher polls the inbox of SMSGate.  Both go through*)
(* one store of message ids and fingerprints on disk                          *)
(* (data/sms_inbound_seen.json, SeenMessageStore) before an SMS_RECEIVED      *)
(* event announces the text.  publish_inbound() and the rows of poll_once()   *)
(* do not give the event loop back before the event is in the bus, so one     *)
(* text at a time is on the desk; a crash may come between any two saves.     *)
(*                                                                            *)
(* A mark changes the memory first and the file second, and _save() may raise *)
(* (an OSError of the open or of the write).  Then the handling ends where it *)
(* is, the memory keeps what the file does not have, and the file is as it    *)
(* was or, if the write broke off, something _load() discards.  A crash       *)
(* inside write_text() is such a save and the crash after it.                 *)
EXTENDS Naturals, Sequences, FiniteSets

CONSTANTS
  Texts,       \* the notifications the phone shows (a repeated wording is two)
  Id,          \* Id[s][t]: the message id source s gives to t
  Fingerprint,       \* Fingerprint[s][t]: the fingerprint, sender and body as s names them
  None,        \* no time, nothing on the desk
  StaleAfter,  \* ANNOUNCE_STALE_S
  Lookback,    \* REFRESH_LOOKBACK, how long a fingerprint is remembered
  MaxSkew,     \* how far the phone's clock may be ahead of the PC's
  MaxSeen,     \* MAX_SEEN_IDS
  MaxBurst,    \* ANNOUNCE_BURST
  MaxTime,     \* bound: the last clock tick
  MaxCrashes,  \* bound: crashes of the house
  MaxFaults    \* bound: saves and loads of the file that fail

Source == {"phone", "gate"}
Prints == {Fingerprint[s][t] : s \in Source, t \in Texts}
Ids == {Id[s][t] : s \in Source, t \in Texts}

Desk == [source : Source, text : Texts, quiet : BOOLEAN, next : {"print", "announce"}]

\* The companion's ids hold the notification key, SMSGate's are its own.
ASSUME TextIngestAssumption ==
  /\ IsFiniteSet(Texts)
  /\ Id \in [Source -> [Texts -> Ids]]
  /\ Fingerprint \in [Source -> [Texts -> Prints]]
  /\ \A t, u \in Texts : Id["phone"][t] # Id["gate"][u]
  /\ {StaleAfter, Lookback, MaxSkew, MaxSeen, MaxBurst, MaxTime, MaxCrashes,
      MaxFaults} \subseteq Nat
  /\ None \notin Nat \cup Desk

\* 30 minutes, 2 hours, and clocks that agree to 90 minutes.
ASSUME ClockAssumption == StaleAfter + MaxSkew <= Lookback

VARIABLES
  clock,      \* the PC's clock
  stamp,      \* the time the phone wrote on each text, None before it arrives
  seen,       \* SeenMessageStore._order: the last message ids
  prints,     \* SeenMessageStore._fps: when each fingerprint was last marked
  seeded,     \* SeenMessageStore._seeded
  disk,       \* what sms_inbound_seen.json holds of the three
  desk,       \* the text being handled: its source, whether it stays quiet, next save
  rows,       \* texts the poll under way still has to go through
  up,         \* the house runs
  crashes,    \* crashes so far
  faults,     \* failed saves and loads so far
  announced,  \* history: SMS_RECEIVED events per text and source
  cut,        \* history: texts whose handling a crash cut short
  failed,     \* history: texts whose handling a failed save ended
  forgotten   \* history: texts announced before a start that read nothing

store == <<seen, prints, seeded>>
history == <<announced, cut, failed, forgotten>>
houseVars == <<clock, stamp, store, disk, desk, rows, up, crashes, faults, history>>

\* The content of the file; Blank is what _load() makes of none, or of a broken one.
File(ids, fps, flag) == [seen |-> ids, prints |-> fps, seeded |-> flag]
Blank == File(<<>>, [p \in Prints |-> None], FALSE)

Arrived == {t \in Texts : stamp[t] # None}
Stale(t) == clock >= stamp[t] + StaleAfter
SeenId(s, t) == \E i \in DOMAIN seen : seen[i] = Id[s][t]
SeenPrint(s, t) ==
  LET p == Fingerprint[s][t] IN prints[p] # None /\ clock < prints[p] + Lookback

IngestTypes ==
  /\ clock \in Nat
  /\ stamp \in [Texts -> Nat \cup {None}]
  /\ seen \in Seq(Ids)
  /\ prints \in [Prints -> Nat \cup {None}]
  /\ seeded \in BOOLEAN
  /\ disk \in [seen : Seq(Ids), prints : [Prints -> Nat \cup {None}], seeded : BOOLEAN]
  /\ desk \in Desk \cup {None}
  /\ rows \subseteq Arrived
  /\ up \in BOOLEAN
  /\ crashes \in Nat
  /\ faults \in Nat
  /\ announced \in [Texts -> [Source -> Nat]]
  /\ cut \subseteq Texts
  /\ failed \subseteq Texts
  /\ forgotten \subseteq Texts

IngestInit ==
  /\ clock = 0
  /\ stamp = [t \in Texts |-> None]
  /\ seen = <<>>
  /\ prints = [p \in Prints |-> None]
  /\ seeded \in BOOLEAN           \* FALSE: the first poll after an upgrade
  /\ disk = File(seen, prints, seeded)
  /\ desk = None
  /\ rows = {}
  /\ up \in BOOLEAN
  /\ crashes = 0 /\ faults = 0
  /\ announced = [t \in Texts |-> [s \in Source |-> 0]]
  /\ cut = {} /\ failed = {} /\ forgotten = {}

-----------------------------------------------------------------------------
(* The store *)

\* mark() and _trim(): append the new ids, keep the last MAX_SEEN_IDS.
Marked(new) ==
  LET all == seen \o new
      over == Len(all) - MaxSeen
  IN IF Len(all) > MaxSeen THEN SubSeq(all, over + 1, Len(all)) ELSE all

\* The ids of a set of texts that are not in the store, in the order of the rows.
NewIds(S) ==
  LET ids == {Id["gate"][t] : t \in {u \in S : ~SeenId("gate", u)}}
  IN {o \in [1 .. Cardinality(ids) -> ids] : \A i, j \in DOMAIN o : o[i] = o[j] => i = j}

\* _save() writes all of the memory, or raises: the file is as it was, or broken.
Saves == disk' = File(seen', prints', seeded')
Raises(before) ==
  /\ faults < MaxFaults
  /\ faults' = faults + 1
  /\ disk' \in {before, Blank}

\* mark() of one text: an id that is known is neither added nor saved.
Mark(s, t) == seen' = IF SeenId(s, t) THEN seen ELSE Marked(<<Id[s][t]>>)

\* The first save of a text: its id.  What follows is decided by then.
PutOnDesk(s, t, quiet) ==
  /\ Mark(s, t)
  /\ UNCHANGED <<prints, seeded, faults, history>>
  /\ IF SeenId(s, t) THEN UNCHANGED disk ELSE Saves
  /\ desk' = [source |-> s, text |-> t, quiet |-> quiet, next |-> "print"]

\* The handling of a text ends with a save that raises: publish_inbound() with it, and
\* with poll_once() all the rows it still had.
GiveUpOn(t, quiet) ==
  /\ Raises(disk)
  /\ desk' = None
  /\ rows' = {}
  /\ failed' = IF quiet THEN failed ELSE failed \cup {t}
  /\ UNCHANGED <<clock, stamp, seeded, up, crashes, announced, cut, forgotten>>

\* The first save raises: the id stays in memory, and nothing else of the text does.
FirstSaveFails(s, t, quiet) ==
  /\ ~SeenId(s, t)
  /\ Mark(s, t)
  /\ GiveUpOn(t, quiet)
  /\ UNCHANGED prints

-----------------------------------------------------------------------------
(* publish_inbound(), for a request of the companion *)

Idle == up /\ desk = None /\ rows = {}

\* A known id is answered published=false at once.
ServeKnown(t) ==
  /\ Idle /\ t \in Arrived
  /\ SeenId("phone", t)
  /\ UNCHANGED houseVars

\* Mutant of ServeNew: only the id is looked up, as before there was a second source.
ServeNewById(t) ==
  /\ Idle /\ t \in Arrived
  /\ ~SeenId("phone", t)
  /\ PutOnDesk("phone", t, Stale(t))
  /\ UNCHANGED <<clock, stamp, rows, up, crashes>>

ServeNew(t) ==
  /\ Idle /\ t \in Arrived
  /\ ~SeenId("phone", t)
  /\ PutOnDesk("phone", t, Stale(t) \/ SeenPrint("phone", t))
  /\ UNCHANGED <<clock, stamp, rows, up, crashes>>

ServeNewFails(t) ==
  /\ Idle /\ t \in Arrived
  /\ FirstSaveFails("phone", t, Stale(t) \/ SeenPrint("phone", t))

\* The second save: the fingerprint.  A quiet text is finished with it.
MarkPrint ==
  /\ desk # None /\ desk.next = "print"
  /\ prints' = [prints EXCEPT ![Fingerprint[desk.source][desk.text]] = clock]
  /\ UNCHANGED <<clock, stamp, seen, seeded, rows, up, crashes, faults, history>>
  /\ Saves
  /\ desk' = IF desk.quiet THEN None ELSE [desk EXCEPT !.next = "announce"]

MarkPrintFails ==
  /\ desk # None /\ desk.next = "print"
  /\ prints' = [prints EXCEPT ![Fingerprint[desk.source][desk.text]] = clock]
  /\ GiveUpOn(desk.text, desk.quiet)
  /\ UNCHANGED seen

Announce ==
  /\ desk # None /\ desk.next = "announce"
  /\ announced' = [announced EXCEPT ![desk.text][desk.source] = @ + 1]
  /\ desk' = None
  /\ UNCHANGED <<clock, stamp, store, disk, rows, up, crashes, faults, cut, failed, forgotten>>

-----------------------------------------------------------------------------
(* poll_once(), for the inbox of SMSGate *)

\* The first poll of a new store remembers the inbox and announces nothing.
Seed(inbox) ==
  /\ Idle /\ ~seeded
  /\ inbox \subseteq Arrived
  /\ \E new \in NewIds(inbox) : seen' = Marked(new)
  /\ seeded' = TRUE
  /\ UNCHANGED <<clock, stamp, prints, desk, rows, up, crashes, faults, history>>
  /\ Saves

\* mark_seeded() saves twice, the ids and then the flag; either save may raise.
SeedFails(inbox) ==
  /\ Idle /\ ~seeded
  /\ inbox \subseteq Arrived
  /\ \E new \in NewIds(inbox) :
       /\ seen' = Marked(new)
       /\ \/ new # <<>> /\ seeded' = FALSE /\ Raises(disk)
          \/ seeded' = TRUE /\ Raises(IF new = <<>> THEN disk ELSE File(seen', prints, FALSE))
  /\ UNCHANGED <<clock, stamp, prints, desk, rows, up, crashes, history>>

\* The rows whose ids are new, and those of them that are announced: of the young ones
\* at most MaxBurst, the newest.
Fresh(inbox) == {t \in inbox : ~SeenId("gate", t)}
Picks(inbox) ==
  LET young == {t \in Fresh(inbox) : ~Stale(t)}
  IN {keep \in SUBSET young :
        IF Cardinality(young) <= MaxBurst THEN keep = young
        ELSE /\ Cardinality(keep) = MaxBurst
             /\ \A k \in keep, o \in young \ keep : stamp[o] <= stamp[k]}

\* Mutant of Poll: the rows it keeps quiet have their fingerprints marked as well.
PollMarkingPrints(inbox) ==
  /\ Idle /\ seeded
  /\ inbox \subseteq Arrived
  /\ \E keep \in Picks(inbox) :
       /\ prints' = [p \in Prints |->
            IF \E t \in Fresh(inbox) \ keep : Fingerprint["gate"][t] = p THEN clock ELSE prints[p]]
       /\ \E new \in NewIds(Fresh(inbox) \ keep) : seen' = Marked(new)
       /\ rows' = keep
  /\ UNCHANGED <<clock, stamp, seeded, desk, up, crashes, faults, history>>
  /\ Saves

\* The rows that are not announced are marked at once, in one save.
Poll(inbox) ==
  /\ Idle /\ seeded
  /\ inbox \subseteq Arrived
  /\ UNCHANGED <<clock, stamp, prints, seeded, desk, up, crashes, faults, history>>
  /\ \E keep \in Picks(inbox) : \E new \in NewIds(Fresh(inbox) \ keep) :
       /\ seen' = Marked(new)
       /\ rows' = keep
       /\ IF new = <<>> THEN UNCHANGED disk ELSE Saves

\* If it raises, the poll ends and announces nothing; its other rows stay unknown.
PollFails(inbox) ==
  /\ Idle /\ seeded
  /\ inbox \subseteq Arrived
  /\ UNCHANGED <<clock, stamp, prints, seeded, desk, rows, up, crashes, history>>
  /\ \E keep \in Picks(inbox) : \E new \in NewIds(Fresh(inbox) \ keep) :
       /\ new # <<>>
       /\ seen' = Marked(new)
  /\ Raises(disk)

\* The rows are taken oldest first.
TakeRow(t) ==
  /\ up /\ desk = None /\ t \in rows
  /\ \A u \in rows : stamp[t] <= stamp[u]
  /\ rows' = rows \ {t}
  /\ PutOnDesk("gate", t, SeenPrint("gate", t))
  /\ UNCHANGED <<clock, stamp, up, crashes>>

TakeRowFails(t) ==
  /\ up /\ desk = None /\ t \in rows
  /\ \A u \in rows : stamp[t] <= stamp[u]
  /\ FirstSaveFails("gate", t, SeenPrint("gate", t))

-----------------------------------------------------------------------------
(* The world *)

\* The clocks need not agree: the phone's may be ahead.
Arrive(t) ==
  /\ stamp[t] = None
  /\ \E s \in clock .. clock + MaxSkew : stamp' = [stamp EXCEPT ![t] = s]
  /\ UNCHANGED <<clock, store, disk, desk, rows, up, crashes, faults, history>>

\* A tick is of the order of half an hour; the desk is cleared in one stretch of
\* the event loop, so none falls inside it.
Tick ==
  /\ clock < MaxTime
  /\ desk = None /\ rows = {}
  /\ clock' = clock + 1
  /\ UNCHANGED <<stamp, store, disk, desk, rows, up, crashes, faults, history>>

Crash ==
  /\ up /\ crashes < MaxCrashes
  /\ up' = FALSE
  /\ crashes' = crashes + 1
  /\ cut' = IF desk # None /\ ~desk.quiet THEN cut \cup {desk.text} ELSE cut
  /\ desk' = None
  /\ rows' = {}
  /\ UNCHANGED <<clock, stamp, store, disk, faults, announced, failed, forgotten>>

\* The memory of a new process is what _load() returns.
Loads(content) ==
  /\ seen' = content.seen
  /\ prints' = content.prints
  /\ seeded' = content.seeded
  /\ forgotten' = IF content = Blank
                  THEN forgotten \cup {t \in Texts : \E s \in Source : announced[t][s] > 0}
                  ELSE forgotten

\* _load() reads what the last save that went through has left, or cannot read the file
\* and goes on with nothing.
Start ==
  /\ ~up
  /\ up' = TRUE
  /\ \/ Loads(disk) /\ UNCHANGED faults
     \/ Loads(Blank) /\ faults < MaxFaults /\ faults' = faults + 1
  /\ UNCHANGED <<clock, stamp, disk, desk, rows, crashes, announced, cut, failed>>

IngestNext ==
  \/ \E t \in Texts : \/ Arrive(t)
                      \/ ServeKnown(t) \/ ServeNew(t) \/ ServeNewFails(t)
                      \/ TakeRow(t) \/ TakeRowFails(t)
  \/ \E inbox \in SUBSET Texts : \/ Seed(inbox) \/ SeedFails(inbox)
                                 \/ Poll(inbox) \/ PollFails(inbox)
  \/ MarkPrint \/ MarkPrintFails \/ Announce
  \/ Tick \/ Crash \/ Start

IngestSpec == IngestInit /\ [][IngestNext]_houseVars

-----------------------------------------------------------------------------
(* Properties *)

\* No text is announced twice: not when the companion retries after a lost
\* answer or a failed save, not when its queue holds the text again, not after a
\* restart with the id forgotten, and not by both sources when they name the sender
\* alike (publish_inbound, poll_once, SeenMessageStore).  Only a start that could read
\* nothing of the store, because a save had broken off or the read failed, lets a text
\* that was announced before it be announced again.
AnnouncedOnce ==
  \A t \in Texts \ forgotten :
    /\ \A s \in Source : announced[t][s] <= 1
    /\ Fingerprint["phone"][t] = Fingerprint["gate"][t] =>
         announced[t]["phone"] + announced[t]["gate"] <= 1

\* Two texts the house cannot tell apart: the same id, or the same fingerprint.
Twins(t, u) ==
  \/ Id["phone"][t] = Id["phone"][u]
  \/ \E r, s \in Source : Fingerprint[r][t] = Fingerprint[s][u]

Excused(t) ==
  \/ Stale(t)
  \/ t \in cut \cup failed
  \/ \E u \in Arrived \ {t} : Twins(t, u)

Told(t) == \E s \in Source : announced[t][s] > 0

\* A text whose id the companion's posts have put in the store, and which is off the
\* desk, has been announced; or it was too old, a crash fell on it between its first
\* save and the bus, one of its own saves failed, or the house had a text it cannot tell
\* from it (publish_inbound marks first and publishes last).
SeenIsHandled ==
  \A t \in Arrived :
    SeenId("phone", t) /\ ~(desk # None /\ desk.text = t) => Told(t) \/ Excused(t)
=============================================================================
