----------------------------- MODULE TextProofs -----------------------------
(* Proofs about TextIngest and TextDelivery: a text is announced at most once, *)
(* and one that the phone has forgotten was told or had to stay quiet, or one *)
(* of the failures the model names fell on it.                                *)
EXTENDS TextDelivery, FiniteSetTheorems, TLAPS

-----------------------------------------------------------------------------
(* The store of ids *)

\* Every id in the store after a mark() was in it or is one of the new ones.
LEMMA MarkedIds ==
  ASSUME NEW S, seen \in Seq(S), NEW new \in Seq(S), MaxSeen \in Nat
  PROVE  /\ Marked(new) \in Seq(S)
         /\ \A i \in DOMAIN Marked(new) :
              \/ \E j \in DOMAIN seen : seen[j] = Marked(new)[i]
              \/ \E j \in DOMAIN new : new[j] = Marked(new)[i]
<1> DEFINE all == seen \o new
           over == Len(all) - MaxSeen
<1>1. all \in Seq(S) /\ Len(all) = Len(seen) + Len(new)
  OBVIOUS
<1>2. \A i \in DOMAIN all : \/ \E j \in DOMAIN seen : seen[j] = all[i]
                            \/ \E j \in DOMAIN new : new[j] = all[i]
  <2> TAKE i \in DOMAIN all
  <2>1. CASE i <= Len(seen)
    <3>1. i \in DOMAIN seen /\ all[i] = seen[i]
      BY <1>1, <2>1
    <3> QED BY <3>1
  <2>2. CASE i > Len(seen)
    <3>1. i - Len(seen) \in DOMAIN new /\ all[i] = new[i - Len(seen)]
      BY <1>1, <2>2
    <3> QED BY <3>1
  <2> QED BY <1>1, <2>1, <2>2
<1>3. CASE Len(all) > MaxSeen
  <2>1. Marked(new) = SubSeq(all, over + 1, Len(all))
    BY <1>3 DEF Marked
  <2>2. /\ SubSeq(all, over + 1, Len(all)) \in Seq(S)
        /\ Len(SubSeq(all, over + 1, Len(all))) = MaxSeen
        /\ \A i \in 1 .. MaxSeen : SubSeq(all, over + 1, Len(all))[i] = all[over + i]
    BY <1>1, <1>3
  <2>3. \A i \in DOMAIN Marked(new) : over + i \in DOMAIN all /\ Marked(new)[i] = all[over + i]
    <3> SUFFICES ASSUME NEW i \in DOMAIN Marked(new)
                 PROVE  over + i \in DOMAIN all /\ Marked(new)[i] = all[over + i]
      OBVIOUS
    <3>1. i \in 1 .. MaxSeen
      BY <2>1, <2>2
    <3>2. over \in Nat /\ over + i \in 1 .. Len(all)
      BY <1>1, <1>3, <3>1
    <3>3. DOMAIN all = 1 .. Len(all)
      BY <1>1
    <3> HIDE DEF all, over
    <3> QED BY <2>1, <2>2, <3>1, <3>2, <3>3
  <2> QED BY <1>2, <2>1, <2>2, <2>3
<1>4. CASE ~(Len(all) > MaxSeen)
  BY <1>1, <1>2, <1>4 DEF Marked
<1> QED BY <1>3, <1>4

\* The orders of a set of new ids are sequences of ids of SMSGate.
LEMMA NewIdsAreIds ==
  ASSUME NEW S \in SUBSET Texts, NEW new \in NewIds(S), IsFiniteSet(Texts),
         Id \in [Source -> [Texts -> Ids]]
  PROVE  new \in Seq({Id["gate"][t] : t \in Texts})
<1> DEFINE G == {u \in S : ~SeenId("gate", u)}
           ids == {Id["gate"][t] : t \in G}
<1>1. IsFiniteSet(ids)
  <2>1. IsFiniteSet(G)
    <3>1. G \subseteq Texts
      OBVIOUS
    <3> HIDE DEF G
    <3> QED BY <3>1, FS_Subset
  <2> DEFINE f == [t \in G |-> Id["gate"][t]]
  <2>2. f \in Surjection(G, ids)
    BY DEF Surjection
  <2> HIDE DEF G, ids, f
  <2> QED BY <2>1, <2>2, FS_Surjection
<1>2. Cardinality(ids) \in Nat
  BY <1>1, FS_CardinalityType
<1>3. new \in [1 .. Cardinality(ids) -> ids]
  BY DEF NewIds
<1>4. ids \subseteq {Id["gate"][t] : t \in Texts}
  OBVIOUS
<1> HIDE DEF ids
<1>5. new \in Seq(ids)
  BY <1>2, <1>3
<1> QED BY <1>4, <1>5

LEMMA IdsOfGate == {Id["gate"][t] : t \in Texts} \subseteq Ids
  BY DEF Ids, Source

\* Every action of the house is one of these.
LEMMA HouseSteps ==
  ASSUME [IngestNext]_houseVars
  PROVE  \/ \E t \in Texts : Arrive(t) \/ ServeNew(t) \/ TakeRow(t)
         \/ \E t \in Texts : ServeNewFails(t) \/ TakeRowFails(t)
         \/ \E inbox \in SUBSET Texts : Seed(inbox) \/ Poll(inbox)
         \/ \E inbox \in SUBSET Texts : SeedFails(inbox) \/ PollFails(inbox)
         \/ MarkPrint \/ MarkPrintFails \/ Announce \/ Tick \/ Crash \/ Start
         \/ UNCHANGED houseVars
  BY DEF IngestNext, ServeKnown

-----------------------------------------------------------------------------
(* Types *)

Files == [seen : Seq(Ids), prints : [Prints -> Nat \cup {None}], seeded : BOOLEAN]

LEMMA FileIsFile ==
  ASSUME NEW a \in Seq(Ids), NEW b \in [Prints -> Nat \cup {None}], NEW c \in BOOLEAN
  PROVE  File(a, b, c) \in Files
  BY DEF File, Files

LEMMA BlankIsFile == Blank \in Files
<1>1. <<>> \in Seq(Ids) /\ [p \in Prints |-> None] \in [Prints -> Nat \cup {None}] /\ FALSE \in BOOLEAN
  OBVIOUS
<1> QED BY <1>1, FileIsFile DEF Blank

\* What a save leaves in the file.
LEMMA RaisesTypes ==
  ASSUME NEW f \in Files, faults \in Nat, Raises(f) PROVE disk' \in Files /\ faults' \in Nat
  BY BlankIsFile DEF Raises

LEMMA SavesTypes ==
  ASSUME seen' \in Seq(Ids), prints' \in [Prints -> Nat \cup {None}], seeded' \in BOOLEAN, Saves
  PROVE  disk' \in Files
  BY FileIsFile DEF Saves

LEMMA MarkTypes ==
  ASSUME IngestTypes, NEW s \in Source, NEW t \in Texts, Mark(s, t) PROVE seen' \in Seq(Ids)
<1>1. Id[s][t] \in Ids
  BY DEF Ids
<1>2. <<Id[s][t]>> \in Seq(Ids)
  BY <1>1
<1>3. Marked(<<Id[s][t]>>) \in Seq(Ids)
  BY <1>2, MarkedIds, TextIngestAssumption DEF IngestTypes
<1> QED BY <1>3 DEF Mark, IngestTypes

LEMMA PutOnDeskTypes ==
  ASSUME IngestTypes, NEW s \in Source, NEW t \in Texts, NEW quiet \in BOOLEAN,
         PutOnDesk(s, t, quiet)
  PROVE  /\ seen' \in Seq(Ids) /\ disk' \in Files /\ desk' \in Desk
         /\ UNCHANGED <<prints, seeded, faults, history>>
<1>1. seen' \in Seq(Ids)
  BY MarkTypes DEF PutOnDesk
<1>2. disk' \in Files
  BY <1>1, SavesTypes DEF PutOnDesk, IngestTypes, Files
<1> QED BY <1>1, <1>2 DEF PutOnDesk, Desk

LEMMA GiveUpTypes ==
  ASSUME IngestTypes, NEW t \in Texts, NEW quiet, GiveUpOn(t, quiet),
         seen' \in Seq(Ids), prints' \in [Prints -> Nat \cup {None}]
  PROVE  IngestTypes'
<1>1. disk' \in Files /\ faults' \in Nat
  BY RaisesTypes DEF GiveUpOn, IngestTypes, Files
<1>2. failed' \subseteq Texts
  BY DEF GiveUpOn, IngestTypes
<1> QED BY <1>1, <1>2 DEF GiveUpOn, IngestTypes, Arrived, Files

\* The state of the house keeps its types (SeenMessageStore and the handling of a
\* text).
THEOREM IngestTypeCorrect == IngestSpec => []IngestTypes
<1> USE TextIngestAssumption
<1>1. IngestInit => IngestTypes
  <2> SUFFICES ASSUME IngestInit PROVE IngestTypes
    OBVIOUS
  <2>1. seen \in Seq(Ids) /\ prints \in [Prints -> Nat \cup {None}] /\ seeded \in BOOLEAN
    BY DEF IngestInit
  <2>2. disk \in Files
    BY <2>1, FileIsFile DEF IngestInit
  <2>3. rows \subseteq Arrived
    BY DEF IngestInit
  <2>4. announced \in [Texts -> [Source -> Nat]]
    BY DEF IngestInit
  <2>5. /\ clock \in Nat /\ stamp \in [Texts -> Nat \cup {None}] /\ desk \in Desk \cup {None}
        /\ up \in BOOLEAN /\ crashes \in Nat /\ faults \in Nat
        /\ cut \subseteq Texts /\ failed \subseteq Texts /\ forgotten \subseteq Texts
    BY DEF IngestInit
  <2> QED BY <2>1, <2>2, <2>3, <2>4, <2>5 DEF IngestTypes, Files
<1>2. IngestTypes /\ [IngestNext]_houseVars => IngestTypes'
  <2> SUFFICES ASSUME IngestTypes, [IngestNext]_houseVars PROVE IngestTypes'
    OBVIOUS
  <2>1. ASSUME NEW t \in Texts, Arrive(t) PROVE IngestTypes'
    BY <2>1 DEF Arrive, IngestTypes, Arrived, store, history
  <2>2. ASSUME NEW t \in Texts, NEW s \in Source, NEW quiet \in BOOLEAN,
               PutOnDesk(s, t, quiet), UNCHANGED <<clock, stamp, up, crashes>>, rows' \subseteq rows
        PROVE  IngestTypes'
    <3>1. /\ seen' \in Seq(Ids) /\ disk' \in Files /\ desk' \in Desk
          /\ UNCHANGED <<prints, seeded, faults, history>>
      BY <2>2, PutOnDeskTypes
    <3> QED BY <2>2, <3>1 DEF IngestTypes, Arrived, Files, history
  <2>3. ASSUME NEW t \in Texts, ServeNew(t) PROVE IngestTypes'
    <3>1. (Stale(t) \/ SeenPrint("phone", t)) \in BOOLEAN /\ "phone" \in Source
      BY DEF Stale, SeenPrint, Source
    <3> QED BY <2>2, <2>3, <3>1 DEF ServeNew
  <2>4. ASSUME NEW t \in Texts, TakeRow(t) PROVE IngestTypes'
    <3>1. SeenPrint("gate", t) \in BOOLEAN /\ "gate" \in Source
      BY DEF SeenPrint, Source
    <3>2. rows' \subseteq rows
      BY <2>4 DEF TakeRow
    <3> QED BY <2>2, <2>4, <3>1, <3>2 DEF TakeRow
  <2>5. ASSUME NEW t \in Texts, NEW s \in Source, NEW quiet, FirstSaveFails(s, t, quiet)
        PROVE  IngestTypes'
    <3>1. seen' \in Seq(Ids)
      BY <2>5, MarkTypes DEF FirstSaveFails
    <3>2. prints' \in [Prints -> Nat \cup {None}]
      BY <2>5 DEF FirstSaveFails, IngestTypes
    <3> QED BY <2>5, <3>1, <3>2, GiveUpTypes DEF FirstSaveFails
  <2>6. ASSUME NEW t \in Texts, ServeNewFails(t) \/ TakeRowFails(t) PROVE IngestTypes'
    BY <2>5, <2>6 DEF ServeNewFails, TakeRowFails, Source
  <2>7. ASSUME NEW S \in SUBSET Texts, NEW new \in NewIds(S) PROVE Marked(new) \in Seq(Ids)
    <3>1. new \in Seq({Id["gate"][t] : t \in Texts})
      BY NewIdsAreIds
    <3>2. new \in Seq(Ids)
      BY <3>1, IdsOfGate
    <3> QED BY <3>2, MarkedIds DEF IngestTypes
  <2>8. ASSUME NEW inbox \in SUBSET Texts, Seed(inbox) PROVE IngestTypes'
    <3>1. seen' \in Seq(Ids)
      BY <2>7, <2>8 DEF Seed
    <3>2. disk' \in Files
      BY <2>8, <3>1, SavesTypes DEF Seed, IngestTypes
    <3> QED BY <2>8, <3>1, <3>2 DEF Seed, IngestTypes, Arrived, Files, history
  <2>9. ASSUME NEW inbox \in SUBSET Texts, SeedFails(inbox) PROVE IngestTypes'
    <3>1. seen' \in Seq(Ids) /\ seeded' \in BOOLEAN
      BY <2>7, <2>9 DEF SeedFails
    <3>2. File(seen', prints, FALSE) \in Files
      BY <3>1, FileIsFile DEF IngestTypes
    <3>3. disk' \in Files /\ faults' \in Nat
      <4>1. Raises(disk) \/ Raises(File(seen', prints, FALSE))
        BY <2>9 DEF SeedFails
      <4>2. disk \in Files /\ faults \in Nat
        BY DEF IngestTypes, Files
      <4> QED BY <3>2, <4>1, <4>2, RaisesTypes
    <3> QED BY <2>9, <3>1, <3>3 DEF SeedFails, IngestTypes, Arrived, Files, history
  <2>10. ASSUME NEW inbox \in SUBSET Texts, Poll(inbox) PROVE IngestTypes'
    <3>0. PICK keep \in Picks(inbox) : \E new \in NewIds(Fresh(inbox) \ keep) :
            /\ seen' = Marked(new) /\ rows' = keep
            /\ IF new = <<>> THEN UNCHANGED disk ELSE Saves
      BY <2>10 DEF Poll
    <3>1. PICK new \in NewIds(Fresh(inbox) \ keep) :
            /\ seen' = Marked(new) /\ rows' = keep
            /\ IF new = <<>> THEN UNCHANGED disk ELSE Saves
      BY <3>0
    <3>2. Fresh(inbox) \ keep \in SUBSET Texts
      BY DEF Fresh
    <3>3. seen' \in Seq(Ids)
      BY <2>7, <3>1, <3>2
    <3>4. UNCHANGED <<clock, stamp, prints, seeded, desk, up, crashes, faults, history>>
      BY <2>10 DEF Poll
    <3>5. disk' \in Files
      BY <3>1, <3>3, <3>4, SavesTypes DEF IngestTypes, Files
    <3>6. rows' \subseteq Arrived
      BY <2>10, <3>1 DEF Poll, Picks, Fresh
    <3> QED BY <3>3, <3>4, <3>5, <3>6 DEF IngestTypes, Arrived, Files, history
  <2>11. ASSUME NEW inbox \in SUBSET Texts, PollFails(inbox) PROVE IngestTypes'
    <3>0. PICK keep \in Picks(inbox) : \E new \in NewIds(Fresh(inbox) \ keep) : seen' = Marked(new)
      BY <2>11 DEF PollFails
    <3>1. PICK new \in NewIds(Fresh(inbox) \ keep) : seen' = Marked(new)
      BY <3>0
    <3>2. Fresh(inbox) \ keep \in SUBSET Texts
      BY DEF Fresh
    <3>3. seen' \in Seq(Ids)
      BY <2>7, <3>1, <3>2
    <3>4. disk' \in Files /\ faults' \in Nat
      BY <2>11, RaisesTypes DEF PollFails, IngestTypes, Files
    <3> QED BY <2>11, <3>3, <3>4 DEF PollFails, IngestTypes, Arrived, Files, history
  <2>12. ASSUME MarkPrint PROVE IngestTypes'
    <3>1. prints' \in [Prints -> Nat \cup {None}]
      BY <2>12 DEF MarkPrint, IngestTypes
    <3>2. desk' \in Desk \cup {None}
      BY <2>12 DEF MarkPrint, IngestTypes, Desk
    <3>3. disk' \in Files
      BY <2>12, <3>1, SavesTypes DEF MarkPrint, IngestTypes
    <3> QED BY <2>12, <3>1, <3>2, <3>3 DEF MarkPrint, IngestTypes, Arrived, Files, history
  <2>13. ASSUME MarkPrintFails PROVE IngestTypes'
    <3>1. prints' \in [Prints -> Nat \cup {None}]
      BY <2>13 DEF MarkPrintFails, IngestTypes
    <3>2. seen' \in Seq(Ids)
      BY <2>13 DEF MarkPrintFails, IngestTypes
    <3>3. desk.text \in Texts
      BY <2>13 DEF MarkPrintFails, IngestTypes, Desk
    <3> QED BY <2>13, <3>1, <3>2, <3>3, GiveUpTypes DEF MarkPrintFails
  <2>14. ASSUME Announce PROVE IngestTypes'
    <3>1. desk.text \in Texts /\ desk.source \in Source
      BY <2>14 DEF Announce, IngestTypes, Desk
    <3>2. announced' \in [Texts -> [Source -> Nat]]
      <4>1. announced' = [announced EXCEPT ![desk.text][desk.source] = @ + 1]
        BY <2>14 DEF Announce
      <4>2. announced \in [Texts -> [Source -> Nat]]
        BY DEF IngestTypes
      <4> QED BY <3>1, <4>1, <4>2
    <3> QED BY <2>14, <3>2 DEF Announce, IngestTypes, Arrived, store
  <2>15. ASSUME Tick PROVE IngestTypes'
    BY <2>15 DEF Tick, IngestTypes, Arrived, store, history
  <2>16. ASSUME Crash PROVE IngestTypes'
    <3>1. cut' \subseteq Texts
      <4>1. CASE desk # None /\ ~desk.quiet
        <5>1. desk.text \in Texts
          BY <4>1 DEF IngestTypes, Desk
        <5> QED BY <2>16, <4>1, <5>1 DEF Crash, IngestTypes
      <4>2. CASE ~(desk # None /\ ~desk.quiet)
        BY <2>16, <4>2 DEF Crash, IngestTypes
      <4> QED BY <4>1, <4>2
    <3>2. desk' = None /\ rows' = {} /\ up' = FALSE /\ crashes' = crashes + 1
      BY <2>16 DEF Crash
    <3>3. UNCHANGED <<clock, stamp, store, disk, faults, announced, failed, forgotten>>
      BY <2>16 DEF Crash
    <3>4. crashes' \in Nat
      BY <3>2 DEF IngestTypes
    <3> QED BY <3>1, <3>2, <3>3, <3>4 DEF IngestTypes, Arrived, store
  <2>17. ASSUME Start PROVE IngestTypes'
    <3>1. PICK f \in Files : Loads(f)
      BY <2>17, BlankIsFile DEF Start, IngestTypes, Files
    <3>2. seen' \in Seq(Ids) /\ prints' \in [Prints -> Nat \cup {None}] /\ seeded' \in BOOLEAN
      BY <3>1 DEF Loads, Files
    <3>3. forgotten' \subseteq Texts
      BY <3>1 DEF Loads, IngestTypes
    <3>4. faults' \in Nat /\ up' = TRUE
      BY <2>17 DEF Start, IngestTypes
    <3>5. UNCHANGED <<clock, stamp, disk, desk, rows, crashes, announced, cut, failed>>
      BY <2>17 DEF Start
    <3> QED BY <3>2, <3>3, <3>4, <3>5 DEF IngestTypes, Arrived
  <2>18. CASE UNCHANGED houseVars
    BY <2>18 DEF houseVars, IngestTypes, Arrived, store, history
  <2> QED BY <2>1, <2>3, <2>4, <2>6, <2>8, <2>9, <2>10, <2>11, <2>12, <2>13, <2>14, <2>15,
             <2>16, <2>17, <2>18, HouseSteps
<1> QED BY <1>1, <1>2, PTL DEF IngestSpec

-----------------------------------------------------------------------------
(* At most one announcement *)

\* A text is stamped at most MaxSkew after the moment it arrives.
Stamps == \A t \in Arrived : stamp[t] <= clock + MaxSkew

\* On the desk is a text that has arrived, and no quiet one is about to be announced.
DeskArrived == desk # None => desk.text \in Arrived /\ (desk.next = "announce" => ~desk.quiet)

\* The rows of a poll are young: it has just looked.
YoungRows == \A t \in rows : ~Stale(t)

\* A house that is down has nothing on its desk.
DownIsIdle == ~up => desk = None

\* Announced, or about to be: source s has this text behind it.
Spent(t, s) ==
  \/ announced[t][s] > 0
  \/ desk # None /\ desk.text = t /\ desk.source = s /\ desk.next = "announce"

\* The fingerprint of such a text was marked at or after the text's arrival, and a file
\* that can be read says so too.
MarkedIn(fps) ==
  \A t \in Arrived \ forgotten, s \in Source : Spent(t, s) =>
    fps[Fingerprint[s][t]] # None /\ stamp[t] <= fps[Fingerprint[s][t]] + MaxSkew
SpentIsMarked == MarkedIn(prints) /\ (disk # Blank => MarkedIn(disk.prints))

\* Nothing that will be announced has been, under this fingerprint.
DeskUnspent ==
  desk # None /\ ~desk.quiet /\ desk.text \notin forgotten =>
    \A s \in Source : Fingerprint[s][desk.text] = Fingerprint[desk.source][desk.text] =>
      announced[desk.text][s] = 0

AnnouncedArrived == \A t \in Texts, s \in Source : announced[t][s] > 0 => t \in Arrived

OnceInv ==
  /\ Stamps /\ DeskArrived /\ YoungRows /\ DownIsIdle /\ SpentIsMarked /\ DeskUnspent
  /\ AnnouncedArrived /\ AnnouncedOnce

\* A text that is not stale and whose fingerprint the store does not know has not been
\* announced under it: where Lookback covers StaleAfter.
LEMMA FreshIsUnspent ==
  ASSUME IngestTypes, OnceInv, NEW t \in Arrived, NEW s \in Source, NEW r \in Source,
         t \notin forgotten, ~Stale(t), ~SeenPrint(s, t), Fingerprint[r][t] = Fingerprint[s][t]
  PROVE  announced[t][r] = 0
<1> SUFFICES ASSUME announced[t][r] > 0 PROVE FALSE
  BY DEF IngestTypes, Arrived
<1> DEFINE m == prints[Fingerprint[r][t]]
<1>1. Spent(t, r)
  BY DEF Spent
<1>2. m # None /\ stamp[t] <= m + MaxSkew
  BY <1>1 DEF OnceInv, SpentIsMarked, MarkedIn
<1>3. Fingerprint[r][t] \in Prints
  BY DEF Prints, Arrived
<1>4. m \in Nat /\ stamp[t] \in Nat /\ clock \in Nat
  BY <1>2, <1>3 DEF IngestTypes, Arrived
<1>5. ~(clock < m + Lookback)
  BY <1>2 DEF SeenPrint
<1>6. ~(clock >= stamp[t] + StaleAfter)
  BY DEF Stale
<1>7. StaleAfter \in Nat /\ MaxSkew \in Nat /\ Lookback \in Nat
  BY TextIngestAssumption
<1> HIDE DEF m
<1> QED BY <1>2, <1>4, <1>5, <1>6, <1>7, ClockAssumption

\* Nothing is newly spent and no print is lost: the marks stay, in memory and in the
\* file, whether it was saved, left alone or broken.
LEMMA MarksKept ==
  ASSUME SpentIsMarked, UNCHANGED prints,
         disk' = disk \/ disk' = Blank \/ disk'.prints = prints,
         \A t \in Arrived' \ forgotten', s \in Source : Spent(t, s)' =>
           t \in Arrived \ forgotten /\ Spent(t, s) /\ stamp'[t] = stamp[t]
  PROVE  SpentIsMarked'
<1>1. ASSUME NEW fps, MarkedIn(fps) PROVE MarkedIn(fps)'
  BY <1>1 DEF MarkedIn
<1>2. MarkedIn(prints)'
  BY <1>1 DEF SpentIsMarked
<1>3. ASSUME disk' # Blank PROVE MarkedIn(disk.prints)'
  <2>1. Blank' = Blank
    BY DEF Blank, File
  <2>2. CASE disk' = disk
    <3>1. MarkedIn(disk.prints)
      BY <1>3, <2>2 DEF SpentIsMarked
    <3>2. PICK fps : fps = disk.prints
      OBVIOUS
    <3>3. MarkedIn(fps)'
      BY <1>1, <3>1, <3>2
    <3>4. disk'.prints = fps
      BY <2>2, <3>2
    <3> QED BY <3>3, <3>4 DEF MarkedIn
  <2>3. CASE disk'.prints = prints
    BY <1>2, <2>3 DEF MarkedIn
  <2> QED BY <1>3, <2>2, <2>3
<1>4. Blank' = Blank
  BY DEF Blank, File
<1> QED BY <1>2, <1>3, <1>4 DEF SpentIsMarked

LEMMA SavedPrints == Saves => disk'.prints = prints'
  BY DEF Saves, File

LEMMA RaisedPrints ==
  ASSUME NEW f, Raises(f) PROVE disk' = f \/ disk' = Blank
  BY DEF Raises

\* A step that announces nothing and puts nothing on the desk.
LEMMA CalmOnce ==
  ASSUME IngestTypes, OnceInv, UNCHANGED <<clock, stamp, announced, forgotten>>,
         desk' = None \/ UNCHANGED <<desk, up>>, YoungRows', SpentIsMarked'
  PROVE  OnceInv'
<1>1. Arrived' = Arrived
  BY DEF Arrived
<1>2. Stamps' /\ DeskArrived' /\ DownIsIdle' /\ DeskUnspent'
  BY <1>1 DEF OnceInv, Stamps, DeskArrived, DownIsIdle, DeskUnspent
<1>3. AnnouncedArrived' /\ AnnouncedOnce'
  BY <1>1 DEF OnceInv, AnnouncedArrived, AnnouncedOnce
<1> QED BY <1>2, <1>3 DEF OnceInv

\* Such a step that leaves the fingerprints alone.
LEMMA CalmMarks ==
  ASSUME OnceInv, UNCHANGED <<stamp, prints, announced, forgotten>>,
         desk' = None \/ UNCHANGED desk,
         disk' = disk \/ disk' = Blank \/ disk'.prints = prints
  PROVE  SpentIsMarked'
<1>1. \A t \in Arrived' \ forgotten', s \in Source : Spent(t, s)' =>
        t \in Arrived \ forgotten /\ Spent(t, s) /\ stamp'[t] = stamp[t]
  BY DEF Spent, Arrived
<1> QED BY <1>1, MarksKept DEF OnceInv

\* A save that raises ends the handling.
LEMMA GiveUpOnce ==
  ASSUME IngestTypes, OnceInv, NEW t, NEW quiet, GiveUpOn(t, quiet), SpentIsMarked'
  PROVE  OnceInv'
<1>1. UNCHANGED <<clock, stamp, announced, forgotten>> /\ desk' = None /\ rows' = {}
  BY DEF GiveUpOn
<1>2. YoungRows'
  BY <1>1 DEF YoungRows
<1> QED BY <1>1, <1>2, CalmOnce

LEMMA FirstSaveFailsOnce ==
  ASSUME IngestTypes, OnceInv, NEW s, NEW t, NEW quiet, FirstSaveFails(s, t, quiet)
  PROVE  OnceInv'
<1>1. /\ UNCHANGED <<stamp, prints, announced, forgotten>> /\ desk' = None
      /\ disk' = disk \/ disk' = Blank
  BY RaisedPrints DEF FirstSaveFails, GiveUpOn
<1>2. SpentIsMarked'
  BY <1>1, CalmMarks
<1> QED BY <1>2, GiveUpOnce DEF FirstSaveFails

\* Putting a text on the desk, quiet or unspent, keeps the invariant.
LEMMA PutOnDeskOnce ==
  ASSUME IngestTypes, OnceInv, desk = None, up,
         NEW s \in Source, NEW t \in Arrived, NEW quiet \in BOOLEAN,
         PutOnDesk(s, t, quiet), rows' \subseteq rows, UNCHANGED <<clock, stamp, up>>,
         ~quiet => ~Stale(t) /\ ~SeenPrint(s, t)
  PROVE  OnceInv'
<1>1. /\ desk' = [source |-> s, text |-> t, quiet |-> quiet, next |-> "print"]
      /\ UNCHANGED <<prints, announced, forgotten>>
  BY DEF PutOnDesk, history
<1>2. Arrived' = Arrived
  BY DEF Arrived
<1>3. Stamps' /\ DownIsIdle'
  BY <1>2 DEF OnceInv, Stamps, DownIsIdle
<1>4. DeskArrived'
  BY <1>1, <1>2 DEF DeskArrived
<1>5. YoungRows'
  BY DEF OnceInv, YoungRows, Stale
<1>6. SpentIsMarked'
  <2>1. \A u \in Arrived' \ forgotten', r \in Source : Spent(u, r)' =>
          u \in Arrived \ forgotten /\ Spent(u, r) /\ stamp'[u] = stamp[u]
    BY <1>1, <1>2 DEF Spent
  <2>2. disk' = disk \/ disk'.prints = prints
    BY <1>1, SavedPrints DEF PutOnDesk
  <2> QED BY <1>1, <2>1, <2>2, MarksKept DEF OnceInv
<1>7. DeskUnspent'
  <2> SUFFICES ASSUME ~quiet, t \notin forgotten, NEW r \in Source,
                      Fingerprint[r][t] = Fingerprint[s][t]
               PROVE  announced[t][r] = 0
    BY <1>1 DEF DeskUnspent
  <2> QED BY FreshIsUnspent
<1>8. AnnouncedArrived' /\ AnnouncedOnce'
  BY <1>1, <1>2 DEF OnceInv, AnnouncedArrived, AnnouncedOnce
<1> QED BY <1>3, <1>4, <1>5, <1>6, <1>7, <1>8 DEF OnceInv

\* The fingerprint of the text on the desk is marked: then the text may be announced.
LEMMA PrintMarked ==
  ASSUME IngestTypes, OnceInv, desk # None,
         prints' = [prints EXCEPT ![Fingerprint[desk.source][desk.text]] = clock],
         UNCHANGED <<clock, stamp, announced, forgotten>>,
         desk' # None => /\ desk'.text = desk.text /\ desk'.source = desk.source
  PROVE  MarkedIn(prints)'
<1> DEFINE p == Fingerprint[desk.source][desk.text]
<1>1. desk.text \in Arrived /\ desk.source \in Source /\ Arrived' = Arrived
  BY DEF OnceInv, DeskArrived, IngestTypes, Desk, Arrived
<1>2. p \in Prints
  BY <1>1 DEF Prints, Arrived
<1>3. prints'[p] = clock /\ \A x \in Prints \ {p} : prints'[x] = prints[x]
  BY <1>2 DEF IngestTypes
<1> SUFFICES ASSUME NEW t \in Arrived \ forgotten, NEW s \in Source, Spent(t, s)'
             PROVE  /\ prints'[Fingerprint[s][t]] # None
                    /\ stamp[t] <= prints'[Fingerprint[s][t]] + MaxSkew
  BY <1>1 DEF MarkedIn
<1>4. CASE Fingerprint[s][t] = p
  <2>1. stamp[t] <= clock + MaxSkew
    BY DEF OnceInv, Stamps
  <2>2. clock # None
    BY TextIngestAssumption DEF IngestTypes
  <2> QED BY <1>3, <1>4, <2>1, <2>2
<1>5. CASE Fingerprint[s][t] # p
  <2>1. Spent(t, s)
    BY <1>5 DEF Spent
  <2>2. Fingerprint[s][t] \in Prints
    BY DEF Prints, Arrived
  <2>3. prints'[Fingerprint[s][t]] = prints[Fingerprint[s][t]]
    BY <1>3, <1>5, <2>2
  <2> QED BY <2>1, <2>3 DEF OnceInv, SpentIsMarked, MarkedIn
<1> QED BY <1>4, <1>5

LEMMA OnceStep ==
  ASSUME IngestTypes, OnceInv, [IngestNext]_houseVars PROVE OnceInv'
<1>0. MaxSkew \in Nat /\ StaleAfter \in Nat /\ None \notin Nat /\ None \notin Desk
  BY TextIngestAssumption
<1>1. ASSUME NEW t \in Texts, Arrive(t) PROVE OnceInv'
  <2>1. /\ UNCHANGED <<clock, prints, disk, desk, rows, up, announced, forgotten>>
        /\ Arrived' = Arrived \cup {t}
        /\ stamp[t] = None
        /\ stamp'[t] \in clock .. clock + MaxSkew
        /\ \A u \in Arrived : stamp'[u] = stamp[u]
    BY <1>0, <1>1 DEF Arrive, Arrived, IngestTypes, store, history
  <2>2. Stamps'
    BY <2>1, <1>0 DEF OnceInv, Stamps, IngestTypes
  <2>3. DeskArrived' /\ AnnouncedArrived' /\ DownIsIdle'
    BY <2>1 DEF OnceInv, DeskArrived, AnnouncedArrived, DownIsIdle
  <2>4. YoungRows'
    BY <2>1 DEF OnceInv, YoungRows, Stale, IngestTypes
  <2>5. \A s \in Source : ~Spent(t, s)'
    <3> SUFFICES ASSUME NEW s \in Source, Spent(t, s) PROVE FALSE
      BY <2>1 DEF Spent
    <3>1. t \in Arrived
      BY DEF Spent, OnceInv, AnnouncedArrived, DeskArrived
    <3> QED BY <2>1, <3>1 DEF Arrived
  <2>6. SpentIsMarked'
    <3>1. \A u \in Arrived' \ forgotten', s \in Source : Spent(u, s)' =>
            u \in Arrived \ forgotten /\ Spent(u, s) /\ stamp'[u] = stamp[u]
      BY <2>1, <2>5 DEF Spent
    <3> QED BY <2>1, <3>1, MarksKept DEF OnceInv
  <2>7. DeskUnspent' /\ AnnouncedOnce'
    BY <2>1 DEF OnceInv, DeskUnspent, AnnouncedOnce
  <2> QED BY <2>2, <2>3, <2>4, <2>6, <2>7 DEF OnceInv
<1>2. ASSUME NEW t \in Texts, ServeNew(t) PROVE OnceInv'
  <2> DEFINE q == Stale(t) \/ SeenPrint("phone", t)
  <2>1. /\ desk = None /\ up /\ t \in Arrived /\ PutOnDesk("phone", t, q) /\ rows' = rows
        /\ UNCHANGED <<clock, stamp, up>>
    BY <1>2 DEF ServeNew, Idle
  <2>2. q \in BOOLEAN /\ "phone" \in Source
    BY DEF Stale, SeenPrint, Source
  <2>3. ~q => ~Stale(t) /\ ~SeenPrint("phone", t)
    OBVIOUS
  <2> HIDE DEF q
  <2> QED BY <2>1, <2>2, <2>3, PutOnDeskOnce
<1>3. ASSUME NEW t \in Texts, TakeRow(t) PROVE OnceInv'
  <2> DEFINE q == SeenPrint("gate", t)
  <2>1. /\ desk = None /\ up /\ t \in rows /\ PutOnDesk("gate", t, q) /\ rows' \subseteq rows
        /\ UNCHANGED <<clock, stamp, up>>
    BY <1>3 DEF TakeRow
  <2>2. q \in BOOLEAN /\ "gate" \in Source
    BY DEF SeenPrint, Source
  <2>3. t \in Arrived /\ ~Stale(t)
    BY <2>1 DEF OnceInv, YoungRows, IngestTypes
  <2>4. ~q => ~Stale(t) /\ ~SeenPrint("gate", t)
    BY <2>3
  <2> HIDE DEF q
  <2> QED BY <2>1, <2>2, <2>3, <2>4, PutOnDeskOnce
<1>4. ASSUME NEW t \in Texts, ServeNewFails(t) \/ TakeRowFails(t) PROVE OnceInv'
  BY <1>4, FirstSaveFailsOnce DEF ServeNewFails, TakeRowFails
<1>5. ASSUME NEW inbox \in SUBSET Texts,
             Seed(inbox) \/ SeedFails(inbox) \/ Poll(inbox) \/ PollFails(inbox)
      PROVE  OnceInv'
  <2>1. UNCHANGED <<clock, stamp, prints, desk, up, announced, forgotten>>
    BY <1>5 DEF Seed, SeedFails, Poll, PollFails, history
  <2>2. YoungRows'
    <3>1. CASE Poll(inbox)
      <4>1. rows' \in Picks(inbox)
        BY <3>1 DEF Poll
      <4>2. \A t \in rows' : ~Stale(t)
        BY <4>1 DEF Picks
      <4> QED BY <2>1, <4>2 DEF YoungRows, Stale
    <3>2. CASE UNCHANGED rows
      BY <2>1, <3>2 DEF OnceInv, YoungRows, Stale
    <3> QED BY <1>5, <3>1, <3>2 DEF Seed, SeedFails, PollFails
  <2>3. disk' = disk \/ disk' = Blank \/ disk'.prints = prints
    <3>1. CASE Seed(inbox) \/ Poll(inbox)
      BY <2>1, <3>1, SavedPrints DEF Seed, Poll
    <3>2. CASE SeedFails(inbox)
      <4>1. Raises(disk) \/ Raises(File(seen', prints, FALSE))
        BY <3>2 DEF SeedFails
      <4>2. disk' = disk \/ disk' = Blank \/ disk' = File(seen', prints, FALSE)
        BY <4>1, RaisedPrints
      <4> QED BY <4>2 DEF File
    <3>3. CASE PollFails(inbox)
      BY <3>3, RaisedPrints DEF PollFails
    <3> QED BY <1>5, <3>1, <3>2, <3>3
  <2>4. SpentIsMarked'
    BY <2>1, <2>3, CalmMarks
  <2> QED BY <2>1, <2>2, <2>4, CalmOnce
<1>6. ASSUME MarkPrint PROVE OnceInv'
  <2>1. /\ UNCHANGED <<clock, stamp, rows, up, announced, forgotten>> /\ desk # None
        /\ prints' = [prints EXCEPT ![Fingerprint[desk.source][desk.text]] = clock]
        /\ Saves
    BY <1>6 DEF MarkPrint, history
  <2>2. desk \in Desk /\ Arrived' = Arrived
    BY <2>1 DEF IngestTypes, Arrived
  <2>3. desk' # None => /\ ~desk.quiet /\ desk'.text = desk.text /\ desk'.source = desk.source
                        /\ desk'.quiet = desk.quiet
    BY <1>6, <2>2 DEF MarkPrint, Desk
  <2>4. Stamps' /\ YoungRows' /\ AnnouncedArrived' /\ AnnouncedOnce' /\ DownIsIdle'
    BY <2>1, <2>2 DEF OnceInv, Stamps, YoungRows, Stale, AnnouncedArrived, AnnouncedOnce, DownIsIdle
  <2>5. DeskArrived' /\ DeskUnspent'
    BY <2>1, <2>2, <2>3 DEF OnceInv, DeskArrived, DeskUnspent
  <2>6. MarkedIn(prints)'
    BY <2>1, <2>3, PrintMarked
  <2>7. disk'.prints = prints'
    BY <2>1, SavedPrints
  <2>8. SpentIsMarked'
    BY <2>6, <2>7 DEF SpentIsMarked
  <2> QED BY <2>4, <2>5, <2>8 DEF OnceInv
<1>7. ASSUME MarkPrintFails PROVE OnceInv'
  <2>1. /\ UNCHANGED <<clock, stamp, announced, forgotten>> /\ desk # None /\ desk' = None
        /\ prints' = [prints EXCEPT ![Fingerprint[desk.source][desk.text]] = clock]
        /\ disk' = disk \/ disk' = Blank
    BY <1>7, RaisedPrints DEF MarkPrintFails, GiveUpOn
  <2>2. MarkedIn(prints)'
    BY <2>1, PrintMarked
  <2>3. ASSUME NEW fps, MarkedIn(fps) PROVE MarkedIn(fps)'
    BY <2>1, <2>3 DEF MarkedIn, Spent, Arrived
  <2>4. Blank' = Blank
    BY DEF Blank, File
  <2>5. disk' # Blank => MarkedIn(disk.prints)'
    <3> SUFFICES ASSUME disk' # Blank PROVE MarkedIn(disk.prints)'
      OBVIOUS
    <3>1. disk' = disk /\ MarkedIn(disk.prints)
      BY <2>1 DEF OnceInv, SpentIsMarked
    <3>2. PICK fps : fps = disk.prints
      OBVIOUS
    <3>3. MarkedIn(fps)'
      BY <2>3, <3>1, <3>2
    <3>4. disk'.prints = fps
      BY <3>1, <3>2
    <3> QED BY <3>3, <3>4 DEF MarkedIn
  <2>6. SpentIsMarked'
    BY <2>2, <2>4, <2>5 DEF SpentIsMarked
  <2> QED BY <1>7, <2>6, GiveUpOnce DEF MarkPrintFails
<1>8. ASSUME Announce PROVE OnceInv'
  <2> DEFINE d == desk.text
             r == desk.source
  <2>1. /\ UNCHANGED <<clock, stamp, rows, prints, disk, up, forgotten>> /\ desk' = None
        /\ desk # None /\ d \in Arrived /\ d \in Texts /\ r \in Source /\ desk.next = "announce"
        /\ ~desk.quiet
    BY <1>8 DEF Announce, OnceInv, DeskArrived, IngestTypes, Desk, Arrived, store
  <2>2. Arrived' = Arrived
    BY <2>1 DEF Arrived
  <2>3. /\ announced'[d][r] = announced[d][r] + 1
        /\ \A t \in Texts, s \in Source : t # d \/ s # r => announced'[t][s] = announced[t][s]
    BY <1>8, <2>1 DEF Announce, IngestTypes
  <2>4. d \notin forgotten =>
          \A s \in Source : Fingerprint[s][d] = Fingerprint[r][d] => announced[d][s] = 0
    BY <2>1 DEF OnceInv, DeskUnspent
  <2>5. d \notin forgotten => announced'[d][r] = 1
    BY <2>1, <2>3, <2>4
  <2>6. AnnouncedOnce'
    <3>1. ASSUME NEW t \in Texts, t # d PROVE \A s \in Source : announced'[t][s] = announced[t][s]
      BY <2>3, <3>1
    <3>2. ASSUME d \notin forgotten PROVE \A s \in Source : announced'[d][s] <= 1
      <4> TAKE s \in Source
      <4>1. CASE s = r
        BY <2>5, <3>2, <4>1
      <4>2. CASE s # r
        BY <2>1, <2>3, <3>2, <4>2 DEF OnceInv, AnnouncedOnce
      <4> QED BY <4>1, <4>2
    <3>3. ASSUME d \notin forgotten, Fingerprint["phone"][d] = Fingerprint["gate"][d]
          PROVE  announced'[d]["phone"] + announced'[d]["gate"] <= 1
      <4>1. announced[d]["phone"] = 0 /\ announced[d]["gate"] = 0
        BY <2>1, <2>4, <3>3 DEF Source
      <4>2. CASE r = "phone"
        <5>1. announced'[d]["gate"] = 0
          BY <2>1, <2>3, <4>1, <4>2 DEF Source
        <5> QED BY <2>5, <3>3, <4>2, <5>1
      <4>3. CASE r = "gate"
        <5>1. announced'[d]["phone"] = 0
          BY <2>1, <2>3, <4>1, <4>3 DEF Source
        <5> QED BY <2>5, <3>3, <4>3, <5>1
      <4> QED BY <2>1, <4>2, <4>3 DEF Source
    <3> HIDE DEF d, r
    <3>4. "phone" \in Source /\ "gate" \in Source
      BY DEF Source
    <3> QED BY <2>1, <3>1, <3>2, <3>3, <3>4 DEF OnceInv, AnnouncedOnce
  <2>7. SpentIsMarked'
    <3>1. ASSUME NEW t \in Arrived, NEW s \in Source, Spent(t, s)' PROVE Spent(t, s)
      <4>1. announced'[t][s] > 0
        BY <2>1, <3>1 DEF Spent
      <4>2. t \in Texts
        BY DEF Arrived
      <4> QED BY <2>1, <2>3, <4>1, <4>2 DEF Spent
    <3> QED BY <2>1, <2>2, <3>1, MarksKept DEF OnceInv
  <2>8. AnnouncedArrived'
    BY <2>1, <2>2, <2>3 DEF OnceInv, AnnouncedArrived
  <2>9. Stamps' /\ DeskArrived' /\ DeskUnspent' /\ YoungRows' /\ DownIsIdle'
    BY <2>1, <2>2 DEF OnceInv, Stamps, DeskArrived, DeskUnspent, YoungRows, Stale, DownIsIdle
  <2> QED BY <2>6, <2>7, <2>8, <2>9 DEF OnceInv
<1>9. ASSUME Tick PROVE OnceInv'
  <2>1. /\ UNCHANGED <<stamp, prints, disk, desk, rows, up, announced, forgotten>>
        /\ Arrived' = Arrived /\ rows = {} /\ clock' = clock + 1
    BY <1>9 DEF Tick, Arrived, store, history
  <2>2. Stamps'
    BY <1>0, <2>1 DEF OnceInv, Stamps, IngestTypes, Arrived
  <2>3. YoungRows'
    BY <2>1 DEF YoungRows
  <2>4. SpentIsMarked'
    BY <2>1, CalmMarks
  <2>5. DeskArrived' /\ DeskUnspent' /\ AnnouncedArrived' /\ AnnouncedOnce' /\ DownIsIdle'
    BY <2>1 DEF OnceInv, DeskArrived, DeskUnspent, AnnouncedArrived, AnnouncedOnce, DownIsIdle
  <2> QED BY <2>2, <2>3, <2>4, <2>5 DEF OnceInv
<1>10. ASSUME Crash PROVE OnceInv'
  <2>1. UNCHANGED <<clock, stamp, prints, disk, announced, forgotten>> /\ desk' = None /\ rows' = {}
    BY <1>10 DEF Crash, store
  <2>2. SpentIsMarked'
    BY <2>1, CalmMarks
  <2>3. YoungRows'
    BY <2>1 DEF YoungRows
  <2> QED BY <2>1, <2>2, <2>3, CalmOnce
<1>11. ASSUME Start PROVE OnceInv'
  <2>1. UNCHANGED <<clock, stamp, disk, desk, rows, announced>> /\ desk = None /\ up' = TRUE
    BY <1>11 DEF Start, OnceInv, DownIsIdle
  <2>2. Arrived' = Arrived
    BY <2>1 DEF Arrived
  <2>3. forgotten \subseteq forgotten'
    BY <1>11 DEF Start, Loads
  <2>4. Stamps' /\ DeskArrived' /\ YoungRows' /\ DownIsIdle' /\ DeskUnspent' /\ AnnouncedArrived'
    BY <2>1, <2>2 DEF OnceInv, Stamps, DeskArrived, YoungRows, Stale, DownIsIdle, DeskUnspent,
                      AnnouncedArrived
  <2>5. AnnouncedOnce'
    BY <2>1, <2>3 DEF OnceInv, AnnouncedOnce
  <2>6. ASSUME NEW fps, MarkedIn(fps) PROVE MarkedIn(fps)'
    BY <2>1, <2>2, <2>3, <2>6 DEF MarkedIn, Spent
  <2>7. Blank' = Blank
    BY DEF Blank, File
  <2>8. disk' # Blank => MarkedIn(disk.prints)'
    <3> SUFFICES ASSUME disk # Blank PROVE MarkedIn(disk.prints)'
      BY <2>1
    <3>1. PICK fps : fps = disk.prints
      OBVIOUS
    <3>2. MarkedIn(fps)'
      BY <2>6, <3>1 DEF OnceInv, SpentIsMarked
    <3>3. disk'.prints = fps
      BY <2>1, <3>1
    <3> QED BY <3>2, <3>3 DEF MarkedIn
  <2>9. MarkedIn(prints)'
    <3>1. CASE Loads(disk) /\ disk # Blank
      <4>1. prints' = disk'.prints /\ disk' # Blank'
        BY <2>1, <2>7, <3>1 DEF Loads
      <4>2. MarkedIn(disk.prints)'
        BY <2>7, <2>8, <4>1
      <4> QED BY <4>1, <4>2 DEF MarkedIn
    <3>2. CASE Loads(Blank)
      <4>1. \A t \in Arrived' \ forgotten', s \in Source : ~Spent(t, s)'
        BY <2>1, <3>2 DEF Loads, Spent, Arrived
      <4> QED BY <4>1 DEF MarkedIn
    <3> QED BY <1>11, <3>1, <3>2 DEF Start
  <2>10. SpentIsMarked'
    BY <2>7, <2>8, <2>9 DEF SpentIsMarked
  <2> QED BY <2>4, <2>5, <2>10 DEF OnceInv
<1>12. ASSUME UNCHANGED houseVars PROVE OnceInv'
  <2>1. UNCHANGED <<clock, stamp, prints, disk, desk, rows, up, announced, forgotten>>
    BY <1>12 DEF houseVars, store, history
  <2>2. SpentIsMarked'
    BY <2>1, CalmMarks
  <2>3. YoungRows'
    BY <2>1 DEF OnceInv, YoungRows, Stale
  <2> QED BY <2>1, <2>2, <2>3, CalmOnce
<1> QED BY <1>1, <1>2, <1>3, <1>4, <1>5, <1>6, <1>7, <1>8, <1>9, <1>10, <1>11, <1>12, HouseSteps

\* In the beginning nothing has been announced.
LEMMA OnceInit == IngestInit => OnceInv
<1> SUFFICES ASSUME IngestInit PROVE OnceInv
  OBVIOUS
<1>1. \A t \in Texts, s \in Source : announced[t][s] = 0
  BY DEF IngestInit
<1>2. Arrived = {} /\ desk = None /\ rows = {}
  BY DEF IngestInit, Arrived
<1>3. SpentIsMarked
  BY <1>2 DEF SpentIsMarked, MarkedIn
<1>4. AnnouncedOnce
  BY <1>1 DEF AnnouncedOnce, Source
<1>5. AnnouncedArrived
  BY <1>1 DEF AnnouncedArrived
<1> QED BY <1>2, <1>3, <1>4, <1>5 DEF OnceInv, Stamps, DeskArrived, YoungRows, DownIsIdle, DeskUnspent

\* No text is announced twice, whatever the companion, the relay and SMSGate deliver,
\* however often the house restarts and whichever saves fail, but for a text announced
\* before a start that could read nothing (publish_inbound, poll_once, SeenMessageStore).
THEOREM AnnouncedAtMostOnce == IngestSpec => []AnnouncedOnce
<1>1. IngestTypes /\ OnceInv /\ [IngestNext]_houseVars => OnceInv'
  BY OnceStep
<1>2. OnceInv => AnnouncedOnce
  BY DEF OnceInv
<1> QED BY <1>1, <1>2, OnceInit, IngestTypeCorrect, PTL DEF IngestSpec

-----------------------------------------------------------------------------
(* A text in the store was told, or had to stay quiet *)

OnDesk(t) == desk # None /\ desk.text = t
Handled(t) == Told(t) \/ Excused(t)

\* A quiet text on the desk has its reason.
QuietHasReason == desk # None /\ desk.quiet => Handled(desk.text)

\* What a store with these ids and fingerprints knows of a text.
IdIn(ids, x) == \E i \in DOMAIN ids : ids[i] = x
Known(ids, fps, t) ==
  IdIn(ids, Id["phone"][t]) \/ \E s \in Source : fps[Fingerprint[s][t]] # None

\* Whatever it knows was handled, and comes from texts that have arrived.
StoreInv(ids, fps) ==
  /\ \A t \in Arrived : Known(ids, fps, t) /\ ~OnDesk(t) => Handled(t)
  /\ \A p \in Prints : fps[p] # None =>
       \E u \in Arrived, s \in Source : Fingerprint[s][u] = p
  /\ \A t \in Texts : IdIn(ids, Id["phone"][t]) =>
       \E u \in Arrived : Id["phone"][u] = Id["phone"][t]

\* The memory and the file both do: a crash replaces the one by the other.
HandledInv ==
  /\ QuietHasReason
  /\ StoreInv(seen, prints)
  /\ StoreInv(disk.seen, disk.prints)

\* What was told or excused stays so: announcements, crashes, failures and age only add up.
LEMMA HandledStays ==
  ASSUME IngestTypes, [IngestNext]_houseVars, NEW t \in Arrived
  PROVE  /\ t \in Arrived' /\ stamp'[t] = stamp[t]
         /\ Handled(t) => Handled(t)'
<1>1. ASSUME NEW u \in Arrived PROVE u \in Arrived' /\ stamp'[u] = stamp[u]
  <2>1. CASE \E v \in Texts : Arrive(v)
    BY <1>1, <2>1 DEF Arrive, Arrived, IngestTypes
  <2>2. CASE UNCHANGED stamp
    BY <1>1, <2>2 DEF Arrived
  <2> QED BY <2>1, <2>2, HouseSteps DEF ServeNew, TakeRow, ServeNewFails, TakeRowFails,
        FirstSaveFails, GiveUpOn, Seed, SeedFails, Poll, PollFails, MarkPrint, MarkPrintFails,
        Announce, Tick, Crash, Start, houseVars
<1>2. clock' \in Nat /\ clock' >= clock
  <2>1. clock' = clock \/ clock' = clock + 1
    BY HouseSteps DEF Arrive, ServeNew, TakeRow, ServeNewFails, TakeRowFails,
         FirstSaveFails, GiveUpOn, Seed, SeedFails, Poll, PollFails, MarkPrint, MarkPrintFails,
         Announce, Tick, Crash, Start, houseVars
  <2> QED BY <2>1 DEF IngestTypes
<1>3. cut \subseteq cut'
  BY HouseSteps DEF Arrive, ServeNew, TakeRow, ServeNewFails, TakeRowFails, PutOnDesk,
       FirstSaveFails, GiveUpOn, Seed, SeedFails, Poll, PollFails, MarkPrint, MarkPrintFails,
       Announce, Tick, Crash, Start, houseVars, history
<1>4. failed \subseteq failed'
  BY HouseSteps DEF Arrive, ServeNew, TakeRow, ServeNewFails, TakeRowFails, PutOnDesk,
       FirstSaveFails, GiveUpOn, Seed, SeedFails, Poll, PollFails, MarkPrint, MarkPrintFails,
       Announce, Tick, Crash, Start, houseVars, history
<1>5. ASSUME NEW s \in Source, announced[t][s] > 0 PROVE announced'[t][s] > 0
  <2>1. CASE Announce
    <3>1. desk.text \in Texts /\ desk.source \in Source /\ t \in Texts
      BY <2>1 DEF Announce, IngestTypes, Desk, Arrived
    <3>2. announced' = [announced EXCEPT ![desk.text][desk.source] = @ + 1]
      BY <2>1 DEF Announce
    <3>3. announced[t][s] \in Nat
      BY <3>1 DEF IngestTypes
    <3>4. announced'[t][s] \in {announced[t][s], announced[t][s] + 1}
      BY <3>1, <3>2 DEF IngestTypes
    <3> QED BY <1>5, <3>3, <3>4
  <2>2. CASE UNCHANGED announced
    BY <1>5, <2>2
  <2> QED BY <2>1, <2>2, HouseSteps DEF Arrive, ServeNew, TakeRow, ServeNewFails, TakeRowFails,
        PutOnDesk, FirstSaveFails, GiveUpOn, Seed, SeedFails, Poll, PollFails, MarkPrint,
        MarkPrintFails, Tick, Crash, Start, houseVars, history
<1>6. CASE Told(t)
  BY <1>1, <1>5, <1>6 DEF Told, Handled
<1>7. CASE Stale(t)
  <2>1. stamp[t] \in Nat /\ stamp'[t] = stamp[t] /\ StaleAfter \in Nat
    BY <1>1, TextIngestAssumption DEF Arrived, IngestTypes
  <2>2. Stale(t)'
    BY <1>2, <1>7, <2>1 DEF Stale, IngestTypes
  <2> QED BY <1>1, <2>2 DEF Excused, Handled
<1>8. CASE t \in cut \cup failed
  BY <1>1, <1>3, <1>4, <1>8 DEF Excused, Handled
<1>9. CASE \E u \in Arrived \ {t} : Twins(t, u)
  BY <1>1, <1>9 DEF Excused, Twins, Handled
<1>10. CASE ~Handled(t)
  BY <1>1, <1>10
<1> QED BY <1>6, <1>7, <1>8, <1>9, <1>10 DEF Excused, Handled

\* A text leaves the desk told, excused, cut short or with a failed save.
LEMMA OffDesk ==
  ASSUME IngestTypes, OnceInv, QuietHasReason, [IngestNext]_houseVars,
         NEW u \in Arrived, OnDesk(u), ~OnDesk(u)'
  PROVE  Handled(u)'
<1>0. Handled(u) => Handled(u)'
  BY HandledStays
<1>1. desk \in Desk /\ desk # None /\ desk.text = u /\ u \in Texts
  BY DEF OnDesk, IngestTypes, Arrived
<1>2. CASE desk.quiet
  BY <1>0, <1>1, <1>2 DEF QuietHasReason
<1>3. CASE ~desk.quiet
  <2>1. CASE Announce
    <3>1. desk.source \in Source
      BY <1>1 DEF Desk
    <3>2. announced'[u][desk.source] = announced[u][desk.source] + 1
      BY <1>1, <2>1, <3>1 DEF Announce, IngestTypes
    <3>3. announced'[u][desk.source] > 0
      BY <1>1, <3>1, <3>2 DEF IngestTypes
    <3> QED BY <3>1, <3>3 DEF Told, Handled
  <2>2. CASE Crash
    BY <1>1, <1>3, <2>2 DEF Crash, Excused, Handled
  <2>3. CASE MarkPrintFails
    BY <1>1, <1>3, <2>3 DEF MarkPrintFails, GiveUpOn, Excused, Handled
  <2>4. CASE MarkPrint
    <3>1. desk' = [desk EXCEPT !.next = "announce"]
      BY <1>3, <2>4 DEF MarkPrint
    <3>2. desk' \in Desk /\ desk'.text = u
      BY <1>1, <3>1 DEF Desk
    <3> QED BY <3>2, TextIngestAssumption DEF OnDesk
  <2>5. CASE UNCHANGED desk
    BY <2>5 DEF OnDesk
  <2> QED BY <1>1, <2>1, <2>2, <2>3, <2>4, <2>5, HouseSteps DEF Arrive, ServeNew, TakeRow,
        ServeNewFails, TakeRowFails, Idle, Seed, SeedFails, Poll, PollFails, Tick, Start, houseVars
<1> QED BY <1>2, <1>3

\* A store that stays as it is keeps the invariant in every step.
LEMMA StoreStays ==
  ASSUME IngestTypes, OnceInv, QuietHasReason, [IngestNext]_houseVars,
         NEW ids, NEW fps, StoreInv(ids, fps)
  PROVE  StoreInv(ids, fps)'
<1>1. ASSUME NEW u \in Arrived PROVE u \in Arrived' /\ (Handled(u) => Handled(u)')
  BY HandledStays
<1>2. ASSUME NEW u \in Arrived', Known(ids, fps, u), ~OnDesk(u)' PROVE Handled(u)'
  <2>1. CASE u \in Arrived /\ OnDesk(u)
    BY <1>2, <2>1, OffDesk
  <2>2. CASE u \in Arrived /\ ~OnDesk(u)
    BY <1>1, <1>2, <2>2 DEF StoreInv
  <2>3. CASE u \notin Arrived
    <3>1. u \in Texts
      BY DEF Arrived
    <3>2. PICK v \in Arrived : Twins(u, v)
      <4>1. CASE IdIn(ids, Id["phone"][u])
        BY <3>1, <4>1 DEF StoreInv, Twins
      <4>2. CASE \E s \in Source : fps[Fingerprint[s][u]] # None
        <5>1. PICK s \in Source : fps[Fingerprint[s][u]] # None
          BY <4>2
        <5>2. Fingerprint[s][u] \in Prints
          BY <3>1 DEF Prints
        <5>3. PICK v \in Arrived, r \in Source : Fingerprint[r][v] = Fingerprint[s][u]
          BY <5>1, <5>2 DEF StoreInv
        <5> QED BY <5>3 DEF Twins
      <4> QED BY <1>2, <4>1, <4>2 DEF Known
    <3>3. v \in Arrived' /\ v # u
      BY <1>1, <2>3
    <3> QED BY <3>2, <3>3 DEF Handled, Excused, Twins
  <2> QED BY <2>1, <2>2, <2>3
<1>3. \A u \in Arrived' : Known(ids, fps, u) /\ ~OnDesk(u)' => Handled(u)'
  BY <1>2
<1>4. \A p \in Prints : fps[p] # None => \E u \in Arrived', s \in Source : Fingerprint[s][u] = p
  BY <1>1 DEF StoreInv
<1>5. \A t \in Texts : IdIn(ids, Id["phone"][t]) => \E u \in Arrived' : Id["phone"][u] = Id["phone"][t]
  BY <1>1 DEF StoreInv
<1> QED BY <1>3, <1>4, <1>5 DEF StoreInv, Known, IdIn

\* It may grow by the id and the fingerprints of one text that is on the desk or handled.
LEMMA StoreGrows ==
  ASSUME NEW ids, NEW fps, StoreInv(ids, fps)', NEW t \in Arrived', OnDesk(t)' \/ Handled(t)',
         NEW newIds, NEW newFps,
         \A u \in Texts : IdIn(newIds, Id["phone"][u]) =>
           IdIn(ids, Id["phone"][u]) \/ Id["phone"][u] = Id["phone"][t],
         \A p \in Prints : newFps[p] # None =>
           fps[p] # None \/ \E s \in Source : Fingerprint[s][t] = p
  PROVE  StoreInv(newIds, newFps)'
<1>0. /\ \A u \in Arrived' : Known(ids, fps, u) /\ ~OnDesk(u)' => Handled(u)'
      /\ \A p \in Prints : fps[p] # None => \E u \in Arrived', s \in Source : Fingerprint[s][u] = p
      /\ \A u \in Texts : IdIn(ids, Id["phone"][u]) =>
           \E v \in Arrived' : Id["phone"][v] = Id["phone"][u]
  BY DEF StoreInv, Known, IdIn
<1>1. ASSUME NEW u \in Arrived', Known(newIds, newFps, u), ~OnDesk(u)' PROVE Handled(u)'
  <2>0. u \in Texts
    BY DEF Arrived
  <2>1. Known(ids, fps, u) \/ u = t \/ Twins(u, t)
    <3>1. CASE IdIn(newIds, Id["phone"][u])
      BY <2>0, <3>1 DEF Known, Twins
    <3>2. CASE \E r \in Source : newFps[Fingerprint[r][u]] # None
      <4>1. PICK r \in Source : newFps[Fingerprint[r][u]] # None
        BY <3>2
      <4>2. Fingerprint[r][u] \in Prints
        BY <2>0 DEF Prints
      <4>3. fps[Fingerprint[r][u]] # None \/ \E s \in Source : Fingerprint[s][t] = Fingerprint[r][u]
        BY <4>1, <4>2
      <4> QED BY <4>3 DEF Known, Twins
    <3> QED BY <1>1, <3>1, <3>2 DEF Known
  <2>2. CASE Known(ids, fps, u)
    BY <1>0, <1>1, <2>2
  <2>3. CASE u = t
    BY <1>1, <2>3
  <2>4. CASE u # t /\ Twins(u, t)
    BY <2>4 DEF Handled, Excused, Twins
  <2> QED BY <2>1, <2>2, <2>3, <2>4
<1>2. \A p \in Prints : newFps[p] # None => \E u \in Arrived', s \in Source : Fingerprint[s][u] = p
  BY <1>0
<1>3. \A u \in Texts : IdIn(newIds, Id["phone"][u]) => \E v \in Arrived' : Id["phone"][v] = Id["phone"][u]
  BY <1>0
<1> QED BY <1>1, <1>2, <1>3 DEF StoreInv, Known, IdIn

\* Or by ids of SMSGate only.
LEMMA StoreSame ==
  ASSUME NEW ids, NEW fps, StoreInv(ids, fps)', NEW newIds,
         \A u \in Texts : IdIn(newIds, Id["phone"][u]) => IdIn(ids, Id["phone"][u])
  PROVE  StoreInv(newIds, fps)'
<1>1. \A u \in Arrived' : u \in Texts
  BY DEF Arrived
<1> QED BY <1>1 DEF StoreInv, Known, IdIn

\* What mark() of one text adds of the companion's ids.
LEMMA MarkAdds ==
  ASSUME IngestTypes, NEW s \in Source, NEW t \in Texts, Mark(s, t), NEW u \in Texts,
         IdIn(seen', Id["phone"][u])
  PROVE  IdIn(seen, Id["phone"][u]) \/ Id["phone"][u] = Id["phone"][t]
<1>1. CASE SeenId(s, t)
  BY <1>1 DEF Mark
<1>2. CASE ~SeenId(s, t)
  <2>1. seen' = Marked(<<Id[s][t]>>)
    BY <1>2 DEF Mark
  <2>2. Id[s][t] \in Ids
    BY DEF Ids
  <2>3. <<Id[s][t]>> \in Seq(Ids)
    BY <2>2
  <2>4. PICK i \in DOMAIN Marked(<<Id[s][t]>>) : Marked(<<Id[s][t]>>)[i] = Id["phone"][u]
    BY <2>1 DEF IdIn
  <2>5. \/ \E j \in DOMAIN seen : seen[j] = Id["phone"][u]
        \/ \E j \in DOMAIN <<Id[s][t]>> : <<Id[s][t]>>[j] = Id["phone"][u]
    <3>1. seen \in Seq(Ids) /\ MaxSeen \in Nat
      BY TextIngestAssumption DEF IngestTypes
    <3> QED BY <2>3, <2>4, <3>1, MarkedIds, ZenonT(30)
  <2>6. CASE \E j \in DOMAIN seen : seen[j] = Id["phone"][u]
    BY <2>6 DEF IdIn
  <2>7. CASE Id[s][t] = Id["phone"][u]
    BY <2>7, TextIngestAssumption DEF Source
  <2> QED BY <2>5, <2>6, <2>7
<1> QED BY <1>1, <1>2

\* A poll adds only ids of SMSGate.
LEMMA PolledIds ==
  ASSUME IngestTypes, NEW S \in SUBSET Texts, NEW new \in NewIds(S), seen' = Marked(new),
         NEW u \in Texts, IdIn(seen', Id["phone"][u])
  PROVE  IdIn(seen, Id["phone"][u])
<1>1. new \in Seq({Id["gate"][t] : t \in Texts})
  BY NewIdsAreIds, TextIngestAssumption
<1>2. new \in Seq(Ids)
  BY <1>1, IdsOfGate
<1>3. PICK i \in DOMAIN Marked(new) : Marked(new)[i] = Id["phone"][u]
  BY DEF IdIn
<1>4. \/ \E j \in DOMAIN seen : seen[j] = Id["phone"][u]
      \/ \E j \in DOMAIN new : new[j] = Id["phone"][u]
  <2>1. seen \in Seq(Ids) /\ MaxSeen \in Nat
    BY TextIngestAssumption DEF IngestTypes
  <2> QED BY <1>2, <1>3, <2>1, MarkedIds
<1>5. \A j \in DOMAIN new : \E t \in Texts : new[j] = Id["gate"][t]
  BY <1>1
<1>6. \A j \in DOMAIN new : new[j] # Id["phone"][u]
  BY <1>5, TextIngestAssumption
<1> QED BY <1>4, <1>6 DEF IdIn

\* A text that is kept quiet has its reason before the handling starts.
LEMMA QuietIsHandled ==
  ASSUME HandledInv, desk = None, NEW s \in Source, NEW t \in Arrived,
         Stale(t) \/ SeenPrint(s, t)
  PROVE  Handled(t)
<1>1. CASE Stale(t)
  BY <1>1 DEF Handled, Excused
<1>2. CASE SeenPrint(s, t)
  <2>1. Known(seen, prints, t)
    BY <1>2 DEF SeenPrint, Known
  <2> QED BY <2>1 DEF HandledInv, StoreInv, OnDesk
<1> QED BY <1>1, <1>2

LEMMA QuietStep ==
  ASSUME IngestTypes, OnceInv, HandledInv, [IngestNext]_houseVars PROVE QuietHasReason'
<1>0. ASSUME NEW u \in Arrived PROVE Handled(u) => Handled(u)'
  BY HandledStays
<1>1. ASSUME NEW s \in Source, NEW t \in Arrived, NEW quiet, desk = None, PutOnDesk(s, t, quiet),
             quiet => Stale(t) \/ SeenPrint(s, t)
      PROVE  QuietHasReason'
  <2>1. desk'.quiet = quiet /\ desk'.text = t
    BY <1>1 DEF PutOnDesk
  <2>2. quiet => Handled(t)'
    BY <1>0, <1>1, QuietIsHandled
  <2> QED BY <2>1, <2>2 DEF QuietHasReason
<1>2. CASE desk' = None
  BY <1>2 DEF QuietHasReason
<1>3. CASE desk' = desk
  <2> SUFFICES ASSUME desk # None, desk.quiet, NEW u, u = desk.text PROVE Handled(u)'
    BY <1>3 DEF QuietHasReason
  <2>1. u \in Arrived /\ Handled(u)
    BY DEF HandledInv, QuietHasReason, OnceInv, DeskArrived
  <2> QED BY <1>0, <2>1
<1>4. ASSUME NEW t \in Texts, ServeNew(t) PROVE QuietHasReason'
  BY <1>1, <1>4 DEF ServeNew, Idle, Source
<1>5. ASSUME NEW t \in Texts, TakeRow(t) PROVE QuietHasReason'
  <2>1. t \in Arrived
    BY <1>5 DEF TakeRow, IngestTypes
  <2> QED BY <1>1, <1>5, <2>1 DEF TakeRow, Source
<1>6. ASSUME MarkPrint PROVE QuietHasReason'
  <2>1. CASE desk.quiet
    BY <1>2, <1>6, <2>1 DEF MarkPrint
  <2>2. CASE ~desk.quiet
    <3>1. desk \in Desk /\ desk' = [desk EXCEPT !.next = "announce"]
      BY <1>6, <2>2 DEF MarkPrint, IngestTypes
    <3>2. desk'.quiet = desk.quiet
      BY <3>1 DEF Desk
    <3> QED BY <2>2, <3>2 DEF QuietHasReason
  <2> QED BY <2>1, <2>2
<1> QED BY <1>2, <1>3, <1>4, <1>5, <1>6, HouseSteps DEF Arrive, ServeNewFails, TakeRowFails,
      FirstSaveFails, GiveUpOn, Seed, SeedFails, Poll, PollFails, MarkPrintFails,
      Announce, Tick, Crash, Start, houseVars

\* The id of one text is marked, and its handling goes on or has given up on it.
LEMMA MarkedMemory ==
  ASSUME IngestTypes, OnceInv, HandledInv, [IngestNext]_houseVars, desk = None,
         NEW s \in Source, NEW t \in Arrived, NEW quiet \in BOOLEAN,
         quiet => Stale(t) \/ SeenPrint(s, t),
         PutOnDesk(s, t, quiet) \/ FirstSaveFails(s, t, quiet)
  PROVE  StoreInv(seen, prints)'
<1>1. PICK ids, fps : ids = seen /\ fps = prints
  OBVIOUS
<1>2. PICK newIds : newIds = seen'
  OBVIOUS
<1>3. StoreInv(ids, fps)'
  BY <1>1, StoreStays DEF HandledInv
<1>4. t \in Texts /\ t \in Arrived' /\ (Handled(t) => Handled(t)')
  BY HandledStays DEF Arrived
<1>6. OnDesk(t)' \/ Handled(t)'
  <2>1. CASE PutOnDesk(s, t, quiet)
    <3>1. desk' = [source |-> s, text |-> t, quiet |-> quiet, next |-> "print"]
      BY <2>1 DEF PutOnDesk
    <3>2. desk' \in Desk /\ desk'.text = t
      BY <1>4, <3>1 DEF Desk
    <3> QED BY <3>2, TextIngestAssumption DEF OnDesk
  <2>2. CASE FirstSaveFails(s, t, quiet)
    <3>1. CASE quiet
      BY <1>4, <3>1, QuietIsHandled
    <3>2. CASE ~quiet
      BY <2>2, <3>2 DEF FirstSaveFails, GiveUpOn, Handled, Excused
    <3> QED BY <3>1, <3>2
  <2> QED BY <2>1, <2>2
<1>7. Mark(s, t) /\ prints' = fps
  BY <1>1 DEF PutOnDesk, FirstSaveFails
<1>8. \A u \in Texts : IdIn(newIds, Id["phone"][u]) =>
        IdIn(ids, Id["phone"][u]) \/ Id["phone"][u] = Id["phone"][t]
  BY <1>1, <1>2, <1>4, <1>7, MarkAdds
<1>9. StoreInv(newIds, fps)'
  BY <1>3, <1>4, <1>6, <1>8, StoreGrows
<1> QED BY <1>2, <1>7, <1>9 DEF StoreInv, Known, IdIn

\* The memory after any step that does not start the house.
LEMMA MemoryStep ==
  ASSUME IngestTypes, OnceInv, HandledInv, [IngestNext]_houseVars PROVE StoreInv(seen, prints)'
<1>1. PICK ids, fps : ids = seen /\ fps = prints
  OBVIOUS
<1>2. StoreInv(ids, fps)'
  BY <1>1, StoreStays DEF HandledInv
<1>3. CASE UNCHANGED <<seen, prints>>
  BY <1>1, <1>2, <1>3 DEF StoreInv, Known, IdIn
<1>4. ASSUME NEW t \in Texts, ServeNew(t) \/ ServeNewFails(t) PROVE StoreInv(seen, prints)'
  <2> DEFINE q == Stale(t) \/ SeenPrint("phone", t)
  <2>1. /\ desk = None /\ t \in Arrived
        /\ PutOnDesk("phone", t, q) \/ FirstSaveFails("phone", t, q)
    BY <1>4 DEF ServeNew, ServeNewFails, Idle
  <2>2. q \in BOOLEAN /\ "phone" \in Source
    BY DEF Stale, SeenPrint, Source
  <2>3. q => Stale(t) \/ SeenPrint("phone", t)
    OBVIOUS
  <2> HIDE DEF q
  <2> QED BY <2>1, <2>2, <2>3, MarkedMemory
<1>5. ASSUME NEW t \in Texts, TakeRow(t) \/ TakeRowFails(t) PROVE StoreInv(seen, prints)'
  <2> DEFINE q == SeenPrint("gate", t)
  <2>1. /\ desk = None /\ t \in rows
        /\ PutOnDesk("gate", t, q) \/ FirstSaveFails("gate", t, q)
    BY <1>5 DEF TakeRow, TakeRowFails
  <2>2. q \in BOOLEAN /\ "gate" \in Source /\ t \in Arrived
    BY <2>1 DEF SeenPrint, Source, IngestTypes
  <2>3. q => Stale(t) \/ SeenPrint("gate", t)
    OBVIOUS
  <2> HIDE DEF q
  <2> QED BY <2>1, <2>2, <2>3, MarkedMemory
<1>6. ASSUME NEW inbox \in SUBSET Texts,
             Seed(inbox) \/ SeedFails(inbox) \/ Poll(inbox) \/ PollFails(inbox)
      PROVE  StoreInv(seen, prints)'
  <2>1. prints' = fps
    BY <1>1, <1>6 DEF Seed, SeedFails, Poll, PollFails
  <2>2. \E S \in SUBSET Texts : \E new \in NewIds(S) : seen' = Marked(new)
    <3>1. CASE Seed(inbox)
      BY <3>1 DEF Seed
    <3>2. CASE SeedFails(inbox)
      BY <3>2 DEF SeedFails
    <3>3. ASSUME NEW keep, \E new \in NewIds(Fresh(inbox) \ keep) : seen' = Marked(new)
          PROVE  \E S \in SUBSET Texts : \E new \in NewIds(S) : seen' = Marked(new)
      <4>1. Fresh(inbox) \ keep \in SUBSET Texts
        BY DEF Fresh
      <4> QED BY <3>3, <4>1
    <3>4. CASE Poll(inbox)
      BY <3>3, <3>4 DEF Poll
    <3>5. CASE PollFails(inbox)
      BY <3>3, <3>5 DEF PollFails
    <3> QED BY <1>6, <3>1, <3>2, <3>4, <3>5
  <2>3. PICK newIds : newIds = seen'
    OBVIOUS
  <2>4. \A u \in Texts : IdIn(newIds, Id["phone"][u]) => IdIn(ids, Id["phone"][u])
    BY <1>1, <2>2, <2>3, PolledIds
  <2>5. StoreInv(newIds, fps)'
    BY <1>2, <2>4, StoreSame
  <2> QED BY <2>1, <2>3, <2>5 DEF StoreInv, Known, IdIn
<1>7. ASSUME MarkPrint \/ MarkPrintFails PROVE StoreInv(seen, prints)'
  <2>1. PICK t \in Arrived : t = desk.text
    BY <1>7 DEF MarkPrint, MarkPrintFails, OnceInv, DeskArrived
  <2>2. desk.source \in Source /\ OnDesk(t) /\ t \in Texts
    BY <1>7, <2>1 DEF MarkPrint, MarkPrintFails, IngestTypes, Desk, OnDesk, Arrived
  <2>3. t \in Arrived' /\ (OnDesk(t)' \/ Handled(t)')
    BY <2>2, HandledStays, OffDesk DEF HandledInv
  <2>4. /\ seen' = ids
        /\ prints' = [prints EXCEPT ![Fingerprint[desk.source][t]] = clock]
    BY <1>1, <1>7, <2>1 DEF MarkPrint, MarkPrintFails
  <2>5. PICK newFps : newFps = prints'
    OBVIOUS
  <2>6. \A p \in Prints : newFps[p] # None =>
          fps[p] # None \/ \E s \in Source : Fingerprint[s][t] = p
    BY <1>1, <2>2, <2>4, <2>5 DEF IngestTypes
  <2>7. StoreInv(ids, newFps)'
    BY <1>2, <2>3, <2>6, StoreGrows
  <2> QED BY <2>4, <2>5, <2>7 DEF StoreInv, Known, IdIn
<1>8. ASSUME Start PROVE StoreInv(seen, prints)'
  <2>1. CASE Loads(disk)
    <3>1. PICK a, b : a = disk.seen /\ b = disk.prints
      OBVIOUS
    <3>2. StoreInv(a, b)'
      BY <3>1, StoreStays DEF HandledInv
    <3>3. seen' = a /\ prints' = b
      BY <2>1, <3>1 DEF Loads
    <3> QED BY <3>2, <3>3 DEF StoreInv, Known, IdIn
  <2>2. CASE Loads(Blank)
    <3>1. seen' = <<>> /\ prints' = [p \in Prints |-> None]
      BY <2>2 DEF Loads, Blank, File
    <3>2. \A t \in Texts, s \in Source : Fingerprint[s][t] \in Prints
      BY DEF Prints
    <3>3. Arrived' \subseteq Texts
      BY DEF Arrived
    <3> QED BY <3>1, <3>2, <3>3 DEF StoreInv, Known, IdIn
  <2> QED BY <1>8, <2>1, <2>2 DEF Start
<1> QED BY <1>3, <1>4, <1>5, <1>6, <1>7, <1>8, HouseSteps DEF Arrive, Announce, Tick, Crash,
      houseVars, store

\* What is in the file is what the memory was saved with, what it was, or nothing.
LEMMA DiskIs ==
  ASSUME [IngestNext]_houseVars
  PROVE  \/ disk' = disk
         \/ disk'.seen = seen' /\ disk'.prints = prints'
         \/ disk' = Blank
<1>1. Saves => disk'.seen = seen' /\ disk'.prints = prints'
  BY DEF Saves, File
<1>2. ASSUME NEW f, Raises(f) PROVE disk' = f \/ disk' = Blank
  BY <1>2 DEF Raises
<1>3. ASSUME NEW inbox, SeedFails(inbox)
      PROVE  disk' = disk \/ disk' = Blank \/ (disk'.seen = seen' /\ disk'.prints = prints')
  <2>1. (Raises(disk) \/ Raises(File(seen', prints, FALSE))) /\ prints' = prints
    BY <1>3 DEF SeedFails
  <2>2. disk' = disk \/ disk' = Blank \/ disk' = File(seen', prints, FALSE)
    BY <2>1 DEF Raises
  <2> QED BY <2>1, <2>2 DEF File
<1> QED BY <1>1, <1>2, <1>3, HouseSteps DEF Arrive, ServeNew, TakeRow, PutOnDesk, ServeNewFails,
      TakeRowFails, FirstSaveFails, GiveUpOn, Seed, Poll, PollFails, MarkPrint, MarkPrintFails,
      Announce, Tick, Crash, Start, houseVars

LEMMA HandledStep ==
  ASSUME IngestTypes, OnceInv, HandledInv, [IngestNext]_houseVars PROVE HandledInv'
<1>1. QuietHasReason' /\ StoreInv(seen, prints)'
  BY QuietStep, MemoryStep
<1>2. StoreInv(disk.seen, disk.prints)'
  <2>1. CASE disk' = disk
    <3>1. PICK a, b : a = disk.seen /\ b = disk.prints
      OBVIOUS
    <3>2. StoreInv(a, b)'
      BY <3>1, StoreStays DEF HandledInv
    <3>3. disk'.seen = a /\ disk'.prints = b
      BY <2>1, <3>1
    <3> QED BY <3>2, <3>3 DEF StoreInv, Known, IdIn
  <2>2. CASE disk'.seen = seen' /\ disk'.prints = prints'
    BY <1>1, <2>2 DEF StoreInv, Known, IdIn
  <2>3. CASE disk' = Blank
    <3>1. disk'.seen = <<>> /\ disk'.prints = [p \in Prints |-> None]
      BY <2>3 DEF Blank, File
    <3>2. \A t \in Texts, s \in Source : Fingerprint[s][t] \in Prints
      BY DEF Prints
    <3>3. Arrived' \subseteq Texts
      BY DEF Arrived
    <3> QED BY <3>1, <3>2, <3>3 DEF StoreInv, Known, IdIn
  <2> QED BY <2>1, <2>2, <2>3, DiskIs
<1> QED BY <1>1, <1>2 DEF HandledInv

LEMMA HandledInit == IngestInit => HandledInv
<1> SUFFICES ASSUME IngestInit PROVE HandledInv
  OBVIOUS
<1>1. /\ seen = <<>> /\ prints = [p \in Prints |-> None] /\ desk = None
      /\ disk.seen = seen /\ disk.prints = prints
  BY DEF IngestInit, File
<1>2. Arrived = {}
  BY DEF IngestInit, Arrived
<1> QED BY <1>1, <1>2 DEF HandledInv, QuietHasReason, StoreInv, IdIn

LEMMA HandledIsSeen == HandledInv => SeenIsHandled
  BY DEF HandledInv, StoreInv, Known, IdIn, SeenIsHandled, SeenId, OnDesk, Handled

\* A message id in the store stands for a text that was announced, was too old, was cut
\* short by a crash or by a save that failed, or has a twin (publish_inbound marks first
\* and publishes last; SeenMessageStore.mark changes the memory before the file).
THEOREM SeenMeansHandled == IngestSpec => []SeenIsHandled
<1>1. IngestTypes /\ OnceInv /\ HandledInv /\ [IngestNext]_houseVars => OnceInv' /\ HandledInv'
  BY OnceStep, HandledStep
<1> QED BY <1>1, OnceInit, HandledInit, HandledIsSeen, IngestTypeCorrect, PTL DEF IngestSpec

-----------------------------------------------------------------------------
(* The phone in front of the house *)

\* Every step of the composition is a step of the house or leaves it alone.
LEMMA DeliverySteps == [Next]_vars => [IngestNext]_houseVars
<1> SUFFICES ASSUME [Next]_vars PROVE [IngestNext]_houseVars
  OBVIOUS
<1>1. CASE \/ TakeOn \/ Load \/ PhoneDies
           \/ \E f \in Flushes : BeginFlush(f)
           \/ \E p \in Thread : \/ Send(p) \/ Answered(p) \/ TryAgain(p) \/ GiveUp(p)
                                \/ Clear(p) \/ Write(p)
           \/ \E r \in wire : Lose(r)
           \/ UNCHANGED vars
  <2>1. UNCHANGED houseVars
    BY <1>1 DEF TakeOn, Load, PhoneDies, BeginFlush, Send, Answered, TryAgain, GiveUp, Clear,
                Write, Lose, vars
  <2> QED BY <2>1
<1>2. CASE \E t \in Texts : Notify(t)
  BY <1>2 DEF Notify, IngestNext
<1>3. CASE \E r \in wire : ServeRequest(r)
  <2>1. PICK r \in wire : \/ UNCHANGED houseVars
                          \/ ServeKnown(r.text) \/ ServeNew(r.text) \/ ServeNewFails(r.text)
    BY <1>3 DEF ServeRequest
  <2>2. \/ UNCHANGED houseVars
        \/ r.text \in Texts
    BY <2>1 DEF ServeKnown, ServeNew, ServeNewFails, Arrived
  <2> QED BY <2>1, <2>2 DEF IngestNext
<1>4. CASE ClearDesk
  BY <1>4 DEF ClearDesk, IngestNext
<1>5. CASE PollInbox
  BY <1>5 DEF PollInbox, IngestNext
<1>6. CASE HouseCrash \/ HouseStart \/ TickAndPrune \/ BreakOff
  BY <1>6 DEF HouseCrash, HouseStart, TickAndPrune, BreakOff, IngestNext
<1> QED BY <1>1, <1>2, <1>3, <1>4, <1>5, <1>6 DEF Next

\* The house behind the phone, the LAN and the relay is a house: its guarantees hold
\* whatever the phone's threads do.
THEOREM DeliveryImplementsIngest == Spec => IngestSpec
<1>1. Init => IngestInit
  BY DEF Init
<1> QED BY <1>1, DeliverySteps, PTL DEF Spec, IngestSpec

\* The request that has the desk is for the text on it.
ServingIsOnDesk ==
  serving # None => desk # None /\ desk.text = serving.text

\* A 2xx under way is for a text that was handled, or that the parser drops, and so is
\* one the phone has had.
Settled(t) == t \in ignored \/ (t \in Arrived /\ Handled(t))
AnswersAreTrue == \A r \in answers : Settled(r.text)
AckedAreTrue == \A t \in acked : Settled(t)

DeliveryInv == ServingIsOnDesk /\ AnswersAreTrue /\ AckedAreTrue

LEMMA DeliveryStep ==
  ASSUME IngestTypes, OnceInv, HandledInv, DeliveryInv, [Next]_vars
  PROVE  DeliveryInv'
<1>0. ASSUME NEW t, Settled(t) PROVE Settled(t)'
  <2>1. ignored' = ignored
    BY DEF Next, Notify, TakeOn, Load, BeginFlush, Send, Answered, TryAgain, GiveUp, Clear, Write,
           Lose, ServeRequest, ClearDesk, BreakOff, PollInbox, HouseCrash, HouseStart,
           TickAndPrune, PhoneDies, phoneOnly, phoneVars, vars
  <2>2. CASE t \in ignored
    BY <2>1, <2>2 DEF Settled
  <2>3. CASE t \in Arrived /\ Handled(t)
    <3>1. t \in Arrived' /\ Handled(t)'
      BY <2>3, HandledStays, DeliverySteps
    <3> QED BY <3>1 DEF Settled
  <2> QED BY <1>0, <2>2, <2>3 DEF Settled
<1>1. ASSUME answers' \subseteq answers PROVE AnswersAreTrue'
  BY <1>0, <1>1 DEF DeliveryInv, AnswersAreTrue
<1>2. ASSUME acked' = acked PROVE AckedAreTrue'
  BY <1>0, <1>2 DEF DeliveryInv, AckedAreTrue
<1>3. ASSUME UNCHANGED <<serving, desk>> PROVE ServingIsOnDesk'
  BY <1>3 DEF DeliveryInv, ServingIsOnDesk
<1>4. ASSUME NEW r, NEW t, t = r.text, Settled(t)', answers' \subseteq answers \cup {r}
      PROVE  AnswersAreTrue'
  <2> SUFFICES ASSUME NEW q \in answers', NEW u, u = q.text PROVE Settled(u)'
    BY DEF AnswersAreTrue
  <2>1. CASE q \in answers
    BY <1>0, <2>1 DEF DeliveryInv, AnswersAreTrue
  <2>2. CASE q = r
    BY <1>4, <2>2
  <2> QED BY <1>4, <2>1, <2>2
<1>5. CASE \/ TakeOn \/ Load \/ PhoneDies
           \/ \E f \in Flushes : BeginFlush(f)
           \/ \E p \in Thread : Send(p) \/ TryAgain(p) \/ GiveUp(p) \/ Clear(p) \/ Write(p)
           \/ \E r \in wire : Lose(r)
           \/ UNCHANGED vars
  <2>1. /\ UNCHANGED <<serving, desk, acked>>
        /\ answers' \subseteq answers
    BY <1>5 DEF TakeOn, Load, PhoneDies, BeginFlush, Send, TryAgain, GiveUp, Clear,
                Write, Lose, vars, houseVars, phoneVars
  <2> QED BY <1>1, <1>2, <1>3, <2>1 DEF DeliveryInv
<1>6. ASSUME NEW p \in Thread, Answered(p) PROVE DeliveryInv'
  <2>1. /\ UNCHANGED <<serving, desk>> /\ answers' \subseteq answers
        /\ InHand(p) \in answers
        /\ acked' = acked \cup {Head(todo[p])}
    BY <1>6 DEF Answered, houseVars
  <2>2. PICK t : t = Head(todo[p])
    OBVIOUS
  <2>3. Settled(t)
    <3>1. PICK r \in answers : r = InHand(p)
      BY <2>1
    <3>2. r.text = t
      BY <2>2, <3>1 DEF InHand
    <3> QED BY <3>2 DEF DeliveryInv, AnswersAreTrue
  <2>4. AckedAreTrue'
    BY <1>0, <2>1, <2>2, <2>3 DEF DeliveryInv, AckedAreTrue
  <2> QED BY <1>1, <1>3, <2>1, <2>4 DEF DeliveryInv
<1>7. ASSUME NEW r \in wire, ServeRequest(r) PROVE DeliveryInv'
  <2>1. acked' = acked
    BY <1>7 DEF ServeRequest, phoneOnly
  <2>2. ASSUME Reply(r), Settled(r.text), UNCHANGED <<serving, desk>> PROVE DeliveryInv'
    <3>1. answers' \subseteq answers \cup {r}
      BY <2>2 DEF Reply
    <3>2. PICK t : t = r.text
      OBVIOUS
    <3>3. Settled(t)'
      BY <1>0, <2>2, <3>2
    <3>4. AnswersAreTrue'
      BY <1>4, <3>1, <3>2, <3>3
    <3> QED BY <1>2, <1>3, <2>1, <2>2, <3>4 DEF DeliveryInv
  <2>3. CASE r.text \in ignored /\ Reply(r) /\ UNCHANGED <<houseVars, serving>>
    <3>1. Settled(r.text) /\ UNCHANGED <<serving, desk>>
      BY <2>3 DEF Settled, houseVars
    <3> QED BY <2>2, <2>3, <3>1
  <2>4. CASE ServeKnown(r.text) /\ Reply(r) /\ UNCHANGED serving
    <3>1. /\ r.text \in Arrived /\ SeenId("phone", r.text) /\ desk = None /\ UNCHANGED desk
      BY <2>4 DEF ServeKnown, Idle, houseVars
    <3>2. Handled(r.text)
      BY <3>1, HandledIsSeen DEF SeenIsHandled, Handled
    <3> QED BY <2>2, <2>4, <3>1, <3>2 DEF Settled
  <2>5. CASE ServeNew(r.text) /\ serving' = r /\ UNCHANGED answers
    <3>1. /\ r.text \in Texts
          /\ desk' = [source |-> "phone", text |-> r.text,
                      quiet |-> Stale(r.text) \/ SeenPrint("phone", r.text), next |-> "print"]
      BY <2>5 DEF ServeNew, PutOnDesk, Arrived
    <3>2. desk'.text = r.text
      BY <3>1
    <3>3. desk' # None
      <4>1. (Stale(r.text) \/ SeenPrint("phone", r.text)) \in BOOLEAN
        BY DEF Stale, SeenPrint
      <4>2. desk' \in Desk
        BY <3>1, <4>1 DEF Desk, Source
      <4> QED BY <4>2, TextIngestAssumption
    <3>4. ServingIsOnDesk'
      BY <2>5, <3>2, <3>3 DEF ServingIsOnDesk
    <3> QED BY <1>1, <1>2, <2>1, <2>5, <3>4 DEF DeliveryInv
  <2>6. CASE ServeNewFails(r.text) /\ UNCHANGED <<serving, answers>>
    <3>1. desk = None /\ desk' = None
      BY <2>6 DEF ServeNewFails, Idle, FirstSaveFails, GiveUpOn
    <3> QED BY <1>1, <1>2, <1>3, <2>1, <2>6, <3>1 DEF DeliveryInv
  <2> QED BY <1>7, <2>3, <2>4, <2>5, <2>6 DEF ServeRequest
<1>8. CASE ClearDesk
  <2>1. acked' = acked
    BY <1>8 DEF ClearDesk, phoneOnly
  <2>2. CASE desk' = None /\ serving # None
    <3>1. Reply(serving) /\ serving' = None
      BY <1>8, <2>2 DEF ClearDesk
    <3>2. PICK t \in Arrived : t = desk.text /\ t = serving.text /\ OnDesk(t)
      BY <2>2 DEF DeliveryInv, ServingIsOnDesk, OnceInv, DeskArrived, OnDesk
    <3>3. Settled(t)'
      BY <2>2, <3>2, OffDesk, HandledStays, DeliverySteps DEF HandledInv, OnDesk, Settled
    <3>4. answers' \subseteq answers \cup {serving}
      BY <3>1 DEF Reply
    <3>5. PICK r : r = serving
      OBVIOUS
    <3>6. AnswersAreTrue'
      BY <1>4, <3>2, <3>3, <3>4, <3>5
    <3>7. ServingIsOnDesk'
      BY <3>1 DEF ServingIsOnDesk
    <3> QED BY <1>2, <2>1, <3>6, <3>7 DEF DeliveryInv
  <2>3. CASE ~(desk' = None /\ serving # None)
    <3>1. UNCHANGED <<serving, answers>>
      BY <1>8, <2>3 DEF ClearDesk
    <3>2. desk' # None => desk'.text = desk.text
      <4>1. CASE Announce
        BY <4>1 DEF Announce
      <4>2. CASE MarkPrint
        <5>1. desk \in Desk
          BY <4>2 DEF MarkPrint, IngestTypes
        <5> QED BY <4>2, <5>1 DEF MarkPrint, Desk
      <4> QED BY <1>8, <4>1, <4>2 DEF ClearDesk
    <3>3. ServingIsOnDesk'
      BY <2>3, <3>1, <3>2 DEF DeliveryInv, ServingIsOnDesk
    <3> QED BY <1>1, <1>2, <2>1, <3>1, <3>3 DEF DeliveryInv
  <2> QED BY <2>2, <2>3
<1>9. CASE HouseCrash \/ BreakOff
  BY <1>1, <1>2, <1>9 DEF HouseCrash, BreakOff, phoneOnly, DeliveryInv, ServingIsOnDesk
<1>10. CASE PollInbox
  <2>1. UNCHANGED <<serving, answers, acked>>
    BY <1>10 DEF PollInbox, phoneVars
  <2>2. ServingIsOnDesk'
    <3>1. CASE desk = None
      BY <2>1, <3>1 DEF DeliveryInv, ServingIsOnDesk
    <3>2. CASE desk # None
      BY <1>10, <3>2 DEF PollInbox, Seed, SeedFails, Poll, PollFails, TakeRow, TakeRowFails, Idle
    <3> QED BY <3>1, <3>2
  <2> QED BY <1>1, <1>2, <2>1, <2>2 DEF DeliveryInv
<1>11. CASE HouseStart \/ TickAndPrune \/ \E t \in Texts : Notify(t)
  <2>1. UNCHANGED <<serving, answers, acked, desk>>
    BY <1>11 DEF HouseStart, TickAndPrune, Notify, Start, Tick, Arrive, phoneVars
  <2> QED BY <1>1, <1>2, <1>3, <2>1 DEF DeliveryInv
<1> QED BY <1>5, <1>6, <1>7, <1>8, <1>9, <1>10, <1>11 DEF Next

\* A text the phone has had a 2xx answer for, and forgets, was announced, had its reason
\* to stay quiet or is dropped by the parser, or a crash or a failed save of the house fell
\* on it (postInbound, do_POST, publish_inbound).
THEOREM AckedMeansHandled == Spec => []AckedIsHandled
<1>1. Init => OnceInv /\ HandledInv /\ DeliveryInv
  <2>1. Init => DeliveryInv
    BY DEF Init, DeliveryInv, ServingIsOnDesk, AnswersAreTrue, AckedAreTrue
  <2> QED BY <2>1, OnceInit, HandledInit DEF Init
<1>2. /\ IngestTypes /\ OnceInv /\ HandledInv /\ DeliveryInv /\ [Next]_vars
      => OnceInv' /\ HandledInv' /\ DeliveryInv'
  BY OnceStep, HandledStep, DeliveryStep, DeliverySteps
<1>3. DeliveryInv => AckedIsHandled
  BY DEF DeliveryInv, AckedAreTrue, AckedIsHandled, Settled, Handled
<1> QED BY <1>1, <1>2, <1>3, IngestTypeCorrect, DeliveryImplementsIngest, PTL DEF Spec

=============================================================================
