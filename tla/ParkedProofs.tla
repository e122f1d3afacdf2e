---------------------------- MODULE ParkedProofs ----------------------------
(* Proofs about ParkedCards.                                                  *)
(*                                                                            *)
(* Every card that is somewhere was drafted, and the one the core has yet to  *)
(* save is nowhere; a reply on the bus has been given, and an allow on it has *)
(* been counted.  A card a turn waits for has been neither restored nor sent, *)
(* so that the two roads to the send tool never carry the same Allow.         *)
(*                                                                            *)
(* The second part follows a card's answer to the file: until the removal is  *)
(* written, the answer is on the window's bus or in its hands.  So a window   *)
(* that opens finds no answered card, but for those a stale write-back, a     *)
(* late copy or a crash kept, and no other is sent twice.                     *)
EXTENDS ParkedCards, TLAPS

\* The cards of the past, but for the one the core is about to save.
Drafted == {c \in Card : kind[c] # "none" /\ ~(taken["core"].op = "put" /\ taken["core"].card = c)}

\* An event that something in the past accounts for.
Backed ==
  {e \in EventType :
     /\ e.type # "cancel" => e.card \in Drafted
     /\ e.type = "reply" => e.card \in answered
     /\ e.type = "reply" /\ e.decision = "allow" => yes[e.card] >= 1}

\* What the window may be about to write back, and what the core may.
WriteBack ==
  {t \in [op : {"put", "drop"}, card : Drafted, items : SUBSET Drafted] :
     t.op = "drop" => t.card \in answered}
Draft == [op : {"put"}, card : {c \in Card : kind[c] # "none"}, items : SUBSET Drafted]

StoreInv ==
  /\ file \subseteq Drafted
  /\ taken \in [Seats -> {Idle} \cup WriteBack \cup Draft]
  /\ taken["window"] \in {Idle} \cup WriteBack
  /\ taken["core"] \in {Idle} \cup Draft

PastInv ==
  /\ kind \in [Card -> {"none", "core", "turn"}]
  /\ yes \in [Card -> Nat] /\ sent \in [Card -> Nat]
  /\ answered \subseteq Drafted

RoadInv ==
  /\ link \in Seq(Drafted)
  /\ bus \in Seq(Backed) /\ view \in Seq(Backed)

GlassInv ==
  /\ open \in Drafted \cup {NoCard} /\ phone \in Drafted \cup {NoCard}
  /\ queue \subseteq Drafted /\ restoring \subseteq Drafted
  /\ waiter \subseteq Drafted /\ sends \subseteq Drafted

SendInv ==
  /\ win # "up" => waiter = {}
  /\ \A c \in waiter : c \notin restoring /\ c \notin sends /\ sent[c] = 0
  /\ \A c \in Card : kind[c] = "none" => sent[c] = 0
  /\ SendNeedsItsAllow

ParkedInv == StoreInv /\ PastInv /\ RoadInv /\ GlassInv /\ SendInv

\* The past only grows.
Grows ==
  /\ Drafted \subseteq Drafted'
  /\ answered \subseteq answered'
  /\ \A c \in Card : yes'[c] >= yes[c]
  /\ \A c \in Card : kind[c] # "none" => kind'[c] # "none"

-----------------------------------------------------------------------------

LEMMA SeqFacts ==
  ASSUME NEW S, NEW T, S \subseteq T, NEW s \in Seq(S)
  PROVE  /\ s \in Seq(T)
         /\ \A e \in T : Append(s, e) \in Seq(T)
         /\ \A t \in Seq(T) : s \o t \in Seq(T)
         /\ s # <<>> => Head(s) \in S /\ Tail(s) \in Seq(T)
<1>1. s \in Seq(T)
  OBVIOUS
<1> QED
  BY <1>1

LEMMA SeqParts ==
  ASSUME NEW S
  PROVE  /\ <<>> \in Seq(S)
         /\ \A e \in S : <<e>> \in Seq(S)
         /\ \A s \in Seq(S) : s # <<>> => Head(s) \in S /\ Tail(s) \in Seq(S)
         /\ \A s \in Seq(S), e \in S : Append(s, e) \in Seq(S)
         /\ \A s, t \in Seq(S) : s \o t \in Seq(S)
OBVIOUS

LEMMA InitParked == Init => ParkedInv
<1> SUFFICES ASSUME Init PROVE ParkedInv
  OBVIOUS
<1> USE DEF Init
<1>1. StoreInv
  BY DEF StoreInv, Seats
<1>4. PastInv /\ GlassInv
  BY DEF PastInv, GlassInv
<1>2. RoadInv
  BY DEF RoadInv
<1>3. SendInv
  BY DEF SendInv, SendNeedsItsAllow
<1> QED
  BY <1>1, <1>2, <1>3, <1>4 DEF ParkedInv

\* The steps that read or write the file.

LEMMA FileSteps ==
  ASSUME [Next]_vars
  PROVE  \/ UNCHANGED <<file, taken>>
         \/ \E s \in Seats : taken[s] # Idle /\ Save(s)
         \/ /\ file' = file
            /\ \E s \in Seats : taken' = [taken EXCEPT ![s] = Idle]
         \/ \E c \in Card : CoreDrafts(c)
         \/ OnConfirm \/ OnReply
<1>1. CASE CoreEnds \/ WindowEnds
  BY <1>1 DEF CoreEnds, WindowEnds, Seats
<1>2. CASE CoreSaves \/ WindowSaves
  BY <1>2 DEF CoreSaves, WindowSaves, Seats
<1>3. CASE \/ CoreStarts \/ Opens \/ Attaches \/ RestoresParked \/ LinkDelivers \/ OnCancel
           \/ ShowConfirm \/ ShowReply \/ ShowCancel \/ ShowNext \/ PressStop \/ SayStop
           \/ TurnEnds \/ UNCHANGED vars
  BY <1>3 DEF CoreStarts, Opens, Attaches, RestoresParked, LinkDelivers, OnCancel, ShowConfirm,
       ShowReply, ShowCancel, ShowNext, PressStop, SayStop, TurnEnds, vars, storeVars
<1>4. CASE \E c \in Card : TurnAsks(c) \/ SendRuns(c) \/ TimesOut(c)
  BY <1>4 DEF TurnAsks, SendRuns, TimesOut, storeVars
<1>5. CASE \E d \in {"allow", "skip"} : Decide(d) \/ PhoneDecides(d)
  BY <1>5 DEF Decide, PhoneDecides, storeVars
<1> QED
  BY <1>1, <1>2, <1>3, <1>4, <1>5 DEF Next

LEMMA DraftedGrows ==
  ASSUME ParkedInv, [Next]_vars
  PROVE  Drafted \subseteq Drafted'
<1>1. taken \in [Seats -> {Idle} \cup WriteBack \cup Draft] /\ kind \in [Card -> {"none", "core", "turn"}]
  BY DEF ParkedInv, StoreInv, PastInv
<1>2. \A c \in Card : kind[c] # "none" => kind'[c] = kind[c]
  <2>1. CASE \E c \in Card : CoreDrafts(c) \/ TurnAsks(c)
    BY <1>1, <2>1 DEF CoreDrafts, TurnAsks
  <2>2. CASE ~\E c \in Card : CoreDrafts(c) \/ TurnAsks(c)
    <3>1. kind' = kind
      BY <2>2 DEF Next, CoreStarts, CoreEnds, CoreSaves, Opens, Attaches, RestoresParked,
           WindowEnds, LinkDelivers, OnConfirm, OnReply, OnCancel, WindowSaves, ShowConfirm,
           ShowReply, ShowCancel, ShowNext, PressStop, SayStop, TurnEnds, SendRuns, TimesOut,
           Decide, PhoneDecides, vars, pastVars
    <3> QED
      BY <3>1
  <2> QED
    BY <2>1, <2>2
<1>3. taken'["core"] \in {taken["core"], Idle} \/ \E c \in Card : CoreDrafts(c)
  BY <1>1, FileSteps DEF Save, OnConfirm, OnReply, Take, Seats
<1>4. CASE taken'["core"] \in {taken["core"], Idle}
  BY <1>2, <1>4 DEF Drafted, Idle
<1>5. CASE \E c \in Card : CoreDrafts(c)
  <2>1. PICK c \in Card : CoreDrafts(c)
    BY <1>5
  <2>2. kind[c] = "none" /\ taken'["core"].card = c
    BY <1>1, <2>1 DEF CoreDrafts, Take, Seats
  <2> QED
    BY <1>2, <2>2 DEF Drafted
<1> QED
  BY <1>3, <1>4, <1>5

LEMMA PastGrows ==
  ASSUME ParkedInv, [Next]_vars
  PROVE  PastInv' /\ Grows
<1>a. Drafted \subseteq Drafted' /\ Drafted \subseteq Card /\ NoCard \notin Drafted
  BY DraftedGrows, ParkedAssumption DEF Drafted
<1> USE <1>a DEF ParkedInv, PastInv, GlassInv, Grows
<1>1. CASE \E c \in Card : CoreDrafts(c) \/ TurnAsks(c) \/ SendRuns(c) \/ TimesOut(c)
  <2>1. PICK c \in Card : CoreDrafts(c) \/ TurnAsks(c) \/ SendRuns(c) \/ TimesOut(c)
    BY <1>1
  <2>2. CASE CoreDrafts(c) \/ TurnAsks(c)
    <3>1. UNCHANGED <<yes, sent, answered>> /\ kind[c] = "none"
      BY <2>2 DEF CoreDrafts, TurnAsks
    <3>2. \/ kind' = [kind EXCEPT ![c] = "core"]
          \/ kind' = [kind EXCEPT ![c] = "turn"]
      BY <2>2 DEF CoreDrafts, TurnAsks
    <3> QED
      BY <3>1, <3>2
  <2>3. CASE SendRuns(c)
    <3>1. UNCHANGED <<kind, yes, answered>>
      BY <2>3 DEF SendRuns
    <3>2. sent' = [sent EXCEPT ![c] = @ + 1] \/ UNCHANGED sent
      BY <2>3 DEF SendRuns
    <3> QED
      BY <3>1, <3>2
  <2>4. CASE TimesOut(c)
    <3>1. UNCHANGED <<kind, yes, sent>> /\ answered' = answered \cup {c} /\ c \in waiter
      BY <2>4 DEF TimesOut
    <3> QED
      BY <3>1
  <2> QED
    BY <2>1, <2>2, <2>3, <2>4
<1>2. CASE \E d \in {"allow", "skip"} : Decide(d) \/ PhoneDecides(d)
  BY <1>2 DEF Decide, PhoneDecides
<1>3. CASE PressStop
  <2>1. UNCHANGED <<kind, yes, sent>>
    BY <1>3 DEF PressStop
  <2>2. answered' = answered \/ (open # NoCard /\ answered' = answered \cup {open})
    BY <1>3 DEF PressStop
  <2> QED
    BY <2>1, <2>2
<1>4. CASE \/ CoreStarts \/ CoreEnds \/ CoreSaves \/ Opens \/ Attaches \/ RestoresParked
           \/ WindowEnds \/ LinkDelivers \/ OnConfirm \/ OnReply \/ OnCancel \/ WindowSaves
           \/ ShowConfirm \/ ShowReply \/ ShowCancel \/ ShowNext \/ SayStop \/ TurnEnds
           \/ UNCHANGED vars
  <2>1. UNCHANGED <<kind, yes, sent, answered>>
    BY <1>4 DEF CoreStarts, CoreEnds, CoreSaves, Opens, Attaches, RestoresParked, WindowEnds,
         LinkDelivers, OnConfirm, OnReply, OnCancel, WindowSaves, ShowConfirm, ShowReply,
         ShowCancel, ShowNext, SayStop, TurnEnds, vars, pastVars
  <2> QED
    BY <2>1
<1> QED
  BY <1>1, <1>2, <1>3, <1>4 DEF Next

LEMMA Kept ==
  ASSUME ParkedInv, PastInv', Grows
  PROVE  /\ Backed \subseteq Backed' /\ WriteBack \subseteq WriteBack'
         /\ Drafted \subseteq Drafted'
         /\ file \in SUBSET Drafted'
         /\ taken \in [Seats -> {Idle} \cup WriteBack' \cup Draft']
         /\ taken["window"] \in {Idle} \cup WriteBack' /\ taken["core"] \in {Idle} \cup Draft'
         /\ link \in Seq(Drafted') /\ bus \in Seq(Backed') /\ view \in Seq(Backed')
         /\ open \in Drafted' \cup {NoCard} /\ phone \in Drafted' \cup {NoCard}
         /\ queue \subseteq Drafted' /\ restoring \subseteq Drafted'
         /\ waiter \subseteq Drafted' /\ sends \subseteq Drafted'
<1>1. Backed \subseteq Backed'
  <2>1. Drafted \subseteq Card
    BY DEF Drafted
  <2>2. SUFFICES ASSUME NEW e \in Backed PROVE e \in Backed'
    OBVIOUS
  <2>3. e \in EventType /\ (e.type # "cancel" => e.card \in Drafted)
        /\ (e.type = "reply" => e.card \in answered)
        /\ (e.type = "reply" /\ e.decision = "allow" => yes[e.card] >= 1)
    BY DEF Backed
  <2>4. e.type # "cancel" => e.card \in Drafted'
    BY <2>3 DEF Grows
  <2>5. e.type = "reply" => e.card \in answered'
    BY <2>3 DEF Grows
  <2>6. e.type = "reply" /\ e.decision = "allow" => yes'[e.card] >= 1
    <3>1. SUFFICES ASSUME e.type = "reply", e.decision = "allow" PROVE yes'[e.card] >= 1
      OBVIOUS
    <3>2. e.card \in Card
      BY <3>1, <2>1, <2>3
    <3>3. yes[e.card] \in Nat /\ yes'[e.card] >= yes[e.card] /\ yes'[e.card] \in Nat
      BY <3>2 DEF ParkedInv, PastInv, Grows
    <3> QED
      BY <3>1, <3>3, <2>3
  <2> QED
    BY <2>3, <2>4, <2>5, <2>6 DEF Backed
<1>2. WriteBack \subseteq WriteBack'
  BY DEF Grows, WriteBack
<1>5. Draft \subseteq Draft'
  BY DEF Grows, Draft
<1>3. link \in Seq(Drafted') /\ bus \in Seq(Backed') /\ view \in Seq(Backed')
  BY <1>1, SeqFacts DEF ParkedInv, RoadInv, Grows
<1>4. /\ taken \in [Seats -> {Idle} \cup WriteBack' \cup Draft']
      /\ taken["window"] \in {Idle} \cup WriteBack' /\ taken["core"] \in {Idle} \cup Draft'
  BY <1>2, <1>5 DEF ParkedInv, StoreInv
<1> QED
  BY <1>1, <1>2, <1>3, <1>4 DEF ParkedInv, StoreInv, GlassInv, Grows

-----------------------------------------------------------------------------
\* What may be read and written stays within what was drafted.

\* A step of one process leaves the other's read alone.
LEMMA TakenKept ==
  ASSUME ParkedInv, PastInv', Grows, file' \subseteq Drafted', NEW s \in Seats, NEW t,
         taken' = [taken EXCEPT ![s] = t],
         IF s = "core" THEN t \in {Idle} \cup Draft' ELSE t \in {Idle} \cup WriteBack'
  PROVE  StoreInv'
<1>1. taken' \in [Seats -> {Idle} \cup WriteBack' \cup Draft']
  BY Kept
<1>2. taken'["window"] \in {Idle} \cup WriteBack' /\ taken'["core"] \in {Idle} \cup Draft'
  BY Kept DEF Seats
<1> QED
  BY <1>1, <1>2 DEF StoreInv

LEMMA StoreKept ==
  ASSUME ParkedInv, [Next]_vars, PastInv', Grows
  PROVE  StoreInv'
<1>1. CASE UNCHANGED <<file, taken>>
  BY <1>1, Kept DEF StoreInv
<1>2. CASE \E s \in Seats : taken[s] # Idle /\ Save(s)
  <2>1. PICK s \in Seats : taken[s] # Idle /\ Save(s)
    BY <1>2
  <2>2. taken' = [taken EXCEPT ![s] = Idle]
    BY <2>1 DEF Save
  <2>3. \/ file' \in {file, {}} \/ file' = taken[s].items \cup {taken[s].card}
        \/ file' = taken[s].items \ {taken[s].card}
    BY <2>1 DEF Save, Saved, SaveFails, Rows
  <2>4. taken[s].items \subseteq Drafted' /\ taken[s].card \in Drafted'
    <3>1. CASE s = "window"
      BY <2>1, <3>1, Kept DEF WriteBack
    <3>2. CASE s = "core"
      <4>1. taken["core"] \in Draft' /\ taken'["core"] = Idle
        BY <2>1, <2>2, <3>2, Kept DEF Seats
      <4> QED
        BY <3>2, <4>1 DEF Draft, Drafted, Idle
    <3> QED
      BY <3>1, <3>2 DEF Seats
  <2>5. file' \subseteq Drafted'
    BY <2>3, <2>4, Kept
  <2> QED
    BY <2>2, <2>5, TakenKept
<1>3. CASE file' = file /\ \E s \in Seats : taken' = [taken EXCEPT ![s] = Idle]
  BY <1>3, Kept, TakenKept
<1>4. CASE \E c \in Card : CoreDrafts(c)
  <2>1. PICK c \in Card : CoreDrafts(c)
    BY <1>4
  <2>2. PICK rows \in {file, {}} :
          /\ file' = file
          /\ taken' = [taken EXCEPT !["core"] = [op |-> "put", card |-> c, items |-> rows]]
    BY <2>1 DEF CoreDrafts, Take
  <2>3. kind'[c] # "none"
    BY <2>1 DEF CoreDrafts, ParkedInv, PastInv
  <2>4. [op |-> "put", card |-> c, items |-> rows] \in Draft'
    BY <2>3, Kept DEF Draft
  <2> QED
    BY <2>2, <2>4, Kept, TakenKept DEF Seats
<1>5. CASE OnConfirm \/ OnReply
  <2> DEFINE e == Head(bus)
             t(op, rows) == [op |-> op, card |-> e.card, items |-> rows]
  <2>1. e \in Backed
    BY <1>5, SeqFacts DEF OnConfirm, OnReply, Handled, ParkedInv, RoadInv
  <2>2. file' = file
    BY <1>5 DEF OnConfirm, OnReply
  <2>3. CASE OnConfirm
    <3>1. e.card \in Drafted'
      BY <2>1, <2>3, Kept DEF OnConfirm, Handled, Backed
    <3>2. \A rows \in {file, {}} : t("put", rows) \in WriteBack'
      BY <3>1, Kept DEF WriteBack
    <3>3. PICK rows \in {file, {}} : taken' = [taken EXCEPT !["window"] = t("put", rows)]
      BY <2>3 DEF OnConfirm, Take
    <3> QED
      BY <2>2, <3>2, <3>3, Kept, TakenKept DEF Seats
  <2>4. CASE OnReply
    <3>1. e.card \in Drafted' /\ e.card \in answered'
      BY <2>1, <2>4, Kept DEF OnReply, Handled, Backed, Grows
    <3>2. \A rows \in {file, {}} : t("drop", rows) \in WriteBack'
      BY <3>1, Kept DEF WriteBack
    <3>3. PICK rows \in {file, {}} : taken' = [taken EXCEPT !["window"] = t("drop", rows)]
      BY <2>4 DEF OnReply, Take
    <3> QED
      BY <2>2, <3>2, <3>3, Kept, TakenKept DEF Seats
  <2> QED
    BY <1>5, <2>3, <2>4
<1> QED
  BY <1>1, <1>2, <1>3, <1>4, <1>5, FileSteps

-----------------------------------------------------------------------------
\* The steps that touch the roads between the processes and threads.

\* An event of this step, for Publish.
LEMMA PublishKeeps ==
  ASSUME ParkedInv, PastInv', Grows, NEW e \in Backed', Publish(e), view' = view, link' = link
  PROVE  RoadInv'
BY Kept, SeqFacts DEF Publish, RoadInv

\* A reply for a card on screen, at the phone or timed out.
LEMMA ReplyBacked ==
  ASSUME PastInv', NEW c \in Drafted', NEW d \in {"allow", "skip"},
         c \in answered', d = "allow" => yes'[c] >= 1
  PROVE  Event("reply", c, d) \in Backed'
<1>1. c \in Card
  BY DEF Drafted
<1>2. Event("reply", c, d) \in EventType
  BY <1>1 DEF Event, EventType
<1> QED
  BY <1>2 DEF Event, Backed

LEMMA AskedIsDrafted ==
  ASSUME ParkedInv, NEW c \in Card, TurnAsks(c)
  PROVE  c \in Drafted'
<1>1. kind' = [kind EXCEPT ![c] = "turn"] /\ kind[c] = "none" /\ taken' = taken
  BY DEF TurnAsks, storeVars
<1>2. kind'[c] = "turn"
  BY <1>1 DEF ParkedInv, PastInv
<1>3. taken["core"] = Idle \/ kind[taken["core"].card] # "none"
  BY DEF ParkedInv, StoreInv, Draft
<1> QED
  BY <1>1, <1>2, <1>3 DEF Drafted, Idle

LEMMA RoadKept ==
  ASSUME ParkedInv, [Next]_vars, PastInv', Grows
  PROVE  RoadInv'
<1>a. PastInv /\ GlassInv
  BY DEF ParkedInv
<1>1. CASE CoreEnds \/ WindowEnds
  <2>1. link' = <<>> /\ bus' \in {bus, <<>>} /\ view' \in {view, <<>>}
    BY <1>1 DEF CoreEnds, WindowEnds
  <2>2. <<>> \in Seq(Drafted') /\ <<>> \in Seq(Backed')
    BY SeqParts
  <2>3. bus' \in Seq(Backed') /\ view' \in Seq(Backed')
    BY <2>1, <2>2, Kept
  <2> QED
    BY <2>1, <2>2, <2>3 DEF RoadInv
<1>2. CASE CoreSaves
  <2>1. UNCHANGED <<bus, view>> /\ link' \in {link, Append(link, taken["core"].card)}
    BY <1>2 DEF CoreSaves
  <2>2. taken["core"].card \in Drafted'
    <3>1. taken["core"] \in Draft' /\ taken' = [taken EXCEPT !["core"] = Idle]
      BY <1>2, Kept DEF CoreSaves, Save
    <3>2. taken'["core"] = Idle
      BY <3>1, Kept DEF Seats
    <3> QED
      BY <3>1, <3>2 DEF Draft, Drafted, Idle
  <2>3. Append(link, taken["core"].card) \in Seq(Drafted')
    BY <2>2, Kept
  <2> QED
    BY <2>1, <2>3, Kept DEF RoadInv
<1>3. CASE LinkDelivers
  <2>1. link # <<>> /\ link' = Tail(link) /\ view' = view
        /\ Publish(Event("confirm", Head(link), ""))
    BY <1>3 DEF LinkDelivers
  <2>2. Head(link) \in Drafted' /\ Tail(link) \in Seq(Drafted')
    <3>1. link \in Seq(Drafted')
      BY Kept
    <3> QED
      BY <2>1, <3>1, SeqParts
  <2>3. Event("confirm", Head(link), "") \in Backed'
    BY <2>2 DEF Event, Backed, EventType, Drafted
  <2>4. bus' \in Seq(Backed')
    <3>1. bus' = Append(bus, Event("confirm", Head(link), "")) /\ bus \in Seq(Backed')
      BY <2>1, Kept DEF Publish
    <3> QED
      BY <2>3, <3>1, SeqParts
  <2> QED
    BY <2>1, <2>2, <2>4, Kept DEF RoadInv
<1>4. CASE OnConfirm \/ OnReply \/ OnCancel
  <2>1. bus # <<>> /\ bus' = Tail(bus) /\ view' = Append(view, Head(bus)) /\ link' = link
    BY <1>4 DEF OnConfirm, OnReply, OnCancel, Handled, linkVars
  <2>2. Head(bus) \in Backed' /\ Tail(bus) \in Seq(Backed')
    BY <2>1, Kept
  <2>3. Append(view, Head(bus)) \in Seq(Backed')
    BY <2>2, Kept
  <2> QED
    BY <2>1, <2>2, <2>3, Kept DEF RoadInv
<1>5. CASE ShowConfirm \/ ShowReply \/ ShowCancel
  <2>1. view # <<>> /\ view' = Tail(view) /\ UNCHANGED <<bus, link>>
    BY <1>5 DEF ShowConfirm, ShowReply, ShowCancel, Shown, linkVars
  <2> QED
    BY <2>1, Kept DEF RoadInv
<1>6. CASE \E c \in Card : TurnAsks(c)
  <2>1. PICK c \in Card : TurnAsks(c)
    BY <1>6
  <2>2. c \in Drafted' /\ UNCHANGED <<view, link>> /\ Publish(Event("confirm", c, ""))
    BY <2>1, AskedIsDrafted DEF TurnAsks, linkVars
  <2>3. Event("confirm", c, "") \in Backed'
    BY <2>2 DEF Event, Backed, EventType
  <2> QED
    BY <2>2, <2>3, PublishKeeps
<1>7. CASE \E c \in Card : TimesOut(c)
  <2>1. PICK c \in Card : TimesOut(c)
    BY <1>7
  <2>2. UNCHANGED <<view, link>> /\ Publish(Event("reply", c, "skip")) /\ c \in answered'
        /\ c \in waiter
    BY <2>1 DEF TimesOut, linkVars
  <2>3. Event("reply", c, "skip") \in Backed'
    BY <2>2, ReplyBacked, Kept
  <2> QED
    BY <2>2, <2>3, PublishKeeps
<1>8. CASE \E d \in {"allow", "skip"} : Decide(d) \/ PhoneDecides(d)
  <2>1. PICK d \in {"allow", "skip"} : Decide(d) \/ PhoneDecides(d)
    BY <1>8
  <2> DEFINE c == IF Decide(d) THEN open ELSE phone
  <2>2. c # NoCard /\ UNCHANGED <<view, link>> /\ Publish(Event("reply", c, d))
        /\ answered' = answered \cup {c}
        /\ yes' = IF d = "allow" THEN [yes EXCEPT ![c] = @ + 1] ELSE yes
    BY <2>1 DEF Decide, PhoneDecides, linkVars
  <2>3. c \in Drafted' /\ c \in Drafted
    BY <2>2, <1>a, Kept DEF GlassInv
  <2>4. d = "allow" => yes'[c] >= 1
    <3>1. yes[c] \in Nat /\ yes \in [Card -> Nat] /\ c \in Card
      BY <2>3, <1>a DEF PastInv, Drafted
    <3>2. d = "allow" => yes'[c] = yes[c] + 1
      BY <2>2, <3>1
    <3> QED
      BY <3>1, <3>2
  <2>5. Event("reply", c, d) \in Backed'
    BY <2>2, <2>3, <2>4, ReplyBacked
  <2> QED
    BY <2>2, <2>5, PublishKeeps
<1>9. CASE PressStop
  <2>1. UNCHANGED <<view, link>>
    BY <1>9 DEF PressStop, linkVars
  <2>2. Event("cancel", NoCard, "") \in Backed'
    BY DEF Event, Backed, EventType
  <2>3. open # NoCard => open \in answered'
    BY <1>9 DEF PressStop
  <2>4. open # NoCard => Event("reply", open, "skip") \in Backed'
    BY <2>3, ReplyBacked, Kept
  <2>5. (IF open = NoCard THEN <<>> ELSE <<Event("reply", open, "skip")>>) \in Seq(Backed')
    BY <2>4
  <2>6. <<Event("cancel", NoCard, "")>> \in Seq(Backed')
    BY <2>2, SeqParts
  <2>7. bus' = bus \o (IF open = NoCard THEN <<>> ELSE <<Event("reply", open, "skip")>>)
                  \o <<Event("cancel", NoCard, "")>>
    BY <1>9 DEF PressStop
  <2>8. bus' \in Seq(Backed')
    <3> DEFINE s == IF open = NoCard THEN <<>> ELSE <<Event("reply", open, "skip")>>
               t == <<Event("cancel", NoCard, "")>>
    <3>1. bus \in Seq(Backed') /\ s \in Seq(Backed') /\ t \in Seq(Backed')
      BY <2>5, <2>6, Kept
    <3>2. bus' = (bus \o s) \o t
      BY <2>7
    <3> HIDE DEF s, t
    <3> QED
      BY <3>1, <3>2, SeqParts
  <2> QED
    BY <2>1, <2>8, Kept DEF RoadInv
<1>10. CASE SayStop
  <2>1. Event("cancel", NoCard, "") \in Backed'
    BY DEF Event, Backed, EventType
  <2> QED
    BY <1>10, <2>1, PublishKeeps DEF SayStop, linkVars
<1>11. CASE \/ CoreStarts \/ Opens \/ Attaches \/ RestoresParked \/ WindowSaves \/ ShowNext
            \/ TurnEnds \/ UNCHANGED vars
            \/ \E c \in Card : CoreDrafts(c) \/ SendRuns(c)
  <2>1. UNCHANGED <<link, bus, view>>
    BY <1>11 DEF CoreStarts, Opens, Attaches, RestoresParked, WindowSaves, ShowNext, TurnEnds,
         CoreDrafts, SendRuns, vars, linkVars
  <2> QED
    BY <2>1, Kept DEF RoadInv
<1> QED
  BY <1>1, <1>2, <1>3, <1>4, <1>5, <1>6, <1>7, <1>8, <1>9, <1>10, <1>11 DEF Next

-----------------------------------------------------------------------------
\* The window's own state, and the two roads to a send.

LEMMA GlassKept ==
  ASSUME ParkedInv, [Next]_vars, PastInv', Grows
  PROVE  GlassInv'
<1>a. PastInv /\ GlassInv /\ RoadInv /\ StoreInv
  BY DEF ParkedInv
<1>1. CASE WindowEnds
  BY <1>1, Kept DEF WindowEnds, GlassInv
<1>2. CASE OnConfirm \/ OnReply \/ OnCancel
  <2>1. bus # <<>> /\ Head(bus) \in Backed'
    <3>1. bus # <<>>
      BY <1>2 DEF OnConfirm, OnReply, OnCancel, Handled
    <3> QED
      BY <3>1, Kept, SeqParts
  <2>2. Head(bus).type # "cancel" => Head(bus).card \in Drafted'
    BY <2>1 DEF Backed
  <2>3. UNCHANGED <<open, queue, restoring>> /\ waiter' \subseteq waiter
        /\ (phone' \in {phone, NoCard} \/ (Head(bus).type = "confirm" /\ phone' = Head(bus).card))
        /\ sends' \subseteq sends \cup waiter
    BY <1>2 DEF OnConfirm, OnReply, OnCancel, Handled, glassVars, turnVars
  <2> QED
    BY <2>2, <2>3, Kept DEF GlassInv
<1>3. CASE ShowConfirm \/ ShowReply \/ ShowCancel
  <2>1. view # <<>> /\ Head(view) \in Backed'
    <3>1. view # <<>>
      BY <1>3 DEF ShowConfirm, ShowReply, ShowCancel, Shown
    <3> QED
      BY <3>1, Kept, SeqParts
  <2>2. Head(view).type # "cancel" => Head(view).card \in Drafted'
    BY <2>1 DEF Backed
  <2>3. UNCHANGED <<phone, waiter, sends>> /\ queue' \subseteq queue /\ restoring' \subseteq restoring
        /\ (open' \in {open, NoCard} \/ (Head(view).type = "confirm" /\ open' = Head(view).card))
    BY <1>3 DEF ShowConfirm, ShowReply, ShowCancel, Shown, turnVars
  <2> QED
    BY <2>2, <2>3, Kept DEF GlassInv
<1>4. CASE \E c \in Card : TurnAsks(c)
  <2>1. PICK c \in Card : TurnAsks(c)
    BY <1>4
  <2>2. c \in Drafted' /\ waiter' = waiter \cup {c}
        /\ UNCHANGED <<open, queue, restoring, phone, sends>>
    BY <2>1, AskedIsDrafted DEF TurnAsks, glassVars
  <2> QED
    BY <2>2, Kept DEF GlassInv
<1>5. CASE \E c \in Card : SendRuns(c) \/ TimesOut(c)
  <2>1. UNCHANGED <<open, queue, restoring, phone>> /\ waiter' \subseteq waiter /\ sends' \subseteq sends
    BY <1>5 DEF SendRuns, TimesOut, glassVars
  <2> QED
    BY <2>1, Kept DEF GlassInv
<1>6. CASE \E d \in {"allow", "skip"} : Decide(d) \/ PhoneDecides(d)
  <2>1. waiter' = waiter /\ queue' \subseteq queue /\ restoring' \subseteq restoring
        /\ open' \in {open, NoCard} /\ phone' \in {phone, NoCard}
        /\ (sends' = sends \/ (open # NoCard /\ sends' = sends \cup {open}))
    BY <1>6 DEF Decide, PhoneDecides, glassVars, turnVars
  <2> QED
    BY <2>1, Kept DEF GlassInv
<1>7. CASE RestoresParked
  <2>1. queue' \in {file, {}} /\ restoring' = queue' /\ UNCHANGED <<open, phone, waiter, sends>>
    BY <1>7 DEF RestoresParked, turnVars
  <2> QED
    BY <2>1, Kept DEF GlassInv
<1>8. CASE ShowNext \/ PressStop \/ TurnEnds
  <2>1. UNCHANGED <<phone, waiter, sends>> /\ queue' \subseteq queue /\ restoring' \subseteq restoring
        /\ (open' \in {open, NoCard} \/ open' \in queue)
    BY <1>8 DEF ShowNext, PressStop, TurnEnds, turnVars
  <2> QED
    BY <2>1, Kept DEF GlassInv
<1>9. CASE \/ CoreStarts \/ CoreEnds \/ CoreSaves \/ Opens \/ Attaches \/ LinkDelivers
           \/ WindowSaves \/ SayStop \/ UNCHANGED vars \/ \E c \in Card : CoreDrafts(c)
  <2>1. UNCHANGED <<open, queue, restoring, phone, waiter, sends>>
    BY <1>9 DEF CoreStarts, CoreEnds, CoreSaves, Opens, Attaches, LinkDelivers, WindowSaves,
         SayStop, CoreDrafts, vars, glassVars, turnVars
  <2> QED
    BY <2>1, Kept DEF GlassInv
<1> QED
  BY <1>1, <1>2, <1>3, <1>4, <1>5, <1>6, <1>7, <1>8, <1>9 DEF Next

\* What a step that gives no Allow and starts no send may do to SendInv's state.
LEMMA SendCalm ==
  ASSUME ParkedInv, PastInv', Grows, kind' = kind, sent' = sent,
         sends' \subseteq sends, waiter' \subseteq waiter,
         restoring' \subseteq restoring \/ waiter' = {},
         win' # "up" => win' = win \/ waiter' = {}
  PROVE  SendInv'
<1>1. \A c \in Card : sent[c] \in Nat /\ yes[c] \in Nat /\ yes'[c] \in Nat /\ yes'[c] >= yes[c]
  BY DEF ParkedInv, PastInv, Grows
<1>2. SendNeedsItsAllow'
  BY <1>1 DEF ParkedInv, SendInv, SendNeedsItsAllow
<1> QED
  BY <1>2 DEF ParkedInv, SendInv

LEMMA SendKept ==
  ASSUME ParkedInv, [Next]_vars, PastInv', Grows
  PROVE  SendInv'
<1>a. PastInv /\ GlassInv /\ RoadInv /\ SendInv
  BY DEF ParkedInv
<1>b. \A c \in Card : sent[c] \in Nat /\ yes[c] \in Nat /\ yes'[c] \in Nat /\ yes'[c] >= yes[c]
  BY <1>a DEF PastInv, Grows
<1>1. CASE \/ CoreStarts \/ CoreEnds \/ CoreSaves \/ Opens \/ Attaches \/ RestoresParked
           \/ WindowEnds \/ LinkDelivers \/ OnConfirm \/ OnCancel \/ WindowSaves
           \/ ShowConfirm \/ ShowReply \/ ShowCancel \/ ShowNext \/ PressStop \/ SayStop
           \/ TurnEnds \/ UNCHANGED vars
           \/ \E c \in Card : TimesOut(c)
           \/ \E d \in {"allow", "skip"} : PhoneDecides(d)
  <2>1. kind' = kind /\ sent' = sent
    BY <1>1 DEF CoreStarts, CoreEnds, CoreSaves, Opens, Attaches, RestoresParked, WindowEnds,
         LinkDelivers, OnConfirm, OnCancel, WindowSaves, ShowConfirm, ShowReply, ShowCancel,
         ShowNext, PressStop, SayStop, TurnEnds, TimesOut, PhoneDecides, vars, pastVars
  <2>2. sends' \subseteq sends /\ waiter' \subseteq waiter
    BY <1>1 DEF CoreStarts, CoreEnds, CoreSaves, Opens, Attaches, RestoresParked, WindowEnds,
         LinkDelivers, OnConfirm, OnCancel, WindowSaves, ShowConfirm, ShowReply, ShowCancel,
         ShowNext, PressStop, SayStop, TurnEnds, TimesOut, PhoneDecides, vars, turnVars
  <2>3. restoring' \subseteq restoring \/ waiter' = {}
    <3>1. CASE RestoresParked
      BY <3>1, <1>a, <2>2 DEF RestoresParked, SendInv
    <3>2. CASE ~RestoresParked
      BY <1>1, <3>2 DEF CoreStarts, CoreEnds, CoreSaves, Opens, Attaches, WindowEnds,
           LinkDelivers, OnConfirm, OnCancel, WindowSaves, ShowConfirm, ShowReply, ShowCancel,
           ShowNext, PressStop, SayStop, TurnEnds, TimesOut, PhoneDecides, vars, glassVars
    <3> QED
      BY <3>1, <3>2
  <2>4. win' # "up" => win' = win \/ waiter' = {}
    <3>1. CASE Opens \/ RestoresParked \/ WindowEnds
      BY <3>1, <1>a, <2>2 DEF Opens, RestoresParked, WindowEnds, SendInv
    <3>2. CASE ~(Opens \/ RestoresParked \/ WindowEnds)
      BY <1>1, <3>2 DEF CoreStarts, CoreEnds, CoreSaves, Attaches, LinkDelivers, OnConfirm,
           OnCancel, WindowSaves, ShowConfirm, ShowReply, ShowCancel, ShowNext, PressStop,
           SayStop, TurnEnds, TimesOut, PhoneDecides, vars
    <3> QED
      BY <3>1, <3>2
  <2> QED
    BY <2>1, <2>2, <2>3, <2>4, SendCalm
<1>2. CASE \E c \in Card : CoreDrafts(c) \/ TurnAsks(c)
  <2>1. PICK c \in Card : CoreDrafts(c) \/ TurnAsks(c)
    BY <1>2
  <2>2. kind[c] = "none" /\ UNCHANGED <<sent, yes, sends, restoring, win>>
        /\ (waiter' = waiter \/ (win = "up" /\ waiter' = waiter \cup {c}))
        /\ \A x \in Card : kind'[x] = "none" => kind[x] = "none"
    BY <2>1, <1>a DEF CoreDrafts, TurnAsks, glassVars, turnVars, PastInv
  <2>3. c \notin restoring /\ c \notin sends /\ sent[c] = 0
    BY <2>2, <1>a DEF GlassInv, Drafted, SendInv
  <2>4. SendNeedsItsAllow'
    BY <2>2, <1>a DEF SendInv, SendNeedsItsAllow
  <2> QED
    BY <2>2, <2>3, <2>4, <1>a DEF SendInv
<1>3. CASE OnReply
  <2> DEFINE c == Head(bus).card
  <2>1. bus # <<>> /\ Head(bus) \in Backed /\ Head(bus).type = "reply"
    <3>1. bus # <<>> /\ Head(bus).type = "reply"
      BY <1>3 DEF OnReply, Handled
    <3> QED
      BY <3>1, <1>a, SeqParts DEF RoadInv
  <2>2. c \in Card /\ (Head(bus).decision = "allow" => yes[c] >= 1)
    BY <2>1 DEF Backed, Drafted
  <2>3. UNCHANGED <<kind, yes, sent, restoring, win>> /\ waiter' = waiter \ {c}
        /\ (sends' = sends \/ (c \in waiter /\ Head(bus).decision = "allow" /\ sends' = sends \cup {c}))
    BY <1>3 DEF OnReply, pastVars, glassVars
  <2>4. CASE sends' = sends
    BY <2>3, <2>4, <1>a DEF SendInv, SendNeedsItsAllow
  <2>5. CASE c \in waiter /\ Head(bus).decision = "allow" /\ sends' = sends \cup {c}
    <3>1. sent[c] = 0 /\ yes[c] >= 1
      BY <2>2, <2>5, <1>a DEF SendInv
    <3>2. SendNeedsItsAllow'
      <4>1. SUFFICES ASSUME NEW x \in Card
                     PROVE  sent'[x] + (IF x \in sends' THEN 1 ELSE 0) <= yes'[x]
        BY DEF SendNeedsItsAllow
      <4>2. CASE x = c
        BY <4>2, <3>1, <2>3, <1>b
      <4>3. CASE x # c
        BY <4>3, <2>3, <2>5, <1>a DEF SendInv, SendNeedsItsAllow
      <4> QED
        BY <4>2, <4>3
    <3> QED
      BY <3>2, <2>3, <2>5, <1>a DEF SendInv
  <2> QED
    BY <2>3, <2>4, <2>5
<1>4. CASE \E c \in Card : SendRuns(c)
  <2>1. PICK c \in Card : SendRuns(c)
    BY <1>4
  <2>2. c \in sends /\ sends' = sends \ {c} /\ UNCHANGED <<kind, yes, waiter, restoring, win>>
        /\ (sent' = sent \/ sent' = [sent EXCEPT ![c] = @ + 1])
    BY <2>1 DEF SendRuns, glassVars
  <2>3. SendNeedsItsAllow'
    <3>1. SUFFICES ASSUME NEW x \in Card
                   PROVE  sent'[x] + (IF x \in sends' THEN 1 ELSE 0) <= yes'[x]
      BY DEF SendNeedsItsAllow
    <3>2. sent[x] + (IF x \in sends THEN 1 ELSE 0) <= yes[x]
      BY <1>a DEF SendInv, SendNeedsItsAllow
    <3>3. sent'[x] \in {sent[x], IF x = c THEN sent[x] + 1 ELSE sent[x]}
      BY <2>2, <1>a DEF PastInv
    <3> QED
      BY <3>2, <3>3, <2>2, <1>b
  <2>4. kind[c] # "none" /\ c \notin waiter
    BY <2>2, <1>a DEF GlassInv, Drafted, SendInv
  <2>5. \A x \in Card : x # c => sent'[x] = sent[x]
    BY <2>2, <1>a DEF PastInv
  <2>6. waiter \subseteq Card
    BY <1>a DEF GlassInv, Drafted
  <2> QED
    BY <2>2, <2>3, <2>4, <2>5, <2>6, <1>a DEF SendInv
<1>5. CASE \E d \in {"allow", "skip"} : Decide(d)
  <2>1. PICK d \in {"allow", "skip"} : Decide(d)
    BY <1>5
  <2>2. open \in Card /\ UNCHANGED <<kind, sent, waiter, win>> /\ restoring' \subseteq restoring
        /\ yes' = (IF d = "allow" THEN [yes EXCEPT ![open] = @ + 1] ELSE yes)
        /\ (sends' = sends \/ (SendsHere(open, d) /\ sends' = sends \cup {open}))
    BY <2>1, <1>a DEF Decide, GlassInv, Drafted
  <2>3. SendsHere(open, d) => open \in restoring /\ d = "allow"
    BY DEF SendsHere
  <2>4. SendNeedsItsAllow'
    <3>1. SUFFICES ASSUME NEW x \in Card
                   PROVE  sent'[x] + (IF x \in sends' THEN 1 ELSE 0) <= yes'[x]
      BY DEF SendNeedsItsAllow
    <3>2. sent[x] + (IF x \in sends THEN 1 ELSE 0) <= yes[x]
      BY <1>a DEF SendInv, SendNeedsItsAllow
    <3>3. yes'[x] = IF d = "allow" /\ x = open THEN yes[x] + 1 ELSE yes[x]
      BY <2>2, <1>a DEF PastInv
    <3> QED
      BY <3>2, <3>3, <2>2, <2>3, <1>b
  <2>5. \A x \in waiter' : x \notin restoring' /\ x \notin sends' /\ sent'[x] = 0
    BY <2>2, <2>3, <1>a DEF SendInv
  <2> QED
    BY <2>2, <2>4, <2>5, <1>a DEF SendInv
<1> QED
  BY <1>1, <1>2, <1>3, <1>4, <1>5 DEF Next

-----------------------------------------------------------------------------

LEMMA ParkedInductive == ParkedInv /\ [Next]_vars => ParkedInv'
<1> SUFFICES ASSUME ParkedInv, [Next]_vars PROVE ParkedInv'
  OBVIOUS
<1> QED
  BY PastGrows, StoreKept, RoadKept, GlassKept, SendKept DEF ParkedInv

\* No send without an Allow of its own, whatever the two processes, the phone
\* and the person do, and however often either process ends.
THEOREM SendsAreAllowed == Spec => []SendNeedsItsAllow
<1>1. ParkedInv => SendNeedsItsAllow
  BY DEF ParkedInv, SendInv
<1> QED
  BY <1>1, InitParked, ParkedInductive, PTL DEF Spec

\* A parked card stays on disk until it is answered, except for a write-back of
\* what was read before another process's write or by a read that failed, and for
\* a half written file that a save of both processes put in place.
THEOREM ParkedUntilAnswered == Spec => LeavesByAnswer
<1>1. ParkedInv /\ [Next]_vars => [file \ file' \subseteq answered \cup clobbered' \cup broken']_vars
  <2> SUFFICES ASSUME ParkedInv, [Next]_vars
               PROVE  file \ file' \subseteq answered \cup clobbered' \cup broken'
    OBVIOUS
  <2>1. CASE \E s \in Seats : taken[s] # Idle /\ Save(s)
    <3>1. PICK s \in Seats : taken[s] # Idle /\ Save(s)
      BY <2>1
    <3>2. taken[s] \in WriteBack \cup Draft
      BY <3>1 DEF ParkedInv, StoreInv
    <3>3. CASE Saves(taken[s]) /\ Saved(s)
      <4>1. file' = Rows(taken[s])
            /\ (file \ taken[s].items) \ {taken[s].card} \subseteq clobbered'
        BY <3>3 DEF Saved
      <4>2. taken[s].op = "put" => file \ file' \subseteq (file \ taken[s].items) \ {taken[s].card}
        BY <4>1 DEF Rows
      <4>3. taken[s].op = "drop" =>
              file \ file' \subseteq ((file \ taken[s].items) \ {taken[s].card}) \cup {taken[s].card}
        BY <4>1, <3>2 DEF Rows
      <4>4. taken[s].op = "drop" => taken[s].card \in answered
        BY <3>2 DEF WriteBack, Draft
      <4>5. taken[s].op \in {"put", "drop"}
        BY <3>2 DEF WriteBack, Draft
      <4> QED
        BY <4>1, <4>2, <4>3, <4>4, <4>5
    <3>4. CASE ~Saves(taken[s]) /\ Saved(s)
      BY <3>4 DEF Saved
    <3>5. CASE SaveFails(s)
      BY <3>5 DEF SaveFails
    <3> QED
      BY <3>1, <3>3, <3>4, <3>5 DEF Save
  <2>2. CASE file' = file
    BY <2>2
  <2>3. CASE (\E c \in Card : CoreDrafts(c)) \/ OnConfirm \/ OnReply
    BY <2>3 DEF CoreDrafts, OnConfirm, OnReply
  <2> QED
    BY <2>1, <2>2, <2>3, FileSteps
<1> QED
  BY <1>1, InitParked, ParkedInductive, PTL DEF Spec, LeavesByAnswer

-----------------------------------------------------------------------------
(* A card whose answer stays on disk is sent at most once.                    *)

\* The cards no stale write-back, crash or late copy has touched.
Clean == Card \ (clobbered \cup torn)

\* The cards a sequence of events is about.
On(s, t) == {c \in Card : \E i \in 1 .. Len(s) : s[i].type = t /\ s[i].card = c}

InHand(op, c) == taken["window"].op = op /\ taken["window"].card = c

\* A window that is not up has no answers under way.
OpeningInv ==
  /\ attached => client /\ win # "down"
  /\ win = "down" => ~client
  /\ win # "up" => phone = NoCard /\ On(bus, "reply") = {}
  /\ win # "up" /\ ~client => bus = <<>>

\* A restored card was not answered before, and the phone of a window that is
\* alone is never asked about it.
RestoredInv ==
  /\ phone \notin restoring
  /\ ~client => On(bus, "confirm") \cap restoring = {}
  /\ restoring \cap answered \cap Clean = {}

\* An answered card that is still in the file has its removal coming.
OwedInv ==
  /\ answered \cap file \cap Clean \subseteq Unsaved
  /\ \A c \in Clean : InHand("drop", c) /\ c \notin taken["window"].items => c \notin file
  /\ \A c \in Clean \cap answered : InHand("put", c) => c \in On(bus, "reply")

OnceInv ==
  /\ \A c \in Card : sent[c] >= 1 \/ c \in sends => c \in answered
  /\ \A c \in Clean : sent[c] + (IF c \in sends THEN 1 ELSE 0) <= 1

AnswerInv == OpeningInv /\ RestoredInv /\ OwedInv /\ OnceInv

LEMMA OnAppend ==
  ASSUME NEW s \in Seq(EventType), NEW e \in EventType, NEW t
  PROVE  /\ e.type # t => On(Append(s, e), t) = On(s, t)
         /\ e.type = t /\ e.card \in Card => On(Append(s, e), t) = On(s, t) \cup {e.card}
<1> DEFINE a == Append(s, e)
<1>1. Len(a) = Len(s) + 1 /\ Len(s) \in Nat /\ a[Len(s) + 1] = e
      /\ \A i \in 1 .. Len(s) : a[i] = s[i]
  OBVIOUS
<1>2. \A c \in Card : (\E i \in 1 .. Len(a) : a[i].type = t /\ a[i].card = c)
        <=> (\E i \in 1 .. Len(s) : s[i].type = t /\ s[i].card = c) \/ (e.type = t /\ e.card = c)
  <2> SUFFICES ASSUME NEW c \in Card
               PROVE  (\E i \in 1 .. Len(a) : a[i].type = t /\ a[i].card = c)
                        <=> (\E i \in 1 .. Len(s) : s[i].type = t /\ s[i].card = c)
                            \/ (e.type = t /\ e.card = c)
    OBVIOUS
  <2>1. ASSUME NEW i \in 1 .. Len(a), a[i].type = t, a[i].card = c
        PROVE  (\E j \in 1 .. Len(s) : s[j].type = t /\ s[j].card = c) \/ (e.type = t /\ e.card = c)
    <3>1. i \in 1 .. Len(s) \/ i = Len(s) + 1
      BY <1>1
    <3> QED
      BY <1>1, <2>1, <3>1
  <2>2. ASSUME NEW i \in 1 .. Len(s), s[i].type = t, s[i].card = c
        PROVE  \E j \in 1 .. Len(a) : a[j].type = t /\ a[j].card = c
    BY <1>1, <2>2
  <2>3. ASSUME e.type = t, e.card = c
        PROVE  \E j \in 1 .. Len(a) : a[j].type = t /\ a[j].card = c
    BY <1>1, <2>3
  <2> QED
    BY <2>1, <2>2, <2>3
<1> HIDE DEF a
<1>3. \A c : c \in On(a, t) <=> c \in On(s, t) \/ (c \in Card /\ e.type = t /\ e.card = c)
  BY <1>2 DEF On
<1> QED
  BY <1>3 DEF a

LEMMA OnTail ==
  ASSUME NEW s \in Seq(EventType), s # <<>>, NEW t
  PROVE  /\ Head(s).type # t => On(Tail(s), t) = On(s, t)
         /\ Head(s).type = t /\ Head(s).card \in Card => On(s, t) = On(Tail(s), t) \cup {Head(s).card}
<1> DEFINE a == Tail(s)
<1>1. Len(s) \in Nat /\ Len(s) >= 1 /\ Len(a) = Len(s) - 1 /\ s[1] = Head(s)
      /\ \A i \in 1 .. Len(a) : a[i] = s[i + 1]
  OBVIOUS
<1>2. \A c \in Card : (\E i \in 1 .. Len(s) : s[i].type = t /\ s[i].card = c)
        <=> (\E i \in 1 .. Len(a) : a[i].type = t /\ a[i].card = c)
            \/ (Head(s).type = t /\ Head(s).card = c)
  <2> SUFFICES ASSUME NEW c \in Card
               PROVE  (\E i \in 1 .. Len(s) : s[i].type = t /\ s[i].card = c)
                        <=> (\E i \in 1 .. Len(a) : a[i].type = t /\ a[i].card = c)
                            \/ (Head(s).type = t /\ Head(s).card = c)
    OBVIOUS
  <2>1. ASSUME NEW i \in 1 .. Len(s), s[i].type = t, s[i].card = c
        PROVE  (\E j \in 1 .. Len(a) : a[j].type = t /\ a[j].card = c)
               \/ (Head(s).type = t /\ Head(s).card = c)
    <3>1. i = 1 \/ (i - 1 \in 1 .. Len(a) /\ a[i - 1] = s[i])
      BY <1>1
    <3> QED
      BY <1>1, <2>1, <3>1
  <2>2. ASSUME NEW i \in 1 .. Len(a), a[i].type = t, a[i].card = c
        PROVE  \E j \in 1 .. Len(s) : s[j].type = t /\ s[j].card = c
    <3>1. i + 1 \in 1 .. Len(s) /\ s[i + 1] = a[i]
      BY <1>1
    <3> QED
      BY <2>2, <3>1
  <2>3. ASSUME Head(s).type = t, Head(s).card = c
        PROVE  \E j \in 1 .. Len(s) : s[j].type = t /\ s[j].card = c
    <3>1. 1 \in 1 .. Len(s) /\ s[1] = Head(s)
      BY <1>1
    <3> QED
      BY <2>3, <3>1
  <2> QED
    BY <2>1, <2>2, <2>3
<1> HIDE DEF a
<1>3. \A c : c \in On(s, t) <=> c \in On(a, t) \/ (c \in Card /\ Head(s).type = t /\ Head(s).card = c)
  BY <1>2 DEF On
<1> QED
  BY <1>3 DEF a

LEMMA OnNothing == \A t : On(<<>>, t) = {}
BY DEF On

LEMMA BusWithOne ==
  ASSUME NEW s \in Seq(EventType), NEW e
  PROVE  s \o <<>> \o <<e>> = Append(s, e)
<1>1. s \o <<>> = s
  OBVIOUS
<1>2. s \o <<e>> = Append(s, e)
  OBVIOUS
<1> QED
  BY <1>1, <1>2

LEMMA BusWithTwo ==
  ASSUME NEW s \in Seq(EventType), NEW d \in EventType, NEW e
  PROVE  s \o <<d>> \o <<e>> = Append(Append(s, d), e)
<1>1. s \o <<d>> = Append(s, d) /\ Append(s, d) \in Seq(EventType)
  OBVIOUS
<1>2. \A t \in Seq(EventType) : t \o <<e>> = Append(t, e)
  OBVIOUS
<1> QED
  BY <1>1, <1>2

\* The event that a subscriber of the bus handles next.
LEMMA BusHead ==
  ASSUME ParkedInv, bus # <<>>, Head(bus).type # "cancel"
  PROVE  /\ Head(bus) \in Backed /\ Head(bus).card \in Drafted
         /\ Head(bus).card \in On(bus, Head(bus).type)
         /\ On(bus, Head(bus).type) = On(Tail(bus), Head(bus).type) \cup {Head(bus).card}
         /\ \A t : t # Head(bus).type => On(Tail(bus), t) = On(bus, t)
<1>1. bus \in Seq(Backed) /\ Backed \subseteq EventType
  BY DEF ParkedInv, RoadInv, Backed
<1>2. bus \in Seq(EventType)
  BY <1>1, SeqFacts
<1>3. Head(bus) \in Backed
  BY <1>1, SeqParts
<1>4. Head(bus).card \in Drafted /\ Head(bus).card \in Card
  BY <1>3 DEF Backed, Drafted
<1> QED
  BY <1>2, <1>3, <1>4, OnTail

Answer == {"allow", "skip"}

LEMMA OnReplied ==
  ASSUME NEW s \in Seq(EventType), NEW c \in Card, NEW d \in Answer
  PROVE  /\ Append(s, Event("reply", c, d)) \in Seq(EventType)
         /\ On(Append(s, Event("reply", c, d)), "reply") = On(s, "reply") \cup {c}
         /\ On(Append(s, Event("reply", c, d)), "confirm") = On(s, "confirm")
<1> DEFINE e == Event("reply", c, d)
<1>1. e \in EventType /\ e.type = "reply" /\ e.card = c
  BY DEF Event, EventType, Answer
<1> HIDE DEF e
<1>2. Append(s, e) \in Seq(EventType) /\ On(Append(s, e), "reply") = On(s, "reply") \cup {c}
  BY <1>1, OnAppend
<1>3. On(Append(s, e), "confirm") = On(s, "confirm")
  BY <1>1, OnAppend
<1> QED
  BY <1>2, <1>3 DEF e

LEMMA OnConfirmed ==
  ASSUME NEW s \in Seq(EventType), NEW c \in Card
  PROVE  /\ On(Append(s, Event("confirm", c, "")), "reply") = On(s, "reply")
         /\ On(Append(s, Event("confirm", c, "")), "confirm") = On(s, "confirm") \cup {c}
<1> DEFINE e == Event("confirm", c, "")
<1>1. e \in EventType /\ e.type = "confirm" /\ e.card = c
  BY DEF Event, EventType
<1> HIDE DEF e
<1>2. On(Append(s, e), "reply") = On(s, "reply")
  BY <1>1, OnAppend
<1>3. On(Append(s, e), "confirm") = On(s, "confirm") \cup {c}
  BY <1>1, OnAppend
<1> QED
  BY <1>2, <1>3 DEF e

LEMMA OnCancelled ==
  ASSUME NEW s \in Seq(EventType)
  PROVE  /\ On(Append(s, Event("cancel", NoCard, "")), "reply") = On(s, "reply")
         /\ On(Append(s, Event("cancel", NoCard, "")), "confirm") = On(s, "confirm")
<1>1. Event("cancel", NoCard, "") \in EventType /\ Event("cancel", NoCard, "").type = "cancel"
  BY DEF Event, EventType
<1> QED
  BY <1>1, OnAppend

\* What a step does to the answers on the bus, and whose answers they are.
LEMMA RepliesMove ==
  ASSUME ParkedInv, [Next]_vars, ~WindowEnds, ~OnReply
  PROVE  \E N \in SUBSET Card :
           /\ answered' = answered \cup N /\ On(bus', "reply") = On(bus, "reply") \cup N
           /\ \A c \in N : c \in waiter \/ c = phone \/ (win = "up" /\ c \notin restoring')
<1>a. bus \in Seq(EventType) /\ open \in Card \cup {NoCard} /\ phone \in Card \cup {NoCard}
  <2>1. bus \in Seq(Backed) /\ Backed \subseteq EventType
    BY DEF ParkedInv, RoadInv, Backed
  <2>2. bus \in Seq(EventType)
    BY <2>1, SeqFacts
  <2> QED
    BY <2>2 DEF ParkedInv, GlassInv, Drafted
<1> DEFINE Moved(N) ==
      /\ answered' = answered \cup N /\ On(bus', "reply") = On(bus, "reply") \cup N
      /\ \A c \in N : c \in waiter \/ c = phone \/ (win = "up" /\ c \notin restoring')
<1> SUFFICES \E N \in SUBSET Card : Moved(N)
  OBVIOUS
<1>e. ASSUME answered' = answered, On(bus', "reply") = On(bus, "reply")
      PROVE  \E N \in SUBSET Card : Moved(N)
  <2>1. Moved({}) /\ {} \in SUBSET Card
    BY <1>e
  <2> HIDE DEF Moved
  <2> QED
    BY <2>1
<1>1. CASE \/ CoreStarts \/ CoreEnds \/ CoreSaves \/ Opens \/ Attaches \/ RestoresParked
           \/ WindowSaves \/ ShowConfirm \/ ShowReply \/ ShowCancel \/ ShowNext \/ TurnEnds
           \/ UNCHANGED vars \/ \E c \in Card : CoreDrafts(c) \/ SendRuns(c)
  <2>1. UNCHANGED <<bus, answered>>
    BY <1>1 DEF CoreStarts, CoreEnds, CoreSaves, Opens, Attaches, RestoresParked, WindowSaves,
         ShowConfirm, ShowReply, ShowCancel, ShowNext, TurnEnds, CoreDrafts, SendRuns, vars, pastVars
  <2> QED
    BY <1>e, <2>1
<1>2. CASE OnConfirm \/ OnCancel
  <2>1. bus # <<>> /\ bus' = Tail(bus) /\ Head(bus).type # "reply" /\ answered' = answered
    BY <1>2 DEF OnConfirm, OnCancel, Handled, pastVars
  <2>2. On(bus', "reply") = On(bus, "reply")
    BY <1>a, <2>1, OnTail
  <2> QED
    BY <1>e, <2>1, <2>2
<1>3. CASE LinkDelivers
  <2>1. bus' = Append(bus, Event("confirm", Head(link), "")) /\ link # <<>> /\ answered' = answered
    BY <1>3 DEF LinkDelivers, Publish, pastVars
  <2>2. Head(link) \in Card
    BY <2>1, SeqParts DEF ParkedInv, RoadInv, Drafted
  <2>3. On(bus', "reply") = On(bus, "reply")
    BY <1>a, OnConfirmed, <2>1, <2>2
  <2> QED
    BY <1>e, <2>1, <2>3
<1>4. CASE \E c \in Card : TurnAsks(c)
  <2>1. PICK c \in Card : TurnAsks(c)
    BY <1>4
  <2>2. bus' = Append(bus, Event("confirm", c, "")) /\ answered' = answered
    BY <2>1 DEF TurnAsks, Publish
  <2>3. On(bus', "reply") = On(bus, "reply")
    BY <1>a, OnConfirmed, <2>2
  <2> QED
    BY <1>e, <2>2, <2>3
<1>5. CASE \E c \in Card : TimesOut(c)
  <2>1. PICK c \in Card : TimesOut(c)
    BY <1>5
  <2>2. bus' = Append(bus, Event("reply", c, "skip")) /\ answered' = answered \cup {c} /\ c \in waiter
    BY <2>1 DEF TimesOut, Publish
  <2>3. Moved({c})
    BY <1>a, OnReplied, <2>2 DEF Answer
  <2> HIDE DEF Moved
  <2> QED
    BY <2>3
<1>6. CASE \E d \in {"allow", "skip"} : Decide(d)
  <2>1. PICK d \in {"allow", "skip"} : Decide(d)
    BY <1>6
  <2>2. bus' = Append(bus, Event("reply", open, d)) /\ answered' = answered \cup {open}
        /\ open \in Card /\ win = "up" /\ open \notin restoring'
    BY <1>a, <2>1 DEF Decide, Publish
  <2>4. On(bus', "reply") = On(bus, "reply") \cup {open}
    <3>2. d \in Answer
      BY DEF Answer
    <3>1. On(Append(bus, Event("reply", open, d)), "reply") = On(bus, "reply") \cup {open}
      BY <1>a, <2>2, <3>2, OnReplied
    <3> QED
      BY <2>2, <3>1
  <2>3. Moved({open})
    BY <2>2, <2>4
  <2> HIDE DEF Moved
  <2> QED
    BY <2>2, <2>3
<1>7. CASE \E d \in {"allow", "skip"} : PhoneDecides(d)
  <2>1. PICK d \in {"allow", "skip"} : PhoneDecides(d)
    BY <1>7
  <2>2. bus' = Append(bus, Event("reply", phone, d)) /\ answered' = answered \cup {phone}
        /\ phone \in Card
    BY <1>a, <2>1 DEF PhoneDecides, Publish
  <2>4. On(bus', "reply") = On(bus, "reply") \cup {phone}
    <3>2. d \in Answer
      BY DEF Answer
    <3>1. On(Append(bus, Event("reply", phone, d)), "reply") = On(bus, "reply") \cup {phone}
      BY <1>a, <2>2, <3>2, OnReplied
    <3> QED
      BY <2>2, <3>1
  <2>3. Moved({phone})
    BY <2>2, <2>4
  <2> HIDE DEF Moved
  <2> QED
    BY <2>2, <2>3
<1>8. CASE SayStop
  <2>1. bus' = Append(bus, Event("cancel", NoCard, "")) /\ answered' = answered
    BY <1>8 DEF SayStop, Publish, pastVars
  <2> QED
    BY <1>a, <1>e, OnCancelled, <2>1
<1>9. CASE PressStop
  <2>1. bus' = bus \o (IF open = NoCard THEN <<>> ELSE <<Event("reply", open, "skip")>>)
                   \o <<Event("cancel", NoCard, "")>>
        /\ answered' = (IF open = NoCard THEN answered ELSE answered \cup {open})
        /\ win = "up" /\ open \notin restoring'
    BY <1>9 DEF PressStop
  <2>2. CASE open = NoCard
    <3>1. bus' = Append(bus, Event("cancel", NoCard, ""))
      BY <1>a, <2>1, <2>2, BusWithOne
    <3> QED
      BY <1>a, <1>e, OnCancelled, <2>1, <2>2, <3>1
  <2>3. CASE open # NoCard
    <3>1. open \in Card /\ Event("reply", open, "skip") \in EventType
      BY <1>a, <2>3 DEF Event, EventType
    <3>2. bus' = Append(Append(bus, Event("reply", open, "skip")), Event("cancel", NoCard, ""))
      BY <1>a, <2>1, <2>3, <3>1, BusWithTwo
    <3>3. Append(bus, Event("reply", open, "skip")) \in Seq(EventType)
      BY <1>a, <3>1
    <3>4. On(bus', "reply") = On(bus, "reply") \cup {open}
      BY <1>a, OnReplied, OnCancelled, <3>1, <3>2, <3>3 DEF Answer
    <3>5. Moved({open})
      BY <2>1, <2>3, <3>4
    <3> HIDE DEF Moved
    <3> QED
      BY <3>1, <3>5
  <2> QED
    BY <2>2, <2>3
<1> QED
  BY <1>1, <1>2, <1>3, <1>4, <1>5, <1>6, <1>7, <1>8, <1>9 DEF Next

\* What a step does to the cards announced on the bus.
LEMMA ConfirmsMove ==
  ASSUME ParkedInv, [Next]_vars
  PROVE  On(bus', "confirm") \subseteq
           On(bus, "confirm") \cup {c \in Card : TurnAsks(c)} \cup {c \in Card : LinkDelivers}
<1>a. bus \in Seq(EventType) /\ open \in Card \cup {NoCard} /\ phone \in Card \cup {NoCard}
  <2>1. bus \in Seq(Backed) /\ Backed \subseteq EventType
    BY DEF ParkedInv, RoadInv, Backed
  <2>2. bus \in Seq(EventType)
    BY <2>1, SeqFacts
  <2> QED
    BY <2>2 DEF ParkedInv, GlassInv, Drafted
<1>1. CASE \/ CoreStarts \/ CoreEnds \/ CoreSaves \/ Opens \/ Attaches \/ RestoresParked
           \/ WindowSaves \/ ShowConfirm \/ ShowReply \/ ShowCancel \/ ShowNext \/ TurnEnds
           \/ UNCHANGED vars \/ \E c \in Card : CoreDrafts(c) \/ SendRuns(c)
  <2>1. UNCHANGED bus
    BY <1>1 DEF CoreStarts, CoreEnds, CoreSaves, Opens, Attaches, RestoresParked, WindowSaves,
         ShowConfirm, ShowReply, ShowCancel, ShowNext, TurnEnds, CoreDrafts, SendRuns, vars, pastVars
  <2> QED
    BY <2>1
<1>2. CASE OnConfirm \/ OnCancel \/ OnReply
  <2>1. bus # <<>> /\ bus' = Tail(bus)
    BY <1>2 DEF OnConfirm, OnCancel, OnReply, Handled
  <2>2. Head(bus) \in EventType
    BY <1>a, <2>1, SeqParts
  <2>3. Head(bus).type = "confirm" => Head(bus).card \in Card
    BY <2>2 DEF EventType
  <2>4. On(bus', "confirm") \subseteq On(bus, "confirm")
    BY <1>a, <2>1, <2>3, OnTail
  <2> QED
    BY <2>4
<1>3. CASE WindowEnds
  BY <1>3, OnNothing DEF WindowEnds
<1>4. CASE \E c \in Card : TurnAsks(c)
  <2>1. PICK c \in Card : TurnAsks(c)
    BY <1>4
  <2>2. bus' = Append(bus, Event("confirm", c, ""))
    BY <2>1 DEF TurnAsks, Publish
  <2>4. On(bus', "confirm") \subseteq On(bus, "confirm") \cup {c}
    BY <1>a, <2>2, OnConfirmed DEF Answer
  <2> QED
    BY <2>1, <2>4
<1>5. CASE LinkDelivers
  <2>1. On(bus', "confirm") \subseteq Card
    BY DEF On
  <2> QED
    BY <1>5, <2>1
<1>6. CASE \E c \in Card : TimesOut(c)
  <2>1. PICK c \in Card : bus' = Append(bus, Event("reply", c, "skip"))
    BY <1>6 DEF TimesOut, Publish
  <2>2. On(bus', "confirm") = On(bus, "confirm")
    BY <1>a, <2>1, OnReplied DEF Answer
  <2> QED
    BY <2>2
<1>7. CASE \E d \in {"allow", "skip"} : Decide(d) \/ PhoneDecides(d)
  <2>1. PICK d \in {"allow", "skip"} : Decide(d) \/ PhoneDecides(d)
    BY <1>7
  <2>2. PICK c \in Card : bus' = Append(bus, Event("reply", c, d))
    BY <1>a, <2>1 DEF Decide, PhoneDecides, Publish
  <2> QED
    BY <1>a, <2>2, OnReplied DEF Answer
<1>8. CASE SayStop
  BY <1>8, <1>a, OnCancelled DEF SayStop, Publish
<1>9. CASE PressStop
  <2>1. bus' = bus \o (IF open = NoCard THEN <<>> ELSE <<Event("reply", open, "skip")>>)
                   \o <<Event("cancel", NoCard, "")>>
    BY <1>9 DEF PressStop
  <2>2. CASE open = NoCard
    <3>1. bus' = Append(bus, Event("cancel", NoCard, ""))
      BY <1>a, <2>1, <2>2, BusWithOne
    <3> QED
      BY <1>a, OnCancelled, <3>1
  <2>3. CASE open # NoCard
    <3>1. open \in Card /\ Event("reply", open, "skip") \in EventType
      BY <1>a, <2>3 DEF Event, EventType
    <3>2. bus' = Append(Append(bus, Event("reply", open, "skip")), Event("cancel", NoCard, ""))
      BY <1>a, <2>1, <2>3, <3>1, BusWithTwo
    <3>3. Append(bus, Event("reply", open, "skip")) \in Seq(EventType)
      BY <1>a, <3>1
    <3> QED
      BY <1>a, OnReplied, OnCancelled, <3>1, <3>2, <3>3 DEF Answer
  <2> QED
    BY <2>2, <2>3
<1> QED
  BY <1>1, <1>2, <1>3, <1>4, <1>5, <1>6, <1>7, <1>8, <1>9 DEF Next

LEMMA CleanShrinks ==
  ASSUME [Next]_vars
  PROVE  Clean' \subseteq Clean
<1>1. CASE CoreSaves \/ WindowSaves
  BY <1>1 DEF CoreSaves, WindowSaves, Save, Saved, SaveFails, Clean
<1>2. CASE WindowEnds \/ OnConfirm \/ OnReply
  BY <1>2 DEF WindowEnds, OnConfirm, OnReply, Clean
<1>3. CASE ~(CoreSaves \/ WindowSaves \/ WindowEnds \/ OnConfirm \/ OnReply)
  <2>1. UNCHANGED <<clobbered, torn>>
    BY <1>3 DEF Next, CoreStarts, CoreEnds, Opens, Attaches, RestoresParked, LinkDelivers,
         OnCancel, ShowConfirm, ShowReply, ShowCancel, ShowNext, PressStop, SayStop, TurnEnds,
         CoreDrafts, TurnAsks, SendRuns, TimesOut, Decide, PhoneDecides, vars, pastVars
  <2> QED
    BY <2>1 DEF Clean
<1> QED
  BY <1>1, <1>2, <1>3

LEMMA InitAnswer == Init => AnswerInv
<1> SUFFICES ASSUME Init PROVE AnswerInv
  OBVIOUS
<1>1. On(bus, "reply") = {} /\ On(bus, "confirm") = {} /\ bus = <<>>
  BY OnNothing DEF Init
<1>2. OpeningInv /\ RestoredInv
  BY <1>1 DEF Init, OpeningInv, RestoredInv
<1>3. OwedInv
  BY DEF Init, OwedInv, InHand, Idle, Seats
<1>4. OnceInv
  BY DEF Init, OnceInv, Clean
<1> QED
  BY <1>2, <1>3, <1>4 DEF AnswerInv

LEMMA OpeningKept ==
  ASSUME ParkedInv, AnswerInv, [Next]_vars
  PROVE  OpeningInv'
<1>a. OpeningInv /\ (win # "up" => waiter = {})
  BY DEF AnswerInv, ParkedInv, SendInv
<1>1. CASE WindowEnds
  BY <1>1, OnNothing DEF WindowEnds, OpeningInv
<1>2. CASE Opens
  BY <1>2, <1>a, OnNothing DEF Opens, OpeningInv
<1>3. CASE RestoresParked
  BY <1>3, <1>a DEF RestoresParked, OpeningInv, linkVars
<1>4. CASE ~(WindowEnds \/ Opens \/ RestoresParked)
  <2>1. UNCHANGED <<win, client>> /\ (attached' => attached \/ Attaches)
    <3>1. CASE CoreEnds \/ Attaches
      BY <3>1 DEF CoreEnds, Attaches
    <3>2. CASE ~(CoreEnds \/ Attaches)
      <4>1. UNCHANGED <<win, client, attached>>
        BY <1>4, <3>2 DEF Next, CoreStarts, CoreSaves, LinkDelivers, OnConfirm, OnReply, OnCancel,
             WindowSaves, ShowConfirm, ShowReply, ShowCancel, ShowNext, PressStop, SayStop, TurnEnds,
             CoreDrafts, TurnAsks, SendRuns, TimesOut, Decide, PhoneDecides, vars, linkVars
      <4> QED
        BY <4>1
    <3> QED
      BY <3>1, <3>2
  <2>2. attached' => client' /\ win' # "down"
    BY <2>1, <1>a DEF OpeningInv, Attaches
  <2>3. ASSUME win # "up"
        PROVE  phone' = NoCard /\ On(bus', "reply") = {} /\ (~client => bus' = <<>>)
    <3>a. waiter = {} /\ phone = NoCard /\ On(bus, "reply") = {} /\ (~client => bus = <<>>)
          /\ (~client => ~attached)
      BY <1>a, <2>3 DEF OpeningInv
    <3>b. ~OnReply
      <4>1. ASSUME OnReply PROVE FALSE
        <5>1. bus # <<>> /\ Head(bus).type = "reply"
          BY <4>1 DEF OnReply, Handled
        <5> QED
          BY <3>a, <5>1, BusHead
      <4> QED
        BY <4>1
    <3>1. On(bus', "reply") = {}
      BY <1>4, <2>3, <3>a, <3>b, RepliesMove, ParkedAssumption
    <3>2. phone' = NoCard /\ (~client => bus' = <<>>)
      <4>1. CASE PhoneDecides("allow") \/ PhoneDecides("skip")
        BY <3>a, <4>1 DEF PhoneDecides
      <4>2. CASE OnConfirm \/ OnCancel
        BY <3>a, <4>2 DEF OnConfirm, OnCancel, Handled
      <4>3. CASE LinkDelivers
        BY <3>a, <4>3 DEF LinkDelivers
      <4>4. CASE ~(OnConfirm \/ OnCancel \/ LinkDelivers \/ PhoneDecides("allow") \/ PhoneDecides("skip"))
        <5>1. UNCHANGED <<bus, phone>>
          BY <1>4, <2>3, <3>a, <3>b, <4>4 DEF Next, CoreStarts, CoreEnds, CoreSaves, Attaches,
               WindowSaves, ShowConfirm, ShowReply, ShowCancel, ShowNext, PressStop, SayStop,
               TurnEnds, CoreDrafts, TurnAsks, SendRuns, TimesOut, Decide, vars, Shown
        <5> QED
          BY <3>a, <5>1
      <4> QED
        BY <4>1, <4>2, <4>3, <4>4
    <3> QED
      BY <3>1, <3>2
  <2> QED
    BY <1>a, <2>1, <2>2, <2>3 DEF OpeningInv
<1> QED
  BY <1>1, <1>2, <1>3, <1>4

LEMMA RestoredKept ==
  ASSUME ParkedInv, AnswerInv, [Next]_vars, PastInv', Grows
  PROVE  RestoredInv'
<1>a. OpeningInv /\ RestoredInv /\ OwedInv
  BY DEF AnswerInv
<1>b. Clean' \subseteq Clean
  BY CleanShrinks
<1>c. restoring \subseteq Drafted /\ NoCard \notin Drafted /\ waiter \cap restoring = {}
  BY ParkedAssumption DEF ParkedInv, GlassInv, SendInv, Drafted
<1>1. CASE WindowEnds
  BY <1>1, OnNothing DEF WindowEnds, RestoredInv
<1>2. CASE RestoresParked
  <2>1. win = "opening" /\ taken["window"] = Idle /\ restoring' \subseteq file
        /\ UNCHANGED <<phone, client, bus, answered>>
    BY <1>2 DEF RestoresParked, linkVars, pastVars
  <2>2. phone = NoCard /\ On(bus, "reply") = {} /\ (~client => bus = <<>>)
    BY <1>a, <2>1 DEF OpeningInv
  <2>3. file \subseteq Drafted
    BY DEF ParkedInv, StoreInv
  <2>4. Unsaved = {}
    BY <2>1, <2>2 DEF Unsaved, On, Idle
  <2>5. file \cap answered \cap Clean = {}
    BY <1>a, <2>4 DEF OwedInv
  <2>6. ~client' => On(bus', "confirm") = {}
    BY <2>1, <2>2, OnNothing
  <2> QED
    BY <1>b, <1>c, <2>1, <2>2, <2>3, <2>5, <2>6 DEF RestoredInv
<1>3. CASE ~(WindowEnds \/ RestoresParked)
  <2>1. restoring' \subseteq restoring
    BY <1>3 DEF Next, CoreStarts, CoreEnds, CoreSaves, Opens, Attaches, LinkDelivers, OnConfirm,
         OnReply, OnCancel, WindowSaves, ShowConfirm, ShowReply, ShowCancel, ShowNext, PressStop,
         SayStop, TurnEnds, CoreDrafts, TurnAsks, SendRuns, TimesOut, Decide, PhoneDecides, vars,
         glassVars
  <2>2. client' = client \/ (Opens /\ bus' = <<>>)
    <3>1. CASE Opens
      BY <1>a, <3>1 DEF Opens, OpeningInv
    <3>2. CASE ~Opens
      BY <1>3, <3>2 DEF Next, CoreStarts, CoreEnds, CoreSaves, Attaches, LinkDelivers, OnConfirm,
           OnReply, OnCancel, WindowSaves, ShowConfirm, ShowReply, ShowCancel, ShowNext, PressStop,
           SayStop, TurnEnds, CoreDrafts, TurnAsks, SendRuns, TimesOut, Decide, PhoneDecides, vars,
           linkVars
    <3> QED
      BY <3>1, <3>2
  <2>3. phone' \notin restoring'
    <3>1. CASE OnConfirm /\ ~client
      <4>1. Head(bus).card \in On(bus, "confirm")
        <5>1. bus # <<>> /\ Head(bus).type = "confirm"
          BY <3>1 DEF OnConfirm, Handled
        <5> QED
          BY <5>1, BusHead
      <4>2. phone' = Head(bus).card
        BY <3>1 DEF OnConfirm
      <4> QED
        BY <1>a, <2>1, <3>1, <4>1, <4>2 DEF RestoredInv
    <3>2. CASE ~(OnConfirm /\ ~client)
      <4>1. phone' \in {phone, NoCard}
        BY <1>3, <3>2 DEF Next, CoreStarts, CoreEnds, CoreSaves, Opens, Attaches, LinkDelivers,
             OnConfirm, OnReply, OnCancel, WindowSaves, ShowConfirm, ShowReply, ShowCancel, ShowNext,
             PressStop, SayStop, TurnEnds, CoreDrafts, TurnAsks, SendRuns, TimesOut, Decide,
             PhoneDecides, vars
      <4> QED
        BY <1>a, <1>c, <2>1, <4>1 DEF RestoredInv
    <3> QED
      BY <3>1, <3>2
  <2>4. ~client' => On(bus', "confirm") \cap restoring' = {}
    <3>1. CASE Opens
      BY <2>2, <3>1, <1>a, OnNothing DEF Opens, OpeningInv
    <3>2. CASE ~Opens
      <4>1. SUFFICES ASSUME ~client', NEW c \in On(bus', "confirm"), c \in restoring'
                     PROVE  FALSE
        OBVIOUS
      <4>2. ~client /\ c \in restoring /\ c \in Drafted
        BY <1>c, <2>1, <2>2, <3>2, <4>1
      <4>3. c \notin On(bus, "confirm")
        BY <1>a, <4>2 DEF RestoredInv
      <4>4. ~LinkDelivers
        BY <1>a, <4>2 DEF LinkDelivers, OpeningInv
      <4>5. c \in Card /\ TurnAsks(c)
        BY <4>1, <4>3, <4>4, ConfirmsMove
      <4> QED
        BY <4>2, <4>5 DEF TurnAsks, Drafted
    <3> QED
      BY <3>1, <3>2
  <2>5. restoring' \cap answered' \cap Clean' = {}
    <3>1. CASE OnReply
      <4>1. answered' = answered
        BY <3>1 DEF OnReply, pastVars
      <4> QED
        BY <1>a, <1>b, <2>1, <4>1 DEF RestoredInv
    <3>2. CASE ~OnReply
      <4>1. PICK N \in SUBSET Card :
              /\ answered' = answered \cup N
              /\ \A c \in N : c \in waiter \/ c = phone \/ (win = "up" /\ c \notin restoring')
        BY <1>3, <3>2, RepliesMove
      <4>2. N \cap restoring' = {}
        BY <1>a, <1>c, <2>1, <4>1 DEF RestoredInv
      <4> QED
        BY <1>a, <1>b, <2>1, <4>1, <4>2 DEF RestoredInv
    <3> QED
      BY <3>1, <3>2
  <2> QED
    BY <2>3, <2>4, <2>5 DEF RestoredInv
<1> QED
  BY <1>1, <1>2, <1>3

LEMMA UnsavedIs ==
  /\ Unsaved = On(bus, "reply") \cup {c \in Card : InHand("drop", c)}
  /\ Unsaved' = On(bus', "reply") \cup {c \in Card : InHand("drop", c)'}
BY DEF Unsaved, On, InHand

\* Steps that leave the file and the window's hand alone.
LEMMA OwedCalm ==
  ASSUME ParkedInv, AnswerInv, [Next]_vars, ~WindowEnds, ~OnReply,
         file' = file, taken'["window"] = taken["window"]
  PROVE  OwedInv'
<1>1. PICK N \in SUBSET Card : answered' = answered \cup N /\ On(bus', "reply") = On(bus, "reply") \cup N
  BY RepliesMove
<1>2. \A op, c : InHand(op, c)' <=> InHand(op, c)
  BY DEF InHand
<1>3. Clean' \subseteq Clean
  BY CleanShrinks
<1>4. answered' \cap file' \cap Clean' \subseteq Unsaved'
  BY <1>1, <1>2, <1>3, UnsavedIs DEF AnswerInv, OwedInv
<1>5. \A c \in Clean' : InHand("drop", c)' /\ c \notin taken'["window"].items => c \notin file'
  BY <1>2, <1>3 DEF AnswerInv, OwedInv
<1>6. \A c \in Clean' \cap answered' : InHand("put", c)' => c \in On(bus', "reply")
  BY <1>1, <1>2, <1>3 DEF AnswerInv, OwedInv
<1> QED
  BY <1>4, <1>5, <1>6 DEF OwedInv

LEMMA OwedKept ==
  ASSUME ParkedInv, AnswerInv, [Next]_vars
  PROVE  OwedInv'
<1>a. OwedInv /\ StoreInv /\ PastInv /\ taken \in [Seats -> {Idle} \cup WriteBack \cup Draft]
  BY DEF AnswerInv, ParkedInv, StoreInv
<1>b. Clean' \subseteq Clean
  BY CleanShrinks
<1>1. CASE WindowEnds
  <2>1. taken'["window"] = Idle /\ UNCHANGED <<file, answered>> /\ torn' = torn \cup Unsaved
    BY <1>1, <1>a DEF WindowEnds, Seats
  <2>2. \A op \in {"put", "drop"} : \A c : ~InHand(op, c)'
    BY <2>1 DEF InHand, Idle
  <2>3. Clean' \cap Unsaved = {}
    BY <2>1 DEF Clean
  <2>4. answered' \cap file' \cap Clean' = {}
    BY <1>a, <1>b, <2>1, <2>3 DEF OwedInv
  <2> QED
    BY <2>2, <2>4 DEF OwedInv
<1>2. CASE OnReply
  <2> DEFINE h == Head(bus).card
  <2>1. PICK rows \in {file, {}} :
          /\ bus # <<>> /\ Head(bus).type = "reply" /\ bus' = Tail(bus) /\ taken["window"] = Idle
          /\ taken'["window"] = [op |-> "drop", card |-> h, items |-> rows]
          /\ torn' = torn \cup ({h} \cap (file \ rows))
          /\ UNCHANGED <<file, answered>>
    BY <1>2, <1>a DEF OnReply, Handled, Take, Seats
  <2>2. On(bus, "reply") = On(bus', "reply") \cup {h} /\ h \in Card
    BY <2>1, BusHead DEF Drafted
  <2>3. \A c : ~InHand("drop", c) /\ ~InHand("put", c)' /\ (InHand("drop", c)' <=> c = h)
    BY <2>1 DEF InHand, Idle
  <2>4. answered' \cap file' \cap Clean' \subseteq Unsaved'
    BY <1>a, <1>b, <2>1, <2>2, <2>3, UnsavedIs DEF OwedInv
  <2>5. \A c \in Clean' : InHand("drop", c)' /\ c \notin taken'["window"].items => c \notin file'
    BY <2>1, <2>3 DEF Clean
  <2> QED
    BY <2>3, <2>4, <2>5 DEF OwedInv
<1>3. CASE OnConfirm
  <2> DEFINE h == Head(bus).card
  <2>1. bus # <<>> /\ Head(bus).type = "confirm" /\ bus' = Tail(bus) /\ taken["window"] = Idle
        /\ taken'["window"].op = "put" /\ taken'["window"].card = h
        /\ UNCHANGED <<file, answered>> /\ (h \in answered => h \in torn')
    BY <1>3, <1>a DEF OnConfirm, Handled, Take, Seats
  <2>2. On(bus', "reply") = On(bus, "reply")
    BY <2>1, BusHead
  <2>3. \A c : ~InHand("drop", c) /\ ~InHand("drop", c)' /\ (InHand("put", c)' <=> c = h)
    BY <2>1 DEF InHand, Idle
  <2>4. answered' \cap file' \cap Clean' \subseteq Unsaved'
    BY <1>a, <1>b, <2>1, <2>2, <2>3, UnsavedIs DEF OwedInv
  <2>5. h \notin answered' \cap Clean'
    BY <2>1 DEF Clean
  <2> QED
    BY <2>3, <2>4, <2>5 DEF OwedInv
<1>4. CASE CoreSaves
  <2> DEFINE t == taken["core"]
             w == taken["window"]
  <2>1. t \in Draft /\ t.op = "put" /\ Save("core") /\ UNCHANGED <<bus, answered>>
    BY <1>4, <1>a DEF CoreSaves, StoreInv, Draft
  <2>2. taken'["window"] = w
    BY <2>1, <1>a DEF Save, Seats
  <2>3. t.card \notin answered
    BY <2>1, <1>a DEF PastInv, Drafted
  <2>4. \A c \in Clean' : c \in file' => c \in file \/ c = t.card
    <3>1. CASE Saved("core")
      <4>1. /\ file' = t.items \cup {t.card}
            /\ clobbered' = clobbered \cup (((t.items \ file) \cup (file \ t.items)) \ {t.card})
        BY <2>1, <3>1 DEF Saved, Saves, Rows
      <4> QED
        BY <4>1 DEF Clean
    <3>2. CASE SaveFails("core")
      BY <3>2 DEF SaveFails
    <3> QED
      BY <2>1, <3>1, <3>2 DEF Save
  <2>5. \A op, c : InHand(op, c)' <=> InHand(op, c)
    BY <2>2 DEF InHand
  <2>6. answered' \cap file' \cap Clean' \subseteq Unsaved'
    BY <1>a, <1>b, <2>1, <2>3, <2>4, <2>5, UnsavedIs DEF OwedInv
  <2>7. \A c : InHand("drop", c) => c \in answered
    BY <1>a DEF StoreInv, WriteBack, InHand, Idle
  <2>8. \A c \in Clean' : InHand("drop", c)' /\ c \notin taken'["window"].items => c \notin file'
    BY <1>a, <1>b, <2>2, <2>3, <2>4, <2>5, <2>7 DEF OwedInv
  <2>9. \A c \in Clean' \cap answered' : InHand("put", c)' => c \in On(bus', "reply")
    BY <1>a, <1>b, <2>1, <2>5 DEF OwedInv
  <2> QED
    BY <2>6, <2>8, <2>9 DEF OwedInv
<1>5. CASE WindowSaves
  <2> DEFINE t == taken["window"]
  <2>1. t \in WriteBack /\ Save("window") /\ UNCHANGED <<bus, answered>>
    BY <1>5, <1>a DEF WindowSaves, StoreInv
  <2>2. taken'["window"] = Idle
    BY <2>1, <1>a DEF Save, Seats
  <2>3. \A op \in {"put", "drop"} : \A c : ~InHand(op, c)'
    BY <2>2 DEF InHand, Idle
  <2>4. answered' \cap file' \cap Clean' \subseteq On(bus', "reply")
    <3>1. SUFFICES ASSUME NEW c \in answered, c \in file', c \in Clean'
                   PROVE  c \in On(bus, "reply")
      BY <2>1
    <3>2. c \in Clean /\ t.op \in {"put", "drop"}
      BY <1>b, <2>1, <3>1 DEF WriteBack
    <3>3. CASE Saves(t) /\ Saved("window")
      <4>1. /\ file' = Rows(t)
            /\ clobbered' = clobbered \cup (((t.items \ file) \cup (file \ t.items)) \ {t.card})
        BY <3>3 DEF Saved
      <4>2. c = t.card \/ (c \in t.items /\ c \in file)
        BY <3>1, <4>1 DEF Rows, Clean
      <4>3. CASE c = t.card
        <5>1. InHand("put", c)
          BY <3>1, <3>2, <4>1, <4>3 DEF Rows, InHand
        <5> QED
          BY <1>a, <3>1, <3>2, <5>1 DEF OwedInv
      <4>4. CASE c # t.card
        <5>1. c \in Unsaved /\ ~InHand("drop", c)
          BY <1>a, <3>1, <3>2, <4>2, <4>4 DEF OwedInv, InHand
        <5> QED
          BY <5>1, UnsavedIs
      <4> QED
        BY <4>3, <4>4
    <3>4. CASE ~Saves(t) /\ Saved("window")
      <4>1. file' = file /\ t.card \notin t.items
        BY <3>4 DEF Saved, Saves
      <4>2. c \in Unsaved
        BY <1>a, <3>1, <3>2, <4>1 DEF OwedInv
      <4>3. ~InHand("drop", c)
        BY <1>a, <3>1, <3>2, <4>1 DEF OwedInv, InHand
      <4> QED
        BY <4>2, <4>3, UnsavedIs
    <3>5. CASE SaveFails("window")
      <4>1. file' = file /\ (t.op = "drop" => t.card \in torn')
        BY <3>1, <3>5 DEF SaveFails
      <4>2. ~InHand("drop", c)
        BY <3>1, <4>1 DEF InHand, Clean
      <4>3. c \in Unsaved
        BY <1>a, <3>1, <3>2, <4>1 DEF OwedInv
      <4> QED
        BY <4>2, <4>3, UnsavedIs
    <3> QED
      BY <2>1, <3>3, <3>4, <3>5 DEF Save
  <2> QED
    BY <2>3, <2>4, UnsavedIs DEF OwedInv
<1>6. CASE ~(WindowEnds \/ OnReply \/ OnConfirm \/ CoreSaves \/ WindowSaves)
  <2>1. file' = file
    BY <1>6 DEF Next, CoreStarts, CoreEnds, Opens, Attaches, RestoresParked, LinkDelivers, OnCancel,
         ShowConfirm, ShowReply, ShowCancel, ShowNext, PressStop, SayStop, TurnEnds, CoreDrafts,
         TurnAsks, SendRuns, TimesOut, Decide, PhoneDecides, vars, storeVars
  <2>2. taken'["window"] = taken["window"]
    <3>1. CASE CoreEnds \/ \E c \in Card : CoreDrafts(c)
      BY <1>a, <3>1 DEF CoreEnds, CoreDrafts, Take, Seats
    <3>2. CASE ~(CoreEnds \/ \E c \in Card : CoreDrafts(c))
      BY <1>6, <3>2 DEF Next, CoreStarts, Opens, Attaches, RestoresParked, LinkDelivers, OnCancel,
           ShowConfirm, ShowReply, ShowCancel, ShowNext, PressStop, SayStop, TurnEnds, TurnAsks,
           SendRuns, TimesOut, Decide, PhoneDecides, vars, storeVars
    <3> QED
      BY <3>1, <3>2
  <2> QED
    BY <1>6, <2>1, <2>2, OwedCalm
<1> QED
  BY <1>1, <1>2, <1>3, <1>4, <1>5, <1>6

LEMMA OnceKept ==
  ASSUME ParkedInv, AnswerInv, [Next]_vars, Grows
  PROVE  OnceInv'
<1>a. OnceInv /\ RestoredInv /\ OpeningInv /\ OwedInv /\ sent \in [Card -> Nat]
  BY DEF AnswerInv, ParkedInv, PastInv
<1>b. Clean' \subseteq Clean /\ Clean \subseteq Card /\ answered \subseteq answered'
  BY CleanShrinks DEF Clean, Grows
<1>1. CASE OnReply
  <2> DEFINE h == Head(bus).card
  <2>1. bus # <<>> /\ Head(bus).type = "reply"
        /\ sends' = (IF h \in waiter /\ Head(bus).decision = "allow" THEN sends \cup {h} ELSE sends)
        /\ UNCHANGED <<sent, answered>>
    BY <1>1 DEF OnReply, Handled
  <2>2. h \in answered
    BY <2>1, BusHead DEF Backed
  <2>3. h \in waiter => sent[h] = 0 /\ h \notin sends
    BY DEF ParkedInv, SendInv
  <2>4. \A c \in Card : sent'[c] >= 1 \/ c \in sends' => c \in answered'
    BY <1>a, <2>1, <2>2 DEF OnceInv
  <2>5. \A c \in Clean' : sent'[c] + (IF c \in sends' THEN 1 ELSE 0) <= 1
    <3>1. SUFFICES ASSUME NEW c \in Clean' PROVE sent'[c] + (IF c \in sends' THEN 1 ELSE 0) <= 1
      OBVIOUS
    <3>2. c \in Card /\ sent[c] \in Nat /\ sent[c] + (IF c \in sends THEN 1 ELSE 0) <= 1
      BY <1>a, <1>b DEF OnceInv
    <3>3. CASE c \in waiter /\ c = h
      <4>1. sent'[c] = 0
        BY <2>1, <2>3, <3>3
      <4> QED
        BY <4>1
    <3>4. CASE ~(c \in waiter /\ c = h)
      BY <2>1, <3>2, <3>4
    <3> QED
      BY <3>3, <3>4
  <2> QED
    BY <2>4, <2>5 DEF OnceInv
<1>2. CASE \E d \in {"allow", "skip"} : Decide(d)
  <2>1. PICK d \in {"allow", "skip"} : Decide(d)
    BY <1>2
  <2>2. sends' \in {sends, sends \cup {open}} /\ (sends' # sends => open \in restoring)
        /\ UNCHANGED <<sent, clobbered, torn>> /\ answered' = answered \cup {open}
    BY <2>1 DEF Decide, SendsHere
  <2>3. open \in restoring /\ open \in Clean => open \notin answered
    BY <1>a DEF RestoredInv
  <2>4. \A c \in Card : sent'[c] >= 1 \/ c \in sends' => c \in answered'
    BY <1>a, <2>2 DEF OnceInv
  <2>5. \A c \in Clean' : sent'[c] + (IF c \in sends' THEN 1 ELSE 0) <= 1
    <3>1. SUFFICES ASSUME NEW c \in Clean' PROVE sent'[c] + (IF c \in sends' THEN 1 ELSE 0) <= 1
      OBVIOUS
    <3>2. c \in Card /\ c \in Clean /\ sent[c] \in Nat
          /\ sent[c] + (IF c \in sends THEN 1 ELSE 0) <= 1
      BY <1>a, <1>b DEF OnceInv
    <3>3. CASE c = open /\ open \in restoring
      <4>1. sent[c] = 0
        BY <1>a, <2>3, <3>2, <3>3 DEF OnceInv
      <4> QED
        BY <2>2, <4>1
    <3>4. CASE ~(c = open /\ open \in restoring)
      BY <2>2, <3>2, <3>4
    <3> QED
      BY <3>3, <3>4
  <2> QED
    BY <2>4, <2>5 DEF OnceInv
<1>3. CASE \E c \in Card : SendRuns(c)
  <2>1. PICK k \in Card : SendRuns(k)
    BY <1>3
  <2>2. k \in sends /\ sends' = sends \ {k} /\ UNCHANGED answered
        /\ (sent' = sent \/ sent' = [sent EXCEPT ![k] = @ + 1])
    BY <2>1 DEF SendRuns
  <2>3. \A c \in Card : /\ c # k => sent'[c] = sent[c]
                        /\ sent'[k] \in {sent[k], sent[k] + 1} /\ sent[c] \in Nat
    BY <1>a, <2>2
  <2>4. \A c \in Card : sent'[c] >= 1 \/ c \in sends' => c \in answered'
    BY <1>a, <2>2, <2>3 DEF OnceInv
  <2>5. \A c \in Clean' : sent'[c] + (IF c \in sends' THEN 1 ELSE 0) <= 1
    <3>1. SUFFICES ASSUME NEW c \in Clean' PROVE sent'[c] + (IF c \in sends' THEN 1 ELSE 0) <= 1
      OBVIOUS
    <3>2. c \in Card /\ sent[c] \in Nat /\ sent[c] + (IF c \in sends THEN 1 ELSE 0) <= 1
      BY <1>a, <1>b DEF OnceInv
    <3>3. CASE c = k
      BY <2>2, <2>3, <3>2, <3>3
    <3>4. CASE c # k
      BY <2>2, <2>3, <3>2, <3>4
    <3> QED
      BY <3>3, <3>4
  <2> QED
    BY <2>4, <2>5 DEF OnceInv
<1>4. CASE ~(OnReply \/ (\E d \in {"allow", "skip"} : Decide(d)) \/ (\E c \in Card : SendRuns(c)))
  <2>1. sent' = sent
    BY <1>4 DEF Next, CoreStarts, CoreEnds, CoreSaves, Opens, Attaches, RestoresParked, WindowEnds,
         LinkDelivers, OnConfirm, OnCancel, WindowSaves, ShowConfirm, ShowReply, ShowCancel, ShowNext,
         PressStop, SayStop, TurnEnds, CoreDrafts, TurnAsks, TimesOut, PhoneDecides, vars, pastVars
  <2>2. sends' \subseteq sends
    BY <1>4 DEF Next, CoreStarts, CoreEnds, CoreSaves, Opens, Attaches, RestoresParked, WindowEnds,
         LinkDelivers, OnConfirm, OnCancel, WindowSaves, ShowConfirm, ShowReply, ShowCancel, ShowNext,
         PressStop, SayStop, TurnEnds, CoreDrafts, TurnAsks, TimesOut, PhoneDecides, vars, turnVars
  <2>3. \A c \in Clean' : sent'[c] + (IF c \in sends' THEN 1 ELSE 0) <= 1
    <3>1. SUFFICES ASSUME NEW c \in Clean' PROVE sent'[c] + (IF c \in sends' THEN 1 ELSE 0) <= 1
      OBVIOUS
    <3>2. sent[c] \in Nat /\ sent[c] + (IF c \in sends THEN 1 ELSE 0) <= 1
      BY <1>a, <1>b DEF OnceInv
    <3> QED
      BY <2>1, <2>2, <3>2
  <2> QED
    BY <1>a, <1>b, <2>1, <2>2, <2>3 DEF OnceInv
<1> QED
  BY <1>1, <1>2, <1>3, <1>4

LEMMA AnswerInductive == ParkedInv /\ AnswerInv /\ [Next]_vars => (ParkedInv /\ AnswerInv)'
<1> SUFFICES ASSUME ParkedInv, AnswerInv, [Next]_vars PROVE ParkedInv' /\ AnswerInv'
  OBVIOUS
<1>1. ParkedInv' /\ PastInv' /\ Grows
  BY ParkedInductive, PastGrows
<1> QED
  BY <1>1, OpeningKept, RestoredKept, OwedKept, OnceKept DEF AnswerInv

\* A card whose answer reached the file and stayed there is sent at most once,
\* whatever the processes' read-then-write pairs, windows that end and answers
\* from the person, the phone and the clock do.
THEOREM TwiceOnlyIfUndone == Spec => []SentTwiceOnlyIfUndone
<1>1. ParkedInv /\ AnswerInv => SentTwiceOnlyIfUndone
  <2> SUFFICES ASSUME ParkedInv, AnswerInv, NEW c \in Card, c \notin clobbered \cup torn
               PROVE  ~(sent[c] > 1)
    BY DEF SentTwiceOnlyIfUndone
  <2>1. sent[c] \in Nat /\ sent[c] + (IF c \in sends THEN 1 ELSE 0) <= 1
    BY DEF ParkedInv, PastInv, AnswerInv, OnceInv, Clean
  <2> QED
    BY <2>1
<1> QED
  BY <1>1, InitParked, InitAnswer, AnswerInductive, PTL DEF Spec
=============================================================================
