---------------------------- MODULE SpokenProofs ----------------------------
(* A reply that is neither stopped nor failed nor meets another one is spoken *)
(* whole: what is on its way to the player (in the drain, in its queue, in    *)
(* the task that speaks it) is what its text goes on with after the clips     *)
(* that are out.  A reply that kept a draft goes on counting it, so the claim *)
(* ends for it when on_speak takes it up.                                     *)
EXTENDS SpeechProofs

LEMMA InARow == \A s, t, u \in Seq(Sentences) : (s \o t) \o u = s \o (t \o u)
OBVIOUS

\* The sentences of text t after position from, up to upto.
Due(s, n, d, t, from, upto) ==
  /\ Len(s) = upto - from
  /\ \A i \in 1 .. Len(s) : s[i] = Sentence(n, d, from + i, t[from + i])

LEMMA DueHead ==
  ASSUME NEW s \in Seq(Sentences), NEW n, NEW d, NEW t, NEW from \in Nat, NEW upto \in Nat,
         Due(s, n, d, t, from, upto), s # <<>>
  PROVE  /\ Head(s) = Sentence(n, d, from + 1, t[from + 1])
         /\ Due(Tail(s), n, d, t, from + 1, upto) /\ from < upto
<1>1. Len(s) \in Nat /\ Len(s) > 0 /\ Len(s) = upto - from
  BY DEF Due
<1>2. Head(s) = Sentence(n, d, from + 1, t[from + 1])
  BY <1>1 DEF Due
<1>3. Len(Tail(s)) = Len(s) - 1
  BY <1>1
<1>4. ASSUME NEW i \in 1 .. Len(Tail(s))
      PROVE  Tail(s)[i] = Sentence(n, d, (from + 1) + i, t[(from + 1) + i])
  <2>1. Tail(s)[i] = s[i + 1] /\ i + 1 \in 1 .. Len(s)
    BY <1>1, <1>3
  <2>2. from + (i + 1) = (from + 1) + i
    BY <1>1
  <2> QED
    BY <2>1, <2>2 DEF Due
<1> QED
  BY <1>1, <1>2, <1>3, <1>4 DEF Due

LEMMA DueMore ==
  ASSUME NEW s \in Seq(Sentences), NEW r \in Seq(Sentences), NEW n, NEW d, NEW t,
         NEW from \in Nat, NEW upto \in Nat, Due(s, n, d, t, from, upto),
         \A i \in 1 .. Len(r) : r[i] = Sentence(n, d, i, t[i]),
         NEW k \in upto .. Len(r)
  PROVE  Due(s \o SubSeq(r, upto + 1, k), n, d, t, from, k)
<1> DEFINE q == SubSeq(r, upto + 1, k)
<1>1. Len(s) \in Nat /\ Len(s) = upto - from /\ k \in Nat /\ Len(r) \in Nat
  BY DEF Due
<1>2. Len(q) = k - upto /\ q \in Seq(Sentences)
  BY <1>1
<1>3. ASSUME NEW i \in 1 .. Len(q) PROVE q[i] = r[upto + i] /\ upto + i \in 1 .. Len(r)
  <2>1. i \in Nat /\ 1 <= i /\ i <= k - upto
    BY <1>1, <1>2
  <2>2. upto + i \in 1 .. Len(r) /\ (upto + 1) + i - 1 = upto + i
    BY <1>1, <2>1
  <2>3. q[i] = r[(upto + 1) + i - 1]
    BY <1>1, <1>2, <2>1
  <2> QED
    BY <2>2, <2>3
<1> HIDE DEF q
<1>4. Len(s \o q) = Len(s) + Len(q)
  BY <1>2
<1>5. ASSUME NEW i \in 1 .. Len(s \o q) PROVE (s \o q)[i] = Sentence(n, d, from + i, t[from + i])
  <2>1. CASE i <= Len(s)
    <3>1. i \in 1 .. Len(s) /\ (s \o q)[i] = s[i]
      BY <1>1, <1>2, <1>4, <2>1
    <3> QED
      BY <3>1 DEF Due
  <2>2. CASE i > Len(s)
    <3>1. /\ i - Len(s) \in 1 .. Len(q) /\ (s \o q)[i] = q[i - Len(s)]
          /\ upto + (i - Len(s)) = from + i
      BY <1>1, <1>2, <1>4, <2>2
    <3>2. q[i - Len(s)] = r[from + i] /\ from + i \in 1 .. Len(r)
      BY <1>3, <3>1
    <3> QED
      BY <3>1, <3>2
  <2> QED
    BY <1>1, <1>2, <1>4, <2>1, <2>2
<1>6. Len(s \o q) = k - from
  BY <1>1, <1>2, <1>4
<1> QED
  BY <1>5, <1>6 DEF Due, q

\* The next sentence of a telling.
LEMMA TellsMore ==
  ASSUME NEW c \in Seq(Clips), NEW d \in Nat, NEW t \in Seq(STRING),
         NEW old \in 0 .. Len(c), NEW known \in 0 .. old, Tells(c, d, t, old, known),
         NEW p \in Nat, p = known + Len(c) - old, p < Len(t),
         NEW n \in Turn, NEW u \in Nat
  PROVE  Tells(Append(c, Clip(Sentence(n, d, p + 1, t[p + 1]), u)), d, t, old, known)
<1> DEFINE e == Clip(Sentence(n, d, p + 1, t[p + 1]), u)
<1>1. e.draft = d /\ e.pos = p + 1 /\ e.text = t[p + 1]
  BY DEF Clip, Sentence
<1>2. e \in Clips
  <2>1. t[p + 1] \in STRING /\ p + 1 \in Nat
    OBVIOUS
  <2> QED
    BY <2>1 DEF Clip, Sentence, Clips
<1> HIDE DEF e
<1> DEFINE a == Append(c, e)
<1>3. Len(c) \in Nat /\ Len(t) \in Nat /\ old \in Nat /\ known \in Nat /\ known <= old /\ old <= Len(c)
  OBVIOUS
<1>4. Len(a) = Len(c) + 1 /\ (\A i \in 1 .. Len(c) : a[i] = c[i]) /\ a[Len(c) + 1] = e
  BY <1>2
<1> HIDE DEF a
<1>5. \A i \in 1 .. old : a[i].draft < d
  <2>1. \A i \in 1 .. old : c[i].draft < d /\ i \in 1 .. Len(c)
    BY <1>3 DEF Tells
  <2> QED
    BY <2>1, <1>4
<1>6. known <= Len(t) /\ \A i \in 1 .. known : a[i].text = t[i]
  BY <1>3, <1>4 DEF Tells
<1>7. known < old /\ known < Len(t) => a[known + 1].text # t[known + 1]
  <2>1. known < old => known + 1 \in 1 .. Len(c)
    BY <1>3
  <2> QED
    BY <2>1, <1>4 DEF Tells
<1>8. Len(a) - old <= Len(t) - known
  BY <1>3, <1>4
<1>9. ASSUME NEW i \in 1 .. Len(a) - old
      PROVE  a[old + i].draft = d /\ a[old + i].pos = known + i /\ a[old + i].text = t[known + i]
  <2>1. CASE i = Len(a) - old
    <3>1. old + i = Len(c) + 1 /\ known + i = p + 1
      BY <1>3, <1>4, <2>1
    <3> QED
      BY <3>1, <1>1, <1>4
  <2>2. CASE i # Len(a) - old
    <3>1. i \in 1 .. Len(c) - old /\ old + i \in 1 .. Len(c)
      BY <1>3, <1>4, <2>2
    <3> QED
      BY <3>1, <1>4 DEF Tells
  <2> QED
    BY <2>1, <2>2
<1> QED
  BY <1>5, <1>6, <1>7, <1>8, <1>9 DEF Tells, a, e

\* Numbers that have all those below them are the first few.
LEMMA Initial ==
  ASSUME NEW N \in Nat, NEW S \in SUBSET (1 .. N), \A j \in S : 1 .. j \subseteq S
  PROVE  Cardinality(S) \in 0 .. N /\ S = 1 .. Cardinality(S)
<1> DEFINE k == Cardinality(S)
<1>1. IsFiniteSet(1 .. N) /\ Cardinality(1 .. N) = N
  BY FS_Interval
<1>2. IsFiniteSet(S) /\ k \in 0 .. N
  <2>1. IsFiniteSet(S) /\ Cardinality(S) <= Cardinality(1 .. N)
    BY <1>1, FS_Subset
  <2>2. Cardinality(S) \in Nat
    BY <2>1, FS_CardinalityType
  <2> QED
    BY <1>1, <2>1, <2>2
<1>3. \A j \in S : j <= k
  <2> SUFFICES ASSUME NEW j \in S PROVE j <= k
    OBVIOUS
  <2>1. 1 .. j \subseteq S /\ j \in Nat /\ j >= 1
    OBVIOUS
  <2>2. Cardinality(1 .. j) = j
    BY <2>1, FS_Interval
  <2>3. Cardinality(1 .. j) <= Cardinality(S)
    BY <1>2, <2>1, FS_Subset
  <2> QED
    BY <2>2, <2>3
<1>4. S \subseteq 1 .. k
  BY <1>2, <1>3
<1>5. IsFiniteSet(1 .. k) /\ Cardinality(1 .. k) = k
  BY <1>2, FS_Interval
<1> QED
  BY <1>2, <1>4, <1>5, FS_Subset

\* A draft that is withdrawn leaves clips that the next one may begin with.
LEMMA TellsAnew ==
  ASSUME NEW c \in Seq(Clips), NEW d \in Nat, NEW t \in Seq(STRING),
         \A i \in 1 .. Len(c) : c[i].draft < d
  PROVE  \E known \in 0 .. Len(c) : Tells(c, d, t, Len(c), known)
<1> DEFINE N == IF Len(c) < Len(t) THEN Len(c) ELSE Len(t)
           S == {j \in 1 .. N : \A i \in 1 .. j : c[i].text = t[i]}
           k == Cardinality(S)
<1>1. N \in Nat /\ N <= Len(c) /\ N <= Len(t) /\ (N = Len(c) \/ N = Len(t))
  OBVIOUS
<1>2. k \in 0 .. N /\ S = 1 .. k
  <2>1. S \in SUBSET (1 .. N) /\ \A j \in S : 1 .. j \subseteq S
    BY <1>1
  <2> HIDE DEF N, S
  <2> QED
    BY <1>1, <2>1, Initial
<1> HIDE DEF N, k
<1>3. \A i \in 1 .. k : c[i].text = t[i]
  <2>1. CASE k = 0
    BY <2>1
  <2>2. CASE k # 0
    <3>1. k \in S
      BY <1>1, <1>2, <2>2
    <3> QED
      BY <3>1
  <2> QED
    BY <2>1, <2>2
<1>4. ASSUME k < Len(c), k < Len(t) PROVE c[k + 1].text # t[k + 1]
  <2>0. k \in Nat /\ k + 1 <= N /\ k + 1 \notin 1 .. k
    BY <1>1, <1>2, <1>4
  <2>1. k + 1 \in 1 .. N
    BY <2>0, <1>1
  <2>2. k + 1 \notin S
    <3> HIDE DEF S
    <3> QED
      BY <2>0, <1>2
  <2> QED
    BY <1>1, <1>2, <1>3, <2>1, <2>2
<1>5. Tells(c, d, t, Len(c), k)
  <2>1. Len(c) - Len(c) = 0 /\ k <= Len(t) /\ 0 <= Len(t) - k
    BY <1>1, <1>2
  <2> QED
    BY <1>3, <1>4, <2>1 DEF Tells
<1> QED
  BY <1>1, <1>2, <1>5

-----------------------------------------------------------------------------
\* What heard_sentence_count finds of a text when all that is out is in the list.
Hears(n) ==
  /\ Len(heard) = Len(said[n])
  /\ \A i \in 1 .. Len(heard) : heard[i].turn = n /\ heard[i].text = said[n][i].text

LEMMA CountBounds ==
  ASSUME NEW r \in Seq(Sentences), heard \in Seq(Sentences), NEW j \in Nat
  PROVE  /\ (\A i \in 1 .. j : i <= Len(r) /\ i <= Len(heard) /\ r[i].text = heard[i].text)
              => j <= HeardCount(r)
         /\ (j + 1 > Len(r) \/ j + 1 > Len(heard) \/ r[j + 1].text # heard[j + 1].text)
              => HeardCount(r) <= j
<1> DEFINE S == {k \in DOMAIN r \cap DOMAIN heard : \A i \in 1 .. k : r[i].text = heard[i].text}
<1>1. DOMAIN r = 1 .. Len(r) /\ DOMAIN heard = 1 .. Len(heard) /\ Len(r) \in Nat /\ Len(heard) \in Nat
  OBVIOUS
<1>2. Cardinality(S) \in Nat /\ S = 1 .. Cardinality(S)
  <2>1. S \in SUBSET (1 .. Len(r)) /\ \A k \in S : 1 .. k \subseteq S
    BY <1>1
  <2> HIDE DEF S
  <2> QED
    BY <1>1, <2>1, Initial
<1>3. HeardCount(r) = Cardinality(S)
  BY DEF HeardCount
<1>4. ASSUME \A i \in 1 .. j : i <= Len(r) /\ i <= Len(heard) /\ r[i].text = heard[i].text
      PROVE  j <= HeardCount(r)
  <2>1. CASE j = 0
    BY <2>1, <1>2, <1>3
  <2>2. CASE j # 0
    <3>1. j \in S
      BY <1>1, <1>4, <2>2
    <3> QED
      BY <1>2, <1>3, <3>1
  <2> QED
    BY <2>1, <2>2
<1>5. ASSUME j + 1 > Len(r) \/ j + 1 > Len(heard) \/ r[j + 1].text # heard[j + 1].text
      PROVE  HeardCount(r) <= j
  <2>1. j + 1 \notin S
    BY <1>1, <1>5
  <2> HIDE DEF S
  <2> QED
    BY <1>2, <1>3, <2>1
<1> QED
  BY <1>4, <1>5

\* Before anything of a draft is out the count is how far the clips agree with
\* it; afterwards it is never more than what is out.
LEMMA CountIs ==
  ASSUME NEW n \in Turn, NEW d \in Nat, NEW t \in Seq(STRING),
         said[n] \in Seq(Clips), heard \in Seq(Sentences), Hears(n),
         NEW old \in 0 .. Len(said[n]), NEW known \in 0 .. old,
         Tells(said[n], d, t, old, known),
         NEW r \in Seq(Sentences), Len(r) <= Len(t), \A i \in 1 .. Len(r) : r[i].text = t[i]
  PROVE  /\ HeardCount(r) <= known + Len(said[n]) - old
         /\ old = Len(said[n]) => HeardCount(r) = IF Len(r) < known THEN Len(r) ELSE known
         /\ HeardCount(r) \in Nat
<1> DEFINE c == said[n]
<1>1. /\ Len(r) \in Nat /\ Len(t) \in Nat /\ Len(heard) \in Nat /\ Len(c) = Len(heard)
      /\ old \in Nat /\ known \in Nat /\ known <= old /\ old <= Len(c)
  BY DEF Hears
<1>2. \A i \in 1 .. Len(heard) : heard[i].text = c[i].text
  BY DEF Hears
<1>3. /\ known <= Len(t) /\ \A i \in 1 .. known : c[i].text = t[i]
      /\ known < old /\ known < Len(t) => c[known + 1].text # t[known + 1]
  BY DEF Tells
<1>4. HeardCount(r) \in Nat
  BY HeardCountType
<1> HIDE DEF c
<1>5. CASE known < old \/ old = Len(c)
  <2>1. known + 1 > Len(r) \/ known + 1 > Len(heard) \/ r[known + 1].text # heard[known + 1].text
    <3>1. CASE known < old /\ known < Len(r)
      <4>1. known + 1 \in 1 .. Len(r) /\ known + 1 \in 1 .. Len(heard) /\ known < Len(t)
        BY <1>1, <3>1
      <4>2. r[known + 1].text = t[known + 1] /\ heard[known + 1].text = c[known + 1].text
        BY <1>2, <4>1
      <4> QED
        BY <1>3, <3>1, <4>1, <4>2
    <3>2. CASE ~(known < old /\ known < Len(r))
      BY <1>1, <1>5, <3>2
    <3> QED
      BY <3>1, <3>2
  <2>2. HeardCount(r) <= known
    BY <1>1, <2>1, CountBounds
  <2>3. HeardCount(r) <= Len(r)
    <3>1. Len(r) \in Nat /\ Len(r) + 1 > Len(r)
      BY <1>1
    <3>2. PICK m \in Nat : m = Len(r)
      BY <3>1
    <3>3. m + 1 > Len(r)
      BY <3>1, <3>2
    <3>4. HeardCount(r) <= m
      BY <3>3, CountBounds
    <3> QED
      BY <3>2, <3>4
  <2> DEFINE j == IF Len(r) < known THEN Len(r) ELSE known
  <2>4. j \in Nat /\ j <= known /\ j <= Len(r)
    BY <1>1
  <2>5. \A i \in 1 .. j : i <= Len(r) /\ i <= Len(heard) /\ r[i].text = heard[i].text
    <3> SUFFICES ASSUME NEW i \in 1 .. j
                 PROVE  i <= Len(r) /\ i <= Len(heard) /\ r[i].text = heard[i].text
      OBVIOUS
    <3>1. i \in 1 .. Len(r) /\ i \in 1 .. known /\ i \in 1 .. Len(heard)
      BY <1>1, <2>4
    <3> QED
      BY <3>1, <1>2, <1>3
  <2>6. j <= HeardCount(r)
    BY <2>4, <2>5, CountBounds
  <2>7. HeardCount(r) = j
    BY <1>1, <1>4, <2>2, <2>3, <2>6
  <2>8. known <= known + Len(c) - old
    BY <1>1
  <2> QED
    BY <1>1, <1>4, <2>2, <2>7, <2>8 DEF c
<1>6. CASE known = old /\ old # Len(c)
  <2>1. HeardCount(r) <= Len(heard)
    BY <1>1, CountBounds
  <2>2. known + Len(c) - old = Len(heard)
    BY <1>1, <1>6
  <2> QED
    BY <1>4, <1>6, <2>1, <2>2 DEF c
<1> QED
  BY <1>1, <1>5, <1>6

-----------------------------------------------------------------------------
\* The invariant.

\* What will be heard next unless something happens: the sentence that the drain
\* renders above the cancel mark, and its queue.
InVoice == IF Voiced THEN <<drain.item>> ELSE <<>>
Coming == InVoice \o pending

Others(n) == {x \in Sentences : x.turn # n}

Absent(n) ==
  /\ raw \in Seq(Others(n)) /\ heard \in Seq(Others(n)) /\ pending \in Seq(Others(n))
  /\ Voiced => drain.item \in Others(n)

Untold(n) == said[n] = <<>> /\ Absent(n)

Alone(n) == \A m \in Turn \ {n} : ~Speaking(m)

\* A stream that gives the player what the clips so far did not say, and one
\* that has had nothing to give yet.
Opened(n, d, t, at, old, known) ==
  /\ open /\ cancelled < utter
  /\ known < spoken /\ spoken <= at
  /\ Due(Coming, n, d, t, known + Len(said[n]) - old, spoken)

Unopened(n, at, old, known) ==
  /\ ~open /\ Coming = <<>> /\ Len(said[n]) = old
  /\ spoken <= at /\ spoken <= known /\ (spoken = at \/ spoken = known)

Streams(n, d, t, at) ==
  /\ at <= Len(t)
  /\ Len(raw) = at /\ \A i \in 1 .. at : raw[i] = Sentence(n, d, i, t[i])
  /\ Hears(n) /\ Alone(n)
  /\ \E old \in 0 .. Len(said[n]) : \E known \in 0 .. old :
       Tells(said[n], d, t, old, known)
       /\ (Opened(n, d, t, at, old, known) \/ Unopened(n, at, old, known))

\* A reply that is being written: it has not come to the buffer, or it streams.
LiveInv(n) ==
  Live(n) /\ speak =>
    \/ Untold(n) /\ turn.at = 0 /\ turn.draft = 1
    \/ Streams(n, turn.draft, turn.text, turn.at)

\* The clips of reply n tell text t up to position upto.
Told(n, d, t, upto) ==
  \E old \in 0 .. Len(said[n]) : \E known \in 0 .. old :
    Tells(said[n], d, t, old, known) /\ upto = known + Len(said[n]) - old

\* A reply that is being spoken, from on_speak to its last clip.
Awaits(n) ==
  open /\ spoken = Len(task[n].text)
  /\ Streams(n, task[n].draft, task[n].text, Len(task[n].text))

InLine(n) ==
  /\ ~open /\ Coming = <<>> /\ Hears(n)
  /\ \E known \in 0 .. Len(said[n]) :
       Tells(said[n], task[n].draft, task[n].text, Len(said[n]), known)

Whole(n) ==
  /\ ~open /\ Coming = <<>> /\ cancelled < task[n].u
  /\ \E p \in 0 .. Len(task[n].text) :
       /\ Told(n, task[n].draft, task[n].text, p)
       /\ Due(task[n].todo, n, task[n].draft, task[n].text, p, Len(task[n].text))

ToldAll(n) == Told(n, task[n].draft, task[n].text, Len(task[n].text))

SpokenInOrder(n) ==
  /\ task[n].st = "await" => Awaits(n)
  /\ task[n].st = "woken" => pending = <<>> /\ ToldAll(n)
  /\ task[n].st = "line" => InLine(n)
  /\ Own(n) => Whole(n)
  /\ task[n].st = "done" => Absent(n) /\ ToldAll(n)

TaskInv(n) ==
  /\ Speaking(n) => speak /\ Alone(n)
  /\ task[n].kept = 0 => SpokenInOrder(n)

\* With nobody speaking an empty buffer is a closed stream, and a closed stream
\* has an empty queue.
BufferInv ==
  /\ raw = <<>> /\ (\A m \in Turn : ~Speaking(m)) => ~open /\ spoken = 0
  /\ pending # <<>> => open

SpokenInv ==
  /\ BufferInv
  /\ \A n \in Turn : n > turn.n => Untold(n)
  /\ \A n \in Turn \ excused : LiveInv(n) /\ TaskInv(n)

LEMMA Facts ==
  ASSUME SpeechInv
  PROVE  /\ raw \in Seq(Sentences) /\ heard \in Seq(Sentences) /\ pending \in Seq(Sentences)
         /\ spoken \in Nat /\ utter \in Nat /\ seq \in Nat /\ cancelled \in Nat /\ open \in BOOLEAN
         /\ cancelled <= seq /\ utter <= seq /\ (open <=> utter # 0)
         /\ said \in [Turn -> Seq(Clips)] /\ \A n \in Turn : said[n] \in Seq(Clips)
         /\ drain.st = "render" => drain.item \in Sentences /\ drain.u \in Nat
         /\ turn.n \in Nat /\ turn.draft \in Nat /\ turn.text \in Seq(STRING) /\ turn.at \in Nat
         /\ turn.kept \in Nat /\ (turn.live => turn.n \in Turn)
         /\ \A n \in Turn : /\ task[n].draft \in Nat /\ task[n].text \in Seq(STRING)
                            /\ task[n].todo \in Seq(Sentences) /\ task[n].u \in Nat
                            /\ task[n].kept \in Nat
<1>a. TurnTypes /\ StreamTypes /\ TaskTypes /\ PastTypes /\ NumberInv
  BY TypeParts DEF SpeechInv
<1>1. \A n \in Turn : task[n] \in Tasks
  BY <1>a DEF TaskTypes
<1>2. \A n \in Turn : /\ task[n].draft \in Nat /\ task[n].text \in Seq(STRING)
                      /\ task[n].todo \in Seq(Sentences) /\ task[n].u \in Nat
                      /\ task[n].kept \in Nat
  BY <1>1 DEF Tasks
<1>3. /\ raw \in Seq(Sentences) /\ heard \in Seq(Sentences) /\ pending \in Seq(Sentences)
      /\ spoken \in Nat /\ utter \in Nat /\ seq \in Nat /\ cancelled \in Nat /\ open \in BOOLEAN
  BY <1>a DEF StreamTypes
<1>4. cancelled <= seq /\ utter <= seq /\ (open <=> utter # 0)
  BY <1>a DEF NumberInv
<1>5. said \in [Turn -> Seq(Clips)] /\ \A n \in Turn : said[n] \in Seq(Clips)
  BY <1>a DEF PastTypes
<1>6. drain.st = "render" => drain.item \in Sentences /\ drain.u \in Nat
  BY <1>a DEF TaskTypes
<1>7. /\ turn.n \in Nat /\ turn.draft \in Nat /\ turn.text \in Seq(STRING) /\ turn.at \in Nat
      /\ turn.kept \in Nat /\ (turn.live => turn.n \in Turn)
  BY <1>a DEF TurnTypes
<1> QED
  BY <1>2, <1>3, <1>4, <1>5, <1>6, <1>7

LEMMA NothingComing ==
  ASSUME SpeechInv, Coming = <<>>
  PROVE  pending = <<>> /\ ~Voiced
<1>1. pending \in Seq(Sentences) /\ (Voiced => drain.item \in Sentences)
  BY Facts DEF Voiced
<1>2. CASE Voiced
  <2>1. Len(<<drain.item>> \o pending) = 1 + Len(pending) /\ Len(pending) \in Nat
    BY <1>1, <1>2
  <2> QED
    BY <1>2, <2>1 DEF Coming, InVoice
<1>3. CASE ~Voiced
  BY <1>1, <1>3 DEF Coming, InVoice
<1> QED
  BY <1>2, <1>3

\* _queue_from_buffer and _ensure_drain: what was coming is followed by what the
\* text goes on with.
LEMMA QueueTells ==
  ASSUME SpeechInv, NEW n \in Turn, NEW d \in Nat, NEW t \in Seq(STRING), Hears(n),
         NEW old \in 0 .. Len(said[n]), NEW known \in 0 .. old, Tells(said[n], d, t, old, known),
         NEW at \in Nat, Opened(n, d, t, at, old, known) \/ Unopened(n, at, old, known),
         NEW r \in Seq(Sentences), at <= Len(r), Len(r) <= Len(t),
         \A i \in 1 .. Len(r) : r[i] = Sentence(n, d, i, t[i]),
         NEW final \in BOOLEAN, Queue(r, final), EnsureDrain, UNCHANGED <<said, cancelled>>
  PROVE  /\ Opened(n, d, t, Len(r), old, known)' \/ Unopened(n, Len(r), old, known)'
         /\ raw' = r /\ (final => spoken' = Len(r)) /\ (open => open')
<1> DEFINE already == Larger(spoken, HeardCount(r))
           p == known + Len(said[n]) - old
<1>1. /\ said[n] \in Seq(Clips) /\ heard \in Seq(Sentences) /\ pending \in Seq(Sentences)
      /\ spoken \in Nat /\ utter \in Nat /\ seq \in Nat /\ cancelled \in Nat /\ cancelled <= seq
  BY Facts
<1>2. Len(r) \in Nat /\ Len(t) \in Nat /\ old \in Nat /\ known \in Nat /\ p \in Nat /\ known <= p
  BY <1>1
<1>3. \A i \in 1 .. Len(r) : r[i].text = t[i]
  <2> TAKE i \in 1 .. Len(r)
  <2>1. r[i] = [turn |-> n, draft |-> d, pos |-> i, text |-> t[i]]
    BY DEF Sentence
  <2> QED
    BY <2>1
<1>4. /\ HeardCount(r) <= p /\ HeardCount(r) \in Nat
      /\ old = Len(said[n]) => HeardCount(r) = IF Len(r) < known THEN Len(r) ELSE known
  <2> HIDE DEF already, p
  <2>1. /\ HeardCount(r) <= known + Len(said[n]) - old
        /\ old = Len(said[n]) => HeardCount(r) = IF Len(r) < known THEN Len(r) ELSE known
        /\ HeardCount(r) \in Nat
    BY ONLY TRUE, <1>1, <1>3, CountIs, n \in Turn, d \in Nat, t \in Seq(STRING), Hears(n),
       old \in 0 .. Len(said[n]), known \in 0 .. old, Tells(said[n], d, t, old, known),
       r \in Seq(Sentences), Len(r) <= Len(t)
  <2> QED
    BY <2>1 DEF p
<1>5. /\ already \in Nat /\ spoken <= already /\ HeardCount(r) <= already
      /\ already = spoken \/ already = HeardCount(r)
  BY <1>1, <1>4 DEF Larger
<1> HIDE DEF already
<1>b. Coming \in Seq(Sentences)
  <2>1. InVoice \in Seq(Sentences)
    BY Facts, SeqParts DEF InVoice, Voiced
  <2> QED
    BY <1>1, <2>1, SeqParts DEF Coming
<1>c. already <= Len(r)
  <2>1. CASE Opened(n, d, t, at, old, known)
    <3>1. spoken <= at /\ Due(Coming, n, d, t, p, spoken)
      BY <2>1 DEF Opened
    <3>2. Len(Coming) \in Nat /\ Len(Coming) = spoken - p
      BY <1>b, <3>1 DEF Due
    <3> QED
      BY <1>1, <1>2, <1>4, <1>5, <3>1, <3>2
  <2>2. CASE Unopened(n, at, old, known)
    <3>1. spoken <= at /\ old = Len(said[n])
      BY <2>2 DEF Unopened
    <3> QED
      BY <1>1, <1>2, <1>4, <1>5, <3>1
  <2> QED
    BY <2>1, <2>2
<1>6. PICK k \in already .. Len(r) :
        /\ final => k = Len(r)
        /\ raw' = r /\ spoken' = k
        /\ pending' = pending \o SubSeq(r, already + 1, k)
        /\ IF k > already /\ ~open
           THEN open' = TRUE /\ seq' = seq + 1 /\ utter' = seq + 1
           ELSE UNCHANGED <<open, seq, utter>>
  <2>1. PICK k \in already .. Larger(already, Len(r)) :
          /\ final => k >= Len(r)
          /\ raw' = r /\ spoken' = k
          /\ pending' = pending \o SubSeq(r, already + 1, k)
          /\ IF k > already /\ ~open
             THEN open' = TRUE /\ seq' = seq + 1 /\ utter' = seq + 1
             ELSE UNCHANGED <<open, seq, utter>>
    BY DEF Queue, already
  <2>2. k \in already .. Len(r) /\ (final => k = Len(r))
    BY <1>2, <1>5, <1>c, <2>1 DEF Larger
  <2> QED
    BY <2>1, <2>2
<1> DEFINE q == SubSeq(r, already + 1, k)
<1>7. q \in Seq(Sentences) /\ k \in Nat /\ already <= k /\ k <= Len(r)
  BY <1>2, <1>5
<1>8. InVoice' = InVoice /\ InVoice \in Seq(Sentences)
  <2>1. CASE drain.st = "render"
    <3>1. drain' = drain /\ cancelled' = cancelled
      BY <2>1 DEF EnsureDrain
    <3>2. drain.item \in Sentences
      BY <2>1, Facts
    <3> QED
      BY <3>1, <3>2 DEF InVoice, Voiced
  <2>2. CASE drain.st # "render"
    <3>1. drain'.st # "render"
      BY <2>2, TypeParts DEF EnsureDrain, SpeechInv, TaskTypes
    <3> QED
      BY <2>2, <3>1 DEF InVoice, Voiced
  <2> QED
    BY <2>1, <2>2
<1>9. Coming' = Coming \o q /\ Coming \in Seq(Sentences)
  <2>1. Coming' = InVoice \o (pending \o q) /\ Coming = InVoice \o pending
    BY <1>6, <1>8 DEF Coming
  <2> HIDE DEF q
  <2>2. (InVoice \o pending) \o q = InVoice \o (pending \o q)
    BY <1>1, <1>7, <1>8, InARow
  <2>3. InVoice \o pending \in Seq(Sentences)
    BY <1>1, <1>8, SeqParts
  <2> QED
    BY <2>1, <2>2, <2>3
<1>10. (final => spoken' = Len(r)) /\ (open => open')
  BY <1>6
<1>o. CASE Opened(n, d, t, at, old, known)
  <2>1. open /\ cancelled < utter /\ known < spoken /\ Due(Coming, n, d, t, p, spoken)
    BY <1>o DEF Opened
  <2>2. p <= spoken
    <3>1. Len(Coming) \in Nat /\ Len(Coming) = spoken - p
      BY <1>9, <2>1 DEF Due
    <3> QED
      BY <1>1, <1>2, <3>1
  <2>3. already = spoken
    BY <1>1, <1>2, <1>4, <1>5, <2>2
  <2>4. Due(Coming \o q, n, d, t, p, k)
    BY <1>1, <1>2, <1>7, <1>9, <2>1, <2>3, DueMore
  <2>5. /\ open' /\ cancelled' < utter' /\ known < spoken' /\ spoken' <= Len(r)
        /\ Len(said'[n]) = Len(said[n])
    BY <1>1, <1>2, <1>6, <1>7, <2>1, <2>3
  <2>6. Due(Coming', n, d, t, known + Len(said'[n]) - old, spoken')
    BY <1>6, <1>9, <2>4, <2>5
  <2> QED
    BY <1>6, <1>10, <2>5, <2>6 DEF Opened, Due
<1>u. CASE Unopened(n, at, old, known)
  <2>1. /\ ~open /\ Coming = <<>> /\ Len(said[n]) = old
        /\ spoken <= at /\ spoken <= known /\ (spoken = at \/ spoken = known)
    BY <1>u DEF Unopened
  <2>2. Coming = <<>> /\ p = known
    BY <1>1, <1>2, <2>1
  <2>3. HeardCount(r) = IF Len(r) < known THEN Len(r) ELSE known
    BY <1>4, <2>1
  <2>4. CASE k > already
    <3>1. already = known
      BY <1>1, <1>2, <1>5, <1>7, <2>1, <2>3, <2>4
    <3>2. Due(<<>>, n, d, t, p, known)
      BY <1>2, <2>2 DEF Due
    <3>3. Due(Coming \o q, n, d, t, p, k)
      BY <1>1, <1>2, <1>7, <2>2, <3>1, <3>2, DueMore, SeqParts
    <3>4. /\ open' /\ cancelled' < utter' /\ known < spoken' /\ spoken' <= Len(r)
          /\ Len(said'[n]) = Len(said[n])
      BY <1>1, <1>2, <1>6, <1>7, <2>1, <2>4, <3>1
    <3>5. Due(Coming', n, d, t, known + Len(said'[n]) - old, spoken')
      BY <1>6, <1>9, <3>3, <3>4
    <3> QED
      BY <1>6, <1>10, <3>4, <3>5 DEF Opened, Due
  <2>5. CASE ~(k > already)
    <3>1. k = already
      BY <1>5, <1>7, <2>5
    <3>2. q = <<>>
      BY <1>5, <3>1, EmptySlice
    <3>3. Coming' = <<>> /\ ~open' /\ Len(said'[n]) = old
      BY <1>6, <1>9, <2>1, <2>5, <3>2
    <3>4. /\ spoken' <= Len(r) /\ spoken' <= known
          /\ spoken' = Len(r) \/ spoken' = known
      BY <1>1, <1>2, <1>5, <1>6, <1>7, <2>1, <2>3, <3>1
    <3> QED
      BY <1>6, <1>10, <3>3, <3>4 DEF Unopened
  <2> QED
    BY <2>4, <2>5
<1> QED
  BY <1>o, <1>u

-----------------------------------------------------------------------------
\* What a step does to the buffer, the queue and the list of what was heard.

LEMMA BufferShrinks ==
  ASSUME [Next]_vars, ~OnDelta, ~OnSpeak
  PROVE  /\ raw' = raw \/ raw' = <<>>
         /\ pending' = pending \/ pending' = <<>> \/ (pending # <<>> /\ pending' = Tail(pending))
<1>1. CASE OnRetract \/ OnTurnError \/ OnTurnCancel \/ SpeakNothing
           \/ \E n \in Turn : SpeakResumes(n) \/ WholeFails(n)
  BY <1>1 DEF OnRetract, OnTurnError, OnTurnCancel, SpeakNothing, SpeakResumes, WholeFails, Withdraw,
     Finish, Reset, Drop
<1>2. CASE \E n \in Turn : WholeNext(n)
  BY <1>2 DEF WholeNext, Finish, Reset, bufVars
<1>3. CASE CancelSpeech \/ DrainFails \/ DrainNext
  BY <1>3 DEF CancelSpeech, DrainFails, DrainNext, bufVars
<1>4. CASE \/ TurnStarts \/ KeepDraft \/ LeaveConversation \/ EnterConversation \/ DrainStarts
           \/ DrainClip \/ RetractResumes \/ UNCHANGED vars
           \/ \E n \in Turn : WholeStarts(n) \/ WholeClip(n)
  BY <1>4 DEF TurnStarts, KeepDraft, LeaveConversation, EnterConversation, DrainStarts, DrainClip, RetractResumes, WholeStarts,
     WholeClip, vars, bufVars, queueVars
<1> QED
  BY <1>1, <1>2, <1>3, <1>4 DEF Next

LEMMA HeardStep ==
  ASSUME [Next]_vars
  PROVE  heard' = heard \/ heard' = <<>> \/ (Voiced /\ heard' = Append(heard, drain.item))
<1>1. CASE DrainClip
  BY <1>1 DEF DrainClip, Voiced, DrainSpeaks
<1>2. CASE OnRetract \/ OnTurnError \/ OnTurnCancel \/ SpeakNothing
  BY <1>2 DEF OnRetract, OnTurnError, OnTurnCancel, SpeakNothing, Withdraw, Reset
<1>3. CASE \E n \in Turn : SpeakResumes(n) \/ WholeNext(n) \/ WholeFails(n)
  BY <1>3 DEF SpeakResumes, WholeNext, WholeFails, Finish, Reset, bufVars
<1>4. CASE \/ TurnStarts \/ OnDelta \/ KeepDraft \/ OnSpeak \/ CancelSpeech \/ LeaveConversation
           \/ EnterConversation \/ DrainStarts \/ DrainNext \/ DrainFails \/ RetractResumes
           \/ UNCHANGED vars \/ \E n \in Turn : WholeStarts(n) \/ WholeClip(n)
  BY <1>4 DEF TurnStarts, OnDelta, KeepDraft, OnSpeak, CancelSpeech, LeaveConversation, EnterConversation,
     DrainStarts, DrainNext, DrainFails, RetractResumes, WholeStarts, WholeClip, vars, bufVars
<1> QED
  BY <1>1, <1>2, <1>3, <1>4 DEF Next

\* Who is not on the way to the player gets there only by its own deltas or its
\* own on_speak.
LEMMA AbsentKept ==
  ASSUME SpeechInv, [Next]_vars, NEW n \in Turn, Absent(n), Live(n) => ~OnDelta /\ ~OnSpeak
  PROVE  Absent(n)'
<1> DEFINE S == Others(n)
<1>a. /\ raw \in Seq(S) /\ heard \in Seq(S) /\ pending \in Seq(S)
      /\ Voiced => drain.item \in S
  BY DEF Absent
<1>b. S \subseteq Sentences /\ S' = S
  BY DEF Others
<1>1. raw' \in Seq(S) /\ pending' \in Seq(S)
  <2>1. CASE ~OnDelta /\ ~OnSpeak
    <3> HIDE DEF S
    <3> QED
      BY <2>1, <1>a, BufferShrinks, SeqParts
  <2>2. CASE OnDelta \/ OnSpeak
    <3>1. turn.live /\ turn.n # n
      BY <2>2 DEF OnDelta, OnSpeak, Live
    <3>2. \A x \in Sentences : Draft(x) = <<turn.n, turn.draft>> => x \in S
      BY <3>1 DEF Others, Draft
    <3>3. TypeOK
      BY DEF SpeechInv
    <3> HIDE DEF S
    <3> QED
      BY <3>2, <3>3, <1>a, <1>b, BufferKept
  <2> QED
    BY <2>1, <2>2
<1> HIDE DEF S
<1>2. heard' \in Seq(S)
  BY <1>a, HeardStep, SeqParts
<1>3. Voiced' => drain'.item \in S
  <2>0. TypeOK
    BY DEF SpeechInv
  <2>1. drain'.st = "render" => UNCHANGED drain \/ (pending # <<>> /\ drain'.item = Head(pending))
    BY <2>0, DrainStep
  <2>2. CASE UNCHANGED drain
    <3>1. cancelled <= cancelled' /\ cancelled \in Nat /\ cancelled' \in Nat
      <4>1. cancelled <= seq /\ cancelled \in Nat /\ seq \in Nat
        BY Facts
      <4>2. cancelled' = cancelled \/ cancelled' = seq
        BY <2>0, StreamStep
      <4> QED
        BY <4>1, <4>2
    <3>2. Voiced' => Voiced
      <4>1. ASSUME Voiced' PROVE drain.st = "render" /\ cancelled' < drain.u
        BY <2>2, <4>1 DEF Voiced
      <4>2. drain.st = "render" => drain.u \in Nat
        BY Facts
      <4> QED
        BY <3>1, <4>1, <4>2 DEF Voiced
    <3> QED
      BY <2>2, <3>2, <1>a
  <2>3. CASE pending # <<>> /\ drain'.item = Head(pending)
    BY <2>3, <1>a, SeqParts
  <2> QED
    BY <2>1, <2>2, <2>3 DEF Voiced
<1> QED
  BY <1>1, <1>2, <1>3, <1>b DEF Absent, S

LEMMA SaidKept ==
  ASSUME SpeechInv, [Next]_vars, NEW n \in Turn, task[n].st # "render",
         Voiced => drain.item.turn # n
  PROVE  said'[n] = said[n]
BY ClipStep DEF NewClip, Voiced

LEMMA AbsentSaid ==
  ASSUME SpeechInv, [Next]_vars, NEW n \in Turn, task[n].st # "render", Absent(n)
  PROVE  said'[n] = said[n]
<1>1. Voiced => drain.item.turn # n
  BY DEF Absent, Others
<1> QED
  BY <1>1, SaidKept

\* Who is done with its reply resets the stream.
LEMMA DoneResets ==
  ASSUME TypeOK, [Next]_vars, NEW m \in Turn, Speaking(m), ~Speaking(m)'
  PROVE  raw' = <<>> /\ spoken' = 0 /\ ~open'
<1>a. task \in [Turn -> Tasks] /\ (turn.live => turn.n \in Turn)
  BY TypeParts DEF TaskTypes, TurnTypes
<1>1. CASE SpeakNothing \/ \E n \in Turn : SpeakResumes(n) \/ WholeFails(n)
  BY <1>1 DEF SpeakNothing, SpeakResumes, WholeFails, Finish, Reset
<1>2. CASE \E n \in Turn : WholeNext(n)
  <2>1. PICK n \in Turn : WholeNext(n)
    BY <1>2
  <2>2. CASE Finish(n, task[n].u)
    BY <2>2 DEF Finish, Reset
  <2>3. CASE task' = [task EXCEPT ![n].st = "render"]
    BY <2>3, <1>a DEF Speaking, Tasks
  <2> QED
    BY <2>1, <2>2, <2>3 DEF WholeNext
<1>3. CASE OnSpeak
  <2>1. /\ turn.live
        /\ \/ task' = task
           \/ task' = [task EXCEPT ![turn.n] = Job("await", utter')]
           \/ task' = [task EXCEPT ![turn.n] = Job("line", 0)]
    BY <1>3 DEF OnSpeak
  <2>2. \A st, u : Job(st, u).st = st
    BY DEF Job
  <2>3. task'[m] = task[m] \/ task'[m] = Job("await", utter') \/ task'[m] = Job("line", 0)
    BY <2>1, <1>a
  <2> QED
    BY <2>2, <2>3 DEF Speaking
<1>4. CASE \E n \in Turn : WholeStarts(n) \/ WholeClip(n)
  <2>1. PICK n \in Turn : WholeStarts(n) \/ WholeClip(n)
    BY <1>4
  <2>2. \A k \in Turn : k # n => task'[k] = task[k]
    BY <1>a, <2>1 DEF WholeStarts, WholeClip
  <2>3. task'[n].st = "whole"
    BY <1>a, <2>1 DEF WholeStarts, WholeClip, Tasks
  <2> QED
    BY <2>2, <2>3 DEF Speaking
<1>5. CASE DrainNext \/ DrainFails
  <2>1. task' = task \/ task' = [n \in Turn |-> IF task[n].st = "await" THEN [task[n] EXCEPT !.st = "woken"]
                                                                       ELSE task[n]]
    BY <1>5 DEF DrainNext, DrainFails, DrainEnds
  <2> QED
    BY <2>1, <1>a DEF Speaking, Tasks
<1>6. CASE \/ TurnStarts \/ OnDelta \/ KeepDraft \/ OnRetract \/ OnTurnError \/ OnTurnCancel
           \/ CancelSpeech \/ LeaveConversation \/ EnterConversation \/ DrainStarts \/ DrainClip
           \/ RetractResumes \/ UNCHANGED vars
  <2>1. UNCHANGED task
    BY <1>6 DEF TurnStarts, OnDelta, KeepDraft, OnRetract, OnTurnError, OnTurnCancel, CancelSpeech,
       LeaveConversation, EnterConversation, DrainStarts, DrainClip, RetractResumes, vars, taskVars
  <2> QED
    BY <2>1 DEF Speaking
<1> QED
  BY <1>1, <1>2, <1>3, <1>4, <1>5, <1>6 DEF Next

LEMMA BufferInvKept == SpeechInv /\ BufferInv /\ [Next]_vars => BufferInv'
<1> SUFFICES ASSUME SpeechInv, BufferInv, [Next]_vars PROVE BufferInv'
  OBVIOUS
<1> DEFINE Quiet == \A m \in Turn : ~Speaking(m)
<1>a. /\ raw = <<>> /\ Quiet => ~open /\ spoken = 0
      /\ pending # <<>> => open
  BY DEF BufferInv
<1>t. TypeOK
  BY DEF SpeechInv
<1>r. Quiet' => Quiet \/ (raw' = <<>> /\ spoken' = 0 /\ ~open')
  BY <1>t, DoneResets
<1> HIDE DEF Quiet
<1>q. ASSUME NEW r \in Seq(Sentences), NEW final \in BOOLEAN, Queue(r, final)
      PROVE  raw' = r /\ (pending' # <<>> => open')
  <2> DEFINE already == Larger(spoken, HeardCount(r))
  <2>1. already \in Nat /\ Len(r) \in Nat
    BY Facts, HeardCountType DEF Larger
  <2> HIDE DEF already
  <2>2. PICK k \in already .. Larger(already, Len(r)) :
          /\ raw' = r /\ spoken' = k
          /\ pending' = pending \o SubSeq(r, already + 1, k)
          /\ IF k > already /\ ~open
             THEN open' = TRUE /\ seq' = seq + 1 /\ utter' = seq + 1
             ELSE UNCHANGED <<open, seq, utter>>
    BY <1>q DEF Queue, already
  <2>3. CASE open'
    BY <2>2, <2>3
  <2>4. CASE ~open'
    <3>1. pending = <<>> /\ k = already
      BY <2>1, <2>2, <2>4, <1>a DEF Larger
    <3>2. SubSeq(r, already + 1, k) = <<>>
      BY <2>1, <3>1, EmptySlice
    <3> QED
      BY <2>2, <3>1, <3>2
  <2> QED
    BY <2>3, <2>4
<1>u. ASSUME UNCHANGED <<raw, spoken, open, pending>>
      PROVE  (raw' = <<>> /\ Quiet' => ~open' /\ spoken' = 0) /\ (pending' # <<>> => open')
  <2>1. raw' = raw /\ spoken' = spoken /\ pending' = pending
    BY <1>u
  <2>2. open' = open
    BY <1>u
  <2> QED
    BY <2>1, <2>2, <1>a, <1>r, Zenon
<1>2. (raw' = <<>> /\ Quiet' => ~open' /\ spoken' = 0) /\ (pending' # <<>> => open')
  <2>1. CASE OnDelta
    <3> DEFINE x == Sentence(turn.n, turn.draft, turn.at + 1, turn.text[turn.at + 1])
    <3>1. /\ turn.live /\ turn.at < Len(turn.text)
          /\ Queue(Append(raw, x), FALSE) \/ UNCHANGED <<raw, spoken, open, pending>>
      BY <2>1 DEF OnDelta, bufVars
    <3>2. x \in Sentences
      <4>1. /\ turn.text \in Seq(STRING) /\ turn.at \in Nat /\ turn.n \in Turn
            /\ turn.draft \in Nat
        BY <3>1, Facts
      <4>2. turn.text[turn.at + 1] \in STRING /\ turn.at + 1 \in Nat
        BY <3>1, <4>1
      <4> QED
        BY <4>1, <4>2 DEF Sentence, Sentences
    <3> HIDE DEF x
    <3>3. Append(raw, x) \in Seq(Sentences) /\ Append(raw, x) # <<>>
      <4>1. raw \in Seq(Sentences)
        BY Facts
      <4> QED
        BY <3>2, <4>1
    <3>4. CASE Queue(Append(raw, x), FALSE)
      BY <3>3, <3>4, <1>q
    <3> QED
      BY <3>1, <3>4, <1>u
  <2>2. CASE OnSpeak
    <3> DEFINE final == Answer(turn.n, turn.draft, turn.text, turn.kept)
    <3>1. /\ turn.live /\ turn.n \in Turn
          /\ \/ Queue(final, TRUE) /\ task' = [task EXCEPT ![turn.n] = Job("await", utter')]
             \/ UNCHANGED <<raw, spoken, open, pending>>
      BY <2>2, Facts DEF OnSpeak, bufVars
    <3>2. final \in Seq(Sentences)
      <4>1. final \in Seq({x \in Sentences : Draft(x) = <<turn.n, turn.draft>>})
        BY <3>1, Facts, AnswerType
      <4> HIDE DEF final
      <4> QED
        BY <4>1
    <3> HIDE DEF final
    <3>3. CASE Queue(final, TRUE) /\ task' = [task EXCEPT ![turn.n] = Job("await", utter')]
      <4>1. task'[turn.n].st = "await"
        BY <3>1, <3>3, <1>t, TypeParts DEF TaskTypes, Job
      <4>2. ~Quiet'
        BY <3>1, <4>1 DEF Quiet, Speaking
      <4> QED
        BY <3>2, <3>3, <4>2, <1>q
    <3> QED
      BY <3>1, <3>3, <1>u
  <2>3. CASE ~OnDelta /\ ~OnSpeak
    <3>1. (raw' = <<>> /\ spoken' = 0 /\ open' = FALSE /\ pending' = <<>>)
          \/ UNCHANGED <<raw, spoken, open>>
      <4>1. CASE OnRetract \/ OnTurnError \/ OnTurnCancel \/ SpeakNothing
                 \/ \E n \in Turn : SpeakResumes(n) \/ WholeFails(n)
        BY <4>1 DEF OnRetract, OnTurnError, OnTurnCancel, SpeakNothing, SpeakResumes, WholeFails,
           Withdraw, Finish, Reset, Drop
      <4>2. CASE \E n \in Turn : WholeNext(n)
        BY <4>2 DEF WholeNext, Finish, Reset, bufVars
      <4>3. CASE \/ TurnStarts \/ KeepDraft \/ CancelSpeech \/ LeaveConversation \/ EnterConversation
                 \/ DrainStarts \/ DrainNext \/ DrainClip \/ DrainFails \/ RetractResumes
                 \/ UNCHANGED vars \/ \E n \in Turn : WholeStarts(n) \/ WholeClip(n)
        BY <4>3 DEF TurnStarts, KeepDraft, CancelSpeech, LeaveConversation, EnterConversation,
           DrainStarts, DrainNext, DrainClip, DrainFails, RetractResumes, WholeStarts, WholeClip, vars,
           bufVars
      <4> QED
        BY <2>3, <4>1, <4>2, <4>3 DEF Next
    <3>2. pending' # <<>> => pending # <<>>
      BY <2>3, BufferShrinks
    <3> QED
      BY <3>1, <3>2, <1>a, <1>r
  <2> QED
    BY <2>1, <2>2, <2>3
<1> QED
  BY <1>2 DEF BufferInv, Quiet

-----------------------------------------------------------------------------
\* Which steps leave a reply on its way unexcused.

LEMMA SpeakingStep ==
  ASSUME SpeechInv, [Next]_vars, NEW m \in Turn, Speaking(m)'
  PROVE  Speaking(m) \/ (OnSpeak /\ speak /\ m = turn.n)
<1>a. task \in [Turn -> Tasks]
  BY TypeParts DEF SpeechInv, TaskTypes
<1>1. CASE OnSpeak
  <2>1. \/ task' = task
        \/ speak /\ \E r : task' = [task EXCEPT ![turn.n] = r]
    BY <1>1 DEF OnSpeak
  <2>2. CASE task' = task
    BY <2>2 DEF Speaking
  <2>3. CASE speak /\ \E r : task' = [task EXCEPT ![turn.n] = r]
    <3>1. m # turn.n => task'[m] = task[m]
      BY <2>3, <1>a
    <3> QED
      BY <1>1, <2>3, <3>1 DEF Speaking
  <2> QED
    BY <2>1, <2>2, <2>3
<1>2. CASE OnTurnError \/ OnTurnCancel
  BY <1>2 DEF OnTurnError, OnTurnCancel, Speaking
<1>3. CASE ~OnSpeak /\ ~OnTurnError /\ ~OnTurnCancel
  <2>1. ~Begins(m)
    <3>1. CASE SpeakNothing
      <4>1. task'[turn.n].st = "done"
        BY <3>1, <1>a, Facts DEF SpeakNothing, Job
      <4> QED
        BY <4>1 DEF Begins
    <3>2. CASE OnDelta \/ KeepDraft \/ OnRetract
      <4>1. turn.live => turn'.live
        BY <3>2, TypeParts DEF OnDelta, KeepDraft, OnRetract, SpeechInv, TurnTypes
      <4> QED
        BY <4>1 DEF Begins
    <3>3. CASE ~(SpeakNothing \/ OnDelta \/ KeepDraft \/ OnRetract)
      <4>1. turn.live => turn'.live
        BY <1>3, <3>3 DEF Next, TurnStarts, CancelSpeech, LeaveConversation, EnterConversation,
           DrainStarts, DrainNext, DrainClip, DrainFails, RetractResumes, SpeakResumes, WholeStarts,
           WholeNext, WholeClip, WholeFails, vars
      <4> QED
        BY <4>1 DEF Begins
    <3> QED
      BY <3>1, <3>2, <3>3
  <2>2. Same(m) \/ Ends(m) \/ Moves(m) \/ Begins(m) \/ Mutes(m) \/ Enters(m)
    BY TaskStep DEF SpeechInv
  <2> QED
    BY <2>1, <2>2 DEF Same, Ends, Moves, Mutes, Enters, Speaking
<1> QED
  BY <1>1, <1>2, <1>3

\* A reply that comes to the buffer and finds nobody there.
Welcome(n) ==
  /\ n = turn.n /\ Alone(n)
  /\ \A i \in 1 .. Len(raw) : raw[i].turn = n
  /\ \A i \in 1 .. Len(heard) : heard[i].turn = n
  /\ Voiced => drain.item.turn = n

LEMMA MeetsNobody ==
  ASSUME SpeechInv, Meets(turn.n), NEW n \in Active, n \notin excused'
  PROVE  Welcome(n)
<1>1. n = turn.n
  BY DEF Meets
<1>2. /\ Active \ {n} = {} /\ ~\E x \in ToSet(raw) \cup ToSet(heard) : x.turn # n
      /\ Voiced => drain.item.turn = n
  BY <1>1 DEF Meets, Voiced, DrainSpeaks
<1>3. Alone(n)
  BY <1>2 DEF Alone, Active
<1>4. (\A i \in 1 .. Len(raw) : raw[i] \in ToSet(raw)) /\ \A i \in 1 .. Len(heard) : heard[i] \in ToSet(heard)
  <2>1. DOMAIN raw = 1 .. Len(raw) /\ DOMAIN heard = 1 .. Len(heard)
    BY Facts
  <2> QED
    BY <2>1 DEF ToSet
<1> QED
  BY <1>1, <1>2, <1>3, <1>4 DEF Welcome

LEMMA ExcusedGrows == [Next]_vars => excused \subseteq excused'
<1> SUFFICES ASSUME [Next]_vars PROVE excused \subseteq excused'
  OBVIOUS
<1>1. CASE OnDelta \/ OnSpeak \/ SpeakNothing
  BY <1>1 DEF OnDelta, OnSpeak, SpeakNothing, Meets
<1>2. CASE ~OnDelta /\ ~OnSpeak /\ ~SpeakNothing
  BY <1>2 DEF Next, TurnStarts, KeepDraft, OnRetract, OnTurnError, OnTurnCancel, CancelSpeech,
     LeaveConversation, EnterConversation, DrainStarts, DrainNext, DrainClip, DrainFails,
     RetractResumes, SpeakResumes, WholeStarts, WholeNext, WholeClip, WholeFails, vars, pastVars
<1> QED
  BY <1>1, <1>2

\* The steps of the drain, of the tasks and of the clock of the conversation that
\* touch no turn in progress.
Aside ==
  DrainStarts \/ DrainNext \/ DrainClip \/ RetractResumes \/ TurnStarts \/ KeepDraft \/ UNCHANGED vars

Works(m) == SpeakResumes(m) \/ WholeStarts(m) \/ WholeNext(m) \/ WholeClip(m)

LEMMA CalmStep ==
  ASSUME SpeechInv, [Next]_vars, NEW n \in Active, n \notin excused'
  PROVE  /\ n \notin excused /\ UNCHANGED speak
         /\ \/ Aside
            \/ \E m \in Turn : Works(m)
            \/ OnDelta /\ (speak => Welcome(n))
            \/ OnSpeak /\ (speak => Welcome(n))
            \/ OnRetract /\ n = turn.n
            \/ /\ SpeakNothing /\ speak /\ Welcome(n)
               /\ ~open /\ Answer(turn.n, turn.draft, turn.text, turn.kept) = <<>>
<1>0. n \notin excused
  BY ExcusedGrows
<1>1. CASE OnDelta
  <2>1. UNCHANGED speak /\ (speak => Meets(turn.n))
    BY <1>1 DEF OnDelta
  <2> QED
    BY <1>0, <1>1, <2>1, MeetsNobody
<1>2. CASE OnSpeak
  <2>1. UNCHANGED speak /\ (speak => Meets(turn.n))
    BY <1>2 DEF OnSpeak
  <2> QED
    BY <1>0, <1>2, <2>1, MeetsNobody
<1>3. CASE OnRetract
  BY <1>0, <1>3 DEF OnRetract
<1>4. CASE \/ OnTurnError \/ OnTurnCancel \/ CancelSpeech \/ LeaveConversation \/ EnterConversation
           \/ DrainFails \/ \E m \in Turn : WholeFails(m)
  BY <1>4 DEF OnTurnError, OnTurnCancel, CancelSpeech, LeaveConversation, EnterConversation,
     DrainFails, WholeFails
<1>5. CASE Aside
  BY <1>0, <1>5 DEF Aside, DrainStarts, DrainNext, DrainClip, RetractResumes, TurnStarts, KeepDraft,
     vars
<1>6. CASE \E m \in Turn : Works(m)
  BY <1>0, <1>6 DEF Works, SpeakResumes, WholeStarts, WholeNext, WholeClip
<1>7. CASE SpeakNothing
  <2>1. UNCHANGED speak /\ speak
    BY <1>7 DEF SpeakNothing
  <2>2. CASE excused' = excused \cup Active
    BY <2>2
  <2>3. CASE /\ ~open /\ Answer(turn.n, turn.draft, turn.text, turn.kept) = <<>>
             /\ Meets(turn.n)
    BY <1>0, <1>7, <2>1, <2>3, MeetsNobody
  <2> QED
    BY <1>7, <2>2, <2>3 DEF SpeakNothing
<1> QED
  BY <1>1, <1>2, <1>3, <1>4, <1>5, <1>6, <1>7 DEF Next, Aside, Works

-----------------------------------------------------------------------------
\* The drain and what is coming.

LEMMA DrainNextComing ==
  ASSUME SpeechInv, BufferInv, DrainNext, open => cancelled < utter
  PROVE  /\ Coming' = Coming /\ UNCHANGED <<bufVars, said, cancelled>>
         /\ pending' = <<>> \/ open
         /\ DrainEnds => pending = <<>> /\ Coming = <<>>
<1>1. drain.st = "line" /\ UNCHANGED <<bufVars, said, cancelled>>
  BY DEF DrainNext, pastVars
<1>2. InVoice = <<>> /\ Coming = pending
  BY <1>1, Facts DEF InVoice, Voiced, Coming
<1>3. CASE pending = <<>>
  <2>1. drain' = NoDrain /\ pending' = <<>> /\ DrainEnds
    BY <1>3 DEF DrainNext, DrainEnds
  <2> QED
    BY <1>1, <1>2, <1>3, <2>1 DEF InVoice, Voiced, Coming, NoDrain
<1>4. CASE pending # <<>>
  <2>1. open /\ cancelled < utter /\ utter # 0 /\ ~(cancelled >= utter)
    BY <1>4, Facts DEF BufferInv
  <2>2. /\ pending' = Tail(pending) /\ UNCHANGED <<line, task, retracts>>
        /\ drain' = [drain EXCEPT !.st = "render", !.item = Head(pending), !.u = utter]
    BY <1>4, <2>1 DEF DrainNext
  <2>3. drain'.st = "render" /\ drain'.item = Head(pending) /\ drain'.u = utter
    BY <2>2, TypeParts DEF SpeechInv, TaskTypes
  <2>4. InVoice' = <<Head(pending)>>
    BY <1>1, <2>1, <2>3 DEF InVoice, Voiced
  <2>5. <<Head(pending)>> \o Tail(pending) = pending
    BY <1>4, Facts
  <2>6. ~DrainEnds
    BY <2>3 DEF DrainEnds, NoDrain
  <2> QED
    BY <1>1, <1>2, <2>1, <2>2, <2>4, <2>5, <2>6 DEF Coming
<1> QED
  BY <1>3, <1>4

LEMMA DrainClipComing ==
  ASSUME SpeechInv, DrainClip
  PROVE  /\ UNCHANGED <<raw, spoken, utter, open, pending, cancelled>>
         /\ \/ Coming' = Coming /\ UNCHANGED <<said, heard>>
            \/ /\ Coming # <<>> /\ Coming' = Tail(Coming) /\ Head(Coming) = drain.item
               /\ drain.item \in Sentences /\ drain.u \in Nat
               /\ said' = [said EXCEPT ![drain.item.turn] =
                            Append(said[drain.item.turn], Clip(drain.item, drain.u))]
               /\ heard' = Append(heard, drain.item)
<1>1. /\ drain.st = "render" /\ drain'.st = "line"
      /\ UNCHANGED <<raw, spoken, utter, open, pending, cancelled>>
  BY DEF DrainClip, NoDrain, queueVars
<1>2. pending \in Seq(Sentences) /\ drain.item \in Sentences /\ drain.u \in Nat
  BY <1>1, Facts
<1>3. Coming' = pending
  BY <1>1, <1>2 DEF Coming, InVoice, Voiced
<1>4. CASE DrainSpeaks
  <2>1. Coming = <<drain.item>> \o pending
    BY <1>1, <1>4 DEF Coming, InVoice, Voiced, DrainSpeaks
  <2>2. Coming # <<>> /\ Head(Coming) = drain.item /\ Tail(Coming) = pending
    BY <1>2, <2>1
  <2> QED
    BY <1>1, <1>2, <1>3, <1>4, <2>2 DEF DrainClip
<1>5. CASE ~DrainSpeaks
  <2>1. Coming = pending
    BY <1>2, <1>5 DEF Coming, InVoice, Voiced, DrainSpeaks
  <2> QED
    BY <1>1, <1>3, <1>5, <2>1 DEF DrainClip
<1> QED
  BY <1>4, <1>5

-----------------------------------------------------------------------------
\* How a stream goes on.

LEMMA HandsOver == SpeechInv /\ OnSpeak => turn.live /\ ~turn'.live
BY OverType, TypeParts DEF OnSpeak, SpeechInv

LEMMA StaysAlone ==
  ASSUME SpeechInv, [Next]_vars, NEW n \in Turn, Alone(n), OnSpeak => n = turn.n
  PROVE  Alone(n)'
BY SpeakingStep DEF Alone

\* An unbroken stream: each of the drain's steps gives the player what is due.
LEMMA AsideStreams ==
  ASSUME SpeechInv, BufferInv, [Next]_vars, Aside,
         NEW n \in Turn, NEW d \in Nat, NEW t \in Seq(STRING), NEW at \in Nat,
         Streams(n, d, t, at)
  PROVE  Streams(n, d, t, at)' /\ open' = open /\ spoken' = spoken
<1>1. /\ at <= Len(t)
      /\ Len(raw) = at /\ \A i \in 1 .. at : raw[i] = Sentence(n, d, i, t[i])
      /\ Hears(n) /\ Alone(n)
  BY DEF Streams
<1>0. PICK old \in 0 .. Len(said[n]) : \E known \in 0 .. old :
        Tells(said[n], d, t, old, known)
        /\ (Opened(n, d, t, at, old, known) \/ Unopened(n, at, old, known))
  BY DEF Streams
<1>2. PICK known \in 0 .. old :
        Tells(said[n], d, t, old, known)
        /\ (Opened(n, d, t, at, old, known) \/ Unopened(n, at, old, known))
  BY <1>0
<1>3. Alone(n)'
  <2>1. UNCHANGED turn \/ TurnStarts \/ (turn.live /\ turn'.live)
    BY TypeParts DEF Aside, DrainStarts, DrainNext, DrainClip, RetractResumes, KeepDraft, vars,
       SpeechInv, TurnTypes
  <2>2. ~OnSpeak
    BY <2>1, HandsOver DEF TurnStarts
  <2> QED
    BY <1>1, <2>2, StaysAlone
<1>s. /\ said[n] \in Seq(Clips) /\ said \in [Turn -> Seq(Clips)] /\ spoken \in Nat
      /\ raw \in Seq(Sentences) /\ heard \in Seq(Sentences) /\ pending \in Seq(Sentences)
  BY Facts
<1> SUFFICES /\ raw' = raw /\ open' = open /\ spoken' = spoken /\ Hears(n)'
             /\ old \in 0 .. Len(said'[n])
             /\ Tells(said'[n], d, t, old, known)
             /\ Opened(n, d, t, at, old, known)' \/ Unopened(n, at, old, known)'
  BY <1>1, <1>2, <1>3 DEF Streams
<1>q. ASSUME Coming' = Coming, UNCHANGED <<raw, spoken, utter, open, heard, said, cancelled>>
      PROVE  /\ raw' = raw /\ open' = open /\ spoken' = spoken /\ Hears(n)'
             /\ old \in 0 .. Len(said'[n])
             /\ Tells(said'[n], d, t, old, known)
             /\ Opened(n, d, t, at, old, known)' \/ Unopened(n, at, old, known)'
  <2>1. /\ raw' = raw /\ open' = open /\ spoken' = spoken /\ utter' = utter /\ heard' = heard
        /\ said' = said /\ cancelled' = cancelled
    BY <1>q
  <2>2. Hears(n)'
    BY <1>1, <2>1 DEF Hears
  <2>3. old \in 0 .. Len(said'[n]) /\ Tells(said'[n], d, t, old, known)
    BY <1>2, <2>1
  <2>4. ASSUME Opened(n, d, t, at, old, known) PROVE Opened(n, d, t, at, old, known)'
    <3>1. open' /\ cancelled' < utter' /\ known < spoken' /\ spoken' <= at
      BY <2>1, <2>4 DEF Opened
    <3>2. Due(Coming', n, d, t, known + Len(said'[n]) - old, spoken')
      BY <1>q, <2>1, <2>4 DEF Opened
    <3> QED
      BY <3>1, <3>2 DEF Opened, Due
  <2>5. ASSUME Unopened(n, at, old, known) PROVE Unopened(n, at, old, known)'
    <3>1. ~open /\ Coming = <<>>
      BY <2>5 DEF Unopened
    <3>2. ~open' /\ Coming' = <<>>
      BY <1>q, <2>1, <3>1
    <3> QED
      BY <2>1, <2>5, <3>2 DEF Unopened
  <2> QED
    BY <1>2, <2>1, <2>2, <2>3, <2>4, <2>5
<1>4. CASE DrainStarts \/ RetractResumes \/ TurnStarts \/ KeepDraft \/ UNCHANGED vars
  <2>1. UNCHANGED <<raw, spoken, utter, open, heard, said, cancelled, pending>>
    BY <1>4 DEF DrainStarts, RetractResumes, TurnStarts, KeepDraft, vars, bufVars, queueVars, pastVars
  <2>2. InVoice' = InVoice
    <3>1. CASE DrainStarts
      <4>1. drain.st = "new" /\ drain'.st = "line"
        BY <3>1, TypeParts DEF DrainStarts, SpeechInv, TaskTypes
      <4> QED
        BY <4>1 DEF InVoice, Voiced
    <3>2. CASE ~DrainStarts
      <4>1. drain' = drain
        BY <1>4, <3>2 DEF RetractResumes, TurnStarts, KeepDraft, vars, taskVars
      <4> QED
        BY <2>1, <4>1 DEF InVoice, Voiced
    <3> QED
      BY <3>1, <3>2
  <2>3. Coming' = Coming
    BY <2>1, <2>2 DEF Coming
  <2> QED
    BY <2>1, <2>3, <1>q
<1>5. CASE DrainNext
  <2>1. open => cancelled < utter
    BY <1>2 DEF Opened, Unopened
  <2>2. Coming' = Coming /\ UNCHANGED <<bufVars, said, cancelled>>
    BY <1>5, <2>1, DrainNextComing
  <2>3. UNCHANGED <<raw, spoken, utter, open, heard, said, cancelled>>
    BY <2>2 DEF bufVars
  <2> QED
    BY <2>2, <2>3, <1>q
<1>6. CASE DrainClip
  <2>1. UNCHANGED <<raw, spoken, utter, open, pending, cancelled>>
    BY <1>6, DrainClipComing
  <2>2. CASE Coming' = Coming /\ UNCHANGED <<said, heard>>
    BY <2>1, <2>2, <1>q
  <2>3. CASE /\ Coming # <<>> /\ Coming' = Tail(Coming) /\ Head(Coming) = drain.item
             /\ drain.item \in Sentences /\ drain.u \in Nat
             /\ said' = [said EXCEPT ![drain.item.turn] =
                          Append(said[drain.item.turn], Clip(drain.item, drain.u))]
             /\ heard' = Append(heard, drain.item)
    <3> DEFINE p == known + Len(said[n]) - old
               x == Sentence(n, d, p + 1, t[p + 1])
               e == Clip(x, drain.u)
    <3>0. /\ old \in Nat /\ known \in Nat /\ known <= old /\ p \in Nat /\ Len(said[n]) \in Nat
          /\ Len(t) \in Nat /\ old <= Len(said[n])
      BY <1>s
    <3>1. Coming \in Seq(Sentences)
      <4>1. InVoice \in Seq(Sentences)
        BY <2>3, SeqParts DEF InVoice
      <4> QED
        BY <4>1, <1>s, SeqParts DEF Coming
    <3>2. Opened(n, d, t, at, old, known)
      BY <1>2, <2>3 DEF Unopened
    <3>3. /\ open /\ cancelled < utter /\ known < spoken /\ spoken <= at
          /\ Due(Coming, n, d, t, p, spoken)
      BY <3>2 DEF Opened
    <3>4. Head(Coming) = x /\ Due(Tail(Coming), n, d, t, p + 1, spoken) /\ p < spoken
      BY <1>s, <2>3, <3>0, <3>1, <3>3, DueHead
    <3>5. drain.item = x /\ x.turn = n /\ x.text = t[p + 1]
      BY <2>3, <3>4 DEF Sentence
    <3>6. p < Len(t)
      BY <1>1, <1>s, <3>0, <3>3, <3>4
    <3> HIDE DEF p, x
    <3>7. said'[n] = Append(said[n], e)
      BY <2>3, <3>5, <1>s
    <3>8. e \in Clips /\ e.text = t[p + 1]
      <4>1. x \in Sentences /\ drain.u \in Nat
        BY <2>3, <3>5
      <4>2. e \in Clips
        BY <4>1, ClipType
      <4> QED
        BY <3>5, <4>2 DEF Clip
    <3>9. Tells(said'[n], d, t, old, known)
      BY <1>2, <1>s, <2>3, <3>0, <3>6, <3>7, TellsMore DEF p, x
    <3> HIDE DEF e
    <3>10. Len(said'[n]) = Len(said[n]) + 1 /\ old \in 0 .. Len(said'[n])
      BY <1>s, <3>0, <3>7, <3>8
    <3>11. known + Len(said'[n]) - old = p + 1
      BY <1>s, <3>0, <3>10 DEF p
    <3>12. Opened(n, d, t, at, old, known)'
      <4>1. Due(Coming', n, d, t, known + Len(said'[n]) - old, spoken)
        BY <2>3, <3>4, <3>11
      <4> QED
        BY <2>1, <3>3, <4>1 DEF Opened, Due
    <3>13. Hears(n)'
      <4>1. Len(heard) = Len(said[n]) /\ \A i \in 1 .. Len(heard) : heard[i].turn = n /\ heard[i].text = said[n][i].text
        BY <1>1 DEF Hears
      <4>2. heard' = Append(heard, x) /\ x \in Sentences
        BY <2>3, <3>5
      <4>3. /\ Len(heard') = Len(heard) + 1 /\ heard'[Len(heard) + 1] = x
            /\ \A i \in 1 .. Len(heard) : heard'[i] = heard[i]
        BY <4>2, <1>s
      <4>4. said'[n][Len(said[n]) + 1] = e /\ \A i \in 1 .. Len(said[n]) : said'[n][i] = said[n][i]
        BY <1>s, <3>7, <3>8
      <4>5. ASSUME NEW i \in 1 .. Len(heard')
            PROVE  heard'[i].turn = n /\ heard'[i].text = said'[n][i].text
        <5>1. CASE i = Len(heard) + 1
          BY <5>1, <3>5, <3>8, <4>1, <4>3, <4>4
        <5>2. CASE i # Len(heard) + 1
          <6>1. i \in 1 .. Len(heard)
            BY <4>3, <5>2, <1>s
          <6> QED
            BY <6>1, <4>1, <4>3, <4>4
        <5> QED
          BY <5>1, <5>2
      <4> QED
        BY <3>10, <4>1, <4>3, <4>5 DEF Hears
    <3> QED
      BY <2>1, <3>9, <3>10, <3>12, <3>13
  <2> QED
    BY <1>6, <2>2, <2>3, DrainClipComing
<1> QED
  BY <1>4, <1>5, <1>6 DEF Aside

\* The first word of a reply finds an empty buffer.
LEMMA FreshStreams ==
  ASSUME SpeechInv, BufferInv, NEW n \in Turn, Untold(n), Welcome(n), ~Speaking(n),
         NEW d \in Nat, NEW t \in Seq(STRING)
  PROVE  Streams(n, d, t, 0)
<1>1. said[n] = <<>> /\ raw \in Seq(Others(n)) /\ heard \in Seq(Others(n))
  BY DEF Untold, Absent
<1>2. \A s \in Seq(Others(n)) : (\A i \in 1 .. Len(s) : s[i].turn = n) => s = <<>>
  <2> SUFFICES ASSUME NEW s \in Seq(Others(n)), \A i \in 1 .. Len(s) : s[i].turn = n, s # <<>>
               PROVE  FALSE
    OBVIOUS
  <2>1. 1 \in 1 .. Len(s) /\ s[1] \in Others(n)
    OBVIOUS
  <2> QED
    BY <2>1 DEF Others
<1>3. raw = <<>> /\ heard = <<>> /\ Alone(n)
  BY <1>1, <1>2 DEF Welcome
<1>4. ~open /\ spoken = 0 /\ Coming = <<>>
  <2>1. \A m \in Turn : ~Speaking(m)
    BY <1>3 DEF Alone
  <2>2. ~open /\ spoken = 0 /\ pending = <<>>
    BY <1>3, <2>1 DEF BufferInv
  <2>3. ~Voiced
    BY DEF Untold, Absent, Welcome, Others
  <2> QED
    BY <2>2, <2>3 DEF Coming, InVoice
<1>5. Tells(said[n], d, t, 0, 0) /\ Len(said[n]) = 0
  <2>1. Len(said[n]) = 0 /\ Len(t) \in Nat
    BY <1>1
  <2> QED
    BY <2>1 DEF Tells
<1>6. Unopened(n, 0, 0, 0)
  BY <1>4, <1>5 DEF Unopened
<1>7. Hears(n)
  BY <1>1, <1>3 DEF Hears
<1>8. \E old \in 0 .. Len(said[n]) : \E known \in 0 .. old :
        Tells(said[n], d, t, old, known)
        /\ (Opened(n, d, t, 0, old, known) \/ Unopened(n, 0, old, known))
  <2>1. 0 \in 0 .. Len(said[n]) /\ 0 \in 0 .. 0
    BY <1>5
  <2> QED
    BY <2>1, <1>5, <1>6
<1>9. 0 <= Len(t) /\ Len(raw) = 0
  BY <1>3
<1> QED
  BY <1>3, <1>7, <1>8, <1>9 DEF Streams

\* What _queue_from_buffer makes of a stream, with the text it is given.
LEMMA QueueStreams ==
  ASSUME SpeechInv, [Next]_vars, NEW n \in Turn, NEW d \in Nat, NEW t \in Seq(STRING),
         NEW at \in Nat, Streams(n, d, t, at), OnSpeak => n = turn.n,
         NEW r \in Seq(Sentences), at <= Len(r), Len(r) <= Len(t),
         \A i \in 1 .. Len(r) : r[i] = Sentence(n, d, i, t[i]),
         NEW final \in BOOLEAN, Queue(r, final), EnsureDrain, UNCHANGED <<said, cancelled, heard>>
  PROVE  Streams(n, d, t, Len(r))' /\ (final => spoken' = Len(r)) /\ (open => open')
<1>1. Hears(n) /\ Alone(n)
  BY DEF Streams
<1>2. PICK old \in 0 .. Len(said[n]) : \E known \in 0 .. old :
        Tells(said[n], d, t, old, known)
        /\ (Opened(n, d, t, at, old, known) \/ Unopened(n, at, old, known))
  BY DEF Streams
<1>3. PICK known \in 0 .. old :
        Tells(said[n], d, t, old, known)
        /\ (Opened(n, d, t, at, old, known) \/ Unopened(n, at, old, known))
  BY <1>2
<1>4. /\ Opened(n, d, t, Len(r), old, known)' \/ Unopened(n, Len(r), old, known)'
      /\ raw' = r /\ (final => spoken' = Len(r)) /\ (open => open')
  BY <1>1, <1>3, QueueTells
<1>5. said' = said /\ heard' = heard
  OBVIOUS
<1>6. Hears(n)' /\ Alone(n)'
  BY <1>1, <1>5, StaysAlone DEF Hears
<1>7. old \in 0 .. Len(said'[n]) /\ Tells(said'[n], d, t, old, known)
  BY <1>3, <1>5
<1>8. \E o \in 0 .. Len(said'[n]) : \E k \in 0 .. o :
        Tells(said'[n], d, t, o, k)
        /\ (Opened(n, d, t, Len(r), o, k)' \/ Unopened(n, Len(r), o, k)')
  BY <1>4, <1>7
<1>9. Len(raw') = Len(r) /\ \A i \in 1 .. Len(r) : raw'[i] = Sentence(n, d, i, t[i])
  BY <1>4
<1> QED
  BY <1>4, <1>6, <1>8, <1>9 DEF Streams

\* A kept draft: the text goes on, and what streamed is still its beginning.
LEMMA KeepStreams ==
  ASSUME SpeechInv, NEW n \in Turn, NEW d \in Nat, NEW t \in Seq(STRING), NEW more \in Seq(STRING),
         Streams(n, d, t, Len(t))
  PROVE  Streams(n, d, t \o more, Len(t))
<1> DEFINE c == said[n]
           w == t \o more
<1>1. c \in Seq(Clips) /\ spoken \in Nat /\ Len(c) \in Nat /\ Len(t) \in Nat
  BY Facts
<1>2. /\ w \in Seq(STRING) /\ Len(w) \in Nat /\ Len(t) <= Len(w)
      /\ \A i \in 1 .. Len(t) : w[i] = t[i]
  OBVIOUS
<1> HIDE DEF c, w
<1>3. /\ Len(raw) = Len(t) /\ \A i \in 1 .. Len(t) : raw[i] = Sentence(n, d, i, w[i])
      /\ Hears(n) /\ Alone(n)
  BY <1>2 DEF Streams
<1>4. PICK old \in 0 .. Len(c) : \E known \in 0 .. old :
        Tells(c, d, t, old, known)
        /\ (Opened(n, d, t, Len(t), old, known) \/ Unopened(n, Len(t), old, known))
  BY DEF Streams, c
<1>5. PICK known \in 0 .. old :
        Tells(c, d, t, old, known)
        /\ (Opened(n, d, t, Len(t), old, known) \/ Unopened(n, Len(t), old, known))
  BY <1>4
<1>6. /\ \A i \in 1 .. old : c[i].draft < d
      /\ known <= Len(t) /\ \A i \in 1 .. known : c[i].text = t[i]
      /\ known < old /\ known < Len(t) => c[known + 1].text # t[known + 1]
      /\ Len(c) - old <= Len(t) - known
      /\ \A i \in 1 .. Len(c) - old :
           c[old + i].draft = d /\ c[old + i].pos = known + i /\ c[old + i].text = t[known + i]
  BY <1>5 DEF Tells
<1>7. old \in Nat /\ known \in Nat /\ known <= old /\ old <= Len(c)
  BY <1>1
<1>8. ASSUME known < Len(t) \/ known = old PROVE Tells(c, d, w, old, known)
  <2>1. known <= Len(w) /\ Len(c) - old <= Len(w) - known
    BY <1>1, <1>2, <1>6, <1>7
  <2>2. \A i \in 1 .. known : c[i].text = w[i]
    BY <1>1, <1>2, <1>6, <1>7
  <2>3. known < old /\ known < Len(w) => c[known + 1].text # w[known + 1]
    BY <1>1, <1>2, <1>6, <1>7, <1>8
  <2>4. ASSUME NEW i \in 1 .. Len(c) - old
        PROVE  c[old + i].draft = d /\ c[old + i].pos = known + i /\ c[old + i].text = w[known + i]
    <3>1. known + i \in 1 .. Len(t)
      BY <1>1, <1>6, <1>7
    <3> QED
      BY <1>2, <1>6, <3>1
  <2> QED
    BY <1>6, <2>1, <2>2, <2>3, <2>4 DEF Tells
<1>9. CASE Opened(n, d, t, Len(t), old, known)
  <2>1. /\ open /\ cancelled < utter /\ known < spoken /\ spoken <= Len(t)
        /\ Due(Coming, n, d, t, known + Len(c) - old, spoken)
    BY <1>9 DEF Opened, c
  <2>2. Due(Coming, n, d, w, known + Len(c) - old, spoken)
    <3>1. Len(Coming) = spoken - (known + Len(c) - old)
      BY <2>1 DEF Due
    <3>2. ASSUME NEW i \in 1 .. Len(Coming)
          PROVE  Coming[i] = Sentence(n, d, (known + Len(c) - old) + i, w[(known + Len(c) - old) + i])
      <4>1. (known + Len(c) - old) + i \in 1 .. Len(t)
        BY <1>1, <1>7, <2>1, <3>1
      <4> QED
        BY <1>2, <2>1, <4>1 DEF Due
    <3> QED
      BY <3>1, <3>2 DEF Due
  <2>3. Tells(c, d, w, old, known)
    BY <1>1, <1>7, <1>8, <2>1
  <2>4. Opened(n, d, w, Len(t), old, known)
    BY <2>1, <2>2 DEF Opened, c
  <2> QED
    BY <1>2, <1>3, <2>3, <2>4 DEF Streams, c, w
<1>10. CASE Unopened(n, Len(t), old, known)
  <2>1. /\ ~open /\ Coming = <<>> /\ Len(c) = old
        /\ spoken <= Len(t) /\ spoken <= known /\ (spoken = Len(t) \/ spoken = known)
    BY <1>10 DEF Unopened, c
  <2>2. CASE known < Len(t) \/ known = old
    BY <1>2, <1>3, <1>8, <1>10, <2>2 DEF Streams, c, w
  <2>3. CASE ~(known < Len(t) \/ known = old)
    <3>1. known = Len(t) /\ spoken = Len(t) /\ known < old
      BY <1>1, <1>6, <1>7, <2>1, <2>3
    <3>2. \A i \in 1 .. Len(c) : c[i].draft < d
      BY <1>6, <2>1
    <3>3. PICK k \in 0 .. Len(c) : Tells(c, d, w, Len(c), k)
      BY <1>1, <1>2, <3>2, TellsAnew
    <3>4. known <= k
      <4> SUFFICES ASSUME k < known PROVE FALSE
        BY <1>7
      <4>1. k + 1 \in 1 .. known /\ k < Len(c) /\ k < Len(w)
        BY <1>1, <1>2, <1>7, <2>1, <3>1
      <4>2. c[k + 1].text # w[k + 1]
        BY <3>3, <4>1 DEF Tells
      <4>3. c[k + 1].text = t[k + 1] /\ t[k + 1] = w[k + 1]
        BY <1>2, <1>6, <3>1, <4>1
      <4> QED
        BY <4>2, <4>3
    <3>5. Unopened(n, Len(t), Len(c), k)
      BY <1>1, <1>7, <2>1, <3>1, <3>4 DEF Unopened, c
    <3>6. Len(c) \in 0 .. Len(c)
      BY <1>1
    <3> QED
      BY <1>2, <1>3, <3>3, <3>5, <3>6 DEF Streams, c, w
  <2> QED
    BY <2>2, <2>3
<1> QED
  BY <1>5, <1>9, <1>10

LEMMA DeltaStreams ==
  ASSUME SpeechInv, [Next]_vars, OnDelta, speak, NEW n \in Turn, n = turn.n,
         Streams(n, turn.draft, turn.text, turn.at)
  PROVE  \E d \in Nat : \E t \in Seq(STRING) : \E at \in Nat :
           /\ turn'.draft = d /\ turn'.text = t /\ turn'.at = at
           /\ Streams(n, d, t, at)'
<1>1. PICK d \in Nat : d = turn.draft
  BY Facts
<1>2. PICK t \in Seq(STRING) : t = turn.text
  BY Facts
<1>3. PICK at \in Nat : at = turn.at
  BY Facts
<1> DEFINE x == Sentence(n, d, at + 1, t[at + 1])
           r == Append(raw, x)
<1>4. /\ at < Len(t) /\ turn.live /\ turn' = [turn EXCEPT !.at = at + 1]
      /\ Queue(r, FALSE) /\ EnsureDrain /\ UNCHANGED <<said, cancelled, heard>>
  BY <1>1, <1>2, <1>3 DEF OnDelta
<1>5. Streams(n, d, t, at)
  BY <1>1, <1>2, <1>3
<1>6. Len(raw) = at /\ \A i \in 1 .. at : raw[i] = Sentence(n, d, i, t[i])
  BY <1>5 DEF Streams
<1>7. x \in Sentences
  <2>1. t[at + 1] \in STRING /\ at + 1 \in Nat
    BY <1>4
  <2> QED
    BY <2>1 DEF Sentence, Sentences
<1> HIDE DEF x
<1>8. raw \in Seq(Sentences)
  BY Facts
<1>9. /\ r \in Seq(Sentences) /\ Len(r) = at + 1 /\ r[at + 1] = x
      /\ \A i \in 1 .. at : r[i] = raw[i]
  BY <1>6, <1>7, <1>8
<1> HIDE DEF r
<1>10. \A i \in 1 .. Len(r) : r[i] = Sentence(n, d, i, t[i])
  <2> SUFFICES ASSUME NEW i \in 1 .. Len(r) PROVE r[i] = Sentence(n, d, i, t[i])
    OBVIOUS
  <2>1. CASE i = at + 1
    BY <2>1, <1>9 DEF x
  <2>2. CASE i # at + 1
    <3>1. i \in 1 .. at
      BY <1>9, <2>2
    <3> QED
      BY <3>1, <1>6, <1>9
  <2> QED
    BY <2>1, <2>2
<1>11. at <= Len(r) /\ Len(r) <= Len(t)
  BY <1>4, <1>9
<1>12. PICK s \in Seq(Sentences) : s = r
  BY <1>9
<1>13. /\ at <= Len(s) /\ Len(s) <= Len(t) /\ Len(s) \in Nat /\ Len(s) = at + 1
       /\ \A i \in 1 .. Len(s) : s[i] = Sentence(n, d, i, t[i])
  BY <1>9, <1>10, <1>11, <1>12
<1>14. Streams(n, d, t, Len(s))'
  <2>1. Queue(s, FALSE)
    BY <1>4, <1>12, Zenon
  <2>2. EnsureDrain /\ UNCHANGED <<said, cancelled, heard>> /\ FALSE \in BOOLEAN
    BY <1>4
  <2> QED
    BY <1>5, <1>13, <2>1, <2>2, QueueStreams
<1>15. turn'.draft = d /\ turn'.text = t /\ turn'.at = Len(s)
  BY <1>1, <1>2, <1>3, <1>4, <1>13, TypeParts DEF SpeechInv, TurnTypes
<1> QED
  BY <1>13, <1>14, <1>15

LEMMA RetractStreams ==
  ASSUME SpeechInv, [Next]_vars, OnRetract, speak, NEW n \in Turn, n = turn.n,
         Streams(n, turn.draft, turn.text, turn.at)
  PROVE  \E d \in Nat : \E t \in Seq(STRING) :
           /\ turn'.draft = d /\ turn'.text = t /\ turn'.at = 0
           /\ Streams(n, d, t, 0)'
<1>1. PICK d \in Nat : d = turn.draft
  BY Facts
<1>2. PICK t \in Texts[turn.n] : turn' = [turn EXCEPT !.draft = @ + 1, !.text = t, !.kept = 0, !.at = 0]
  BY DEF OnRetract
<1>3. t \in Seq(STRING)
  <2>1. turn.n \in 1 .. MaxTurns
    BY DEF Turn
  <2> QED
    BY <2>1, SpeechAssumption
<1>4. turn'.draft = d + 1 /\ turn'.text = t /\ turn'.at = 0 /\ d + 1 \in Nat
  BY <1>1, <1>2, TypeParts DEF SpeechInv, TurnTypes
<1>5. /\ raw' = <<>> /\ spoken' = 0 /\ ~open' /\ Coming' = <<>>
      /\ heard' = heard /\ said' = said
  <2>1. Drop /\ heard' = heard /\ said' = said /\ drain' = drain
    BY DEF OnRetract, Withdraw
  <2>2. drain.st = "render" => ~(seq < drain.u)
    <3>1. drain.u <= seq /\ seq \in Nat /\ (drain.st = "render" => drain.u \in Nat)
      BY Facts DEF SpeechInv, NumberInv
    <3> QED
      BY <3>1
  <2>3. ~Voiced'
    BY <2>1, <2>2 DEF Drop, Voiced
  <2> QED
    BY <2>1, <2>3 DEF Drop, Coming, InVoice
<1>6. Hears(n) /\ Alone(n)
  BY DEF Streams
<1>7. Hears(n)' /\ Alone(n)'
  BY <1>5, <1>6, StaysAlone DEF Hears
<1>8. said[n] \in Seq(Clips) /\ Len(said[n]) \in Nat
  BY Facts
<1>9. \A i \in 1 .. Len(said[n]) : said[n][i].draft < d + 1
  <2>1. PICK old \in 0 .. Len(said[n]) : \E known \in 0 .. old : Tells(said[n], d, turn.text, old, known)
    BY <1>1 DEF Streams
  <2>2. ASSUME NEW i \in 1 .. Len(said[n]) PROVE said[n][i].draft < d + 1
    <3>1. CASE i <= old
      <4>1. i \in 1 .. old
        BY <3>1
      <4>2. said[n][i].draft < d
        BY <2>1, <4>1 DEF Tells
      <4>3. said[n][i] \in Clips
        BY <1>8
      <4> QED
        BY <4>2, <4>3 DEF Clips
    <3>2. CASE i > old
      <4>1. i - old \in 1 .. Len(said[n]) - old /\ old + (i - old) = i
        BY <1>8, <3>2
      <4>2. said[n][i].draft = d
        BY <2>1, <4>1 DEF Tells
      <4> QED
        BY <4>2
    <3> QED
      BY <3>1, <3>2
  <2> QED
    BY <2>2
<1>10. PICK known \in 0 .. Len(said[n]) : Tells(said[n], d + 1, t, Len(said[n]), known)
  BY <1>3, <1>4, <1>8, <1>9, TellsAnew
<1>11. Unopened(n, 0, Len(said[n]), known)'
  BY <1>5, <1>8 DEF Unopened
<1>12. \E o \in 0 .. Len(said'[n]) : \E k \in 0 .. o :
         Tells(said'[n], d + 1, t, o, k)
         /\ (Opened(n, d + 1, t, 0, o, k)' \/ Unopened(n, 0, o, k)')
  BY <1>5, <1>8, <1>10, <1>11
<1>13. 0 <= Len(t) /\ Len(raw') = 0
  BY <1>3, <1>5
<1>14. Streams(n, d + 1, t, 0)'
  BY <1>7, <1>12, <1>13 DEF Streams
<1> QED
  BY <1>3, <1>4, <1>14

\* on_speak makes the reply's task: it waits for the drain, or for the lock.
LEMMA SpeakTakes ==
  ASSUME SpeechInv, OnSpeak, speak
  PROVE  /\ \A m \in Turn : m # turn.n => task'[m] = task[m]
         /\ task'[turn.n].draft = turn.draft /\ task'[turn.n].text = turn.text
         /\ task'[turn.n].kept = turn.kept
         /\ task'[turn.n].st = IF open THEN "await" ELSE "line"
         /\ UNCHANGED <<said, heard, cancelled, speak>>
         /\ turn.live /\ turn.n \in Turn /\ turn.at \in {0, Len(turn.text)}
         /\ open => Queue(Answer(turn.n, turn.draft, turn.text, turn.kept), TRUE) /\ EnsureDrain
         /\ ~open => UNCHANGED <<raw, spoken, open, pending, drain>>
<1>a. task \in [Turn -> Tasks] /\ (turn.live => turn.n \in Turn)
  BY TypeParts DEF SpeechInv, TaskTypes, TurnTypes
<1>1. /\ UNCHANGED <<said, heard, cancelled, speak>>
      /\ turn.live /\ turn.n \in Turn /\ turn.at \in {0, Len(turn.text)}
  BY <1>a DEF OnSpeak
<1>2. /\ open => /\ Queue(Answer(turn.n, turn.draft, turn.text, turn.kept), TRUE) /\ EnsureDrain
                 /\ task' = [task EXCEPT ![turn.n] = Job("await", utter')]
      /\ ~open => /\ UNCHANGED <<raw, spoken, open, pending, drain>>
                  /\ task' = [task EXCEPT ![turn.n] = Job("line", 0)]
  BY DEF OnSpeak
<1>3. \A st, u : /\ Job(st, u).st = st /\ Job(st, u).draft = turn.draft
                /\ Job(st, u).text = turn.text /\ Job(st, u).kept = turn.kept
  BY DEF Job
<1>4. /\ \A m \in Turn : m # turn.n => task'[m] = task[m]
      /\ task'[turn.n] = IF open THEN Job("await", utter') ELSE Job("line", 0)
  BY <1>a, <1>1, <1>2
<1>5. /\ task'[turn.n].draft = turn.draft /\ task'[turn.n].text = turn.text
      /\ task'[turn.n].kept = turn.kept
      /\ task'[turn.n].st = IF open THEN "await" ELSE "line"
  <2>1. CASE open
    BY <1>3, <1>4, <2>1
  <2>2. CASE ~open
    BY <1>3, <1>4, <2>2
  <2> QED
    BY <2>1, <2>2
<1>6. /\ open => Queue(Answer(turn.n, turn.draft, turn.text, turn.kept), TRUE) /\ EnsureDrain
      /\ ~open => UNCHANGED <<raw, spoken, open, pending, drain>>
  BY <1>2, Zenon
<1> QED
  BY <1>1, <1>4, <1>5, <1>6, Zenon

\* A stream that is handed over becomes a reply that is being spoken.
LEMMA WholeAnswer ==
  ASSUME NEW n \in Turn, NEW d \in Nat, NEW t \in Seq(STRING)
  PROVE  \E r \in Seq(Sentences) :
           /\ r = Answer(n, d, t, 0) /\ Len(r) = Len(t)
           /\ \A i \in 1 .. Len(r) : r[i] = Sentence(n, d, i, t[i])
<1>1. PICK s \in Seq(Sentences) : s = AsSentences(n, d, t)
  <2>1. AsSentences(n, d, t) \in Seq({x \in Sentences : Draft(x) = <<n, d>>})
    BY SentencesType
  <2> QED
    BY <2>1
<1>2. Len(s) = Len(t) /\ \A i \in 1 .. Len(s) : s[i] = Sentence(n, d, i, t[i])
  BY <1>1 DEF AsSentences
<1>3. SubSeq(s, 0 + 1, Len(s)) = s
  OBVIOUS
<1>4. Answer(n, d, t, 0) = SubSeq(s, 0 + 1, Len(s))
  BY <1>1, <1>2 DEF Answer
<1> QED
  BY <1>2, <1>3, <1>4

LEMMA TaskStreams ==
  ASSUME NEW n \in Turn, NEW d \in Nat, NEW t \in Seq(STRING),
         task'[n].draft = d, task'[n].text = t, Streams(n, d, t, Len(t))'
  PROVE  Streams(n, task[n].draft, task[n].text, Len(task[n].text))'
BY DEF Streams, Opened, Unopened, Due

LEMMA SpeakStreams ==
  ASSUME SpeechInv, [Next]_vars, OnSpeak, speak, NEW n \in Turn, n = turn.n, turn.kept = 0,
         NEW at \in Nat, at \in {0, Len(turn.text)}, Streams(n, turn.draft, turn.text, at)
  PROVE  SpokenInOrder(n)'
<1>1. PICK d \in Nat : d = turn.draft
  BY Facts
<1>2. PICK t \in Seq(STRING) : t = turn.text
  BY Facts
<1>3. Streams(n, d, t, at) /\ at <= Len(t) /\ Hears(n) /\ Alone(n)
  BY <1>1, <1>2 DEF Streams
<1>4. /\ task'[n].draft = d /\ task'[n].text = t
      /\ task'[n].st = IF open THEN "await" ELSE "line"
      /\ UNCHANGED <<said, heard, cancelled, speak>>
  BY <1>1, <1>2, SpeakTakes
<1>6. CASE open
  <2>1. PICK r \in Seq(Sentences) :
          /\ r = Answer(n, d, t, 0) /\ Len(r) = Len(t)
          /\ \A i \in 1 .. Len(r) : r[i] = Sentence(n, d, i, t[i])
    BY WholeAnswer
  <2>2. /\ Len(r) = Len(t) /\ Len(r) \in Nat /\ at <= Len(r) /\ Len(r) <= Len(t)
        /\ \A i \in 1 .. Len(r) : r[i] = Sentence(n, d, i, t[i])
    BY <1>3, <2>1
  <2>3. EnsureDrain /\ UNCHANGED <<said, cancelled, heard>> /\ TRUE \in BOOLEAN
    BY <1>4, <1>6, SpeakTakes
  <2>4. Queue(r, TRUE)
    <3>1. Queue(Answer(turn.n, turn.draft, turn.text, turn.kept), TRUE)
      BY <1>6, SpeakTakes
    <3>2. r = Answer(turn.n, turn.draft, turn.text, turn.kept)
      BY <1>1, <1>2, <2>1
    <3> QED
      BY <3>1, <3>2, Zenon
  <2>5. Streams(n, d, t, Len(r))' /\ spoken' = Len(r) /\ open'
    BY <1>3, <1>6, <2>2, <2>3, <2>4, QueueStreams
  <2>6. Streams(n, task[n].draft, task[n].text, Len(task[n].text))'
    <3>1. Streams(n, d, t, Len(t))'
      BY <2>2, <2>5
    <3> QED
      BY <1>4, <3>1, TaskStreams
  <2>7. Awaits(n)'
    BY <1>4, <2>2, <2>5, <2>6 DEF Awaits
  <2> QED
    BY <1>4, <1>6, <2>7 DEF SpokenInOrder, Own
<1>7. CASE ~open
  <2>1. raw' = raw /\ Coming' = Coming /\ ~open' /\ said' = said /\ heard' = heard
    <3>1. raw' = raw /\ pending' = pending /\ ~open' /\ drain' = drain
      BY <1>7, SpeakTakes
    <3> QED
      BY <1>4, <3>1 DEF Coming, InVoice, Voiced
  <2>2. PICK old \in 0 .. Len(said[n]) : \E known \in 0 .. old :
          Tells(said[n], d, t, old, known)
          /\ (Opened(n, d, t, at, old, known) \/ Unopened(n, at, old, known))
    BY <1>3 DEF Streams
  <2>3. PICK known \in 0 .. old : Tells(said[n], d, t, old, known) /\ Unopened(n, at, old, known)
    BY <1>7, <2>2 DEF Opened
  <2>4. old = Len(said[n]) /\ Coming = <<>>
    BY <2>3 DEF Unopened
  <2>5. Hears(n)'
    BY <1>3, <2>1 DEF Hears
  <2>6. \E k \in 0 .. Len(said'[n]) : Tells(said'[n], task'[n].draft, task'[n].text, Len(said'[n]), k)
    BY <1>4, <2>1, <2>3, <2>4
  <2>7. InLine(n)'
    BY <2>1, <2>4, <2>5, <2>6 DEF InLine
  <2> QED
    BY <1>4, <1>7, <2>7 DEF SpokenInOrder, Own
<1> QED
  BY <1>6, <1>7

-----------------------------------------------------------------------------
\* A reply that is being written.

LEMMA NewTurn ==
  ASSUME SpeechInv, [Next]_vars
  PROVE  /\ turn'.n # turn.n => /\ ~turn.live /\ turn'.n = turn.n + 1
                                /\ turn'.at = 0 /\ turn'.draft = 1
         /\ ~OnDelta /\ ~KeepDraft /\ ~OnRetract /\ turn'.live /\ turn'.n = turn.n => turn' = turn
<1>a. TurnTypes
  BY TypeParts DEF SpeechInv
<1>1. CASE TurnStarts
  BY <1>1, <1>a DEF TurnStarts, TurnTypes
<1>2. CASE OnTurnError \/ OnTurnCancel \/ OnSpeak \/ SpeakNothing
  <2>1. turn' = Over
    BY <1>2 DEF OnTurnError, OnTurnCancel, OnSpeak, SpeakNothing
  <2> QED
    BY <2>1, <1>a, OverType
<1>3. CASE OnDelta \/ KeepDraft \/ OnRetract
  BY <1>3, <1>a DEF OnDelta, KeepDraft, OnRetract, TurnTypes
<1>4. CASE ~(\/ TurnStarts \/ OnTurnError \/ OnTurnCancel \/ OnSpeak \/ SpeakNothing
             \/ OnDelta \/ KeepDraft \/ OnRetract)
  BY <1>4 DEF Next, CancelSpeech, LeaveConversation, EnterConversation, DrainStarts, DrainNext,
     DrainClip, DrainFails, RetractResumes, SpeakResumes, WholeStarts, WholeNext, WholeClip,
     WholeFails, vars
<1> QED
  BY <1>1, <1>2, <1>3, <1>4

LEMMA LiveStreams ==
  ASSUME NEW n \in Turn, NEW d \in Nat, NEW t \in Seq(STRING), NEW at \in Nat,
         turn'.draft = d, turn'.text = t, turn'.at = at, Streams(n, d, t, at)'
  PROVE  Streams(n, turn.draft, turn.text, turn.at)'
BY DEF Streams, Opened, Unopened, Due

LEMMA LiveKept ==
  ASSUME SpeechInv, DraftInv, SpokenInv, [Next]_vars, NEW n \in Turn, n \notin excused'
  PROVE  LiveInv(n)'
<1> SUFFICES ASSUME Live(n)', speak'
             PROVE  (Untold(n)' /\ turn'.at = 0 /\ turn'.draft = 1)
                    \/ Streams(n, turn.draft, turn.text, turn.at)'
  BY DEF LiveInv
<1>1. turn'.live /\ turn'.n = n
  BY DEF Live
<1>2. task[n].st # "none" => n <= turn.n /\ (turn.live => n < turn.n)
  BY DEF DraftInv, TaskDrafts
<1>3. turn.n \in Nat /\ n \in Nat
  BY Facts DEF Turn
<1>4. CASE ~Live(n)
  <2>1. turn.n # n
    <3>1. turn.n = n => turn.live
      BY <1>1, TurnStep DEF SpeechInv
    <3> QED
      BY <3>1, <1>4 DEF Live
  <2>2. n = turn.n + 1 /\ turn'.at = 0 /\ turn'.draft = 1
    BY <1>1, <2>1, NewTurn
  <2>3. Untold(n)
    BY <1>3, <2>2 DEF SpokenInv
  <2>4. task[n].st = "none"
    BY <1>2, <1>3, <2>2
  <2>5. Absent(n)' /\ said'[n] = said[n]
    BY <1>4, <2>3, <2>4, AbsentKept, AbsentSaid DEF Untold
  <2> QED
    BY <2>2, <2>3, <2>5 DEF Untold
<1>5. CASE Live(n)
  <2>1. n \in Active /\ turn.live /\ turn.n = n
    BY <1>5 DEF Active, Live
  <2>2. task[n].st = "none"
    BY <1>2, <1>3, <2>1
  <2>3. n \notin excused /\ speak
    BY <2>1, CalmStep
  <2>4. (Untold(n) /\ turn.at = 0 /\ turn.draft = 1) \/ Streams(n, turn.draft, turn.text, turn.at)
    BY <1>5, <2>3 DEF SpokenInv, LiveInv
  <2>5. BufferInv
    BY DEF SpokenInv
  <2>6. CASE OnDelta
    <3>0. OnSpeak => FALSE
      BY <1>1, HandsOver
    <3>1. Streams(n, turn.draft, turn.text, turn.at)
      <4>1. CASE Untold(n) /\ turn.at = 0
        <5>1. Welcome(n)
          <6>1. Meets(turn.n) /\ turn.n = n
            BY <2>1, <2>3, <2>6 DEF OnDelta
          <6> QED
            BY <6>1, <2>1, MeetsNobody
        <5>2. PICK d \in Nat : d = turn.draft
          BY Facts
        <5>3. PICK t \in Seq(STRING) : t = turn.text
          BY Facts
        <5>4. Streams(n, d, t, 0)
          BY <2>2, <2>5, <4>1, <5>1, FreshStreams DEF Speaking
        <5> QED
          BY <4>1, <5>2, <5>3, <5>4
      <4> QED
        BY <2>4, <4>1
    <3>2. \E d \in Nat : \E t \in Seq(STRING) : \E at \in Nat :
            /\ turn'.draft = d /\ turn'.text = t /\ turn'.at = at
            /\ Streams(n, d, t, at)'
      BY <2>1, <2>3, <2>6, <3>1, DeltaStreams
    <3> QED
      BY <3>2, LiveStreams
  <2>7. CASE OnRetract
    <3>1. turn.at > 0
      BY <2>7 DEF OnRetract
    <3>2. Streams(n, turn.draft, turn.text, turn.at)
      BY <2>4, <3>1
    <3>3. \E d \in Nat : \E t \in Seq(STRING) :
           /\ turn'.draft = d /\ turn'.text = t /\ turn'.at = 0
           /\ Streams(n, d, t, 0)'
      BY <2>1, <2>3, <2>7, <3>2, RetractStreams
    <3> QED
      BY <3>3, LiveStreams
  <2>9. CASE KeepDraft
    <3>1. /\ turn.at > 0 /\ turn.at = Len(turn.text) /\ Aside
          /\ \E more \in Texts[n] : turn' = [turn EXCEPT !.text = @ \o more, !.kept = Len(turn.text)]
      BY <2>1, <2>9 DEF KeepDraft, Aside
    <3>2. PICK d \in Nat : d = turn.draft
      BY Facts
    <3>3. PICK t \in Seq(STRING) : t = turn.text
      BY Facts
    <3>4. PICK more \in Texts[n] : turn' = [turn EXCEPT !.text = t \o more, !.kept = Len(t)]
      BY <3>1, <3>3
    <3>5. more \in Seq(STRING)
      BY SpeechAssumption DEF Turn
    <3>6. Streams(n, d, t, Len(t))
      BY <2>4, <3>1, <3>2, <3>3
    <3>7. PICK w \in Seq(STRING) : w = t \o more
      <4>1. t \o more \in Seq(STRING)
        BY <3>5
      <4> QED
        BY <4>1
    <3>8. PICK at \in Nat : at = Len(t)
      OBVIOUS
    <3>9. Streams(n, d, w, at)
      BY <3>5, <3>6, <3>7, <3>8, KeepStreams
    <3>10. Streams(n, d, w, at)'
      BY <2>5, <3>1, <3>9, AsideStreams
    <3>11. turn'.draft = d /\ turn'.text = w /\ turn'.at = at
      BY <3>1, <3>2, <3>3, <3>4, <3>7, <3>8, TypeParts DEF SpeechInv, TurnTypes
    <3> QED
      BY <3>10, <3>11, LiveStreams
  <2>8. CASE ~OnDelta /\ ~KeepDraft /\ ~OnRetract
    <3>0. ~SpeakNothing
      <4>1. SpeakNothing => turn' = Over
        BY DEF SpeakNothing
      <4> QED
        BY <1>1, <4>1, OverType, TypeParts DEF SpeechInv
    <3>1. ~OnSpeak
      BY <1>1, HandsOver
    <3>2. turn' = turn
      BY <1>1, <2>1, <2>8, NewTurn
    <3>3. CASE Untold(n) /\ turn.at = 0 /\ turn.draft = 1
      <4>1. Absent(n)' /\ said'[n] = said[n]
        BY <2>2, <2>8, <3>1, <3>3, AbsentKept, AbsentSaid DEF Untold
      <4> QED
        BY <3>2, <3>3, <4>1 DEF Untold
    <3>4. CASE Streams(n, turn.draft, turn.text, turn.at)
      <4>1. Aside \/ \E m \in Turn : Works(m)
        BY <2>1, <2>8, <3>0, <3>1, CalmStep
      <4>2. ~\E m \in Turn : Works(m)
        <5>1. \A m \in Turn : Works(m) => Speaking(m)
          BY DEF Works, SpeakResumes, WholeStarts, WholeNext, WholeClip, Speaking
        <5>2. \A m \in Turn \ {n} : ~Speaking(m)
          BY <3>4 DEF Streams, Alone
        <5> QED
          BY <2>2, <5>1, <5>2 DEF Speaking
      <4>3. PICK d \in Nat : d = turn.draft
        BY Facts
      <4>4. PICK t \in Seq(STRING) : t = turn.text
        BY Facts
      <4>5. PICK at \in Nat : at = turn.at
        BY Facts
      <4>6. Streams(n, d, t, at)
        BY <3>4, <4>3, <4>4, <4>5
      <4>7. Streams(n, d, t, at)'
        BY <2>5, <4>1, <4>2, <4>6, AsideStreams
      <4> QED
        BY <3>2, <4>3, <4>4, <4>5, <4>7, LiveStreams
    <3> QED
      BY <2>4, <3>3, <3>4
  <2> QED
    BY <2>6, <2>7, <2>8, <2>9
<1> QED
  BY <1>4, <1>5

-----------------------------------------------------------------------------
\* A reply that is being spoken.

\* Only the drain and its own task move a reply that keeps its good fortune.
LEMMA SpokenStep ==
  ASSUME SpeechInv, DraftInv, SpokenInv, [Next]_vars, NEW n \in Turn, n \notin excused', Speaking(n)
  PROVE  /\ TaskInv(n) /\ BufferInv /\ speak' /\ Alone(n)' /\ ~OnDelta /\ ~OnSpeak /\ ~SpeakNothing
         /\ Aside \/ Works(n)
<1>1. n \in Active
  BY DEF Active
<1>2. turn.live => n < turn.n
  BY DEF DraftInv, TaskDrafts, Speaking
<1>3. turn.live => n # turn.n
  BY <1>2, Facts DEF Turn
<1>4. n \notin excused /\ speak' = speak
  BY <1>1, CalmStep
<1>5. TaskInv(n) /\ BufferInv /\ speak /\ Alone(n)
  BY <1>4 DEF SpokenInv, TaskInv
<1>6. ~OnDelta /\ ~OnSpeak /\ ~OnRetract /\ ~SpeakNothing
  <2>1. OnDelta \/ OnSpeak => turn.live /\ Meets(turn.n)
    BY <1>5 DEF OnDelta, OnSpeak
  <2>2. OnRetract => turn.live /\ n = turn.n
    BY <1>1 DEF OnRetract
  <2>3. SpeakNothing => turn.live /\ Welcome(n)
    <3>1. SpeakNothing => turn.live /\ (Meets(turn.n) \/ excused' = excused \cup Active)
      BY DEF SpeakNothing
    <3> QED
      BY <1>1, <3>1, MeetsNobody
  <2> QED
    BY <1>1, <1>3, <2>1, <2>2, <2>3, MeetsNobody DEF Welcome
<1>7. Aside \/ \E m \in Turn : Works(m)
  BY <1>1, <1>6, CalmStep
<1>8. \A m \in Turn : Works(m) => m = n
  <2>1. \A m \in Turn : Works(m) => Speaking(m)
    BY DEF Works, SpeakResumes, WholeStarts, WholeNext, WholeClip, Speaking
  <2> QED
    BY <1>5, <2>1 DEF Alone
<1>9. Alone(n)'
  BY <1>5, <1>6, StaysAlone
<1> QED
  BY <1>4, <1>5, <1>6, <1>7, <1>8, <1>9

\* The drain ends for those who wait for it, and for nobody else.
LEMMA AsideTasks ==
  ASSUME SpeechInv, Aside
  PROVE  \A m \in Turn : \/ task'[m] = task[m]
                         \/ /\ DrainNext /\ DrainEnds /\ task[m].st = "await"
                            /\ task'[m].st = "woken" /\ task'[m].draft = task[m].draft
                            /\ task'[m].text = task[m].text /\ task'[m].kept = task[m].kept
<1>a. task \in [Turn -> Tasks]
  BY TypeParts DEF SpeechInv, TaskTypes
<1>1. CASE DrainNext /\ DrainEnds
  <2>1. task' = [n \in Turn |-> IF task[n].st = "await" THEN [task[n] EXCEPT !.st = "woken"]
                                                       ELSE task[n]]
    BY <1>1 DEF DrainEnds
  <2> QED
    BY <1>1, <2>1, <1>a DEF Tasks
<1>2. CASE ~(DrainNext /\ DrainEnds)
  <2>1. UNCHANGED task
    BY <1>2 DEF Aside, DrainStarts, DrainNext, DrainClip, RetractResumes, TurnStarts, KeepDraft, vars,
       taskVars
  <2> QED
    BY <2>1
<1> QED
  BY <1>1, <1>2

\* With the stream closed and the queue empty the drain publishes nothing.
LEMMA AsideQuiet ==
  ASSUME SpeechInv, BufferInv, Aside, ~open, Coming = <<>>
  PROVE  ~open' /\ Coming' = <<>> /\ UNCHANGED <<heard, said, cancelled>>
<1>1. pending = <<>> /\ ~Voiced
  BY NothingComing
<1>2. CASE DrainNext
  BY <1>2, DrainNextComing DEF bufVars
<1>3. CASE DrainClip
  BY <1>3, DrainClipComing
<1>4. CASE DrainStarts \/ RetractResumes \/ TurnStarts \/ KeepDraft \/ UNCHANGED vars
  <2>1. UNCHANGED <<open, pending, heard, said, cancelled>>
    BY <1>4 DEF DrainStarts, RetractResumes, TurnStarts, KeepDraft, vars, bufVars, queueVars, pastVars
  <2>2. ~Voiced'
    <3>1. CASE DrainStarts
      <4>1. drain'.st = "line"
        BY <3>1, TypeParts DEF DrainStarts, SpeechInv, TaskTypes
      <4> QED
        BY <4>1 DEF Voiced
    <3>2. CASE ~DrainStarts
      <4>1. drain' = drain
        BY <1>4, <3>2 DEF RetractResumes, TurnStarts, KeepDraft, vars, taskVars
      <4> QED
        BY <1>1, <2>1, <4>1 DEF Voiced
    <3> QED
      BY <3>1, <3>2
  <2> QED
    BY <1>1, <2>1, <2>2 DEF Coming, InVoice
<1> QED
  BY <1>2, <1>3, <1>4 DEF Aside

\* What has been told stays told as long as no clip comes.
LEMMA ToldKept ==
  ASSUME NEW n \in Turn, NEW d, NEW t, NEW p, Told(n, d, t, p), said'[n] = said[n]
  PROVE  Told(n, d, t, p)'
BY DEF Told

LEMMA AwaitKept ==
  ASSUME SpeechInv, DraftInv, SpokenInv, [Next]_vars, NEW n \in Turn, n \notin excused',
         task[n].st = "await", task[n].kept = 0
  PROVE  SpokenInOrder(n)'
<1>1. /\ TaskInv(n) /\ BufferInv /\ speak' /\ Alone(n)' /\ (Aside \/ Works(n)) /\ Speaking(n)
  BY SpokenStep DEF Speaking
<1>2. Aside
  BY <1>1 DEF Works, SpeakResumes, WholeStarts, WholeNext, WholeClip
<1>3. PICK d \in Nat : d = task[n].draft
  BY Facts
<1>4. PICK t \in Seq(STRING) : t = task[n].text
  BY Facts
<1>5. open /\ spoken = Len(t) /\ Streams(n, d, t, Len(t)) /\ Len(t) \in Nat
  BY <1>1, <1>3, <1>4 DEF TaskInv, SpokenInOrder, Awaits
<1>6. Streams(n, d, t, Len(t))' /\ open' = open /\ spoken' = spoken
  BY <1>1, <1>2, <1>5, AsideStreams
<1>7. CASE task'[n] = task[n]
  <2>1. Streams(n, task[n].draft, task[n].text, Len(task[n].text))'
    <3>1. task'[n].draft = d /\ task'[n].text = t
      BY <1>3, <1>4, <1>7
    <3> QED
      BY <1>6, <3>1, TaskStreams
  <2>2. Awaits(n)'
    BY <1>4, <1>5, <1>6, <1>7, <2>1 DEF Awaits
  <2> QED
    BY <1>1, <1>7, <2>2 DEF SpokenInOrder, Own
<1>8. CASE /\ DrainNext /\ DrainEnds /\ task'[n].st = "woken"
           /\ task'[n].draft = task[n].draft /\ task'[n].text = task[n].text
  <2>1. PICK old \in 0 .. Len(said[n]) : \E known \in 0 .. old :
          Tells(said[n], d, t, old, known)
          /\ (Opened(n, d, t, Len(t), old, known) \/ Unopened(n, Len(t), old, known))
    BY <1>5 DEF Streams
  <2>2. PICK known \in 0 .. old : Tells(said[n], d, t, old, known) /\ Opened(n, d, t, Len(t), old, known)
    BY <1>5, <2>1 DEF Unopened
  <2>3. cancelled < utter /\ Due(Coming, n, d, t, known + Len(said[n]) - old, Len(t))
    BY <1>5, <2>2 DEF Opened
  <2>4. pending = <<>> /\ Coming = <<>> /\ said' = said
    BY <1>1, <1>8, <2>3, DrainNextComing
  <2>5. Len(t) = known + Len(said[n]) - old
    <3>1. 0 = Len(t) - (known + Len(said[n]) - old) /\ Len(said[n]) \in Nat
      BY <2>3, <2>4, Facts DEF Due
    <3> QED
      BY <3>1, <1>5
  <2>6. Told(n, d, t, Len(t))
    BY <2>2, <2>5 DEF Told
  <2>7. Told(n, d, t, Len(t))'
    BY <2>4, <2>6, ToldKept
  <2>8. ToldAll(n)'
    BY <1>3, <1>4, <1>8, <2>7 DEF ToldAll, Told
  <2>9. pending' = <<>>
    BY <1>8, <2>4 DEF DrainNext
  <2> QED
    BY <1>1, <1>8, <2>8, <2>9 DEF SpokenInOrder, Own
<1> QED
  BY <1>2, <1>7, <1>8, AsideTasks

\* Who lets go of the stream leaves nothing behind.
LEMMA ResetAbsent ==
  ASSUME Reset, NEW n \in Turn, drain' = drain, drain.st # "render"
  PROVE  Absent(n)'
<1>1. raw' = <<>> /\ heard' = <<>> /\ pending' = <<>> /\ drain'.st # "render"
  BY DEF Reset
<1> QED
  BY <1>1, SeqParts DEF Absent, Voiced

LEMMA WokenKept ==
  ASSUME SpeechInv, DraftInv, SpokenInv, [Next]_vars, NEW n \in Turn, n \notin excused',
         task[n].st = "woken", task[n].kept = 0
  PROVE  SpokenInOrder(n)'
<1>a. task \in [Turn -> Tasks]
  BY TypeParts DEF SpeechInv, TaskTypes
<1>1. /\ TaskInv(n) /\ BufferInv /\ speak' /\ Alone(n)' /\ (Aside \/ Works(n)) /\ Speaking(n)
  BY SpokenStep DEF Speaking
<1>2. drain.st \in {"idle", "new"}
  BY DEF SpeechInv, LineInv
<1>3. pending = <<>> /\ ToldAll(n)
  BY <1>1 DEF TaskInv, SpokenInOrder
<1>4. CASE Aside
  <2>1. RetractResumes \/ TurnStarts \/ KeepDraft \/ UNCHANGED vars
    BY <1>1, <1>2, <1>4 DEF Aside, DrainStarts, DrainNext, DrainClip
  <2>2. UNCHANGED <<task, said, pending>>
    BY <2>1 DEF RetractResumes, TurnStarts, KeepDraft, vars, queueVars, pastVars, taskVars
  <2>3. ToldAll(n)'
    BY <1>3, <2>2 DEF ToldAll, Told
  <2> QED
    BY <1>1, <1>3, <2>2, <2>3 DEF SpokenInOrder, Own
<1>5. CASE Works(n)
  <2>1. SpeakResumes(n)
    BY <1>5 DEF Works, WholeStarts, WholeNext, WholeClip
  <2>2. /\ task' = [task EXCEPT ![n].st = "done"] /\ Reset /\ drain' = drain /\ said' = said
    BY <2>1 DEF SpeakResumes, Finish
  <2>3. task'[n].st = "done" /\ task'[n].draft = task[n].draft /\ task'[n].text = task[n].text
    BY <2>2, <1>a DEF Tasks
  <2>4. Absent(n)'
    BY <1>2, <2>2, ResetAbsent
  <2>5. ToldAll(n)'
    BY <1>3, <2>2, <2>3 DEF ToldAll, Told
  <2> QED
    BY <2>3, <2>4, <2>5 DEF SpokenInOrder, Own
<1> QED
  BY <1>1, <1>4, <1>5

LEMMA InLineKept ==
  ASSUME SpeechInv, DraftInv, SpokenInv, [Next]_vars, NEW n \in Turn, n \notin excused',
         task[n].st = "line", task[n].kept = 0
  PROVE  SpokenInOrder(n)'
<1>a. task \in [Turn -> Tasks]
  BY TypeParts DEF SpeechInv, TaskTypes
<1>1. /\ TaskInv(n) /\ BufferInv /\ speak' /\ Alone(n)' /\ (Aside \/ Works(n)) /\ Speaking(n)
  BY SpokenStep DEF Speaking
<1>2. InLine(n)
  BY <1>1 DEF TaskInv, SpokenInOrder
<1>3. ~open /\ Coming = <<>> /\ Hears(n)
  BY <1>2 DEF InLine
<1>4. CASE Aside
  <2>1. ~open' /\ Coming' = <<>> /\ heard' = heard /\ said' = said
    BY <1>1, <1>3, <1>4, AsideQuiet
  <2>2. task'[n] = task[n]
    BY <1>4, AsideTasks
  <2>3. InLine(n)'
    BY <1>2, <2>1, <2>2 DEF InLine, Hears
  <2> QED
    BY <1>1, <2>2, <2>3 DEF SpokenInOrder, Own
<1>5. CASE Works(n)
  <2>1. PICK d \in Nat : d = task[n].draft
    BY Facts
  <2>2. PICK t \in Seq(STRING) : t = task[n].text
    BY Facts
  <2>3. PICK r \in Seq(Sentences) :
          /\ r = Answer(n, d, t, 0) /\ Len(r) = Len(t)
          /\ \A i \in 1 .. Len(r) : r[i] = Sentence(n, d, i, t[i])
    BY WholeAnswer
  <2>4. Len(r) = Len(t) /\ Len(r) \in Nat /\ \A i \in 1 .. Len(r) : r[i] = Sentence(n, d, i, t[i])
    BY <2>3
  <2> DEFINE todo == SubSeq(r, HeardCount(r) + 1, Len(r))
  <2>5. /\ seq' = seq + 1
        /\ task' = [task EXCEPT ![n].st = "whole", ![n].u = seq + 1, ![n].todo = todo]
        /\ open' = open /\ Coming' = Coming /\ cancelled' = cancelled /\ said' = said
    <3>1. WholeStarts(n)
      BY <1>5 DEF Works, SpeakResumes, WholeNext, WholeClip
    <3>2. /\ seq' = seq + 1
          /\ open' = open /\ Coming' = Coming /\ cancelled' = cancelled /\ said' = said
      BY <3>1 DEF WholeStarts, bufVars, pastVars, Coming, InVoice, Voiced
    <3>3. task' = [task EXCEPT ![n].st = "whole", ![n].u = seq + 1, ![n].todo = todo]
      BY <3>1, <2>1, <2>2, <2>3 DEF WholeStarts
    <3> QED
      BY <3>2, <3>3
  <2> HIDE DEF todo
  <2>6. /\ task'[n].st = "whole" /\ task'[n].u = seq + 1 /\ task'[n].todo = todo
        /\ task'[n].draft = d /\ task'[n].text = t
    BY <2>1, <2>2, <2>5, <1>a DEF Tasks
  <2>7. PICK known \in 0 .. Len(said[n]) : Tells(said[n], d, t, Len(said[n]), known)
    BY <1>2, <2>1, <2>2 DEF InLine
  <2>8. said[n] \in Seq(Clips) /\ heard \in Seq(Sentences) /\ Len(said[n]) \in Nat
        /\ Len(said[n]) \in 0 .. Len(said[n])
    BY Facts
  <2>9. known \in Nat /\ known <= Len(t)
    BY <2>7, <2>8 DEF Tells
  <2>10. HeardCount(r) = known
    <3>1. \A i \in 1 .. Len(r) : r[i].text = t[i]
      <4> TAKE i \in 1 .. Len(r)
      <4>1. r[i] = [turn |-> n, draft |-> d, pos |-> i, text |-> t[i]]
        BY <2>4 DEF Sentence
      <4> QED
        BY <4>1
    <3>2. HeardCount(r) = IF Len(r) < known THEN Len(r) ELSE known
      <4>1. Len(r) <= Len(t)
        BY <2>4
      <4>2. PICK old \in 0 .. Len(said[n]) : old = Len(said[n])
        BY <2>8
      <4>3. PICK k \in 0 .. old : k = known /\ Tells(said[n], d, t, old, k)
        BY <2>7, <4>2
      <4>4. Hears(n) /\ said[n] \in Seq(Clips) /\ heard \in Seq(Sentences)
        BY <1>3, <2>8
      <4>5. Tells(said[n], d, t, old, k)
        BY <4>3
      <4>6. /\ HeardCount(r) <= k + Len(said[n]) - old
            /\ old = Len(said[n]) => HeardCount(r) = IF Len(r) < k THEN Len(r) ELSE k
            /\ HeardCount(r) \in Nat
        BY <3>1, <4>1, <4>5, <4>4, CountIs
      <4>7. HeardCount(r) = IF Len(r) < k THEN Len(r) ELSE k
        BY <4>2, <4>6
      <4> QED
        BY <4>3, <4>7
    <3> QED
      BY <2>4, <2>9, <3>2
  <2>11. todo \in Seq(Sentences) /\ Due(todo, n, d, t, known, Len(t))
    <3>1. Due(<<>>, n, d, t, known, known) /\ <<>> \in Seq(Sentences)
      BY <2>9, SeqParts DEF Due
    <3>2. known \in Nat /\ Len(r) \in known .. Len(r)
      BY <2>4, <2>9
    <3>3. Due(<<>> \o SubSeq(r, known + 1, Len(r)), n, d, t, known, Len(r))
      BY <2>4, <3>1, <3>2, DueMore
    <3>4. SubSeq(r, known + 1, Len(r)) \in Seq(Sentences)
      BY <2>4, <2>9, SeqSlice
    <3>5. <<>> \o SubSeq(r, known + 1, Len(r)) = SubSeq(r, known + 1, Len(r))
      BY <3>4
    <3> QED
      BY <2>4, <2>10, <3>3, <3>4, <3>5 DEF todo
  <2>12. Told(n, d, t, known)
    <3>1. known = known + Len(said[n]) - Len(said[n])
      BY <2>8, <2>9
    <3> QED
      BY <2>7, <2>8, <3>1 DEF Told
  <2>13. cancelled' < task'[n].u
    <3>1. cancelled <= seq /\ cancelled \in Nat /\ seq \in Nat
      BY Facts
    <3>2. cancelled' = cancelled /\ task'[n].u = seq + 1
      BY <2>5, <2>6
    <3> QED
      BY <3>1, <3>2
  <2>14. Whole(n)'
    <3>1. Told(n, d, t, known)'
      BY <2>5, <2>12, ToldKept
    <3>2. known \in 0 .. Len(t)
      BY <2>9
    <3>3. Told(n, task[n].draft, task[n].text, known)'
      BY <3>1, <2>6 DEF Told
    <3>4. Due(task'[n].todo, n, task'[n].draft, task'[n].text, known, Len(task'[n].text))
      BY <2>6, <2>11
    <3>5. ~open' /\ Coming' = <<>> /\ known \in 0 .. Len(task'[n].text)
      BY <1>3, <2>5, <2>6, <3>2
    <3> QED
      BY <2>13, <3>3, <3>4, <3>5 DEF Whole, Told, Due
  <2> QED
    BY <1>1, <2>6, <2>14 DEF SpokenInOrder, Own
<1> QED
  BY <1>1, <1>4, <1>5

LEMMA OwnKept ==
  ASSUME SpeechInv, DraftInv, SpokenInv, [Next]_vars, NEW n \in Turn, n \notin excused', Own(n),
         task[n].kept = 0
  PROVE  SpokenInOrder(n)'
<1>a. task \in [Turn -> Tasks]
  BY TypeParts DEF SpeechInv, TaskTypes
<1>1. /\ TaskInv(n) /\ BufferInv /\ speak' /\ Alone(n)' /\ (Aside \/ Works(n)) /\ Speaking(n)
  BY SpokenStep DEF Speaking, Own
<1>2. Whole(n)
  BY <1>1 DEF TaskInv, SpokenInOrder
<1>3. ~open /\ Coming = <<>> /\ cancelled < task[n].u
  BY <1>2 DEF Whole
<1>4. CASE Aside
  <2>1. ~open' /\ Coming' = <<>> /\ said' = said /\ cancelled' = cancelled
    BY <1>1, <1>3, <1>4, AsideQuiet
  <2>2. task'[n] = task[n]
    BY <1>4, AsideTasks DEF Own
  <2>3. Whole(n)'
    <3>1. PICK p \in 0 .. Len(task[n].text) :
            /\ Told(n, task[n].draft, task[n].text, p)
            /\ Due(task[n].todo, n, task[n].draft, task[n].text, p, Len(task[n].text))
      BY <1>2 DEF Whole
    <3>2. Told(n, task[n].draft, task[n].text, p)'
      BY <2>1, <2>2, <3>1 DEF Told
    <3>3. Due(task'[n].todo, n, task'[n].draft, task'[n].text, p, Len(task'[n].text))
      BY <2>2, <3>1
    <3>4. ~open' /\ Coming' = <<>> /\ cancelled' < task'[n].u /\ p \in 0 .. Len(task'[n].text)
      BY <1>3, <2>1, <2>2
    <3> QED
      BY <3>2, <3>3, <3>4 DEF Whole, Told, Due
  <2> QED
    BY <1>1, <2>2, <2>3 DEF SpokenInOrder, Own
<1>5. CASE Works(n)
  <2>1. PICK d \in Nat : d = task[n].draft
    BY Facts
  <2>2. PICK t \in Seq(STRING) : t = task[n].text
    BY Facts
  <2>3. PICK s \in Seq(Sentences) : s = task[n].todo
    BY Facts
  <2>4. PICK p \in 0 .. Len(t) : Told(n, d, t, p) /\ Due(s, n, d, t, p, Len(t))
    BY <1>2, <2>1, <2>2, <2>3 DEF Whole
  <2>5. p \in Nat /\ Len(t) \in Nat /\ p <= Len(t)
    BY <2>2
  <2>6. CASE WholeNext(n) /\ s = <<>>
    <3>1. /\ task' = [task EXCEPT ![n].st = "done"] /\ Reset /\ drain' = drain /\ said' = said
      BY <2>3, <2>6 DEF WholeNext, Finish
    <3>2. task'[n].st = "done" /\ task'[n].draft = d /\ task'[n].text = t
      BY <2>1, <2>2, <3>1, <1>a DEF Tasks
    <3>3. drain.st # "render"
      <4>1. Own(n) => Holds(n)
        BY DEF SpeechInv, LineInv, Own
      <4>2. drain.st = "render" => Holds(0)
        BY DEF SpeechInv, LineInv
      <4> QED
        BY <4>1, <4>2 DEF Holds, Turn
    <3>4. Absent(n)'
      BY <3>1, <3>3, ResetAbsent
    <3>5. p = Len(t)
      BY <2>4, <2>5, <2>6 DEF Due
    <3>6. Told(n, d, t, Len(t))
      BY <2>4, <3>5
    <3>7. ToldAll(n)'
      BY <3>1, <3>2, <3>6 DEF ToldAll, Told
    <3> QED
      BY <3>2, <3>4, <3>7 DEF SpokenInOrder, Own
  <2>7. CASE WholeNext(n) /\ s # <<>>
    <3>1. ~(cancelled >= task[n].u)
      BY <1>3, Facts
    <3>2. /\ task' = [task EXCEPT ![n].st = "render"] /\ said' = said
          /\ open' = open /\ Coming' = Coming /\ cancelled' = cancelled
      BY <2>3, <2>7, <3>1 DEF WholeNext, bufVars, Coming, InVoice, Voiced
    <3>3. /\ task'[n].st = "render" /\ task'[n].draft = d /\ task'[n].text = t
          /\ task'[n].todo = s /\ task'[n].u = task[n].u
      BY <2>1, <2>2, <2>3, <3>2, <1>a DEF Tasks
    <3>4. Whole(n)'
      <4>1. ~open' /\ Coming' = <<>> /\ cancelled' < task'[n].u
        BY <1>3, <3>2, <3>3
      <4>2. Told(n, task[n].draft, task[n].text, p)'
        BY <2>4, <3>2, <3>3 DEF Told
      <4>3. Due(task'[n].todo, n, task'[n].draft, task'[n].text, p, Len(task'[n].text))
        BY <2>4, <3>3
      <4>4. p \in 0 .. Len(task'[n].text)
        BY <3>3
      <4> QED
        BY <4>1, <4>2, <4>3, <4>4 DEF Whole, Told, Due
    <3> QED
      BY <1>1, <3>3, <3>4 DEF SpokenInOrder, Own
  <2>8. CASE WholeClip(n)
    <3>1. /\ task[n].st = "render" /\ task' = [task EXCEPT ![n].st = "whole", ![n].todo = Tail(task[n].todo)]
          /\ said' = [said EXCEPT ![n] = Append(said[n], Clip(Head(task[n].todo), task[n].u))]
          /\ open' = open /\ Coming' = Coming /\ cancelled' = cancelled
      BY <2>8 DEF WholeClip, bufVars, queueVars, Coming, InVoice, Voiced
    <3>2. /\ task'[n].st = "whole" /\ task'[n].draft = d /\ task'[n].text = t
          /\ task'[n].todo = Tail(s) /\ task'[n].u = task[n].u
      BY <2>1, <2>2, <2>3, <3>1, <1>a DEF Tasks
    <3>3. s # <<>>
      BY <2>3, <3>1 DEF SpeechInv, LineInv
    <3>4. /\ Head(s) = Sentence(n, d, p + 1, t[p + 1])
          /\ Due(Tail(s), n, d, t, p + 1, Len(t)) /\ p < Len(t)
      BY <2>4, <2>5, <3>3, DueHead
    <3>5. PICK u \in Nat : u = task[n].u
      BY Facts
    <3>6. PICK old \in 0 .. Len(said[n]) : \E known \in 0 .. old :
            Tells(said[n], d, t, old, known) /\ p = known + Len(said[n]) - old
      BY <2>4 DEF Told
    <3>7. PICK known \in 0 .. old :
            Tells(said[n], d, t, old, known) /\ p = known + Len(said[n]) - old
      BY <3>6
    <3> DEFINE x == Sentence(n, d, p + 1, t[p + 1])
               e == Clip(x, u)
    <3>8. said \in [Turn -> Seq(Clips)] /\ said[n] \in Seq(Clips) /\ Len(said[n]) \in Nat
      BY Facts
    <3>9. e \in Clips
      <4>1. x \in Sentences
        BY <3>3, <3>4, SeqParts
      <4> QED
        BY <4>1, ClipType
    <3>10. said'[n] = Append(said[n], e)
      BY <2>3, <3>1, <3>4, <3>5, <3>8
    <3>11. Tells(said'[n], d, t, old, known)
      <4>1. Tells(Append(said[n], e), d, t, old, known)
        BY <2>5, <3>4, <3>7, <3>8, TellsMore
      <4> QED
        BY <3>10, <4>1
    <3> HIDE DEF x, e
    <3>12. old \in 0 .. Len(said'[n]) /\ p + 1 = known + Len(said'[n]) - old
      <4>1. Len(said'[n]) = Len(said[n]) + 1
        BY <3>8, <3>9, <3>10
      <4> QED
        BY <3>7, <3>8, <4>1
    <3>13. Told(n, d, t, p + 1)'
      BY <3>11, <3>12 DEF Told
    <3>14. Whole(n)'
      <4>1. ~open' /\ Coming' = <<>> /\ cancelled' < task'[n].u
        BY <1>3, <3>1, <3>2
      <4>2. Told(n, task[n].draft, task[n].text, p + 1)'
        BY <3>13, <3>2 DEF Told
      <4>3. Due(task'[n].todo, n, task'[n].draft, task'[n].text, p + 1, Len(task'[n].text))
        BY <3>4, <3>2
      <4>4. p + 1 \in 0 .. Len(task'[n].text)
        BY <2>5, <3>2, <3>4
      <4> QED
        BY <4>1, <4>2, <4>3, <4>4 DEF Whole, Told, Due
    <3> QED
      BY <1>1, <3>2, <3>14 DEF SpokenInOrder, Own
  <2> QED
    BY <1>5, <2>6, <2>7, <2>8 DEF Works, SpeakResumes, WholeStarts, Own
<1> QED
  BY <1>1, <1>4, <1>5

LEMMA DoneKept ==
  ASSUME SpeechInv, DraftInv, SpokenInv, [Next]_vars, NEW n \in Turn, n \notin excused',
         task[n].st = "done", task[n].kept = 0
  PROVE  SpokenInOrder(n)'
<1>1. n \notin excused
  BY ExcusedGrows
<1>2. Absent(n) /\ ToldAll(n)
  BY <1>1 DEF SpokenInv, TaskInv, SpokenInOrder
<1>3. turn.live => n # turn.n
  <2>1. turn.live => n < turn.n
    BY DEF DraftInv, TaskDrafts
  <2> QED
    BY <2>1, Facts DEF Turn
<1>4. task'[n] = task[n]
  <2>1. Same(n) \/ Ends(n) \/ Moves(n) \/ Begins(n) \/ Mutes(n) \/ Enters(n)
    BY TaskStep DEF SpeechInv
  <2> QED
    BY <1>3, <2>1 DEF Same, Ends, Moves, Begins, Mutes, Enters
<1>5. Absent(n)' /\ said'[n] = said[n]
  BY <1>2, <1>3, AbsentKept, AbsentSaid DEF Live
<1>6. ToldAll(n)'
  BY <1>2, <1>4, <1>5 DEF ToldAll, Told
<1> QED
  BY <1>4, <1>5, <1>6 DEF SpokenInOrder, Own

\* A reply with nothing to say has said it.
LEMMA MutedKept ==
  ASSUME SpeechInv, DraftInv, SpokenInv, [Next]_vars, SpeakNothing, NEW n \in Turn,
         n \notin excused', n = turn.n, turn.kept = 0, task[n].st = "none"
  PROVE  SpokenInOrder(n)'
<1>1. /\ turn.live /\ Live(n) /\ n \in Active /\ speak /\ n \notin excused
  BY ExcusedGrows DEF SpeakNothing, Live, Active
<1>2. ~open /\ Answer(n, turn.draft, turn.text, 0) = <<>>
  <2>1. ~(excused' = excused \cup Active)
    BY <1>1
  <2> QED
    BY <2>1 DEF SpeakNothing
<1>3. /\ task'[n].st = "done" /\ task'[n].draft = turn.draft /\ task'[n].text = turn.text
      /\ Reset /\ drain' = drain /\ said' = said /\ cancelled' = cancelled
  BY <1>1, TypeParts DEF SpeakNothing, SpeechInv, TaskTypes, Job
<1>4. PICK d \in Nat : d = turn.draft
  BY Facts
<1>5. PICK t \in Seq(STRING) : t = turn.text
  BY Facts
<1>6. t = <<>>
  <2>1. PICK r \in Seq(Sentences) : r = Answer(n, d, t, 0) /\ Len(r) = Len(t)
    BY WholeAnswer
  <2> QED
    BY <1>2, <1>4, <1>5, <2>1
<1>7. Told(n, d, t, 0) /\ (Voiced => drain.item \in Others(n))
  <2>1. (Untold(n) /\ turn.at = 0) \/ Streams(n, d, t, turn.at)
    BY <1>1, <1>4, <1>5 DEF SpokenInv, LiveInv
  <2>2. CASE Untold(n)
    <3>1. said[n] = <<>> /\ Len(said[n]) = 0 /\ (Voiced => drain.item \in Others(n))
      BY <2>2 DEF Untold, Absent
    <3>2. Tells(said[n], d, t, 0, 0)
      BY <1>6, <3>1 DEF Tells
    <3>3. 0 \in 0 .. Len(said[n]) /\ 0 \in 0 .. 0 /\ 0 = 0 + Len(said[n]) - 0
      BY <3>1
    <3> QED
      BY <3>1, <3>2, <3>3 DEF Told
  <2>3. CASE Streams(n, d, t, turn.at)
    <3>1. PICK old \in 0 .. Len(said[n]) : \E known \in 0 .. old :
            Tells(said[n], d, t, old, known)
            /\ (Opened(n, d, t, turn.at, old, known) \/ Unopened(n, turn.at, old, known))
      BY <2>3 DEF Streams
    <3>2. PICK known \in 0 .. old :
            Tells(said[n], d, t, old, known) /\ Unopened(n, turn.at, old, known)
      BY <1>2, <3>1 DEF Opened
    <3>3. Coming = <<>> /\ Len(said[n]) = old /\ known <= Len(t)
      BY <3>2 DEF Unopened, Tells
    <3>4. known = 0 /\ 0 = known + Len(said[n]) - old
      BY <1>6, <3>3, Facts
    <3>5. Told(n, d, t, 0)
      BY <3>2, <3>4 DEF Told
    <3> QED
      BY <3>3, <3>5, NothingComing
  <2> QED
    BY <2>1, <2>2, <2>3
<1>8. Absent(n)'
  <2>1. Voiced' = Voiced /\ drain' = drain
    BY <1>3 DEF Voiced
  <2>2. raw' = <<>> /\ heard' = <<>> /\ pending' = <<>>
    BY <1>3 DEF Reset
  <2> QED
    BY <1>7, <2>1, <2>2, SeqParts DEF Absent, Others
<1>9. ToldAll(n)'
  <2>1. Told(n, d, t, Len(t))
    BY <1>6, <1>7
  <2> QED
    BY <1>3, <1>4, <1>5, <2>1 DEF ToldAll, Told
<1> QED
  BY <1>3, <1>8, <1>9 DEF SpokenInOrder, Own

\* on_speak takes a reply up.
LEMMA TakenUp ==
  ASSUME SpeechInv, DraftInv, SpokenInv, [Next]_vars, OnSpeak, speak, NEW n \in Turn,
         n \notin excused', n = turn.n, turn.kept = 0, task[n].st = "none"
  PROVE  SpokenInOrder(n)'
<1>1. turn.live /\ turn.at \in {0, Len(turn.text)} /\ n \in Active /\ Live(n)
  BY DEF OnSpeak, Active, Live
<1>2. n \notin excused /\ BufferInv
  BY ExcusedGrows DEF SpokenInv
<1>3. (Untold(n) /\ turn.at = 0) \/ Streams(n, turn.draft, turn.text, turn.at)
  BY <1>1, <1>2 DEF SpokenInv, LiveInv
<1>4. CASE Untold(n) /\ turn.at = 0
  <2>1. Welcome(n)
    <3>1. Meets(turn.n)
      BY DEF OnSpeak
    <3> QED
      BY <1>1, <3>1, MeetsNobody
  <2>2. PICK d \in Nat : d = turn.draft
    BY Facts
  <2>3. PICK t \in Seq(STRING) : t = turn.text
    BY Facts
  <2>4. Streams(n, d, t, 0)
    BY <1>2, <1>4, <2>1, FreshStreams DEF Speaking
  <2>5. Streams(n, turn.draft, turn.text, 0)
    BY <2>2, <2>3, <2>4
  <2>6. 0 \in Nat /\ 0 \in {0, Len(turn.text)}
    OBVIOUS
  <2> QED
    BY <2>5, <2>6, SpeakStreams
<1>5. CASE Streams(n, turn.draft, turn.text, turn.at)
  <2>1. PICK at \in Nat : at = turn.at
    BY Facts
  <2>2. Streams(n, turn.draft, turn.text, at) /\ at \in {0, Len(turn.text)}
    BY <1>1, <1>5, <2>1
  <2> QED
    BY <2>2, SpeakStreams
<1> QED
  BY <1>3, <1>4, <1>5

LEMMA NoneDone ==
  ASSUME SpeechInv, [Next]_vars, ~SpeakNothing, NEW n \in Turn, task[n].st = "none"
  PROVE  task'[n].st # "done"
<1>a. task \in [Turn -> Tasks]
  BY TypeParts DEF SpeechInv, TaskTypes
<1>1. CASE OnSpeak
  <2>1. \/ task' = task
        \/ task' = [task EXCEPT ![turn.n] = Job("await", utter')]
        \/ task' = [task EXCEPT ![turn.n] = Job("line", 0)]
    BY <1>1 DEF OnSpeak
  <2>2. \A st, u : Job(st, u).st = st
    BY DEF Job
  <2>3. task'[n] \in {task[n], Job("await", utter'), Job("line", 0)}
    BY <2>1, <1>a
  <2> QED
    BY <2>2, <2>3
<1>2. CASE ~OnSpeak
  <2>1. CASE DrainNext \/ DrainFails
    <3>1. task' = task \/ task' = [m \in Turn |-> IF task[m].st = "await" THEN [task[m] EXCEPT !.st = "woken"]
                                                                         ELSE task[m]]
      BY <2>1 DEF DrainNext, DrainFails, DrainEnds
    <3> QED
      BY <3>1, <1>a
  <2>2. CASE \E m \in Turn : SpeakResumes(m) \/ WholeStarts(m) \/ WholeNext(m) \/ WholeClip(m)
                             \/ WholeFails(m)
    BY <2>2, <1>a DEF SpeakResumes, WholeStarts, WholeNext, WholeClip, WholeFails, Finish
  <2>3. CASE \/ TurnStarts \/ OnDelta \/ KeepDraft \/ OnRetract \/ OnTurnError \/ OnTurnCancel
             \/ CancelSpeech \/ LeaveConversation \/ EnterConversation \/ DrainStarts \/ DrainClip
             \/ RetractResumes \/ UNCHANGED vars
    BY <2>3 DEF TurnStarts, OnDelta, KeepDraft, OnRetract, OnTurnError, OnTurnCancel, CancelSpeech,
       LeaveConversation, EnterConversation, DrainStarts, DrainClip, RetractResumes, vars, taskVars
  <2> QED
    BY <1>2, <2>1, <2>2, <2>3 DEF Next
<1> QED
  BY <1>1, <1>2

LEMMA NoneKept ==
  ASSUME SpeechInv, DraftInv, SpokenInv, [Next]_vars, NEW n \in Turn, n \notin excused',
         task[n].st = "none", task'[n].kept = 0
  PROVE  SpokenInOrder(n)'
<1>1. CASE OnSpeak /\ speak /\ n = turn.n
  <2>1. turn.kept = 0
    BY <1>1, SpeakTakes
  <2> QED
    BY <1>1, <2>1, TakenUp
<1>2. CASE SpeakNothing /\ n = turn.n
  <2>1. turn.kept = 0
    BY <1>2, TypeParts DEF SpeakNothing, SpeechInv, TaskTypes, Job
  <2> QED
    BY <1>2, <2>1, MutedKept
<1>3. CASE ~(OnSpeak /\ speak /\ n = turn.n) /\ ~(SpeakNothing /\ n = turn.n)
  <2>1. ~Speaking(n)'
    BY <1>3, SpeakingStep DEF Speaking
  <2>2. Same(n) \/ Ends(n) \/ Moves(n) \/ Begins(n) \/ Mutes(n) \/ Enters(n)
    BY TaskStep DEF SpeechInv
  <2>3. ~Mutes(n)
    <3>1. CASE SpeakNothing
      <4>1. turn.live /\ task' = [task EXCEPT ![turn.n] = Job("done", 0)]
        BY <3>1 DEF SpeakNothing
      <4>2. task'[n].st = "none"
        BY <1>3, <3>1, <4>1, TypeParts DEF SpeechInv, TaskTypes
      <4> QED
        BY <4>2 DEF Mutes
    <3>2. CASE ~SpeakNothing
      BY <3>2, NoneDone DEF Mutes
    <3> QED
      BY <3>1, <3>2
  <2>4. task'[n].st = "none"
    BY <2>1, <2>2, <2>3 DEF Same, Ends, Moves, Begins, Enters, Speaking
  <2> QED
    BY <2>4 DEF SpokenInOrder, Own
<1> QED
  BY <1>1, <1>2, <1>3

\* What on_speak was given is not changed under it.
LEMMA KeptStays ==
  ASSUME SpeechInv, DraftInv, [Next]_vars, NEW n \in Turn, task[n].st # "none"
  PROVE  task'[n].kept = task[n].kept
<1>a. task \in [Turn -> Tasks]
  BY TypeParts DEF SpeechInv, TaskTypes
<1>1. CASE OnSpeak \/ SpeakNothing
  <2>1. turn.live /\ (task' = task \/ \E r : task' = [task EXCEPT ![turn.n] = r])
    BY <1>1 DEF OnSpeak, SpeakNothing
  <2>2. turn.live => n < turn.n
    BY DEF DraftInv, TaskDrafts
  <2>3. n # turn.n
    BY <2>1, <2>2, Facts DEF Turn
  <2> QED
    BY <1>a, <2>1, <2>3
<1>2. CASE DrainNext \/ DrainFails
  <2>1. task' = task \/ task' = [m \in Turn |-> IF task[m].st = "await" THEN [task[m] EXCEPT !.st = "woken"]
                                                                       ELSE task[m]]
    BY <1>2 DEF DrainNext, DrainFails, DrainEnds
  <2> QED
    BY <2>1, <1>a DEF Tasks
<1>3. CASE \E m \in Turn : SpeakResumes(m) \/ WholeStarts(m) \/ WholeNext(m) \/ WholeClip(m)
                           \/ WholeFails(m)
  <2>1. PICK m \in Turn : SpeakResumes(m) \/ WholeStarts(m) \/ WholeNext(m) \/ WholeClip(m)
                         \/ WholeFails(m)
    BY <1>3
  <2>2. n # m => task'[n] = task[n]
    BY <1>a, <2>1 DEF SpeakResumes, WholeStarts, WholeNext, WholeClip, WholeFails, Finish
  <2>3. task'[m].kept = task[m].kept
    BY <1>a, <2>1 DEF SpeakResumes, WholeStarts, WholeNext, WholeClip, WholeFails, Finish, Tasks
  <2> QED
    BY <2>2, <2>3
<1>4. CASE \/ TurnStarts \/ OnDelta \/ KeepDraft \/ OnRetract \/ OnTurnError \/ OnTurnCancel
           \/ CancelSpeech \/ LeaveConversation \/ EnterConversation \/ DrainStarts \/ DrainClip
           \/ RetractResumes \/ UNCHANGED vars
  BY <1>4 DEF TurnStarts, OnDelta, KeepDraft, OnRetract, OnTurnError, OnTurnCancel, CancelSpeech,
     LeaveConversation, EnterConversation, DrainStarts, DrainClip, RetractResumes, vars, taskVars
<1> QED
  BY <1>1, <1>2, <1>3, <1>4 DEF Next

LEMMA TaskKept ==
  ASSUME SpeechInv, DraftInv, SpokenInv, [Next]_vars, NEW n \in Turn, n \notin excused'
  PROVE  TaskInv(n)'
<1>1. task[n].st \in {"none", "await", "woken", "line", "whole", "render", "done"}
  BY TypeParts DEF SpeechInv, TaskTypes, Tasks
<1>2. ASSUME task'[n].kept = 0 PROVE SpokenInOrder(n)'
  <2>1. CASE task[n].st = "none"
    BY <1>2, <2>1, NoneKept
  <2>2. CASE task[n].st # "none"
    <3>1. task[n].kept = 0
      BY <1>2, <2>2, KeptStays
    <3> QED
      BY <1>1, <2>2, <3>1, AwaitKept, WokenKept, InLineKept, OwnKept, DoneKept DEF Own
  <2> QED
    BY <2>1, <2>2
<1>3. ASSUME Speaking(n)' PROVE speak' /\ Alone(n)'
  <2>1. CASE Speaking(n)
    BY <2>1, SpokenStep
  <2>2. CASE OnSpeak /\ speak /\ n = turn.n
    <3>1. Welcome(n) /\ speak' = speak
      <4>1. turn.live /\ Meets(turn.n) /\ speak' = speak
        BY <2>2 DEF OnSpeak
      <4>2. n \in Active
        BY <2>2, <4>1 DEF Active, Live
      <4> QED
        BY <4>1, <4>2, MeetsNobody
    <3> QED
      BY <2>2, <3>1, StaysAlone DEF Welcome
  <2> QED
    BY <1>3, <2>1, <2>2, SpeakingStep
<1> QED
  BY <1>2, <1>3 DEF TaskInv

\* A reply to come has no word anywhere.
LEMMA UpcomingKept ==
  ASSUME SpeechInv, DraftInv, SpokenInv, [Next]_vars, NEW n \in Turn, n > turn'.n
  PROVE  Untold(n)'
<1>1. turn.n \in Nat /\ n \in Nat
  BY Facts DEF Turn
<1>2. n > turn.n
  <2>1. turn'.n = turn.n \/ turn'.n = turn.n + 1
    BY TurnStep DEF SpeechInv
  <2> QED
    BY <1>1, <2>1
<1>3. Untold(n)
  BY <1>2 DEF SpokenInv
<1>4. task[n].st # "none" => n <= turn.n
  BY DEF DraftInv, TaskDrafts
<1>5. task[n].st = "none" /\ ~Live(n)
  BY <1>1, <1>2, <1>4 DEF Live
<1> QED
  BY <1>3, <1>5, AbsentKept, AbsentSaid DEF Untold

LEMMA InitSpoken == Init => SpokenInv
<1> SUFFICES ASSUME Init PROVE SpokenInv
  OBVIOUS
<1>1. BufferInv
  BY DEF Init, BufferInv
<1>2. drain.st = "idle" /\ ~turn.live /\ \A n \in Turn : task[n].st = "none"
  BY DEF Init, NoDrain, NoTask
<1>3. \A n \in Turn : Untold(n)
  BY <1>2, SeqParts DEF Init, Untold, Absent, Voiced
<1>4. \A n \in Turn : LiveInv(n) /\ TaskInv(n)
  BY <1>2 DEF LiveInv, Live, TaskInv, SpokenInOrder, Speaking, Own
<1> QED
  BY <1>1, <1>3, <1>4 DEF SpokenInv

LEMMA SpokenInductive == SpeechInv /\ DraftInv /\ SpokenInv /\ [Next]_vars => SpokenInv'
<1> SUFFICES ASSUME SpeechInv, DraftInv, SpokenInv, [Next]_vars PROVE SpokenInv'
  OBVIOUS
<1>1. BufferInv'
  BY BufferInvKept DEF SpokenInv
<1>2. \A n \in Turn : n > turn'.n => Untold(n)'
  BY UpcomingKept
<1>3. \A n \in Turn \ excused' : LiveInv(n)' /\ TaskInv(n)'
  BY LiveKept, TaskKept
<1> QED
  BY <1>1, <1>2, <1>3 DEF SpokenInv

\* A reply that was neither stopped nor failed nor met another one, and kept no
\* draft whose tool never started, is spoken whole when on_speak is done with it: after what the withdrawn drafts had said
\* of the final text, each sentence of the rest has one clip, in the text's order.
THEOREM NothingLeftUnsaid == Spec => []SpokenWhole
<1>1. SpokenInv => SpokenWhole
  BY DEF SpokenInv, TaskInv, SpokenInOrder, ToldAll, Told, SpokenWhole
<1>2. Init => SpeechInv /\ DraftInv /\ SpokenInv
  BY InitSpeech, InitDrafts, InitSpoken
<1>3. SpeechInv /\ DraftInv /\ SpokenInv /\ [Next]_vars => (SpeechInv /\ DraftInv /\ SpokenInv)'
  BY SpeechInductive, DraftsKept, SpokenInductive
<1> QED
  BY <1>1, <1>2, <1>3, PTL DEF Spec

=============================================================================
