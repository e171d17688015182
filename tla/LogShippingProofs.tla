-------------------------- MODULE LogShippingProofs --------------------------
(* Theorems about LogShipping, for any number of events, truncations and     *)
(* crashes.                                                                  *)
EXTENDS LogShipping, FiniteSetTheorems, SequenceTheorems, WellFoundedInduction, TLAPS

-----------------------------------------------------------------------------
(* The inductive invariant. *)

\* The events among the first n units of a sequence.
Before(s, n) == {s[i] : i \in 1..n} \ {EOL}

\* u is what is left of the first q units of s.
RestOf(s, q, u) == u \in Seq(Unit) /\ Len(u) <= q /\ u = SubSeq(s, q - Len(u) + 1, q)

\* The events in a sequence of messages, and in a set of messages on their way.
EventsIn(msgs) == UNION {EventsOf(msgs[i]) : i \in DOMAIN msgs}
OnWay(os)      == UNION {EventsOf(o.line) : o \in os}

\* How many of them are about event n.
CopiesOf(msgs, n)  == Cardinality({i \in DOMAIN msgs : n \in EventsOf(msgs[i])})
CopiesOnWay(os, n) == Cardinality({o \in os : n \in EventsOf(o.line)})

\* Events are logged in their order.
InOrder(s) ==
    \A i \in DOMAIN s : s[i] # EOL => \A j \in 1..(i - 1) : s[j] # EOL => s[j] < s[i]

\* No message is about an event that was logged before one of an earlier message.
MessagesInOrder(msgs) ==
    \A i, j \in DOMAIN msgs : i < j =>
        \A m \in EventsOf(msgs[i]), n \in EventsOf(msgs[j]) : m < n

\* How far this run of the client has come in the event log: it sent nothing of
\* what lies behind.
Reached ==
    IF pc = "send" THEN size - Len(unsent)
    ELSE IF pc = "wait" THEN size - Len(OtherLines(unsent))
    ELSE lastSize

Typed ==
    /\ TypeOK
    /\ IsFiniteSet(orphans)
    /\ wire # NULL => connected
    /\ IF pc = "down" THEN ~connected ELSE connected \/ broke
    /\ unsent # <<>> => pc \in {"send", "wait"}
    /\ pc = "read" => lastSize < size

LogInOrder ==
    /\ InOrder(eventLog)
    /\ \A i \in DOMAIN eventLog : eventLog[i] # EOL => eventLog[i] <= logged

\* The positions lie in the event log, and what is left of the buffer is the
\* part of the event log that ends at the size of this round.
InLog ==
    /\ lastSize <= Len(eventLog)
    /\ offsetFile # NULL => offsetFile <= Len(eventLog)
    /\ pc \in {"read", "send", "wait"} => lastSize <= size /\ size <= Len(eventLog)
    /\ pc \in {"send", "wait"} =>
        RestOf(eventLog, size, unsent) /\ lastSize <= size - Len(unsent)

\* What this run has passed was sent, and so was what lies before the position
\* that is kept for the next.
Sent == EventsIn(archive) \cup OnWay(orphans) \cup OnWay(OnTheWire) \cup lost

PassedIsSent ==
    ~broke /\ registered =>
        /\ offsetFile # NULL => Before(eventLog, offsetFile) \subseteq Sent
        /\ Before(eventLog, lastSize) \subseteq Sent
        /\ Before(eventLog, Reached) \subseteq Sent

\* Each run of the client has sent an event once, the present run only if it
\* has passed it.
Copies(n) == CopiesOf(archive, n) + CopiesOnWay(orphans, n) + CopiesOnWay(OnTheWire, n)

OneCopyPerRun ==
    \A n \in Events :
        Copies(n) <= crashes + (IF pc # "down" /\ n \in Before(eventLog, Reached) THEN 1 ELSE 0)

\* In the first run at most one message is on its way to the archive; what is
\* archived was logged before it, and both lie before what is still to be sent.
FirstRunInOrder ==
    /\ pc = "down" => archive = <<>> /\ wire = NULL /\ orphans = {}
    /\ orphans # {} => ~connected
    /\ \A o, p \in orphans : o = p
    /\ EventsIn(archive) \subseteq Before(eventLog, Reached)
    /\ OnWay(orphans) \cup OnWay(OnTheWire) \subseteq Before(eventLog, Reached)
    /\ \A m \in EventsIn(archive), n \in OnWay(orphans) \cup OnWay(OnTheWire) : m < n
    /\ MessagesInOrder(archive)

ShippingInv ==
    /\ Typed
    /\ LogInOrder
    /\ truncations = 0 => InLog /\ PassedIsSent /\ OneCopyPerRun
    /\ truncations = 0 /\ crashes = 0 => FirstRunInOrder

-----------------------------------------------------------------------------
(* Lemmas about the lines of a buffer.                                       *)

\* A nonempty set of positive naturals below a bound has a least element n: the
\* interval 1..n is minimal for inclusion among the intervals of the set.
LEMMA LeastBelow ==
    ASSUME NEW K \in Nat, NEW S, S \subseteq 1..K, S # {}
    PROVE  \E n \in S : \A m \in S : n <= m
<1>. DEFINE Intervals == {1..n : n \in S}
<1>1. Intervals \subseteq FiniteSubsetsOf(1..K) /\ Intervals # {}
  <2>1. \A n \in S : 1..n \subseteq 1..K /\ IsFiniteSet(1..n)
    BY FS_Interval
  <2>. QED  BY <2>1 DEF FiniteSubsetsOf
<1>2. PICK x \in Intervals :
         \A y \in Intervals : <<y, x>> \notin StrictSubsetOrdering(1..K)
  <2>. HIDE DEF Intervals
  <2>. QED  BY <1>1, WFMin, FS_StrictSubsetOrderingWellFounded
<1>3. PICK n \in S : x = 1..n
  OBVIOUS
<1>4. ASSUME NEW m \in S, m < n  PROVE FALSE
  <2>1. 1..m \subseteq 1..n /\ n \in 1..n /\ n \notin 1..m
    BY <1>4
  <2>2. 1..m \in SUBSET (1..K) /\ 1..n \in SUBSET (1..K)
    OBVIOUS
  <2>3. <<1..m, 1..n>> \in StrictSubsetOrdering(1..K)
    BY <2>1, <2>2 DEF StrictSubsetOrdering
  <2>. QED  BY <1>2, <1>3, <2>3
<1>. QED  BY <1>4

\* The least position of S in a sequence of n elements, or the one behind it.
LEMMA LeastPosition ==
    ASSUME NEW n \in Nat, NEW S, S \subseteq 1..n
    PROVE  LET m == Min(S \cup {n + 1})
           IN  m \in 1..(n + 1) /\ (\A i \in 1..(m - 1) : i \notin S) /\ (m <= n => m \in S)
<1>. DEFINE T == S \cup {n + 1}
<1>1. T \subseteq 1..(n + 1) /\ T # {} /\ n + 1 \in Nat
  OBVIOUS
<1>2. \E x \in T : \A y \in T : x <= y
  <2>. HIDE DEF T
  <2>. QED  BY <1>1, LeastBelow
<1>3. Min(T) \in T /\ \A y \in T : Min(T) <= y
  <2>. HIDE DEF T
  <2>. QED  BY <1>2 DEF Min
<1>. DEFINE m == Min(T)
<1>. HIDE DEF m
<1>4. m \in T /\ \A y \in T : m <= y
  BY <1>3 DEF m
<1>5. m \in 1..(n + 1) /\ (m <= n => m \in S)
  BY <1>4
<1>6. ASSUME NEW i \in 1..(m - 1), i \in S  PROVE FALSE
  BY <1>4, <1>5, <1>6
<1>. QED  BY <1>5, <1>6 DEF m

\* A part of a sequence.
LEMMA PartOfSequence ==
    ASSUME NEW T, NEW s \in Seq(T), NEW a \in 1..(Len(s) + 1), NEW b \in (a - 1)..Len(s)
    PROVE  /\ SubSeq(s, a, b) \in Seq(T)
           /\ Len(SubSeq(s, a, b)) = b - a + 1
           /\ DOMAIN SubSeq(s, a, b) = 1..(b - a + 1)
           /\ \A i \in 1..(b - a + 1) : SubSeq(s, a, b)[i] = s[a + i - 1]
OBVIOUS

\* The end of a part of a sequence is a part of it.
LEMMA EndOfPart ==
    ASSUME NEW T, NEW s \in Seq(T), NEW a \in 1..(Len(s) + 1), NEW b \in (a - 1)..Len(s),
           NEW u, NEW f \in 1..(b - a + 2), NEW v,
           u = SubSeq(s, a, b), v = SubSeq(u, f, Len(u))
    PROVE  /\ v \in Seq(T)
           /\ Len(v) = b - a - f + 2
           /\ v = SubSeq(s, a + f - 1, b)
<1>1. /\ u \in Seq(T) /\ Len(u) = b - a + 1
      /\ \A i \in 1..(b - a + 1) : u[i] = s[a + i - 1]
  BY PartOfSequence
<1>2. a \in Nat /\ b \in Nat /\ f \in Nat
  OBVIOUS
<1>3. /\ v \in Seq(T) /\ Len(v) = Len(u) - f + 1
      /\ \A i \in 1..(Len(u) - f + 1) : v[i] = u[f + i - 1]
  <2>1. f \in 1..(Len(u) + 1) /\ Len(u) \in (f - 1)..Len(u)
    BY <1>1, <1>2
  <2>. QED  BY <1>1, <2>1, PartOfSequence
<1>. DEFINE c == a + f - 1  w == SubSeq(s, c, b)
<1>4. c \in 1..(Len(s) + 1) /\ b \in (c - 1)..Len(s) /\ c \in Nat
  BY <1>2
<1>5. /\ w \in Seq(T) /\ Len(w) = b - c + 1
      /\ \A i \in 1..(b - c + 1) : w[i] = s[c + i - 1]
  <2>. HIDE DEF c
  <2>. QED  BY <1>4, PartOfSequence
<1>. HIDE DEF w
<1>6. Len(v) = Len(w)
  BY <1>1, <1>2, <1>3, <1>5
<1>7. ASSUME NEW i \in 1..Len(v)  PROVE v[i] = w[i]
  <2>. DEFINE j == f + i - 1  k == a + j - 1
  <2>1. i \in 1..(Len(u) - f + 1) /\ i \in 1..(b - c + 1)
    BY <1>1, <1>2, <1>3
  <2>2. j \in 1..(b - a + 1) /\ k = c + i - 1
    BY <1>1, <1>2, <2>1
  <2>3. v[i] = u[j]
    BY <1>3, <2>1
  <2>4. w[i] = s[k]
    <3>. HIDE DEF k, c
    <3>. QED  BY <1>5, <2>1, <2>2
  <2>5. u[j] = s[k]
    <3>. HIDE DEF j
    <3>. QED  BY <1>1, <2>2
  <2>. QED  BY <2>3, <2>4, <2>5
<1>8. v = w
  BY <1>3, <1>5, <1>6, <1>7, SeqEqual
<1>. QED  BY <1>1, <1>2, <1>3, <1>8 DEF w

\* What is left of what is left is left of the whole, and passes on by its events.
LEMMA RestOfRest ==
    ASSUME NEW s \in Seq(Unit), NEW q \in 0..Len(s), NEW u, NEW v,
           RestOf(s, q, u), RestOf(u, Len(u), v)
    PROVE  /\ RestOf(s, q, v)
           /\ Before(s, q - Len(v)) = Before(s, q - Len(u)) \cup Before(u, Len(u) - Len(v))
<1>. DEFINE a == q - Len(u) + 1  f == Len(u) - Len(v) + 1
<1>0. /\ u \in Seq(Unit) /\ Len(u) <= q /\ u = SubSeq(s, a, q)
      /\ v \in Seq(Unit) /\ Len(v) <= Len(u) /\ v = SubSeq(u, f, Len(u))
  BY DEF RestOf
<1>1. /\ a \in 1..(Len(s) + 1) /\ q \in (a - 1)..Len(s) /\ Len(u) = q - a + 1
      /\ a \in Nat /\ q \in Nat /\ f \in Nat /\ Len(u) \in Nat /\ f \in 1..(Len(u) + 1)
      /\ Len(v) \in Nat /\ f - 1 = Len(u) - Len(v)
  BY <1>0
<1>. HIDE DEF a, f
<1>3. f \in 1..(q - a + 2)
  BY <1>1
<1>4. Len(v) = q - a - f + 2 /\ v = SubSeq(s, a + f - 1, q)
  BY <1>0, <1>1, <1>3, EndOfPart
<1>5. q - Len(v) = a + f - 2 /\ q - Len(v) + 1 = a + f - 1 /\ Len(v) <= q
      /\ q - Len(u) = a - 1
  BY <1>0, <1>1, <1>4
<1>6. \A i \in 1..(f - 1) : u[i] = s[a + i - 1]
  <2>1. \A i \in 1..(q - a + 1) : u[i] = s[a + i - 1]
    BY <1>0, <1>1, PartOfSequence
  <2>2. \A i \in 1..(f - 1) : i \in 1..(q - a + 1)
    BY <1>1, <1>3
  <2>. QED  BY <2>1, <2>2
<1>7. {s[i] : i \in 1..(a + f - 2)} = {s[i] : i \in 1..(a - 1)} \cup {u[i] : i \in 1..(f - 1)}
  <2>1. ASSUME NEW i \in 1..(a + f - 2)
        PROVE  s[i] \in {s[j] : j \in 1..(a - 1)} \cup {u[j] : j \in 1..(f - 1)}
    <3>1. i \in 1..(a - 1) \/ (i - a + 1 \in 1..(f - 1) /\ a + (i - a + 1) - 1 = i)
      BY <1>1
    <3>. QED  BY <1>6, <3>1
  <2>2. ASSUME NEW i \in 1..(a - 1)  PROVE s[i] \in {s[j] : j \in 1..(a + f - 2)}
    BY <1>1
  <2>3. ASSUME NEW i \in 1..(f - 1)  PROVE u[i] \in {s[j] : j \in 1..(a + f - 2)}
    <3>1. a + i - 1 \in 1..(a + f - 2)
      BY <1>1
    <3>. QED  BY <1>6, <3>1
  <2>. QED  BY <2>1, <2>2, <2>3
<1>8. Before(s, a + f - 2) = Before(s, a - 1) \cup Before(u, f - 1)
  BY <1>7, Zenon DEF Before
<1>9. RestOf(s, q, v)
  BY <1>0, <1>4, <1>5 DEF RestOf
<1>. QED  BY <1>1, <1>5, <1>8, <1>9

\* The end of a buffer is what is left of it.
LEMMA EndIsRest ==
    ASSUME NEW u \in Seq(Unit), NEW f \in 1..(Len(u) + 1), NEW v, v = SubSeq(u, f, Len(u))
    PROVE  RestOf(u, Len(u), v) /\ Len(v) = Len(u) - f + 1
<1>1. Len(u) \in (f - 1)..Len(u) /\ Len(u) \in Nat /\ f \in Nat
  OBVIOUS
<1>2. v \in Seq(Unit) /\ Len(v) = Len(u) - f + 1
  BY <1>1, PartOfSequence
<1>3. Len(u) - Len(v) + 1 = f /\ Len(v) <= Len(u)
  BY <1>1, <1>2
<1>. QED  BY <1>2, <1>3 DEF RestOf

\* The first line of a buffer, and what follows it.
LEMMA LineTaken ==
    ASSUME NEW buf \in Seq(Unit), buf # <<>>, buf[1] # EOL
    PROVE  /\ FirstLine(buf) \in Seq(Unit \ {EOL})
           /\ RestOf(buf, Len(buf), OtherLines(buf)) /\ Len(OtherLines(buf)) < Len(buf)
           /\ Range(FirstLine(buf)) = Before(buf, Len(buf) - Len(OtherLines(buf)))
<1>. DEFINE n == Len(buf)  S == {i \in DOMAIN buf : buf[i] = EOL}  e == FirstEnd(buf)
<1>1. n \in Nat \ {0} /\ DOMAIN buf = 1..n /\ S \subseteq 1..n /\ 1 \notin S
  OBVIOUS
<1>2. e \in 1..(n + 1) /\ (\A i \in 1..(e - 1) : i \notin S) /\ (e <= n => e \in S)
  <2>. HIDE DEF S
  <2>1. e = Min(S \cup {n + 1})
    BY DEF FirstEnd, S
  <2>. HIDE DEF e, n
  <2>. QED  BY <1>1, <2>1, LeastPosition
<1>3. FirstLine(buf) = SubSeq(buf, 1, e - 1)
  BY DEF FirstLine
<1>4. OtherLines(buf) = SubSeq(buf, e + 1, n)
  BY DEF OtherLines
<1>. HIDE DEF e
<1>5. e # 1 /\ e - 1 \in 0..n /\ e \in Nat /\ e - 1 \in Nat
  BY <1>1, <1>2
<1>6. /\ FirstLine(buf) \in Seq(Unit) /\ DOMAIN FirstLine(buf) = 1..(e - 1)
      /\ Len(FirstLine(buf)) = e - 1
      /\ \A i \in 1..(e - 1) : FirstLine(buf)[i] = buf[i]
  <2>. DEFINE b == e - 1
  <2>1. b \in (1 - 1)..Len(buf) /\ b - 1 + 1 = b /\ 1 \in 1..(Len(buf) + 1)
    BY <1>5
  <2>2. \A i \in 1..b : 1 + i - 1 = i
    OBVIOUS
  <2>3. FirstLine(buf) = SubSeq(buf, 1, b)
    BY <1>3
  <2>. HIDE DEF b, n
  <2>4. /\ SubSeq(buf, 1, b) \in Seq(Unit) /\ Len(SubSeq(buf, 1, b)) = b - 1 + 1
        /\ DOMAIN SubSeq(buf, 1, b) = 1..(b - 1 + 1)
        /\ \A i \in 1..(b - 1 + 1) : SubSeq(buf, 1, b)[i] = buf[1 + i - 1]
    BY <2>1, PartOfSequence
  <2>5. \A i \in 1..b : FirstLine(buf)[i] = buf[i]
    BY <2>1, <2>2, <2>3, <2>4
  <2>. QED  BY <2>1, <2>3, <2>4, <2>5 DEF b
<1>7. \A i \in 1..(e - 1) : buf[i] \in Unit \ {EOL}
  BY <1>1, <1>2
<1>. DEFINE line == FirstLine(buf)
<1>. HIDE DEF line
<1>8. line \in Seq(Unit \ {EOL})
  BY <1>6, <1>7 DEF line
<1>9. Range(line) = {buf[i] : i \in 1..(e - 1)}
  BY <1>6 DEF Range, line
<1>. DEFINE f == IF e <= n THEN e + 1 ELSE n + 1
<1>10. f \in 2..(n + 1) /\ OtherLines(buf) = SubSeq(buf, f, n)
  <2>1. CASE e <= n
    <3>1. f = e + 1 /\ e + 1 \in 2..(n + 1)
      BY <1>1, <1>2, <2>1
    <3>. HIDE DEF f
    <3>. QED  BY <1>4, <3>1
  <2>2. CASE ~(e <= n)
    <3>1. f = n + 1
      BY <2>2, Zenon
    <3>. HIDE DEF f, n
    <3>2. n + 1 \in 2..(n + 1) /\ e = n + 1
      BY <1>1, <1>2, <2>2
    <3>3. SubSeq(buf, e + 1, n) = <<>> /\ SubSeq(buf, n + 1, n) = <<>>
      BY <1>1, <3>2, SubSeqEmpty
    <3>. QED  BY <1>4, <3>1, <3>2, <3>3
  <2>. QED  BY <2>1, <2>2, Zenon
<1>11. {buf[i] : i \in 1..(f - 1)} \ {EOL} = {buf[i] : i \in 1..(e - 1)}
  <2>1. \A i \in 1..(f - 1) : i \in 1..(e - 1) \/ (i = e /\ e <= n)
    BY <1>1, <1>2
  <2>2. \A i \in 1..(e - 1) : i \in 1..(f - 1)
    BY <1>1, <1>2
  <2>3. e <= n => buf[e] = EOL
    BY <1>2
  <2>. HIDE DEF f
  <2>. QED  BY <1>7, <2>1, <2>2, <2>3
<1>. HIDE DEF f
<1>12. Range(line) = Before(buf, f - 1)
  BY <1>9, <1>11 DEF Before
<1>13. f \in 1..(n + 1) /\ f - 1 \in 1..n /\ f \in Nat
  BY <1>1, <1>10
<1>14. RestOf(buf, Len(buf), OtherLines(buf)) /\ Len(OtherLines(buf)) = n - f + 1
  BY <1>10, <1>13, EndIsRest DEF n
<1>15. Len(buf) - Len(OtherLines(buf)) = f - 1 /\ Len(OtherLines(buf)) < Len(buf)
  BY <1>1, <1>13, <1>14 DEF n
<1>. QED  BY <1>8, <1>12, <1>14, <1>15 DEF line

\* The empty lines at the beginning of a buffer.
LEMMA EmptySkipped ==
    ASSUME NEW buf \in Seq(Unit)
    PROVE  /\ SkipEmpty(buf) # <<>> => SkipEmpty(buf)[1] # EOL
           /\ RestOf(buf, Len(buf), SkipEmpty(buf))
           /\ Before(buf, Len(buf) - Len(SkipEmpty(buf))) = {}
<1>. DEFINE n == Len(buf)  S == {i \in DOMAIN buf : buf[i] # EOL}  f == Min(S \cup {n + 1})
<1>1. n \in Nat /\ DOMAIN buf = 1..n /\ S \subseteq 1..n
  OBVIOUS
<1>2. f \in 1..(n + 1) /\ (\A i \in 1..(f - 1) : i \notin S) /\ (f <= n => f \in S)
  <2>. HIDE DEF S, n
  <2>. QED  BY <1>1, LeastPosition
<1>3. SkipEmpty(buf) = SubSeq(buf, f, n)
  BY DEF SkipEmpty
<1>. HIDE DEF f
<1>4. \A i \in 1..(f - 1) : buf[i] = EOL
  BY <1>1, <1>2
<1>5. Before(buf, f - 1) = {}
  BY <1>4 DEF Before
<1>. DEFINE rest == SubSeq(buf, f, n)
<1>6. /\ rest \in Seq(Unit) /\ Len(rest) = n - f + 1
      /\ \A i \in 1..(n - f + 1) : rest[i] = buf[f + i - 1]
  <2>1. n \in (f - 1)..Len(buf) /\ f \in 1..(Len(buf) + 1)
    BY <1>1, <1>2
  <2>. QED  BY <2>1, PartOfSequence
<1>. HIDE DEF rest, S, n
<1>7. ASSUME rest # <<>>  PROVE rest[1] # EOL
  <2>1. n - f + 1 # 0
    BY <1>6, <1>7
  <2>2. 1 \in 1..(n - f + 1) /\ f <= n /\ f + 1 - 1 = f
    BY <1>1, <1>2, <2>1
  <2>3. rest[1] = buf[f] /\ f \in S
    BY <1>2, <1>6, <2>2
  <2>. QED  BY <2>3 DEF S
<1>8. SkipEmpty(buf) = SubSeq(buf, f, Len(buf)) /\ f \in 1..(Len(buf) + 1) /\ f \in Nat
  BY <1>2, <1>3 DEF n
<1>9. RestOf(buf, Len(buf), SkipEmpty(buf)) /\ Len(SkipEmpty(buf)) = Len(buf) - f + 1
  BY <1>8, EndIsRest
<1>10. Len(buf) - Len(SkipEmpty(buf)) = f - 1
  BY <1>8, <1>9
<1>. QED  BY <1>3, <1>5, <1>7, <1>9, <1>10 DEF rest, n
\* Taking the first line off what is left of the event log: what was passed is
\* older than the line, and then the line is passed, too.
LEMMA LineOfLog ==
    ASSUME NEW s \in Seq(Events \cup {EOL}), NEW q \in 0..Len(s), NEW u,
           RestOf(s, q, u), u # <<>>, u[1] # EOL, InOrder(s)
    PROVE  LET v == OtherLines(u)  line == FirstLine(u)
           IN  /\ RestOf(s, q, v) /\ Len(v) < Len(u)
               /\ line \in Line /\ EventsOf(line) = Range(line)
               /\ Before(s, q - Len(v)) = Before(s, q - Len(u)) \cup EventsOf(line)
               /\ \A m \in Before(s, q - Len(u)), n \in EventsOf(line) : m < n
<1>. DEFINE v == OtherLines(u)  line == FirstLine(u)  p == q - Len(u)
<1>0. /\ u \in Seq(Unit) /\ Len(u) <= q /\ u = SubSeq(s, q - Len(u) + 1, q)
      /\ s \in Seq(Unit) /\ Len(u) \in Nat /\ q \in Nat /\ q \in 0..Len(s)
  BY DEF RestOf, Unit
<1>1. /\ line \in Seq(Unit \ {EOL})
      /\ RestOf(u, Len(u), v) /\ Len(v) < Len(u) /\ Len(v) \in Nat
      /\ Range(line) = Before(u, Len(u) - Len(v))
  BY <1>0, LineTaken DEF RestOf
<1>. HIDE DEF v, line
<1>4. /\ RestOf(s, q, v)
      /\ Before(s, q - Len(v)) = Before(s, q - Len(u)) \cup Range(line)
  BY <1>0, <1>1, RestOfRest
<1>5. p \in 0..q /\ p \in Nat /\ \A i \in 1..Len(u) : u[i] = s[p + i] /\ p + i \in 1..q
  <2>. DEFINE a == p + 1
  <2>1. /\ p \in 0..q /\ p \in Nat /\ u = SubSeq(s, a, q) /\ Len(u) = q - p
        /\ a \in 1..(Len(s) + 1) /\ q \in (a - 1)..Len(s) /\ a \in Nat
    BY <1>0
  <2>. HIDE DEF a, p
  <2>2. \A i \in 1..(q - a + 1) : u[i] = s[a + i - 1]
    BY <1>0, <2>1, PartOfSequence
  <2>3. ASSUME NEW i \in 1..Len(u)
        PROVE  i \in 1..(q - a + 1) /\ a + i - 1 = p + i /\ p + i \in 1..q
    BY <1>0, <2>1 DEF a
  <2>. QED  BY <2>1, <2>2, <2>3
<1>. DEFINE k == Len(u) - Len(v)
<1>6. k \in 1..Len(u) /\ k \in Nat /\ Range(line) = Before(u, k)
  BY <1>0, <1>1
<1>. HIDE DEF p, k
<1>7. Range(line) \subseteq Events
  <2>1. ASSUME NEW i \in 1..k  PROVE u[i] \in Events \cup {EOL}
    <3>1. i \in 1..Len(u)
      BY <1>6
    <3>2. p + i \in 1..Len(s) /\ u[i] = s[p + i]
      BY <1>0, <1>5, <3>1
    <3>. QED  BY <3>2
  <2>. QED  BY <1>6, <2>1 DEF Before
<1>8. EventsOf(line) = Range(line) /\ line \in Line
  <2>0. NUL \notin Events
    BY ShippingAssumption DEF Events
  <2>1. EventsOf(line) = Range(line)
    BY <1>7, <2>0 DEF EventsOf
  <2>2. line \in Seq(Events \cup {NUL})
    BY <1>1, ShippingAssumption DEF Unit
  <2>. QED  BY <2>1, <2>2 DEF Line
<1>9. ASSUME NEW m \in Before(s, p), NEW n \in Range(line)  PROVE m < n
  <2>1. PICK j \in 1..p : m = s[j] /\ m # EOL
    BY DEF Before
  <2>2. PICK i \in 1..k : n = u[i] /\ n # EOL
    BY <1>6 DEF Before
  <2>. DEFINE h == p + i
  <2>3. n = s[h] /\ h \in DOMAIN s /\ j \in 1..(h - 1)
    <3>1. i \in 1..Len(u)
      BY <1>6
    <3>2. h \in 1..Len(s) /\ u[i] = s[h]
      BY <1>0, <1>5, <3>1
    <3>3. j \in 1..(h - 1)
      BY <1>5
    <3>. QED  BY <1>0, <2>2, <3>2, <3>3
  <2>. HIDE DEF h
  <2>. QED  BY <2>1, <2>2, <2>3 DEF InOrder
<1>. QED  BY <1>1, <1>4, <1>8, <1>9 DEF v, line, p

\* Skipping empty lines of what is left of the event log.
LEMMA SkipInLog ==
    ASSUME NEW s \in Seq(Unit), NEW q \in 0..Len(s), NEW u, RestOf(s, q, u)
    PROVE  LET v == SkipEmpty(u)
           IN  /\ RestOf(s, q, v) /\ Len(v) <= Len(u)
               /\ v # <<>> => v[1] # EOL
               /\ Before(s, q - Len(v)) = Before(s, q - Len(u))
<1>. DEFINE v == SkipEmpty(u)
<1>1. u \in Seq(Unit)
  BY DEF RestOf
<1>2. /\ v # <<>> => v[1] # EOL
      /\ RestOf(u, Len(u), v) /\ Before(u, Len(u) - Len(v)) = {}
  BY <1>1, EmptySkipped
<1>. HIDE DEF v
<1>3. /\ RestOf(s, q, v)
      /\ Before(s, q - Len(v)) = Before(s, q - Len(u)) \cup Before(u, Len(u) - Len(v))
  BY <1>2, RestOfRest
<1>4. Len(v) <= Len(u)
  BY <1>2 DEF RestOf
<1>. QED  BY <1>2, <1>3, <1>4 DEF v
\* A file that grows keeps what was read from it.
LEMMA LogGrown ==
    ASSUME NEW s \in Seq(Unit), NEW t \in Seq(Unit), Len(s) <= Len(t),
           \A i \in 1..Len(s) : t[i] = s[i]
    PROVE  /\ \A k \in 0..Len(s) : Before(t, k) = Before(s, k)
           /\ \A q \in 0..Len(s) : \A u : RestOf(s, q, u) => RestOf(t, q, u)
<1>1. ASSUME NEW k \in 0..Len(s)  PROVE Before(t, k) = Before(s, k)
  <2>1. \A i \in 1..k : t[i] = s[i]
    OBVIOUS
  <2>. QED  BY <2>1 DEF Before
<1>2. ASSUME NEW q \in 0..Len(s), NEW u, RestOf(s, q, u)  PROVE RestOf(t, q, u)
  <2>. DEFINE a == q - Len(u) + 1
  <2>1. u \in Seq(Unit) /\ Len(u) <= q /\ u = SubSeq(s, a, q) /\ Len(u) \in Nat /\ q \in Nat
    BY <1>2 DEF RestOf
  <2>2. /\ a \in 1..(Len(s) + 1) /\ a \in 1..(Len(t) + 1) /\ a \in Nat
        /\ q \in (a - 1)..Len(s) /\ q \in (a - 1)..Len(t) /\ q <= Len(s)
    BY <2>1
  <2>. HIDE DEF a
  <2>. DEFINE w == SubSeq(t, a, q)
  <2>3. /\ Len(u) = q - a + 1
        /\ \A i \in 1..(q - a + 1) : u[i] = s[a + i - 1]
    BY <2>1, <2>2, PartOfSequence
  <2>4. /\ w \in Seq(Unit) /\ Len(w) = q - a + 1
        /\ \A i \in 1..(q - a + 1) : w[i] = t[a + i - 1]
    BY <2>2, PartOfSequence
  <2>. HIDE DEF w
  <2>5. ASSUME NEW i \in 1..Len(u)  PROVE u[i] = w[i]
    <3>. DEFINE h == a + i - 1
    <3>1. i \in 1..(q - a + 1) /\ h \in 1..Len(s)
      BY <2>1, <2>2, <2>3
    <3>2. u[i] = s[h] /\ w[i] = t[h]
      BY <2>3, <2>4, <3>1
    <3>. HIDE DEF h
    <3>. QED  BY <3>1, <3>2
  <2>6. u = w
    BY <2>1, <2>3, <2>4, <2>5, SeqEqual
  <2>. QED  BY <2>1, <2>6 DEF RestOf, a, w
<1>. QED  BY <1>1, <1>2

\* What Read puts into a buffer of z - l bytes from position l on.
LEMMA BufferRead ==
    ASSUME NEW s \in Seq(Events \cup {EOL}), NEW l \in Nat, NEW z \in Nat, l < Len(s), l < z
    PROVE  LET filled == SubSeq(s, l + 1, Min({z, Len(s)}))
               buf    == filled \o [i \in 1..(z - l - Len(filled)) |-> NUL]
           IN  /\ buf \in Seq(Unit)
               /\ z <= Len(s) => RestOf(s, z, buf) /\ Len(buf) = z - l
<1>. DEFINE n == Len(s)  m == Min({z, n})  filled == SubSeq(s, l + 1, m)
            zeros == [i \in 1..(z - l - Len(filled)) |-> NUL]
<1>1. n \in Nat /\ l < n /\ s \in Seq(Unit)
  BY DEF Unit
<1>2. m \in {z, n} /\ m <= z /\ m <= n
  <2>1. \E x \in {z, n} : \A y \in {z, n} : x <= y
    <3>1. CASE z <= n
      BY <1>1, <3>1
    <3>2. CASE n <= z
      BY <1>1, <3>2
    <3>. QED  BY <1>1, <3>1, <3>2
  <2>. HIDE DEF n
  <2>2. m \in {z, n} /\ \A y \in {z, n} : m <= y
    BY <2>1, Zenon DEF Min
  <2>. HIDE DEF m
  <2>. QED  BY <2>2
<1>3. m \in Nat /\ l < m
  BY <1>1, <1>2
<1>. HIDE DEF m
<1>4. filled \in Seq(Unit) /\ Len(filled) = m - l
  <2>. DEFINE a == l + 1
  <2>1. a \in 1..(Len(s) + 1) /\ m \in (a - 1)..Len(s) /\ m - a + 1 = m - l /\ a \in Nat
    BY <1>1, <1>2, <1>3
  <2>. HIDE DEF a
  <2>2. SubSeq(s, a, m) \in Seq(Unit) /\ Len(SubSeq(s, a, m)) = m - a + 1
    BY <1>1, <2>1, PartOfSequence
  <2>. QED  BY <2>1, <2>2 DEF a
<1>. HIDE DEF filled
<1>5. zeros \in Seq(Unit) /\ Len(zeros) = z - m
  <2>1. z - l - Len(filled) = z - m /\ z - m \in Nat
    BY <1>2, <1>3, <1>4
  <2>. QED  BY <2>1 DEF Unit
<1>6. filled \o zeros \in Seq(Unit)
  <2>. HIDE DEF zeros
  <2>. QED  BY <1>4, <1>5
<1>7. ASSUME z <= n  PROVE RestOf(s, z, filled \o zeros) /\ Len(filled \o zeros) = z - l
  <2>1. m = z
    BY <1>1, <1>2, <1>7
  <2>2. zeros = <<>>
    <3>. HIDE DEF zeros
    <3>. QED  BY <1>3, <1>5, <2>1, EmptySeq
  <2>. HIDE DEF zeros
  <2>3. filled \o zeros = filled
    BY <1>4, <2>2
  <2>4. Len(filled) = z - l /\ z - Len(filled) + 1 = l + 1 /\ Len(filled) <= z
    BY <1>4, <2>1
  <2>. QED  BY <1>4, <2>1, <2>3, <2>4 DEF RestOf, filled
<1>. QED  BY <1>6, <1>7 DEF filled, m, n

-----------------------------------------------------------------------------
(* Lemmas about messages.                                                    *)

\* One more message in the archive.
LEMMA OneMoreArchived ==
    ASSUME NEW msgs \in Seq(Line), NEW line \in Line
    PROVE  /\ Append(msgs, line) \in Seq(Line)
           /\ EventsIn(Append(msgs, line)) = EventsIn(msgs) \cup EventsOf(line)
           /\ \A n : /\ CopiesOf(msgs, n) \in Nat
                     /\ CopiesOf(Append(msgs, line), n) =
                          CopiesOf(msgs, n) + (IF n \in EventsOf(line) THEN 1 ELSE 0)
<1>. DEFINE more == Append(msgs, line)  k == Len(msgs)  last == k + 1
<1>1. /\ more \in Seq(Line) /\ k \in Nat /\ last \in Nat
      /\ DOMAIN msgs = 1..k /\ DOMAIN more = 1..last
      /\ more[last] = line /\ \A i \in 1..k : more[i] = msgs[i]
  OBVIOUS
<1>2. 1..last = 1..k \cup {last} /\ last \notin 1..k
  BY <1>1
<1>. HIDE DEF more, last, k
<1>3. EventsIn(more) = EventsIn(msgs) \cup EventsOf(line)
  BY <1>1, <1>2 DEF EventsIn
<1>4. ASSUME NEW n
      PROVE  /\ CopiesOf(msgs, n) \in Nat
             /\ CopiesOf(more, n) = CopiesOf(msgs, n) + (IF n \in EventsOf(line) THEN 1 ELSE 0)
  <2>. DEFINE A == {i \in DOMAIN msgs : n \in EventsOf(msgs[i])}
              B == {i \in DOMAIN more : n \in EventsOf(more[i])}
  <2>1. IsFiniteSet(A) /\ last \notin A
    <3>1. IsFiniteSet(1..k)
      BY <1>1, FS_Interval
    <3>. QED  BY <1>1, <1>2, <3>1, FS_Subset
  <2>2. B = IF n \in EventsOf(line) THEN A \cup {last} ELSE A
    BY <1>1, <1>2
  <2>. HIDE DEF A, B
  <2>3. Cardinality(A) \in Nat /\ Cardinality(A \cup {last}) = Cardinality(A) + 1
    BY <2>1, FS_CardinalityType, FS_AddElement
  <2>4. Cardinality(B) = Cardinality(A) + (IF n \in EventsOf(line) THEN 1 ELSE 0)
    BY <2>2, <2>3
  <2>. QED  BY <2>3, <2>4 DEF CopiesOf, A, B
<1>. QED  BY <1>1, <1>3, <1>4 DEF more

\* The copies of an event on their way are counted.
LEMMA CopiesCounted ==
    ASSUME NEW os, IsFiniteSet(os), NEW n
    PROVE  CopiesOnWay(os, n) \in Nat
<1>1. IsFiniteSet({o \in os : n \in EventsOf(o.line)})
  BY FS_Subset
<1>. QED  BY <1>1, FS_CardinalityType DEF CopiesOnWay

\* No message, and one message.
LEMMA OneOnWay ==
    ASSUME NEW o
    PROVE  /\ OnWay({}) = {} /\ OnWay({o}) = EventsOf(o.line)
           /\ \A n : /\ CopiesOnWay({}, n) = 0
                     /\ CopiesOnWay({o}, n) = IF n \in EventsOf(o.line) THEN 1 ELSE 0
<1>1. OnWay({}) = {} /\ OnWay({o}) = EventsOf(o.line)
  BY DEF OnWay
<1>2. ASSUME NEW n
      PROVE  /\ CopiesOnWay({}, n) = 0
             /\ CopiesOnWay({o}, n) = IF n \in EventsOf(o.line) THEN 1 ELSE 0
  <2>1. {p \in {} : n \in EventsOf(p.line)} = {}
    OBVIOUS
  <2>2. {p \in {o} : n \in EventsOf(p.line)} = IF n \in EventsOf(o.line) THEN {o} ELSE {}
    OBVIOUS
  <2>3. Cardinality({}) = 0 /\ Cardinality({o}) = 1
    BY FS_EmptySet, FS_Singleton
  <2>. QED  BY <2>1, <2>2, <2>3 DEF CopiesOnWay
<1>. QED  BY <1>1, <1>2

\* Messages that join others on their way.
LEMMA TogetherOnWay ==
    ASSUME NEW os, NEW ps, IsFiniteSet(os), IsFiniteSet(ps)
    PROVE  /\ IsFiniteSet(os \cup ps)
           /\ OnWay(os \cup ps) = OnWay(os) \cup OnWay(ps)
           /\ \A n : CopiesOnWay(os \cup ps, n) <= CopiesOnWay(os, n) + CopiesOnWay(ps, n)
<1>1. IsFiniteSet(os \cup ps)
  BY FS_Union
<1>2. OnWay(os \cup ps) = OnWay(os) \cup OnWay(ps)
  BY DEF OnWay
<1>3. ASSUME NEW n
      PROVE  CopiesOnWay(os \cup ps, n) <= CopiesOnWay(os, n) + CopiesOnWay(ps, n)
  <2>. DEFINE A == {o \in os : n \in EventsOf(o.line)}
              B == {o \in ps : n \in EventsOf(o.line)}
              C == {o \in os \cup ps : n \in EventsOf(o.line)}
  <2>1. IsFiniteSet(A) /\ IsFiniteSet(B) /\ C = A \cup B /\ A \cap B \subseteq A
    BY FS_Subset
  <2>. HIDE DEF A, B, C
  <2>2. /\ Cardinality(A) \in Nat /\ Cardinality(B) \in Nat /\ Cardinality(A \cap B) \in Nat
        /\ Cardinality(C) = Cardinality(A) + Cardinality(B) - Cardinality(A \cap B)
    BY <2>1, FS_Union, FS_Subset, FS_CardinalityType
  <2>3. Cardinality(C) <= Cardinality(A) + Cardinality(B)
    BY <2>2
  <2>. QED  BY <2>3 DEF CopiesOnWay, A, B, C
<1>. QED  BY <1>1, <1>2, <1>3

\* A message that leaves the others.
LEMMA OneLessOnWay ==
    ASSUME NEW os, IsFiniteSet(os), NEW o \in os
    PROVE  /\ IsFiniteSet(os \ {o})
           /\ OnWay(os) = OnWay(os \ {o}) \cup EventsOf(o.line)
           /\ \A n : CopiesOnWay(os, n) =
                        CopiesOnWay(os \ {o}, n) + (IF n \in EventsOf(o.line) THEN 1 ELSE 0)
<1>1. IsFiniteSet(os \ {o})
  BY FS_Subset
<1>2. OnWay(os) = OnWay(os \ {o}) \cup EventsOf(o.line)
  BY DEF OnWay
<1>3. ASSUME NEW n
      PROVE  CopiesOnWay(os, n) =
                CopiesOnWay(os \ {o}, n) + (IF n \in EventsOf(o.line) THEN 1 ELSE 0)
  <2>. DEFINE A == {p \in os \ {o} : n \in EventsOf(p.line)}
              B == {p \in os : n \in EventsOf(p.line)}
  <2>1. IsFiniteSet(A) /\ o \notin A
    BY <1>1, FS_Subset
  <2>2. B = IF n \in EventsOf(o.line) THEN A \cup {o} ELSE A
    OBVIOUS
  <2>. HIDE DEF A, B
  <2>3. Cardinality(A) \in Nat /\ Cardinality(A \cup {o}) = Cardinality(A) + 1
    BY <2>1, FS_CardinalityType, FS_AddElement
  <2>4. Cardinality(B) = Cardinality(A) + (IF n \in EventsOf(o.line) THEN 1 ELSE 0)
    BY <2>2, <2>3
  <2>. QED  BY <2>4 DEF CopiesOnWay, A, B
<1>. QED  BY <1>1, <1>2, <1>3

\* A message that is archived after all older ones keeps the order.
LEMMA OrderKept ==
    ASSUME NEW msgs \in Seq(Line), NEW line \in Line, MessagesInOrder(msgs),
           \A m \in EventsIn(msgs), n \in EventsOf(line) : m < n
    PROVE  MessagesInOrder(Append(msgs, line))
<1>. DEFINE more == Append(msgs, line)  k == Len(msgs)  last == k + 1
<1>1. /\ k \in Nat /\ last \in Nat /\ DOMAIN msgs = 1..k /\ DOMAIN more = 1..last
      /\ more[last] = line /\ \A i \in 1..k : more[i] = msgs[i]
      /\ \A i \in 1..last : i \in 1..k \/ i = last
  OBVIOUS
<1>2. \A i \in 1..k : \A m \in EventsOf(msgs[i]) : m \in EventsIn(msgs)
  BY <1>1 DEF EventsIn
<1>3. \A i, j \in 1..last : i < j => i \in 1..k
  BY <1>1
<1>. HIDE DEF more, last, k
<1>4. ASSUME NEW i \in DOMAIN more, NEW j \in DOMAIN more, i < j,
             NEW m \in EventsOf(more[i]), NEW n \in EventsOf(more[j])
      PROVE  m < n
  <2>1. i \in 1..k /\ more[i] = msgs[i]
    BY <1>1, <1>3, <1>4
  <2>2. CASE j \in 1..k
    BY <1>1, <1>4, <2>1, <2>2 DEF MessagesInOrder
  <2>3. CASE j = last
    BY <1>1, <1>2, <1>4, <2>1, <2>3
  <2>. QED  BY <1>1, <1>4, <2>2, <2>3
<1>5. MessagesInOrder(more)
  BY <1>4 DEF MessagesInOrder
<1>. QED  BY <1>5 DEF more

-----------------------------------------------------------------------------
(* Types and the order of the event log.                                     *)

\* The lines of a buffer have their types.
LEMMA LineTypes ==
    ASSUME NEW buf \in Seq(Unit), buf # <<>> => buf[1] # EOL
    PROVE  /\ buf # <<>> => FirstLine(buf) \in Line /\ OtherLines(buf) \in Seq(Unit)
           /\ SkipEmpty(buf) \in Seq(Unit)
           /\ SkipEmpty(buf) # <<>> => SkipEmpty(buf)[1] # EOL
<1>1. ASSUME buf # <<>>  PROVE FirstLine(buf) \in Line /\ OtherLines(buf) \in Seq(Unit)
  <2>1. FirstLine(buf) \in Seq(Unit \ {EOL}) /\ RestOf(buf, Len(buf), OtherLines(buf))
    BY <1>1, LineTaken
  <2>2. FirstLine(buf) \in Seq(Events \cup {NUL})
    BY <2>1 DEF Unit
  <2>. QED  BY <2>1, <2>2 DEF RestOf, Line
<1>2. SkipEmpty(buf) \in Seq(Unit) /\ (SkipEmpty(buf) # <<>> => SkipEmpty(buf)[1] # EOL)
  BY EmptySkipped DEF RestOf
<1>. QED  BY <1>1, <1>2

\* A line that is logged comes after the others.
LEMMA OneMoreLogged ==
    ASSUME NEW s \in Seq(Events \cup {EOL}), NEW n \in Events, InOrder(s),
           \A i \in DOMAIN s : s[i] # EOL => s[i] < n,
           NEW t \in {s \o <<n, EOL>>, Append(s, n)}
    PROVE  /\ t \in Seq(Events \cup {EOL}) /\ Len(s) <= Len(t)
           /\ \A i \in 1..Len(s) : t[i] = s[i]
           /\ InOrder(t) /\ \A i \in DOMAIN t : t[i] # EOL => t[i] <= n
<1>. DEFINE k == Len(s)  h == k + 1  l == Len(t)
<1>0. n \in Nat /\ EOL \notin Nat /\ \A e \in Events : e \in Nat
  BY ShippingAssumption DEF Events
<1>1. k \in Nat /\ h \in Nat /\ DOMAIN s = 1..k /\ \A i \in 1..k : i < h /\ i \in Nat
  OBVIOUS
<1>2. /\ t \in Seq(Events \cup {EOL}) /\ k <= l /\ l \in Nat /\ DOMAIN t = 1..l
      /\ t[h] = n
  <2>1. CASE t = s \o <<n, EOL>>
    BY <2>1
  <2>2. CASE t = Append(s, n)
    BY <2>2
  <2>. QED  BY <2>1, <2>2
<1>3. \A i \in 1..k : t[i] = s[i]
  <2>1. CASE t = s \o <<n, EOL>>
    BY <2>1
  <2>2. CASE t = Append(s, n)
    BY <2>2
  <2>. QED  BY <2>1, <2>2
<1>4. \A i \in 1..l : i \in 1..k \/ i = h \/ t[i] = EOL
  <2>1. CASE t = s \o <<n, EOL>>
    BY <2>1
  <2>2. CASE t = Append(s, n)
    BY <2>2
  <2>. QED  BY <2>1, <2>2
<1>. HIDE DEF k, h, l
<1>5. \A i \in 1..k : s[i] # EOL => s[i] < n /\ s[i] \in Nat
  <2>. SUFFICES ASSUME NEW i \in 1..k, s[i] # EOL  PROVE s[i] < n /\ s[i] \in Nat
    OBVIOUS
  <2>1. s[i] \in Events \cup {EOL}
    BY <1>1
  <2>. QED  BY <1>0, <1>1, <2>1
<1>6. ASSUME NEW i \in DOMAIN t, t[i] # EOL
      PROVE  t[i] <= n /\ (i \in 1..k \/ i = h)
  <2>1. i \in 1..k \/ i = h
    BY <1>2, <1>4, <1>6
  <2>2. CASE i \in 1..k
    <3>1. s[i] < n /\ s[i] \in Nat /\ t[i] = s[i]
      BY <1>3, <1>5, <1>6, <2>2
    <3>. QED  BY <1>0, <2>2, <3>1
  <2>3. CASE i = h
    BY <1>0, <1>2, <2>3
  <2>. QED  BY <2>1, <2>2, <2>3
<1>7. ASSUME NEW i \in DOMAIN t, t[i] # EOL, NEW j \in 1..(i - 1), t[j] # EOL
      PROVE  t[j] < t[i]
  <2>1. i \in 1..k \/ i = h
    BY <1>6, <1>7
  <2>2. CASE i \in 1..k
    <3>1. j \in 1..k
      BY <1>1, <2>2
    <3>2. t[i] = s[i] /\ t[j] = s[j]
      BY <1>3, <2>2, <3>1
    <3>. QED  BY <1>1, <1>7, <2>2, <3>2 DEF InOrder
  <2>3. CASE i = h
    <3>1. j \in 1..k
      BY <1>1, <2>3 DEF h
    <3>2. s[j] # EOL /\ t[j] = s[j]
      BY <1>3, <1>7, <3>1
    <3>. QED  BY <1>2, <1>5, <2>3, <3>1, <3>2
  <2>. QED  BY <2>1, <2>2, <2>3
<1>. QED  BY <1>2, <1>3, <1>6, <1>7, Zenon DEF InOrder, k, l

\* Every step keeps the types and the order of the event log.
LEMMA TypedKept ==
    ASSUME Typed, LogInOrder, [Next]_vars
    PROVE  Typed' /\ LogInOrder'
<1>. USE ShippingAssumption DEF Typed, TypeOK, LogInOrder
<1>0. (unsent # <<>> => unsent[1] # EOL) /\ \A line \in Line : line # NULL
  BY NullAssumption
<1>1. CASE LogEvent
  <2>. DEFINE n == logged + 1
  <2>1. n \in Events /\ \A i \in DOMAIN eventLog : eventLog[i] # EOL => eventLog[i] < n
    <3>1. n \in Events
      BY <1>1 DEF LogEvent, Events
    <3>2. \A i \in DOMAIN eventLog : eventLog[i] # EOL => eventLog[i] \in Nat
      BY DEF Events
    <3>. QED  BY <3>1, <3>2
  <2>2. eventLog' \in {eventLog \o <<n, EOL>>, Append(eventLog, n)} /\ logged' = n
    BY <1>1 DEF LogEvent
  <2>. HIDE DEF n
  <2>3. /\ eventLog' \in Seq(Events \cup {EOL}) /\ InOrder(eventLog')
        /\ \A i \in DOMAIN eventLog' : eventLog'[i] # EOL => eventLog'[i] <= n
    BY <2>1, <2>2, OneMoreLogged
  <2>4. logged' \in 0..MaxEvents
    BY <2>1, <2>2 DEF Events
  <2>. QED  BY <1>1, <2>2, <2>3, <2>4 DEF LogEvent, clientVars, serverVars
<1>2. CASE Truncate
  <2>1. InOrder(<<>>)
    BY DEF InOrder
  <2>. QED  BY <1>2, <2>1 DEF Truncate, clientVars, serverVars
<1>3. CASE Start
  BY <1>3 DEF Start, serverVars, ghostVars
<1>4. CASE Stat
  BY <1>4 DEF Stat, Position, serverVars, ghostVars
<1>5. CASE Read
  <2>1. /\ unsent' \in Seq(Unit) /\ (unsent' # <<>> => unsent'[1] # EOL)
    <3>1. CASE lastSize >= Len(eventLog)
      BY <1>5, <3>1 DEF Read
    <3>2. CASE lastSize < Len(eventLog)
      <4>1. Buffer \in Seq(Unit)
        BY <1>5, <3>2, BufferRead DEF Read, Buffer
      <4>. QED  BY <1>5, <3>2, <4>1, EmptySkipped DEF Read, RestOf
    <3>. QED  BY <3>1, <3>2
  <2>. QED  BY <1>5, <2>1 DEF Read, serverVars, ghostVars
<1>6. CASE Send
  <2>1. FirstLine(unsent) \in Line
    BY <1>0, <1>6, LineTypes DEF Send
  <2>. QED  BY <1>6, <2>1 DEF Send, serverVars, ghostVars
<1>7. CASE Return \/ SendFails
  <2>1. unsent # <<>> /\ unsent' = SkipEmpty(OtherLines(unsent))
    BY <1>7 DEF Return, SendFails
  <2>2. unsent' \in Seq(Unit) /\ (unsent' # <<>> => unsent'[1] # EOL)
    <3>1. OtherLines(unsent) \in Seq(Unit)
      BY <1>0, <2>1, LineTypes
    <3>. QED  BY <2>1, <3>1, EmptySkipped DEF RestOf
  <2>. QED  BY <1>7, <2>2 DEF Return, SendFails, serverVars, ghostVars
<1>8. CASE AdvancePosition \/ SaveOffset
  BY <1>8 DEF AdvancePosition, SaveOffset, serverVars, ghostVars
<1>9. IsFiniteSet(OnTheWire) /\ IsFiniteSet(orphans \cup OnTheWire)
      /\ OnTheWire \subseteq [client : 0..MaxCrashes, line : Line]
  <2>1. OnTheWire = {} \/ OnTheWire = {[client |-> crashes, line |-> wire]}
    BY DEF OnTheWire
  <2>2. IsFiniteSet(OnTheWire)
    <3>1. IsFiniteSet({}) /\ IsFiniteSet({[client |-> crashes, line |-> wire]})
      BY FS_EmptySet, FS_Singleton
    <3>. QED  BY <2>1, <3>1, Zenon
  <2>3. IsFiniteSet(orphans \cup OnTheWire)
    BY <2>2, FS_Union
  <2>4. OnTheWire \subseteq [client : 0..MaxCrashes, line : Line]
    BY DEF OnTheWire
  <2>. QED  BY <2>2, <2>3, <2>4
<1>10. CASE Break
  BY <1>9, <1>10 DEF Break, serverVars
<1>11. CASE Crash
  <2>1. wire # NULL => EventsOf(wire) \subseteq Events
    BY DEF EventsOf, Line, Range
  <2>2. /\ orphans' \subseteq [client : 0..MaxCrashes, line : Line] /\ IsFiniteSet(orphans')
        /\ lost' \subseteq Events
    BY <1>9, <1>11, <2>1 DEF Crash
  <2>3. /\ pc' = "down" /\ connected' = FALSE /\ unsent' = <<>> /\ wire' = NULL
        /\ crashes' \in 0..MaxCrashes
        /\ UNCHANGED <<eventLog, offsetFile, lastSize, size, serverVars, logged, broke,
                       truncations>>
    BY <1>11 DEF Crash
  <2>4. LogInOrder'
    BY <2>3
  <2>5. TypeOK'
    <3>1. unsent' \in Seq(Unit) /\ pc' # "wait"
      BY <2>3
    <3>2. registered' \in BOOLEAN /\ archive' \in Seq(Line)
      BY <2>3 DEF serverVars
    <3>3. broke' \in BOOLEAN /\ logged' \in 0..MaxEvents /\ truncations' \in 0..MaxTruncations
          /\ eventLog' \in Seq(Events \cup {EOL}) /\ offsetFile' \in Nat \cup {NULL}
          /\ lastSize' \in Nat /\ size' \in Nat
      BY <2>3
    <3>. QED  BY <2>2, <2>3, <3>1, <3>2, <3>3
  <2>6. Typed'
    BY <2>2, <2>3, <2>5
  <2>. QED  BY <2>4, <2>6
<1>12. CASE ServerLog
  BY <1>0, <1>12 DEF ServerLog, Archived, clientVars, ghostVars
<1>13. CASE ServerLogOrphan
  <2>1. PICK o \in orphans : archive' = Archived(o.line) /\ orphans' = orphans \ {o}
    BY <1>13 DEF ServerLogOrphan
  <2>2. IsFiniteSet(orphans') /\ archive' \in Seq(Line)
    BY <2>1, FS_Subset DEF Archived
  <2>. QED  BY <1>13, <2>1, <2>2 DEF ServerLogOrphan, clientVars, ghostVars
<1>14. CASE Deregister
  BY <1>14 DEF Deregister, clientVars, ghostVars
<1>15. CASE UNCHANGED vars
  BY <1>15 DEF vars, clientVars, serverVars, ghostVars
<1>. QED  BY <1>1, <1>2, <1>3, <1>4, <1>5, <1>6, <1>7, <1>8, <1>10, <1>11, <1>12, <1>13,
             <1>14, <1>15 DEF Next, Watcher, Server

-----------------------------------------------------------------------------
(* What the watcher has passed and what it has sent.                         *)

\* The request on the connection as a message on its way.
LEMMA OnWire ==
    ASSUME NEW w, NEW c, NEW x, x = IF w = NULL THEN {} ELSE {[client |-> c, line |-> w]}
    PROVE  /\ IsFiniteSet(x)
           /\ w = NULL => x = {} /\ OnWay(x) = {} /\ \A n : CopiesOnWay(x, n) = 0
           /\ w # NULL =>
                /\ OnWay(x) = EventsOf(w)
                /\ \A n : CopiesOnWay(x, n) = IF n \in EventsOf(w) THEN 1 ELSE 0
<1>. DEFINE o == [client |-> c, line |-> w]
<1>1. o.line = w /\ x = IF w = NULL THEN {} ELSE {o}
  OBVIOUS
<1>. HIDE DEF o
<1>2. IsFiniteSet({}) /\ IsFiniteSet({o})
  BY FS_EmptySet, FS_Singleton
<1>3. CASE w = NULL
  <2>1. x = {}
    BY <1>1, <1>3
  <2>. QED  BY <1>2, <1>3, <2>1, OneOnWay, Zenon
<1>4. CASE w # NULL
  <2>1. x = {o}
    BY <1>1, <1>4
  <2>. QED  BY <1>1, <1>2, <1>4, <2>1, OneOnWay, Zenon
<1>. QED  BY <1>3, <1>4

\* The copies of an event are counted.
LEMMA CopiesAreCounted ==
    ASSUME Typed, NEW n
    PROVE  /\ CopiesOf(archive, n) \in Nat /\ CopiesOnWay(orphans, n) \in Nat
           /\ CopiesOnWay(OnTheWire, n) \in Nat /\ Copies(n) \in Nat
<1>1. IsFiniteSet(OnTheWire) /\ IsFiniteSet(orphans)
  BY OnWire DEF OnTheWire, Typed
<1>2. CopiesOnWay(OnTheWire, n) \in Nat /\ CopiesOnWay(orphans, n) \in Nat
  BY <1>1, CopiesCounted
<1>3. CopiesOf(archive, n) \in Nat
  <2>1. <<>> \in Line /\ archive \in Seq(Line)
    BY DEF Line, Typed, TypeOK
  <2>. QED  BY <2>1, OneMoreArchived
<1>. QED  BY <1>2, <1>3 DEF Copies

\* Where the watcher is in the event log.
LEMMA ReachedInLog ==
    ASSUME Typed, InLog
    PROVE  /\ Reached \in 0..Len(eventLog) /\ lastSize \in 0..Len(eventLog)
           /\ offsetFile # NULL => offsetFile \in 0..Len(eventLog)
           /\ eventLog \in Seq(Unit)
<1>1. eventLog \in Seq(Unit) /\ Len(eventLog) \in Nat /\ lastSize \in 0..Len(eventLog)
  BY DEF Typed, TypeOK, InLog, Unit
<1>2. offsetFile # NULL => offsetFile \in 0..Len(eventLog)
  BY <1>1 DEF Typed, TypeOK, InLog
<1>3. Reached \in 0..Len(eventLog)
  <2>1. CASE pc = "send"
    <3>1. /\ Len(unsent) \in Nat /\ size \in Nat /\ size <= Len(eventLog)
          /\ Len(unsent) <= size
      BY <2>1 DEF Typed, TypeOK, InLog, RestOf
    <3>. QED  BY <1>1, <2>1, <3>1 DEF Reached
  <2>2. CASE pc = "wait"
    <3>1. unsent \in Seq(Unit) /\ unsent # <<>> /\ unsent[1] # EOL
      BY <2>2 DEF Typed, TypeOK
    <3>2. /\ RestOf(unsent, Len(unsent), OtherLines(unsent))
          /\ Len(OtherLines(unsent)) < Len(unsent)
      BY <3>1, LineTaken
    <3>3. Len(OtherLines(unsent)) \in Nat
      BY <3>2 DEF RestOf
    <3>4. /\ Len(unsent) \in Nat /\ size \in Nat /\ size <= Len(eventLog)
          /\ Len(unsent) <= size
      BY <2>2, <3>1 DEF Typed, TypeOK, InLog, RestOf
    <3>. QED  BY <1>1, <2>2, <3>2, <3>3, <3>4 DEF Reached
  <2>3. CASE pc \notin {"send", "wait"}
    BY <1>1, <2>3 DEF Reached
  <2>. QED  BY <2>1, <2>2, <2>3
<1>. QED  BY <1>1, <1>2, <1>3

\* The core of the invariant, and what it says of the first run.
Core == InLog /\ PassedIsSent /\ OneCopyPerRun
Rest == Core /\ (crashes = 0 => FirstRunInOrder)

\* A step of the watcher that sends nothing.
LEMMA NothingSent ==
    ASSUME Typed, Rest, InLog',
           UNCHANGED <<wire, orphans, serverVars, lost, broke, crashes>>,
           pc' = "down" => pc = "down",
           pc = "down" \/ UNCHANGED connected,
           pc = "down" \/ Before(eventLog, Reached) \subseteq Before(eventLog, Reached)',
           ~broke /\ registered =>
             /\ offsetFile' # NULL => Before(eventLog', offsetFile') \subseteq Sent
             /\ Before(eventLog', lastSize') \subseteq Sent
             /\ Before(eventLog, Reached)' \subseteq Sent
    PROVE  Rest'
<1>1. /\ Sent' = Sent /\ OnTheWire' = OnTheWire /\ \A n : Copies(n)' = Copies(n)
      /\ wire' = wire /\ orphans' = orphans /\ archive' = archive /\ registered' = registered
      /\ broke' = broke /\ crashes' = crashes
  BY DEF Sent, OnTheWire, Copies, serverVars
<1>2. PassedIsSent'
  BY <1>1 DEF PassedIsSent
<1>3. OneCopyPerRun'
  <2>. SUFFICES ASSUME NEW n \in Events
                PROVE  Copies(n) <= crashes +
                         (IF pc' # "down" /\ n \in Before(eventLog, Reached)' THEN 1 ELSE 0)
    BY <1>1 DEF OneCopyPerRun
  <2>1. /\ Copies(n) <= crashes + (IF pc # "down" /\ n \in Before(eventLog, Reached) THEN 1 ELSE 0)
        /\ crashes \in Nat
    BY DEF Rest, Core, OneCopyPerRun, Typed, TypeOK
  <2>2. Copies(n) \in Nat
    BY CopiesAreCounted
  <2>. QED  BY <2>1, <2>2
<1>4. ASSUME crashes = 0  PROVE FirstRunInOrder'
  <2>0. FirstRunInOrder
    BY <1>4 DEF Rest
  <2>1. EventsIn(archive)' = EventsIn(archive) /\ OnWay(orphans)' = OnWay(orphans)
        /\ OnWay(OnTheWire)' = OnWay(OnTheWire) /\ MessagesInOrder(archive)' = MessagesInOrder(archive)
    BY <1>1
  <2>2. /\ EventsIn(archive) \subseteq Before(eventLog, Reached)'
        /\ OnWay(orphans) \cup OnWay(OnTheWire) \subseteq Before(eventLog, Reached)'
        /\ orphans' # {} => ~connected'
    <3>1. CASE pc = "down"
      <4>1. archive = <<>> /\ wire = NULL /\ orphans = {}
        BY <2>0, <3>1 DEF FirstRunInOrder
      <4>2. EventsIn(<<>>) = {}
        BY DEF EventsIn
      <4>3. OnWay({}) = {} /\ OnTheWire = {}
        BY <4>1 DEF OnWay, OnTheWire
      <4>. QED  BY <1>1, <4>1, <4>2, <4>3
    <3>2. CASE pc # "down"
      BY <1>1, <2>0, <3>2 DEF FirstRunInOrder
    <3>. QED  BY <3>1, <3>2
  <2>. QED  BY <1>1, <2>0, <2>1, <2>2 DEF FirstRunInOrder
<1>. QED  BY <1>1, <1>2, <1>3, <1>4 DEF Rest, Core

-----------------------------------------------------------------------------
(* The steps of the watcher.                                                 *)

\* The steps that neither read the event log nor send.
LEMMA WatcherMoves ==
    ASSUME Typed, Typed', LogInOrder, Rest,
           LogEvent \/ Start \/ Stat \/ AdvancePosition \/ SaveOffset
    PROVE  Rest'
<1>. USE DEF clientVars, serverVars, ghostVars
<1>0. /\ InLog /\ PassedIsSent
      /\ Reached \in 0..Len(eventLog) /\ lastSize \in 0..Len(eventLog)
      /\ offsetFile # NULL => offsetFile \in 0..Len(eventLog)
      /\ eventLog \in Seq(Unit) /\ Len(eventLog) \in Nat
      /\ offsetFile \in Nat \cup {NULL} /\ size \in Nat
  <2>1. InLog /\ PassedIsSent
    BY DEF Rest, Core
  <2>2. offsetFile \in Nat \cup {NULL} /\ size \in Nat
    BY DEF Typed, TypeOK
  <2>3. Len(eventLog) \in Nat
    BY DEF Typed, TypeOK
  <2>. QED  BY <2>1, <2>2, <2>3, ReachedInLog
<1>1. CASE LogEvent
  <2>1. /\ eventLog' \in Seq(Unit) /\ Len(eventLog) <= Len(eventLog')
        /\ \A i \in 1..Len(eventLog) : eventLog'[i] = eventLog[i]
    <3>1. eventLog' \in Seq(Unit)
      BY DEF Typed, TypeOK, Unit
    <3>2. CASE eventLog' = eventLog \o <<logged + 1, EOL>>
      BY <1>0, <3>1, <3>2
    <3>3. CASE eventLog' = Append(eventLog, logged + 1)
      BY <1>0, <3>1, <3>3
    <3>. QED  BY <1>1, <3>2, <3>3 DEF LogEvent
  <2>2. /\ \A k \in 0..Len(eventLog) : Before(eventLog', k) = Before(eventLog, k)
        /\ \A q \in 0..Len(eventLog) : \A u :
              RestOf(eventLog, q, u) => RestOf(eventLog', q, u)
    BY <1>0, <2>1, LogGrown
  <2>3. /\ UNCHANGED <<wire, orphans, serverVars, lost, broke, crashes, connected>>
        /\ UNCHANGED <<offsetFile, pc, lastSize, size, unsent>>
    BY <1>1 DEF LogEvent
  <2>4. Reached' = Reached
    BY <2>3 DEF Reached
  <2>5. InLog'
    BY <1>0, <2>1, <2>2, <2>3 DEF InLog
  <2>6. /\ Before(eventLog', Reached') = Before(eventLog, Reached)
        /\ Before(eventLog', lastSize') = Before(eventLog, lastSize)
        /\ offsetFile # NULL => Before(eventLog', offsetFile') = Before(eventLog, offsetFile)
    BY <1>0, <2>2, <2>3, <2>4
  <2>. QED  BY <1>0, <2>3, <2>5, <2>6, NothingSent DEF PassedIsSent
<1>2. CASE Start
  <2>1. /\ pc = "down" /\ pc' = "stat" /\ lastSize' = IF offsetFile = NULL THEN 0 ELSE offsetFile
        /\ UNCHANGED <<eventLog, offsetFile, size, unsent, wire, orphans, serverVars, lost,
                       broke, crashes>>
    BY <1>2 DEF Start
  <2>2. Reached' = lastSize'
    BY <2>1 DEF Reached
  <2>3. InLog'
    BY <1>0, <2>1 DEF InLog
  <2>4. Before(eventLog, 0) = {}
    BY DEF Before
  <2>. QED  BY <1>0, <2>1, <2>2, <2>3, <2>4, NothingSent DEF PassedIsSent
<1>3. CASE Stat
  <2>1. /\ pc = "stat" /\ pc' \in {"read", "stat"} /\ size' = Len(eventLog)
        /\ lastSize' = lastSize /\ pc' # "down"
        /\ UNCHANGED <<eventLog, offsetFile, unsent, connected, wire, orphans, serverVars, lost,
                       broke, crashes>>
    BY <1>0, <1>3 DEF Stat, Position
  <2>2. Reached' = lastSize /\ Reached = lastSize
    BY <2>1 DEF Reached
  <2>3. InLog'
    BY <1>0, <2>1 DEF InLog
  <2>. QED  BY <1>0, <2>1, <2>2, <2>3, NothingSent DEF PassedIsSent
<1>4. CASE AdvancePosition
  <2>1. /\ pc = "send" /\ unsent = <<>> /\ pc' \in {"save", "stat"} /\ lastSize' = size
        /\ offsetFile' = NULL \/ offsetFile' = offsetFile
        /\ pc' # "down"
        /\ UNCHANGED <<eventLog, size, unsent, connected, wire, orphans, serverVars, lost,
                       broke, crashes>>
    BY <1>4 DEF AdvancePosition
  <2>2. Reached' = size /\ Reached = size
    BY <1>0, <2>1 DEF Reached
  <2>3. InLog'
    BY <1>0, <2>1 DEF InLog
  <2>. QED  BY <1>0, <2>1, <2>2, <2>3, NothingSent DEF PassedIsSent
<1>5. CASE SaveOffset
  <2>1. /\ pc = "save" /\ pc' = "stat" /\ offsetFile' = lastSize /\ pc' # "down"
        /\ UNCHANGED <<eventLog, lastSize, size, unsent, connected, wire, orphans, serverVars,
                       lost, broke, crashes>>
    BY <1>5 DEF SaveOffset
  <2>2. Reached' = lastSize /\ Reached = lastSize
    BY <2>1 DEF Reached
  <2>3. InLog'
    BY <1>0, <2>1 DEF InLog
  <2>. QED  BY <1>0, <2>1, <2>2, <2>3, NothingSent DEF PassedIsSent
<1>. QED  BY <1>1, <1>2, <1>3, <1>4, <1>5

\* Reading: the buffer is what the event log holds beyond the position, and
\* empty lines are no events.
LEMMA ReadMoves ==
    ASSUME Typed, Typed', Rest, Read
    PROVE  Rest'
<1>0. /\ InLog /\ PassedIsSent
      /\ lastSize \in 0..Len(eventLog) /\ eventLog \in Seq(Unit) /\ Len(eventLog) \in Nat
      /\ eventLog \in Seq(Events \cup {EOL})
      /\ lastSize \in Nat /\ size \in Nat /\ size <= Len(eventLog) /\ lastSize < size
      /\ size \in 0..Len(eventLog)
  <2>1. InLog /\ PassedIsSent /\ pc = "read"
    BY DEF Rest, Core, Read
  <2>2. lastSize \in 0..Len(eventLog) /\ eventLog \in Seq(Unit)
    BY <2>1, ReachedInLog
  <2>3. eventLog \in Seq(Events \cup {EOL}) /\ lastSize \in Nat /\ size \in Nat /\ lastSize < size
    BY <2>1 DEF Typed, TypeOK
  <2>4. size <= Len(eventLog) /\ Len(eventLog) \in Nat
    BY <2>1, <2>2 DEF InLog
  <2>. QED  BY <2>1, <2>2, <2>3, <2>4
<1>1. /\ pc = "read" /\ pc' = "send" /\ unsent' = SkipEmpty(Buffer) /\ pc' # "down"
      /\ UNCHANGED <<eventLog, offsetFile, lastSize, size, connected, wire, orphans, serverVars,
                     lost, broke, crashes>>
  BY <1>0 DEF Read, ghostVars
<1>2. RestOf(eventLog, size, Buffer) /\ Len(Buffer) = size - lastSize
  <2>1. lastSize < Len(eventLog)
    BY <1>0
  <2>2. LET filled == SubSeq(eventLog, lastSize + 1, Min({size, Len(eventLog)}))
            buf    == filled \o [i \in 1..(size - lastSize - Len(filled)) |-> NUL]
        IN  RestOf(eventLog, size, buf) /\ Len(buf) = size - lastSize
    BY <1>0, <2>1, BufferRead
  <2>. QED  BY <2>2 DEF Buffer
<1>3. /\ RestOf(eventLog, size, unsent') /\ Len(unsent') <= Len(Buffer)
      /\ Before(eventLog, size - Len(unsent')) = Before(eventLog, size - Len(Buffer))
  BY <1>0, <1>1, <1>2, SkipInLog
<1>4. Len(unsent') \in Nat /\ lastSize <= size - Len(unsent') /\ size - Len(Buffer) = lastSize
  BY <1>0, <1>2, <1>3 DEF RestOf
<1>5. Reached' = size - Len(unsent') /\ Reached = lastSize
  BY <1>1 DEF Reached
<1>6. Before(eventLog, Reached)' = Before(eventLog, Reached)
  BY <1>1, <1>3, <1>4, <1>5
<1>7. InLog'
  BY <1>0, <1>1, <1>3, <1>4 DEF InLog
<1>. QED  BY <1>0, <1>1, <1>5, <1>6, <1>7, NothingSent DEF PassedIsSent

\* The line in turn, in a round that is not at its end.
LEMMA LineInTurn ==
    ASSUME Typed, LogInOrder, InLog, pc \in {"send", "wait"}, unsent # <<>>
    PROVE  LET v == OtherLines(unsent)  line == FirstLine(unsent)
           IN  /\ RestOf(eventLog, size, v) /\ Len(v) < Len(unsent) /\ Len(v) \in Nat
               /\ line \in Line
               /\ Before(eventLog, size - Len(v)) =
                    Before(eventLog, size - Len(unsent)) \cup EventsOf(line)
               /\ \A m \in Before(eventLog, size - Len(unsent)), n \in EventsOf(line) : m < n
<1>1. /\ eventLog \in Seq(Events \cup {EOL}) /\ size \in 0..Len(eventLog)
      /\ RestOf(eventLog, size, unsent) /\ unsent[1] # EOL /\ InOrder(eventLog)
  BY DEF Typed, TypeOK, InLog, LogInOrder
<1>2. Len(OtherLines(unsent)) \in Nat
  BY LineTypes DEF Typed, TypeOK
<1>. QED  BY <1>1, <1>2, LineOfLog

\* A call that returns, or fails without a connection: the line is done.
LEMMA LineDone ==
    ASSUME Typed, Typed', LogInOrder, Rest, Return \/ SendFails
    PROVE  Rest'
<1>. DEFINE v == OtherLines(unsent)
<1>0. /\ InLog /\ PassedIsSent
      /\ eventLog \in Seq(Unit) /\ Len(eventLog) \in Nat /\ size \in 0..Len(eventLog)
      /\ lastSize \in Nat /\ lastSize <= size - Len(unsent) /\ Len(unsent) \in Nat
      /\ size <= Len(eventLog) /\ lastSize <= size /\ size \in Nat
  <2>1. InLog /\ PassedIsSent /\ pc \in {"send", "wait"}
    BY DEF Rest, Core, Return, SendFails
  <2>2. eventLog \in Seq(Unit) /\ Len(eventLog) \in Nat
    BY <2>1, ReachedInLog
  <2>3. size \in Nat /\ lastSize \in Nat /\ unsent \in Seq(Unit)
    BY DEF Typed, TypeOK
  <2>4. lastSize <= size /\ size <= Len(eventLog) /\ lastSize <= size - Len(unsent)
    BY <2>1 DEF InLog
  <2>. QED  BY <2>1, <2>2, <2>3, <2>4
<1>1. /\ pc \in {"send", "wait"} /\ pc' = "send" /\ unsent # <<>> /\ unsent' = SkipEmpty(v)
      /\ pc' # "down" /\ (pc = "send" => broke)
      /\ UNCHANGED <<eventLog, offsetFile, lastSize, size, connected, wire, orphans, serverVars,
                     lost, broke, crashes>>
  BY DEF Return, SendFails, ghostVars, Typed, TypeOK
<1>2. /\ RestOf(eventLog, size, v) /\ Len(v) < Len(unsent) /\ Len(v) \in Nat
      /\ Before(eventLog, size - Len(unsent)) \subseteq Before(eventLog, size - Len(v))
  BY <1>0, <1>1, LineInTurn
<1>3. /\ RestOf(eventLog, size, unsent') /\ Len(unsent') <= Len(v)
      /\ Before(eventLog, size - Len(unsent')) = Before(eventLog, size - Len(v))
  <2>. HIDE DEF v
  <2>. QED  BY <1>0, <1>1, <1>2, SkipInLog
<1>4. /\ Reached' = size - Len(unsent')
      /\ pc = "send" => Reached = size - Len(unsent)
      /\ pc = "wait" => Reached = size - Len(v)
  BY <1>1 DEF Reached
<1>. HIDE DEF v
<1>5. Len(unsent') \in Nat /\ lastSize <= size - Len(unsent')
  BY <1>0, <1>2, <1>3 DEF RestOf
<1>6. InLog'
  BY <1>0, <1>1, <1>3, <1>5 DEF InLog
<1>7. /\ Before(eventLog, Reached)' = Before(eventLog, size - Len(v))
      /\ Before(eventLog, Reached) \subseteq Before(eventLog, Reached)'
      /\ ~broke => Before(eventLog, Reached)' = Before(eventLog, Reached)
  BY <1>1, <1>2, <1>3, <1>4
<1>. QED  BY <1>0, <1>1, <1>6, <1>7, NothingSent DEF PassedIsSent

\* Sending a line: it is about events that this run has not sent.
LEMMA SendMoves ==
    ASSUME Typed, Typed', LogInOrder, Rest, Send
    PROVE  Rest'
<1>. DEFINE v == OtherLines(unsent)  line == FirstLine(unsent)
<1>0. /\ InLog /\ PassedIsSent /\ OneCopyPerRun
      /\ lastSize \in Nat /\ lastSize <= size - Len(unsent) /\ Len(unsent) \in Nat
      /\ size \in Nat /\ lastSize <= size /\ size <= Len(eventLog) /\ unsent[1] # EOL
      /\ unsent \in Seq(Unit) /\ crashes \in Nat
  <2>1. InLog /\ PassedIsSent /\ OneCopyPerRun /\ pc = "send" /\ unsent # <<>>
    BY DEF Rest, Core, Send
  <2>. QED  BY <2>1 DEF Typed, TypeOK, InLog
<1>1. /\ pc = "send" /\ pc' = "wait" /\ unsent # <<>> /\ connected /\ wire = NULL /\ wire' = line
      /\ UNCHANGED <<eventLog, offsetFile, lastSize, size, unsent, connected, orphans, registered,
                     archive, lost, broke, crashes>>
  BY DEF Send, serverVars, ghostVars
<1>2. /\ RestOf(eventLog, size, v) /\ Len(v) < Len(unsent) /\ Len(v) \in Nat /\ line \in Line
      /\ Before(eventLog, size - Len(v)) =
            Before(eventLog, size - Len(unsent)) \cup EventsOf(line)
      /\ \A m \in Before(eventLog, size - Len(unsent)), n \in EventsOf(line) : m < n
  BY <1>0, <1>1, LineInTurn
<1>. HIDE DEF line
<1>3. Reached = size - Len(unsent) /\ Reached' = size - Len(v)
  BY <1>1 DEF Reached
<1>. HIDE DEF v
<1>4. /\ Before(eventLog, Reached)' = Before(eventLog, Reached) \cup EventsOf(line)
      /\ \A m \in Before(eventLog, Reached), n \in EventsOf(line) : m < n
  BY <1>1, <1>2, <1>3
<1>5. line # NULL
  BY <1>2, NullAssumption
<1>6. /\ OnWay(OnTheWire) = {} /\ \A n : CopiesOnWay(OnTheWire, n) = 0
  BY <1>1, OnWire DEF OnTheWire
<1>7. /\ OnWay(OnTheWire)' = EventsOf(line)
      /\ \A n : CopiesOnWay(OnTheWire, n)' = IF n \in EventsOf(line) THEN 1 ELSE 0
  BY <1>1, <1>5, OnWire DEF OnTheWire
<1>8. Sent' = Sent \cup EventsOf(line)
  BY <1>1, <1>6, <1>7 DEF Sent
<1>9. InLog'
  BY <1>0, <1>1 DEF InLog
<1>10. PassedIsSent'
  BY <1>0, <1>1, <1>4, <1>8 DEF PassedIsSent
<1>11. OneCopyPerRun'
  <2>. SUFFICES ASSUME NEW n \in Events
                PROVE  Copies(n)' <= crashes + (IF n \in Before(eventLog, Reached)' THEN 1 ELSE 0)
    BY <1>1 DEF OneCopyPerRun
  <2>1. Copies(n)' = Copies(n) + (IF n \in EventsOf(line) THEN 1 ELSE 0) /\ Copies(n) \in Nat
    BY <1>1, <1>6, <1>7, CopiesAreCounted DEF Copies
  <2>2. Copies(n) <= crashes + (IF n \in Before(eventLog, Reached) THEN 1 ELSE 0)
    BY <1>0, <1>1 DEF OneCopyPerRun
  <2>3. n \in EventsOf(line) => n \notin Before(eventLog, Reached)
    <3>1. n \in Nat
      BY DEF Events
    <3>. QED  BY <1>4, <3>1
  <2>. QED  BY <1>0, <1>4, <2>1, <2>2, <2>3
<1>12. ASSUME crashes' = 0  PROVE FirstRunInOrder'
  <2>1. FirstRunInOrder /\ orphans = {}
    BY <1>1, <1>12 DEF Rest, FirstRunInOrder
  <2>2. OnWay(orphans) = {} /\ OnWay(orphans)' = {} /\ EventsIn(archive)' = EventsIn(archive)
        /\ MessagesInOrder(archive)' = MessagesInOrder(archive)
    BY <1>1, <2>1, OneOnWay
  <2>3. \A m \in EventsIn(archive), n \in EventsOf(line) : m < n
    BY <1>4, <2>1 DEF FirstRunInOrder
  <2>. QED  BY <1>1, <1>4, <1>7, <2>1, <2>2, <2>3 DEF FirstRunInOrder
<1>. QED  BY <1>9, <1>10, <1>11, <1>12 DEF Rest, Core

-----------------------------------------------------------------------------
(* The connection, the end of a client, and the server.                      *)

\* A step that moves messages and leaves the watcher where it is.
LEMMA MessagesMove ==
    ASSUME Typed, Rest, UNCHANGED <<eventLog, offsetFile, clientVars, broke, crashes>>,
           ~broke /\ registered' => registered /\ Sent \subseteq Sent',
           \A n \in Events : Copies(n)' <= Copies(n) /\ Copies(n)' \in Nat
    PROVE  Core' /\ Reached' = Reached
<1>. USE DEF clientVars
<1>1. Reached' = Reached
  BY DEF Reached
<1>2. InLog'
  BY DEF Rest, Core, InLog
<1>3. PassedIsSent'
  BY <1>1 DEF Rest, Core, PassedIsSent
<1>4. OneCopyPerRun'
  <2>. SUFFICES ASSUME NEW n \in Events
                PROVE  Copies(n)' <= crashes +
                         (IF pc # "down" /\ n \in Before(eventLog, Reached) THEN 1 ELSE 0)
    BY <1>1 DEF OneCopyPerRun
  <2>1. Copies(n) <= crashes + (IF pc # "down" /\ n \in Before(eventLog, Reached) THEN 1 ELSE 0)
    BY DEF Rest, Core, OneCopyPerRun
  <2>2. Copies(n) \in Nat /\ Copies(n)' \in Nat /\ crashes \in Nat /\ Copies(n)' <= Copies(n)
    BY CopiesAreCounted DEF Typed, TypeOK
  <2>. QED  BY <2>1, <2>2
<1>. QED  BY <1>1, <1>2, <1>3, <1>4 DEF Core

\* What is on the wire when its connection is given up.
LEMMA WireGivenUp ==
    ASSUME Typed, wire' = NULL, archive' = archive,
           orphans' = orphans \cup OnTheWire \/ orphans' = orphans
    PROVE  /\ \A n : Copies(n)' <= Copies(n) /\ Copies(n)' \in Nat
           /\ OnWay(OnTheWire)' = {} /\ OnTheWire' = {}
           /\ orphans' = orphans \cup OnTheWire =>
                OnWay(orphans') = OnWay(orphans) \cup OnWay(OnTheWire)
<1>1. IsFiniteSet(orphans) /\ IsFiniteSet(OnTheWire)
  BY OnWire DEF Typed, OnTheWire
<1>2. /\ OnTheWire' = {} /\ OnWay(OnTheWire)' = {}
      /\ \A n : CopiesOnWay(OnTheWire, n)' = 0
  BY OnWire DEF OnTheWire
<1>3. /\ IsFiniteSet(orphans \cup OnTheWire)
      /\ OnWay(orphans \cup OnTheWire) = OnWay(orphans) \cup OnWay(OnTheWire)
      /\ \A n : CopiesOnWay(orphans \cup OnTheWire, n)
                  <= CopiesOnWay(orphans, n) + CopiesOnWay(OnTheWire, n)
  BY <1>1, TogetherOnWay
<1>4. ASSUME NEW n  PROVE Copies(n)' <= Copies(n) /\ Copies(n)' \in Nat
  <2>1. /\ CopiesOf(archive, n) \in Nat /\ CopiesOnWay(orphans, n) \in Nat
        /\ CopiesOnWay(OnTheWire, n) \in Nat
    BY CopiesAreCounted
  <2>2. /\ CopiesOnWay(orphans', n) \in Nat
        /\ CopiesOnWay(orphans', n) <= CopiesOnWay(orphans, n) + CopiesOnWay(OnTheWire, n)
    <3>1. CASE orphans' = orphans \cup OnTheWire
      BY <1>3, <3>1, CopiesCounted
    <3>2. CASE orphans' = orphans
      BY <2>1, <3>2
    <3>. QED  BY <3>1, <3>2
  <2>3. Copies(n)' = CopiesOf(archive, n) + CopiesOnWay(orphans', n) + 0
    BY <1>2 DEF Copies
  <2>. QED  BY <2>1, <2>2, <2>3 DEF Copies
<1>. QED  BY <1>2, <1>3, <1>4

\* The connection breaks.
LEMMA BreakMoves ==
    ASSUME Typed, Typed', Rest, Break
    PROVE  Rest'
<1>. USE DEF serverVars
<1>1. /\ pc # "down" /\ connected /\ ~connected' /\ broke' /\ wire' = NULL
      /\ orphans' = orphans \cup OnTheWire \/ orphans' = orphans
      /\ UNCHANGED <<eventLog, offsetFile, pc, lastSize, size, unsent, archive, registered,
                     crashes>>
  BY DEF Break
<1>2. /\ \A n : Copies(n)' <= Copies(n) /\ Copies(n)' \in Nat
      /\ OnWay(OnTheWire)' = {} /\ OnTheWire' = {}
      /\ orphans' = orphans \cup OnTheWire =>
           OnWay(orphans') = OnWay(orphans) \cup OnWay(OnTheWire)
  BY <1>1, WireGivenUp
<1>3. Reached' = Reached
  BY <1>1 DEF Reached
<1>4. InLog'
  BY <1>1 DEF Rest, Core, InLog
<1>5. PassedIsSent'
  BY <1>1 DEF PassedIsSent
<1>6. OneCopyPerRun'
  <2>. SUFFICES ASSUME NEW n \in Events
                PROVE  Copies(n)' <= crashes +
                         (IF pc # "down" /\ n \in Before(eventLog, Reached) THEN 1 ELSE 0)
    BY <1>1, <1>3 DEF OneCopyPerRun
  <2>1. Copies(n) <= crashes + (IF pc # "down" /\ n \in Before(eventLog, Reached) THEN 1 ELSE 0)
    BY DEF Rest, Core, OneCopyPerRun
  <2>2. Copies(n) \in Nat /\ Copies(n)' \in Nat /\ crashes \in Nat /\ Copies(n)' <= Copies(n)
    BY <1>2, CopiesAreCounted DEF Typed, TypeOK
  <2>. QED  BY <2>1, <2>2
<1>7. ASSUME crashes' = 0  PROVE FirstRunInOrder'
  <2>1. FirstRunInOrder /\ orphans = {}
    BY <1>1, <1>7 DEF Rest, FirstRunInOrder
  <2>2. OnWay(orphans') \subseteq OnWay(orphans) \cup OnWay(OnTheWire)
    BY <1>1, <1>2
  <2>3. \A o, p \in orphans' : o = p
    BY <1>1, <2>1 DEF OnTheWire
  <2>4. EventsIn(archive)' = EventsIn(archive) /\ MessagesInOrder(archive)' = MessagesInOrder(archive)
    BY <1>1
  <2>. QED  BY <1>1, <1>2, <1>3, <2>1, <2>2, <2>3, <2>4 DEF FirstRunInOrder
<1>. QED  BY <1>4, <1>5, <1>6, <1>7 DEF Rest, Core

\* The client ends: what it had on the wire is on its way or lost, and the next
\* run has sent nothing yet.
LEMMA CrashMoves ==
    ASSUME Typed, Typed', Rest, Crash
    PROVE  Rest'
<1>. USE DEF serverVars
<1>1. /\ pc # "down" /\ pc' = "down" /\ wire' = NULL /\ crashes' = crashes + 1
      /\ \/ orphans' = orphans \cup OnTheWire /\ lost' = lost
         \/ orphans' = orphans /\ wire # NULL /\ lost' = lost \cup EventsOf(wire)
      /\ UNCHANGED <<eventLog, offsetFile, lastSize, archive, registered, broke>>
  BY DEF Crash
<1>2. /\ \A n : Copies(n)' <= Copies(n) /\ Copies(n)' \in Nat
      /\ OnWay(OnTheWire)' = {}
      /\ orphans' = orphans \cup OnTheWire =>
           OnWay(orphans') = OnWay(orphans) \cup OnWay(OnTheWire)
  BY <1>1, WireGivenUp
<1>3. Reached' = lastSize
  BY <1>1 DEF Reached
<1>4. InLog'
  BY <1>1 DEF Rest, Core, InLog
<1>5. Sent \subseteq Sent'
  <2>1. wire # NULL => OnWay(OnTheWire) = EventsOf(wire)
    BY OnWire DEF OnTheWire
  <2>2. EventsIn(archive)' = EventsIn(archive)
    BY <1>1
  <2>. QED  BY <1>1, <1>2, <2>1, <2>2 DEF Sent
<1>6. PassedIsSent'
  BY <1>1, <1>3, <1>5 DEF Rest, Core, PassedIsSent
<1>7. OneCopyPerRun'
  <2>. SUFFICES ASSUME NEW n \in Events  PROVE Copies(n)' <= crashes + 1
    BY <1>1 DEF OneCopyPerRun, Typed, TypeOK
  <2>1. Copies(n) <= crashes + (IF pc # "down" /\ n \in Before(eventLog, Reached) THEN 1 ELSE 0)
    BY DEF Rest, Core, OneCopyPerRun
  <2>2. Copies(n) \in Nat /\ Copies(n)' \in Nat /\ crashes \in Nat /\ Copies(n)' <= Copies(n)
    BY <1>2, CopiesAreCounted DEF Typed, TypeOK
  <2>. QED  BY <2>1, <2>2
<1>8. crashes' # 0
  BY <1>1 DEF Typed, TypeOK
<1>. QED  BY <1>4, <1>6, <1>7, <1>8 DEF Rest, Core

\* The server handles the request on the wire.
LEMMA ServerMoves ==
    ASSUME Typed, Typed', Rest, ServerLog
    PROVE  Rest'
<1>1. /\ wire # NULL /\ wire' = NULL /\ connected /\ wire \in Line /\ archive \in Seq(Line)
      /\ archive' = IF registered THEN Append(archive, wire) ELSE archive
      /\ UNCHANGED <<eventLog, offsetFile, clientVars, orphans, registered, broke, crashes, lost>>
      /\ pc # "down"
  BY DEF ServerLog, Archived, ghostVars, clientVars, Typed, TypeOK
<1>2. /\ OnWay(OnTheWire) = EventsOf(wire)
      /\ \A n : CopiesOnWay(OnTheWire, n) = IF n \in EventsOf(wire) THEN 1 ELSE 0
  BY <1>1, OnWire DEF OnTheWire
<1>3. OnWay(OnTheWire)' = {} /\ \A n : CopiesOnWay(OnTheWire, n)' = 0
  BY <1>1, OnWire DEF OnTheWire
<1>4. /\ EventsIn(Append(archive, wire)) = EventsIn(archive) \cup EventsOf(wire)
      /\ \A n : CopiesOf(Append(archive, wire), n) =
                  CopiesOf(archive, n) + (IF n \in EventsOf(wire) THEN 1 ELSE 0)
  BY <1>1, OneMoreArchived
<1>5. registered => Sent' = Sent
  BY <1>1, <1>2, <1>3, <1>4 DEF Sent
<1>6. ASSUME NEW n \in Events  PROVE Copies(n)' <= Copies(n) /\ Copies(n)' \in Nat
  <2>1. /\ CopiesOf(archive, n) \in Nat /\ CopiesOnWay(orphans, n) \in Nat
    BY CopiesAreCounted
  <2>2. /\ Copies(n)' = CopiesOf(archive', n) + CopiesOnWay(orphans, n) + 0
        /\ Copies(n) = CopiesOf(archive, n) + CopiesOnWay(orphans, n)
                         + (IF n \in EventsOf(wire) THEN 1 ELSE 0)
    BY <1>1, <1>2, <1>3 DEF Copies
  <2>3. CopiesOf(archive', n) = CopiesOf(archive, n)
                                  + (IF registered /\ n \in EventsOf(wire) THEN 1 ELSE 0)
    BY <1>1, <1>4, <2>1
  <2>. QED  BY <2>1, <2>2, <2>3
<1>7. Core' /\ Reached' = Reached
  BY <1>1, <1>5, <1>6, MessagesMove
<1>8. ASSUME crashes' = 0  PROVE FirstRunInOrder'
  <2>1. FirstRunInOrder /\ orphans = {} /\ orphans' = {}
    BY <1>1, <1>8 DEF Rest, FirstRunInOrder
  <2>2. OnWay(orphans') = {} /\ eventLog' = eventLog /\ pc' = pc
    BY <1>1, <2>1, OneOnWay DEF clientVars
  <2>3. \A m \in EventsIn(archive), n \in EventsOf(wire) : m < n
    BY <1>2, <2>1 DEF FirstRunInOrder
  <2>4. MessagesInOrder(archive')
    BY <1>1, <2>1, <2>3, OrderKept DEF FirstRunInOrder
  <2>5. EventsIn(archive') \subseteq Before(eventLog, Reached)
    BY <1>1, <1>2, <1>4, <2>1 DEF FirstRunInOrder
  <2>. QED  BY <1>1, <1>3, <1>7, <2>1, <2>2, <2>4, <2>5 DEF FirstRunInOrder
<1>. QED  BY <1>7, <1>8 DEF Rest

\* The server handles a request of a connection that is given up.
LEMMA OrphanMoves ==
    ASSUME Typed, Typed', Rest, ServerLogOrphan
    PROVE  Rest'
<1>1. PICK o \in orphans :
        /\ archive' = IF registered THEN Append(archive, o.line) ELSE archive
        /\ orphans' = orphans \ {o}
  BY DEF ServerLogOrphan, Archived
<1>2. /\ UNCHANGED <<eventLog, offsetFile, clientVars, wire, registered, broke, crashes, lost>>
      /\ o.line \in Line /\ archive \in Seq(Line) /\ IsFiniteSet(orphans)
      /\ OnTheWire' = OnTheWire
  BY DEF ServerLogOrphan, ghostVars, Typed, TypeOK, OnTheWire
<1>. DEFINE line == o.line
<1>. HIDE DEF line
<1>3. /\ OnWay(orphans) = OnWay(orphans') \cup EventsOf(line)
      /\ \A n : CopiesOnWay(orphans, n) =
                  CopiesOnWay(orphans', n) + (IF n \in EventsOf(line) THEN 1 ELSE 0)
      /\ IsFiniteSet(orphans')
  BY <1>1, <1>2, OneLessOnWay DEF line
<1>4. /\ EventsIn(Append(archive, line)) = EventsIn(archive) \cup EventsOf(line)
      /\ \A n : CopiesOf(Append(archive, line), n) =
                  CopiesOf(archive, n) + (IF n \in EventsOf(line) THEN 1 ELSE 0)
  BY <1>2, OneMoreArchived DEF line
<1>5. archive' = IF registered THEN Append(archive, line) ELSE archive
  BY <1>1 DEF line
<1>6. registered => Sent' = Sent
  BY <1>2, <1>3, <1>4, <1>5 DEF Sent
<1>7. ASSUME NEW n \in Events  PROVE Copies(n)' <= Copies(n) /\ Copies(n)' \in Nat
  <2>1. /\ CopiesOf(archive, n) \in Nat /\ CopiesOnWay(OnTheWire, n) \in Nat
        /\ CopiesOnWay(orphans', n) \in Nat
    BY <1>3, CopiesAreCounted, CopiesCounted
  <2>2. /\ Copies(n)' = CopiesOf(archive', n) + CopiesOnWay(orphans', n) + CopiesOnWay(OnTheWire, n)
        /\ Copies(n) = CopiesOf(archive, n) + CopiesOnWay(orphans, n) + CopiesOnWay(OnTheWire, n)
    BY <1>2 DEF Copies
  <2>3. CopiesOf(archive', n) = CopiesOf(archive, n)
                                  + (IF registered /\ n \in EventsOf(line) THEN 1 ELSE 0)
    BY <1>4, <1>5, <2>1
  <2>. QED  BY <1>3, <2>1, <2>2, <2>3
<1>8. Core' /\ Reached' = Reached
  BY <1>2, <1>6, <1>7, MessagesMove
<1>9. ASSUME crashes' = 0  PROVE FirstRunInOrder'
  <2>1. FirstRunInOrder /\ ~connected /\ pc # "down"
    BY <1>1, <1>2, <1>9 DEF Rest, FirstRunInOrder
  <2>2. wire = NULL /\ eventLog' = eventLog /\ pc' = pc
    BY <1>2, <2>1 DEF clientVars, Typed
  <2>3. orphans' = {}
    BY <1>1, <2>1 DEF FirstRunInOrder
  <2>4. OnWay(orphans') = {} /\ OnWay(OnTheWire') = {}
    BY <1>2, <2>2, <2>3, OnWire, OneOnWay DEF OnTheWire
  <2>5. \A m \in EventsIn(archive), n \in EventsOf(line) : m < n
    BY <1>3, <2>1 DEF FirstRunInOrder
  <2>6. MessagesInOrder(archive')
    BY <1>2, <1>5, <2>1, <2>5, OrderKept DEF FirstRunInOrder, line
  <2>7. EventsIn(archive') \subseteq Before(eventLog, Reached)
    BY <1>3, <1>4, <1>5, <2>1 DEF FirstRunInOrder
  <2>. QED  BY <1>8, <2>1, <2>2, <2>3, <2>4, <2>6, <2>7 DEF FirstRunInOrder
<1>. QED  BY <1>8, <1>9 DEF Rest

\* The client's row is deleted.
LEMMA DeregisterMoves ==
    ASSUME Typed, Rest, Deregister
    PROVE  Rest'
<1>1. /\ ~registered'
      /\ UNCHANGED <<eventLog, offsetFile, clientVars, wire, orphans, archive, broke, crashes, lost>>
      /\ OnTheWire' = OnTheWire
  BY DEF Deregister, ghostVars, OnTheWire
<1>2. \A n : Copies(n)' = Copies(n)
  BY <1>1 DEF Copies
<1>3. Core' /\ Reached' = Reached
  <2>1. \A n \in Events : Copies(n)' <= Copies(n) /\ Copies(n)' \in Nat
    BY <1>2, CopiesAreCounted
  <2>. QED  BY <1>1, <2>1, MessagesMove
<1>4. ASSUME crashes' = 0  PROVE FirstRunInOrder'
  <2>1. FirstRunInOrder
    BY <1>1, <1>4 DEF Rest
  <2>. QED  BY <1>1, <1>3, <2>1 DEF FirstRunInOrder, clientVars
<1>. QED  BY <1>3, <1>4 DEF Rest

-----------------------------------------------------------------------------
(* The theorems.                                                             *)

LEMMA InvInit == Init => ShippingInv
<1>. SUFFICES ASSUME Init  PROVE ShippingInv
  OBVIOUS
<1>. USE ShippingAssumption DEF Init
<1>1. Typed
  <2>1. IsFiniteSet(orphans)
    BY FS_EmptySet
  <2>2. eventLog \in Seq(Events \cup {EOL}) /\ unsent \in Seq(Unit) /\ archive \in Seq(Line)
    OBVIOUS
  <2>3. /\ pc \in {"down", "stat", "read", "send", "wait", "save"}
        /\ IF unsent = <<>> THEN pc # "wait" ELSE unsent[1] # EOL
        /\ offsetFile \in Nat \cup {NULL} /\ lastSize \in Nat /\ size \in Nat
        /\ connected \in BOOLEAN /\ registered \in BOOLEAN /\ broke \in BOOLEAN
    OBVIOUS
  <2>4. /\ logged \in 0..MaxEvents /\ truncations \in 0..MaxTruncations
        /\ crashes \in 0..MaxCrashes
    OBVIOUS
  <2>5. TypeOK
    BY <2>2, <2>3, <2>4 DEF TypeOK
  <2>. QED  BY <2>1, <2>5 DEF Typed
<1>2. LogInOrder
  BY DEF LogInOrder, InOrder
<1>3. InLog
  BY DEF InLog
<1>4. Reached = 0 /\ OnTheWire = {} /\ \A s : Before(s, 0) = {}
  BY DEF Reached, OnTheWire, Before
<1>5. PassedIsSent
  BY <1>4 DEF PassedIsSent
<1>6. OneCopyPerRun
  <2>1. \A n : CopiesOnWay({}, n) = 0
    BY OneOnWay
  <2>2. \A n : CopiesOf(<<>>, n) = 0
    <3>1. \A n : {i \in DOMAIN <<>> : n \in EventsOf(<<>>[i])} = {}
      OBVIOUS
    <3>. QED  BY <3>1, FS_EmptySet DEF CopiesOf
  <2>3. \A n : Copies(n) = 0
    BY <1>4, <2>1, <2>2 DEF Copies
  <2>. QED  BY <2>3 DEF OneCopyPerRun
<1>7. FirstRunInOrder
  <2>1. EventsIn(<<>>) = {} /\ OnWay({}) = {} /\ MessagesInOrder(<<>>)
    BY DEF EventsIn, OnWay, MessagesInOrder
  <2>. QED  BY <1>4, <2>1 DEF FirstRunInOrder
<1>. QED  BY <1>1, <1>2, <1>3, <1>5, <1>6, <1>7 DEF ShippingInv

LEMMA InvKept ==
    ASSUME ShippingInv, [Next]_vars
    PROVE  ShippingInv'
<1>1. Typed /\ LogInOrder /\ Typed' /\ LogInOrder'
  BY TypedKept DEF ShippingInv
<1>2. ASSUME truncations' = 0  PROVE Rest'
  <2>1. truncations = 0 /\ ~Truncate
    <3>1. truncations \in Nat
      BY <1>1 DEF Typed, TypeOK
    <3>2. ~Truncate
      BY <1>2, <3>1 DEF Truncate
    <3>3. truncations' = truncations
      BY <3>2 DEF Next, LogEvent, Watcher, Start, Stat, Read, Send, Return, SendFails,
                  AdvancePosition, SaveOffset, Break, Crash, Server, ServerLog,
                  ServerLogOrphan, Deregister, vars, ghostVars
    <3>. QED  BY <1>2, <3>2, <3>3
  <2>2. Rest
    BY <2>1 DEF ShippingInv, Rest, Core
  <2>3. CASE LogEvent \/ Start \/ Stat \/ AdvancePosition \/ SaveOffset
    BY <1>1, <2>2, <2>3, WatcherMoves
  <2>4. CASE Read
    BY <1>1, <2>2, <2>4, ReadMoves
  <2>5. CASE Send
    BY <1>1, <2>2, <2>5, SendMoves
  <2>6. CASE Return \/ SendFails
    BY <1>1, <2>2, <2>6, LineDone
  <2>7. CASE Break
    BY <1>1, <2>2, <2>7, BreakMoves
  <2>8. CASE Crash
    BY <1>1, <2>2, <2>8, CrashMoves
  <2>9. CASE ServerLog
    BY <1>1, <2>2, <2>9, ServerMoves
  <2>10. CASE ServerLogOrphan
    BY <1>1, <2>2, <2>10, OrphanMoves
  <2>11. CASE Deregister
    BY <1>1, <2>2, <2>11, DeregisterMoves
  <2>12. CASE UNCHANGED vars
    BY <2>2, <2>12 DEF vars, clientVars, serverVars, ghostVars, Rest, Core, InLog, PassedIsSent,
                       OneCopyPerRun, FirstRunInOrder, Reached, Sent, Copies, OnTheWire
  <2>. QED  BY <2>1, <2>3, <2>4, <2>5, <2>6, <2>7, <2>8, <2>9, <2>10, <2>11, <2>12
            DEF Next, Watcher, Server
<1>. QED  BY <1>1, <1>2 DEF ShippingInv, Rest, Core

LEMMA InvAlways == Spec => []ShippingInv
BY InvInit, InvKept, PTL DEF Spec

\* Positions, the lines of a round, the wire and the archive keep their types,
\* and a line is never waited for that is not there.
THEOREM TypeCorrect == Spec => []TypeOK
BY InvAlways, PTL DEF ShippingInv, Typed

\* main.go:150-180, for any number of events, crashes and breaks: what lies
\* before the watcher's position, or before the one in the offset file, has been
\* sent, unless the event log was cleared, a connection broke or the client was
\* deleted.
THEOREM PositionsCovered == Spec => []PositionCovers
<1>1. ShippingInv => PositionCovers
  <2>. SUFFICES ASSUME ShippingInv, truncations = 0, ~broke, registered
                PROVE  /\ offsetFile # NULL =>
                            EventsBefore(offsetFile) \subseteq
                                ArchivedEvents \cup InFlightEvents \cup lost
                       /\ EventsBefore(lastSize) \subseteq
                                ArchivedEvents \cup InFlightEvents \cup lost
    BY DEF PositionCovers
  <2>1. /\ offsetFile # NULL => Before(eventLog, offsetFile) \subseteq Sent
        /\ Before(eventLog, lastSize) \subseteq Sent
    BY DEF ShippingInv, PassedIsSent
  <2>2. Sent = ArchivedEvents \cup InFlightEvents \cup lost
    <3>1. ArchivedEvents = EventsIn(archive)
      BY DEF ArchivedEvents, EventsIn
    <3>2. InFlightEvents = OnWay(orphans) \cup OnWay(OnTheWire)
      BY DEF InFlightEvents, OnWay
    <3>. QED  BY <3>1, <3>2 DEF Sent
  <2>. QED  BY <2>1, <2>2 DEF EventsBefore, Before
<1>. QED  BY <1>1, InvAlways, PTL

\* main.go:150-180, tcpserver.go:168-225: an event is archived at most once for
\* each run of the client, however its requests are delayed, and within the first
\* run in the order in which the events were logged.
THEOREM ArchivedOncePerRun == Spec => []OncePerRun
<1>1. ShippingInv => OncePerRun
  <2>. SUFFICES ASSUME ShippingInv, truncations = 0  PROVE
           /\ \A n \in Events : CopiesOf(archive, n) <= crashes + 1
           /\ crashes = 0 => MessagesInOrder(archive)
    BY DEF OncePerRun, CopiesOf, MessagesInOrder
  <2>1. ASSUME NEW n \in Events  PROVE CopiesOf(archive, n) <= crashes + 1
    <3>1. Copies(n) <= crashes + (IF pc # "down" /\ n \in Before(eventLog, Reached) THEN 1 ELSE 0)
      BY DEF ShippingInv, OneCopyPerRun
    <3>2. /\ CopiesOf(archive, n) \in Nat /\ CopiesOnWay(orphans, n) \in Nat
          /\ CopiesOnWay(OnTheWire, n) \in Nat /\ crashes \in Nat
      BY CopiesAreCounted DEF ShippingInv, Typed, TypeOK
    <3>. QED  BY <3>1, <3>2 DEF Copies
  <2>2. crashes = 0 => MessagesInOrder(archive)
    BY DEF ShippingInv, FirstRunInOrder
  <2>. QED  BY <2>1, <2>2
<1>. QED  BY <1>1, InvAlways, PTL
=============================================================================
