----------------------- MODULE ConversationViewProofs -----------------------
(***************************************************************************)
(* Proofs about module ConversationView, for any conversations, any limit  *)
(* of a history answer and any number of messages and selections.          *)
(***************************************************************************)
EXTENDS ConversationView, FiniteSetTheorems, SequenceTheorems, TLAPS

\* The messages that are stored at all.
AllStored == UNION {Elements(stored[c]) : c \in Convs}

\* No message occurs in q twice.
NoRepeat(q) == \A i, j \in DOMAIN q : q[i] = q[j] => i = j

\* Messages are numbered as they are saved, each belongs to one conversation, and occurs
\* in it once.
Numbered ==
    /\ \E n \in 0..MaxMessages : AllStored = 1..n
    /\ \A c, d \in Convs : c # d => Elements(stored[c]) \cap Elements(stored[d]) = {}
    /\ \A c \in Convs : NoRepeat(stored[c])

\* What is under way, or on the screen, has been stored.
Known ==
    /\ \A s \in pending : s.id \in AllStored
    /\ \A e \in Elements(events) : e.id \in AllStored
    /\ \A f \in DOMAIN fetches : /\ Elements(fetches[f].rows) \subseteq Elements(stored[fetches[f].conv])
                                 /\ NoRepeat(fetches[f].rows)
    /\ Elements(view) \subseteq AllStored

\* The socket is the selected channel's, and what it holds is stored there.
Attached ==
    /\ socket.pc = "closed" => socket.inbox = <<>>
    /\ socket.pc # "closed" => /\ socket.conv \in Channels /\ socket.conv = selected
                               /\ Elements(socket.inbox) \subseteq Elements(stored[socket.conv])

\* What is on the screen is the selected conversation's.
Placed ==
    ~stray => \A m \in Elements(view) : selected \in Convs /\ m \in Elements(stored[selected])

\* The message m occurs in q at most once, and at most twice.
Once(q, m) == \A i, j \in DOMAIN q : (q[i] = m /\ q[j] = m) => i = j
Twice(q, m) ==
    \A i, j, k \in DOMAIN q : (q[i] = m /\ q[j] = m /\ q[k] = m) => i = j \/ j = k \/ i = k

\* What the socket has, or may still get, it gets once.
Live ==
    /\ \A s, t \in pending : s.id = t.id => s = t
    /\ NoRepeat(socket.inbox)
    /\ \A s \in pending : s.id \notin Elements(socket.inbox)

\* A direct message, and a message that may still come over the socket, has been shown at
\* most once.
ToShowOnce(m) ==
    \/ m \in Elements(socket.inbox)
    \/ \E s \in pending : s.id = m
    \/ \E p \in Peers : m \in Elements(stored[p])

Shown == \A m \in Messages : Twice(view, m) /\ (ToShowOnce(m) => Once(view, m))

\* The message m of the selected conversation is on the screen, known to be missed, on its
\* way, awaited in a history answer, or beyond the answer's limit.
Covered(m) ==
    \/ m \in Elements(view) \cup missed \cup Elements(socket.inbox)
    \/ \E s \in pending : s.id = m
    \/ \E e \in Elements(events) : e.type \in {"message_sent", "ack"} /\ e.id = m
    \/ \E f \in DOMAIN fetches :
           /\ fetches[f].conv = selected
           /\ fetches[f].pc = "asked" \/ (fetches[f].pc = "answered" /\ m \in Elements(fetches[f].rows))
    \/ m \notin Elements(History(selected))

Accounted ==
    selected \in Convs /\ ~stray => \A m \in Elements(stored[selected]) : Covered(m)

-----------------------------------------------------------------------------
(* Sequences                                                               *)

\* Appending adds one element.
LEMMA ElementsAppend ==
    ASSUME NEW S, NEW q \in Seq(S), NEW m \in S
    PROVE  Elements(Append(q, m)) = Elements(q) \cup {m}
  <1>1. /\ Append(q, m) \in Seq(S) /\ Len(Append(q, m)) = Len(q) + 1 /\ Len(q) \in Nat
        /\ \A i \in 1..Len(q) : Append(q, m)[i] = q[i]
        /\ Append(q, m)[Len(q) + 1] = m
    BY AppendProperties, LenProperties
  <1>2. DOMAIN q = 1..Len(q) /\ DOMAIN Append(q, m) = 1..(Len(q) + 1)
    BY <1>1, LenProperties
  <1> QED BY <1>1, <1>2 DEF Elements

\* The elements of a sequence are of its type, and the empty one has none.
LEMMA ElementsTyped == ASSUME NEW S, NEW q \in Seq(S) PROVE Elements(q) \subseteq S
  BY LenProperties, ElementOfSeq DEF Elements

LEMMA ElementsEmpty == Elements(<<>>) = {} /\ NoRepeat(<<>>)
  BY DEF Elements, NoRepeat

\* The elements of a concatenation are those of its parts.
LEMMA ElementsConcat ==
    ASSUME NEW S, NEW q \in Seq(S), NEW r \in Seq(S)
    PROVE  Elements(q \o r) = Elements(q) \cup Elements(r)
  <1> DEFINE cat == q \o r
  <1>1. /\ cat \in Seq(S) /\ Len(cat) = Len(q) + Len(r)
        /\ Len(q) \in Nat /\ Len(r) \in Nat
    BY ConcatProperties, LenProperties
  <1>2. \A i \in 1..Len(q) + Len(r) : cat[i] = IF i <= Len(q) THEN q[i] ELSE r[i - Len(q)]
    BY ConcatProperties, Zenon
  <1>3. DOMAIN q = 1..Len(q) /\ DOMAIN r = 1..Len(r) /\ DOMAIN cat = 1..Len(cat)
    BY <1>1, LenProperties
  <1> HIDE DEF cat
  <1>4. ASSUME NEW i \in DOMAIN cat PROVE cat[i] \in Elements(q) \cup Elements(r)
    <2>1. CASE i <= Len(q)
      BY <1>1, <1>2, <1>3, <2>1 DEF Elements
    <2>2. CASE ~(i <= Len(q))
      <3>1. i - Len(q) \in 1..Len(r) /\ cat[i] = r[i - Len(q)]
        BY <1>1, <1>2, <1>3, <2>2
      <3> QED BY <1>3, <3>1 DEF Elements
    <2> QED BY <2>1, <2>2
  <1>5. ASSUME NEW i \in DOMAIN q PROVE q[i] \in Elements(cat)
    <2>1. i \in DOMAIN cat /\ cat[i] = q[i]
      BY <1>1, <1>2, <1>3
    <2> QED BY <2>1 DEF Elements
  <1>6. ASSUME NEW i \in DOMAIN r PROVE r[i] \in Elements(cat)
    <2>1. /\ Len(q) + i \in 1..Len(q) + Len(r) /\ ~(Len(q) + i <= Len(q))
          /\ (Len(q) + i) - Len(q) = i
      BY <1>1, <1>3
    <2>2. Len(q) + i \in DOMAIN cat /\ cat[Len(q) + i] = r[i]
      BY <1>1, <1>2, <1>3, <2>1
    <2> QED BY <2>2 DEF Elements
  <1>7. Elements(cat) = Elements(q) \cup Elements(r)
    BY <1>4, <1>5, <1>6 DEF Elements
  <1> QED BY <1>7 DEF cat

\* The elements of a queue are its head and those of its tail; without repetition the
\* head is not in the tail.
LEMMA ElementsHeadTail ==
    ASSUME NEW S, NEW q \in Seq(S), q # <<>>
    PROVE  /\ Head(q) \in S /\ Tail(q) \in Seq(S)
           /\ Elements(q) = {Head(q)} \cup Elements(Tail(q))
           /\ NoRepeat(q) => NoRepeat(Tail(q)) /\ Head(q) \notin Elements(Tail(q))
  <1>1. /\ Head(q) \in S /\ Tail(q) \in Seq(S) /\ Len(Tail(q)) = Len(q) - 1
        /\ \A i \in 1..Len(Tail(q)) : Tail(q)[i] = q[i + 1]
    BY HeadTailProperties
  <1>2. Len(q) \in Nat \ {0} /\ Head(q) = q[1]
    BY EmptySeq
  <1>3. DOMAIN q = 1..Len(q) /\ DOMAIN Tail(q) = 1..(Len(q) - 1)
    BY <1>1, LenProperties
  <1> DEFINE t == Tail(q)
  <1> HIDE DEF t
  <1>4. DOMAIN t = 1..(Len(q) - 1) /\ \A i \in DOMAIN t : t[i] = q[i + 1]
    BY <1>1, <1>2, <1>3 DEF t
  <1>5. Elements(q) = {q[1]} \cup Elements(t)
    <2>1. \A i \in DOMAIN q : i = 1 \/ (i - 1 \in DOMAIN t /\ t[i - 1] = q[i])
      BY <1>2, <1>3, <1>4
    <2>2. \A i \in DOMAIN t : i + 1 \in DOMAIN q /\ t[i] = q[i + 1]
      BY <1>2, <1>3, <1>4
    <2>3. 1 \in DOMAIN q
      BY <1>2, <1>3
    <2> QED BY <2>1, <2>2, <2>3 DEF Elements
  <1>6. ASSUME NoRepeat(q) PROVE NoRepeat(t) /\ q[1] \notin Elements(t)
    <2>1. \A i \in DOMAIN t : i + 1 \in DOMAIN q /\ t[i] = q[i + 1] /\ i \in Nat /\ i + 1 # 1
      BY <1>2, <1>3, <1>4
    <2>2. 1 \in DOMAIN q
      BY <1>2, <1>3
    <2>3. q[1] \notin Elements(t)
      BY <1>6, <2>1, <2>2 DEF Elements, NoRepeat
    <2>4. \A i, j \in DOMAIN t : i + 1 = j + 1 => i = j
      BY <2>1
    <2>5. NoRepeat(t)
      BY <1>6, <2>1, <2>4 DEF NoRepeat
    <2> QED BY <2>3, <2>5
  <1> QED BY <1>1, <1>2, <1>5, <1>6 DEF t

\* A new element at the end repeats nothing.
LEMMA NoRepeatAppend ==
    ASSUME NEW S, NEW q \in Seq(S), NEW m \in S, NoRepeat(q), m \notin Elements(q)
    PROVE  NoRepeat(Append(q, m))
  <1>1. /\ Append(q, m) \in Seq(S) /\ Len(Append(q, m)) = Len(q) + 1 /\ Len(q) \in Nat
        /\ \A i \in 1..Len(q) : Append(q, m)[i] = q[i]
        /\ Append(q, m)[Len(q) + 1] = m
    BY AppendProperties, LenProperties
  <1>2. DOMAIN q = 1..Len(q) /\ DOMAIN Append(q, m) = 1..(Len(q) + 1)
    BY <1>1, LenProperties
  <1>3. \A i \in DOMAIN Append(q, m) : i \in DOMAIN q \/ i = Len(q) + 1
    BY <1>1, <1>2
  <1> QED BY <1>1, <1>2, <1>3 DEF NoRepeat, Elements

\* A piece of a sequence has no other elements than the sequence, and repeats nothing if
\* the sequence does not.
LEMMA PieceOf ==
    ASSUME NEW S, NEW q \in Seq(S), NEW a \in Nat \ {0}, NEW b \in Nat, b <= Len(q)
    PROVE  /\ SubSeq(q, a, b) \in Seq(S)
           /\ DOMAIN SubSeq(q, a, b) = 1..(b - a + 1)
           /\ \A i \in 1..(b - a + 1) : SubSeq(q, a, b)[i] = q[a + i - 1]
           /\ Elements(SubSeq(q, a, b)) = {q[i] : i \in a..b}
           /\ NoRepeat(q) => NoRepeat(SubSeq(q, a, b))
  <1>0. Len(q) \in Nat /\ DOMAIN q = 1..Len(q)
    BY LenProperties
  <1>1. \A i \in a..b : q[i] \in S /\ i \in DOMAIN q
    BY <1>0, ElementOfSeq
  <1> DEFINE p == SubSeq(q, a, b)
  <1>2. /\ p \in Seq(S) /\ Len(p) = IF a <= b THEN b - a + 1 ELSE 0
        /\ \A i \in 1..(b - a + 1) : p[i] = q[a + i - 1]
    BY <1>1, SubSeqProperties
  <1>3. DOMAIN p = 1..Len(p)
    BY <1>2, LenProperties
  <1> HIDE DEF p
  <1>4. DOMAIN p = 1..(b - a + 1)
    BY <1>2, <1>3
  <1>5. \A i \in DOMAIN p : a + i - 1 \in a..b /\ p[i] = q[a + i - 1]
    BY <1>2, <1>4
  <1>6. \A i \in a..b : i - a + 1 \in DOMAIN p /\ p[i - a + 1] = q[i]
    BY <1>2, <1>4
  <1>7. Elements(p) = {q[i] : i \in a..b}
    <2>1. \A x \in Elements(p) : \E i \in a..b : x = q[i]
      BY <1>5 DEF Elements
    <2>2. \A i \in a..b : q[i] \in Elements(p)
      BY <1>6 DEF Elements
    <2> QED BY <2>1, <2>2
  <1>8. \A i, j \in DOMAIN p : a + i - 1 = a + j - 1 => i = j
    BY <1>4
  <1>9. NoRepeat(q) => NoRepeat(p)
    BY <1>1, <1>5, <1>8 DEF NoRepeat
  <1> QED BY <1>2, <1>4, <1>7, <1>9 DEF p

-----------------------------------------------------------------------------
(* How often a message occurs                                              *)

\* How often a message occurs when one is appended.
LEMMA OccurrencesAppend ==
    ASSUME NEW S, NEW q \in Seq(S), NEW h \in S
    PROVE  /\ \A m : m # h /\ Once(q, m) => Once(Append(q, h), m)
           /\ \A m : m # h /\ Twice(q, m) => Twice(Append(q, h), m)
           /\ Once(q, h) => Twice(Append(q, h), h)
           /\ h \notin Elements(q) => Once(Append(q, h), h)
  <1>1. PICK n \in Nat : n = Len(q)
    BY LenProperties
  <1>2. PICK r \in Seq(S) : r = Append(q, h)
    BY AppendProperties
  <1>3. Len(r) = n + 1 /\ (\A i \in 1..n : r[i] = q[i]) /\ r[n + 1] = h
    BY <1>1, <1>2, AppendProperties
  <1>4. DOMAIN q = 1..n /\ DOMAIN r = 1..(n + 1)
    BY <1>1, <1>3, LenProperties
  <1>5. \A i \in DOMAIN r : (i \in DOMAIN q /\ r[i] = q[i]) \/ (i = n + 1 /\ r[i] = h)
    BY <1>3, <1>4
  <1>6. \A m : m # h => \A i \in DOMAIN r : r[i] = m => i \in DOMAIN q /\ q[i] = m
    BY <1>5
  <1>7. /\ \A m : m # h /\ Once(q, m) => Once(r, m)
        /\ \A m : m # h /\ Twice(q, m) => Twice(r, m)
    BY <1>6 DEF Once, Twice
  <1>8. Once(q, h) => Twice(r, h)
    BY <1>5 DEF Once, Twice
  <1>9. h \notin Elements(q) => Once(r, h)
    BY <1>5 DEF Once, Elements
  <1> QED BY <1>2, <1>7, <1>8, <1>9

LEMMA OnceIsTwice == ASSUME NEW q, NEW m, Once(q, m) PROVE Twice(q, m)
  BY DEF Once, Twice

LEMMA NoRepeatIsOnce == ASSUME NEW q, NEW m, NoRepeat(q) PROVE Once(q, m)
  BY DEF Once, NoRepeat

\* A message that does not occur occurs at most once.
LEMMA AbsentIsOnce == ASSUME NEW q, NEW m, m \notin Elements(q) PROVE Once(q, m)
  BY DEF Once, Elements

\* Without three different elements a set has at most two, and without two at most one.
LEMMA FewElements ==
    ASSUME NEW T, IsFiniteSet(T)
    PROVE  /\ (\A i, j \in T : i = j) => Cardinality(T) <= 1
           /\ (\A i, j, k \in T : i = j \/ j = k \/ i = k) => Cardinality(T) <= 2
  <1>1. CASE T = {}
    BY <1>1, FS_EmptySet
  <1>2. ASSUME NEW i \in T, T = {i} PROVE Cardinality(T) = 1
    BY <1>2, FS_Singleton
  <1>3. ASSUME NEW i \in T, NEW j \in T, i # j, T = {i, j} PROVE Cardinality(T) = 2
    <2>1. IsFiniteSet({i}) /\ Cardinality({i}) = 1 /\ j \notin {i}
      BY <1>3, FS_Singleton
    <2>2. Cardinality({i} \cup {j}) = Cardinality({i}) + 1
      BY <2>1, FS_AddElement
    <2>3. T = {i} \cup {j}
      BY <1>3
    <2> QED BY <2>1, <2>2, <2>3
  <1>4. ASSUME NEW i \in T, \A j, k \in T : j = k PROVE Cardinality(T) <= 1
    <2>1. T = {i}
      BY <1>4
    <2> QED BY <1>2, <2>1
  <1>5. ASSUME NEW i \in T, \A a, b, c \in T : a = b \/ b = c \/ a = c PROVE Cardinality(T) <= 2
    <2>1. CASE T = {i}
      BY <1>2, <2>1
    <2>2. CASE T # {i}
      <3>1. PICK j \in T : j # i
        BY <2>2
      <3>2. T = {i, j}
        BY <1>5, <3>1
      <3> QED BY <1>3, <3>1, <3>2
    <2> QED BY <2>1, <2>2
  <1> QED BY <1>1, <1>4, <1>5, FS_EmptySet

\* What that means for the count of a message.
LEMMA CountIs ==
    ASSUME NEW S, NEW q \in Seq(S), NEW m
    PROVE  /\ Once(q, m) => Count(q, m) <= 1
           /\ Twice(q, m) => Count(q, m) <= 2
  <1> DEFINE T == {i \in DOMAIN q : q[i] = m}
  <1>1. IsFiniteSet(DOMAIN q)
    BY LenProperties, FS_Interval
  <1>2. IsFiniteSet(T)
    BY <1>1, FS_Subset
  <1>3. Once(q, m) => \A i, j \in T : i = j
    BY DEF Once
  <1>4. Twice(q, m) => \A i, j, k \in T : i = j \/ j = k \/ i = k
    BY DEF Twice
  <1>5. Count(q, m) = Cardinality(T)
    BY DEF Count
  <1> HIDE DEF T
  <1> QED BY <1>2, <1>3, <1>4, <1>5, FewElements

-----------------------------------------------------------------------------
(* The answers to history requests                                         *)

\* The shorter of two lengths, and how it grows.
LEMMA ShorterIs ==
    ASSUME NEW n \in Nat
    PROVE  /\ Shorter(Limit, n) \in Nat /\ Shorter(Limit, n) <= n
           /\ n - Shorter(Limit, n) + 1 \in Nat \ {0}
           /\ \A i \in 1..Shorter(Limit, n + 1) : i \in 1..Shorter(Limit, n) \/ i = n + 1
           /\ \A i \in (n + 1 - Shorter(Limit, n + 1) + 1)..(n + 1) :
                  i \in (n - Shorter(Limit, n) + 1)..n \/ i = n + 1
  BY ViewAssumption DEF Shorter

\* A history answer holds messages of its conversation, none of them twice.
LEMMA FirstAndLastOf ==
    ASSUME NEW S, NEW q \in Seq(S)
    PROVE  /\ FirstOf(q) \in Seq(S) /\ LastOf(q) \in Seq(S)
           /\ Elements(FirstOf(q)) = {q[i] : i \in 1..Shorter(Limit, Len(q))}
           /\ Elements(LastOf(q)) = {q[i] : i \in (Len(q) - Shorter(Limit, Len(q)) + 1)..Len(q)}
           /\ Elements(FirstOf(q)) \subseteq Elements(q)
           /\ Elements(LastOf(q)) \subseteq Elements(q)
           /\ NoRepeat(q) => NoRepeat(FirstOf(q)) /\ NoRepeat(LastOf(q))
  <1>1. PICK n \in Nat : n = Len(q)
    BY LenProperties
  <1>2. PICK k \in Nat : k = Shorter(Limit, n)
    BY ShorterIs
  <1>3. PICK a \in Nat \ {0} : a = n - k + 1
    BY <1>2, ShorterIs
  <1>4. k <= n /\ DOMAIN q = 1..n
    BY <1>1, <1>2, ShorterIs, LenProperties
  <1>5. /\ SubSeq(q, 1, k) \in Seq(S)
        /\ Elements(SubSeq(q, 1, k)) = {q[i] : i \in 1..k}
        /\ NoRepeat(q) => NoRepeat(SubSeq(q, 1, k))
    <2>1. 1 \in Nat \ {0} /\ k <= Len(q)
      BY <1>1, <1>4
    <2> QED BY <2>1, PieceOf
  <1>6. /\ SubSeq(q, a, n) \in Seq(S)
        /\ Elements(SubSeq(q, a, n)) = {q[i] : i \in a..n}
        /\ NoRepeat(q) => NoRepeat(SubSeq(q, a, n))
    <2>1. n <= Len(q)
      BY <1>1
    <2> QED BY <2>1, PieceOf
  <1>7. FirstOf(q) = SubSeq(q, 1, k) /\ LastOf(q) = SubSeq(q, a, n)
    BY <1>1, <1>2, <1>3, Zenon DEF FirstOf, LastOf
  <1>8. 1..k \subseteq DOMAIN q /\ a..n \subseteq DOMAIN q
    BY <1>4
  <1>9. /\ Shorter(Limit, Len(q)) = k
        /\ Len(q) - Shorter(Limit, Len(q)) + 1 = a
    BY <1>1, <1>2, <1>3
  <1>10. {q[i] : i \in 1..k} \subseteq Elements(q) /\ {q[i] : i \in a..n} \subseteq Elements(q)
    BY <1>8 DEF Elements
  <1> QED BY <1>1, <1>5, <1>6, <1>7, <1>9, <1>10

\* Saving a message in a conversation brings no other one back into the answer.
LEMMA AnswerGrowsByNew ==
    ASSUME NEW S, NEW q \in Seq(S), NEW m \in S
    PROVE  /\ Elements(FirstOf(Append(q, m))) \subseteq Elements(FirstOf(q)) \cup {m}
           /\ Elements(LastOf(Append(q, m))) \subseteq Elements(LastOf(q)) \cup {m}
  <1>1. PICK n \in Nat : n = Len(q)
    BY LenProperties
  <1>2. PICK r \in Seq(S) : r = Append(q, m)
    BY AppendProperties
  <1>3. Len(r) = n + 1 /\ (\A i \in 1..n : r[i] = q[i]) /\ r[n + 1] = m
    BY <1>1, <1>2, AppendProperties
  <1>4. PICK k \in Nat : k = Shorter(Limit, n)
    BY ShorterIs
  <1>5. PICK l \in Nat : l = Shorter(Limit, n + 1)
    BY ShorterIs
  <1>6. PICK a \in Nat \ {0} : a = n - k + 1
    BY <1>4, ShorterIs
  <1>7. PICK b \in Nat \ {0} : b = n + 1 - l + 1
    BY <1>5, ShorterIs
  <1>8. /\ Elements(FirstOf(q)) = {q[i] : i \in 1..k}
        /\ Elements(LastOf(q)) = {q[i] : i \in a..n}
    <2>1. Shorter(Limit, Len(q)) = k /\ Len(q) - Shorter(Limit, Len(q)) + 1 = a
      BY <1>1, <1>4, <1>6
    <2>2. /\ Elements(FirstOf(q)) = {q[i] : i \in 1..Shorter(Limit, Len(q))}
          /\ Elements(LastOf(q)) = {q[i] : i \in (Len(q) - Shorter(Limit, Len(q)) + 1)..Len(q)}
      BY FirstAndLastOf
    <2> QED BY <1>1, <2>1, <2>2, Zenon
  <1>9. /\ Elements(FirstOf(r)) = {r[i] : i \in 1..l}
        /\ Elements(LastOf(r)) = {r[i] : i \in b..(n + 1)}
    <2>1. Shorter(Limit, Len(r)) = l /\ Len(r) - Shorter(Limit, Len(r)) + 1 = b
      BY <1>3, <1>5, <1>7
    <2>2. /\ Elements(FirstOf(r)) = {r[i] : i \in 1..Shorter(Limit, Len(r))}
          /\ Elements(LastOf(r)) = {r[i] : i \in (Len(r) - Shorter(Limit, Len(r)) + 1)..Len(r)}
      BY FirstAndLastOf
    <2> QED BY <1>3, <2>1, <2>2, Zenon
  <1>10. /\ k <= n
         /\ \A i \in 1..l : i \in 1..k \/ i = n + 1
         /\ \A i \in b..(n + 1) : i \in a..n \/ i = n + 1
    BY <1>4, <1>5, <1>6, <1>7, ShorterIs
  <1>11. (\A i \in 1..k : r[i] = q[i]) /\ (\A i \in a..n : r[i] = q[i])
    BY <1>3, <1>10
  <1>12. /\ {r[i] : i \in 1..l} \subseteq {q[i] : i \in 1..k} \cup {m}
         /\ {r[i] : i \in b..(n + 1)} \subseteq {q[i] : i \in a..n} \cup {m}
    BY <1>3, <1>10, <1>11
  <1> QED BY <1>2, <1>8, <1>9, <1>12

\* The same for the answer of either kind of conversation.
LEMMA HistoryIs ==
    ASSUME NEW c \in Convs, stored[c] \in Seq(Messages)
    PROVE  /\ History(c) \in Seq(Messages)
           /\ Elements(History(c)) \subseteq Elements(stored[c])
           /\ NoRepeat(stored[c]) => NoRepeat(History(c))
  BY FirstAndLastOf, Zenon DEF History, GetMessages, GetDirectMessages

LEMMA HistoryGrows ==
    ASSUME NEW c \in Convs, stored[c] \in Seq(Messages), NEW m \in Messages,
           stored'[c] = Append(stored[c], m)
    PROVE  Elements(History(c)') \subseteq Elements(History(c)) \cup {m}
  BY AnswerGrowsByNew, Zenon DEF History, GetMessages, GetDirectMessages

-----------------------------------------------------------------------------
(* What the actions do                                                     *)

\* A message belongs to the conversation it is stored in.
LEMMA ConvOfStored ==
    ASSUME Numbered, NEW c \in Convs, NEW m \in Elements(stored[c])
    PROVE  ConvOf(m) = c
  BY DEF Numbered, ConvOf

\* How many messages are stored is the number of the latest one.
LEMMA TotalStored ==
    ASSUME Numbered
    PROVE  Total \in 0..MaxMessages /\ AllStored = 1..Total
  <1>1. PICK n \in 0..MaxMessages : AllStored = 1..n
    BY DEF Numbered
  <1>2. n \in Nat
    BY <1>1, ViewAssumption
  <1>3. Cardinality(1..n) = n
    BY <1>2, FS_Interval
  <1>4. Total = n
    BY <1>1, <1>3 DEF Total, AllStored
  <1> QED BY <1>1, <1>4

\* What saving a message does: the next number is new, and goes to one conversation.
LEMMA SaveStores ==
    ASSUME TypeOK, Numbered, NEW c \in Convs, NEW kind \in Kinds, Save(c, kind)
    PROVE  /\ Total + 1 \in Messages /\ Total + 1 \notin AllStored
           /\ stored' \in [Convs -> Seq(Messages)]
           /\ stored'[c] = Append(stored[c], Total + 1)
           /\ Elements(stored'[c]) = Elements(stored[c]) \cup {Total + 1}
           /\ \A d \in Convs \ {c} : stored'[d] = stored[d]
           /\ \A d \in Convs : Elements(stored[d]) \subseteq Elements(stored'[d])
           /\ AllStored' = AllStored \cup {Total + 1}
           /\ pending' = pending \cup {[id |-> Total + 1, kind |-> kind]}
  <1> DEFINE m == Total + 1
  <1>1. m \in Messages /\ m \notin AllStored
    BY TotalStored, ViewAssumption DEF Save, Messages
  <1> HIDE DEF m
  <1>2. stored' = [stored EXCEPT ![c] = Append(@, m)]
        /\ pending' = pending \cup {[id |-> m, kind |-> kind]}
    BY DEF Save, m
  <1>3. stored \in [Convs -> Seq(Messages)] /\ stored[c] \in Seq(Messages)
    BY DEF TypeOK
  <1>4. Append(stored[c], m) \in Seq(Messages)
    BY <1>1, <1>3, AppendProperties
  <1>5. /\ stored' \in [Convs -> Seq(Messages)]
        /\ stored'[c] = Append(stored[c], m)
        /\ \A d \in Convs \ {c} : stored'[d] = stored[d]
    BY <1>2, <1>3, <1>4
  <1>6. Elements(stored'[c]) = Elements(stored[c]) \cup {m}
    BY <1>1, <1>3, <1>5, ElementsAppend
  <1>7. \A d \in Convs : Elements(stored[d]) \subseteq Elements(stored'[d])
    BY <1>5, <1>6
  <1>8. AllStored' = AllStored \cup {m}
    BY <1>5, <1>6 DEF AllStored
  <1> QED BY <1>1, <1>2, <1>5, <1>6, <1>7, <1>8 DEF m

\* The two ways in which a request changes, as operators of the sequence of requests.
Stages == {"asked", "answered", "done"}
Answered(q, f, rows) == [q EXCEPT ![f].pc = "answered", ![f].rows = rows]
Done(q, f) == [q EXCEPT ![f].pc = "done"]

\* A record of which a field or two are replaced.
LEMMA RecordChanged ==
    ASSUME NEW cs, NEW ps, NEW rs, NEW x \in [conv : cs, pc : ps, rows : rs],
           NEW pc \in ps, NEW rows \in rs, NEW y
    PROVE  /\ y = [x EXCEPT !.pc = pc] =>
                  y = [conv |-> x.conv, pc |-> pc, rows |-> x.rows]
           /\ y = [x EXCEPT !.pc = pc, !.rows = rows] =>
                  y = [conv |-> x.conv, pc |-> pc, rows |-> rows]
  <1>1. ASSUME y = [x EXCEPT !.pc = pc] PROVE y = [conv |-> x.conv, pc |-> pc, rows |-> x.rows]
    BY <1>1
  <1>2. ASSUME y = [x EXCEPT !.pc = pc, !.rows = rows]
        PROVE  y = [conv |-> x.conv, pc |-> pc, rows |-> rows]
    <2>1. y \in [conv : cs, pc : ps, rows : rs]
      BY <1>2
    <2>2. y.conv = x.conv /\ y.pc = pc /\ y.rows = rows
      BY <1>2
    <2> QED BY <2>1, <2>2
  <1> QED BY <1>1, <1>2

\* A function on the positions of a sequence, with values of its type, is a sequence.
LEMMA SameLength ==
    ASSUME NEW S, NEW q \in Seq(S), NEW w \in [1..Len(q) -> S]
    PROVE  w \in Seq(S) /\ Len(w) = Len(q) /\ DOMAIN w = DOMAIN q
  <1>1. Len(q) \in Nat /\ DOMAIN q = 1..Len(q)
    BY LenProperties
  <1>2. w \in Seq(S)
    BY <1>1, SeqDef
  <1> QED BY <1>1, <1>2, LenProperties

\* What the two do to the requests.
LEMMA AnsweredIs ==
    ASSUME NEW q \in Seq(Fetches), NEW f \in DOMAIN q, NEW rows \in Seq(Messages)
    PROVE  /\ Answered(q, f, rows) \in Seq(Fetches)
           /\ Len(Answered(q, f, rows)) = Len(q)
           /\ DOMAIN Answered(q, f, rows) = DOMAIN q
           /\ \A g \in DOMAIN q \ {f} : Answered(q, f, rows)[g] = q[g]
           /\ Answered(q, f, rows)[f] = [conv |-> q[f].conv, pc |-> "answered", rows |-> rows]
  <1> DEFINE cs == Convs
             rs == Seq(Messages)
  <1>1. PICK pc \in Stages : pc = "answered"
    BY DEF Stages
  <1>2. PICK w : w = [q EXCEPT ![f].pc = pc, ![f].rows = rows]
    OBVIOUS
  <1>3. w = Answered(q, f, rows)
    BY <1>1, <1>2, Zenon DEF Answered
  <1>4. Fetches = [conv : cs, pc : Stages, rows : rs] /\ rows \in rs
    BY DEF Fetches, Stages
  <1> HIDE DEF cs, rs
  <1>5. /\ q \in [1..Len(q) -> Fetches] /\ DOMAIN q = 1..Len(q)
        /\ q[f] \in [conv : cs, pc : Stages, rows : rs]
    BY <1>4, LenProperties
  <1>6. w \in [1..Len(q) -> Fetches] /\ \A g \in DOMAIN q \ {f} : w[g] = q[g]
    BY <1>2, <1>4, <1>5
  <1>7. w[f] = [q[f] EXCEPT !.pc = pc, !.rows = rows]
    BY <1>2, <1>5
  <1>8. w[f] = [conv |-> q[f].conv, pc |-> pc, rows |-> rows]
    BY <1>4, <1>5, <1>7, RecordChanged
  <1>9. w \in Seq(Fetches) /\ Len(w) = Len(q) /\ DOMAIN w = DOMAIN q
    BY <1>6, SameLength
  <1> QED BY <1>1, <1>3, <1>6, <1>8, <1>9, Zenon

LEMMA DoneIs ==
    ASSUME NEW q \in Seq(Fetches), NEW f \in DOMAIN q
    PROVE  /\ Done(q, f) \in Seq(Fetches)
           /\ Len(Done(q, f)) = Len(q)
           /\ DOMAIN Done(q, f) = DOMAIN q
           /\ \A g \in DOMAIN q \ {f} : Done(q, f)[g] = q[g]
           /\ Done(q, f)[f] = [conv |-> q[f].conv, pc |-> "done", rows |-> q[f].rows]
  <1> DEFINE cs == Convs
             rs == Seq(Messages)
  <1>1. PICK pc \in Stages : pc = "done"
    BY DEF Stages
  <1>2. PICK w : w = [q EXCEPT ![f].pc = pc]
    OBVIOUS
  <1>3. w = Done(q, f)
    BY <1>1, <1>2, Zenon DEF Done
  <1>4. Fetches = [conv : cs, pc : Stages, rows : rs]
    BY DEF Fetches, Stages
  <1> HIDE DEF cs, rs
  <1>5. /\ q \in [1..Len(q) -> Fetches] /\ DOMAIN q = 1..Len(q)
        /\ q[f] \in [conv : cs, pc : Stages, rows : rs]
    BY <1>4, LenProperties
  <1>6. /\ w \in [1..Len(q) -> Fetches]
        /\ \A g \in DOMAIN q \ {f} : w[g] = q[g]
        /\ w[f] = [q[f] EXCEPT !.pc = pc]
    BY <1>2, <1>4, <1>5
  <1>7. w[f] = [conv |-> q[f].conv, pc |-> pc, rows |-> q[f].rows]
    <2>1. PICK x \in [conv : cs, pc : Stages, rows : rs] : x = q[f]
      BY <1>5
    <2>2. w[f] = [x EXCEPT !.pc = pc]
      BY <1>6, <2>1
    <2>3. w[f] = [conv |-> x.conv, pc |-> pc, rows |-> x.rows]
      BY <2>2
    <2> QED BY <2>1, <2>3
  <1>8. w \in Seq(Fetches) /\ Len(w) = Len(q) /\ DOMAIN w = DOMAIN q
    BY <1>6, SameLength
  <1> QED BY <1>1, <1>3, <1>6, <1>7, <1>8, Zenon

\* What answering a request, and using its answer, make of the requests.
RequestNow(f, pc, rows) ==
    /\ fetches' \in Seq(Fetches) /\ Len(fetches') = Len(fetches)
    /\ DOMAIN fetches' = DOMAIN fetches
    /\ \A g \in DOMAIN fetches \ {f} : fetches'[g] = fetches[g]
    /\ fetches'[f] = [conv |-> fetches[f].conv, pc |-> pc, rows |-> rows]
    /\ fetches'[f].conv = fetches[f].conv /\ fetches'[f].pc = pc /\ fetches'[f].rows = rows

LEMMA RequestAnswered ==
    ASSUME TypeOK, NEW f \in DOMAIN fetches, NEW rows \in Seq(Messages),
           fetches' = Answered(fetches, f, rows)
    PROVE  RequestNow(f, "answered", rows)
  <1>1. fetches \in Seq(Fetches)
    BY DEF TypeOK
  <1>2. /\ fetches' \in Seq(Fetches) /\ Len(fetches') = Len(fetches)
        /\ DOMAIN fetches' = DOMAIN fetches
        /\ \A g \in DOMAIN fetches \ {f} : fetches'[g] = fetches[g]
        /\ fetches'[f] = [conv |-> fetches[f].conv, pc |-> "answered", rows |-> rows]
    BY <1>1, AnsweredIs
  <1> QED BY <1>2 DEF RequestNow

LEMMA RequestDone ==
    ASSUME TypeOK, NEW f \in DOMAIN fetches, fetches' = Done(fetches, f)
    PROVE  RequestNow(f, "done", fetches[f].rows)
  <1>1. fetches \in Seq(Fetches)
    BY DEF TypeOK
  <1>2. /\ fetches' \in Seq(Fetches) /\ Len(fetches') = Len(fetches)
        /\ DOMAIN fetches' = DOMAIN fetches
        /\ \A g \in DOMAIN fetches \ {f} : fetches'[g] = fetches[g]
        /\ fetches'[f] = [conv |-> fetches[f].conv, pc |-> "done", rows |-> fetches[f].rows]
    BY <1>1, DoneIs
  <1> QED BY <1>2 DEF RequestNow

\* A selection adds a request.
LEMMA RequestAdded ==
    ASSUME TypeOK, NEW c \in Convs, Select(c)
    PROVE  /\ fetches' \in Seq(Fetches) /\ Len(fetches') <= MaxSelections
           /\ Len(fetches) + 1 \in DOMAIN fetches'
           /\ fetches'[Len(fetches) + 1] = [conv |-> c, pc |-> "asked", rows |-> <<>>]
           /\ \A g \in DOMAIN fetches' :
                  fetches'[g] = [conv |-> c, pc |-> "asked", rows |-> <<>>]
                      \/ (g \in DOMAIN fetches /\ fetches'[g] = fetches[g])
  <1> DEFINE x == [conv |-> c, pc |-> "asked", rows |-> <<>>]
  <1>1. x \in Fetches
    BY EmptySeq DEF Fetches
  <1>2. fetches' = Append(fetches, x) /\ fetches \in Seq(Fetches) /\ Len(fetches) < MaxSelections
    BY DEF Select, TypeOK
  <1> HIDE DEF x
  <1>3. PICK n \in Nat : n = Len(fetches)
    BY <1>2, LenProperties
  <1>4. /\ fetches' \in Seq(Fetches) /\ Len(fetches') = n + 1
        /\ \A i \in 1..n : fetches'[i] = fetches[i]
        /\ fetches'[n + 1] = x
    BY <1>1, <1>2, <1>3, AppendProperties
  <1>5. DOMAIN fetches' = 1..(n + 1) /\ DOMAIN fetches = 1..n
    BY <1>2, <1>3, <1>4, LenProperties
  <1>6. \A g \in DOMAIN fetches' : fetches'[g] = x
                      \/ (g \in DOMAIN fetches /\ fetches'[g] = fetches[g])
    BY <1>4, <1>5
  <1>7. n + 1 <= MaxSelections
    BY <1>2, <1>3, ViewAssumption
  <1> QED BY <1>3, <1>4, <1>5, <1>6, <1>7 DEF x

\* What fanning out makes of the events: a channel_message may have been added.
LEMMA FanOutEvents ==
    ASSUME TypeOK, NEW s \in pending, FanOut(s)
    PROVE  /\ events' \in Seq(Events)
           /\ Elements(events) \subseteq Elements(events')
           /\ Elements(events')
                \subseteq Elements(events) \cup {[type |-> "channel_message", id |-> s.id]}
  <1> DEFINE e == [type |-> "channel_message", id |-> s.id]
  <1>1. events \in Seq(Events) /\ e \in Events
    BY DEF TypeOK, Saved, Events
  <1>2. events' = Append(events, e) \/ events' = events
    BY DEF FanOut
  <1> HIDE DEF e
  <1>3. Append(events, e) \in Seq(Events) /\ Elements(Append(events, e)) = Elements(events) \cup {e}
    BY <1>1, AppendProperties, ElementsAppend
  <1>4. /\ events' \in Seq(Events)
        /\ Elements(events) \subseteq Elements(events')
        /\ Elements(events') \subseteq Elements(events) \cup {e}
    BY <1>1, <1>2, <1>3
  <1> QED BY <1>4 DEF e

\* A one-element sequence.
LEMMA Single ==
    ASSUME NEW S, NEW e \in S
    PROVE  <<e>> \in Seq(S) /\ Elements(<<e>>) = {e}
  BY DEF Elements

\* What emitting a direct message makes of the events: message_sent and the
\* acknowledgement may have been added, and if none was that shows it, the message is missed.
LEMMA EmitEvents ==
    ASSUME TypeOK, NEW s \in pending, EmitDirect(s)
    PROVE  /\ events' \in Seq(Events)
           /\ Elements(events) \subseteq Elements(events')
           /\ \A e \in Elements(events') : e \in Elements(events) \/ e.id = s.id
           /\ \/ s.id \in missed'
              \/ \E e \in Elements(events') : e.type \in {"message_sent", "ack"} /\ e.id = s.id
  <1> DEFINE sent == [type |-> "message_sent", id |-> s.id]
             ack  == [type |-> "ack", id |-> s.id]
             upack == [type |-> "upload_ack", id |-> s.id]
             acks == AckOf(s)
  <1>1. /\ events \in Seq(Events) /\ s.kind \in Kinds
        /\ sent \in Events /\ ack \in Events /\ upack \in Events
    BY DEF TypeOK, Saved, Events
  <1>2. /\ sent.id = s.id /\ sent.type = "message_sent"
        /\ ack.id = s.id /\ ack.type = "ack"
        /\ upack.id = s.id
    OBVIOUS
  <1>3. \/ events' = (events \o <<sent>>) \o acks
        \/ /\ events' = events \o acks
           /\ missed' = IF s.kind = "text" THEN missed ELSE missed \cup {s.id}
    BY DEF EmitDirect
  <1>4. acks \in {<<ack>>, <<upack>>, <<>>} /\ (s.kind = "text" => acks = <<ack>>)
    <2>1. CASE s.kind = "text"
      BY <2>1 DEF AckOf
    <2>2. CASE s.kind = "upload"
      BY <2>2 DEF AckOf
    <2>3. CASE s.kind = "received"
      BY <2>3 DEF AckOf
    <2> QED BY <1>1, <2>1, <2>2, <2>3 DEF Kinds
  <1> HIDE DEF sent, ack, upack, acks
  <1>5. /\ acks \in Seq(Events)
        /\ Elements(acks) \subseteq {ack, upack}
        /\ s.kind = "text" => Elements(acks) = {ack}
    <2>1. <<ack>> \in Seq(Events) /\ Elements(<<ack>>) = {ack}
      BY <1>1, Single
    <2>2. <<upack>> \in Seq(Events) /\ Elements(<<upack>>) = {upack}
      BY <1>1, Single
    <2>3. <<>> \in Seq(Events) /\ Elements(<<>>) = {}
      BY ElementsEmpty, EmptySeq
    <2> QED BY <1>4, <2>1, <2>2, <2>3, Zenon
  <1>6. <<sent>> \in Seq(Events) /\ Elements(<<sent>>) = {sent}
    BY <1>1, Single
  <1>7. events \o <<sent>> \in Seq(Events) /\ events \o acks \in Seq(Events)
        /\ (events \o <<sent>>) \o acks \in Seq(Events)
    BY <1>1, <1>5, <1>6, ConcatProperties
  <1>8. \A q, r \in Seq(Events) : Elements(q \o r) = Elements(q) \cup Elements(r)
    BY ElementsConcat
  <1>9. /\ Elements(events \o acks) = Elements(events) \cup Elements(acks)
        /\ Elements((events \o <<sent>>) \o acks)
             = (Elements(events) \cup {sent}) \cup Elements(acks)
    <2>1. Elements(events \o acks) = Elements(events) \cup Elements(acks)
      BY <1>1, <1>5, <1>8, Zenon
    <2>2. PICK t \in Seq(Events) : t = events \o <<sent>>
      BY <1>7
    <2>3. Elements(t) = Elements(events) \cup {sent}
      <3>1. PICK u \in Seq(Events) : u = <<sent>>
        BY <1>6
      <3>2. Elements(u) = {sent} /\ t = events \o u
        BY <1>6, <2>2, <3>1
      <3>3. Elements(events \o u) = Elements(events) \cup Elements(u)
        BY <1>1, <1>8, <3>1, Zenon
      <3> QED BY <3>2, <3>3, Zenon
    <2>4. Elements(t \o acks) = Elements(t) \cup Elements(acks)
      BY <1>5, <1>8, <2>2, Zenon
    <2> QED BY <2>1, <2>2, <2>3, <2>4, Zenon
  <1>10. CASE events' = (events \o <<sent>>) \o acks
    BY <1>2, <1>5, <1>7, <1>9, <1>10
  <1>11. CASE /\ events' = events \o acks
              /\ missed' = IF s.kind = "text" THEN missed ELSE missed \cup {s.id}
    BY <1>2, <1>5, <1>7, <1>9, <1>11
  <1> QED BY <1>3, <1>10, <1>11

\* Showing a message that may be there already.
LEMMA AppendedUnique ==
    ASSUME NEW q \in Seq(Messages), NEW m \in Messages
    PROVE  /\ AppendUnique(q, m) \in Seq(Messages)
           /\ Elements(AppendUnique(q, m)) = Elements(q) \cup {m}
  BY AppendProperties, ElementsAppend DEF AppendUnique

\* The event that has arrived.
LEMMA ArrivedIs ==
    ASSUME TypeOK, NEW type, Arrives(type), events' = Tail(events)
    PROVE  /\ Head(events) \in Events /\ Arrived \in Messages
           /\ events' \in Seq(Events)
           /\ Elements(events) = {Head(events)} \cup Elements(events')
           /\ Head(events) \in Elements(events)
           /\ Head(events).type = type
  <1>1. events \in Seq(Events) /\ events # <<>> /\ Head(events).type = type
    BY DEF TypeOK, Arrives
  <1>2. Head(events) \in Events /\ Tail(events) \in Seq(Events)
        /\ Elements(events) = {Head(events)} \cup Elements(Tail(events))
    BY <1>1, ElementsHeadTail
  <1>3. Arrived \in Messages
    BY <1>2 DEF Arrived, Events
  <1> QED BY <1>1, <1>2, <1>3

\* What the socket holds.
LEMMA SocketTyped ==
    ASSUME TypeOK
    PROVE  /\ socket.conv \in Channels \cup {None} /\ socket.pc \in {"closed", "connecting", "open"}
           /\ socket.inbox \in Seq(Messages)
  BY DEF TypeOK, Sockets

LEMMA ClosedIs == Closed \in Sockets /\ Closed.inbox = <<>> /\ Closed.pc = "closed"
  BY EmptySeq DEF Closed, Sockets

-----------------------------------------------------------------------------
(* What every step keeps                                                   *)

\* The types.
LEMMA TypingStep == TypeOK /\ Numbered /\ [Next]_vars => TypeOK'
  <1> SUFFICES ASSUME TypeOK, Numbered, [Next]_vars PROVE TypeOK'
    OBVIOUS
  <1>1. /\ stored \in [Convs -> Seq(Messages)] /\ pending \in SUBSET Saved
        /\ selected \in Convs \cup {None} /\ view \in Seq(Messages)
        /\ fetches \in Seq(Fetches) /\ Len(fetches) <= MaxSelections
        /\ socket \in Sockets /\ events \in Seq(Events)
        /\ stray \in BOOLEAN /\ missed \in SUBSET Messages
    BY DEF TypeOK
  <1>2. ASSUME NEW c \in Convs, NEW kind \in Kinds, Save(c, kind) PROVE TypeOK'
    <2>1. stored' \in [Convs -> Seq(Messages)]
      BY <1>2, SaveStores
    <2>2. pending' \in SUBSET Saved
      BY <1>1, <1>2, SaveStores DEF Saved
    <2> QED BY <1>1, <1>2, <2>1, <2>2, Zenon DEF Save, TypeOK
  <1>3. ASSUME NEW s \in pending, FanOut(s) PROVE TypeOK'
    <2>1. s.id \in Messages
      BY <1>1 DEF Saved
    <2>2. events' \in Seq(Events) /\ pending' \in SUBSET Saved
      BY <1>1, <1>3, FanOutEvents DEF FanOut
    <2>3. socket' \in Sockets
      <3>1. Append(socket.inbox, s.id) \in Seq(Messages)
        BY <2>1, SocketTyped, AppendProperties
      <3> QED BY <1>1, <1>3, <3>1 DEF FanOut, Sockets
    <2>4. missed' \in SUBSET Messages
      BY <1>1, <1>3, <2>1 DEF FanOut
    <2> QED BY <1>1, <1>3, <2>2, <2>3, <2>4, Zenon DEF FanOut, TypeOK
  <1>4. ASSUME NEW s \in pending, EmitDirect(s) PROVE TypeOK'
    <2>1. s.id \in Messages
      BY <1>1 DEF Saved
    <2>2. events' \in Seq(Events) /\ pending' \in SUBSET Saved
      BY <1>1, <1>4, EmitEvents DEF EmitDirect
    <2>3. missed' \in SUBSET Messages
      BY <1>1, <1>4, <2>1 DEF EmitDirect
    <2> QED BY <1>1, <1>4, <2>2, <2>3, Zenon DEF EmitDirect, TypeOK
  <1>5. ASSUME NEW f \in DOMAIN fetches, AnswerHistory(f) PROVE TypeOK'
    <2>1. fetches[f].conv \in Convs
      <3>1. fetches[f] \in Fetches
        BY <1>1, LenProperties, ElementOfSeq
      <3> QED BY <3>1 DEF Fetches
    <2>2. /\ History(fetches[f].conv) \in Seq(Messages)
          /\ Elements(stored[fetches[f].conv]) \subseteq Messages
      BY <1>1, <2>1, HistoryIs, ElementsTyped
    <2>3. fetches' \in Seq(Fetches) /\ Len(fetches') = Len(fetches)
      <3>1. \/ fetches' = Answered(fetches, f, History(fetches[f].conv))
            \/ fetches' = Done(fetches, f)
        BY <1>5, Zenon DEF AnswerHistory, Answered, Done
      <3> QED BY <2>2, <3>1, RequestAnswered, RequestDone DEF RequestNow
    <2>4. missed' \in SUBSET Messages
      BY <1>1, <1>5, <2>2 DEF AnswerHistory
    <2> QED BY <1>1, <1>5, <2>3, <2>4, Zenon DEF AnswerHistory, serverVars, TypeOK
  <1>6. ASSUME NEW f \in DOMAIN fetches, ApplyHistory(f) PROVE TypeOK'
    <2>1. fetches[f].rows \in Seq(Messages)
      <3>1. fetches[f] \in Fetches
        BY <1>1, LenProperties, ElementOfSeq
      <3> QED BY <3>1 DEF Fetches
    <2>2. view' \in Seq(Messages)
      BY <1>6, <2>1, Zenon DEF ApplyHistory
    <2>3. fetches' \in Seq(Fetches) /\ Len(fetches') = Len(fetches)
      <3>1. fetches' = Done(fetches, f)
        BY <1>6, Zenon DEF ApplyHistory, Done
      <3> QED BY <3>1, RequestDone DEF RequestNow
    <2>4. missed' \in SUBSET Messages
      <3>1. Elements(view) \subseteq Messages
        BY <1>1, ElementsTyped
      <3>2. missed' = missed \cup (Elements(view) \ Elements(view'))
        BY <1>6, Zenon DEF ApplyHistory
      <3> QED BY <1>1, <3>1, <3>2
    <2>5. stray' \in BOOLEAN
      BY <1>6, Zenon DEF ApplyHistory
    <2> QED BY <1>1, <1>6, <2>2, <2>3, <2>4, <2>5, Zenon DEF ApplyHistory, serverVars, TypeOK
  <1>7. ASSUME NEW c \in Convs, Select(c), socket' \in Sockets PROVE TypeOK'
    <2>1. fetches' \in Seq(Fetches) /\ Len(fetches') <= MaxSelections
      BY <1>7, RequestAdded
    <2>2. view' \in Seq(Messages) /\ missed' \in SUBSET Messages
      BY <1>7, EmptySeq DEF Select
    <2>3. stray' \in BOOLEAN /\ selected' \in Convs \cup {None}
      BY <1>7, Zenon DEF Select
    <2> QED BY <1>1, <1>7, <2>1, <2>2, <2>3, Zenon DEF Select, serverVars, TypeOK
  <1>8. ASSUME NEW p \in Peers, SelectDirect(p) PROVE TypeOK'
    BY <1>7, <1>8, ClosedIs DEF SelectDirect, Convs
  <1>9. ASSUME NEW c \in Channels, SelectChannel(c) PROVE TypeOK'
    <2>1. [conv |-> c, pc |-> "connecting", inbox |-> <<>>] \in Sockets
      BY EmptySeq DEF Sockets
    <2> QED BY <1>7, <1>9, <2>1 DEF SelectChannel, Convs
  <1>10. CASE OpenSocket
    <2>1. socket' \in Sockets
      BY <1>1, <1>10 DEF OpenSocket, Sockets
    <2> QED BY <1>1, <1>10, <2>1, Zenon DEF OpenSocket, serverVars, TypeOK
  <1>11. CASE DropSocket
    <2>1. missed' \in SUBSET Messages
      BY <1>1, <1>11, SocketTyped, ElementsTyped DEF DropSocket
    <2> QED BY <1>1, <1>11, <2>1, ClosedIs, Zenon DEF DropSocket, serverVars, TypeOK
  <1>12. CASE DropEvents
    <2>1. \A i \in DOMAIN events : events[i].id \in Messages
      <3>1. \A i \in DOMAIN events : events[i] \in Events
        BY <1>1, LenProperties, ElementOfSeq
      <3> QED BY <3>1 DEF Events
    <2>2. missed' \in SUBSET Messages /\ events' \in Seq(Events)
      BY <1>1, <1>12, <2>1, EmptySeq DEF DropEvents
    <2> QED BY <1>1, <1>12, <2>2, Zenon DEF DropEvents, serverVars, TypeOK
  <1>13. CASE OnMessage
    <2>1. socket.inbox \in Seq(Messages) /\ socket.inbox # <<>>
      BY <1>13, SocketTyped DEF OnMessage
    <2>2. Head(socket.inbox) \in Messages /\ Tail(socket.inbox) \in Seq(Messages)
      BY <2>1, ElementsHeadTail
    <2>3. view' \in Seq(Messages)
      BY <1>1, <1>13, <2>2, AppendProperties DEF OnMessage
    <2>4. socket' \in Sockets
      BY <1>1, <1>13, <2>2 DEF OnMessage, Sockets
    <2> QED BY <1>1, <1>13, <2>3, <2>4, Zenon DEF OnMessage, serverVars, TypeOK
  <1>14. CASE HandleNewMessage
    <2>1. Arrived \in Messages /\ events' \in Seq(Events)
      BY <1>14, ArrivedIs DEF HandleNewMessage
    <2>2. view' \in Seq(Messages)
      BY <1>1, <1>14, <2>1, AppendedUnique DEF HandleNewMessage
    <2> QED BY <1>1, <1>14, <2>1, <2>2, Zenon DEF HandleNewMessage, serverVars, TypeOK
  <1>15. CASE HandleAck
    <2>1. Arrived \in Messages /\ events' \in Seq(Events)
      BY <1>15, ArrivedIs DEF HandleAck
    <2>2. view' \in Seq(Messages)
      BY <1>1, <1>15, <2>1, AppendedUnique DEF HandleAck
    <2>3. stray' \in BOOLEAN
      BY <1>15, Zenon DEF HandleAck
    <2> QED BY <1>1, <1>15, <2>1, <2>2, <2>3, Zenon DEF HandleAck, serverVars, TypeOK
  <1>16. CASE HandleChannelMessage
    <2>1. events' \in Seq(Events)
      BY <1>16, ArrivedIs DEF HandleChannelMessage
    <2> QED BY <1>1, <1>16, <2>1, Zenon DEF HandleChannelMessage, serverVars, TypeOK
  <1>17. CASE HandleUploadAck
    <2>1. events' \in Seq(Events)
      BY <1>17, ArrivedIs DEF HandleUploadAck
    <2> QED BY <1>1, <1>17, <2>1, Zenon DEF HandleUploadAck, serverVars, TypeOK
  <1>18. ASSUME NEW s \in pending, NeverSent(s) PROVE TypeOK'
    <2>1. missed' \in SUBSET Messages /\ pending' \in SUBSET Saved
      BY <1>1, <1>18 DEF NeverSent, Saved
    <2> QED BY <1>1, <1>18, <2>1, Zenon DEF NeverSent, TypeOK
  <1>19. CASE UNCHANGED vars
    BY <1>1, <1>19, Zenon DEF vars, serverVars, TypeOK
  <1> QED BY <1>2, <1>3, <1>4, <1>5, <1>6, <1>8, <1>9, <1>10, <1>11, <1>12, <1>13, <1>14,
             <1>15, <1>16, <1>17, <1>18, <1>19 DEF Next

\* Only saving a message changes what is stored.
LEMMA StoredBySave ==
    ASSUME [Next]_vars
    PROVE  UNCHANGED stored \/ \E c \in Convs, kind \in Kinds : Save(c, kind)
  BY Zenon DEF Next, FanOut, EmitDirect, NeverSent, AnswerHistory, ApplyHistory, Select, SelectDirect,
     SelectChannel, OpenSocket, DropSocket, DropEvents, OnMessage, HandleNewMessage,
     HandleAck, HandleUploadAck, HandleChannelMessage, serverVars, vars

\* The numbers of the messages, and their conversations.
LEMMA NumberedStep == TypeOK /\ Numbered /\ [Next]_vars => Numbered'
  <1> SUFFICES ASSUME TypeOK, Numbered, [Next]_vars PROVE Numbered'
    OBVIOUS
  <1>1. CASE UNCHANGED stored
    BY <1>1 DEF Numbered, AllStored
  <1>2. ASSUME NEW c \in Convs, NEW kind \in Kinds, Save(c, kind) PROVE Numbered'
    <2> DEFINE m == Total + 1
    <2>1. /\ m \in Messages /\ m \notin AllStored
          /\ stored'[c] = Append(stored[c], m)
          /\ Elements(stored'[c]) = Elements(stored[c]) \cup {m}
          /\ \A d \in Convs \ {c} : stored'[d] = stored[d]
          /\ AllStored' = AllStored \cup {m}
      BY <1>2, SaveStores, Zenon
    <2>2. AllStored' = 1..m /\ m \in 0..MaxMessages
      BY <2>1, TotalStored DEF Messages
    <2> HIDE DEF m
    <2>3. \A d \in Convs : m \notin Elements(stored[d])
      BY <2>1 DEF AllStored
    <2>4. \A d, e \in Convs : d # e => Elements(stored'[d]) \cap Elements(stored'[e]) = {}
      <3>1. \A d, e \in Convs : d # e => Elements(stored[d]) \cap Elements(stored[e]) = {}
        BY DEF Numbered
      <3>2. \A d \in Convs : d # c => Elements(stored'[d]) = Elements(stored[d])
        BY <2>1
      <3>3. ASSUME NEW d \in Convs, NEW e \in Convs, d # e, NEW x \in Elements(stored'[d])
            PROVE  x \notin Elements(stored'[e])
        <4>1. x \in Elements(stored[d]) \/ (d = c /\ x = m)
          BY <2>1, <3>2, <3>3
        <4>2. x \in Elements(stored'[e]) => x \in Elements(stored[e]) \/ (e = c /\ x = m)
          BY <2>1, <3>2, <3>3
        <4> QED BY <2>3, <3>1, <3>3, <4>1, <4>2
      <3> QED BY <3>3
    <2>5. \A d \in Convs : NoRepeat(stored'[d])
      <3>1. stored[c] \in Seq(Messages) /\ NoRepeat(stored[c])
        BY DEF TypeOK, Numbered
      <3>2. NoRepeat(stored'[c])
        BY <2>1, <2>3, <3>1, NoRepeatAppend
      <3> QED BY <2>1, <3>2 DEF Numbered
    <2> QED BY <2>2, <2>4, <2>5 DEF Numbered
  <1> QED BY <1>1, <1>2, StoredBySave

\* What is stored stays stored.
LEMMA StoredGrows ==
    ASSUME TypeOK, Numbered, [Next]_vars
    PROVE  /\ AllStored \subseteq AllStored'
           /\ \A c \in Convs : Elements(stored[c]) \subseteq Elements(stored'[c])
  <1>1. CASE UNCHANGED stored
    BY <1>1 DEF AllStored
  <1>2. ASSUME NEW c \in Convs, NEW kind \in Kinds, Save(c, kind)
        PROVE  /\ AllStored \subseteq AllStored'
               /\ \A d \in Convs : Elements(stored[d]) \subseteq Elements(stored'[d])
    BY <1>2, SaveStores
  <1> QED BY <1>1, <1>2, StoredBySave

\* A stored message has a conversation.
LEMMA Belongs ==
    ASSUME Numbered, NEW m \in AllStored
    PROVE  ConvOf(m) \in Convs /\ m \in Elements(stored[ConvOf(m)])
  <1>1. PICK c \in Convs : m \in Elements(stored[c])
    BY DEF AllStored
  <1> QED BY <1>1, ConvOfStored

\* What comes over the socket is the selected conversation's.
LEMMA InboxHead ==
    ASSUME TypeOK, Attached, OnMessage
    PROVE  /\ Head(socket.inbox) \in Messages
           /\ Head(socket.inbox) \in Elements(socket.inbox)
           /\ selected \in Channels
           /\ Head(socket.inbox) \in Elements(stored[selected])
           /\ view' \in Seq(Messages)
           /\ Elements(view') = Elements(view) \cup {Head(socket.inbox)}
  <1>1. socket.inbox \in Seq(Messages) /\ socket.inbox # <<>> /\ view \in Seq(Messages)
    BY SocketTyped DEF OnMessage, TypeOK
  <1>2. Head(socket.inbox) \in Messages /\ Head(socket.inbox) \in Elements(socket.inbox)
    BY <1>1, ElementsHeadTail
  <1>3. view' = Append(view, Head(socket.inbox))
    BY DEF OnMessage
  <1>4. view' \in Seq(Messages) /\ Elements(view') = Elements(view) \cup {Head(socket.inbox)}
    BY <1>1, <1>2, <1>3, ElementsAppend, AppendProperties
  <1>5. socket.pc # "closed"
    BY <1>1 DEF Attached
  <1> QED BY <1>2, <1>4, <1>5 DEF Attached

\* What is under way, or on the screen, has been stored.
LEMMA KnownStep == TypeOK /\ Numbered /\ Known /\ Attached /\ [Next]_vars => Known'
  <1> SUFFICES ASSUME TypeOK, Numbered, Known, Attached, [Next]_vars PROVE Known'
    OBVIOUS
  <1> DEFINE Rows(f) == /\ Elements(f.rows) \subseteq Elements(stored[f.conv])
                        /\ NoRepeat(f.rows)
  <1>1. /\ \A s \in pending : s.id \in AllStored
        /\ \A e \in Elements(events) : e.id \in AllStored
        /\ \A f \in DOMAIN fetches : Rows(fetches[f])
        /\ Elements(view) \subseteq AllStored
    BY DEF Known
  <1>2. /\ AllStored \subseteq AllStored'
        /\ \A c \in Convs : Elements(stored[c]) \subseteq Elements(stored'[c])
    BY StoredGrows
  <1>3. \A f \in DOMAIN fetches : fetches[f] \in Fetches /\ fetches[f].conv \in Convs
    <2>1. \A f \in DOMAIN fetches : fetches[f] \in Fetches
      BY LenProperties, ElementOfSeq DEF TypeOK
    <2> QED BY <2>1 DEF Fetches
  <1>4. \A s \in pending' : s.id \in AllStored'
    <2>1. pending' \subseteq pending
              \/ \E c \in Convs, kind \in Kinds : Save(c, kind)
      BY DEF Next, FanOut, EmitDirect, NeverSent, AnswerHistory, ApplyHistory, Select, SelectDirect,
         SelectChannel, OpenSocket, DropSocket, DropEvents, OnMessage, HandleNewMessage,
         HandleAck, HandleUploadAck, HandleChannelMessage, serverVars, vars
    <2>2. ASSUME NEW c \in Convs, NEW kind \in Kinds, Save(c, kind)
          PROVE  \A s \in pending' : s.id \in AllStored'
      <3>1. /\ pending' = pending \cup {[id |-> Total + 1, kind |-> kind]}
            /\ Total + 1 \in AllStored'
        BY <2>2, SaveStores
      <3> QED BY <1>1, <1>2, <3>1
    <2> QED BY <1>1, <1>2, <2>1, <2>2
  <1>5. \A e \in Elements(events') : e.id \in AllStored'
    <2>1. ASSUME NEW s \in pending, FanOut(s) PROVE \A e \in Elements(events') : e.id \in AllStored
      BY <1>1, <2>1, FanOutEvents
    <2>2. ASSUME NEW s \in pending, EmitDirect(s)
          PROVE  \A e \in Elements(events') : e.id \in AllStored
      BY <1>1, <2>2, EmitEvents
    <2>3. ASSUME DropEvents PROVE Elements(events') = {}
      BY <2>3, ElementsEmpty DEF DropEvents
    <2>4. ASSUME NEW type, Arrives(type), events' = Tail(events)
          PROVE  Elements(events') \subseteq Elements(events)
      BY <2>4, ArrivedIs
    <2>5. \/ UNCHANGED events
          \/ \E s \in pending : FanOut(s) \/ EmitDirect(s)
          \/ DropEvents
          \/ \E type \in {"message_sent", "ack", "upload_ack", "channel_message"} :
                 Arrives(type) /\ events' = Tail(events)
      BY Zenon DEF Next, Save, NeverSent, AnswerHistory, ApplyHistory, Select, SelectDirect,
         SelectChannel, OpenSocket, DropSocket, OnMessage, HandleNewMessage,
         HandleAck, HandleUploadAck, HandleChannelMessage, serverVars, vars
    <2> QED BY <1>1, <1>2, <2>1, <2>2, <2>3, <2>4, <2>5
  <1>6. \A f \in DOMAIN fetches' : Rows(fetches[f])'
    <2>1. CASE UNCHANGED fetches
      BY <1>1, <1>2, <1>3, <2>1
    <2>2. ASSUME NEW f \in DOMAIN fetches, AnswerHistory(f) PROVE \A g \in DOMAIN fetches' : Rows(fetches[g])'
      <3>1. /\ History(fetches[f].conv) \in Seq(Messages)
            /\ Elements(History(fetches[f].conv)) \subseteq Elements(stored[fetches[f].conv])
            /\ NoRepeat(History(fetches[f].conv))
        <4>1. /\ fetches[f].conv \in Convs /\ stored[fetches[f].conv] \in Seq(Messages)
              /\ NoRepeat(stored[fetches[f].conv])
          BY <1>3 DEF TypeOK, Numbered
        <4> QED BY <4>1, HistoryIs
      <3>2. \/ fetches' = Answered(fetches, f, History(fetches[f].conv))
            \/ fetches' = Done(fetches, f)
        BY <2>2, Zenon DEF AnswerHistory, Answered, Done
      <3>3. /\ DOMAIN fetches' = DOMAIN fetches
            /\ \A g \in DOMAIN fetches \ {f} : fetches'[g] = fetches[g]
            /\ fetches'[f].conv = fetches[f].conv
            /\ fetches'[f].rows \in {History(fetches[f].conv), fetches[f].rows}
        <4>1. \/ RequestNow(f, "answered", History(fetches[f].conv))
              \/ RequestNow(f, "done", fetches[f].rows)
          BY <3>1, <3>2, RequestAnswered, RequestDone
        <4> QED BY <4>1 DEF RequestNow
      <3>4. stored' = stored
        BY <2>2 DEF AnswerHistory, serverVars
      <3> QED BY <1>1, <3>1, <3>3, <3>4
    <2>3. ASSUME NEW f \in DOMAIN fetches, ApplyHistory(f) PROVE \A g \in DOMAIN fetches' : Rows(fetches[g])'
      <3>1. fetches' = Done(fetches, f)
        BY <2>3, Zenon DEF ApplyHistory, Done
      <3>2. /\ DOMAIN fetches' = DOMAIN fetches
            /\ \A g \in DOMAIN fetches \ {f} : fetches'[g] = fetches[g]
            /\ fetches'[f].conv = fetches[f].conv /\ fetches'[f].rows = fetches[f].rows
        BY <3>1, RequestDone DEF RequestNow
      <3>3. stored' = stored
        BY <2>3 DEF ApplyHistory, serverVars
      <3> QED BY <1>1, <3>2, <3>3
    <2>4. ASSUME NEW c \in Convs, Select(c) PROVE \A g \in DOMAIN fetches' : Rows(fetches[g])'
      <3>1. \A g \in DOMAIN fetches' :
                  fetches'[g] = [conv |-> c, pc |-> "asked", rows |-> <<>>]
                      \/ (g \in DOMAIN fetches /\ fetches'[g] = fetches[g])
        BY <2>4, RequestAdded
      <3>2. stored' = stored
        BY <2>4 DEF Select, serverVars
      <3> QED BY <1>1, <3>1, <3>2, ElementsEmpty
    <2>5. \/ UNCHANGED fetches
          \/ \E f \in DOMAIN fetches : AnswerHistory(f) \/ ApplyHistory(f)
          \/ \E c \in Convs : Select(c)
      BY Zenon DEF Next, Save, FanOut, EmitDirect, NeverSent, SelectDirect, Convs,
         SelectChannel, OpenSocket, DropSocket, DropEvents, OnMessage, HandleNewMessage,
         HandleAck, HandleUploadAck, HandleChannelMessage, serverVars, vars
    <2> QED BY <2>1, <2>2, <2>3, <2>4, <2>5
  <1>7. Elements(view') \subseteq AllStored'
    <2>1. CASE UNCHANGED view
      BY <1>1, <1>2, <2>1
    <2>2. ASSUME NEW f \in DOMAIN fetches, ApplyHistory(f) PROVE Elements(view') \subseteq AllStored
      BY <1>1, <1>3, <2>2 DEF ApplyHistory, AllStored
    <2>3. ASSUME NEW c \in Convs, Select(c) PROVE Elements(view') \subseteq AllStored
      BY <2>3, ElementsEmpty DEF Select
    <2>4. ASSUME OnMessage PROVE Elements(view') \subseteq AllStored
      BY <1>1, <2>4, InboxHead DEF AllStored, Convs
    <2>5. ASSUME NEW type, Arrives(type), events' = Tail(events),
                 view' = view \/ view' = AppendUnique(view, Arrived)
          PROVE  Elements(view') \subseteq AllStored
      <3>1. Arrived \in Messages /\ Arrived \in AllStored
        BY <1>1, <2>5, ArrivedIs DEF Arrived
      <3>2. Elements(AppendUnique(view, Arrived)) = Elements(view) \cup {Arrived}
        BY <3>1, AppendedUnique DEF TypeOK
      <3> QED BY <1>1, <2>5, <3>1, <3>2
    <2>6. \/ UNCHANGED view
          \/ \E f \in DOMAIN fetches : ApplyHistory(f)
          \/ \E c \in Convs : Select(c)
          \/ OnMessage
          \/ \E type \in {"message_sent", "ack", "upload_ack", "channel_message"} :
                 /\ Arrives(type) /\ events' = Tail(events)
                 /\ view' = view \/ view' = AppendUnique(view, Arrived)
      BY Zenon DEF Next, Save, FanOut, EmitDirect, NeverSent, AnswerHistory, SelectDirect, Convs,
         SelectChannel, OpenSocket, DropSocket, DropEvents, HandleNewMessage,
         HandleAck, HandleUploadAck, HandleChannelMessage, serverVars, vars
    <2> QED BY <1>2, <2>1, <2>2, <2>3, <2>4, <2>5, <2>6
  <1> QED BY <1>4, <1>5, <1>6, <1>7 DEF Known

\* The socket and the selection.
LEMMA AttachedStep ==
    TypeOK /\ Numbered /\ Known /\ Attached /\ [Next]_vars => Attached'
  <1> SUFFICES ASSUME TypeOK, Numbered, Known, Attached, [Next]_vars PROVE Attached'
    OBVIOUS
  <1>1. /\ socket.pc = "closed" => socket.inbox = <<>>
        /\ socket.pc # "closed" => /\ socket.conv \in Channels /\ socket.conv = selected
                                   /\ Elements(socket.inbox) \subseteq Elements(stored[socket.conv])
    BY DEF Attached
  <1>2. \A c \in Channels : Elements(stored[c]) \subseteq Elements(stored'[c])
    BY StoredGrows DEF Convs
  <1>3. CASE UNCHANGED <<selected, socket>>
    BY <1>1, <1>2, <1>3 DEF Attached
  <1>4. ASSUME NEW s \in pending, FanOut(s) PROVE Attached'
    <2>1. stored' = stored /\ selected' = selected
      BY <1>4 DEF FanOut
    <2>2. CASE socket.pc = "open" /\ socket.conv = ConvOf(s.id)
      <3>1. s.id \in AllStored /\ s.id \in Messages
        BY DEF Known, TypeOK, Saved
      <3>2. s.id \in Elements(stored[socket.conv])
        BY <2>2, <3>1, Belongs
      <3>3. /\ Elements(Append(socket.inbox, s.id)) = Elements(socket.inbox) \cup {s.id}
            /\ socket \in Sockets
        BY <3>1, SocketTyped, ElementsAppend DEF TypeOK
      <3>4. socket' = [socket EXCEPT !.inbox = Append(@, s.id)]
        BY <1>4, <2>2 DEF FanOut
      <3>5. /\ socket'.pc = socket.pc /\ socket'.conv = socket.conv
            /\ socket'.inbox = Append(socket.inbox, s.id)
        BY <3>3, <3>4 DEF Sockets
      <3> QED BY <1>1, <2>1, <2>2, <3>2, <3>3, <3>5 DEF Attached
    <2>3. CASE ~(socket.pc = "open" /\ socket.conv = ConvOf(s.id))
      <3>1. socket' = socket
        BY <1>4, <2>3 DEF FanOut
      <3> QED BY <1>1, <2>1, <3>1 DEF Attached
    <2> QED BY <2>2, <2>3
  <1>5. ASSUME socket' = Closed PROVE Attached'
    BY <1>5, ClosedIs DEF Attached
  <1>6. ASSUME NEW c \in Channels, SelectChannel(c) PROVE Attached'
    <2>1. /\ socket'.conv = c /\ socket'.pc = "connecting" /\ socket'.inbox = <<>>
          /\ selected' = c
      BY <1>6 DEF SelectChannel, Select
    <2> QED BY <2>1, ElementsEmpty DEF Attached
  <1>7. CASE OpenSocket
    <2>1. /\ socket'.conv = socket.conv /\ socket'.pc = "open" /\ socket'.inbox = socket.inbox
          /\ selected' = selected /\ stored' = stored /\ socket.pc # "closed"
      BY <1>7 DEF OpenSocket, serverVars, TypeOK, Sockets
    <2> QED BY <1>1, <2>1 DEF Attached
  <1>8. CASE OnMessage
    <2>1. socket.inbox \in Seq(Messages) /\ socket.inbox # <<>>
      BY <1>8, SocketTyped DEF OnMessage
    <2>2. /\ socket'.conv = socket.conv /\ socket'.pc = socket.pc
          /\ socket'.inbox = Tail(socket.inbox)
          /\ selected' = selected /\ stored' = stored
      BY <1>8 DEF OnMessage, serverVars, TypeOK, Sockets
    <2>3. Elements(Tail(socket.inbox)) \subseteq Elements(socket.inbox)
      BY <2>1, ElementsHeadTail
    <2> QED BY <1>1, <2>1, <2>2, <2>3 DEF Attached
  <1>9. \/ UNCHANGED <<selected, socket>>
        \/ \E s \in pending : FanOut(s)
        \/ socket' = Closed
        \/ \E c \in Channels : SelectChannel(c)
        \/ OpenSocket \/ OnMessage
    BY Zenon DEF Next, Save, EmitDirect, NeverSent, AnswerHistory, ApplyHistory, SelectDirect,
       DropSocket, DropEvents, HandleNewMessage, HandleAck, HandleUploadAck,
       HandleChannelMessage, serverVars, vars
  <1> QED BY <1>3, <1>4, <1>5, <1>6, <1>7, <1>8, <1>9

\* What is shown belongs to the selection.
LEMMA PlacedStep ==
    TypeOK /\ Numbered /\ Known /\ Attached /\ Placed /\ [Next]_vars => Placed'
  <1> SUFFICES ASSUME TypeOK, Numbered, Known, Attached, Placed, [Next]_vars PROVE Placed'
    OBVIOUS
  <1>1. ~stray => \A m \in Elements(view) : selected \in Convs /\ m \in Elements(stored[selected])
    BY DEF Placed
  <1>2. \A c \in Convs : Elements(stored[c]) \subseteq Elements(stored'[c])
    BY StoredGrows
  <1>3. CASE UNCHANGED <<selected, view, stray>>
    BY <1>1, <1>2, <1>3 DEF Placed
  <1>4. ASSUME NEW f \in DOMAIN fetches, ApplyHistory(f) PROVE Placed'
    <2>1. Elements(fetches[f].rows) \subseteq Elements(stored[fetches[f].conv])
      BY DEF Known
    <2>2. fetches[f].conv \in Convs
      <3>1. fetches[f] \in Fetches
        BY LenProperties, ElementOfSeq DEF TypeOK
      <3> QED BY <3>1 DEF Fetches
    <2>3. /\ view' = fetches[f].rows /\ stored' = stored /\ selected' = selected
          /\ ~stray' => fetches[f].conv = selected
      BY <1>4, Zenon DEF ApplyHistory, serverVars
    <2> QED BY <2>1, <2>2, <2>3 DEF Placed
  <1>5. ASSUME NEW c \in Convs, Select(c) PROVE Placed'
    BY <1>5, ElementsEmpty DEF Select, Placed
  <1>6. CASE OnMessage
    <2>1. stored' = stored /\ selected' = selected /\ stray' = stray
      BY <1>6 DEF OnMessage, serverVars
    <2> QED BY <1>1, <1>6, <2>1, InboxHead DEF Placed, Convs
  <1>7. ASSUME NEW type, Arrives(type), events' = Tail(events),
               UNCHANGED <<stored, selected>>,
               ~stray' => ~stray /\ (view' = view \/ (view' = AppendUnique(view, Arrived)
                                                      /\ ConvOf(Arrived) = selected))
        PROVE  Placed'
    <2>1. Arrived \in Messages /\ Arrived \in AllStored
      BY <1>7, ArrivedIs DEF Arrived, Known
    <2>2. Elements(AppendUnique(view, Arrived)) = Elements(view) \cup {Arrived}
      BY <2>1, AppendedUnique DEF TypeOK
    <2>3. ConvOf(Arrived) \in Convs /\ Arrived \in Elements(stored[ConvOf(Arrived)])
      BY <2>1, Belongs
    <2> QED BY <1>1, <1>7, <2>2, <2>3 DEF Placed
  <1>8. CASE HandleNewMessage
    <2>1. /\ Arrives("message_sent") /\ events' = Tail(events)
          /\ UNCHANGED <<stored, selected, stray>>
          /\ view' = view \/ (view' = AppendUnique(view, Arrived) /\ ConvOf(Arrived) = selected)
      BY <1>8, Zenon DEF HandleNewMessage, serverVars
    <2> QED BY <1>7, <2>1
  <1>9. CASE HandleAck
    <2>1. /\ Arrives("ack") /\ events' = Tail(events)
          /\ UNCHANGED <<stored, selected>>
          /\ view' = AppendUnique(view, Arrived)
          /\ ~stray' => ~stray /\ ConvOf(Arrived) = selected
      BY <1>9, Zenon DEF HandleAck, serverVars
    <2> QED BY <1>7, <2>1
  <1>10. \/ UNCHANGED <<selected, view, stray>>
         \/ \E f \in DOMAIN fetches : ApplyHistory(f)
         \/ \E c \in Convs : Select(c)
         \/ OnMessage \/ HandleNewMessage \/ HandleAck
    BY Zenon DEF Next, Save, FanOut, EmitDirect, NeverSent, AnswerHistory, SelectDirect, Convs,
       SelectChannel, OpenSocket, DropSocket, DropEvents, HandleUploadAck, HandleChannelMessage,
       serverVars, vars
  <1> QED BY <1>3, <1>4, <1>5, <1>6, <1>8, <1>9, <1>10

\* What the socket holds is stored.
LEMMA InboxStored ==
    ASSUME Attached
    PROVE  \A m \in Elements(socket.inbox) : socket.pc # "closed" /\ m \in AllStored
  <1>1. CASE socket.pc = "closed"
    BY <1>1, ElementsEmpty DEF Attached
  <1>2. CASE socket.pc # "closed"
    BY <1>2 DEF Attached, AllStored, Convs
  <1> QED BY <1>1, <1>2

\* How the socket's store changes.
LEMMA InboxStep ==
    ASSUME TypeOK, [Next]_vars
    PROVE  \/ socket'.inbox = socket.inbox /\ pending' \subseteq pending
           \/ \E c \in Convs, kind \in Kinds : Save(c, kind) /\ socket'.inbox = socket.inbox
           \/ \E s \in pending :
                  /\ FanOut(s) /\ pending' = pending \ {s}
                  /\ socket'.inbox = Append(socket.inbox, s.id)
           \/ OnMessage /\ socket'.inbox = Tail(socket.inbox) /\ pending' = pending
           \/ socket'.inbox = <<>> /\ pending' = pending
  <1>1. socket \in Sockets
    BY DEF TypeOK
  <1>2. ASSUME NEW s \in pending, FanOut(s)
        PROVE  /\ pending' = pending \ {s}
               /\ socket'.inbox = socket.inbox \/ socket'.inbox = Append(socket.inbox, s.id)
    BY <1>1, <1>2 DEF FanOut, Sockets
  <1>3. ASSUME OnMessage PROVE socket'.inbox = Tail(socket.inbox) /\ pending' = pending
    BY <1>1, <1>3 DEF OnMessage, Sockets, serverVars
  <1>4. ASSUME OpenSocket PROVE socket'.inbox = socket.inbox /\ pending' = pending
    BY <1>1, <1>4 DEF OpenSocket, Sockets, serverVars
  <1>5. ASSUME NEW c \in Channels, SelectChannel(c) PROVE socket'.inbox = <<>> /\ pending' = pending
    BY <1>5 DEF SelectChannel, Select, serverVars
  <1>6. ASSUME socket' = Closed PROVE socket'.inbox = <<>>
    BY <1>6, ClosedIs
  <1>7. \/ UNCHANGED socket /\ pending' \subseteq pending
        \/ \E c \in Convs, kind \in Kinds : Save(c, kind) /\ UNCHANGED socket
        \/ \E s \in pending : FanOut(s)
        \/ OnMessage \/ OpenSocket
        \/ \E c \in Channels : SelectChannel(c)
        \/ socket' = Closed /\ pending' = pending
    BY DEF Next, Save, EmitDirect, NeverSent, AnswerHistory, ApplyHistory, Select, SelectDirect,
       DropSocket, DropEvents, HandleNewMessage, HandleAck, HandleUploadAck,
       HandleChannelMessage, serverVars, vars
  <1> QED BY <1>2, <1>3, <1>4, <1>5, <1>6, <1>7

\* What the socket may still get.
LEMMA LiveStep ==
    TypeOK /\ Numbered /\ Known /\ Attached /\ Live /\ [Next]_vars => Live'
  <1> SUFFICES ASSUME TypeOK, Numbered, Known, Attached, Live, [Next]_vars PROVE Live'
    OBVIOUS
  <1>1. /\ \A s, t \in pending : s.id = t.id => s = t
        /\ NoRepeat(socket.inbox)
        /\ \A s \in pending : s.id \notin Elements(socket.inbox)
    BY DEF Live
  <1>2. socket.inbox \in Seq(Messages)
    BY SocketTyped
  <1>3. CASE socket'.inbox = socket.inbox /\ pending' \subseteq pending
    BY <1>1, <1>3 DEF Live
  <1>4. ASSUME NEW c \in Convs, NEW kind \in Kinds, Save(c, kind), socket'.inbox = socket.inbox
        PROVE  Live'
    <2> DEFINE m == Total + 1
    <2>1. m \notin AllStored /\ pending' = pending \cup {[id |-> m, kind |-> kind]}
      BY <1>4, SaveStores, Zenon
    <2> HIDE DEF m
    <2>2. m \notin Elements(socket.inbox) /\ \A s \in pending : s.id # m
      BY <2>1, InboxStored DEF Known
    <2> QED BY <1>1, <1>4, <2>1, <2>2 DEF Live
  <1>5. ASSUME NEW s \in pending, FanOut(s), pending' = pending \ {s},
               socket'.inbox = Append(socket.inbox, s.id)
        PROVE  Live'
    <2>1. s.id \in Messages /\ s.id \notin Elements(socket.inbox)
      BY <1>1 DEF TypeOK, Saved
    <2>2. NoRepeat(socket'.inbox) /\ Elements(socket'.inbox) = Elements(socket.inbox) \cup {s.id}
      BY <1>1, <1>2, <1>5, <2>1, NoRepeatAppend, ElementsAppend
    <2> QED BY <1>1, <1>5, <2>2 DEF Live
  <1>6. ASSUME OnMessage, socket'.inbox = Tail(socket.inbox), pending' = pending PROVE Live'
    <2>1. socket.inbox # <<>>
      BY <1>6 DEF OnMessage
    <2>2. /\ NoRepeat(Tail(socket.inbox))
          /\ Elements(Tail(socket.inbox)) \subseteq Elements(socket.inbox)
      BY <1>1, <1>2, <2>1, ElementsHeadTail
    <2> QED BY <1>1, <1>6, <2>2 DEF Live
  <1>7. CASE socket'.inbox = <<>> /\ pending' = pending
    BY <1>1, <1>7, ElementsEmpty DEF Live
  <1> QED BY <1>3, <1>4, <1>5, <1>6, <1>7, InboxStep

\* What may still come over the socket, or is a direct message, was so before, or is new.
LEMMA ToShowBefore ==
    ASSUME TypeOK, Numbered, Known, Attached, [Next]_vars, NEW m \in Messages, ToShowOnce(m)'
    PROVE  ToShowOnce(m) \/ m \notin AllStored
  <1>1. CASE m \in Elements(socket'.inbox) \/ \E s \in pending' : s.id = m
    <2>1. socket.inbox \in Seq(Messages)
      BY SocketTyped
    <2>2. CASE socket'.inbox = socket.inbox /\ pending' \subseteq pending
      BY <1>1, <2>2 DEF ToShowOnce
    <2>3. ASSUME NEW c \in Convs, NEW kind \in Kinds, Save(c, kind), socket'.inbox = socket.inbox
          PROVE  ToShowOnce(m) \/ m \notin AllStored
      <3>1. /\ Total + 1 \notin AllStored
            /\ pending' = pending \cup {[id |-> Total + 1, kind |-> kind]}
        BY <2>3, SaveStores, Zenon
      <3> QED BY <1>1, <2>3, <3>1 DEF ToShowOnce
    <2>4. ASSUME NEW s \in pending, FanOut(s), pending' = pending \ {s},
                 socket'.inbox = Append(socket.inbox, s.id)
          PROVE  ToShowOnce(m)
      <3>1. s.id \in Messages
        BY DEF TypeOK, Saved
      <3>2. Elements(socket'.inbox) = Elements(socket.inbox) \cup {s.id}
        BY <2>1, <2>4, <3>1, ElementsAppend
      <3> QED BY <1>1, <2>4, <3>2 DEF ToShowOnce
    <2>5. ASSUME OnMessage, socket'.inbox = Tail(socket.inbox), pending' = pending
          PROVE  ToShowOnce(m)
      <3>1. socket.inbox # <<>>
        BY <2>5 DEF OnMessage
      <3>2. Elements(Tail(socket.inbox)) \subseteq Elements(socket.inbox)
        BY <2>1, <3>1, ElementsHeadTail
      <3> QED BY <1>1, <2>5, <3>2 DEF ToShowOnce
    <2>6. CASE socket'.inbox = <<>> /\ pending' = pending
      BY <1>1, <2>6, ElementsEmpty DEF ToShowOnce
    <2> QED BY <2>2, <2>3, <2>4, <2>5, <2>6, InboxStep
  <1>2. ASSUME NEW p \in Peers, m \in Elements(stored'[p])
        PROVE  ToShowOnce(m) \/ m \notin AllStored
    <2>1. CASE UNCHANGED stored
      BY <1>2, <2>1 DEF ToShowOnce
    <2>2. ASSUME NEW c \in Convs, NEW kind \in Kinds, Save(c, kind)
          PROVE  m \in Elements(stored[p]) \/ m \notin AllStored
      <3>1. /\ Total + 1 \notin AllStored
            /\ Elements(stored'[c]) = Elements(stored[c]) \cup {Total + 1}
            /\ \A d \in Convs \ {c} : stored'[d] = stored[d]
        BY <2>2, SaveStores, Zenon
      <3>2. p \in Convs
        BY DEF Convs
      <3> QED BY <1>2, <3>1, <3>2
    <2> QED BY <2>1, <2>2, StoredBySave DEF ToShowOnce
  <1> QED BY <1>1, <1>2 DEF ToShowOnce

\* How often a message is shown.
LEMMA ShownStep ==
    TypeOK /\ Numbered /\ Known /\ Attached /\ Live /\ Shown /\ [Next]_vars => Shown'
  <1> SUFFICES ASSUME TypeOK, Numbered, Known, Attached, Live, Shown, [Next]_vars,
                      NEW m \in Messages
               PROVE  Twice(view', m) /\ (ToShowOnce(m)' => Once(view', m))
    BY DEF Shown, Messages
  <1>1. Twice(view, m) /\ (ToShowOnce(m) => Once(view, m)) /\ view \in Seq(Messages)
    BY DEF Shown, TypeOK
  <1>2. ToShowOnce(m)' => Once(view, m)
    <2>1. m \notin AllStored => Once(view, m)
      BY AbsentIsOnce DEF Known
    <2> QED BY <1>1, <2>1, ToShowBefore
  <1>3. CASE UNCHANGED view
    BY <1>1, <1>2, <1>3
  <1>4. CASE NoRepeat(view')
    BY <1>4, NoRepeatIsOnce, OnceIsTwice
  <1>5. CASE OnMessage
    <2>0. PICK h \in Messages : h = Head(socket.inbox)
      BY <1>5, InboxHead
    <2>1. /\ h \in Elements(socket.inbox) /\ selected \in Channels
          /\ h \in Elements(stored[selected])
      BY <1>5, <2>0, InboxHead
    <2>2. view' = Append(view, h)
      BY <1>5, <2>0 DEF OnMessage
    <2>3. ToShowOnce(h)
      BY <2>1 DEF ToShowOnce
    <2>4. ~ToShowOnce(h)'
      <3>1. socket.inbox \in Seq(Messages) /\ socket.inbox # <<>> /\ NoRepeat(socket.inbox)
        BY <1>5, SocketTyped DEF OnMessage, Live
      <3>2. h \notin Elements(Tail(socket.inbox))
        BY <2>0, <3>1, ElementsHeadTail
      <3>3. /\ socket'.inbox = Tail(socket.inbox) /\ pending' = pending /\ stored' = stored
        BY <1>5 DEF OnMessage, serverVars, TypeOK, Sockets
      <3>4. \A s \in pending : s.id # h
        BY <2>1 DEF Live
      <3>5. \A p \in Peers : h \notin Elements(stored[p])
        BY <2>1, ViewAssumption DEF Numbered, Convs
      <3> QED BY <3>2, <3>3, <3>4, <3>5 DEF ToShowOnce
    <2>5. CASE m = h
      BY <1>1, <2>1, <2>2, <2>3, <2>4, <2>5, OccurrencesAppend
    <2>6. CASE m # h
      BY <1>1, <1>2, <2>1, <2>2, <2>6, OccurrencesAppend
    <2> QED BY <2>5, <2>6
  <1>6. ASSUME NEW type, Arrives(type), events' = Tail(events),
               view' = AppendUnique(view, Arrived)
        PROVE  Twice(view', m) /\ (ToShowOnce(m)' => Once(view', m))
    <2>1. Arrived \in Messages
      BY <1>6, ArrivedIs
    <2>2. CASE Arrived \in Elements(view)
      BY <1>1, <1>2, <1>6, <2>2 DEF AppendUnique
    <2>3. CASE Arrived \notin Elements(view)
      <3>1. view' = Append(view, Arrived)
        BY <1>6, <2>3 DEF AppendUnique
      <3>2. CASE m = Arrived
        <4>1. Once(view', m)
          BY <1>1, <2>1, <2>3, <3>1, <3>2, OccurrencesAppend
        <4> QED BY <4>1, OnceIsTwice
      <3>3. CASE m # Arrived
        BY <1>1, <1>2, <2>1, <3>1, <3>3, OccurrencesAppend
      <3> QED BY <3>2, <3>3
    <2> QED BY <2>2, <2>3
  <1>7. ASSUME NEW f \in DOMAIN fetches, ApplyHistory(f) PROVE NoRepeat(view')
    BY <1>7 DEF ApplyHistory, Known
  <1>8. ASSUME NEW c \in Convs, Select(c) PROVE NoRepeat(view')
    BY <1>8, ElementsEmpty DEF Select
  <1>9. \/ UNCHANGED view
        \/ \E f \in DOMAIN fetches : ApplyHistory(f)
        \/ \E c \in Convs : Select(c)
        \/ OnMessage
        \/ \E type \in {"message_sent", "ack", "upload_ack", "channel_message"} :
               /\ Arrives(type) /\ events' = Tail(events)
               /\ view' = view \/ view' = AppendUnique(view, Arrived)
    BY Zenon DEF Next, Save, FanOut, EmitDirect, NeverSent, AnswerHistory, SelectDirect, Convs,
       SelectChannel, OpenSocket, DropSocket, DropEvents, HandleNewMessage,
       HandleAck, HandleUploadAck, HandleChannelMessage, serverVars, vars
  <1> QED BY <1>3, <1>4, <1>5, <1>6, <1>7, <1>8, <1>9

\* The history answer of the selection is what it was when nothing is stored or selected.
LEMMA HistoryKept ==
    ASSUME UNCHANGED <<stored, selected>>
    PROVE  History(selected)' = History(selected)
  BY Zenon DEF History, GetMessages, GetDirectMessages

\* A message of the selected conversation is accounted for.
LEMMA AccountedStep ==
    TypeOK /\ Numbered /\ Known /\ Attached /\ Accounted /\ [Next]_vars => Accounted'
  <1> SUFFICES ASSUME TypeOK, Numbered, Known, Attached, Accounted, [Next]_vars,
                      selected' \in Convs, ~stray', NEW m \in Elements(stored'[selected'])
               PROVE  Covered(m)'
    BY DEF Accounted
  <1>1. ASSUME ~stray, UNCHANGED <<stored, selected>>
        PROVE  /\ Covered(m) /\ m \in Elements(stored[selected]) /\ selected \in Convs
               /\ History(selected)' = History(selected)
    BY <1>1, HistoryKept DEF Accounted
  <1>2. ASSUME NEW c \in Convs, NEW kind \in Kinds, Save(c, kind) PROVE Covered(m)'
    <2>1. PICK n \in Messages : n = Total + 1
      BY <1>2, SaveStores
    <2>2. /\ n \notin AllStored /\ stored'[c] = Append(stored[c], n)
          /\ Elements(stored'[c]) = Elements(stored[c]) \cup {n}
          /\ \A d \in Convs \ {c} : stored'[d] = stored[d]
          /\ pending' = pending \cup {[id |-> n, kind |-> kind]}
      BY <1>2, <2>1, SaveStores, Zenon
    <2>3. /\ selected' = selected /\ view' = view /\ missed' = missed /\ socket' = socket
          /\ events' = events /\ fetches' = fetches /\ stray' = stray
      BY <1>2 DEF Save
    <2>4. CASE m = n
      <3>1. [id |-> n, kind |-> kind] \in pending' /\ [id |-> n, kind |-> kind].id = m
        BY <2>2, <2>4
      <3> QED BY <3>1 DEF Covered
    <2>5. CASE m # n
      <3>1. selected \in Convs /\ m \in Elements(stored[selected])
        BY <2>2, <2>3, <2>5
      <3>2. Covered(m)
        BY <2>3, <3>1 DEF Accounted
      <3>3. m \notin Elements(History(selected)) => m \notin Elements(History(selected)')
        <4>1. CASE selected = c
          <5>1. Elements(History(c)') \subseteq Elements(History(c)) \cup {n}
            BY <2>1, <2>2, HistoryGrows DEF TypeOK
          <5>2. History(selected)' = History(c)'
            BY <2>3, <4>1, Zenon DEF History, GetMessages, GetDirectMessages
          <5> QED BY <2>5, <4>1, <5>1, <5>2
        <4>2. CASE selected # c
          <5>1. stored'[selected'] = stored[selected]
            BY <2>2, <2>3, <3>1, <4>2
          <5>2. History(selected)' = History(selected)
            BY <2>3, <5>1, Zenon DEF History, GetMessages, GetDirectMessages
          <5> QED BY <5>2
        <4> QED BY <4>1, <4>2
      <3> QED BY <2>2, <2>3, <3>2, <3>3 DEF Covered
    <2> QED BY <2>4, <2>5
  <1>3. ASSUME NEW s \in pending, FanOut(s) PROVE Covered(m)'
    <2>1. /\ selected' = selected /\ stored' = stored /\ stray' = stray
          /\ view' = view /\ fetches' = fetches /\ pending' = pending \ {s}
      BY <1>3 DEF FanOut
    <2>2. Elements(events) \subseteq Elements(events')
      BY <1>3, FanOutEvents
    <2>3. /\ missed \subseteq missed' /\ Elements(socket.inbox) \subseteq Elements(socket'.inbox)
          /\ s.id \in missed' \cup Elements(socket'.inbox)
      <3>1. CASE socket.pc = "open" /\ socket.conv = ConvOf(s.id)
        <4>1. s.id \in Messages /\ socket.inbox \in Seq(Messages) /\ socket \in Sockets
          BY SocketTyped DEF TypeOK, Saved
        <4>2. socket'.inbox = Append(socket.inbox, s.id) /\ missed' = missed
          BY <1>3, <3>1, <4>1 DEF FanOut, Sockets
        <4> QED BY <4>1, <4>2, ElementsAppend
      <3>2. CASE ~(socket.pc = "open" /\ socket.conv = ConvOf(s.id))
        BY <1>3, <3>2 DEF FanOut
      <3> QED BY <3>1, <3>2
    <2> QED BY <1>1, <2>1, <2>2, <2>3 DEF Covered
  <1>4. ASSUME NEW s \in pending, EmitDirect(s) PROVE Covered(m)'
    <2>1. /\ selected' = selected /\ stored' = stored /\ stray' = stray /\ socket' = socket
          /\ view' = view /\ fetches' = fetches /\ pending' = pending \ {s}
          /\ missed \subseteq missed'
      BY <1>4 DEF EmitDirect
    <2>2. /\ Elements(events) \subseteq Elements(events')
          /\ \/ s.id \in missed'
             \/ \E e \in Elements(events') : e.type \in {"message_sent", "ack"} /\ e.id = s.id
      BY <1>4, EmitEvents
    <2> QED BY <1>1, <2>1, <2>2 DEF Covered
  <1>5. ASSUME NEW f \in DOMAIN fetches, AnswerHistory(f) PROVE Covered(m)'
    <2>1. /\ selected' = selected /\ stored' = stored /\ stray' = stray /\ socket' = socket
          /\ view' = view /\ events' = events /\ pending' = pending
          /\ missed \subseteq missed' /\ fetches[f].pc = "asked"
      BY <1>5 DEF AnswerHistory, serverVars
    <2>2. fetches[f].conv \in Convs
      <3>1. fetches[f] \in Fetches
        BY LenProperties, ElementOfSeq DEF TypeOK
      <3> QED BY <3>1 DEF Fetches
    <2>3. \/ RequestNow(f, "answered", History(fetches[f].conv))
          \/ /\ RequestNow(f, "done", fetches[f].rows)
             /\ Elements(stored[fetches[f].conv]) \subseteq missed'
      <3>1. \/ fetches' = Answered(fetches, f, History(fetches[f].conv))
            \/ /\ fetches' = Done(fetches, f)
               /\ Elements(stored[fetches[f].conv]) \subseteq missed'
        BY <1>5 DEF AnswerHistory, Answered, Done
      <3>2. History(fetches[f].conv) \in Seq(Messages)
        BY <2>2, HistoryIs DEF TypeOK
      <3> QED BY <3>1, <3>2, RequestAnswered, RequestDone
    <2>4. CASE RequestNow(f, "answered", History(fetches[f].conv))
      BY <1>1, <2>1, <2>4 DEF Covered, RequestNow
    <2>5. CASE /\ RequestNow(f, "done", fetches[f].rows)
               /\ Elements(stored[fetches[f].conv]) \subseteq missed'
      BY <1>1, <2>1, <2>5 DEF Covered, RequestNow
    <2> QED BY <2>3, <2>4, <2>5
  <1>6. ASSUME NEW f \in DOMAIN fetches, ApplyHistory(f) PROVE Covered(m)'
    <2>1. /\ selected' = selected /\ stored' = stored /\ ~stray /\ socket' = socket
          /\ events' = events /\ pending' = pending /\ view' = fetches[f].rows
          /\ missed' = missed \cup (Elements(view) \ Elements(view'))
      BY <1>6, Zenon DEF ApplyHistory, serverVars
    <2>2. RequestNow(f, "done", fetches[f].rows)
      BY <1>6, RequestDone, Zenon DEF ApplyHistory, Done
    <2>3. /\ DOMAIN fetches' = DOMAIN fetches
          /\ \A g \in DOMAIN fetches \ {f} : fetches'[g] = fetches[g]
      BY <2>2 DEF RequestNow
    <2>4. fetches[f].pc = "answered"
      BY <1>6 DEF ApplyHistory
    <2> QED BY <1>1, <2>1, <2>3, <2>4 DEF Covered
  <1>7. ASSUME NEW c \in Convs, Select(c) PROVE Covered(m)'
    <2>1. /\ Len(fetches) + 1 \in DOMAIN fetches'
          /\ fetches'[Len(fetches) + 1] = [conv |-> c, pc |-> "asked", rows |-> <<>>]
      BY <1>7, RequestAdded
    <2>2. selected' = c
      BY <1>7 DEF Select
    <2>3. /\ fetches'[Len(fetches) + 1].conv = selected'
          /\ fetches'[Len(fetches) + 1].pc = "asked"
      BY <2>1, <2>2
    <2> QED BY <2>1, <2>3 DEF Covered
  <1>8. CASE OpenSocket
    <2>1. /\ selected' = selected /\ stored' = stored /\ stray' = stray
          /\ socket'.inbox = socket.inbox /\ fetches' = fetches /\ missed' = missed
          /\ view' = view /\ events' = events /\ pending' = pending
      BY <1>8 DEF OpenSocket, serverVars, TypeOK, Sockets
    <2> QED BY <1>1, <2>1 DEF Covered
  <1>9. CASE DropSocket
    <2>1. /\ selected' = selected /\ stored' = stored /\ stray' = stray
          /\ missed' = missed \cup Elements(socket.inbox) /\ fetches' = fetches
          /\ view' = view /\ events' = events /\ pending' = pending
      BY <1>9 DEF DropSocket, serverVars
    <2> QED BY <1>1, <2>1 DEF Covered
  <1>10. CASE DropEvents
    <2>1. /\ selected' = selected /\ stored' = stored /\ stray' = stray
          /\ missed' = missed \cup {events[i].id : i \in DOMAIN events}
          /\ view' = view /\ fetches' = fetches /\ pending' = pending /\ socket' = socket
      BY <1>10 DEF DropEvents, serverVars
    <2>2. \A e \in Elements(events) : e.id \in missed'
      BY <2>1 DEF Elements
    <2> QED BY <1>1, <2>1, <2>2 DEF Covered
  <1>11. CASE OnMessage
    <2>1. /\ selected' = selected /\ stored' = stored /\ stray' = stray
          /\ socket'.inbox = Tail(socket.inbox) /\ fetches' = fetches /\ missed' = missed
          /\ events' = events /\ pending' = pending
      BY <1>11 DEF OnMessage, serverVars, TypeOK, Sockets
    <2>2. Elements(view') = Elements(view) \cup {Head(socket.inbox)}
      BY <1>11, InboxHead
    <2>3. Elements(socket.inbox) = {Head(socket.inbox)} \cup Elements(Tail(socket.inbox))
      BY <1>11, SocketTyped, ElementsHeadTail DEF OnMessage
    <2> QED BY <1>1, <2>1, <2>2, <2>3 DEF Covered
  <1>12. ASSUME NEW type, Arrives(type), events' = Tail(events),
                UNCHANGED <<stored, selected, pending, fetches, socket, missed>>, ~stray,
                Elements(view) \subseteq Elements(view'),
                type \notin {"message_sent", "ack"} \/ Arrived # m \/ m \in Elements(view')
         PROVE  Covered(m)'
    <2>1. /\ Elements(events) = {Head(events)} \cup Elements(events')
          /\ Head(events).type = type
      BY <1>12, ArrivedIs
    <2>2. Covered(m) /\ History(selected)' = History(selected)
      BY <1>1, <1>12
    <2> QED BY <1>12, <2>1, <2>2 DEF Covered, Arrived
  <1>13. ASSUME NEW type, Arrives(type), events' = Tail(events)
         PROVE  Elements(AppendUnique(view, Arrived)) = Elements(view) \cup {Arrived}
    BY <1>13, ArrivedIs, AppendedUnique DEF TypeOK
  <1>14. CASE HandleNewMessage
    <2>1. /\ Arrives("message_sent") /\ events' = Tail(events) /\ ~stray
          /\ UNCHANGED <<stored, selected, pending, fetches, socket, missed>>
          /\ view' = IF ConvOf(Arrived) = selected THEN AppendUnique(view, Arrived) ELSE view
      BY <1>14 DEF HandleNewMessage, serverVars
    <2>2. Arrived = m => ConvOf(Arrived) = selected
      BY <1>1, <2>1, ConvOfStored
    <2> QED BY <1>12, <1>13, <2>1, <2>2
  <1>15. CASE HandleAck
    <2>1. /\ Arrives("ack") /\ events' = Tail(events) /\ ~stray
          /\ UNCHANGED <<stored, selected, pending, fetches, socket, missed>>
          /\ view' = AppendUnique(view, Arrived)
      BY <1>15, Zenon DEF HandleAck, serverVars
    <2> QED BY <1>12, <1>13, <2>1
  <1>16. CASE HandleChannelMessage
    <2>1. /\ Arrives("channel_message") /\ events' = Tail(events) /\ ~stray
          /\ UNCHANGED <<stored, selected, pending, fetches, socket, missed>>
          /\ view' = view
      BY <1>16 DEF HandleChannelMessage, serverVars
    <2> QED BY <1>12, <2>1
  <1>17. CASE HandleUploadAck
    <2>1. /\ Arrives("upload_ack") /\ events' = Tail(events) /\ ~stray
          /\ UNCHANGED <<stored, selected, pending, fetches, socket, missed>>
          /\ view' = view
      BY <1>17 DEF HandleUploadAck, serverVars
    <2> QED BY <1>12, <2>1
  <1>18. ASSUME NEW s \in pending, NeverSent(s) PROVE Covered(m)'
    <2>1. /\ selected' = selected /\ stored' = stored /\ stray' = stray /\ socket' = socket
          /\ view' = view /\ fetches' = fetches /\ events' = events
          /\ pending' = pending \ {s} /\ missed' = missed \cup {s.id}
      BY <1>18 DEF NeverSent
    <2> QED BY <1>1, <2>1 DEF Covered
  <1>19. CASE UNCHANGED vars
    BY <1>1, <1>19 DEF Covered, vars, serverVars
  <1> QED BY <1>2, <1>3, <1>4, <1>5, <1>6, <1>7, <1>8, <1>9, <1>10, <1>11, <1>14, <1>15,
             <1>16, <1>17, <1>18, <1>19 DEF Next, SelectDirect, SelectChannel, Convs

-----------------------------------------------------------------------------
(* The theorems                                                            *)

\* At the start nothing is stored, under way or shown.
LEMMA StartsEmpty ==
    ASSUME Init
    PROVE  /\ TypeOK /\ Numbered /\ Known /\ Attached /\ Placed /\ Live /\ Shown /\ Accounted
  <1>1. TypeOK
    <2>1. /\ stored \in [Convs -> Seq(Messages)] /\ pending \in SUBSET Saved
          /\ view \in Seq(Messages) /\ fetches \in Seq(Fetches) /\ events \in Seq(Events)
          /\ selected \in Convs \cup {None} /\ missed \in SUBSET Messages
      BY EmptySeq DEF Init
    <2>2. Len(fetches) <= MaxSelections
      BY ViewAssumption DEF Init
    <2>3. socket \in Sockets /\ stray \in BOOLEAN
      BY ClosedIs DEF Init
    <2> QED BY <2>1, <2>2, <2>3, Zenon DEF TypeOK
  <1>2. \A c \in Convs : Elements(stored[c]) = {} /\ NoRepeat(stored[c])
    BY ElementsEmpty DEF Init
  <1>3. AllStored = {}
    BY <1>2 DEF AllStored
  <1>4. Numbered
    <2>1. AllStored = 1..0 /\ 0 \in 0..MaxMessages
      BY <1>3, ViewAssumption
    <2> QED BY <1>2, <2>1 DEF Numbered
  <1>5. /\ Elements(view) = {} /\ Elements(events) = {} /\ Elements(socket.inbox) = {}
        /\ NoRepeat(socket.inbox) /\ NoRepeat(view)
        /\ DOMAIN fetches = {} /\ pending = {}
    BY ElementsEmpty, ClosedIs DEF Init
  <1>6. Known
    BY <1>5 DEF Known
  <1>7. Attached
    BY ClosedIs DEF Attached, Init
  <1>8. Placed
    BY <1>5 DEF Placed
  <1>9. Live
    BY <1>5 DEF Live
  <1>10. Shown
    BY <1>5, NoRepeatIsOnce, OnceIsTwice DEF Shown
  <1>11. Accounted
    BY <1>2 DEF Accounted
  <1> QED BY <1>1, <1>4, <1>6, <1>7, <1>8, <1>9, <1>10, <1>11

\* What every state of the browser and the servers satisfies.
Together == TypeOK /\ Numbered /\ Known /\ Attached

LEMMA TogetherStep == Together /\ [Next]_vars => Together'
  <1> SUFFICES ASSUME TypeOK, Numbered, Known, Attached, [Next]_vars PROVE Together'
    BY DEF Together
  <1> QED BY TypingStep, NumberedStep, KnownStep, AttachedStep DEF Together

\* The types: a saved message gets a number within the bound, and whatever comes to the
\* browser, by whichever way, is a message (MyChat.jsx).
THEOREM TypeCorrect == Spec => []TypeOK
  <1>1. Init => Together
    BY StartsEmpty DEF Together
  <1>2. Together => TypeOK
    BY DEF Together
  <1> QED BY <1>1, <1>2, TogetherStep, PTL DEF Spec

\* What is shown belongs to the selection, unless a history answer for another conversation
\* or the callback of a message sent there has come late (MyChat.jsx).
THEOREM OthersOnlyByLateAnswer == Spec => []StrayOnlyByLateAnswer
  <1> DEFINE Inv == Together /\ Placed
  <1>1. Init => Inv
    BY StartsEmpty DEF Together
  <1>2. Inv /\ [Next]_vars => Inv'
    BY TogetherStep, PlacedStep DEF Together
  <1>3. Inv => StrayOnlyByLateAnswer
    <2> SUFFICES ASSUME Numbered, Placed, ~stray, NEW m \in Elements(view)
                 PROVE  ConvOf(m) = selected
      BY DEF Together, StrayOnlyByLateAnswer
    <2>1. selected \in Convs /\ m \in Elements(stored[selected])
      BY DEF Placed
    <2> QED BY <2>1, ConvOfStored
  <1> HIDE DEF Inv
  <1> QED BY <1>1, <1>2, <1>3, PTL DEF Spec

\* A direct message is shown at most once, though history, event and callback may all bring
\* it, and a channel message at most twice (MyChat.jsx).
THEOREM NoneTooOften == Spec => []ShownOnce
  <1> DEFINE Inv == Together /\ Live /\ Shown
  <1>1. Init => Inv
    BY StartsEmpty DEF Together
  <1>2. Inv /\ [Next]_vars => Inv'
    BY TogetherStep, LiveStep, ShownStep DEF Together
  <1>3. Inv => ShownOnce
    <2> SUFFICES ASSUME TypeOK, Numbered, Known, Shown, NEW m \in Elements(view)
                 PROVE  Count(view, m) <= IF ConvOf(m) \in Peers THEN 1 ELSE 2
      BY DEF Together, ShownOnce
    <2>1. view \in Seq(Messages) /\ m \in Messages
      BY ElementsTyped DEF TypeOK
    <2>2. Twice(view, m) /\ (ToShowOnce(m) => Once(view, m))
      BY <2>1 DEF Shown
    <2>3. CASE ConvOf(m) \in Peers
      <3>1. m \in Elements(stored[ConvOf(m)])
        BY Belongs DEF Known
      <3>2. Once(view, m)
        BY <2>2, <2>3, <3>1 DEF ToShowOnce
      <3> QED BY <2>1, <2>3, <3>2, CountIs
    <2>4. CASE ConvOf(m) \notin Peers
      BY <2>1, <2>2, <2>4, CountIs
    <2> QED BY <2>3, <2>4
  <1> HIDE DEF Inv
  <1> QED BY <1>1, <1>2, <1>3, PTL DEF Spec

\* When nothing is under way, a message of the selected conversation that its history
\* answer would hold is on the screen, or one of the reasons MissedForAReason names kept it
\* away: never sent by the server, sent to a socket that was not there, overwritten by an
\* older answer, a failed request (MyChat.jsx, repository.go, socket-handler.js).
THEOREM NoneLostUnnoticed == Spec => []MissedForAReason
  <1> DEFINE Inv == Together /\ Accounted
  <1>1. Init => Inv
    BY StartsEmpty DEF Together
  <1>2. Inv /\ [Next]_vars => Inv'
    BY TogetherStep, AccountedStep DEF Together
  <1>3. Inv => MissedForAReason
    <2> SUFFICES ASSUME TypeOK, Accounted, selected # None, ~stray, Settled,
                        NEW m \in Elements(stored[selected])
                 PROVE  \/ m \in Elements(view) \cup missed
                        \/ m \notin Elements(History(selected))
      BY DEF Together, MissedForAReason
    <2>1. Covered(m)
      BY DEF Accounted, TypeOK
    <2>2. /\ Elements(socket.inbox) = {} /\ Elements(events) = {} /\ pending = {}
          /\ \A f \in DOMAIN fetches : fetches[f].pc = "done"
      BY ElementsEmpty DEF Settled
    <2> QED BY <2>1, <2>2 DEF Covered
  <1> HIDE DEF Inv
  <1> QED BY <1>1, <1>2, <1>3, PTL DEF Spec

=============================================================================
