----------------------------- MODULE QPrioProof -----------------------------
(***************************************************************************)
(* What the operators of module QPrio do to a queue, for all nodes and     *)
(* keys.                                                                   *)
(***************************************************************************)
EXTENDS QPrio, FiniteSetTheorems, NaturalsInduction, SequenceTheorems,
        TLAPS

(***************************************************************************)
(* Queues: each node is in a queue once.                                   *)
(***************************************************************************)
IsQueue(q, S) ==
    /\ q \in Seq(S)
    /\ \A i, j \in 1..Len(q) : q[i] = q[j] => i = j

\* The nodes in a queue.
LEMMA QueueElements == ASSUME NEW S, NEW q \in Seq(S)
    PROVE /\ Elements(q) = {q[i] : i \in 1..Len(q)}
          /\ Elements(q) \subseteq S
BY DEF Elements

\* r is q with the node n more, as element i.
InsertedAt(r, q, i, n, S) ==
    /\ i \in 1..(Len(q) + 1)
    /\ r \in Seq(S) /\ Len(r) = Len(q) + 1
    /\ \A j \in 1..(Len(q) + 1) :
          r[j] = IF j < i THEN q[j] ELSE IF j = i THEN n ELSE q[j - 1]

\* A queue with one node more (qPrioPut, qFifoPut).
LEMMA Inserts ==
    ASSUME NEW S, NEW q, IsQueue(q, S), NEW n \in S, n \notin Elements(q),
           NEW i, NEW r, InsertedAt(r, q, i, n, S)
    PROVE  IsQueue(r, S) /\ Elements(r) = Elements(q) \cup {n}
<1> USE DEF InsertedAt
<1>1. PICK N \in Nat : N = Len(q) /\ Len(r) = N + 1 /\ q \in Seq(S)
    BY DEF IsQueue
<1>2. \A j \in 1..N : q[j] # n
    BY <1>1, QueueElements
<1>3. IsQueue(r, S)
  <2> SUFFICES ASSUME NEW j \in 1..(N + 1), NEW k \in 1..(N + 1), r[j] = r[k]
               PROVE  j = k
      BY <1>1 DEF IsQueue
  <2> DEFINE Old(m) == IF m < i THEN m ELSE m - 1
  <2>1. \A m \in 1..(N + 1) : m # i => Old(m) \in 1..N /\ r[m] = q[Old(m)]
      BY <1>1
  <2>2. r[i] = n
      BY <1>1
  <2>3. CASE j = i \/ k = i
      BY <1>2, <2>1, <2>2, <2>3
  <2>4. CASE j # i /\ k # i
    <3>1. Old(j) = Old(k)
        BY <1>1, <2>1, <2>4 DEF IsQueue
    <3> QED BY <1>1, <2>4, <3>1
  <2> QED BY <2>3, <2>4
<1>4. Elements(r) = Elements(q) \cup {n}
  <2>1. Elements(q) = {q[j] : j \in 1..N} /\ Elements(r) = {r[j] : j \in 1..(N + 1)}
      BY <1>1, QueueElements
  <2>2. \A j \in 1..(N + 1) : r[j] \in Elements(q) \cup {n}
    <3> TAKE j \in 1..(N + 1)
    <3>1. CASE j < i
        BY <1>1, <2>1, <3>1
    <3>2. CASE j = i
        BY <1>1, <3>2
    <3>3. CASE j > i
      <4>1. j - 1 \in 1..N /\ r[j] = q[j - 1]
          BY <1>1, <3>3
      <4> QED BY <2>1, <4>1
    <3> QED BY <1>1, <3>1, <3>2, <3>3
  <2>3. \A j \in 1..N : q[j] \in Elements(r)
    <3> TAKE j \in 1..N
    <3>1. CASE j < i
      <4>1. r[j] = q[j] /\ j \in 1..(N + 1)
          BY <1>1, <3>1
      <4> QED BY <2>1, <4>1
    <3>2. CASE ~(j < i)
      <4>1. r[j + 1] = q[j] /\ j + 1 \in 1..(N + 1)
          BY <1>1, <3>2
      <4> QED BY <2>1, <4>1
    <3> QED BY <3>1, <3>2
  <2>4. n \in Elements(r)
      BY <1>1, <2>1
  <2> QED BY <2>1, <2>2, <2>3, <2>4
<1> QED BY <1>3, <1>4

\* A node at the end (qFifoPut, and qPrioPut of the greatest key).
LEMMA AppendQueue ==
    ASSUME NEW S, NEW q \in Seq(S), NEW n \in S
    PROVE  InsertedAt(Append(q, n), q, Len(q) + 1, n, S)
BY DEF InsertedAt

\* A node before another (dllInsert, as qPrioPut calls it).
LEMMA InsertQueue ==
    ASSUME NEW S, NEW q \in Seq(S), NEW n \in S, NEW i \in 1..Len(q)
    PROVE  InsertedAt(InsertAsNth(q, i, n), q, i, n, S)
<1> DEFINE front == SubSeq(q, 1, i - 1)
           back  == SubSeq(q, i, Len(q))
           r == (front \o <<n>>) \o back
<1>1. Len(q) \in Nat
    OBVIOUS
<1>2. /\ front \in Seq(S) /\ Len(front) = i - 1
      /\ \A j \in 1..(i - 1) : front[j] = q[j]
    BY <1>1
<1>3. /\ back \in Seq(S) /\ Len(back) = Len(q) - i + 1
      /\ \A j \in 1..(Len(q) - i + 1) : back[j] = q[i + j - 1]
    BY <1>1
<1>4. InsertAsNth(q, i, n) = r
    BY DEF InsertAsNth
<1> HIDE DEF front, back
<1>5. /\ front \o <<n>> \in Seq(S) /\ Len(front \o <<n>>) = i
      /\ \A j \in 1..i : (front \o <<n>>)[j] = IF j < i THEN q[j] ELSE n
    BY <1>1, <1>2
<1> DEFINE front1 == front \o <<n>>
<1> HIDE DEF front1
<1>6. /\ r \in Seq(S) /\ Len(r) = Len(q) + 1
      /\ \A j \in 1..(Len(q) + 1) :
            r[j] = IF j <= i THEN front1[j] ELSE back[j - i]
  <2>1. /\ front1 \in Seq(S) /\ Len(front1) = i /\ r = front1 \o back
      BY <1>5 DEF front1
  <2> HIDE DEF r
  <2>2. /\ r \in Seq(S) /\ Len(r) = i + Len(back)
        /\ \A j \in 1..(i + Len(back)) :
              r[j] = IF j <= i THEN front1[j] ELSE back[j - i]
      BY <1>3, <2>1, ConcatProperties
  <2> QED BY <1>1, <1>3, <2>2
<1> HIDE DEF r
<1>7. ASSUME NEW j \in 1..(Len(q) + 1)
      PROVE  r[j] = IF j < i THEN q[j] ELSE IF j = i THEN n ELSE q[j - 1]
  <2>1. CASE j <= i
      BY <1>5, <1>6, <2>1 DEF front1
  <2>2. CASE j > i
    <3>1. j - i \in 1..(Len(q) - i + 1) /\ i + (j - i) - 1 = j - 1
        BY <1>1, <2>2
    <3>2. r[j] = back[j - i] /\ back[j - i] = q[i + (j - i) - 1]
        BY <1>3, <1>6, <2>2, <3>1
    <3> QED BY <2>2, <3>1, <3>2
  <2> QED BY <2>1, <2>2
<1> QED BY <1>1, <1>4, <1>6, <1>7 DEF InsertedAt

\* The first index of a set of indices.
LEMMA FirstIndex ==
    ASSUME NEW N \in Nat, NEW T, T \subseteq 1..N, T # {}
    PROVE  \E i \in T : \A j \in T : i <= j
<1>1. T \subseteq Nat
    OBVIOUS
<1>2. PICK i \in T : \A j \in T : <<j, i>> \notin OpToRel(<, Nat)
    BY <1>1, NatLessThanWellFounded, WFMin
<1>3. \A j \in T : ~(j < i)
    BY <1>1, <1>2, Zenon DEF OpToRel
<1>4. \A j \in T : i <= j
    BY <1>1, <1>3
<1> QED BY <1>4

\* Only the keys of the nodes in the queue matter.
LEMMA SortedBy == ASSUME NEW S, NEW q \in Seq(S), NEW key, NEW key2,
                         \A n \in Elements(q) : key2[n] = key[n], QSorted(q, key)
    PROVE QSorted(q, key2)
BY QueueElements DEF QSorted

\* The new element fits between its neighbours.
LEMMA InsertedSorted ==
    ASSUME NEW S, NEW q \in Seq(S), NEW n \in S, NEW i, NEW r,
           InsertedAt(r, q, i, n, S), NEW key \in [S -> Nat], QSorted(q, key),
           \A j \in 1..Len(q) : j < i => key[q[j]] <= key[n],
           i <= Len(q) => key[n] <= key[q[i]]
    PROVE  QSorted(r, key)
<1>1. PICK N \in Nat : N = Len(q) /\ DOMAIN q = 1..N
    OBVIOUS
<1>2. key[n] \in Nat /\ \A j \in 1..N : q[j] \in S /\ key[q[j]] \in Nat
    BY <1>1
<1>3. \A j, k \in 1..N : j <= k => key[q[j]] <= key[q[k]]
    BY <1>1 DEF QSorted
<1>4. i \in 1..(N + 1) /\ DOMAIN r = 1..(N + 1)
    BY <1>1 DEF InsertedAt
<1>5. /\ \A j \in 1..(N + 1) : j < i => j \in 1..N /\ r[j] = q[j]
      /\ r[i] = n
      /\ \A j \in 1..(N + 1) : j > i => j - 1 \in 1..N /\ r[j] = q[j - 1]
    BY <1>1, <1>4 DEF InsertedAt
<1>6. /\ \A j \in 1..N : j < i => key[q[j]] <= key[n]
      /\ \A j \in 1..N : j >= i => key[n] <= key[q[j]]
  <2>1. ASSUME NEW j \in 1..N, j >= i PROVE key[n] <= key[q[j]]
    <3>1. i \in 1..N /\ key[n] <= key[q[i]]
        BY <1>1, <1>4, <2>1
    <3>2. key[q[i]] <= key[q[j]]
        BY <1>3, <2>1, <3>1
    <3> QED BY <1>2, <3>1, <3>2
  <2> QED BY <1>1, <2>1
<1> SUFFICES ASSUME NEW j \in 1..(N + 1), NEW k \in 1..(N + 1), j <= k
             PROVE  key[r[j]] <= key[r[k]]
    BY <1>4 DEF QSorted
<1>7. CASE k < i
  <2>1. j \in 1..N /\ k \in 1..N /\ r[j] = q[j] /\ r[k] = q[k]
      BY <1>4, <1>5, <1>7
  <2> QED BY <1>3, <2>1
<1>8. CASE j < i /\ k = i
    BY <1>4, <1>5, <1>6, <1>8
<1>9. CASE j < i /\ k > i
  <2>1. /\ j \in 1..N /\ r[j] = q[j]
        /\ k - 1 \in 1..N /\ r[k] = q[k - 1] /\ k - 1 >= i
      BY <1>4, <1>5, <1>9
  <2>2. key[q[j]] <= key[n] /\ key[n] <= key[q[k - 1]]
      BY <1>6, <1>9, <2>1
  <2> QED BY <1>2, <2>1, <2>2
<1>10. CASE j = i /\ k = i
    BY <1>2, <1>5, <1>10
<1>11. CASE j = i /\ k > i
  <2>1. k - 1 \in 1..N /\ r[k] = q[k - 1] /\ k - 1 >= i
      BY <1>4, <1>5, <1>11
  <2> QED BY <1>5, <1>6, <1>11, <2>1
<1>12. CASE j > i
  <2>1. /\ j - 1 \in 1..N /\ r[j] = q[j - 1]
        /\ k - 1 \in 1..N /\ r[k] = q[k - 1] /\ j - 1 <= k - 1
      BY <1>4, <1>5, <1>12
  <2> QED BY <1>3, <2>1
<1> QED BY <1>4, <1>7, <1>8, <1>9, <1>10, <1>11, <1>12

\* Where a put inserts the node (qPrioPut).
LEMMA PutAt ==
    ASSUME NEW S, NEW q \in Seq(S), NEW n \in S, NEW key
    PROVE  \E k : /\ InsertedAt(QPrioPut(q, n, key), q, k, n, S)
                  /\ \A j \in 1..Len(q) : j < k => ~(key[n] < key[q[j]])
                  /\ k <= Len(q) => key[n] < key[q[k]]
<1> DEFINE later == {i \in DOMAIN q : key[n] < key[q[i]]}
           r == QPrioPut(q, n, key)
<1>1. Len(q) \in Nat /\ DOMAIN q = 1..Len(q)
    OBVIOUS
<1>2. CASE later = {}
  <2>1. r = Append(q, n)
      BY <1>2 DEF QPrioPut
  <2>2. InsertedAt(r, q, Len(q) + 1, n, S)
      BY <2>1, AppendQueue
  <2>3. \A j \in 1..Len(q) : ~(key[n] < key[q[j]])
      BY <1>1, <1>2
  <2>4. ~(Len(q) + 1 <= Len(q))
      BY <1>1
  <2> QED BY <2>2, <2>3, <2>4
<1>3. CASE later # {}
  <2> DEFINE i == CHOOSE k \in later : \A j \in later : k <= j
  <2>1. i \in later /\ \A j \in later : i <= j
    <3>1. later \subseteq 1..Len(q)
        BY <1>1
    <3> HIDE DEF later
    <3>2. \E k \in later : \A j \in later : k <= j
        BY <1>1, <1>3, <3>1, FirstIndex
    <3> QED BY <3>2
  <2>2. r = InsertAsNth(q, i, n)
      BY <1>3 DEF QPrioPut
  <2> HIDE DEF i
  <2>3. i \in 1..Len(q) /\ key[n] < key[q[i]]
      BY <1>1, <2>1
  <2>4. InsertedAt(r, q, i, n, S)
      BY <1>1, <2>2, <2>3, InsertQueue
  <2>5. \A j \in 1..Len(q) : j < i => ~(key[n] < key[q[j]])
    <3> SUFFICES ASSUME NEW j \in 1..Len(q), j < i, key[n] < key[q[j]] PROVE FALSE
        OBVIOUS
    <3>1. j \in later
        BY <1>1
    <3> QED BY <2>1, <2>3, <3>1
  <2> QED BY <2>3, <2>4, <2>5
<1> QED BY <1>2, <1>3

\* A put, whatever the keys are.
LEMMA PutElements ==
    ASSUME NEW S, NEW q, IsQueue(q, S), NEW n \in S, n \notin Elements(q), NEW key
    PROVE  /\ IsQueue(QPrioPut(q, n, key), S)
           /\ Elements(QPrioPut(q, n, key)) = Elements(q) \cup {n}
<1>1. PICK k : InsertedAt(QPrioPut(q, n, key), q, k, n, S)
    BY PutAt DEF IsQueue
<1> QED BY <1>1, Inserts

\* A put keeps the queue sorted (qPrioPut).
LEMMA PutQueue ==
    ASSUME NEW S, NEW q, IsQueue(q, S), NEW n \in S, n \notin Elements(q),
           NEW key \in [S -> Nat], QSorted(q, key)
    PROVE  /\ IsQueue(QPrioPut(q, n, key), S)
           /\ Elements(QPrioPut(q, n, key)) = Elements(q) \cup {n}
           /\ QSorted(QPrioPut(q, n, key), key)
<1>1. q \in Seq(S) /\ Len(q) \in Nat
    BY DEF IsQueue
<1>2. key[n] \in Nat /\ \A i \in 1..Len(q) : q[i] \in S /\ key[q[i]] \in Nat
    BY <1>1
<1>3. PICK k : /\ InsertedAt(QPrioPut(q, n, key), q, k, n, S)
               /\ \A j \in 1..Len(q) : j < k => ~(key[n] < key[q[j]])
               /\ k <= Len(q) => key[n] < key[q[k]]
    BY <1>1, PutAt
<1>4. /\ \A j \in 1..Len(q) : j < k => key[q[j]] <= key[n]
      /\ k <= Len(q) => key[n] <= key[q[k]]
    BY <1>1, <1>2, <1>3 DEF InsertedAt
<1>5. QSorted(QPrioPut(q, n, key), key)
    BY <1>1, <1>3, <1>4, InsertedSorted
<1> QED BY <1>5, PutElements

\* A node that is taken out (qPrioRemove).
LEMMA RemoveQueue ==
    ASSUME NEW S, NEW q, IsQueue(q, S), NEW n
    PROVE  LET r == QRemove(q, n) IN
             /\ IsQueue(r, S) /\ Elements(r) = Elements(q) \ {n}
             /\ \A key : QSorted(q, key) => QSorted(r, key)
<1> DEFINE r == QRemove(q, n)
<1>1. PICK N \in Nat : N = Len(q) /\ q \in Seq(S) /\ DOMAIN q = 1..N
    BY DEF IsQueue
<1>2. CASE n \notin Elements(q)
    BY <1>2 DEF QRemove
<1>3. CASE n \in Elements(q)
  <2> DEFINE i == CHOOSE j \in DOMAIN q : q[j] = n
             front == SubSeq(q, 1, i - 1)
             back  == SubSeq(q, i + 1, Len(q))
  <2>1. i \in 1..N /\ q[i] = n
      BY <1>1, <1>3, QueueElements
  <2>2. r = front \o back
      BY <1>3 DEF QRemove
  <2> HIDE DEF i
  <2>3. /\ front \in Seq(S) /\ Len(front) = i - 1
        /\ \A j \in 1..(i - 1) : front[j] = q[j]
      BY <1>1, <2>1
  <2>4. /\ back \in Seq(S) /\ Len(back) = N - i
        /\ \A j \in 1..(N - i) : back[j] = q[i + j]
      BY <1>1, <2>1
  <2> HIDE DEF front, back, r
  <2>5. /\ r \in Seq(S) /\ Len(r) = N - 1
        /\ \A j \in 1..(N - 1) : r[j] = IF j < i THEN front[j] ELSE back[j - (i - 1)]
    <3>1. /\ r \in Seq(S) /\ Len(r) = Len(front) + Len(back)
          /\ \A j \in 1..(Len(front) + Len(back)) :
                r[j] = IF j <= Len(front) THEN front[j] ELSE back[j - Len(front)]
        BY <2>2, <2>3, <2>4, ConcatProperties
    <3> QED BY <2>1, <2>3, <2>4, <3>1
  <2> DEFINE Old(j) == IF j < i THEN j ELSE j + 1
  <2>6. \A j \in 1..(N - 1) : Old(j) \in 1..N /\ Old(j) # i /\ r[j] = q[Old(j)]
    <3> TAKE j \in 1..(N - 1)
    <3>1. CASE j < i
        BY <2>1, <2>3, <2>5, <3>1
    <3>2. CASE ~(j < i)
      <4>1. j - (i - 1) \in 1..(N - i) /\ i + (j - (i - 1)) = j + 1
          BY <2>1, <3>2
      <4> QED BY <2>1, <2>4, <2>5, <3>2, <4>1
    <3> QED BY <3>1, <3>2
  <2>7. \A j, k \in 1..(N - 1) : (Old(j) = Old(k) => j = k) /\ (j <= k => Old(j) <= Old(k))
      BY <2>1
  <2>8. \A j \in 1..N : j # i => \E k \in 1..(N - 1) : Old(k) = j
    <3> TAKE j \in 1..N
    <3> HAVE j # i
    <3>1. CASE j < i
      <4>1. j \in 1..(N - 1) /\ Old(j) = j
          BY <2>1, <3>1
      <4> QED BY <4>1
    <3>2. CASE j > i
      <4>1. j - 1 \in 1..(N - 1) /\ Old(j - 1) = j
          BY <2>1, <3>2
      <4> QED BY <4>1
    <3> QED BY <2>1, <3>1, <3>2
  <2> HIDE DEF Old
  <2>9. IsQueue(r, S)
      BY <1>1, <2>5, <2>6, <2>7 DEF IsQueue
  <2>10. Elements(r) = Elements(q) \ {n}
    <3>1. Elements(q) = {q[j] : j \in 1..N} /\ Elements(r) = {r[j] : j \in 1..(N - 1)}
        BY <1>1, <2>5, QueueElements
    <3>2. \A j \in 1..N : q[j] = n => j = i
        BY <1>1, <2>1 DEF IsQueue
    <3> QED BY <2>1, <2>6, <2>8, <3>1, <3>2
  <2>11. ASSUME NEW key, QSorted(q, key) PROVE QSorted(r, key)
    <3>1. \A j, k \in 1..N : j <= k => key[q[j]] <= key[q[k]]
        BY <1>1, <2>11 DEF QSorted
    <3>2. DOMAIN r = 1..(N - 1)
        BY <2>5
    <3> QED BY <2>6, <2>7, <3>1, <3>2 DEF QSorted
  <2> QED BY <2>9, <2>10, <2>11 DEF r
<1> QED BY <1>2, <1>3

\* The first node is taken out (qPrioGet, qFifoGet).
LEMMA TailQueue ==
    ASSUME NEW S, NEW q, IsQueue(q, S), q # <<>>
    PROVE  /\ Head(q) \in S /\ Head(q) \in Elements(q)
           /\ IsQueue(Tail(q), S) /\ Elements(Tail(q)) = Elements(q) \ {Head(q)}
           /\ \A key : QSorted(q, key) => QSorted(Tail(q), key)
<1>1. PICK N \in Nat : N = Len(q) /\ q \in Seq(S) /\ DOMAIN q = 1..N /\ N > 0
    BY DEF IsQueue
<1>2. PICK r \in Seq(S) : r = Tail(q)
    BY <1>1, HeadTailProperties
<1>3. /\ Len(r) = N - 1 /\ DOMAIN r = 1..(N - 1) /\ Head(q) = q[1]
      /\ \A j \in 1..(N - 1) : r[j] = q[j + 1]
    BY <1>1, <1>2
<1>4. IsQueue(r, S)
    BY <1>1, <1>3 DEF IsQueue
<1>5. Elements(q) = {q[j] : j \in 1..N} /\ Elements(r) = {r[j] : j \in 1..(N - 1)}
    BY <1>1, <1>3, QueueElements
<1>6. Elements(r) = Elements(q) \ {Head(q)}
  <2>1. ASSUME NEW j \in 1..N, q[j] # q[1] PROVE q[j] \in Elements(r)
    <3>1. j - 1 \in 1..(N - 1) /\ r[j - 1] = q[j]
        BY <1>3, <2>1
    <3> QED BY <1>5, <3>1
  <2>2. ASSUME NEW j \in 1..(N - 1) PROVE r[j] \in Elements(q) /\ r[j] # q[1]
    <3>1. j + 1 \in 1..N /\ r[j] = q[j + 1] /\ j + 1 # 1 /\ 1 \in 1..N
        BY <1>1, <1>3
    <3> QED BY <1>1, <1>5, <3>1 DEF IsQueue
  <2>3. \A x : x \in Elements(r) => x \in Elements(q) /\ x # q[1]
      BY <1>5, <2>2
  <2>4. \A x : x \in Elements(q) /\ x # q[1] => x \in Elements(r)
      BY <1>5, <2>1
  <2> QED BY <1>3, <2>3, <2>4
<1>7. ASSUME NEW key, QSorted(q, key) PROVE QSorted(r, key)
  <2> SUFFICES ASSUME NEW j \in 1..(N - 1), NEW k \in 1..(N - 1), j <= k
               PROVE  key[r[j]] <= key[r[k]]
      BY <1>3 DEF QSorted
  <2>1. /\ r[j] = q[j + 1] /\ r[k] = q[k + 1]
        /\ j + 1 \in 1..N /\ k + 1 \in 1..N /\ j + 1 <= k + 1
      BY <1>1, <1>3
  <2> QED BY <1>1, <1>7, <2>1 DEF QSorted
<1>8. Head(q) \in S /\ Head(q) \in Elements(q)
    BY <1>1, <1>3, <1>5
<1> QED BY <1>2, <1>4, <1>6, <1>7, <1>8

\* A node that moves, whatever the keys are.
LEMMA MoveElements ==
    ASSUME NEW S, NEW q, IsQueue(q, S), NEW n \in Elements(q), NEW key
    PROVE  /\ IsQueue(QPrioMove(q, n, key), S)
           /\ Elements(QPrioMove(q, n, key)) = Elements(q)
<1> DEFINE s == QRemove(q, n)
<1>1. n \in S
    BY QueueElements DEF IsQueue
<1>2. IsQueue(s, S) /\ Elements(s) = Elements(q) \ {n}
    BY RemoveQueue
<1>3. QPrioMove(q, n, key) \in {q, QPrioPut(s, n, key)}
    BY DEF QPrioMove
<1> HIDE DEF s
<1>4. IsQueue(QPrioPut(s, n, key), S) /\ Elements(QPrioPut(s, n, key)) = Elements(q)
    BY <1>1, <1>2, PutElements
<1> QED BY <1>3, <1>4

\* A node with a new key, that moves (qPrioMove, qPriBmpMove).
LEMMA MoveQueue ==
    ASSUME NEW S, NEW q, IsQueue(q, S), NEW n \in Elements(q),
           NEW key \in [S -> Nat], NEW key2 \in [S -> Nat], QSorted(q, key),
           \A m \in S : m # n => key2[m] = key[m]
    PROVE  /\ LET r == QPriBmpMove(q, n, key2) IN
                IsQueue(r, S) /\ Elements(r) = Elements(q) /\ QSorted(r, key2)
           /\ LET r == QPrioMove(q, n, key2) IN
                IsQueue(r, S) /\ Elements(r) = Elements(q) /\ QSorted(r, key2)
<1>1. PICK N \in Nat : N = Len(q) /\ q \in Seq(S) /\ DOMAIN q = 1..N
    BY DEF IsQueue
<1>2. n \in S
    BY <1>1, QueueElements
<1>3. LET r == QPrioPut(QRemove(q, n), n, key2) IN
         IsQueue(r, S) /\ Elements(r) = Elements(q) /\ QSorted(r, key2)
  <2> DEFINE s == QRemove(q, n)
  <2>1. IsQueue(s, S) /\ Elements(s) = Elements(q) \ {n} /\ QSorted(s, key)
      BY RemoveQueue
  <2> HIDE DEF s
  <2>2. \A m \in Elements(s) : key2[m] = key[m]
      BY <1>1, <2>1, QueueElements
  <2>3. QSorted(s, key2)
      BY <2>1, <2>2, SortedBy DEF IsQueue
  <2>4. n \notin Elements(s)
      BY <2>1
  <2>5. LET r == QPrioPut(s, n, key2) IN
           IsQueue(r, S) /\ Elements(r) = Elements(s) \cup {n} /\ QSorted(r, key2)
      BY <1>2, <2>1, <2>3, <2>4, PutQueue
  <2> QED BY <2>1, <2>5 DEF s
<1>4. LET r == QPrioMove(q, n, key2) IN
         IsQueue(r, S) /\ Elements(r) = Elements(q) /\ QSorted(r, key2)
  <2> DEFINE i == CHOOSE j \in DOMAIN q : q[j] = n
             fits == /\ i > 1      => key2[n] >= key2[q[i - 1]]
                     /\ i < Len(q) => key2[n] <= key2[q[i + 1]]
  <2>1. i \in 1..N /\ q[i] = n
      BY <1>1, QueueElements
  <2>2. QPrioMove(q, n, key2) = IF fits THEN q ELSE QPrioPut(QRemove(q, n), n, key2)
      BY DEF QPrioMove
  <2> HIDE DEF i
  <2>3. ASSUME fits PROVE QSorted(q, key2)
    <3>1. /\ \A j \in 1..N : key[q[j]] \in Nat /\ key2[q[j]] \in Nat /\ q[j] \in S
          /\ \A j \in 1..N : j # i => key2[q[j]] = key[q[j]]
      <4>1. \A j \in 1..N : q[j] \in S
          BY <1>1
      <4>2. \A j \in 1..N : j # i => q[j] # n
          BY <1>1, <2>1 DEF IsQueue
      <4> QED BY <4>1, <4>2
    <3>2. \A j, k \in 1..N : j <= k => key[q[j]] <= key[q[k]]
        BY <1>1 DEF QSorted
    <3> SUFFICES ASSUME NEW j \in 1..N, NEW k \in 1..N, j <= k
                 PROVE  key2[q[j]] <= key2[q[k]]
        BY <1>1 DEF QSorted
    <3>3. CASE j # i /\ k # i
        BY <3>1, <3>2, <3>3
    <3>4. CASE j = k
        BY <3>1, <3>4
    <3>5. CASE j = i /\ k > i
      <4>1. i + 1 \in 1..N /\ i + 1 <= k /\ i + 1 # i /\ k # i
          BY <2>1, <3>5
      <4>2. key2[n] <= key2[q[i + 1]]
          BY <1>1, <2>1, <2>3, <3>1, <4>1
      <4>3. key2[q[i + 1]] <= key2[q[k]]
          BY <3>1, <3>2, <4>1
      <4> QED BY <2>1, <3>1, <3>5, <4>1, <4>2, <4>3
    <3>6. CASE k = i /\ j < i
      <4>1. i - 1 \in 1..N /\ j <= i - 1 /\ i - 1 # i /\ j # i
          BY <2>1, <3>6
      <4>2. key2[q[i - 1]] <= key2[n]
          BY <1>1, <2>1, <2>3, <3>1, <4>1
      <4>3. key2[q[j]] <= key2[q[i - 1]]
          BY <3>1, <3>2, <4>1
      <4> QED BY <2>1, <3>1, <3>6, <4>1, <4>2, <4>3
    <3> QED BY <2>1, <3>3, <3>4, <3>5, <3>6
  <2> HIDE DEF fits
  <2> QED BY <1>3, <2>2, <2>3
<1> QED BY <1>3, <1>4 DEF QPriBmpMove, QPriBmpPut

\* Whatever is in a queue, it stays a queue of the same kind of nodes.
LEMMA SeqOperators ==
    ASSUME NEW S, NEW q \in Seq(S), NEW n \in S, NEW key
    PROVE  /\ QPrioPut(q, n, key) \in Seq(S)
           /\ QRemove(q, n) \in Seq(S)
           /\ QPriBmpPut(q, n, key) \in Seq(S)
           /\ QPrioMove(q, n, key) \in Seq(S)
           /\ QPriBmpMove(q, n, key) \in Seq(S)
<1>1. ASSUME NEW r \in Seq(S) PROVE QPrioPut(r, n, key) \in Seq(S)
    BY PutAt DEF InsertedAt
<1>2. QRemove(q, n) \in Seq(S)
  <2> DEFINE i == CHOOSE j \in DOMAIN q : q[j] = n
  <2>1. CASE n \in Elements(q)
    <3>1. QRemove(q, n) = SubSeq(q, 1, i - 1) \o SubSeq(q, i + 1, Len(q))
        BY <2>1 DEF QRemove
    <3>2. i \in DOMAIN q
        BY <2>1 DEF Elements
    <3> HIDE DEF i
    <3> QED BY <3>1, <3>2
  <2>2. CASE n \notin Elements(q)
      BY <2>2 DEF QRemove
  <2> QED BY <2>1, <2>2
<1> QED BY <1>1, <1>2 DEF QPriBmpPut, QPriBmpMove, QPrioMove

\* As many different nodes as elements.
LEMMA QueueSize ==
    ASSUME NEW S, NEW q, IsQueue(q, S)
    PROVE  IsFiniteSet(Elements(q)) /\ Cardinality(Elements(q)) = Len(q)
<1>1. Len(q) \in Nat /\ q \in [1..Len(q) -> S] /\ DOMAIN q = 1..Len(q)
    BY LenProperties DEF IsQueue
<1>2. q \in Bijection(1..Len(q), Elements(q))
  <2>1. q \in [1..Len(q) -> Elements(q)]
      BY <1>1 DEF Elements
  <2>2. \A x \in Elements(q) : \E j \in 1..Len(q) : q[j] = x
      BY <1>1 DEF Elements
  <2> QED BY <1>1, <2>1, <2>2 DEF Bijection, Injection, Surjection, IsInjective, IsQueue
<1> QED
  BY <1>1, <1>2, FS_CountingElements, FS_NatBijection DEF ExistsBijection

\* All elements of a finite set, in any order, are a queue (the queue that a
\* system starts with).
LEMMA AllOnce ==
    ASSUME NEW S, IsFiniteSet(S), NEW q \in [1..Cardinality(S) -> S], Elements(q) = S
    PROVE  IsQueue(q, S) /\ (S # {} => q # <<>> /\ Head(q) \in S)
<1>1. Cardinality(S) \in Nat /\ (S # {} => Cardinality(S) # 0)
    BY FS_CardinalityType, FS_EmptySet
<1>2. q \in Seq(S) /\ Len(q) = Cardinality(S)
    BY <1>1
<1>3. q \in Surjection(1..Cardinality(S), S)
    BY DEF Surjection, Elements
<1>4. q \in Injection(1..Cardinality(S), S)
  <2>1. IsFiniteSet(1..Cardinality(S))
        /\ Cardinality(1..Cardinality(S)) = Cardinality(S)
      BY <1>1, FS_Interval
  <2> QED BY <1>3, <2>1, FS_SurjSameCardinalityImpliesInj
<1>5. IsQueue(q, S)
    BY <1>1, <1>2, <1>4 DEF IsQueue, Injection, IsInjective
<1> QED BY <1>1, <1>2, <1>5
=============================================================================
