---------------------------- MODULE NetTaskProof ----------------------------
(***************************************************************************)
(* The network task never reads a part of a job, no job is left without a  *)
(* wakeup, the network level is exclusive, the timers go on and a reader   *)
(* is woken, for any number of tasks and timers, any size of a job, of the *)
(* ring and of the queues.                                                 *)
(***************************************************************************)
EXTENDS NetTask, TLAPS

-----------------------------------------------------------------------------
(***************************************************************************)
(* Rings of any size do what a sequence of bytes does.                     *)
(***************************************************************************)
LEMMA RingFacts == ASSUME NEW Byte, NEW r, IsRing(r, Byte)
    PROVE /\ rngNBytes(r) \in Nat /\ rngNBytes(r) < r.size
          /\ rngFreeBytes(r) = r.size - 1 - rngNBytes(r)
          /\ rngIsEmpty(r) <=> rngNBytes(r) = 0
          /\ rngIsFull(r) <=> rngFreeBytes(r) = 0
          /\ rngElemFull(r) <=> rngFreeBytes(r) = 0
BY DEF IsRing, rngNBytes, rngFreeBytes, rngIsEmpty, rngIsFull, rngElemFull

LEMMA FreeIsNat == ASSUME NEW Byte, NEW r, IsRing(r, Byte)
    PROVE rngFreeBytes(r) \in Nat
BY RingFacts DEF IsRing

LEMMA PutCountIs == ASSUME NEW Byte, NEW r, IsRing(r, Byte), NEW len \in Nat
    PROVE /\ PutCount(r, len) = Least(len, rngFreeBytes(r))
          /\ PutFirst(r, len) \in Nat /\ PutSecond(r, len) \in Nat
<1>1. PICK f \in Int, u \in Int, s \in Int : f = r.from /\ u = r.to /\ s = r.size
    BY DEF IsRing
<1>2. /\ r.from = f /\ r.to = u /\ r.size = s
      /\ s > 0 /\ 0 <= f /\ f < s /\ 0 <= u /\ u < s
    BY <1>1 DEF IsRing
<1>3. PutChunk(r) \in Nat
    BY <1>2 DEF PutChunk
<1>4. PutFirst(r, len) \in Nat /\ PutFirst(r, len) = Least(len, PutChunk(r))
    BY <1>3 DEF PutFirst, Least
<1>5. PutSecond(r, len) \in Nat
    BY <1>2, <1>3, <1>4 DEF PutSecond, Least
<1>6. PutCount(r, len) = Least(len, rngFreeBytes(r))
    BY <1>2, <1>4 DEF PutCount, PutSecond, PutChunk, rngFreeBytes, Least
<1> QED BY <1>4, <1>5, <1>6

\* The bytes between the reader's offset and the one it has loaded.
Seen(r, to) == IF to < r.from THEN to - r.from + r.size ELSE to - r.from

LEMMA GetCountIs == ASSUME NEW Byte, NEW r, IsRing(r, Byte), NEW n \in Nat,
                           NEW to \in 0..(r.size - 1)
    PROVE /\ GetCount(r, to, n) = Least(n, Seen(r, to))
          /\ GetFirst(r, to, n) \in Nat /\ GetSecond(r, to, n) \in Nat
BY DEF IsRing, GetCount, GetFirst, GetSecond, Least, Seen

\* The two copies of a put, and the offset behind them.
LEMMA PutShape == ASSUME NEW Byte, NEW r, IsRing(r, Byte), NEW len \in Nat
    PROVE LET first  == PutFirst(r, len)
              second == PutSecond(r, len)
          IN  /\ first \in Nat /\ second \in Nat /\ first + second <= len
              /\ first + second = PutCount(r, len)
              /\ first + second <= r.size - 1 - rngNBytes(r)
              /\ r.to + first <= r.size
              /\ second > 0 => r.to + first = r.size
              /\ second > 0 => second < r.from /\ r.from <= r.to
<1> DEFINE first  == PutFirst(r, len)
           second == PutSecond(r, len)
<1>1. first \in Nat /\ first <= len /\ first <= PutChunk(r)
    BY DEF IsRing, PutFirst, PutChunk, Least
<1>2. \/ second = 0
      \/ /\ second \in Nat /\ 0 < r.from /\ r.from <= r.to /\ r.to + first = r.size
         /\ second <= len - first /\ second < r.from
    BY <1>1 DEF IsRing, PutSecond, Least
<1>3. first + second = PutCount(r, len)
    BY DEF PutCount
<1> HIDE DEF first, second
<1> QED BY <1>1, <1>2, <1>3 DEF IsRing, PutChunk, rngNBytes, first, second

\* Where a put leaves the bytes.
LEMMA PutBytes == ASSUME NEW Byte, NEW r, IsRing(r, Byte), NEW s, NEW len \in Nat,
                         len = Len(s), \A i \in 1..len : s[i] \in Byte
    PROVE LET q == rngBufPut(r, s)
              n == PutCount(r, len)
          IN  /\ IsRing(q, Byte)
              /\ q.size = r.size /\ q.from = r.from
              /\ rngNBytes(q) = rngNBytes(r) + n
              /\ \A i \in 1..rngNBytes(q) :
                    q.buf[Wrapped(r, r.from + i - 1)] =
                        IF i <= rngNBytes(r) THEN r.buf[Wrapped(r, r.from + i - 1)]
                                             ELSE s[i - rngNBytes(r)]
<1> DEFINE q == rngBufPut(r, s)
<1>1. PICK size \in Nat, to \in Nat, from \in Nat :
          r.size = size /\ r.to = to /\ r.from = from
    BY DEF IsRing
<1>2. PICK buf : r.buf = buf /\ buf \in [0..(size - 1) -> Byte]
    BY <1>1 DEF IsRing
<1>3. PICK N \in Nat, first \in Nat, second \in Nat :
          /\ N = rngNBytes(r)
          /\ first = PutFirst(r, len) /\ second = PutSecond(r, len)
    BY RingFacts, PutShape
<1>4. first + second = PutCount(r, len)
    BY <1>3, PutShape
\* The numbers alone.
<1>5. to < size /\ from < size
    BY <1>1 DEF IsRing
<1>6. N < size
    BY <1>1, <1>3, RingFacts
<1>7. /\ from + N < size => to = from + N
      /\ from + N >= size => to = from + N - size
  <2>1. N = IF to < from THEN to - from + size ELSE to - from
      BY <1>1, <1>3 DEF rngNBytes
  <2> QED BY <2>1, <1>5
<1>8. /\ first + second <= len
      /\ first + second <= size - 1 - N
      /\ to + first <= size
      /\ second > 0 => to + first = size /\ second < from /\ from <= to
    BY <1>1, <1>3, PutShape
<1> DEFINE sum == to + first + second
           end == IF sum >= size THEN sum - size ELSE sum
<1>9. end \in 0..(size - 1)
    BY <1>5, <1>6, <1>8
<1>10. N + first + second = IF end < from THEN end - from + size ELSE end - from
    BY <1>5, <1>6, <1>7, <1>8
\* The ring.
<1>11. /\ q.size = size /\ q.from = from /\ q.to = end
       /\ q = [size |-> q.size, buf |-> q.buf, to |-> q.to, from |-> q.from]
    BY <1>1, <1>3 DEF rngBufPut, Changed, Wrapped
<1>12. q.buf = [i \in 0..(size - 1) |->
                   IF to <= i /\ i < to + first THEN s[i - to + 1]
                   ELSE IF i < second THEN s[first + i + 1]
                   ELSE buf[i]]
    BY <1>1, <1>2, <1>3 DEF rngBufPut, Changed
<1> HIDE DEF q, end
<1>13. q.buf \in [0..(size - 1) -> Byte]
  <2> SUFFICES ASSUME NEW i \in 0..(size - 1) PROVE q.buf[i] \in Byte
      BY <1>12
  <2>1. CASE to <= i /\ i < to + first
      BY <2>1, <1>8, <1>12
  <2>2. CASE ~(to <= i /\ i < to + first) /\ i < second
    <3>1. first + i + 1 \in 1..len
        BY <2>2, <1>8
    <3>2. q.buf[i] = s[first + i + 1]
        BY <2>2, <1>12
    <3> QED BY <3>1, <3>2
  <2>3. CASE ~(to <= i /\ i < to + first) /\ ~(i < second)
      BY <2>3, <1>2, <1>12
  <2> QED BY <2>1, <2>2, <2>3
<1>14. IsRing(q, Byte)
    BY <1>5, <1>9, <1>11, <1>13 DEF IsRing
<1>15. rngNBytes(q) = N + first + second
    BY <1>10, <1>11 DEF rngNBytes
<1>16. ASSUME NEW i \in Nat, 1 <= i, i <= N + first + second
      PROVE  q.buf[Wrapped(r, r.from + i - 1)] =
                IF i <= N THEN r.buf[Wrapped(r, r.from + i - 1)] ELSE s[i - N]
  <2> DEFINE k == IF from + i - 1 >= size THEN from + i - 1 - size ELSE from + i - 1
  <2>1. k = Wrapped(r, r.from + i - 1)
      BY <1>1 DEF Wrapped
  <2>2. k \in 0..(size - 1)
      BY <1>5, <1>6, <1>8, <1>16
  <2>3. q.buf[k] = IF to <= k /\ k < to + first THEN s[k - to + 1]
                   ELSE IF k < second THEN s[first + k + 1]
                   ELSE buf[k]
      BY <2>2, <1>12
  <2>4. CASE i <= N
    <3>1. ~(to <= k /\ k < to + first) /\ ~(k < second)
        BY <1>5, <1>6, <1>7, <1>8, <1>16, <2>4
    <3> HIDE DEF k
    <3> QED BY <1>2, <2>1, <2>3, <2>4, <3>1
  <2>5. CASE ~(i <= N)
    <3>1. \/ to <= k /\ k < to + first /\ k - to + 1 = i - N
          \/ ~(to <= k) /\ k < second /\ first + k + 1 = i - N
        BY <1>5, <1>6, <1>7, <1>8, <1>16, <2>5
    <3> HIDE DEF k
    <3> QED BY <2>1, <2>3, <2>5, <3>1
  <2> QED BY <2>4, <2>5
<1> HIDE DEF sum
<1>17. rngNBytes(q) = rngNBytes(r) + PutCount(r, len)
    BY <1>3, <1>4, <1>15
<1> QED BY <1>1, <1>3, <1>11, <1>14, <1>15, <1>16, <1>17 DEF q

\* Offsets of bytes that are there are offsets of the buffer.
LEMMA ContentsType == ASSUME NEW Byte, NEW r, IsRing(r, Byte)
    PROVE /\ Contents(r) \in Seq(Byte)
          /\ Len(Contents(r)) = rngNBytes(r)
<1>1. PICK size \in Nat, from \in Nat, buf \in {r.buf} :
         /\ r.size = size /\ r.from = from /\ r.buf = buf /\ from < size
         /\ buf \in [0..(size - 1) -> Byte]
    BY DEF IsRing
<1>2. PICK N \in Nat : N = rngNBytes(r) /\ N < size
    BY <1>1, RingFacts
<1>3. ASSUME NEW i \in 1..N
      PROVE  r.buf[Wrapped(r, r.from + i - 1)] \in Byte
    BY <1>1, <1>2 DEF Wrapped
<1> QED BY <1>2, <1>3 DEF Contents

(***************************************************************************)
(* A put appends what fits, and keeps what is there.                       *)
(***************************************************************************)
THEOREM PutAppends == ASSUME NEW Byte, NEW r, IsRing(r, Byte), NEW s \in Seq(Byte)
    PROVE LET q == rngBufPut(r, s)
              n == Least(Len(s), rngFreeBytes(r))
          IN  /\ IsRing(q, Byte) /\ q.size = r.size /\ q.from = r.from
              /\ PutCount(r, Len(s)) = n
              /\ Contents(q) = Contents(r) \o SubSeq(s, 1, n)
<1> DEFINE q == rngBufPut(r, s)
           n == Least(Len(s), rngFreeBytes(r))
<1>1. n \in Nat /\ n <= Len(s) /\ PutCount(r, Len(s)) = n
  <2>1. Len(s) \in Nat /\ rngFreeBytes(r) \in Nat
      BY RingFacts DEF IsRing
  <2>2. PutCount(r, Len(s)) = n
      BY <2>1, PutCountIs
  <2> QED BY <2>1, <2>2 DEF Least
<1>2. /\ IsRing(q, Byte) /\ q.size = r.size /\ q.from = r.from
      /\ rngNBytes(q) = rngNBytes(r) + n
      /\ \A i \in 1..rngNBytes(q) :
            q.buf[Wrapped(r, r.from + i - 1)] =
                IF i <= rngNBytes(r) THEN r.buf[Wrapped(r, r.from + i - 1)]
                                     ELSE s[i - rngNBytes(r)]
    BY <1>1, PutBytes
<1>3. \A i : Wrapped(q, i) = Wrapped(r, i)
    BY <1>2 DEF Wrapped
<1> HIDE DEF q, n
<1>4. PICK N \in Nat : N = rngNBytes(r)
    BY RingFacts
<1>5. Contents(q) = [i \in 1..(N + n) |->
                        IF i <= N THEN r.buf[Wrapped(r, r.from + i - 1)] ELSE s[i - N]]
    BY <1>2, <1>3, <1>4 DEF Contents
<1>6. Contents(r) = [i \in 1..N |-> r.buf[Wrapped(r, r.from + i - 1)]]
    BY <1>4 DEF Contents
<1>7. Contents(r) \in Seq(Byte) /\ Len(Contents(r)) = N
    BY <1>4, ContentsType
<1>8. SubSeq(s, 1, n) = [i \in 1..n |-> s[i]]
    BY <1>1
<1>9. Contents(r) \o SubSeq(s, 1, n) =
          [i \in 1..(N + n) |-> IF i <= N THEN Contents(r)[i] ELSE s[i - N]]
    BY <1>1, <1>7, <1>8
<1> QED BY <1>1, <1>2, <1>5, <1>6, <1>9 DEF q, n

LEMMA GetShape == ASSUME NEW Byte, NEW r, IsRing(r, Byte), NEW n \in Nat,
                         NEW to \in 0..(r.size - 1)
    PROVE LET first  == GetFirst(r, to, n)
              second == GetSecond(r, to, n)
          IN  /\ first \in Nat /\ second \in Nat
              /\ r.from + first <= r.size
              /\ second > 0 => r.from + first = r.size /\ second < r.size
<1>1. GetFirst(r, to, n) \in Nat /\ r.from + GetFirst(r, to, n) <= r.size
    BY DEF IsRing, GetFirst, Least
<1>2. GetFirst(r, to, n) <= n
    BY DEF IsRing, GetFirst, Least
<1>3. \/ GetSecond(r, to, n) = 0
      \/ /\ GetSecond(r, to, n) \in Nat /\ GetSecond(r, to, n) <= to
         /\ r.from + GetFirst(r, to, n) = r.size
    BY <1>1, <1>2 DEF IsRing, GetSecond, Least
<1> QED BY <1>1, <1>3 DEF IsRing

(***************************************************************************)
(* A get takes bytes from the front, as many as are asked for and were     *)
(* there when the writer's offset was loaded; more may be there by now.    *)
(***************************************************************************)
THEOREM GetTakes == ASSUME NEW Byte, NEW r, IsRing(r, Byte), NEW n \in Nat,
                           NEW to \in 0..(r.size - 1), Seen(r, to) <= rngNBytes(r)
    PROVE LET q == rngBufGet(r, to, n)
              c == Least(n, Seen(r, to))
          IN  /\ IsRing(q, Byte) /\ q.size = r.size /\ q.to = r.to
              /\ rngBufGot(r, to, n) = SubSeq(Contents(r), 1, c)
              /\ rngNBytes(q) = rngNBytes(r) - c
              /\ Contents(q) = SubSeq(Contents(r), c + 1, rngNBytes(r))
<1> DEFINE q == rngBufGet(r, to, n)
<1>1. PICK size \in Nat, rto \in Nat, from \in Nat, buf \in {r.buf} :
          r.size = size /\ r.to = rto /\ r.from = from /\ r.buf = buf
    BY DEF IsRing
<1>2. PICK N \in Nat, first \in Nat, second \in Nat, c \in Nat :
          /\ N = rngNBytes(r) /\ c = Least(n, Seen(r, to))
          /\ first = GetFirst(r, to, n) /\ second = GetSecond(r, to, n)
  <2>1. rngNBytes(r) \in Nat
      BY RingFacts
  <2>2. GetFirst(r, to, n) \in Nat /\ GetSecond(r, to, n) \in Nat
      BY GetShape
  <2>3. Least(n, Seen(r, to)) \in Nat
      BY DEF Least, Seen, IsRing
  <2> QED BY <2>1, <2>2, <2>3
<1>3. first + second = GetCount(r, to, n) /\ c = GetCount(r, to, n)
    BY <1>2, GetCountIs DEF GetCount
\* The numbers alone.
<1>4. rto < size /\ from < size
    BY <1>1 DEF IsRing
<1>5. N < size
    BY <1>1, <1>2, RingFacts
<1>6. /\ from + N < size => rto = from + N
      /\ from + N >= size => rto = from + N - size
  <2>1. N = IF rto < from THEN rto - from + size ELSE rto - from
      BY <1>1, <1>2 DEF rngNBytes
  <2> QED BY <2>1, <1>4
<1>7. c = first + second
    BY <1>3
<1>8. c <= N
    BY <1>2 DEF Least, Seen, IsRing
<1>9. /\ from + first <= size
      /\ second > 0 => from + first = size /\ second < size
    BY <1>1, <1>2, GetShape
<1> DEFINE new == IF from + c >= size THEN from + c - size ELSE from + c
<1>10. new \in 0..(size - 1)
    BY <1>4, <1>5, <1>8
<1>11. N - c = IF rto < new THEN rto - new + size ELSE rto - new
    BY <1>4, <1>5, <1>6, <1>8
\* The ring.
<1>12. /\ q.size = size /\ q.from = new /\ q.to = rto /\ q.buf = buf
       /\ q = [size |-> q.size, buf |-> q.buf, to |-> q.to, from |-> q.from]
    BY <1>1, <1>3 DEF rngBufGet, Changed, Wrapped
<1>13. buf \in [0..(size - 1) -> Byte]
    BY <1>1 DEF IsRing
<1> HIDE DEF q
<1>14. IsRing(q, Byte)
    BY <1>4, <1>10, <1>12, <1>13 DEF IsRing
<1>15. rngNBytes(q) = N - c
    BY <1>11, <1>12 DEF rngNBytes
\* The bytes.
<1> DEFINE at(f, i) == IF f + i - 1 >= size THEN f + i - 1 - size ELSE f + i - 1
<1>16. Contents(r) = [i \in 1..N |-> buf[at(from, i)]]
    BY <1>1, <1>2 DEF Contents, Wrapped
<1>17. Contents(r) \in Seq(Byte) /\ Len(Contents(r)) = N
    BY <1>2, ContentsType
<1>18. Contents(q) = [i \in 1..(N - c) |-> buf[at(new, i)]]
    BY <1>12, <1>15 DEF Contents, Wrapped
<1>19. SubSeq(Contents(r), c + 1, N) = [i \in 1..(N - c) |-> buf[at(from, c + i)]]
  <2>1. SubSeq(Contents(r), c + 1, N) = [i \in 1..(N - c) |-> Contents(r)[c + i]]
      BY <1>8, <1>17
  <2>2. \A i \in 1..(N - c) : c + i \in 1..N
      BY <1>8
  <2>3. \A i \in 1..(N - c) : Contents(r)[c + i] = buf[at(from, c + i)]
      BY <2>2, <1>16
  <2> QED BY <2>1, <2>3
<1>20. \A i \in 1..(N - c) : at(new, i) = at(from, c + i)
    BY <1>4, <1>5, <1>8
<1>21. Contents(q) = SubSeq(Contents(r), c + 1, N)
    BY <1>18, <1>19, <1>20
<1>22. rngBufGot(r, to, n) =
           [i \in 1..c |-> IF i <= first THEN buf[from + i - 1] ELSE buf[i - first - 1]]
    BY <1>1, <1>2, <1>3 DEF rngBufGot
<1>23. SubSeq(Contents(r), 1, c) = [i \in 1..c |-> buf[at(from, i)]]
    BY <1>8, <1>16, <1>17
<1>24. \A i \in 1..c : at(from, i) = IF i <= first THEN from + i - 1 ELSE i - first - 1
    BY <1>4, <1>5, <1>7, <1>8, <1>9
<1>25. rngBufGot(r, to, n) = SubSeq(Contents(r), 1, c)
    BY <1>22, <1>23, <1>24
<1> HIDE DEF new, at
<1> QED BY <1>1, <1>2, <1>12, <1>14, <1>15, <1>21, <1>25 DEF q

(***************************************************************************)
(* One character put by rngElemPut is what rngBufPut would make of it, and *)
(* one taken by rngElemGet what rngBufGet takes.                           *)
(***************************************************************************)
THEOREM ElemIsBuf == ASSUME NEW Byte, NEW r, IsRing(r, Byte), NEW c \in Byte
    PROVE /\ rngElemPut(r, c) = rngBufPut(r, <<c>>)
          /\ ~rngIsEmpty(r) => rngElemGet(r) = rngBufGet(r, r.to, 1)
<1>1. PICK size \in Nat, to \in Nat, from \in Nat, buf \in {r.buf} :
          r.size = size /\ r.to = to /\ r.from = from /\ r.buf = buf
    BY DEF IsRing
<1>2. to < size /\ from < size
    BY <1>1 DEF IsRing
<1>3. /\ buf = [i \in 0..(size - 1) |-> buf[i]]
      /\ r = [size |-> size, buf |-> buf, to |-> to, from |-> from]
    BY <1>1 DEF IsRing
<1>4. ASSUME rngElemFull(r) PROVE rngElemPut(r, c) = rngBufPut(r, <<c>>)
  <2>1. to = from - 1 \/ (to = size - 1 /\ from = 0)
      BY <1>1, <1>4 DEF rngElemFull
  <2>2. PutFirst(r, 1) = 0 /\ PutSecond(r, 1) = 0
      BY <1>1, <1>2, <2>1 DEF PutFirst, PutSecond, PutChunk, Least
  <2>3. rngBufPut(r, <<c>>) = r
    <3>1. Wrapped(r, to + 0 + 0) = to
        BY <1>1, <1>2 DEF Wrapped
    <3>2. [i \in 0..(size - 1) |-> IF to <= i /\ i < to + 0 THEN <<c>>[i - to + 1]
                                   ELSE IF i < 0 THEN <<c>>[0 + i + 1] ELSE buf[i]] = buf
        BY <1>2, <1>3
    <3> QED BY <1>1, <1>3, <2>2, <3>1, <3>2 DEF rngBufPut, Changed
  <2> QED BY <1>4, <2>3 DEF rngElemPut
<1>5. ASSUME ~rngElemFull(r) PROVE rngElemPut(r, c) = rngBufPut(r, <<c>>)
  <2>1. to # from - 1 /\ ~(to = size - 1 /\ from = 0)
      BY <1>1, <1>5 DEF rngElemFull
  <2>2. PutFirst(r, 1) = 1 /\ PutSecond(r, 1) = 0
      BY <1>1, <1>2, <2>1 DEF PutFirst, PutSecond, PutChunk, Least
  <2>3. Wrapped(r, to + 1 + 0) = IF to = size - 1 THEN 0 ELSE to + 1
      BY <1>1, <1>2 DEF Wrapped
  <2>4. [i \in 0..(size - 1) |-> IF to <= i /\ i < to + 1 THEN <<c>>[i - to + 1]
                                 ELSE IF i < 0 THEN <<c>>[1 + i + 1] ELSE buf[i]]
        = [buf EXCEPT ![to] = c]
    <3>1. \A i \in 0..(size - 1) : to <= i /\ i < to + 1 <=> i = to
        BY <1>2
    <3>2. \A i \in 0..(size - 1) : ~(i < 0)
        OBVIOUS
    <3>3. <<c>>[to - to + 1] = c
        OBVIOUS
    <3>4. [buf EXCEPT ![to] = c] = [i \in 0..(size - 1) |-> IF i = to THEN c ELSE buf[i]]
        BY <1>3
    <3> QED BY <3>1, <3>2, <3>3, <3>4
  <2> QED BY <1>1, <1>5, <2>2, <2>3, <2>4 DEF rngElemPut, rngBufPut, Changed
<1>6. ASSUME ~rngIsEmpty(r) PROVE rngElemGet(r) = rngBufGet(r, r.to, 1)
  <2>1. to # from
      BY <1>1, <1>6 DEF rngIsEmpty
  <2>2. GetFirst(r, to, 1) = 1 /\ GetSecond(r, to, 1) = 0
      BY <1>1, <1>2, <2>1 DEF GetFirst, GetSecond, Least
  <2>3. Wrapped(r, from + 1) = IF from + 1 = size THEN 0 ELSE from + 1
      BY <1>1, <1>2 DEF Wrapped
  <2> QED BY <1>1, <2>2, <2>3 DEF rngElemGet, rngBufGet, GetCount
<1> QED BY <1>4, <1>5, <1>6

(***************************************************************************)
(* Characters put ahead are invisible to the reader until the writer moves *)
(* on, which shows all of them at once: a line of a terminal and the       *)
(* length in front of it (tyLib.c tyIntRd).                                *)
(***************************************************************************)
THEOREM AheadIsInvisible == ASSUME NEW Byte, NEW r, IsRing(r, Byte), NEW c \in Byte,
                                   NEW k \in Nat, k <= rngFreeBytes(r)
    PROVE LET q == rngPutAhead(r, c, k)
          IN  IsRing(q, Byte) /\ Contents(q) = Contents(r)
<1> DEFINE q == rngPutAhead(r, c, k)
<1>1. PICK size \in Nat, to \in Nat, from \in Nat, buf \in {r.buf} :
          r.size = size /\ r.to = to /\ r.from = from /\ r.buf = buf
    BY DEF IsRing
<1>2. PICK N \in Nat : N = rngNBytes(r)
    BY RingFacts
<1>3. to < size /\ from < size
    BY <1>1 DEF IsRing
<1>4. N < size /\ k <= size - 1 - N
    BY <1>1, <1>2, RingFacts
<1>5. /\ from + N < size => to = from + N
      /\ from + N >= size => to = from + N - size
  <2>1. N = IF to < from THEN to - from + size ELSE to - from
      BY <1>1, <1>2 DEF rngNBytes
  <2> QED BY <2>1, <1>3
<1> DEFINE at(i) == IF i >= size THEN i - size ELSE i
<1>6. at(to + k) \in 0..(size - 1)
    BY <1>3, <1>4
<1>7. /\ q.size = size /\ q.from = from /\ q.to = to
      /\ q.buf = [buf EXCEPT ![at(to + k)] = c]
      /\ q = [size |-> q.size, buf |-> q.buf, to |-> q.to, from |-> q.from]
    BY <1>1 DEF rngPutAhead, Changed, Wrapped
<1>8. buf \in [0..(size - 1) -> Byte]
    BY <1>1 DEF IsRing
<1> HIDE DEF q
<1>9. IsRing(q, Byte)
    BY <1>3, <1>6, <1>7, <1>8 DEF IsRing
<1>10. ASSUME NEW i \in 1..N PROVE q.buf[at(from + i - 1)] = buf[at(from + i - 1)]
  <2>1. at(from + i - 1) \in 0..(size - 1)
      BY <1>3, <1>4
  <2>2. at(from + i - 1) # at(to + k)
      BY <1>3, <1>4, <1>5
  <2> HIDE DEF at
  <2> QED BY <1>7, <1>8, <2>1, <2>2
<1>11. Contents(r) = [i \in 1..N |-> buf[at(from + i - 1)]]
    BY <1>1, <1>2 DEF Contents, Wrapped
<1>12. rngNBytes(q) = N
    BY <1>1, <1>2, <1>7 DEF rngNBytes
<1>13. Contents(q) = [i \in 1..N |-> q.buf[at(from + i - 1)]]
    BY <1>7, <1>12 DEF Contents, Wrapped
<1> HIDE DEF at
<1> QED BY <1>9, <1>10, <1>11, <1>13 DEF q

(***************************************************************************)
(* Moving ahead makes exactly the n bytes behind the writer's offset       *)
(* visible, after what was there (rngMoveAhead, as tyIntRd calls it at the *)
(* end of a line).                                                         *)
(***************************************************************************)
THEOREM MoveAheadShows == ASSUME NEW Byte, NEW r, IsRing(r, Byte),
                                 NEW n \in Nat, n <= rngFreeBytes(r)
    PROVE LET q == rngMoveAhead(r, n)
          IN  /\ IsRing(q, Byte)
              /\ Contents(q) = Contents(r) \o
                     [i \in 1..n |-> r.buf[Wrapped(r, r.to + i - 1)]]
<1> DEFINE q == rngMoveAhead(r, n)
<1>1. PICK size \in Nat, to \in Nat, from \in Nat, buf \in {r.buf} :
          r.size = size /\ r.to = to /\ r.from = from /\ r.buf = buf
    BY DEF IsRing
<1>2. PICK N \in Nat : N = rngNBytes(r)
    BY RingFacts
<1>3. to < size /\ from < size
    BY <1>1 DEF IsRing
<1>4. N < size /\ n <= size - 1 - N
    BY <1>1, <1>2, RingFacts
<1>5. /\ from + N < size => to = from + N
      /\ from + N >= size => to = from + N - size
  <2>1. N = IF to < from THEN to - from + size ELSE to - from
      BY <1>1, <1>2 DEF rngNBytes
  <2> QED BY <2>1, <1>3
<1> DEFINE at(i) == IF i >= size THEN i - size ELSE i
<1>6. at(to + n) \in 0..(size - 1)
    BY <1>3, <1>4
<1>7. N + n = IF at(to + n) < from THEN at(to + n) - from + size ELSE at(to + n) - from
    BY <1>3, <1>4, <1>5
<1>8. /\ q.size = size /\ q.from = from /\ q.to = at(to + n) /\ q.buf = buf
      /\ q = [size |-> q.size, buf |-> q.buf, to |-> q.to, from |-> q.from]
    BY <1>1 DEF rngMoveAhead, Changed, Wrapped
<1>9. buf \in [0..(size - 1) -> Byte]
    BY <1>1 DEF IsRing
<1> HIDE DEF q
<1>10. IsRing(q, Byte)
    BY <1>3, <1>6, <1>8, <1>9 DEF IsRing
<1>11. rngNBytes(q) = N + n
    BY <1>7, <1>8 DEF rngNBytes
<1>12. ASSUME NEW i \in 1..(N + n), ~(i <= N) PROVE at(from + i - 1) = at(to + (i - N) - 1)
    BY <1>3, <1>4, <1>5, <1>12
<1>13. Contents(r) = [i \in 1..N |-> buf[at(from + i - 1)]]
    BY <1>1, <1>2 DEF Contents, Wrapped
<1>14. Contents(q) = [i \in 1..(N + n) |-> buf[at(from + i - 1)]]
    BY <1>8, <1>11 DEF Contents, Wrapped
<1>15. [i \in 1..n |-> r.buf[Wrapped(r, r.to + i - 1)]] = [i \in 1..n |-> buf[at(to + i - 1)]]
    BY <1>1 DEF Wrapped
<1> HIDE DEF at
<1>16. Contents(r) \o [i \in 1..n |-> buf[at(to + i - 1)]] =
           [i \in 1..(N + n) |-> IF i <= N THEN buf[at(from + i - 1)]
                                           ELSE buf[at(to + (i - N) - 1)]]
    BY <1>13
<1>17. \A i \in 1..(N + n) : buf[at(from + i - 1)] =
           IF i <= N THEN buf[at(from + i - 1)] ELSE buf[at(to + (i - N) - 1)]
    BY <1>12
<1>18. Contents(q) = Contents(r) \o [i \in 1..n |-> buf[at(to + i - 1)]]
    BY <1>14, <1>16, <1>17
<1> QED BY <1>10, <1>15, <1>18 DEF q

-----------------------------------------------------------------------------
(***************************************************************************)
(* Whole jobs.                                                             *)
(***************************************************************************)
Multiple(n) == \E k \in Nat : n = k * NodeSize

LEMMA MultipleFacts ==
    /\ Multiple(0)
    /\ \A n \in Nat : Multiple(n) => Multiple(n + NodeSize)
    /\ \A n \in Nat : Multiple(n) /\ n > 0 => n >= NodeSize /\ Multiple(n - NodeSize)
    /\ \A n \in Nat : Multiple(n) /\ n < RingSize => RingSize - n >= NodeSize
<1>1. NodeSize \in Nat /\ NodeSize > 0 /\ Nodes \in Nat
    BY NetTaskAssumption DEF NetTaskAssumption
<1>2. Multiple(0)
  <2>1. 0 = 0 * NodeSize
      BY <1>1
  <2> QED BY <2>1 DEF Multiple
<1>3. ASSUME NEW n \in Nat, Multiple(n)
      PROVE  /\ Multiple(n + NodeSize)
             /\ n > 0 => n >= NodeSize /\ Multiple(n - NodeSize)
             /\ n < RingSize => RingSize - n >= NodeSize
  <2>1. PICK k \in Nat : n = k * NodeSize
      BY <1>3 DEF Multiple
  <2>2. (k + 1) * NodeSize = n + NodeSize
      BY <1>1, <2>1
  <2>3. ASSUME n > 0 PROVE n >= NodeSize /\ Multiple(n - NodeSize)
    <3>1. k - 1 \in Nat
        BY <1>1, <2>1, <2>3
    <3>2. n - NodeSize = (k - 1) * NodeSize
        BY <1>1, <2>1
    <3>3. (k - 1) * NodeSize >= 0
        BY <1>1, <3>1
    <3> QED BY <1>1, <3>1, <3>2, <3>3 DEF Multiple
  <2>4. ASSUME n < RingSize PROVE RingSize - n >= NodeSize
    <3>1. k < Nodes
        BY <1>1, <2>1, <2>4 DEF RingSize
    <3>2. PICK m \in Nat : Nodes = k + 1 + m
      <4>1. Nodes - k - 1 \in Nat /\ Nodes = k + 1 + (Nodes - k - 1)
          BY <1>1, <3>1
      <4> QED BY <4>1
    <3>3. (k + 1 + m) * NodeSize = n + NodeSize + m * NodeSize /\ m * NodeSize >= 0
        BY <1>1, <2>1
    <3> QED BY <1>1, <3>2, <3>3 DEF RingSize
  <2> QED BY <2>2, <2>3, <2>4 DEF Multiple
<1> QED BY <1>2, <1>3

\* The ring of jobs.
RingOK(r) ==
    /\ IsRing(r, Bytes) /\ r.size = RingSize + 1
    /\ Multiple(rngNBytes(r))

LEMMA NodeIsBytes == ASSUME NEW func \in Funcs
    PROVE Node(func) \in Seq(Bytes) /\ Len(Node(func)) = NodeSize
BY NetTaskAssumption DEF NetTaskAssumption, Node, Bytes

\* A put adds a whole job or nothing (netJobAdd).
LEMMA JobPut == ASSUME NEW r, RingOK(r), NEW func \in Funcs
    PROVE LET q == rngBufPut(r, Node(func))
              accepted == PutCount(r, NodeSize) = NodeSize
          IN  /\ RingOK(q) /\ q.from = r.from
              /\ rngNBytes(q) >= rngNBytes(r)
              /\ ~accepted => rngNBytes(q) = rngNBytes(r) /\ rngNBytes(r) > 0
<1> DEFINE q == rngBufPut(r, Node(func))
<1>1. NodeSize \in Nat /\ NodeSize > 0 /\ RingSize \in Nat /\ RingSize >= NodeSize
  <2>1. NodeSize \in Nat \ {0} /\ Nodes \in Nat \ {0}
      BY NetTaskAssumption DEF NetTaskAssumption
  <2>2. PICK m \in Nat : Nodes = 1 + m
    <3>1. Nodes - 1 \in Nat /\ Nodes = 1 + (Nodes - 1)
        BY <2>1
    <3> QED BY <3>1
  <2>3. (1 + m) * NodeSize = NodeSize + m * NodeSize /\ m * NodeSize \in Nat
      BY <2>1
  <2> QED BY <2>1, <2>2, <2>3 DEF RingSize
<1>2. IsRing(r, Bytes) /\ r.size = RingSize + 1 /\ Multiple(rngNBytes(r))
    BY DEF RingOK
<1>3. Node(func) \in Seq(Bytes) /\ Len(Node(func)) = NodeSize
    BY NodeIsBytes
<1>4. /\ IsRing(q, Bytes) /\ q.size = r.size /\ q.from = r.from
      /\ PutCount(r, NodeSize) = Least(NodeSize, rngFreeBytes(r))
      /\ rngNBytes(q) = rngNBytes(r) + PutCount(r, NodeSize)
  <2>1. \A i \in 1..NodeSize : Node(func)[i] \in Bytes
      BY <1>3
  <2>2. PutCount(r, NodeSize) = Least(NodeSize, rngFreeBytes(r))
      BY <1>1, <1>2, PutCountIs
  <2>3. /\ IsRing(q, Bytes) /\ q.size = r.size /\ q.from = r.from
        /\ rngNBytes(q) = rngNBytes(r) + PutCount(r, NodeSize)
    <3>1. /\ IsRing(r, Bytes) /\ NodeSize \in Nat /\ NodeSize = Len(Node(func))
          /\ \A i \in 1..NodeSize : Node(func)[i] \in Bytes
        BY <1>1, <1>2, <1>3, <2>1
    <3> HIDE DEF q
    <3> QED BY <3>1, PutBytes DEF q
  <2> QED BY <2>2, <2>3
<1>5. PICK n \in Nat : n = rngNBytes(r) /\ n <= RingSize /\ rngFreeBytes(r) = RingSize - n
    BY <1>1, <1>2, RingFacts
<1>6. Multiple(n) /\ (n < RingSize => RingSize - n >= NodeSize) /\ Multiple(n + NodeSize)
    BY <1>2, <1>5, MultipleFacts
<1>7. PICK c \in Nat : c = PutCount(r, NodeSize)
    BY <1>1, <1>4, <1>5 DEF Least
<1>8. c = IF n < RingSize THEN NodeSize ELSE 0
  <2>1. c = Least(NodeSize, RingSize - n)
      BY <1>4, <1>5, <1>7
  <2> QED BY <2>1, <1>1, <1>5, <1>6 DEF Least
<1> HIDE DEF q
<1>9. rngNBytes(q) = n + c
    BY <1>4, <1>5, <1>7
<1>10. Multiple(n + c)
    BY <1>6, <1>8
<1>11. n + c >= n /\ (c # NodeSize => n + c = n /\ n > 0)
    BY <1>1, <1>5, <1>8
<1> QED BY <1>2, <1>4, <1>5, <1>7, <1>9, <1>10, <1>11 DEF RingOK, q

\* A get takes one whole job (netTask), whatever was added meanwhile.
LEMMA JobGet == ASSUME NEW r, RingOK(r), NEW to \in 0..RingSize,
                       NodeSize <= Seen(r, to), Seen(r, to) <= rngNBytes(r)
    PROVE LET q == rngBufGet(r, to, NodeSize)
          IN  RingOK(q) /\ Len(rngBufGot(r, to, NodeSize)) = NodeSize
<1> DEFINE q == rngBufGet(r, to, NodeSize)
<1>1. /\ NodeSize \in Nat /\ NodeSize > 0 /\ IsRing(r, Bytes) /\ r.size = RingSize + 1
      /\ Multiple(rngNBytes(r)) /\ to \in 0..(r.size - 1)
    BY NetTaskAssumption DEF NetTaskAssumption, RingOK, RingSize
<1>2. PICK n \in Nat, seen \in Int : n = rngNBytes(r) /\ seen = Seen(r, to)
  <2>1. rngNBytes(r) \in Nat
      BY <1>1, RingFacts
  <2>2. Seen(r, to) \in Int
      BY <1>1 DEF Seen, IsRing
  <2> QED BY <2>1, <2>2
<1>3. NodeSize <= seen /\ seen <= n
    BY <1>2
<1>4. Least(NodeSize, Seen(r, to)) = NodeSize
    BY <1>1, <1>2, <1>3 DEF Least
<1>5. /\ IsRing(q, Bytes) /\ q.size = r.size
      /\ rngBufGot(r, to, NodeSize) = SubSeq(Contents(r), 1, NodeSize)
      /\ rngNBytes(q) = rngNBytes(r) - NodeSize
    BY <1>1, <1>4, GetTakes
<1>6. Multiple(n - NodeSize)
    BY <1>1, <1>2, <1>3, MultipleFacts
<1>7. Contents(r) \in Seq(Bytes) /\ Len(Contents(r)) = n
    BY <1>1, <1>2, ContentsType
<1>8. Len(SubSeq(Contents(r), 1, NodeSize)) = NodeSize
    BY <1>1, <1>3, <1>7
<1> HIDE DEF q
<1> QED BY <1>1, <1>2, <1>5, <1>6, <1>8 DEF RingOK, q

-----------------------------------------------------------------------------
(***************************************************************************)
(* Where the tasks are.                                                    *)
(***************************************************************************)
Starts == {"output", "lodequeue", "timeout", "soreceive"}
Ends   == {"idle", "more", "wdStart", "ksleep"}
Inside == Level \cup {"splnet", "splGive", "ksleep"}

\* A task on its way into or out of the level knows where it goes.
Place(c) ==
    /\ "at" \in DOMAIN c
    /\ c.at \in Inside =>
          {"in", "then"} \subseteq DOMAIN c /\ c.in \in Starts /\ c.then \in Ends

CodeOK ==
    /\ code = [t \in Tasks |-> code[t]]
    /\ \A t \in Tasks : Place(code[t])

LEMMA Goes == ASSUME CodeOK, NEW t \in Tasks, NEW c, Goto(t, c)
    PROVE /\ code' = [u \in Tasks |-> code'[u]]
          /\ code'[t] = c
          /\ \A u \in Tasks : u # t => code'[u] = code[u]
BY DEF CodeOK, Goto

LEMMA Steps == ASSUME CodeOK, NEW t \in Tasks, NEW s, Step(t, s)
    PROVE /\ code' = [u \in Tasks |-> code'[u]]
          /\ \A u \in Tasks : u # t => code'[u] = code[u]
          /\ DOMAIN code'[t] = DOMAIN code[t] /\ "at" \in DOMAIN code'[t]
          /\ code'[t].at = s
          /\ code[t].at \in Inside => code'[t].in = code[t].in /\ code'[t].then = code[t].then
<1> DEFINE c == [code[t] EXCEPT !.at = s]
<1>1. Goto(t, c) /\ Place(code[t])
    BY DEF Step, CodeOK
<1>2. /\ code' = [u \in Tasks |-> code'[u]] /\ code'[t] = c
      /\ \A u \in Tasks : u # t => code'[u] = code[u]
    BY <1>1, Goes
<1>3. DOMAIN c = DOMAIN code[t]
    BY Zenon
<1>4. \A f \in DOMAIN code[t] : c[f] = IF f = "at" THEN s ELSE code[t][f]
    BY Zenon
<1>5. c.at = s /\ "at" \in DOMAIN code[t]
    BY <1>1, <1>4, Zenon DEF Place
<1>6. ASSUME code[t].at \in Inside PROVE c.in = code[t].in /\ c.then = code[t].then
  <2>1. "in" \in DOMAIN code[t] /\ "then" \in DOMAIN code[t]
      BY <1>1, <1>6 DEF Place
  <2> QED BY <1>4, <2>1, Zenon
<1> HIDE DEF c
<1> QED BY <1>2, <1>3, <1>5, <1>6

\* Records that are changed in two places.
LEMMA Excepts == ASSUME NEW c, Place(c), NEW s, NEW x
    PROVE /\ LET d == [c EXCEPT !.left = @ - 1, !.at = s] IN
               /\ DOMAIN d = DOMAIN c /\ d.at = s
               /\ c.at \in Inside => d.in = c.in /\ d.then = c.then
          /\ LET d == [c EXCEPT !.at = s, !.left = x] IN
               /\ DOMAIN d = DOMAIN c /\ d.at = s
               /\ c.at \in Inside => d.in = c.in /\ d.then = c.then
          /\ LET d == [c EXCEPT !.at = s, !.then = x] IN
               /\ DOMAIN d = DOMAIN c /\ d.at = s
               /\ c.at \in Inside => d.in = c.in /\ d.then = x
<1>1. "at" \in DOMAIN c /\ (c.at \in Inside => "in" \in DOMAIN c /\ "then" \in DOMAIN c)
    BY DEF Place
<1>2. LET d == [c EXCEPT !.left = @ - 1, !.at = s] IN
         /\ DOMAIN d = DOMAIN c /\ d.at = s
         /\ c.at \in Inside => d.in = c.in /\ d.then = c.then
    BY <1>1, Zenon
<1>3. LET d == [c EXCEPT !.at = s, !.left = x] IN
         /\ DOMAIN d = DOMAIN c /\ d.at = s
         /\ c.at \in Inside => d.in = c.in /\ d.then = c.then
    BY <1>1, Zenon
<1>4. LET d == [c EXCEPT !.at = s, !.then = x] IN
         /\ DOMAIN d = DOMAIN c /\ d.at = s
         /\ c.at \in Inside => d.in = c.in /\ d.then = x
    BY <1>1, Zenon
<1> QED BY <1>2, <1>3, <1>4

LEMMA StepKeepsCode ==
    ASSUME CodeOK, NEW t \in Tasks, NEW s, Step(t, s),
           s \in Inside => code[t].at \in Inside
    PROVE  CodeOK'
<1>1. Place(code[t])
    BY DEF CodeOK
<1>2. Place(code'[t])
    BY <1>1, Steps DEF Place
<1> QED BY <1>2, Steps DEF CodeOK

LEMMA GotoKeepsCode ==
    ASSUME CodeOK, NEW t \in Tasks, NEW c, Goto(t, c), Place(c)
    PROVE  CodeOK'
BY Goes DEF CodeOK

LEMMA JobPlace == ASSUME NEW func PROVE Place(Job(func))
BY DEF Place, Job, Inside, Level, Starts, Ends

LEMMA NetTaskIsTask == netTask \in Tasks /\ netTask \notin Senders \cup Readers
BY NetTaskAssumption DEF NetTaskAssumption, Tasks

\* Who is at a place knows where it goes: the records of send, receive and
\* Job, and what splnet and splx make of them.
LEMMA CodeInductive == CodeOK /\ [Next]_vars => CodeOK'
<1> SUFFICES ASSUME CodeOK, [Next]_vars PROVE CodeOK'
    OBVIOUS
<1> USE NetTaskIsTask DEF At
<1>1. \A t \in Tasks : Place(code[t])
    BY DEF CodeOK
<1>2. ASSUME NEW t \in Tasks, InLevel(t) PROVE CodeOK'
  <2>1. CASE splTake(t)
      BY <2>1 DEF splTake, CodeOK
  <2>2. CASE splnet(t)
    <3>1. Step(t, code[t].in) /\ code[t].at \in Inside
        BY <2>2 DEF splnet, Inside
    <3> QED BY <3>1, StepKeepsCode
  <2>3. CASE splx(t)
    <3>1. code[t].at \in Inside /\ \E s : Step(t, s)
        BY <2>3 DEF splx, Inside, Level
    <3> QED BY <3>1, StepKeepsCode
  <2> QED BY <1>2, <2>1, <2>2, <2>3 DEF InLevel
<1>3. ASSUME NEW t \in Tasks, Output(t) PROVE CodeOK'
  <2>1. CASE looutput(t)
    <3>1. PICK s : /\ Goto(t, [code[t] EXCEPT !.left = @ - 1, !.at = s])
                   /\ code[t].at \in Inside
        BY <2>1 DEF looutput, Inside, Level
    <3>2. Place([code[t] EXCEPT !.left = @ - 1, !.at = s])
      <4> DEFINE d == [code[t] EXCEPT !.left = @ - 1, !.at = s]
      <4>1. DOMAIN d = DOMAIN code[t] /\ d.at = s /\ d.in = code[t].in /\ d.then = code[t].then
          BY <1>1, <3>1, Excepts
      <4> HIDE DEF d
      <4>2. Place(d)
          BY <1>1, <3>1, <4>1 DEF Place
      <4> QED BY <4>2 DEF d
    <3> QED BY <3>1, <3>2, GotoKeepsCode
  <2>2. CASE netJobAdd(t)
    <3>1. code[t].at \in Inside /\ \E s : Step(t, s)
        BY <2>2 DEF netJobAdd, Inside, Level
    <3> QED BY <3>1, StepKeepsCode
  <2>3. CASE semGive(t)
    <3>1. code[t].at \in Inside /\ \E s : Step(t, s)
        BY <2>3 DEF semGive, Inside, Level
    <3> QED BY <3>1, StepKeepsCode
  <2>4. CASE Sent(t)
    <3>1. code[t].at \in Inside /\ \E s : Step(t, s)
        BY <2>4 DEF Sent, Inside, Level
    <3> QED BY <3>1, StepKeepsCode
  <2> QED BY <1>3, <2>1, <2>2, <2>3, <2>4 DEF Output
<1>4. ASSUME NEW t \in Senders, send(t) PROVE CodeOK'
  <2>1. PICK n : Goto(t, [at |-> "splnet", in |-> "output", then |-> "idle", left |-> n])
      BY <1>4 DEF send
  <2>2. Place([at |-> "splnet", in |-> "output", then |-> "idle", left |-> n])
      BY DEF Place, Starts, Ends
  <2>3. t \in Tasks
      BY DEF Tasks
  <2> QED BY <2>1, <2>2, <2>3, GotoKeepsCode
<1>5. ASSUME NEW t \in Readers, receive(t) \/ soreceive(t) \/ sbwait(t) \/ ksleep(t)
      PROVE  CodeOK'
  <2>1. t \in Tasks
      BY DEF Tasks
  <2>2. CASE receive(t)
    <3>1. Place([at |-> "splnet", in |-> "soreceive", then |-> "idle"])
        BY DEF Place, Starts, Ends
    <3> QED BY <2>1, <2>2, <3>1, GotoKeepsCode DEF receive
  <2>3. ASSUME NEW e \in Ends, code[t].at = "soreceive",
               Goto(t, [code[t] EXCEPT !.at = "splx", !.then = e])
        PROVE  CodeOK'
    <3> DEFINE d == [code[t] EXCEPT !.at = "splx", !.then = e]
    <3>1. code[t].at \in Inside
        BY <2>3 DEF Inside, Level
    <3>2. DOMAIN d = DOMAIN code[t] /\ d.at = "splx" /\ d.in = code[t].in /\ d.then = e
        BY <1>1, <2>1, <3>1, Excepts
    <3> HIDE DEF d
    <3>3. Place(d)
        BY <1>1, <2>1, <3>1, <3>2 DEF Place
    <3> QED BY <2>1, <2>3, <3>3, GotoKeepsCode DEF d
  <2>4. CASE soreceive(t)
      BY <2>3, <2>4 DEF soreceive, Ends
  <2>5. CASE sbwait(t)
      BY <2>3, <2>5 DEF sbwait, Ends
  <2>6. CASE ksleep(t)
    <3>1. code[t].at \in Inside /\ Step(t, "splnet")
        BY <2>6 DEF ksleep, Inside
    <3> QED BY <2>1, <3>1, StepKeepsCode
  <2> QED BY <1>5, <2>2, <2>4, <2>5, <2>6
<1>6. CASE NetTask
  <2>1. CASE Take
    <3>1. Step(netTask, "more") /\ "more" \notin Inside
        BY <2>1 DEF Take, Inside, Level
    <3> QED BY <3>1, StepKeepsCode
  <2>2. CASE More
    <3>1. Place([at |-> "take"]) /\ Place([at |-> "get", to |-> netWorkRing.to])
        BY DEF Place, Inside, Level
    <3>2. \E c : Goto(netTask, c) /\ Place(c)
        BY <2>2, <3>1 DEF More
    <3> QED BY <3>2, GotoKeepsCode
  <2>3. CASE Get
    <3>1. Place([at |-> "exited"])
        BY DEF Place, Inside, Level
    <3>2. \E c : Goto(netTask, c) /\ Place(c)
        BY <2>3, <3>1, JobPlace DEF Get
    <3> QED BY <3>2, GotoKeepsCode
  <2>4. CASE Protocols
    <3>1. Step(netTask, "splx") /\ code[netTask].at \in Inside
        BY <2>4 DEF Protocols, Inside, Level
    <3> QED BY <3>1, StepKeepsCode
  <2>5. CASE wdStart
    <3>1. Place([at |-> "more"])
        BY DEF Place, Inside, Level
    <3> QED BY <2>5, <3>1, GotoKeepsCode DEF wdStart
  <2>6. CASE lodequeue
    <3>1. code[netTask].at \in Inside
        BY <2>6 DEF lodequeue, Inside, Level
    <3>2. CASE Step(netTask, "splx")
        BY <3>1, <3>2, StepKeepsCode
    <3>3. ASSUME NEW n, Goto(netTask, [code[netTask] EXCEPT !.at = "output", !.left = n])
          PROVE  CodeOK'
      <4> DEFINE d == [code[netTask] EXCEPT !.at = "output", !.left = n]
      <4>1. /\ DOMAIN d = DOMAIN code[netTask] /\ d.at = "output"
            /\ d.in = code[netTask].in /\ d.then = code[netTask].then
          BY <1>1, <3>1, Excepts
      <4> HIDE DEF d
      <4>2. Place(d)
          BY <1>1, <3>1, <4>1 DEF Place
      <4> QED BY <3>3, <4>2, GotoKeepsCode DEF d
    <3> QED BY <2>6, <3>2, <3>3 DEF lodequeue
  <2> QED BY <1>6, <2>1, <2>2, <2>3, <2>4, <2>5, <2>6 DEF NetTask
<1>7. CASE \/ \E k \in Timers : Timeout(k)
           \/ DriverAdds
           \/ UNCHANGED vars
    BY <1>7 DEF Timeout, DriverAdds, HandlerAdds, vars, CodeOK
<1> QED BY <1>2, <1>3, <1>4, <1>5, <1>6, <1>7 DEF Next, Tasks

-----------------------------------------------------------------------------
(***************************************************************************)
(* The network level.  A task that waits for the mutex is at splnet and    *)
(* not the owner, and one that leaves has cleared splTaskId before it      *)
(* gives the mutex.                                                        *)
(***************************************************************************)
LockOK ==
    /\ \A t \in splWaits : t \in Tasks /\ code[t].at = "splnet"
    /\ splSem \notin splWaits
    /\ LevelIsExclusive
    /\ \A t \in Tasks : code[t].at = "splGive" => splSem = t

\* A task that moves inside of the level, or outside of it.
LEMMA MoveKeepsLock ==
    ASSUME LockOK, NEW t \in Tasks, UNCHANGED splVars,
           \A u \in Tasks : u # t => code'[u] = code[u],
           code[t].at # "splnet",
           code'[t].at # "splGive",
           code'[t].at \in Level => code[t].at \in Level
    PROVE  LockOK'
BY DEF LockOK, LevelIsExclusive, splVars

LEMMA LockInductive == CodeOK /\ LockOK /\ [Next]_vars => LockOK'
<1> SUFFICES ASSUME CodeOK, LockOK, [Next]_vars PROVE LockOK'
    OBVIOUS
<1> USE NetTaskIsTask DEF At
<1>1. \A t \in Tasks : Place(code[t])
    BY DEF CodeOK
<1>2. ASSUME NEW t \in Tasks, splTake(t) PROVE LockOK'
    BY <1>2, NetTaskAssumption
    DEF splTake, LockOK, LevelIsExclusive, Level, NetTaskAssumption
<1>3. ASSUME NEW t \in Tasks, splnet(t) PROVE LockOK'
  <2>1. /\ code[t].at = "splnet" /\ splSem = t /\ splTaskId' = t
        /\ splSem' = splSem /\ splWaits' = splWaits /\ Step(t, code[t].in)
      BY <1>3 DEF splnet
  <2>2. code[t].in \in Starts
      BY <1>1, <2>1 DEF Place, Inside
  <2>3. code'[t].at \in Starts /\ \A u \in Tasks : u # t => code'[u] = code[u]
      BY <2>1, <2>2, Steps
  <2> QED BY <2>1, <2>3 DEF LockOK, LevelIsExclusive, Starts
<1>4. ASSUME NEW t \in Tasks, splx(t) PROVE LockOK'
  <2>1. CASE code[t].at = "splx"
    <3>1. /\ splSem = t /\ splTaskId' = NULL /\ UNCHANGED <<splSem, splWaits>>
          /\ Step(t, "splGive")
        BY <1>4, <2>1 DEF splx, LockOK, LevelIsExclusive, Level
    <3>2. code'[t].at = "splGive" /\ \A u \in Tasks : u # t => code'[u] = code[u]
        BY <3>1, Steps
    <3> QED BY <2>1, <3>1, <3>2 DEF LockOK, LevelIsExclusive, Level
  <2>2. CASE code[t].at = "splGive"
    <3>1. splSem = t /\ Give(t) /\ UNCHANGED splTaskId /\ Step(t, code[t].then)
        BY <1>4, <2>2 DEF splx, LockOK
    <3>2. code[t].then \in Ends
        BY <1>1, <2>2 DEF Place, Inside
    <3>3. code'[t].at \in Ends /\ \A u \in Tasks : u # t => code'[u] = code[u]
        BY <3>1, <3>2, Steps
    <3>4. \A u \in Tasks : code'[u].at \notin Level \cup {"splGive"}
        BY <3>1, <3>3 DEF LockOK, LevelIsExclusive, Level, Ends
    <3>5. splWaits' \subseteq splWaits /\ splSem' \notin splWaits' /\ t \notin splWaits
        BY <3>1 DEF Give, LockOK
    <3>6. \A u \in splWaits' : u \in Tasks /\ code'[u].at = "splnet"
        BY <3>3, <3>5 DEF LockOK
    <3> QED BY <3>4, <3>5, <3>6 DEF LockOK, LevelIsExclusive
  <2> QED BY <1>4, <2>1, <2>2 DEF splx
<1>5. ASSUME NEW t \in Tasks, Output(t) PROVE LockOK'
  <2>1. CASE looutput(t)
    <3>1. PICK s \in {"netJobAdd", "output"} :
             /\ Goto(t, [code[t] EXCEPT !.left = @ - 1, !.at = s])
             /\ code[t].at = "output" /\ UNCHANGED splVars
        BY <2>1 DEF looutput
    <3> DEFINE d == [code[t] EXCEPT !.left = @ - 1, !.at = s]
    <3>2. d.at = s
        BY <1>1, Excepts
    <3> HIDE DEF d
    <3>3. code'[t].at = s /\ \A u \in Tasks : u # t => code'[u] = code[u]
        BY <3>1, <3>2, Goes DEF d
    <3> QED BY <3>1, <3>3, MoveKeepsLock DEF Level
  <2>2. CASE netJobAdd(t)
    <3>1. code[t].at = "netJobAdd" /\ UNCHANGED splVars
          /\ \E s \in {"semGive", "output"} : Step(t, s)
        BY <2>2 DEF netJobAdd
    <3> QED BY <3>1, Steps, MoveKeepsLock DEF Level
  <2>3. CASE semGive(t)
    <3>1. code[t].at = "semGive" /\ UNCHANGED splVars /\ Step(t, "output")
        BY <2>3 DEF semGive
    <3> QED BY <3>1, Steps, MoveKeepsLock DEF Level
  <2>4. CASE Sent(t)
    <3>1. code[t].at = "output" /\ UNCHANGED splVars /\ Step(t, "splx")
        BY <2>4 DEF Sent
    <3> QED BY <3>1, Steps, MoveKeepsLock DEF Level
  <2> QED BY <1>5, <2>1, <2>2, <2>3, <2>4 DEF Output
<1>6. ASSUME NEW t \in Senders, send(t) PROVE LockOK'
  <2>1. /\ code[t].at = "idle" /\ UNCHANGED splVars /\ t \in Tasks
        /\ \E n : Goto(t, [at |-> "splnet", in |-> "output", then |-> "idle", left |-> n])
      BY <1>6 DEF send, Tasks
  <2>2. code'[t].at = "splnet" /\ \A u \in Tasks : u # t => code'[u] = code[u]
      BY <2>1, Goes
  <2> QED BY <2>1, <2>2, MoveKeepsLock DEF Level
<1>7. ASSUME NEW t \in Readers, receive(t) \/ soreceive(t) \/ sbwait(t) \/ ksleep(t)
      PROVE  LockOK'
  <2>1. t \in Tasks
      BY DEF Tasks
  <2>2. CASE receive(t)
    <3>1. /\ code[t].at = "idle" /\ UNCHANGED splVars
          /\ Goto(t, [at |-> "splnet", in |-> "soreceive", then |-> "idle"])
        BY <2>2 DEF receive
    <3>2. code'[t].at = "splnet" /\ \A u \in Tasks : u # t => code'[u] = code[u]
        BY <2>1, <3>1, Goes
    <3> QED BY <2>1, <3>1, <3>2, MoveKeepsLock DEF Level
  <2>3. CASE soreceive(t) \/ sbwait(t)
    <3>1. /\ code[t].at = "soreceive" /\ UNCHANGED splVars
          /\ \E e : Goto(t, [code[t] EXCEPT !.at = "splx", !.then = e])
        BY <2>3 DEF soreceive, sbwait
    <3>2. PICK e : Goto(t, [code[t] EXCEPT !.at = "splx", !.then = e])
        BY <3>1
    <3> DEFINE d == [code[t] EXCEPT !.at = "splx", !.then = e]
    <3>3. d.at = "splx"
        BY <1>1, <2>1, Excepts
    <3> HIDE DEF d
    <3>4. code'[t].at = "splx" /\ \A u \in Tasks : u # t => code'[u] = code[u]
        BY <2>1, <3>2, <3>3, Goes DEF d
    <3> QED BY <2>1, <3>1, <3>4, MoveKeepsLock DEF Level
  <2>4. CASE ksleep(t)
    <3>1. code[t].at = "ksleep" /\ UNCHANGED splVars /\ Step(t, "splnet")
        BY <2>4 DEF ksleep
    <3> QED BY <2>1, <3>1, Steps, MoveKeepsLock DEF Level
  <2> QED BY <1>7, <2>2, <2>3, <2>4
<1>8. CASE NetTask
  <2>1. CASE Take
    <3>1. code[netTask].at = "take" /\ UNCHANGED splVars /\ Step(netTask, "more")
        BY <2>1 DEF Take
    <3> QED BY <3>1, Steps, MoveKeepsLock DEF Level
  <2>2. CASE More
    <3>1. /\ code[netTask].at = "more" /\ UNCHANGED splVars
          /\ \E c : Goto(netTask, c) /\ c.at \in {"take", "get"}
        BY <2>2 DEF More
    <3> QED BY <3>1, Goes, MoveKeepsLock DEF Level
  <2>3. CASE Get
    <3>1. /\ code[netTask].at = "get" /\ UNCHANGED splVars
          /\ \E c : Goto(netTask, c) /\ c.at \in {"exited", "more", "splnet"}
        BY <2>3 DEF Get, Job
    <3> QED BY <3>1, Goes, MoveKeepsLock DEF Level
  <2>4. CASE Protocols
    <3>1. code[netTask].at = "timeout" /\ UNCHANGED splVars /\ Step(netTask, "splx")
        BY <2>4 DEF Protocols
    <3> QED BY <3>1, Steps, MoveKeepsLock DEF Level
  <2>5. CASE wdStart
    <3>1. /\ code[netTask].at = "wdStart" /\ UNCHANGED splVars
          /\ Goto(netTask, [at |-> "more"])
        BY <2>5 DEF wdStart
    <3>2. code'[netTask].at = "more" /\ \A u \in Tasks : u # netTask => code'[u] = code[u]
        BY <3>1, Goes
    <3> QED BY <3>1, <3>2, MoveKeepsLock DEF Level
  <2>6. CASE lodequeue
    <3>1. code[netTask].at = "lodequeue" /\ UNCHANGED splVars
        BY <2>6 DEF lodequeue
    <3>2. CASE Step(netTask, "splx")
        BY <3>1, <3>2, Steps, MoveKeepsLock DEF Level
    <3>3. ASSUME NEW n, Goto(netTask, [code[netTask] EXCEPT !.at = "output", !.left = n])
          PROVE  LockOK'
      <4>1. code'[netTask].at = "output" /\ \A u \in Tasks : u # netTask => code'[u] = code[u]
        <5> DEFINE d == [code[netTask] EXCEPT !.at = "output", !.left = n]
        <5>1. d.at = "output"
            BY <1>1, Excepts
        <5> HIDE DEF d
        <5> QED BY <3>3, <5>1, Goes DEF d
      <4> QED BY <3>1, <4>1, MoveKeepsLock DEF Level
    <3> QED BY <2>6, <3>2, <3>3 DEF lodequeue
  <2> QED BY <1>8, <2>1, <2>2, <2>3, <2>4, <2>5, <2>6 DEF NetTask
<1>9. CASE \/ \E k \in Timers : Timeout(k)
           \/ DriverAdds
           \/ UNCHANGED vars
    BY <1>9 DEF Timeout, DriverAdds, HandlerAdds, vars, splVars, LockOK, LevelIsExclusive
<1> QED BY <1>2, <1>3, <1>4, <1>5, <1>6, <1>7, <1>8, <1>9 DEF Next, Tasks, InLevel

-----------------------------------------------------------------------------
(***************************************************************************)
(* The jobs.  While netTask is in rngBufGet, at least one whole job is     *)
(* between its offset and the one it has loaded.                           *)
(***************************************************************************)
GetOK ==
    At(netTask, "get") =>
        /\ code[netTask].to \in 0..RingSize
        /\ NodeSize <= Seen(netWorkRing, code[netTask].to)
        /\ Seen(netWorkRing, code[netTask].to) <= rngNBytes(netWorkRing)

JobsOK == RingOK(netWorkRing) /\ GetOK /\ NoPartialJob /\ NoStrandedJob

\* A step that leaves the ring and the semaphore alone.
LEMMA MoveKeepsJobs ==
    ASSUME JobsOK, NEW t \in Tasks, UNCHANGED jobVars,
           \A u \in Tasks : u # t => code'[u] = code[u],
           code[t].at # "semGive",
           t = netTask => code'[t].at \notin {"get", "exited", "take"}
    PROVE  JobsOK'
<1>1. netTask \in Tasks /\ netWorkRing' = netWorkRing /\ netTaskSem' = netTaskSem
    BY NetTaskIsTask DEF jobVars
<1>2. code'[netTask] = code[netTask] \/ code'[netTask].at \notin {"get", "exited", "take"}
    BY <1>1
<1>3. RingOK(netWorkRing')
    BY <1>1 DEF JobsOK
<1>4. GetOK'
    BY <1>1, <1>2 DEF JobsOK, GetOK, At
<1>5. NoPartialJob'
    BY <1>1, <1>2 DEF JobsOK, NoPartialJob, At
<1>6. NoStrandedJob'
  <2>1. SUFFICES ASSUME At(netTask, "take")', ~rngIsEmpty(netWorkRing)', ~netTaskSem'
                 PROVE  \E u \in Tasks : At(u, "semGive")'
      BY DEF NoStrandedJob
  <2>2. At(netTask, "take") /\ ~rngIsEmpty(netWorkRing) /\ ~netTaskSem
      BY <1>1, <1>2, <2>1 DEF At
  <2>3. PICK u \in Tasks : code[u].at = "semGive"
      BY <2>2 DEF JobsOK, NoStrandedJob, At
  <2> QED BY <2>3 DEF At
<1> QED BY <1>3, <1>4, <1>5, <1>6 DEF JobsOK

\* A put by netJobAdd: the semaphore is given, or t will give it.
LEMMA PutKeepsJobs ==
    ASSUME JobsOK, NEW func \in Funcs, PutJob(func), NEW t \in Tasks,
           \A u \in Tasks : u # t => code'[u] = code[u],
           code'[t] = code[t] \/ code[t].at # "semGive",
           t = netTask => code'[t] = code[t] \/ code'[t].at \notin {"get", "exited", "take"},
           netTaskSem => netTaskSem',
           Accepted => netTaskSem' \/ code'[t].at = "semGive"
    PROVE  JobsOK'
<1> DEFINE r == netWorkRing
           q == rngBufPut(r, Node(func))
<1>1. netTask \in Tasks /\ netWorkRing' = q
    BY NetTaskIsTask DEF PutJob
<1>2. /\ RingOK(q) /\ q.from = r.from
      /\ rngNBytes(q) >= rngNBytes(r)
      /\ ~Accepted => rngNBytes(q) = rngNBytes(r) /\ rngNBytes(r) > 0
    BY JobPut DEF JobsOK, Accepted
<1>3. RingOK(r) /\ r.size = RingSize + 1 /\ q.size = r.size
    BY <1>2 DEF JobsOK, RingOK
<1> HIDE DEF q
<1>4. code'[netTask] = code[netTask] \/ code'[netTask].at \notin {"get", "exited", "take"}
    BY <1>1
<1>5. GetOK'
  <2>1. SUFFICES ASSUME At(netTask, "get")'
                 PROVE  /\ code[netTask].to \in 0..RingSize
                        /\ NodeSize <= Seen(q, code[netTask].to)
                        /\ Seen(q, code[netTask].to) <= rngNBytes(q)
      BY <1>1, <1>4 DEF GetOK, At
  <2>2. /\ code[netTask].to \in 0..RingSize
        /\ NodeSize <= Seen(r, code[netTask].to)
        /\ Seen(r, code[netTask].to) <= rngNBytes(r)
      BY <1>4, <2>1 DEF JobsOK, GetOK, At
  <2>3. Seen(q, code[netTask].to) = Seen(r, code[netTask].to)
      BY <1>2, <1>3 DEF Seen
  <2>4. PICK seen \in Int, n \in Int, m \in Int :
           seen = Seen(r, code[netTask].to) /\ n = rngNBytes(r) /\ m = rngNBytes(q)
    <3>1. rngNBytes(r) \in Int /\ rngNBytes(q) \in Int
        BY <1>2, <1>3, RingFacts DEF RingOK
    <3>2. PICK to \in Nat, from \in Nat, size \in Nat :
             code[netTask].to = to /\ r.from = from /\ r.size = size
        BY <1>3, <2>2 DEF RingOK, IsRing
    <3>3. Seen(r, code[netTask].to) = IF to < from THEN to - from + size ELSE to - from
        BY <3>2 DEF Seen
    <3>4. Seen(r, code[netTask].to) \in Int
        BY <3>3
    <3> QED BY <3>1, <3>4
  <2>5. seen <= n /\ n <= m
      BY <1>2, <2>2, <2>4
  <2>6. seen <= m
      BY <2>5
  <2> QED BY <2>2, <2>3, <2>4, <2>6
<1>6. NoPartialJob'
    BY <1>4 DEF JobsOK, NoPartialJob, At
<1>7. NoStrandedJob'
  <2>1. SUFFICES ASSUME At(netTask, "take")', ~rngIsEmpty(netWorkRing)', ~netTaskSem'
                 PROVE  \E u \in Tasks : At(u, "semGive")'
      BY DEF NoStrandedJob
  <2>2. CASE Accepted
      BY <2>1, <2>2 DEF At
  <2>3. CASE ~Accepted
    <3>1. ~rngIsEmpty(r)
        BY <1>2, <1>3, <2>3, RingFacts DEF RingOK
    <3>2. At(netTask, "take") /\ ~netTaskSem
        BY <1>4, <2>1 DEF At
    <3>3. PICK u \in Tasks : code[u].at = "semGive"
        BY <3>1, <3>2 DEF JobsOK, NoStrandedJob, At
    <3> QED BY <3>3 DEF At
  <2> QED BY <2>2, <2>3
<1> QED BY <1>1, <1>2, <1>5, <1>6, <1>7 DEF JobsOK

LEMMA JobsInductive == CodeOK /\ JobsOK /\ [Next]_vars => JobsOK'
<1> SUFFICES ASSUME CodeOK, JobsOK, [Next]_vars PROVE JobsOK'
    OBVIOUS
<1> USE NetTaskIsTask DEF At
<1>1. \A t \in Tasks : Place(code[t])
    BY DEF CodeOK
<1>2. ASSUME NEW t \in Tasks, InLevel(t) PROVE JobsOK'
  <2>1. CASE splTake(t)
      BY <2>1 DEF splTake, jobVars, JobsOK, GetOK, NoPartialJob, NoStrandedJob
  <2>2. CASE splnet(t)
    <3>1. code[t].at = "splnet" /\ UNCHANGED jobVars /\ Step(t, code[t].in)
        BY <2>2 DEF splnet
    <3>2. code[t].in \in Starts
        BY <1>1, <3>1 DEF Place, Inside
    <3> QED BY <3>1, <3>2, Steps, MoveKeepsJobs DEF Starts
  <2>3. CASE splx(t)
    <3>1. /\ code[t].at \in {"splx", "splGive"} /\ UNCHANGED jobVars
          /\ Step(t, "splGive") \/ Step(t, code[t].then)
        BY <2>3 DEF splx
    <3>2. code[t].then \in Ends
        BY <1>1, <3>1 DEF Place, Inside, Level
    <3> QED BY <3>1, <3>2, Steps, MoveKeepsJobs DEF Ends
  <2> QED BY <1>2, <2>1, <2>2, <2>3 DEF InLevel
<1>3. ASSUME NEW t \in Tasks, Output(t) PROVE JobsOK'
  <2>1. CASE looutput(t)
    <3>1. PICK s \in {"netJobAdd", "output"} :
             /\ Goto(t, [code[t] EXCEPT !.left = @ - 1, !.at = s])
             /\ code[t].at = "output" /\ UNCHANGED jobVars
        BY <2>1 DEF looutput
    <3> DEFINE d == [code[t] EXCEPT !.left = @ - 1, !.at = s]
    <3>2. d.at = s
        BY <1>1, Excepts
    <3> HIDE DEF d
    <3>3. code'[t].at = s /\ \A u \in Tasks : u # t => code'[u] = code[u]
        BY <3>1, <3>2, Goes DEF d
    <3> QED BY <3>1, <3>3, MoveKeepsJobs
  <2>2. CASE netJobAdd(t)
    <3>1. /\ code[t].at = "netJobAdd" /\ PutJob("lodequeue") /\ netTaskSem' = netTaskSem
          /\ Step(t, IF Accepted THEN "semGive" ELSE "output")
        BY <2>2 DEF netJobAdd
    <3>2. /\ code'[t].at = IF Accepted THEN "semGive" ELSE "output"
          /\ \A u \in Tasks : u # t => code'[u] = code[u]
        BY <3>1, Steps
    <3>3. "lodequeue" \in Funcs
        BY DEF Funcs
    <3> QED BY <3>1, <3>2, <3>3, PutKeepsJobs
  <2>3. CASE semGive(t)
    <3>1. netTaskSem' /\ netWorkRing' = netWorkRing /\ Step(t, "output")
        BY <2>3 DEF semGive
    <3>2. code'[t].at = "output" /\ \A u \in Tasks : u # t => code'[u] = code[u]
        BY <3>1, Steps
    <3>3. code'[netTask] = code[netTask] \/ code'[netTask].at = "output"
        BY <3>2
    <3> QED BY <3>1, <3>3 DEF JobsOK, GetOK, NoPartialJob, NoStrandedJob
  <2>4. CASE Sent(t)
    <3>1. code[t].at = "output" /\ UNCHANGED jobVars /\ Step(t, "splx")
        BY <2>4 DEF Sent
    <3> QED BY <3>1, Steps, MoveKeepsJobs
  <2> QED BY <1>3, <2>1, <2>2, <2>3, <2>4 DEF Output
<1>4. ASSUME NEW t \in Senders, send(t) PROVE JobsOK'
  <2>1. /\ code[t].at = "idle" /\ UNCHANGED jobVars /\ t \in Tasks /\ t # netTask
        /\ \E n : Goto(t, [at |-> "splnet", in |-> "output", then |-> "idle", left |-> n])
      BY <1>4 DEF send, Tasks
  <2>2. \A u \in Tasks : u # t => code'[u] = code[u]
      BY <2>1, Goes
  <2> QED BY <2>1, <2>2, MoveKeepsJobs
<1>5. ASSUME NEW t \in Readers, receive(t) \/ soreceive(t) \/ sbwait(t) \/ ksleep(t)
      PROVE  JobsOK'
  <2>1. /\ code[t].at # "semGive" /\ UNCHANGED jobVars /\ t \in Tasks /\ t # netTask
        /\ \E c : Goto(t, c)
      BY <1>5 DEF receive, soreceive, sbwait, ksleep, Step, Tasks
  <2>2. \A u \in Tasks : u # t => code'[u] = code[u]
      BY <2>1, Goes
  <2> QED BY <2>1, <2>2, MoveKeepsJobs
<1>6. CASE NetTask
  <2>1. CASE Take
    <3>1. netWorkRing' = netWorkRing /\ Step(netTask, "more")
        BY <2>1 DEF Take
    <3>2. code'[netTask].at = "more"
        BY <3>1, Steps
    <3> QED BY <3>1, <3>2 DEF JobsOK, GetOK, NoPartialJob, NoStrandedJob
  <2>2. CASE More
    <3>1. netWorkRing' = netWorkRing /\ RingOK(netWorkRing)
        BY <2>2 DEF More, jobVars, JobsOK
    <3>2. CASE rngIsEmpty(netWorkRing)
      <4>1. Goto(netTask, [at |-> "take"])
          BY <2>2, <3>2 DEF More
      <4>2. code'[netTask].at = "take"
          BY <4>1, Goes
      <4> QED BY <3>1, <3>2, <4>2 DEF JobsOK, GetOK, NoPartialJob, NoStrandedJob
    <3>3. CASE ~rngIsEmpty(netWorkRing)
      <4>1. Goto(netTask, [at |-> "get", to |-> netWorkRing.to])
          BY <2>2, <3>3 DEF More
      <4>2. code'[netTask].at = "get" /\ code'[netTask].to = netWorkRing.to
          BY <4>1, Goes
      <4>3. Seen(netWorkRing, netWorkRing.to) = rngNBytes(netWorkRing)
          BY DEF Seen, rngNBytes
      <4>4. PICK n \in Nat : n = rngNBytes(netWorkRing) /\ n > 0 /\ Multiple(n)
          BY <3>1, <3>3, RingFacts DEF RingOK
      <4>5. NodeSize <= n /\ n <= n
          BY <4>4, MultipleFacts, NetTaskAssumption DEF NetTaskAssumption
      <4>6. netWorkRing.to \in 0..RingSize
        <5>1. RingSize \in Nat
            BY NetTaskAssumption DEF NetTaskAssumption, RingSize
        <5> QED BY <3>1, <5>1 DEF RingOK, IsRing
      <4> QED BY <3>1, <4>2, <4>3, <4>4, <4>5, <4>6
              DEF JobsOK, GetOK, NoPartialJob, NoStrandedJob
    <3> QED BY <3>2, <3>3
  <2>3. CASE Get
    <3>1. /\ RingOK(netWorkRing) /\ code[netTask].to \in 0..RingSize
          /\ NodeSize <= Seen(netWorkRing, code[netTask].to)
          /\ Seen(netWorkRing, code[netTask].to) <= rngNBytes(netWorkRing)
        BY <2>3 DEF Get, JobsOK, GetOK
    <3>2. /\ RingOK(rngBufGet(netWorkRing, code[netTask].to, NodeSize))
          /\ Len(rngBufGot(netWorkRing, code[netTask].to, NodeSize)) = NodeSize
        BY <3>1, JobGet
    <3>3. /\ netWorkRing' = rngBufGet(netWorkRing, code[netTask].to, NodeSize)
          /\ \E func : Goto(netTask, Job(func))
        BY <2>3, <3>2 DEF Get
    <3>4. \A func : Job(func).at \in {"more", "splnet"}
        BY DEF Job
    <3>5. code'[netTask].at \in {"more", "splnet"}
        BY <3>3, <3>4, Goes
    <3> QED BY <3>2, <3>3, <3>5 DEF JobsOK, GetOK, NoPartialJob, NoStrandedJob
  <2>4. CASE Protocols
    <3>1. code[netTask].at = "timeout" /\ UNCHANGED jobVars /\ Step(netTask, "splx")
        BY <2>4 DEF Protocols
    <3> QED BY <3>1, Steps, MoveKeepsJobs
  <2>5. CASE wdStart
    <3>1. /\ code[netTask].at = "wdStart" /\ UNCHANGED jobVars
          /\ Goto(netTask, [at |-> "more"])
        BY <2>5 DEF wdStart
    <3>2. code'[netTask].at = "more" /\ \A u \in Tasks : u # netTask => code'[u] = code[u]
        BY <3>1, Goes
    <3> QED BY <3>1, <3>2, MoveKeepsJobs
  <2>6. CASE lodequeue
    <3>1. code[netTask].at = "lodequeue" /\ UNCHANGED jobVars
        BY <2>6 DEF lodequeue
    <3>2. CASE Step(netTask, "splx")
        BY <3>1, <3>2, Steps, MoveKeepsJobs
    <3>3. ASSUME NEW n, Goto(netTask, [code[netTask] EXCEPT !.at = "output", !.left = n])
          PROVE  JobsOK'
      <4> DEFINE d == [code[netTask] EXCEPT !.at = "output", !.left = n]
      <4>1. d.at = "output"
          BY <1>1, Excepts
      <4> HIDE DEF d
      <4>2. code'[netTask].at = "output" /\ \A u \in Tasks : u # netTask => code'[u] = code[u]
          BY <3>3, <4>1, Goes DEF d
      <4> QED BY <3>1, <4>2, MoveKeepsJobs
    <3> QED BY <2>6, <3>2, <3>3 DEF lodequeue
  <2> QED BY <1>6, <2>1, <2>2, <2>3, <2>4, <2>5, <2>6 DEF NetTask
<1>7. ASSUME NEW func \in Funcs, HandlerAdds(func) PROVE JobsOK'
  <2>1. PutJob(func) /\ netTaskSem' = (netTaskSem \/ Accepted) /\ code' = code
      BY <1>7 DEF HandlerAdds
  <2> QED BY <2>1, PutKeepsJobs
<1>8. CASE \/ \E k \in Timers : Timeout(k)
           \/ DriverAdds
    BY <1>7, <1>8 DEF Timeout, DriverAdds, Funcs
<1>9. CASE UNCHANGED vars
    BY <1>9 DEF vars, jobVars, JobsOK, GetOK, NoPartialJob, NoStrandedJob
<1> QED BY <1>2, <1>3, <1>4, <1>5, <1>6, <1>8, <1>9 DEF Next, Tasks

-----------------------------------------------------------------------------
(***************************************************************************)
(* What the job is that netTask works on.  Its function is kept to the     *)
(* end, where that of a timer starts its watchdog again.                   *)
(***************************************************************************)
Between == {"take", "more", "get", "exited"}
AtWork  == (Inside \ {"ksleep"}) \cup {"wdStart"}

JobOf(c) ==
    /\ c.at \in AtWork /\ "func" \in DOMAIN c
    /\ c.then = IF c.func \in Timers THEN "wdStart" ELSE "more"
    /\ c.at = "wdStart" => c.func \in Timers

FuncOK == code[netTask].at \in Between \/ JobOf(code[netTask])

Busy(k) == code[netTask].at \notin Between /\ code[netTask].func = k

LEMMA StepKeepsFunc ==
    ASSUME CodeOK, NEW s, Step(netTask, s), "func" \in DOMAIN code[netTask]
    PROVE  code'[netTask].func = code[netTask].func
<1> DEFINE c == [code[netTask] EXCEPT !.at = s]
<1>1. Goto(netTask, c)
    BY DEF Step
<1>2. code'[netTask] = c
    BY <1>1, Goes, NetTaskIsTask
<1>3. c.func = code[netTask].func
    BY Zenon
<1> HIDE DEF c
<1> QED BY <1>2, <1>3

LEMMA ExceptsKeepFunc ==
    ASSUME NEW c, "func" \in DOMAIN c, NEW s, NEW x
    PROVE  /\ [c EXCEPT !.left = @ - 1, !.at = s].func = c.func
           /\ [c EXCEPT !.at = s, !.left = x].func = c.func
BY Zenon

\* What holds of the job after a step: it is kept, or its watchdog runs.
FuncKept == FuncOK' /\ \A k \in Timers : Busy(k) => Busy(k)' \/ k \in armed'

\* A step inside of the job.
LEMMA MoveKeepsFunc ==
    ASSUME JobOf(code[netTask]),
           code'[netTask].at \in AtWork, "func" \in DOMAIN code'[netTask],
           code'[netTask].then = code[netTask].then,
           code'[netTask].func = code[netTask].func,
           code'[netTask].at = "wdStart" => code[netTask].func \in Timers
    PROVE  FuncKept
<1>1. AtWork \cap Between = {}
    BY DEF AtWork, Between, Inside, Level
<1> QED BY <1>1 DEF FuncKept, FuncOK, JobOf, Busy

LEMMA StepInJob ==
    ASSUME CodeOK, FuncOK, NEW s, Step(netTask, s), code[netTask].at \in Inside \ {"ksleep"},
           s \in Inside \ {"ksleep"}
    PROVE  FuncKept
<1>1. JobOf(code[netTask]) /\ netTask \in Tasks
    BY NetTaskIsTask DEF FuncOK, Between, Inside, Level
<1>2. code'[netTask].func = code[netTask].func
    BY <1>1, StepKeepsFunc DEF JobOf
<1>3. /\ DOMAIN code'[netTask] = DOMAIN code[netTask] /\ code'[netTask].at = s
      /\ code'[netTask].then = code[netTask].then
    BY <1>1, Steps
<1>4. s \in AtWork /\ s # "wdStart"
    BY DEF AtWork, Inside, Level
<1> QED BY <1>1, <1>2, <1>3, <1>4, MoveKeepsFunc DEF JobOf

LEMMA FuncInductive == CodeOK /\ FuncOK /\ [Next]_vars => FuncKept
<1> SUFFICES ASSUME CodeOK, FuncOK, [Next]_vars PROVE FuncKept
    OBVIOUS
<1> USE NetTaskIsTask DEF At
<1>1. Place(code[netTask])
    BY DEF CodeOK
<1>2. ASSUME code'[netTask] = code[netTask] PROVE FuncKept
    BY <1>2 DEF FuncKept, FuncOK, Busy
<1>3. ASSUME NEW t \in Tasks, NEW c, Goto(t, c), t # netTask PROVE FuncKept
  <2>1. code'[netTask] = code[netTask]
      BY <1>3, Goes
  <2> QED BY <1>2, <2>1
<1>4. ASSUME NEW t \in Tasks, InLevel(t) PROVE FuncKept
  <2>1. CASE splTake(t)
      BY <1>2, <2>1 DEF splTake
  <2>2. CASE t # netTask /\ (splnet(t) \/ splx(t))
      BY <1>3, <2>2 DEF splnet, splx, Step
  <2>3. CASE t = netTask /\ splnet(t)
    <3>1. code[netTask].at = "splnet" /\ Step(netTask, code[netTask].in)
        BY <2>3 DEF splnet
    <3>2. code[netTask].in \in Starts
        BY <1>1, <3>1 DEF Place, Inside
    <3> QED BY <3>1, <3>2, StepInJob DEF Starts, Inside, Level
  <2>4. CASE t = netTask /\ splx(t)
    <3>1. CASE code[netTask].at = "splx" /\ Step(netTask, "splGive")
        BY <3>1, StepInJob DEF Inside, Level
    <3>2. CASE code[netTask].at = "splGive" /\ Step(netTask, code[netTask].then)
      <4>1. JobOf(code[netTask])
          BY <3>2 DEF FuncOK, Between
      <4>2. code'[netTask].at = code[netTask].then
          BY <3>2, Steps
      <4>3. CASE code[netTask].func \in Timers
        <5>1. code'[netTask].at = "wdStart"
            BY <4>1, <4>2, <4>3 DEF JobOf
        <5>2. code'[netTask].func = code[netTask].func
            BY <3>2, <4>1, StepKeepsFunc DEF JobOf
        <5>3. /\ DOMAIN code'[netTask] = DOMAIN code[netTask]
              /\ code'[netTask].then = code[netTask].then
            BY <3>2, Steps DEF Inside, Level
        <5> QED BY <4>1, <4>3, <5>1, <5>2, <5>3, MoveKeepsFunc DEF JobOf, AtWork
      <4>4. CASE code[netTask].func \notin Timers
        <5>1. code'[netTask].at = "more"
            BY <4>1, <4>2, <4>4 DEF JobOf
        <5> QED BY <4>4, <5>1 DEF FuncKept, FuncOK, Busy, Between
      <4> QED BY <4>3, <4>4
    <3> QED BY <2>4, <3>1, <3>2 DEF splx
  <2> QED BY <1>4, <2>1, <2>2, <2>3, <2>4 DEF InLevel
<1>5. ASSUME NEW t \in Tasks, Output(t) PROVE FuncKept
  <2>1. CASE t # netTask
      BY <1>3, <1>5, <2>1 DEF Output, looutput, netJobAdd, semGive, Sent, Step
  <2>2. CASE t = netTask /\ looutput(t)
    <3>1. PICK s \in {"netJobAdd", "output"} :
             /\ Goto(netTask, [code[netTask] EXCEPT !.left = @ - 1, !.at = s])
             /\ code[netTask].at = "output"
        BY <2>2 DEF looutput
    <3> DEFINE d == [code[netTask] EXCEPT !.left = @ - 1, !.at = s]
    <3>2. JobOf(code[netTask])
        BY <3>1 DEF FuncOK, Between
    <3>3. DOMAIN d = DOMAIN code[netTask] /\ d.at = s /\ d.then = code[netTask].then
        BY <1>1, <3>1, Excepts DEF Inside, Level
    <3>4. d.func = code[netTask].func
        BY <3>2, ExceptsKeepFunc DEF JobOf
    <3> HIDE DEF d
    <3>5. code'[netTask] = d
        BY <3>1, Goes DEF d
    <3>6. s \in AtWork /\ s # "wdStart"
        BY DEF AtWork, Inside, Level
    <3> QED BY <3>2, <3>3, <3>4, <3>5, <3>6, MoveKeepsFunc DEF JobOf
  <2>3. CASE t = netTask /\ (netJobAdd(t) \/ semGive(t) \/ Sent(t))
    <3>1. /\ code[netTask].at \in {"netJobAdd", "semGive", "output"}
          /\ \E s \in {"semGive", "output", "splx"} : Step(netTask, s)
        BY <2>3 DEF netJobAdd, semGive, Sent
    <3> QED BY <3>1, StepInJob DEF Inside, Level
  <2> QED BY <1>5, <2>1, <2>2, <2>3 DEF Output
<1>6. CASE \/ \E t \in Senders : send(t)
           \/ \E t \in Readers : receive(t) \/ soreceive(t) \/ sbwait(t) \/ ksleep(t)
  <2>1. PICK t \in Senders \cup Readers : \E c : Goto(t, c)
      BY <1>6 DEF send, receive, soreceive, sbwait, ksleep, Step
  <2>2. t \in Tasks /\ t # netTask
      BY DEF Tasks
  <2> QED BY <1>3, <2>1, <2>2
<1>7. CASE NetTask
  <2>1. ASSUME code[netTask].at \in Between, NEW c, Goto(netTask, c),
               c.at \in Between \/ JobOf(c)
        PROVE  FuncKept
    <3>1. code'[netTask] = c
        BY <2>1, Goes
    <3> QED BY <2>1, <3>1 DEF FuncKept, FuncOK, Busy
  <2>2. CASE Take
    <3>1. code[netTask].at \in Between /\ Step(netTask, "more")
        BY <2>2 DEF Take, Between
    <3>2. code'[netTask].at = "more"
        BY <3>1, Steps
    <3> QED BY <3>1, <3>2 DEF FuncKept, FuncOK, Busy, Between
  <2>3. CASE More
      BY <2>1, <2>3 DEF More, Between
  <2>4. CASE Get
    <3>1. \A func : Job(func).at \in Between \/ JobOf(Job(func))
      <4>1. ASSUME NEW func, func = "driver" PROVE Job(func).at = "more"
          BY <4>1 DEF Job
      <4>2. ASSUME NEW func, func # "driver" PROVE JobOf(Job(func))
          BY <4>2 DEF JobOf, Job, AtWork, Inside
      <4> QED BY <4>1, <4>2 DEF Between
    <3>2. /\ code[netTask].at \in Between
          /\ \/ \E func : Goto(netTask, Job(func))
             \/ Goto(netTask, [at |-> "exited"])
        BY <2>4 DEF Get, Between
    <3>3. [at |-> "exited"].at \in Between
        BY DEF Between
    <3> QED BY <2>1, <3>1, <3>2, <3>3
  <2>5. CASE Protocols
    <3>1. code[netTask].at = "timeout" /\ Step(netTask, "splx")
        BY <2>5 DEF Protocols
    <3> QED BY <3>1, StepInJob DEF Inside, Level
  <2>6. CASE wdStart
    <3>1. /\ Goto(netTask, [at |-> "more"])
          /\ armed' = armed \cup {code[netTask].func}
        BY <2>6 DEF wdStart
    <3>2. code'[netTask].at = "more"
        BY <3>1, Goes
    <3> QED BY <3>1, <3>2 DEF FuncKept, FuncOK, Busy, Between
  <2>7. CASE lodequeue
    <3>1. code[netTask].at = "lodequeue"
        BY <2>7 DEF lodequeue
    <3>2. CASE Step(netTask, "splx")
        BY <3>1, <3>2, StepInJob DEF Inside, Level
    <3>3. ASSUME NEW n, Goto(netTask, [code[netTask] EXCEPT !.at = "output", !.left = n])
          PROVE  FuncKept
      <4> DEFINE d == [code[netTask] EXCEPT !.at = "output", !.left = n]
      <4>1. JobOf(code[netTask])
          BY <3>1 DEF FuncOK, Between
      <4>2. /\ DOMAIN d = DOMAIN code[netTask] /\ d.at = "output"
            /\ d.then = code[netTask].then
          BY <1>1, <3>1, Excepts DEF Inside, Level
      <4>3. d.func = code[netTask].func
          BY <4>1, ExceptsKeepFunc DEF JobOf
      <4> HIDE DEF d
      <4>4. code'[netTask] = d
          BY <3>3, Goes DEF d
      <4>5. "output" \in AtWork
          BY DEF AtWork, Inside, Level
      <4> QED BY <4>1, <4>2, <4>3, <4>4, <4>5, MoveKeepsFunc DEF JobOf
    <3> QED BY <2>7, <3>2, <3>3 DEF lodequeue
  <2> QED BY <1>7, <2>2, <2>3, <2>4, <2>5, <2>6, <2>7 DEF NetTask
<1>8. CASE \/ \E k \in Timers : Timeout(k)
           \/ DriverAdds
           \/ UNCHANGED vars
    BY <1>2, <1>8 DEF Timeout, DriverAdds, HandlerAdds, vars
<1> QED BY <1>4, <1>5, <1>6, <1>7, <1>8 DEF Next, Tasks

-----------------------------------------------------------------------------
(***************************************************************************)
(* The places of the bytes in the ring: those of each job are in order.    *)
(***************************************************************************)
PlacesOK(r) ==
    \A k \in Nat, i \in 1..NodeSize :
        k * NodeSize + i <= rngNBytes(r) => Contents(r)[k * NodeSize + i][2] = i

QueuedIn(r) == {Contents(r)[i][1] :
                  i \in {j \in 1..rngNBytes(r) : Contents(r)[j][2] = 1}}

LEMMA SameMultiple ==
    ASSUME NEW w \in Nat \ {0}, NEW k \in Nat, NEW m \in Nat, NEW i \in 1..w,
           m * w < k * w + i, k * w + i <= m * w + w
    PROVE  k = m
<1>1. ASSUME NEW d \in Nat, k = m + 1 + d PROVE FALSE
  <2>1. k * w = m * w + w + d * w /\ d * w \in Nat
      BY <1>1
  <2> QED BY <2>1
<1>2. ASSUME NEW d \in Nat, m = k + 1 + d PROVE FALSE
  <2>1. m * w = k * w + w + d * w /\ d * w \in Nat
      BY <1>2
  <2> QED BY <2>1
<1>3. CASE k > m
  <2>1. k - m - 1 \in Nat /\ k = m + 1 + (k - m - 1)
      BY <1>3
  <2> QED BY <1>1, <2>1
<1>4. CASE k < m
  <2>1. m - k - 1 \in Nat /\ m = k + 1 + (m - k - 1)
      BY <1>4
  <2> QED BY <1>2, <2>1
<1> QED BY <1>3, <1>4

\* The elements of a sequence without its first w.
LEMMA WithoutFirst == ASSUME NEW S, NEW a \in Seq(S), NEW w \in 1..Len(a)
    PROVE /\ SubSeq(a, 1, w)[1] = a[1]
          /\ \A j \in 1..(Len(a) - w) : SubSeq(a, w + 1, Len(a))[j] = a[w + j]
OBVIOUS

\* A put keeps what is queued and adds its job (netJobAdd).
LEMMA PutPlaces == ASSUME NEW r, RingOK(r), PlacesOK(r), NEW func \in Funcs
    PROVE LET q == rngBufPut(r, Node(func)) IN
             /\ PlacesOK(q) /\ QueuedIn(r) \subseteq QueuedIn(q)
             /\ PutCount(r, NodeSize) = NodeSize => func \in QueuedIn(q)
<1> DEFINE q == rngBufPut(r, Node(func))
           s == Contents(r)
           cq == Contents(q)
           e == Node(func)
<1>1. PICK w \in Nat \ {0} : w = NodeSize
    BY NetTaskAssumption DEF NetTaskAssumption
<1>2. IsRing(r, Bytes) /\ Multiple(rngNBytes(r)) /\ e \in Seq(Bytes) /\ Len(e) = w
    BY <1>1, NodeIsBytes DEF RingOK
<1>3. PICK N \in Nat : N = rngNBytes(r) /\ Len(s) = N /\ s \in Seq(Bytes)
    BY <1>2, RingFacts, ContentsType
<1>4. /\ IsRing(q, Bytes)
      /\ PutCount(r, w) = Least(w, rngFreeBytes(r))
      /\ cq = s \o SubSeq(e, 1, Least(w, rngFreeBytes(r)))
    BY <1>2, PutAppends
<1>5. /\ PutCount(r, w) # w => rngNBytes(q) = N
      /\ rngNBytes(q) \in Nat /\ cq \in Seq(Bytes) /\ Len(cq) = rngNBytes(q)
    BY <1>1, <1>3, <1>4, JobPut, RingFacts, ContentsType
<1>6. PICK n \in 0..w : n = Least(w, rngFreeBytes(r))
  <2>1. rngFreeBytes(r) \in Nat
    <3>1. IsRing(r, Bytes)
        BY <1>2
    <3> QED BY <3>1, FreeIsNat
  <2> QED BY <2>1 DEF Least
<1> HIDE DEF q, s, cq, e
<1>7. /\ rngNBytes(q) = N + n
      /\ \A i \in 1..N : cq[i] = s[i]
      /\ \A i \in 1..n : cq[N + i] = e[i]
  <2>1. cq = s \o SubSeq(e, 1, n) /\ n \in 0..Len(e)
      BY <1>2, <1>4, <1>6
  <2>2. PICK a \in Seq(Bytes), b \in Seq(Bytes) : a = s /\ b = e
      BY <1>2, <1>3
  <2>3. n \in 0..Len(b) /\ Len(a) = N
      BY <1>3, <2>1, <2>2
  <2>4. /\ SubSeq(b, 1, n) \in Seq(Bytes) /\ Len(SubSeq(b, 1, n)) = n
        /\ \A i \in 1..n : SubSeq(b, 1, n)[i] = b[i]
      BY <2>3
  <2>5. PICK d \in Seq(Bytes) :
            d = SubSeq(b, 1, n) /\ Len(d) = n /\ \A i \in 1..n : d[i] = b[i]
      BY <2>4
  <2>6. Len(a \o d) = Len(a) + n /\ \A i \in 1..Len(a) : (a \o d)[i] = a[i]
      BY <2>5
  <2>7. \A i \in 1..Len(d) : (a \o d)[Len(a) + i] = d[i]
      OBVIOUS
  <2>8. cq = a \o d
      BY <2>1, <2>2, <2>5
  <2> QED BY <1>5, <2>2, <2>3, <2>5, <2>6, <2>7, <2>8
<1>8. n = w \/ n = 0
    BY <1>4, <1>5, <1>6, <1>7
<1>9. \A i \in 1..w : e[i][1] = func /\ e[i][2] = i
    BY <1>1 DEF e, Node
<1>10. PlacesOK(q)
  <2> SUFFICES ASSUME NEW k \in Nat, NEW i \in 1..w, k * w + i <= N + n
               PROVE  cq[k * w + i][2] = i
      BY <1>1, <1>7 DEF PlacesOK, cq
  <2>1. PICK j \in Nat : j = k * w + i /\ j > 0 /\ j <= N + n
    <3>1. k * w \in Nat
        OBVIOUS
    <3> QED BY <3>1
  <2>2. CASE j <= N
    <3>1. s[k * w + i][2] = i
        BY <1>1, <1>3, <2>1, <2>2 DEF PlacesOK, s
    <3> QED BY <1>7, <2>1, <2>2, <3>1
  <2>3. CASE j > N
    <3>1. n = w
        BY <1>8, <2>1, <2>3
    <3>2. PICK m \in Nat : N = m * w
        BY <1>1, <1>2, <1>3 DEF Multiple
    <3>3. k = m
        BY <2>1, <2>3, <3>1, <3>2, SameMultiple
    <3>4. j = N + i
        BY <2>1, <3>2, <3>3
    <3> QED BY <1>7, <1>9, <2>1, <3>1, <3>4
  <2> QED BY <2>1, <2>2, <2>3
<1>11. QueuedIn(r) \subseteq QueuedIn(q)
    BY <1>3, <1>7 DEF QueuedIn, s, cq
<1>12. ASSUME n = w PROVE func \in QueuedIn(q)
  <2>1. cq[N + 1][1] = func /\ cq[N + 1][2] = 1 /\ N + 1 \in 1..rngNBytes(q)
      BY <1>7, <1>9, <1>12
  <2> QED BY <2>1 DEF QueuedIn, cq
<1> QED BY <1>1, <1>4, <1>6, <1>10, <1>11, <1>12 DEF q

\* A get takes the job it tells of, and no other (netTask).
LEMMA GetPlaces == ASSUME NEW r, RingOK(r), PlacesOK(r), NEW to \in 0..RingSize,
                          NodeSize <= Seen(r, to), Seen(r, to) <= rngNBytes(r)
    PROVE LET q == rngBufGet(r, to, NodeSize)
              got == rngBufGot(r, to, NodeSize)
          IN  PlacesOK(q) /\ QueuedIn(r) \subseteq QueuedIn(q) \cup {got[1][1]}
<1> DEFINE q == rngBufGet(r, to, NodeSize)
           got == rngBufGot(r, to, NodeSize)
           s == Contents(r)
           cq == Contents(q)
<1>1. PICK w \in Nat \ {0} : w = NodeSize
    BY NetTaskAssumption DEF NetTaskAssumption
<1>2. IsRing(r, Bytes) /\ to \in 0..(r.size - 1)
    BY NetTaskAssumption DEF RingOK, NetTaskAssumption, RingSize
<1>3. PICK N \in Nat : N = rngNBytes(r) /\ Len(s) = N /\ s \in Seq(Bytes)
    BY <1>2, RingFacts, ContentsType
<1>4. PICK seen \in Int : seen = Seen(r, to) /\ w <= seen /\ seen <= N
  <2>1. Seen(r, to) \in Int
      BY <1>2 DEF Seen, IsRing
  <2> QED BY <1>1, <1>3, <2>1
<1>5. Least(w, Seen(r, to)) = w
    BY <1>4 DEF Least
<1>6. /\ got = SubSeq(s, 1, w)
      /\ rngNBytes(q) = N - w
      /\ cq = SubSeq(s, w + 1, N)
  <2>1. /\ got = SubSeq(s, 1, Least(w, Seen(r, to)))
        /\ rngNBytes(q) = rngNBytes(r) - Least(w, Seen(r, to))
        /\ cq = SubSeq(s, Least(w, Seen(r, to)) + 1, rngNBytes(r))
    <3>1. w \in Nat /\ Seen(r, to) <= rngNBytes(r)
        BY <1>3, <1>4
    <3> QED BY <1>1, <1>2, <3>1, GetTakes
  <2> QED BY <1>3, <1>5, <2>1
<1> HIDE DEF q, s, cq, got
<1>7. got[1] = s[1] /\ \A j \in 1..(N - w) : cq[j] = s[w + j]
  <2>1. w \in 1..Len(s)
      BY <1>3, <1>4
  <2> QED BY <1>3, <1>6, <2>1, WithoutFirst
<1>8. PlacesOK(q)
  <2> SUFFICES ASSUME NEW k \in Nat, NEW i \in 1..w, k * w + i <= N - w
               PROVE  cq[k * w + i][2] = i
      BY <1>1, <1>6 DEF PlacesOK, cq
  <2>1. PICK j \in Nat : j = k * w + i /\ j > 0 /\ j <= N - w
    <3>1. k * w \in Nat
        OBVIOUS
    <3> QED BY <3>1
  <2>2. (k + 1) * w + i = w + j /\ w + j <= N
      BY <2>1
  <2>3. s[(k + 1) * w + i][2] = i
    <3>1. k + 1 \in Nat /\ (k + 1) * w + i <= N
        BY <2>2
    <3>2. \A m \in Nat : m * w + i <= N => s[m * w + i][2] = i
        BY <1>1, <1>3 DEF PlacesOK, s
    <3> QED BY <3>1, <3>2, Zenon
  <2> QED BY <1>7, <2>1, <2>2, <2>3
<1>9. ASSUME NEW j \in 1..N, s[j][2] = 1, s[j][1] # got[1][1] PROVE s[j][1] \in QueuedIn(q)
  <2>1. CASE j <= w
    <3>1. s[0 * w + j][2] = j
      <4>1. 0 \in Nat /\ j \in 1..w /\ 0 * w + j <= N
          BY <2>1
      <4> QED BY <1>1, <1>3, <4>1 DEF PlacesOK, s
    <3>2. j = 1
        BY <1>9, <3>1
    <3> QED BY <1>7, <1>9, <3>2
  <2>2. CASE j > w
    <3>1. j - w \in 1..(N - w) /\ w + (j - w) = j
        BY <2>2
    <3>2. cq[j - w] = s[j]
        BY <1>7, <3>1
    <3> QED BY <1>6, <1>9, <3>1, <3>2 DEF QueuedIn, cq
  <2> QED BY <2>1, <2>2
<1>10. QueuedIn(r) \subseteq QueuedIn(q) \cup {got[1][1]}
    BY <1>3, <1>9 DEF QueuedIn, s
<1> QED BY <1>8, <1>10 DEF q, got

(***************************************************************************)
(* The timers.                                                             *)
(***************************************************************************)
TimersOK == PlacesOK(netWorkRing) /\ TimersGoOn

\* The ring is left alone.
LEMMA MoveKeepsTimers ==
    ASSUME TimersOK, FuncKept, netWorkRing' = netWorkRing,
           armed \subseteq armed', refused \subseteq refused'
    PROVE  TimersOK'
<1>1. PlacesOK(netWorkRing)' /\ Queued' = Queued
    BY DEF TimersOK, PlacesOK, Queued
<1> QED BY <1>1 DEF TimersOK, TimersGoOn, FuncKept, Busy, Between

\* A job is added, or refused.
LEMMA PutKeepsTimers ==
    ASSUME TimersOK, FuncKept, RingOK(netWorkRing), NEW func \in Funcs, PutJob(func),
           armed \ {func} \subseteq armed',
           func \in armed \ armed' /\ ~Accepted => func \in refused',
           refused \subseteq refused'
    PROVE  TimersOK'
<1>1. /\ PlacesOK(netWorkRing)' /\ Queued \subseteq Queued'
      /\ Accepted => func \in Queued'
  <2>1. LET q == rngBufPut(netWorkRing, Node(func)) IN
           /\ PlacesOK(q) /\ QueuedIn(netWorkRing) \subseteq QueuedIn(q)
           /\ Accepted => func \in QueuedIn(q)
      BY PutPlaces DEF TimersOK, Accepted
  <2> QED BY <2>1 DEF PutJob, Queued, QueuedIn, PlacesOK
<1> QED BY <1>1 DEF TimersOK, TimersGoOn, FuncKept, Busy, Between

LEMMA TimersInductive == CodeOK /\ JobsOK /\ FuncOK /\ TimersOK /\ [Next]_vars => TimersOK'
<1> SUFFICES ASSUME CodeOK, JobsOK, FuncOK, TimersOK, [Next]_vars PROVE TimersOK'
    OBVIOUS
<1> USE NetTaskIsTask DEF At
<1>1. FuncKept /\ RingOK(netWorkRing)
    BY FuncInductive DEF JobsOK
<1>2. ASSUME NEW t \in Tasks, netJobAdd(t) PROVE TimersOK'
  <2>1. /\ PutJob("lodequeue") /\ "lodequeue" \in Funcs
        /\ armed' = armed /\ refused \subseteq refused'
      BY <1>2 DEF netJobAdd, Funcs
  <2> QED BY <1>1, <2>1, PutKeepsTimers
<1>3. CASE Get
  <2> DEFINE q == rngBufGet(netWorkRing, code[netTask].to, NodeSize)
             got == rngBufGot(netWorkRing, code[netTask].to, NodeSize)
  <2>1. /\ code[netTask].to \in 0..RingSize
        /\ NodeSize <= Seen(netWorkRing, code[netTask].to)
        /\ Seen(netWorkRing, code[netTask].to) <= rngNBytes(netWorkRing)
        /\ code[netTask].at \in Between
      BY <1>3 DEF Get, JobsOK, GetOK, Between
  <2>2. Len(got) = NodeSize
      BY <1>1, <2>1, JobGet
  <2>3. PlacesOK(q) /\ QueuedIn(netWorkRing) \subseteq QueuedIn(q) \cup {got[1][1]}
      BY <1>1, <2>1, GetPlaces DEF TimersOK
  <2>4. netWorkRing' = q /\ Goto(netTask, Job(got[1][1])) /\ UNCHANGED timerVars
      BY <1>3, <2>2 DEF Get
  <2> HIDE DEF q, got
  <2>5. PICK func : func = got[1][1]
      OBVIOUS
  <2>6. code'[netTask] = Job(func)
      BY <2>4, <2>5, Goes
  <2>7. func \in Timers => Busy(func)'
    <3>1. \A k \in Timers : Job(k).at = "splnet" /\ Job(k).func = k
        BY NetTaskAssumption DEF NetTaskAssumption, Job
    <3> QED BY <2>6, <3>1 DEF Busy, Between
  <2>8. Queued \subseteq Queued' \cup {func} /\ PlacesOK(netWorkRing)'
      BY <2>3, <2>4, <2>5 DEF Queued, QueuedIn, PlacesOK
  <2>9. armed' = armed /\ refused' = refused
      BY <2>4 DEF timerVars
  <2>10. SUFFICES ASSUME NEW k \in Timers, k \notin (armed \cup refused \cup Queued)'
                  PROVE  Busy(k)'
      BY <2>8 DEF TimersOK, TimersGoOn, Busy, Between
  <2>11. k \in Queued
      BY <2>1, <2>9, <2>10 DEF TimersOK, TimersGoOn, Between
  <2> QED BY <2>7, <2>8, <2>10, <2>11
<1>4. ASSUME NEW k \in Timers, Timeout(k) PROVE TimersOK'
  <2>1. /\ PutJob(k) /\ k \in Funcs
        /\ armed' = armed \ {k}
        /\ refused' = IF Accepted THEN refused ELSE refused \cup {k}
      BY <1>4 DEF Timeout, HandlerAdds, Funcs
  <2> QED BY <1>1, <2>1, PutKeepsTimers
<1>5. CASE DriverAdds
  <2>1. PutJob("driver") /\ "driver" \in Funcs /\ UNCHANGED <<armed, refused>>
      BY <1>5 DEF DriverAdds, HandlerAdds, Funcs, timerVars
  <2> QED BY <1>1, <2>1, PutKeepsTimers
<1>6. ASSUME netWorkRing' = netWorkRing, armed \subseteq armed', refused' = refused
      PROVE  TimersOK'
    BY <1>1, <1>6, MoveKeepsTimers
<1>7. CASE \/ \E t \in Tasks : InLevel(t) \/ looutput(t) \/ semGive(t) \/ Sent(t)
           \/ \E t \in Senders : send(t)
           \/ \E t \in Readers : receive(t) \/ soreceive(t) \/ sbwait(t) \/ ksleep(t)
           \/ UNCHANGED vars
    BY <1>6, <1>7 DEF InLevel, splTake, splnet, splx, looutput, semGive, Sent, send, receive,
       soreceive, sbwait, ksleep, vars, jobVars, timerVars
<1>8. CASE Take \/ More \/ Protocols \/ wdStart \/ lodequeue
    BY <1>6, <1>8 DEF Take, More, Protocols, wdStart, lodequeue, jobVars, timerVars
<1> QED BY <1>2, <1>3, <1>4, <1>5, <1>7, <1>8 DEF Next, Output, NetTask, Tasks

-----------------------------------------------------------------------------
(***************************************************************************)
(* The receive buffer.  From the moment the only reader has noted its wish *)
(* the buffer is empty, until a datagram takes the wish and gives the      *)
(* semaphore.                                                              *)
(***************************************************************************)
BufferOK == sb_cc \in 0..sb_max /\ sb_want \in Nat /\ sb_sem \in BOOLEAN

Sleepy(t) ==
    \/ code[t].at = "ksleep"
    \/ code[t].at \in {"splx", "splGive"} /\ code[t].then = "ksleep"

SleepOK ==
    \A t \in Readers : Readers = {t} /\ Sleepy(t) => sb_sem \/ (sb_want > 0 /\ sb_cc = 0)

SocketOK == BufferOK /\ SleepOK

\* A step that leaves the buffer alone and sends no reader to sleep.
LEMMA MoveKeepsSocket ==
    ASSUME SocketOK, UNCHANGED socketVars,
           \A t \in Readers : Sleepy(t)' => Sleepy(t)
    PROVE  SocketOK'
BY DEF SocketOK, SleepOK, BufferOK, socketVars

\* The protocols leave a datagram: a reader that wished for it is woken.
LEMMA DeliverKeepsSocket ==
    ASSUME SocketOK, Deliver, \A t \in Readers : Sleepy(t)' => Sleepy(t)
    PROVE  SocketOK'
<1>1. sb_max \in Nat
    BY NetTaskAssumption DEF NetTaskAssumption
<1>2. CASE sb_cc < sb_max
  <2>1. /\ sb_cc' = sb_cc + 1
        /\ sb_want' = IF sb_want > 0 THEN sb_want - 1 ELSE 0
        /\ sb_sem' = (sb_sem \/ sb_want > 0)
      BY <1>2 DEF Deliver, sbwakeup
  <2>2. BufferOK'
      BY <1>1, <1>2, <2>1 DEF SocketOK, BufferOK
  <2>3. SleepOK'
      BY <2>1 DEF SocketOK, SleepOK
  <2> QED BY <2>2, <2>3 DEF SocketOK
<1>3. CASE ~(sb_cc < sb_max)
    BY <1>3, MoveKeepsSocket DEF Deliver, sbwakeup
<1> QED BY <1>2, <1>3

LEMMA SocketInductive == CodeOK /\ SocketOK /\ [Next]_vars => SocketOK'
<1> SUFFICES ASSUME CodeOK, SocketOK, [Next]_vars PROVE SocketOK'
    OBVIOUS
<1> USE NetTaskIsTask DEF At
<1>1. /\ \A t \in Tasks : Place(code[t])
      /\ Readers \subseteq Tasks /\ netTask \notin Readers /\ Senders \cap Readers = {}
    BY NetTaskAssumption DEF CodeOK, Tasks, NetTaskAssumption
\* A step of a task that is no reader.
<1>2. ASSUME NEW t \in Tasks, NEW c, Goto(t, c), t \notin Readers
      PROVE  \A u \in Readers : Sleepy(u)' => Sleepy(u)
  <2>1. \A u \in Readers : code'[u] = code[u]
      BY <1>1, <1>2, Goes
  <2> QED BY <2>1 DEF Sleepy
\* A step of a reader.
<1>3. ASSUME NEW t \in Tasks, NEW c, Goto(t, c), Sleepy(t)' => Sleepy(t)
      PROVE  \A u \in Readers : Sleepy(u)' => Sleepy(u)
  <2>1. \A u \in Readers : u # t => code'[u] = code[u]
      BY <1>1, <1>3, Goes
  <2> QED BY <1>3, <2>1 DEF Sleepy
<1>4. ASSUME NEW t \in Tasks, InLevel(t) PROVE SocketOK'
  <2>1. UNCHANGED socketVars
      BY <1>4 DEF InLevel, splTake, splnet, splx
  <2>2. CASE splTake(t)
      BY <2>1, <2>2, MoveKeepsSocket DEF splTake, Sleepy
  <2>3. CASE splnet(t)
    <3>1. code[t].at = "splnet" /\ Step(t, code[t].in)
        BY <2>3 DEF splnet
    <3>2. code'[t].at \in Starts
        BY <1>1, <3>1, Steps DEF Place, Inside
    <3>3. ~Sleepy(t)'
        BY <3>2 DEF Sleepy, Starts
    <3> QED BY <1>3, <2>1, <3>1, <3>3, MoveKeepsSocket DEF Step
  <2>4. CASE splx(t)
    <3>1. CASE code[t].at = "splx" /\ Step(t, "splGive")
      <4>1. code'[t].at = "splGive" /\ code'[t].then = code[t].then
          BY <3>1, Steps DEF Inside, Level
      <4>2. Sleepy(t)' => Sleepy(t)
          BY <3>1, <4>1 DEF Sleepy
      <4> QED BY <1>3, <2>1, <3>1, <4>2, MoveKeepsSocket DEF Step
    <3>2. CASE code[t].at = "splGive" /\ Step(t, code[t].then)
      <4>1. code'[t].at = code[t].then /\ code[t].then \in Ends
          BY <1>1, <3>2, Steps DEF Place, Inside
      <4>2. Sleepy(t)' => Sleepy(t)
          BY <3>2, <4>1 DEF Sleepy, Ends
      <4> QED BY <1>3, <2>1, <3>2, <4>2, MoveKeepsSocket DEF Step
    <3> QED BY <2>4, <3>1, <3>2 DEF splx
  <2> QED BY <1>4, <2>2, <2>3, <2>4 DEF InLevel
<1>5. ASSUME NEW t \in Senders \cup {netTask}, Output(t) PROVE SocketOK'
  <2>1. UNCHANGED socketVars /\ (\E c : Goto(t, c)) /\ t \in Tasks /\ t \notin Readers
      BY <1>1, <1>5 DEF Output, looutput, netJobAdd, semGive, Sent, Step, Tasks
  <2> QED BY <1>2, <2>1, MoveKeepsSocket
<1>6. ASSUME NEW t \in Senders, send(t) PROVE SocketOK'
  <2>1. UNCHANGED socketVars /\ (\E c : Goto(t, c)) /\ t \in Tasks /\ t \notin Readers
      BY <1>1, <1>6 DEF send, Tasks
  <2> QED BY <1>2, <2>1, MoveKeepsSocket
<1>7. ASSUME NEW t \in Readers, receive(t) PROVE SocketOK'
  <2>1. /\ UNCHANGED socketVars
        /\ Goto(t, [at |-> "splnet", in |-> "soreceive", then |-> "idle"])
      BY <1>7 DEF receive
  <2>2. code'[t].at = "splnet"
      BY <1>1, <2>1, Goes
  <2>3. ~Sleepy(t)'
      BY <2>2 DEF Sleepy
  <2> QED BY <1>1, <1>3, <2>1, <2>3, MoveKeepsSocket
<1>8. ASSUME NEW t \in Readers, soreceive(t) PROVE SocketOK'
  <2>1. /\ sb_cc > 0 /\ sb_cc' = sb_cc - 1 /\ sb_want' = sb_want /\ sb_sem' = sb_sem
        /\ Goto(t, [code[t] EXCEPT !.at = "splx", !.then = "idle"])
        /\ code[t].at = "soreceive"
      BY <1>8 DEF soreceive
  <2> DEFINE d == [code[t] EXCEPT !.at = "splx", !.then = "idle"]
  <2>2. d.at = "splx" /\ d.then = "idle"
      BY <1>1, <2>1, Excepts DEF Inside, Level
  <2> HIDE DEF d
  <2>3. code'[t].at = "splx" /\ code'[t].then = "idle"
      BY <1>1, <2>1, <2>2, Goes DEF d
  <2>4. ~Sleepy(t)'
      BY <2>3 DEF Sleepy
  <2>5. \A u \in Readers : Readers # {u} \/ u = t
      OBVIOUS
  <2>6. SleepOK'
      BY <2>4, <2>5 DEF SleepOK
  <2>7. BufferOK'
      BY <2>1, NetTaskAssumption DEF SocketOK, BufferOK, NetTaskAssumption
  <2> QED BY <2>6, <2>7 DEF SocketOK
<1>9. ASSUME NEW t \in Readers, sbwait(t) PROVE SocketOK'
    BY <1>9 DEF sbwait, SocketOK, BufferOK, SleepOK
<1>10. ASSUME NEW t \in Readers, ksleep(t) PROVE SocketOK'
  <2>1. /\ sb_sem' = FALSE /\ sb_cc' = sb_cc /\ sb_want' = sb_want
        /\ Step(t, "splnet")
      BY <1>10 DEF ksleep
  <2>2. code'[t].at = "splnet"
      BY <1>1, <2>1, Steps
  <2>3. ~Sleepy(t)'
      BY <2>2 DEF Sleepy
  <2>4. \A u \in Readers : Readers # {u} \/ u = t
      OBVIOUS
  <2>5. SleepOK'
      BY <2>3, <2>4 DEF SleepOK
  <2>6. BufferOK'
      BY <2>1 DEF SocketOK, BufferOK
  <2> QED BY <2>5, <2>6 DEF SocketOK
<1>11. CASE NetTask
  <2>1. \E c : Goto(netTask, c)
      BY <1>11 DEF NetTask, Take, More, Get, Protocols, wdStart, lodequeue, Step
  <2>2. \A u \in Readers : Sleepy(u)' => Sleepy(u)
      BY <1>1, <1>2, <2>1
  <2>3. Deliver \/ UNCHANGED socketVars
      BY <1>11 DEF NetTask, Take, More, Get, Protocols, wdStart, lodequeue
  <2> QED BY <2>2, <2>3, MoveKeepsSocket, DeliverKeepsSocket
<1>12. CASE \/ \E k \in Timers : Timeout(k)
            \/ DriverAdds
            \/ UNCHANGED vars
    BY <1>12, MoveKeepsSocket DEF Timeout, DriverAdds, HandlerAdds, vars, Sleepy
<1> QED BY <1>4, <1>5, <1>6, <1>7, <1>8, <1>9, <1>10, <1>11, <1>12 DEF Next

-----------------------------------------------------------------------------
(***************************************************************************)
(* The rest of what the tasks share.                                       *)
(***************************************************************************)
SharedOK ==
    /\ netTaskSem \in BOOLEAN
    /\ splSem \in Tasks \cup {NULL} /\ splWaits \subseteq Tasks
    /\ splTaskId \in Tasks \cup {NULL}
    /\ ipintrq \in 0..ifq_maxlen
    /\ armed \subseteq Timers /\ refused \subseteq Funcs

LEMMA SharedInductive == FuncOK /\ SharedOK /\ [Next]_vars => SharedOK'
<1> SUFFICES ASSUME FuncOK, SharedOK, [Next]_vars PROVE SharedOK'
    OBVIOUS
<1> USE DEF SharedOK
<1>1. netTask \in Tasks /\ Timers \subseteq Funcs /\ "lodequeue" \in Funcs /\ ifq_maxlen \in Nat
    BY NetTaskIsTask, NetTaskAssumption DEF Funcs, NetTaskAssumption
<1>2. ASSUME NEW t \in Tasks, InLevel(t) PROVE SharedOK'
  <2>1. ASSUME Give(t) PROVE splSem' \in Tasks \cup {NULL} /\ splWaits' \subseteq Tasks
      BY <2>1 DEF Give
  <2> QED BY <1>2, <2>1 DEF InLevel, splTake, splnet, splx, jobVars, splVars, timerVars
<1>3. ASSUME NEW t \in Tasks, Output(t) PROVE SharedOK'
  <2>1. CASE looutput(t)
      BY <1>1, <2>1 DEF looutput, jobVars, splVars, timerVars
  <2>2. CASE netJobAdd(t)
      BY <1>1, <2>2 DEF netJobAdd, jobVars, splVars, timerVars
  <2>3. CASE semGive(t) \/ Sent(t)
      BY <2>3 DEF semGive, Sent, jobVars, splVars, timerVars
  <2> QED BY <1>3, <2>1, <2>2, <2>3 DEF Output
<1>4. ASSUME NEW t, send(t) \/ receive(t) \/ soreceive(t) \/ sbwait(t) \/ ksleep(t)
      PROVE  SharedOK'
    BY <1>4 DEF send, receive, soreceive, sbwait, ksleep, jobVars, splVars, timerVars
<1>5. CASE NetTask
  <2>1. CASE Take \/ More \/ Get \/ Protocols
      BY <2>1 DEF Take, More, Get, Protocols, jobVars, splVars, timerVars
  <2>2. CASE wdStart
    <3>1. /\ code[netTask].at = "wdStart" /\ armed' = armed \cup {code[netTask].func}
          /\ UNCHANGED <<jobVars, splVars, ipintrq, refused>>
        BY <2>2 DEF wdStart, At
    <3>2. code[netTask].func \in Timers
        BY <3>1 DEF FuncOK, JobOf, Between
    <3> QED BY <3>1, <3>2 DEF jobVars, splVars
  <2>3. CASE lodequeue
    <3>1. UNCHANGED <<jobVars, splVars, timerVars>> /\ ipintrq' \in {ipintrq, ipintrq - 1}
          /\ (ipintrq = 0 => ipintrq' = ipintrq)
        BY <2>3 DEF lodequeue
    <3>2. ipintrq' \in 0..ifq_maxlen
        BY <1>1, <3>1
    <3> QED BY <3>1, <3>2 DEF jobVars, splVars, timerVars
  <2> QED BY <1>5, <2>1, <2>2, <2>3 DEF NetTask
<1>6. ASSUME NEW k \in Timers, Timeout(k) PROVE SharedOK'
  <2>1. /\ netTaskSem' \in BOOLEAN /\ UNCHANGED <<splVars, ipintrq>>
        /\ armed' \subseteq armed /\ refused' \subseteq refused \cup {k}
      BY <1>6 DEF Timeout, HandlerAdds
  <2> QED BY <1>1, <2>1 DEF splVars
<1>7. CASE DriverAdds
  <2>1. netTaskSem' \in BOOLEAN /\ UNCHANGED <<splVars, ipintrq, timerVars>>
      BY <1>7 DEF DriverAdds, HandlerAdds
  <2> QED BY <2>1 DEF splVars, timerVars
<1>8. CASE UNCHANGED vars
    BY <1>8 DEF vars, jobVars, splVars, timerVars
<1> QED BY <1>1, <1>2, <1>3, <1>4, <1>5, <1>6, <1>7, <1>8 DEF Next, Tasks

-----------------------------------------------------------------------------
IInv == CodeOK /\ LockOK /\ JobsOK /\ FuncOK /\ TimersOK /\ SocketOK /\ SharedOK

LEMMA InitHolds == Init => IInv
<1> SUFFICES ASSUME Init PROVE IInv
    OBVIOUS
<1>1. /\ code = [t \in Tasks |-> [at |-> IF t = netTask THEN "take" ELSE "idle"]]
      /\ splWaits = {} /\ splSem = NULL
      /\ netWorkRing = rngCreate(RingSize, <<NULL, 0>>)
    BY DEF Init
<1>2. \A t \in Tasks : code[t].at \in {"take", "idle"} /\ "at" \in DOMAIN code[t]
    BY <1>1
<1>3. CodeOK
    BY <1>1, <1>2 DEF CodeOK, Place, Inside, Level
<1>4. LockOK
    BY <1>1, <1>2 DEF LockOK, LevelIsExclusive, Level
<1>5. RingSize \in Nat /\ NodeSize \in Nat
    BY NetTaskAssumption DEF NetTaskAssumption, RingSize
<1>6. /\ netWorkRing = [size |-> RingSize + 1, buf |-> [i \in 0..RingSize |-> <<NULL, 0>>],
                        to |-> 0, from |-> 0]
      /\ <<NULL, 0>> \in Bytes
    BY <1>1, <1>5 DEF rngCreate, Bytes
<1>7. RingOK(netWorkRing) /\ rngIsEmpty(netWorkRing)
    BY <1>5, <1>6, MultipleFacts DEF RingOK, IsRing, rngNBytes, rngIsEmpty
<1>8. JobsOK
    BY <1>2, <1>7, NetTaskIsTask DEF JobsOK, GetOK, NoPartialJob, NoStrandedJob, At
<1>9. FuncOK
    BY <1>1, NetTaskIsTask DEF FuncOK, Between
<1>10. TimersOK
  <2>1. rngNBytes(netWorkRing) = 0
      BY <1>6 DEF rngNBytes
  <2>2. ASSUME NEW k \in Nat, NEW i \in 1..NodeSize PROVE ~(k * NodeSize + i <= 0)
    <3>1. k * NodeSize \in Nat
        BY <1>5
    <3> QED BY <1>5, <3>1
  <2> QED BY <2>1, <2>2 DEF TimersOK, PlacesOK, TimersGoOn, Init
<1>11. SocketOK
  <2>1. sb_cc = 0 /\ sb_want = 0 /\ sb_sem = FALSE /\ sb_max \in Nat /\ Readers \subseteq Tasks
      BY NetTaskAssumption DEF Init, Tasks, NetTaskAssumption
  <2>2. \A t \in Tasks : ~Sleepy(t)
      BY <1>2 DEF Sleepy
  <2>3. 0 \in 0..sb_max /\ 0 \in Nat
      BY <2>1
  <2> QED BY <2>1, <2>2, <2>3, Zenon DEF SocketOK, BufferOK, SleepOK
<1>12. SharedOK
  <2>1. /\ netTaskSem = FALSE /\ splSem = NULL /\ splWaits = {} /\ splTaskId = NULL
        /\ ipintrq = 0 /\ armed = Timers /\ refused = {} /\ ifq_maxlen \in Nat
      BY NetTaskAssumption DEF Init, NetTaskAssumption
  <2>2. 0 \in 0..ifq_maxlen
      BY <2>1
  <2> QED BY <2>1, <2>2, Zenon DEF SharedOK
<1> QED BY <1>3, <1>4, <1>8, <1>9, <1>10, <1>11, <1>12 DEF IInv

LEMMA NextKeeps == IInv /\ [Next]_vars => IInv'
BY CodeInductive, LockInductive, JobsInductive, FuncInductive, TimersInductive,
   SocketInductive, SharedInductive DEF IInv, FuncKept

(***************************************************************************)
(* The inductive invariant: where the tasks are, whose the network level   *)
(* is, what the ring of jobs holds, and whom the receive buffer wakes      *)
(* (netLib.c, unixLib.c, sbLib.c).                                         *)
(***************************************************************************)
THEOREM Invariance == Spec => []IInv
BY InitHolds, NextKeeps, PTL DEF Spec

(***************************************************************************)
(* netTask never gets a part of a job, and so never ends (netLib.c         *)
(* netTask, netJobAdd).                                                    *)
(***************************************************************************)
THEOREM NeverPartial == Spec => []NoPartialJob
<1>1. IInv => NoPartialJob
    BY DEF IInv, JobsOK
<1> QED BY <1>1, Invariance, PTL

(***************************************************************************)
(* No job is left in the ring without a wakeup (netLib.c netTask,          *)
(* netJobAdd, from tasks and handlers).                                    *)
(***************************************************************************)
THEOREM NeverStranded == Spec => []NoStrandedJob
<1>1. IInv => NoStrandedJob
    BY DEF IInv, JobsOK
<1> QED BY <1>1, Invariance, PTL

(***************************************************************************)
(* Network code runs at the network level, and splTaskId tells whose it is *)
(* (unixLib.c splnet, splx).                                               *)
(***************************************************************************)
THEOREM LevelExclusive == Spec => []LevelIsExclusive
<1>1. IInv => LevelIsExclusive
    BY DEF IInv, LockOK
<1> QED BY <1>1, Invariance, PTL

(***************************************************************************)
(* What the tasks share keeps its shape, and one task at a time is inside  *)
(* the network level (unixLib.c splnet, splx).                             *)
(***************************************************************************)
THEOREM AlwaysConsistent == Spec => []Consistent
<1>1. IInv => Consistent
    BY DEF IInv, Consistent, TypeOK, LockOK, JobsOK, RingOK, CodeOK, SocketOK, BufferOK, SharedOK
<1> QED BY <1>1, Invariance, PTL

(***************************************************************************)
(* A periodic timeout ends only when its job finds the ring full           *)
(* (domainLib.c, ifLib.c: the job starts the watchdog again).              *)
(***************************************************************************)
THEOREM TimersNeverEnd == Spec => []TimersGoOn
<1>1. IInv => TimersGoOn
    BY DEF IInv, TimersOK
<1> QED BY <1>1, Invariance, PTL

(***************************************************************************)
(* The only reader of a socket does not sleep on a datagram (sbLib.c       *)
(* sbwait, sbwakeup, unixLib.c ksleep).                                    *)
(***************************************************************************)
THEOREM ReaderIsWoken == Spec => []NoSleepyReader
<1>1. IInv => NoSleepyReader
  <2>1. SUFFICES ASSUME SocketOK, NEW t \in Readers, Readers = {t}, At(t, "ksleep"), sb_cc > 0
                 PROVE  sb_sem
      BY DEF NoSleepyReader, IInv
  <2>2. sb_sem \/ (sb_want > 0 /\ sb_cc = 0)
      BY <2>1 DEF SocketOK, SleepOK, Sleepy, At
  <2>3. sb_cc # 0
      BY <2>1 DEF SocketOK, BufferOK
  <2> QED BY <2>2, <2>3
<1> QED BY <1>1, Invariance, PTL
=============================================================================
