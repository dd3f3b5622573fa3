-------------------------------- MODULE Ring --------------------------------
(***************************************************************************)
(* Ring buffers (src/util/rngLib.c).                                       *)
(*                                                                         *)
(* A ring is used by one reader and one writer without a lock: the reader  *)
(* alone stores offsetFromBuffer, the writer alone offsetToBuffer, and     *)
(* both after they have copied.  One byte of the buffer stays free, so     *)
(* that equal offsets mean an empty ring.  The operators below take a      *)
(* ring and give it back changed; a caller that can be interrupted         *)
(* between the load of the other side's offset and its own store passes    *)
(* the offset it has loaded.                                               *)
(***************************************************************************)
EXTENDS Integers, Sequences

\* A ring whose buffer has size bytes: rngCreate allocates one more than asked.
rngCreate(n, byte) ==
    [size |-> n + 1, buf |-> [i \in 0..n |-> byte], to |-> 0, from |-> 0]

\* The same ring with other contents.
Changed(r, buf, to, from) ==
    [size |-> r.size, buf |-> buf, to |-> to, from |-> from]

IsRing(r, Byte) ==
    /\ r = [size |-> r.size, buf |-> r.buf, to |-> r.to, from |-> r.from]
    /\ r.size \in Nat \ {0}
    /\ r.buf \in [0..(r.size - 1) -> Byte]
    /\ r.to \in 0..(r.size - 1) /\ r.from \in 0..(r.size - 1)

Least(m, n) == IF m < n THEN m ELSE n

\* An offset that may have run over the end of the buffer by less than its size.
Wrapped(r, i) == IF i >= r.size THEN i - r.size ELSE i

rngNBytes(r) == IF r.to < r.from THEN r.to - r.from + r.size ELSE r.to - r.from

rngFreeBytes(r) ==
    IF r.from - r.to - 1 < 0 THEN r.from - r.to - 1 + r.size ELSE r.from - r.to - 1

rngIsEmpty(r) == r.to = r.from

rngIsFull(r) == r.to - r.from + 1 \in {0, r.size}

rngFlush(r) == Changed(r, r.buf, 0, 0)

(***************************************************************************)
(* rngBufPut copies up to the end of the buffer, and if the reader is      *)
(* behind the writer but not at the beginning, on from the beginning.      *)
(***************************************************************************)
\* Bug: the byte that has to stay free is used.
PutChunkFull(r) ==
    IF r.from > r.to THEN r.from - r.to - 1
    ELSE r.size - r.to

\* How many bytes fit in the first copy.
PutChunk(r) ==
    IF r.from > r.to THEN r.from - r.to - 1
    ELSE IF r.from = 0 THEN r.size - r.to - 1
    ELSE r.size - r.to

PutFirst(r, len) == Least(len, PutChunk(r))

PutSecond(r, len) ==
    IF r.from > 0 /\ r.from <= r.to /\ r.to + PutFirst(r, len) = r.size
      THEN Least(len - PutFirst(r, len), r.from - 1)
      ELSE 0

\* How many of len bytes are put.
PutCount(r, len) == PutFirst(r, len) + PutSecond(r, len)

rngBufPut(r, s) ==
    LET first  == PutFirst(r, Len(s))
        second == PutSecond(r, Len(s))
    IN  Changed(r, [i \in 0..(r.size - 1) |->
                       IF r.to <= i /\ i < r.to + first THEN s[i - r.to + 1]
                       ELSE IF i < second THEN s[first + i + 1]
                       ELSE r.buf[i]],
                   Wrapped(r, r.to + first + second), r.from)

(***************************************************************************)
(* rngBufGet with the offsetToBuffer that was loaded first.                *)
(***************************************************************************)
GetFirst(r, to, n) ==
    Least(n, IF to >= r.from THEN to - r.from ELSE r.size - r.from)

GetSecond(r, to, n) ==
    IF to < r.from /\ r.from + GetFirst(r, to, n) = r.size
      THEN Least(n - GetFirst(r, to, n), to)
      ELSE 0

GetCount(r, to, n) == GetFirst(r, to, n) + GetSecond(r, to, n)

\* The bytes that are copied out ...
rngBufGot(r, to, n) ==
    [i \in 1..GetCount(r, to, n) |->
        IF i <= GetFirst(r, to, n) THEN r.buf[r.from + i - 1]
                                   ELSE r.buf[i - GetFirst(r, to, n) - 1]]

\* ... and the ring when the reader has stored its offset.
rngBufGet(r, to, n) ==
    Changed(r, r.buf, r.to, Wrapped(r, r.from + GetCount(r, to, n)))

(***************************************************************************)
(* Single bytes, and bytes that the writer puts behind its offset and      *)
(* makes visible later.                                                    *)
(***************************************************************************)
rngElemGet(r) ==
    Changed(r, r.buf, r.to, IF r.from + 1 = r.size THEN 0 ELSE r.from + 1)

rngElemFull(r) ==
    \/ r.to = r.from - 1
    \/ r.to = r.size - 1 /\ r.from = 0

rngElemPut(r, c) ==
    IF rngElemFull(r) THEN r
    ELSE Changed(r, [r.buf EXCEPT ![r.to] = c],
                    IF r.to = r.size - 1 THEN 0 ELSE r.to + 1, r.from)

rngPutAhead(r, c, offset) ==
    Changed(r, [r.buf EXCEPT ![Wrapped(r, r.to + offset)] = c], r.to, r.from)

rngMoveAhead(r, n) == Changed(r, r.buf, Wrapped(r, r.to + n), r.from)

(***************************************************************************)
(* What a ring stands for: the bytes from the reader's offset to the       *)
(* writer's.                                                               *)
(***************************************************************************)
Contents(r) == [i \in 1..rngNBytes(r) |-> r.buf[Wrapped(r, r.from + i - 1)]]
=============================================================================
