------------------------------ MODULE TtyProof ------------------------------
(***************************************************************************)
(* Lines stay whole, nobody waits at a terminal for what has happened      *)
(* already, the write buffer has one consumer and a stopped peer is        *)
(* released, for buffers, lines and thresholds of any size.                *)
(***************************************************************************)
EXTENDS Tty, FiniteSetTheorems, SequenceTheorems, NaturalsInduction,
        WellFoundedInduction, TLAPS

-----------------------------------------------------------------------------
(***************************************************************************)
(* Where the tasks are, and whose the mutex is.                            *)
(***************************************************************************)
ReaderCode ==
    [at : {"idle", "end", "xon", "leave"}] \cup
    [at : {"sync", "mutex", "get"}, n : Nat] \cup
    [at : {"got"}, bytes : Nat, left : Nat]

WriterCode ==
    [at : {"idle"}] \cup
    [at : {"sync", "mutex", "put", "start", "lock", "end", "give", "leave"},
     n : Nat, put : Nat]

ControllerCode ==
    [at : {"idle", "flush", "wxoff"}] \cup [at : {"options", "flow"}, clear : BOOLEAN]

\* No more is written than was asked for.
PutFits == code[writer].at # "idle" => code[writer].put <= code[writer].n

\* What the tasks keep while they are there.
CodeOK ==
    /\ code = [t \in Tasks |-> code[t]]
    /\ code[reader] \in ReaderCode
    /\ code[writer] \in WriterCode /\ PutFits
    /\ code[Controller] \in ControllerCode

Reading == {"get", "got", "end", "xon", "leave"}
Writing == {"put", "start", "lock", "end", "give", "leave"}

MutexOK ==
    /\ mutex = reader <=> code[reader].at \in Reading
    /\ mutex = writer <=> code[writer].at \in Writing
    /\ mutex \in {reader, writer, NULL}

\* The buffers have their sizes, and a line that is typed will fit.
Byte == {Char} \cup {Length(n) : n \in 0..MaxLine}

BufferOK ==
    /\ readBuffer \in Seq(Byte) /\ Len(readBuffer) <= ReadSize
    /\ lnNBytes \in 0..(MaxLine - 1) /\ lnBytesLeft \in Nat
    /\ Line /\ lnNBytes > 0 => lnNBytes < ReadFree
    /\ ~Line /\ ~At(Controller, "options") => lnNBytes = 0
    /\ At(reader, "get") => readBuffer # <<>>
    /\ At(reader, "got") => code[reader].bytes <= Len(readBuffer)
    /\ writeBuffer \in 0..WriteSize
    /\ At(writer, "put") => code[writer].put <= WriteFree
    /\ options \in AllOptions

FlagsOK ==
    /\ readSync \in BOOLEAN /\ writeSync \in BOOLEAN
    /\ readXoff \in BOOLEAN /\ writeXoff \in BOOLEAN
    /\ busy \in BOOLEAN
    /\ readCanceled \in BOOLEAN /\ writeCanceled \in BOOLEAN
    /\ eatenRead \in BOOLEAN /\ eatenWrite \in BOOLEAN

LEMMA Apart == reader # writer /\ reader # Controller /\ writer # Controller
                /\ reader # NULL /\ writer # NULL /\ {reader, writer, Controller} = Tasks
BY TtyAssumption DEF TtyAssumption, Tasks

LEMMA Goes == ASSUME CodeOK, NEW t \in Tasks, NEW c, Goto(t, c)
    PROVE /\ code' = [u \in Tasks |-> code'[u]]
          /\ code'[t] = c
          /\ \A u \in Tasks : u # t => code'[u] = code[u]
BY DEF CodeOK, Goto

LEMMA ReaderSteps == ASSUME code[reader] \in ReaderCode, NEW s,
                            code[reader].at \in {"sync", "mutex"}
    PROVE [code[reader] EXCEPT !.at = s] = [at |-> s, n |-> code[reader].n]
          /\ code[reader].n \in Nat
BY DEF ReaderCode

LEMMA WriterSteps == ASSUME code[writer] \in WriterCode, NEW s,
                            code[writer].at # "idle"
    PROVE /\ code[writer].n \in Nat /\ code[writer].put \in Nat
          /\ [code[writer] EXCEPT !.at = s]
                = [at |-> s, n |-> code[writer].n, put |-> code[writer].put]
BY DEF WriterCode

LEMMA ControllerSteps == ASSUME code[Controller] \in ControllerCode, NEW s,
                                code[Controller].at \in {"options", "flow"}
    PROVE /\ code[Controller].clear \in BOOLEAN
          /\ [code[Controller] EXCEPT !.at = s] = [at |-> s, clear |-> code[Controller].clear]
BY DEF ControllerCode

LEMMA Sizes ==
    /\ ReadSize \in Nat /\ WriteSize \in Nat /\ MaxLine \in Nat \ {0}
    /\ CharCode \in Nat /\ XoffTreshold \in Nat /\ XonTreshold \in Nat
    /\ XonTreshold + MaxLine < ReadSize /\ XoffTreshold <= XonTreshold
    /\ WriteTreshold \in 1..WriteSize
BY TtyAssumption DEF TtyAssumption

LEMMA LeastFacts == ASSUME NEW m \in Nat, NEW n \in Nat
    PROVE Least(m, n) \in Nat /\ Least(m, n) <= m /\ Least(m, n) <= n
BY DEF Least

LEMMA ValueFacts ==
    /\ \A b \in Byte : Value(b) \in Nat /\ (b # Char => Value(b) \in 0..MaxLine)
    /\ \A n \in 0..MaxLine : Length(n) \in Byte /\ Value(Length(n)) = n /\ Length(n) # Char
    /\ Char \in Byte
<1>1. \A n : Length(n) # Char /\ Value(Length(n)) = n
    BY DEF Length, Char, Value
<1>2. Value(Char) = CharCode
    BY DEF Value
<1> QED BY <1>1, <1>2, Sizes DEF Byte

\* The bytes that tyRead takes out are there.
LEMMA GetFacts == ASSUME CodeOK, BufferOK, ReadGet
    PROVE \E b \in 0..Len(readBuffer), left \in Nat :
              Goto(reader, [at |-> "got", bytes |-> b, left |-> left])
<1> DEFINE header == Line /\ lnBytesLeft = 0
           left == IF header THEN Value(Head(readBuffer)) ELSE lnBytesLeft
           n == IF Line THEN Least(left, code[reader].n) ELSE code[reader].n
           skip == IF header THEN 1 ELSE 0
           bytes == skip + Least(n, Len(readBuffer) - skip)
           rest == IF Line THEN left - n ELSE lnBytesLeft
<1>1. readBuffer # <<>> /\ readBuffer \in Seq(Byte) /\ code[reader].n \in Nat
    BY DEF BufferOK, CodeOK, ReaderCode, ReadGet, At
<1>2. Head(readBuffer) \in Byte /\ Len(readBuffer) \in Nat /\ Len(readBuffer) > 0
    BY <1>1, HeadTailProperties, EmptySeq
<1>3. left \in Nat
    BY <1>2, ValueFacts DEF BufferOK
<1>4. n \in Nat /\ (Line => n <= left)
    BY <1>1, <1>3, LeastFacts
<1>5. skip \in {0, 1} /\ Len(readBuffer) - skip \in Nat
    BY <1>2
<1>6. bytes \in 0..Len(readBuffer)
  <2>1. /\ Least(n, Len(readBuffer) - skip) \in Nat
        /\ Least(n, Len(readBuffer) - skip) <= Len(readBuffer) - skip
      BY <1>4, <1>5, LeastFacts
  <2> QED BY <1>2, <1>5, <2>1
<1>7. rest \in Nat
    BY <1>3, <1>4 DEF BufferOK
<1>8. Goto(reader, [at |-> "got", bytes |-> bytes, left |-> rest])
    BY DEF ReadGet
<1> QED BY <1>6, <1>7, <1>8

\* What vgaWriteString leaves alone, and what it does to the write buffer.
LEMMA TransmitterLeaves == ASSUME NEW t \in Tasks, vgaWriteString(t)
    PROVE /\ UNCHANGED <<readVars, readXoff, writeXoff, writeCanceled, options, mutex, code>>
          /\ UNCHANGED <<readBuffer, readSync, lnNBytes, lnBytesLeft, readCanceled,
                         eatenRead>>
          /\ \/ writeBuffer' = writeBuffer
             \/ writeBuffer # 0 /\ writeBuffer' = writeBuffer - 1
BY DEF vgaWriteString, TxCheck, TxStop, TxGet, TxClear, TxRoom, TxGive, readVars

\* The transmitter runs to its end, or not at all.
LEMMA TransmitsAll == ASSUME NEW asked, NEW n, Transmits(asked, n)
    PROVE \/ writeBuffer' = 0 /\ writeSync' = TRUE /\ eatenWrite' = FALSE
          \/ writeBuffer' = n /\ UNCHANGED <<writeSync, eatenWrite>>
BY DEF Transmits, GiveWrite

LEMMA CodeNext == ASSUME CodeOK, MutexOK, BufferOK, [Next]_vars
    PROVE CodeOK' /\ MutexOK'
<1> USE Apart
<1>r. ASSUME NEW c \in ReaderCode, Goto(reader, c),
             mutex' = reader <=> c.at \in Reading,
             mutex' = writer <=> mutex = writer, mutex' \in {reader, writer, NULL}
      PROVE  CodeOK' /\ MutexOK'
  <2>1. /\ code' = [u \in Tasks |-> code'[u]] /\ code'[reader] = c
        /\ code'[writer] = code[writer] /\ code'[Controller] = code[Controller]
      BY <1>r, Goes
  <2> QED BY <1>r, <2>1 DEF CodeOK, MutexOK, PutFits
<1>w. ASSUME NEW c \in WriterCode, Goto(writer, c),
             mutex' = writer <=> c.at \in Writing,
             c.at # "idle" => c.put <= c.n,
             mutex' = reader <=> mutex = reader, mutex' \in {reader, writer, NULL}
      PROVE  CodeOK' /\ MutexOK'
  <2>1. /\ code' = [u \in Tasks |-> code'[u]] /\ code'[writer] = c
        /\ code'[reader] = code[reader] /\ code'[Controller] = code[Controller]
      BY <1>w, Goes
  <2> QED BY <1>w, <2>1 DEF CodeOK, MutexOK, PutFits
<1>c. ASSUME NEW c \in ControllerCode, Goto(Controller, c), mutex' = mutex
      PROVE  CodeOK' /\ MutexOK'
  <2>1. /\ code' = [u \in Tasks |-> code'[u]] /\ code'[Controller] = c
        /\ code'[reader] = code[reader] /\ code'[writer] = code[writer]
      BY <1>c, Goes
  <2> QED BY <1>c, <2>1 DEF CodeOK, MutexOK, PutFits
<1>n. ASSUME code' = code, mutex' = mutex PROVE CodeOK' /\ MutexOK'
    BY <1>n DEF CodeOK, MutexOK, PutFits
<1>1. CASE tyRead
  <2>1. PICK n \in Nat : Goto(reader, [at |-> "sync", n |-> n])
      BY <1>1, TtyAssumption DEF tyRead, TtyAssumption
  <2>2. code[reader].at = "idle" /\ mutex' = mutex
      BY <1>1 DEF tyRead, At
  <2>3. [at |-> "sync", n |-> n] \in ReaderCode
      BY DEF ReaderCode
  <2> QED BY <1>r, <2>1, <2>2, <2>3 DEF MutexOK, Reading
<1>2. CASE ReadWoken
  <2>1. code[reader].at = "sync" /\ mutex' = mutex /\ Step(reader, "mutex")
      BY <1>2 DEF ReadWoken, At
  <2>2. /\ code[reader].n \in Nat
        /\ [code[reader] EXCEPT !.at = "mutex"] = [at |-> "mutex", n |-> code[reader].n]
      BY <2>1, ReaderSteps DEF CodeOK
  <2>3. [at |-> "mutex", n |-> code[reader].n] \in ReaderCode
      BY <2>2 DEF ReaderCode
  <2>4. Goto(reader, [at |-> "mutex", n |-> code[reader].n])
      BY <2>1, <2>2 DEF Step
  <2> QED BY <1>r, <2>1, <2>3, <2>4 DEF MutexOK, Reading
<1>3. CASE ReadLocked
  <2>1. code[reader].at = "mutex" /\ mutex = NULL
      BY <1>3 DEF ReadLocked, At
  <2>2. \A s : /\ code[reader].n \in Nat
               /\ [code[reader] EXCEPT !.at = s] = [at |-> s, n |-> code[reader].n]
      BY <2>1, ReaderSteps DEF CodeOK
  <2>3. CASE readCanceled
    <3>1. Goto(reader, [at |-> "idle"]) /\ mutex' = mutex
        BY <1>3, <2>3 DEF ReadLocked
    <3>2. [at |-> "idle"] \in ReaderCode
        BY DEF ReaderCode
    <3> QED BY <1>r, <2>1, <3>1, <3>2 DEF Reading
  <2>4. CASE ~readCanceled /\ readBuffer = <<>>
    <3>1. Goto(reader, [at |-> "sync", n |-> code[reader].n]) /\ mutex' = mutex
        BY <1>3, <2>2, <2>4 DEF ReadLocked, Step
    <3>2. [at |-> "sync", n |-> code[reader].n] \in ReaderCode
        BY <2>2 DEF ReaderCode
    <3> QED BY <1>r, <2>1, <3>1, <3>2 DEF Reading
  <2>5. CASE ~readCanceled /\ readBuffer # <<>>
    <3>1. Goto(reader, [at |-> "get", n |-> code[reader].n]) /\ mutex' = reader
        BY <1>3, <2>2, <2>5 DEF ReadLocked, Step
    <3>2. [at |-> "get", n |-> code[reader].n] \in ReaderCode
        BY <2>2 DEF ReaderCode
    <3> QED BY <1>r, <2>1, <3>1, <3>2 DEF Reading
  <2> QED BY <2>3, <2>4, <2>5
<1>4. CASE ReadGet
  <2>1. PICK b \in Nat, l \in Nat : Goto(reader, [at |-> "got", bytes |-> b, left |-> l])
    <3>1. Len(readBuffer) \in Nat
        BY LenProperties DEF BufferOK
    <3> QED BY <1>4, <3>1, GetFacts
  <2>2. code[reader].at = "get" /\ mutex' = mutex
      BY <1>4 DEF ReadGet, At
  <2>3. [at |-> "got", bytes |-> b, left |-> l] \in ReaderCode
      BY DEF ReaderCode
  <2> QED BY <1>r, <2>1, <2>2, <2>3 DEF MutexOK, Reading
<1>5. CASE ReadGot \/ ReadXon \/ ReadReleases
  <2>1. PICK s \in {"end", "xon", "leave"} : Goto(reader, [at |-> s])
      BY <1>5 DEF ReadGot, ReadXon, ReadReleases
  <2>2. code[reader].at \in {"got", "end", "xon"} /\ mutex' = mutex
      BY <1>5 DEF ReadGot, ReadXon, ReadReleases, At
  <2>3. [at |-> s] \in ReaderCode
      BY DEF ReaderCode
  <2> QED BY <1>r, <2>1, <2>2, <2>3 DEF MutexOK, Reading
<1>6. CASE ReadEnd
  <2>1. /\ Goto(reader, [at |-> "idle"]) /\ mutex' = NULL
        /\ code[reader].at = "leave"
      BY <1>6 DEF ReadEnd, At
  <2>2. [at |-> "idle"] \in ReaderCode
      BY DEF ReaderCode
  <2> QED BY <1>r, <2>1, <2>2 DEF MutexOK, Reading
<1>7. CASE tyWrite
  <2>1. PICK n \in Nat : Goto(writer, [at |-> "sync", n |-> n, put |-> 0])
      BY <1>7, TtyAssumption DEF tyWrite, TtyAssumption
  <2>2. code[writer].at = "idle" /\ mutex' = mutex
      BY <1>7 DEF tyWrite, At
  <2>3. [at |-> "sync", n |-> n, put |-> 0] \in WriterCode
      BY DEF WriterCode
  <2> QED BY <1>w, <2>1, <2>2, <2>3 DEF MutexOK, Writing
<1>8. CASE WriteWoken \/ WritePut \/ WriteStart \/ WriteLock \/ WriteLooks
  <2>1. \E s \in {"mutex", "start", "lock", "end", "give", "leave"} :
            Step(writer, s) /\ (s \in Writing <=> code[writer].at \in Writing)
      BY <1>8 DEF WriteWoken, WritePut, WriteStart, WriteLock, WriteLooks, At, Writing
  <2>2. PICK s \in {"mutex", "start", "lock", "end", "give", "leave"} :
            Step(writer, s) /\ (s \in Writing <=> code[writer].at \in Writing)
      BY <2>1
  <2>3. code[writer].at # "idle" /\ mutex' = mutex
      BY <1>8 DEF WriteWoken, WritePut, WriteStart, WriteLock, WriteLooks, At
  <2>4. /\ code[writer].n \in Nat /\ code[writer].put \in Nat
        /\ [code[writer] EXCEPT !.at = s]
              = [at |-> s, n |-> code[writer].n, put |-> code[writer].put]
      BY <2>3, WriterSteps DEF CodeOK
  <2>5. [at |-> s, n |-> code[writer].n, put |-> code[writer].put] \in WriterCode
      BY <2>4 DEF WriterCode
  <2>6. Goto(writer, [at |-> s, n |-> code[writer].n, put |-> code[writer].put])
      BY <2>2, <2>4 DEF Step
  <2> QED BY <1>w, <2>2, <2>3, <2>5, <2>6 DEF MutexOK, CodeOK, PutFits
<1>9. CASE WriteLocked
  <2>1. code[writer].at = "mutex" /\ mutex = NULL
      BY <1>9 DEF WriteLocked, At
  <2>2. code[writer].n \in Nat
      BY <2>1 DEF CodeOK, WriterCode
  <2>3. CASE writeCanceled
    <3>1. Goto(writer, [at |-> "idle"]) /\ mutex' = mutex
        BY <1>9, <2>3 DEF WriteLocked
    <3>2. [at |-> "idle"] \in WriterCode
        BY DEF WriterCode
    <3> QED BY <1>w, <2>1, <3>1, <3>2 DEF Writing
  <2>4. CASE ~writeCanceled
    <3> DEFINE put == Least(code[writer].n, WriteFree)
    <3>1. Goto(writer, [at |-> "put", n |-> code[writer].n, put |-> put]) /\ mutex' = writer
        BY <1>9, <2>4 DEF WriteLocked
    <3>2. WriteFree \in Nat
        BY Sizes DEF BufferOK, WriteFree
    <3>3. [at |-> "put", n |-> code[writer].n, put |-> put] \in WriterCode
        BY <2>2, <3>2, LeastFacts DEF WriterCode
    <3>4. put <= code[writer].n
        BY <2>2, <3>2, LeastFacts
    <3> QED BY <1>w, <2>1, <3>1, <3>3, <3>4 DEF Writing
  <2> QED BY <2>3, <2>4
<1>10. CASE WriteEnd
  <2> DEFINE left == code[writer].n - code[writer].put
             c == IF left = 0 THEN [at |-> "idle"] ELSE [at |-> "sync", n |-> left, put |-> 0]
  <2>1. /\ code[writer].at \in {"give", "leave"} /\ mutex' = NULL /\ Goto(writer, c)
      BY <1>10 DEF WriteEnd, WriteLeaves, At
  <2>2. left \in Nat
    <3>1. code[writer].n \in Nat /\ code[writer].put \in Nat
        BY <2>1, WriterSteps DEF CodeOK
    <3> QED BY <2>1, <3>1 DEF CodeOK, PutFits
  <2>3. c \in WriterCode /\ c.at \notin Writing /\ (c.at # "idle" => c.put <= c.n)
      BY <2>2 DEF WriterCode, Writing
  <2> QED BY <1>w, <2>1, <2>3 DEF MutexOK, Writing
<1>11. CASE Flush \/ FlushEnd \/ OptionsFlow \/ OptionsXoff
  <2>1. PICK s \in {"idle", "flush", "wxoff"} : Goto(Controller, [at |-> s])
      BY <1>11 DEF Flush, FlushEnd, OptionsFlow, OptionsXoff
  <2>2. mutex' = mutex
      BY <1>11 DEF Flush, FlushEnd, OptionsFlow, OptionsXoff, tyFlushRead, tyFlushWrite
  <2>3. [at |-> s] \in ControllerCode
      BY DEF ControllerCode
  <2> QED BY <1>c, <2>1, <2>2, <2>3
<1>12. CASE \E o \in AllOptions : SetOptions(o)
  <2>1. PICK o \in AllOptions : SetOptions(o)
      BY <1>12
  <2> DEFINE s == IF ("LINE" \in o) # Line THEN "options" ELSE "flow"
             clear == "TANDEM" \in options \ o
  <2>2. Goto(Controller, [at |-> s, clear |-> clear]) /\ mutex' = mutex
      BY <2>1 DEF SetOptions
  <2>3. [at |-> s, clear |-> clear] \in ControllerCode
    <3>1. s \in {"options", "flow"} /\ clear \in BOOLEAN
        OBVIOUS
    <3> QED BY <3>1 DEF ControllerCode
  <2> QED BY <1>c, <2>2, <2>3
<1>13. CASE OptionsFlush
  <2>1. code[Controller].at = "options" /\ mutex' = mutex /\ Step(Controller, "flow")
      BY <1>13 DEF OptionsFlush, At, tyFlushRead
  <2>2. /\ code[Controller].clear \in BOOLEAN
        /\ [code[Controller] EXCEPT !.at = "flow"]
              = [at |-> "flow", clear |-> code[Controller].clear]
      BY <2>1, ControllerSteps DEF CodeOK
  <2>3. [at |-> "flow", clear |-> code[Controller].clear] \in ControllerCode
      BY <2>2 DEF ControllerCode
  <2>4. Goto(Controller, [at |-> "flow", clear |-> code[Controller].clear])
      BY <2>1, <2>2 DEF Step
  <2> QED BY <1>c, <2>1, <2>3, <2>4
<1>14. CASE (\E t \in Tasks : vgaWriteString(t)) \/ (\E ch \in Chars : tyIntRd(ch)) \/ Cancel
    BY <1>14, <1>n, TransmitterLeaves DEF tyIntRd, Received, Cancel
<1>15. CASE UNCHANGED vars
    BY <1>15, <1>n DEF vars
<1> QED BY <1>1, <1>2, <1>3, <1>4, <1>5, <1>6, <1>7, <1>8, <1>9, <1>10, <1>11,
           <1>12, <1>13, <1>14, <1>15 DEF Next

-----------------------------------------------------------------------------
(***************************************************************************)
(* The buffers.                                                            *)
(***************************************************************************)
\* What handlers may do to the read buffer and the line.
LEMMA TypedFacts == ASSUME BufferOK, NEW ln \in 0..MaxLine, ln + 1 <= ReadFree
    PROVE /\ Typed(ln) \in Seq(Byte)
          /\ Len(Typed(ln)) = Len(readBuffer) + 1 + ln
<1> DEFINE chars == [i \in 1..ln |-> Char]
<1>1. chars \in Seq(Byte) /\ Len(chars) = ln
  <2>1. chars \in [1..ln -> Byte]
      BY ValueFacts
  <2> QED BY <2>1
<1>2. <<Length(ln)>> \in Seq(Byte) /\ Len(<<Length(ln)>>) = 1
    BY ValueFacts
<1>3. /\ readBuffer \o <<Length(ln)>> \in Seq(Byte)
      /\ Len(readBuffer \o <<Length(ln)>>) = Len(readBuffer) + 1
    BY <1>2, ConcatProperties DEF BufferOK
<1> QED BY <1>1, <1>3, ConcatProperties DEF Typed

LEMMA LineFacts == ASSUME BufferOK, Line, NEW c
    PROVE /\ TypedLen(c) \in 0..MaxLine
          /\ LineEnds(c) => TypedLen(c) + 1 <= ReadFree
          /\ ~LineEnds(c) => /\ TypedLen(c) < MaxLine
                             /\ TypedLen(c) > 0 => TypedLen(c) < ReadFree
<1>1. /\ lnNBytes \in 0..(MaxLine - 1) /\ ReadFree \in Nat
      /\ lnNBytes > 0 => lnNBytes < ReadFree
    BY Sizes, LenProperties DEF BufferOK, ReadFree
<1>2. CASE c = "backspace" \/ c = "delete"
    BY <1>1, <1>2, Sizes DEF TypedLen, LineEnds
<1>3. CASE c = "eof"
    BY <1>1, <1>3, Sizes DEF TypedLen, LineEnds
<1>4. CASE c \notin {"backspace", "delete", "eof"}
  <2>1. CASE ReadFree >= lnNBytes + 2
      BY <1>1, <1>4, <2>1, Sizes DEF TypedLen, LineEnds
  <2>2. CASE ~(ReadFree >= lnNBytes + 2)
    <3>1. TypedLen(c) = lnNBytes
        BY <1>4, <2>2 DEF TypedLen
    <3>2. TypedLen(c) # MaxLine
        BY <1>1, <3>1, Sizes
    <3>3. LineEnds(c) => ReadFree >= 2
        BY <1>4 DEF LineEnds
    <3> QED BY <1>1, <3>1, <3>2, <3>3, Sizes
  <2> QED BY <2>1, <2>2
<1> QED BY <1>2, <1>3, <1>4

\* The part of BufferOK that is about reading.
LEMMA ReadBufferNext == ASSUME BufferOK, NEW c, IF Line THEN PutLine(c) ELSE PutRaw
    PROVE /\ readBuffer' \in Seq(Byte) /\ Len(readBuffer') <= ReadSize
          /\ Len(readBuffer') >= Len(readBuffer)
          /\ lnNBytes' \in 0..(MaxLine - 1)
          /\ Line /\ lnNBytes' > 0 => lnNBytes' < ReadSize - Len(readBuffer')
          /\ ~Line => lnNBytes' = lnNBytes
<1>1. /\ readBuffer \in Seq(Byte) /\ Len(readBuffer) \in 0..ReadSize
      /\ ReadFree = ReadSize - Len(readBuffer) /\ lnNBytes \in 0..(MaxLine - 1)
    BY LenProperties, Sizes DEF BufferOK, ReadFree
<1>2. CASE Line /\ LineEnds(c)
  <2>1. readBuffer' = Typed(TypedLen(c)) /\ lnNBytes' = 0
      BY <1>2 DEF PutLine
  <2>2. TypedLen(c) \in 0..MaxLine /\ TypedLen(c) + 1 <= ReadFree
      BY <1>2, LineFacts
  <2>3. /\ readBuffer' \in Seq(Byte)
        /\ Len(readBuffer') = Len(readBuffer) + 1 + TypedLen(c)
      BY <2>1, <2>2, TypedFacts
  <2> QED BY <1>1, <1>2, <2>1, <2>2, <2>3, Sizes
<1>3. CASE Line /\ ~LineEnds(c)
  <2>1. readBuffer' = readBuffer /\ lnNBytes' = TypedLen(c)
      BY <1>3 DEF PutLine
  <2>2. /\ TypedLen(c) \in 0..MaxLine /\ TypedLen(c) < MaxLine
        /\ TypedLen(c) > 0 => TypedLen(c) < ReadFree
      BY <1>3, LineFacts
  <2> QED BY <1>1, <1>3, <2>1, <2>2, Sizes
<1>4. CASE ~Line
  <2>1. lnNBytes' = lnNBytes
      BY <1>4 DEF PutRaw
  <2>2. CASE ReadFree > 0
    <3>1. readBuffer' = Append(readBuffer, Char)
        BY <1>4, <2>2 DEF PutRaw
    <3>2. readBuffer' \in Seq(Byte) /\ Len(readBuffer') = Len(readBuffer) + 1
        BY <1>1, <3>1, AppendProperties, ValueFacts
    <3> QED BY <1>1, <1>4, <2>1, <2>2, <3>2, Sizes
  <2>3. CASE ~(ReadFree > 0)
    <3>1. readBuffer' = readBuffer
        BY <1>4, <2>3 DEF PutRaw
    <3> QED BY <1>1, <1>4, <2>1, <3>1
  <2> QED BY <2>2, <2>3
<1> QED BY <1>2, <1>3, <1>4

\* Who is where after a step of a task.
LEMMA Stays == ASSUME CodeOK, NEW t \in Tasks, NEW c, Goto(t, c)
    PROVE /\ \A s : At(t, s)' <=> c.at = s
          /\ t # reader => code'[reader] = code[reader]
          /\ t # writer => code'[writer] = code[writer]
          /\ t # Controller => code'[Controller] = code[Controller]
BY Goes, Apart DEF At

LEMMA BufferNext == ASSUME CodeOK, MutexOK, BufferOK, [Next]_vars
    PROVE BufferOK'
<1> USE Apart
<1>f. /\ readBuffer \in Seq(Byte) /\ Len(readBuffer) \in 0..ReadSize
      /\ ReadFree = ReadSize - Len(readBuffer) /\ WriteFree = WriteSize - writeBuffer
      /\ WriteFree \in Nat /\ writeBuffer \in 0..WriteSize
    BY LenProperties, Sizes DEF BufferOK, ReadFree, WriteFree
<1>1. CASE tyRead \/ ReadWoken \/ ReadXon \/ ReadReleases \/ ReadEnd
  <2>1. PICK c : /\ Goto(reader, c)
                 /\ c.at \in {"sync", "mutex", "xon", "leave", "idle"}
    <3>1. CASE tyRead
        BY <3>1 DEF tyRead
    <3>2. CASE ReadWoken
      <4>1. /\ Goto(reader, [code[reader] EXCEPT !.at = "mutex"])
            /\ code[reader].at = "sync"
          BY <3>2 DEF ReadWoken, Step, At
      <4>2. [code[reader] EXCEPT !.at = "mutex"] = [at |-> "mutex", n |-> code[reader].n]
          BY <4>1, ReaderSteps DEF CodeOK
      <4> QED BY <4>1, <4>2
    <3>3. CASE ReadXon \/ ReadReleases \/ ReadEnd
      <4>1. \E s \in {"xon", "leave", "idle"} : Goto(reader, [at |-> s])
          BY <3>3 DEF ReadXon, ReadReleases, ReadEnd
      <4>2. PICK s \in {"xon", "leave", "idle"} : Goto(reader, [at |-> s])
          BY <4>1
      <4> QED BY <4>2
    <3> QED BY <1>1, <3>1, <3>2, <3>3
  <2>2. UNCHANGED <<readBuffer, lnNBytes, lnBytesLeft, writeBuffer, options>>
      BY <1>1 DEF tyRead, ReadWoken, ReadXon, ReadReleases, ReadEnd, readVars, writeVars
  <2> QED BY <2>1, <2>2, Stays DEF BufferOK, Line, ReadFree, WriteFree, At
<1>2. CASE ReadLocked
  <2> DEFINE Fits(c) == c.at # "got" /\ (c.at = "get" => readBuffer # <<>>)
  <2>1. PICK c : Goto(reader, c) /\ Fits(c)
    <3>0. Fits([at |-> "idle"])
      <4>1. [at |-> "idle"].at = "idle"
          OBVIOUS
      <4> QED BY <4>1
    <3>a. ASSUME NEW n PROVE Fits([at |-> "sync", n |-> n])
      <4>1. [at |-> "sync", n |-> n].at = "sync"
          OBVIOUS
      <4> QED BY <4>1
    <3>b. ASSUME NEW n, readBuffer # <<>> PROVE Fits([at |-> "get", n |-> n])
      <4>1. [at |-> "get", n |-> n].at = "get"
          OBVIOUS
      <4> QED BY <3>b, <4>1
    <3> HIDE DEF Fits
    <3>1. \A s : [code[reader] EXCEPT !.at = s] = [at |-> s, n |-> code[reader].n]
        BY <1>2, ReaderSteps DEF CodeOK, ReadLocked, At
    <3>2. \A s : Step(reader, s) => Goto(reader, [at |-> s, n |-> code[reader].n])
        BY <3>1 DEF Step
    <3>3. CASE readCanceled
      <4>1. Goto(reader, [at |-> "idle"])
          BY <1>2, <3>3 DEF ReadLocked
      <4> QED BY <3>0, <4>1
    <3>4. CASE ~readCanceled /\ readBuffer = <<>>
      <4>1. Goto(reader, [at |-> "sync", n |-> code[reader].n])
          BY <1>2, <3>2, <3>4 DEF ReadLocked
      <4> QED BY <3>a, <4>1
    <3>5. CASE ~readCanceled /\ readBuffer # <<>>
      <4>1. Goto(reader, [at |-> "get", n |-> code[reader].n])
          BY <1>2, <3>2, <3>5 DEF ReadLocked
      <4> QED BY <3>b, <3>5, <4>1
    <3> QED BY <3>3, <3>4, <3>5
  <2>2. UNCHANGED <<readBuffer, lnNBytes, lnBytesLeft, writeBuffer, options>>
      BY <1>2 DEF ReadLocked, writeVars
  <2> QED BY <2>1, <2>2, Stays DEF BufferOK, Line, ReadFree, WriteFree, At
<1>3. CASE ReadGet
  <2>1. PICK b \in 0..Len(readBuffer), l \in Nat :
            Goto(reader, [at |-> "got", bytes |-> b, left |-> l])
      BY <1>3, GetFacts
  <2>2. UNCHANGED <<readBuffer, lnNBytes, lnBytesLeft, writeBuffer, options>>
      BY <1>3 DEF ReadGet, readVars, writeVars
  <2>3. code'[reader] = [at |-> "got", bytes |-> b, left |-> l]
      BY <2>1, Goes
  <2>4. At(reader, "got")' => code'[reader].bytes <= Len(readBuffer)'
      BY <1>f, <2>1, <2>2, <2>3
  <2>5. ~At(reader, "get")'
      BY <2>3 DEF At
  <2> QED BY <2>1, <2>2, <2>4, <2>5, Stays DEF BufferOK, Line, ReadFree, WriteFree, At
<1>4. CASE ReadGot
  <2>1. /\ code[reader].at = "got" /\ Goto(reader, [at |-> "end"])
        /\ readBuffer' = SubSeq(readBuffer, code[reader].bytes + 1, Len(readBuffer))
        /\ lnBytesLeft' = code[reader].left
        /\ UNCHANGED <<lnNBytes, writeBuffer, options>>
      BY <1>4 DEF ReadGot, At, writeVars
  <2>2. /\ code[reader].bytes \in 0..Len(readBuffer) /\ code[reader].left \in Nat
    <3>1. code[reader] \in [at : {"got"}, bytes : Nat, left : Nat]
        BY <2>1 DEF CodeOK, ReaderCode
    <3> QED BY <2>1, <3>1, <1>f DEF BufferOK, At
  <2>3. /\ readBuffer' \in Seq(Byte)
        /\ Len(readBuffer') = Len(readBuffer) - code[reader].bytes
    <3> DEFINE b == code[reader].bytes
    <3>1. \A i \in (b + 1) .. Len(readBuffer) : readBuffer[i] \in Byte
        BY <1>f, <2>2, ElementOfSeq
    <3>2. b + 1 \in Int /\ Len(readBuffer) \in Int
        BY <1>f, <2>2
    <3>3. /\ SubSeq(readBuffer, b + 1, Len(readBuffer)) \in Seq(Byte)
          /\ Len(SubSeq(readBuffer, b + 1, Len(readBuffer)))
                = IF b + 1 <= Len(readBuffer) THEN Len(readBuffer) - (b + 1) + 1 ELSE 0
        BY <3>1, <3>2, SubSeqProperties
    <3> QED BY <1>f, <2>1, <2>2, <3>3
  <2>4. Len(readBuffer') \in 0..Len(readBuffer)
      BY <1>f, <2>2, <2>3
  <2>5. /\ Len(readBuffer') <= ReadSize
        /\ Line /\ lnNBytes > 0 => lnNBytes < ReadSize - Len(readBuffer')
      BY <1>f, <2>4, Sizes DEF BufferOK
  <2>6. /\ code'[writer] = code[writer] /\ code'[Controller] = code[Controller]
        /\ ~At(reader, "get")' /\ ~At(reader, "got")'
    <3>1. Goto(reader, [at |-> "end"])
        BY <2>1
    <3>2. [at |-> "end"].at = "end"
        OBVIOUS
    <3> QED BY <3>1, <3>2, Stays
  <2>7. lnBytesLeft' \in Nat
      BY <2>1, <2>2
  <2> QED BY <2>1, <2>3, <2>5, <2>6, <2>7 DEF BufferOK, Line, ReadFree, WriteFree, At
<1>5. CASE tyWrite \/ WriteWoken \/ WritePut \/ WriteStart \/ WriteLock \/ WriteLooks
              \/ WriteEnd
  <2>1. PICK c : Goto(writer, c) /\ c.at # "put"
    <3>1. CASE tyWrite
        BY <3>1 DEF tyWrite
    <3>2. CASE WriteEnd
        BY <3>2 DEF WriteEnd, WriteLeaves
    <3>3. CASE WriteWoken \/ WritePut \/ WriteStart \/ WriteLock \/ WriteLooks
      <4>1. /\ code[writer].at # "idle"
            /\ \E s \in {"mutex", "start", "lock", "end", "give", "leave"} : Step(writer, s)
          BY <3>3 DEF WriteWoken, WritePut, WriteStart, WriteLock, WriteLooks, At
      <4>2. PICK s \in {"mutex", "start", "lock", "end", "give", "leave"} : Step(writer, s)
          BY <4>1
      <4>3. [code[writer] EXCEPT !.at = s]
              = [at |-> s, n |-> code[writer].n, put |-> code[writer].put]
          BY <4>1, WriterSteps DEF CodeOK
      <4> QED BY <4>2, <4>3 DEF Step
    <3> QED BY <1>5, <3>1, <3>2, <3>3
  <2>2. UNCHANGED <<readBuffer, lnNBytes, lnBytesLeft, options>>
      BY <1>5 DEF tyWrite, WriteWoken, WritePut, WriteStart, WriteLock, WriteLooks,
                  WriteEnd, WriteLeaves, readVars
  <2>3. writeBuffer' \in 0..WriteSize
    <3>1. CASE WritePut
      <4>1. /\ code[writer].at = "put" /\ writeBuffer' = writeBuffer + code[writer].put
          BY <3>1 DEF WritePut, At
      <4>2. code[writer].put \in Nat
          BY <4>1, WriterSteps DEF CodeOK
      <4>3. code[writer].put <= WriteFree
          BY <4>1 DEF BufferOK, At
      <4> QED BY <1>f, <4>1, <4>2, <4>3, Sizes
    <3>2. CASE ~WritePut
      <4>1. writeBuffer' = writeBuffer
          BY <1>5, <3>2 DEF tyWrite, WriteWoken, WriteStart, WriteLock, WriteLooks,
                            WriteEnd, WriteLeaves, writeVars
      <4> QED BY <1>f, <4>1
    <3> QED BY <3>1, <3>2
  <2> QED BY <2>1, <2>2, <2>3, Stays DEF BufferOK, Line, ReadFree, WriteFree, At
<1>6. CASE WriteLocked
  <2>1. UNCHANGED <<readBuffer, lnNBytes, lnBytesLeft, writeBuffer, options>>
      BY <1>6 DEF WriteLocked, readVars
  <2>2. code[writer].n \in Nat
      BY <1>6 DEF CodeOK, WriterCode, WriteLocked, At
  <2>3. PICK c : Goto(writer, c) /\ (c.at = "put" => c.put <= WriteFree)
    <3>1. Least(code[writer].n, WriteFree) <= WriteFree
        BY <1>f, <2>2, LeastFacts
    <3> QED BY <1>6, <3>1 DEF WriteLocked
  <2>4. code'[writer] = c
      BY <2>3, Goes
  <2> QED BY <2>1, <2>3, <2>4, Stays DEF BufferOK, Line, ReadFree, WriteFree, At
<1>7. CASE \E t \in Tasks : vgaWriteString(t)
  <2>1. UNCHANGED <<readBuffer, lnNBytes, lnBytesLeft, options, code>>
      BY <1>7, TransmitterLeaves
  <2>2. writeBuffer' = writeBuffer \/ (writeBuffer # 0 /\ writeBuffer' = writeBuffer - 1)
      BY <1>7, TransmitterLeaves
  <2>3. writeBuffer' \in 0..WriteSize /\ writeBuffer' <= writeBuffer
      BY <1>f, <2>2, Sizes
  <2>4. At(writer, "put") => code[writer].put <= WriteSize - writeBuffer'
    <3>1. At(writer, "put") => code[writer].put \in Nat /\ code[writer].put <= WriteFree
        BY WriterSteps DEF CodeOK, BufferOK, At
    <3> QED BY <1>f, <2>3, <3>1, Sizes
  <2> QED BY <2>1, <2>3, <2>4 DEF BufferOK, Line, ReadFree, WriteFree, At
<1>8. CASE \E ch \in Chars : tyIntRd(ch)
  <2>1. PICK ch \in Chars : tyIntRd(ch)
      BY <1>8
  <2>2. CASE ch = "xoff" /\ "TANDEM" \in options
    <3>1. UNCHANGED <<readBuffer, lnNBytes, lnBytesLeft, writeBuffer, options, code>>
        BY <2>1, <2>2 DEF tyIntRd, readVars
    <3> QED BY <3>1 DEF BufferOK, Line, ReadFree, WriteFree, At
  <2>3. CASE ~(ch = "xoff" /\ "TANDEM" \in options)
    <3>1. Received(ch)
        BY <2>1, <2>3 DEF tyIntRd
    <3>2. IF Line THEN PutLine(ch) ELSE PutRaw
        BY <3>1 DEF Received
    <3>3. UNCHANGED <<lnBytesLeft, options, code>>
        BY <3>1 DEF Received
    <3>4. /\ readBuffer' \in Seq(Byte) /\ Len(readBuffer') <= ReadSize
          /\ Len(readBuffer') >= Len(readBuffer)
          /\ lnNBytes' \in 0..(MaxLine - 1)
          /\ Line /\ lnNBytes' > 0 => lnNBytes' < ReadSize - Len(readBuffer')
          /\ ~Line => lnNBytes' = lnNBytes
        BY <3>2, ReadBufferNext
    <3>5. At(reader, "got") => code[reader].bytes <= Len(readBuffer')
      <4>1. At(reader, "got") => code[reader].bytes \in Nat
          BY DEF At, CodeOK, ReaderCode
      <4>2. Len(readBuffer') \in Nat
          BY <3>4, LenProperties
      <4> QED BY <1>f, <3>4, <4>1, <4>2 DEF BufferOK
    <3>6. At(reader, "get") => readBuffer' # <<>>
      <4>1. At(reader, "get") => Len(readBuffer) > 0
          BY <1>f, EmptySeq DEF BufferOK
      <4>2. Len(readBuffer') \in Nat
          BY <3>4, LenProperties
      <4> QED BY <1>f, <3>4, <4>1, <4>2, EmptySeq
    <3>7. /\ writeBuffer' \in 0..WriteSize
          /\ At(writer, "put") => writeBuffer' \in {0, writeBuffer}
      <4>1. EchoLen(ch) \in Nat
          BY DEF EchoLen
      <4>2. Least(WriteSize, writeBuffer + EchoLen(ch)) \in 0..WriteSize
        <5>1. writeBuffer + EchoLen(ch) \in Nat
            BY <1>f, <4>1
        <5>2. /\ Least(WriteSize, writeBuffer + EchoLen(ch)) \in Nat
              /\ Least(WriteSize, writeBuffer + EchoLen(ch)) <= WriteSize
            BY <5>1, LeastFacts, Sizes
        <5> QED BY <5>2, Sizes
      <4> DEFINE n == IF Echoes(ch) THEN Least(WriteSize, writeBuffer + EchoLen(ch))
                                    ELSE writeBuffer
      <4>3. writeBuffer' \in {0, n}
        <5>1. \E asked : Transmits(asked, n)
            BY <3>1 DEF Received
        <5>2. PICK asked : Transmits(asked, n)
            BY <5>1
        <5> QED BY <5>2 DEF Transmits
      <4>4. At(writer, "put") => ~Echoes(ch)
          BY DEF Echoes
      <4> QED BY <1>f, <4>2, <4>3, <4>4, Sizes
    <3>8. At(writer, "put") => code[writer].put <= WriteSize - writeBuffer'
      <4>1. At(writer, "put") => code[writer].put \in Nat /\ code[writer].put <= WriteFree
          BY WriterSteps DEF CodeOK, BufferOK, At
      <4>2. CASE At(writer, "put") /\ writeBuffer' = 0
          BY <1>f, <4>1, <4>2, Sizes
      <4>3. CASE At(writer, "put") /\ writeBuffer' = writeBuffer
          BY <1>f, <4>1, <4>3
      <4> QED BY <3>7, <4>2, <4>3
    <3> QED BY <3>3, <3>4, <3>5, <3>6, <3>7, <3>8 DEF BufferOK, Line, ReadFree, WriteFree, At
  <2> QED BY <2>2, <2>3
<1>9. CASE Cancel
  <2>1. UNCHANGED <<readBuffer, lnNBytes, lnBytesLeft, writeBuffer, options, code>>
      BY <1>9 DEF Cancel
  <2> QED BY <2>1 DEF BufferOK, Line, ReadFree, WriteFree, At
<1>10. CASE Flush \/ OptionsFlush
  <2>1. /\ readBuffer' = <<>> /\ lnNBytes' = 0 /\ lnBytesLeft' = 0
        /\ writeBuffer' \in {0, writeBuffer} /\ options' = options /\ mutex = NULL
      BY <1>10, TransmitsAll DEF Flush, OptionsFlush, tyFlushRead
  <2>2. \E c : Goto(Controller, c)
      BY <1>10 DEF Flush, OptionsFlush, Step
  <2>3. PICK c : Goto(Controller, c)
      BY <2>2
  <2>4. /\ code'[reader] = code[reader] /\ code'[writer] = code[writer]
        /\ ~At(reader, "get") /\ ~At(reader, "got") /\ ~At(writer, "put")
      BY <2>1, <2>3, Stays DEF MutexOK, Reading, Writing, At
  <2>5. readBuffer' \in Seq(Byte) /\ Len(readBuffer') = 0
      BY <2>1, EmptySeq
  <2> QED BY <2>1, <2>4, <2>5, Sizes DEF BufferOK, Line, ReadFree, WriteFree, At
<1>11. CASE FlushEnd
  <2>1. /\ UNCHANGED <<readBuffer, lnNBytes, lnBytesLeft, options>>
        /\ writeBuffer' = 0 /\ mutex = NULL
        /\ Goto(Controller, [at |-> "idle"])
        /\ ~At(Controller, "options")
      BY <1>11 DEF FlushEnd, Idle, tyFlushWrite, readVars, At
  <2>2. /\ code'[reader] = code[reader] /\ code'[writer] = code[writer]
        /\ ~At(writer, "put")
      BY <2>1, Stays DEF MutexOK, Writing, At
  <2> QED BY <2>1, <2>2, Sizes DEF BufferOK, Line, ReadFree, WriteFree, At
<1>12. CASE \E o \in AllOptions : SetOptions(o)
  <2>1. PICK o \in AllOptions : SetOptions(o)
      BY <1>12
  <2>2. /\ UNCHANGED <<readBuffer, lnNBytes, lnBytesLeft, writeBuffer>>
        /\ options' = o /\ ~At(Controller, "options")
        /\ \E c : Goto(Controller, c) /\ (c.at = "options" <=> ("LINE" \in o) # Line)
      BY <2>1 DEF SetOptions, Idle, readVars, writeVars, At
  <2>3. /\ code'[reader] = code[reader] /\ code'[writer] = code[writer]
        /\ At(Controller, "options")' <=> ("LINE" \in o) # Line
      BY <2>2, Stays
  <2>4. Line' <=> "LINE" \in o
      BY <2>2 DEF Line
  <2>5. /\ Line' /\ lnNBytes > 0 => lnNBytes < ReadSize - Len(readBuffer)
        /\ ~Line' /\ ~At(Controller, "options")' => lnNBytes = 0
    <3>1. CASE Line
        BY <1>f, <2>3, <2>4, <3>1 DEF BufferOK
    <3>2. CASE ~Line
      <4>1. lnNBytes = 0
          BY <2>2, <3>2 DEF BufferOK
      <4> QED BY <4>1
    <3> QED BY <3>1, <3>2
  <2> QED BY <2>2, <2>3, <2>5 DEF BufferOK, ReadFree, WriteFree, At
<1>13. CASE OptionsFlow \/ OptionsXoff
  <2>1. /\ UNCHANGED <<readBuffer, lnNBytes, lnBytesLeft, writeBuffer, options>>
        /\ ~At(Controller, "options")
        /\ \/ Goto(Controller, [at |-> "idle"])
           \/ Goto(Controller, [at |-> "wxoff"])
      BY <1>13 DEF OptionsFlow, OptionsXoff, readVars, writeVars, At
  <2> QED BY <2>1, Stays DEF BufferOK, Line, ReadFree, WriteFree, At
<1>14. CASE UNCHANGED vars
    BY <1>14 DEF vars, readVars, writeVars, BufferOK, Line, ReadFree, WriteFree, At
<1> QED BY <1>1, <1>2, <1>3, <1>4, <1>5, <1>6, <1>7, <1>8, <1>9, <1>10, <1>11,
           <1>12, <1>13, <1>14 DEF Next

-----------------------------------------------------------------------------
(***************************************************************************)
(* Where a step takes a task.                                              *)
(***************************************************************************)
LEMMA GoesAt == ASSUME CodeOK, NEW t \in Tasks, NEW s,
                       \/ Goto(t, [at |-> s])
                       \/ \E n : Goto(t, [at |-> s, n |-> n])
                       \/ \E n, p : Goto(t, [at |-> s, n |-> n, put |-> p])
                       \/ \E b, l : Goto(t, [at |-> s, bytes |-> b, left |-> l])
                       \/ \E b : Goto(t, [at |-> s, clear |-> b])
    PROVE code'[t].at = s /\ \A u \in Tasks : u # t => code'[u] = code[u]
<1>1. CASE Goto(t, [at |-> s])
    BY <1>1, Goes
<1>2. CASE \E n : Goto(t, [at |-> s, n |-> n])
  <2>1. PICK n : Goto(t, [at |-> s, n |-> n])
      BY <1>2
  <2> QED BY <2>1, Goes
<1>3. CASE \E n, p : Goto(t, [at |-> s, n |-> n, put |-> p])
  <2>1. PICK n, p : Goto(t, [at |-> s, n |-> n, put |-> p])
      BY <1>3
  <2> QED BY <2>1, Goes
<1>4. CASE \E b, l : Goto(t, [at |-> s, bytes |-> b, left |-> l])
  <2>1. PICK b, l : Goto(t, [at |-> s, bytes |-> b, left |-> l])
      BY <1>4
  <2> QED BY <2>1, Goes
<1>5. CASE \E b : Goto(t, [at |-> s, clear |-> b])
  <2>1. PICK b : Goto(t, [at |-> s, clear |-> b])
      BY <1>5
  <2> QED BY <2>1, Goes
<1> QED BY <1>1, <1>2, <1>3, <1>4, <1>5

ReaderStays == code'[reader] = code[reader]
WriterStays == code'[writer] = code[writer]
ControllerStays == code'[Controller] = code[Controller]

LEMMA ReaderPlaces == ASSUME CodeOK
    PROVE /\ tyRead => code[reader].at = "idle" /\ code'[reader].at = "sync"
          /\ ReadWoken => code[reader].at = "sync" /\ code'[reader].at = "mutex"
          /\ ReadLocked =>
                /\ code[reader].at = "mutex" /\ mutex = NULL
                /\ readCanceled => code'[reader].at = "idle"
                /\ ~readCanceled /\ readBuffer = <<>> => code'[reader].at = "sync"
                /\ ~readCanceled /\ readBuffer # <<>> => code'[reader].at = "get"
          /\ ReadGet => code[reader].at = "get" /\ code'[reader].at = "got"
          /\ ReadGot => code[reader].at = "got" /\ code'[reader].at = "end"
          /\ ReadXon => /\ code[reader].at = "end"
                        /\ code'[reader].at =
                              IF "TANDEM" \in options /\ readXoff
                                 /\ Room(ReadFree, lnNBytes) > XonTreshold
                              THEN "xon" ELSE "leave"
          /\ ReadReleases => code[reader].at = "xon" /\ code'[reader].at = "leave"
          /\ ReadEnd => code[reader].at = "leave" /\ code'[reader].at = "idle"
          /\ tyRead \/ ReadWoken \/ ReadLocked \/ ReadGet \/ ReadGot \/ ReadXon
                \/ ReadReleases \/ ReadEnd => WriterStays /\ ControllerStays
<1> USE Apart
<1> DEFINE Goal(s) == code'[reader].at = s /\ WriterStays /\ ControllerStays
<1>1. ASSUME NEW s, \/ Goto(reader, [at |-> s])
                    \/ \E n : Goto(reader, [at |-> s, n |-> n])
                    \/ \E b, l : Goto(reader, [at |-> s, bytes |-> b, left |-> l])
      PROVE  Goal(s)
    BY <1>1, GoesAt DEF WriterStays, ControllerStays
<1>2. ASSUME NEW s, code[reader].at \in {"sync", "mutex"}, Step(reader, s)
      PROVE  Goal(s)
  <2>1. [code[reader] EXCEPT !.at = s] = [at |-> s, n |-> code[reader].n]
      BY <1>2, ReaderSteps DEF CodeOK
  <2>2. Goto(reader, [at |-> s, n |-> code[reader].n])
      BY <1>2, <2>1 DEF Step
  <2> QED BY <1>1, <2>2
<1> HIDE DEF Goal
<1>3. ASSUME tyRead PROVE code[reader].at = "idle" /\ Goal("sync")
    BY <1>1, <1>3 DEF tyRead, At
<1>4. ASSUME ReadWoken PROVE code[reader].at = "sync" /\ Goal("mutex")
    BY <1>2, <1>4 DEF ReadWoken, At
<1>5. ASSUME ReadLocked
      PROVE  /\ code[reader].at = "mutex" /\ mutex = NULL
             /\ readCanceled => Goal("idle")
             /\ ~readCanceled /\ readBuffer = <<>> => Goal("sync")
             /\ ~readCanceled /\ readBuffer # <<>> => Goal("get")
  <2>1. code[reader].at = "mutex" /\ mutex = NULL
      BY <1>5 DEF ReadLocked, At
  <2>2. ASSUME readCanceled PROVE Goal("idle")
      BY <1>1, <1>5, <2>2 DEF ReadLocked
  <2>3. ASSUME ~readCanceled, readBuffer = <<>> PROVE Goal("sync")
    <3>1. Step(reader, "sync")
        BY <1>5, <2>3 DEF ReadLocked
    <3> QED BY <1>2, <2>1, <3>1
  <2>4. ASSUME ~readCanceled, readBuffer # <<>> PROVE Goal("get")
    <3>1. Step(reader, "get")
        BY <1>5, <2>4 DEF ReadLocked
    <3> QED BY <1>2, <2>1, <3>1
  <2> QED BY <2>1, <2>2, <2>3, <2>4
<1>6. ASSUME ReadGet PROVE code[reader].at = "get" /\ Goal("got")
  <2>1. \E b, l : Goto(reader, [at |-> "got", bytes |-> b, left |-> l])
      BY <1>6 DEF ReadGet
  <2> QED BY <1>1, <1>6, <2>1 DEF ReadGet, At
<1>7. ASSUME ReadGot PROVE code[reader].at = "got" /\ Goal("end")
    BY <1>1, <1>7 DEF ReadGot, At
<1>8. ASSUME ReadXon
      PROVE  /\ code[reader].at = "end"
             /\ Goal(IF "TANDEM" \in options /\ readXoff
                        /\ Room(ReadFree, lnNBytes) > XonTreshold THEN "xon" ELSE "leave")
    BY <1>1, <1>8 DEF ReadXon, At
<1>9. ASSUME ReadReleases PROVE code[reader].at = "xon" /\ Goal("leave")
    BY <1>1, <1>9 DEF ReadReleases, At
<1>10. ASSUME ReadEnd PROVE code[reader].at = "leave" /\ Goal("idle")
    BY <1>1, <1>10 DEF ReadEnd, At
<1> QED BY <1>3, <1>4, <1>5, <1>6, <1>7, <1>8, <1>9, <1>10 DEF Goal

LEMMA WriterPlaces == ASSUME CodeOK
    PROVE /\ tyWrite => code[writer].at = "idle" /\ code'[writer].at = "sync"
          /\ WriteWoken => code[writer].at = "sync" /\ code'[writer].at = "mutex"
          /\ WriteLocked => /\ code[writer].at = "mutex" /\ mutex = NULL
                            /\ writeCanceled => code'[writer].at = "idle"
                            /\ ~writeCanceled => code'[writer].at = "put"
          /\ WritePut => code[writer].at = "put" /\ code'[writer].at = "start"
          /\ WriteStart => /\ code[writer].at = "start"
                           /\ code'[writer].at = IF busy THEN "end" ELSE "lock"
          /\ WriteLock => code[writer].at = "lock" /\ code'[writer].at = "end"
          /\ WriteLooks => /\ code[writer].at = "end"
                           /\ code'[writer].at = IF WriteFree > 0 THEN "give" ELSE "leave"
          /\ WriteEnd => /\ code[writer].at \in {"give", "leave"}
                         /\ code'[writer].at \in {"idle", "sync"}
          /\ tyWrite \/ WriteWoken \/ WriteLocked \/ WritePut \/ WriteStart \/ WriteLock
                \/ WriteLooks \/ WriteEnd => ReaderStays /\ ControllerStays
<1> USE Apart
<1> DEFINE Goal(s) == code'[writer].at = s /\ ReaderStays /\ ControllerStays
<1>1. ASSUME NEW s, \/ Goto(writer, [at |-> s])
                    \/ \E n, p : Goto(writer, [at |-> s, n |-> n, put |-> p])
      PROVE  Goal(s)
    BY <1>1, GoesAt DEF ReaderStays, ControllerStays
<1>2. ASSUME NEW s, code[writer].at # "idle", Step(writer, s)
      PROVE  Goal(s)
  <2>1. [code[writer] EXCEPT !.at = s] = [at |-> s, n |-> code[writer].n, put |-> code[writer].put]
      BY <1>2, WriterSteps DEF CodeOK
  <2>2. Goto(writer, [at |-> s, n |-> code[writer].n, put |-> code[writer].put])
      BY <1>2, <2>1 DEF Step
  <2> QED BY <1>1, <2>2
<1> HIDE DEF Goal
<1>3. ASSUME tyWrite PROVE code[writer].at = "idle" /\ Goal("sync")
  <2>1. \E n, p : Goto(writer, [at |-> "sync", n |-> n, put |-> p])
      BY <1>3 DEF tyWrite
  <2> QED BY <1>1, <1>3, <2>1 DEF tyWrite, At
<1>4. ASSUME WriteWoken PROVE code[writer].at = "sync" /\ Goal("mutex")
    BY <1>2, <1>4 DEF WriteWoken, At
<1>5. ASSUME WriteLocked
      PROVE  /\ code[writer].at = "mutex" /\ mutex = NULL
             /\ writeCanceled => Goal("idle")
             /\ ~writeCanceled => Goal("put")
  <2>1. code[writer].at = "mutex" /\ mutex = NULL
      BY <1>5 DEF WriteLocked, At
  <2>2. ASSUME writeCanceled PROVE Goal("idle")
      BY <1>1, <1>5, <2>2 DEF WriteLocked
  <2>3. ASSUME ~writeCanceled PROVE Goal("put")
    <3>1. \E n, p : Goto(writer, [at |-> "put", n |-> n, put |-> p])
        BY <1>5, <2>3 DEF WriteLocked
    <3> QED BY <1>1, <3>1
  <2> QED BY <2>1, <2>2, <2>3
<1>6. ASSUME WritePut PROVE code[writer].at = "put" /\ Goal("start")
    BY <1>2, <1>6 DEF WritePut, At
<1>7. ASSUME WriteStart
      PROVE  code[writer].at = "start" /\ Goal(IF busy THEN "end" ELSE "lock")
    BY <1>2, <1>7 DEF WriteStart, At
<1>8. ASSUME WriteLock PROVE code[writer].at = "lock" /\ Goal("end")
    BY <1>2, <1>8 DEF WriteLock, At
<1>9. ASSUME WriteLooks
      PROVE  /\ code[writer].at = "end"
             /\ Goal(IF WriteFree > 0 THEN "give" ELSE "leave")
    BY <1>2, <1>9 DEF WriteLooks, At
<1>10. ASSUME WriteEnd
      PROVE  code[writer].at \in {"give", "leave"} /\ (Goal("idle") \/ Goal("sync"))
  <2>1. code[writer].at \in {"give", "leave"} /\ WriteLeaves
      BY <1>10 DEF WriteEnd, At
  <2>2. \/ Goto(writer, [at |-> "idle"])
        \/ \E n, p : Goto(writer, [at |-> "sync", n |-> n, put |-> p])
      BY <2>1 DEF WriteLeaves
  <2> QED BY <1>1, <2>1, <2>2
<1> QED BY <1>3, <1>4, <1>5, <1>6, <1>7, <1>8, <1>9, <1>10 DEF Goal

LEMMA ControllerPlaces == ASSUME CodeOK
    PROVE /\ Flush => /\ code[Controller].at = "idle" /\ mutex = NULL
                      /\ code'[Controller].at \in {"idle", "flush"}
          /\ FlushEnd => /\ code[Controller].at \in {"idle", "flush"} /\ mutex = NULL
                         /\ code'[Controller].at = "idle"
          /\ \A o \in AllOptions : SetOptions(o) =>
                /\ code[Controller].at = "idle"
                /\ code'[Controller].at =
                      IF ("LINE" \in o) # Line THEN "options" ELSE "flow"
                /\ code'[Controller].clear = ("TANDEM" \in options \ o)
          /\ OptionsFlush => /\ code[Controller].at = "options" /\ mutex = NULL
                             /\ code'[Controller].at = "flow"
                             /\ code'[Controller].clear = code[Controller].clear
          /\ OptionsFlow => /\ code[Controller].at = "flow"
                            /\ code'[Controller].at =
                                  IF code[Controller].clear THEN "wxoff" ELSE "idle"
          /\ OptionsXoff => code[Controller].at = "wxoff" /\ code'[Controller].at = "idle"
          /\ Flush \/ FlushEnd \/ (\E o \in AllOptions : SetOptions(o)) \/ OptionsFlush
                \/ OptionsFlow \/ OptionsXoff => ReaderStays /\ WriterStays
<1> USE Apart
<1> DEFINE Others == ReaderStays /\ WriterStays
<1>1. ASSUME NEW s, Goto(Controller, [at |-> s])
      PROVE  code'[Controller].at = s /\ Others
    BY <1>1, GoesAt DEF ReaderStays, WriterStays
<1>2. ASSUME NEW s, NEW b, Goto(Controller, [at |-> s, clear |-> b])
      PROVE  code'[Controller].at = s /\ code'[Controller].clear = b /\ Others
    BY <1>2, Goes DEF ReaderStays, WriterStays
<1> HIDE DEF Others
<1>3. ASSUME Flush
      PROVE  /\ code[Controller].at = "idle" /\ mutex = NULL
             /\ code'[Controller].at \in {"idle", "flush"} /\ Others
  <2>1. PICK s \in {"idle", "flush"} : Goto(Controller, [at |-> s])
      BY <1>3 DEF Flush
  <2> QED BY <1>1, <1>3, <2>1 DEF Flush, Idle, tyFlushRead, At
<1>4. ASSUME FlushEnd
      PROVE  /\ code[Controller].at \in {"idle", "flush"} /\ mutex = NULL
             /\ code'[Controller].at = "idle" /\ Others
    BY <1>1, <1>4 DEF FlushEnd, Idle, tyFlushWrite, At
<1>5. ASSUME NEW o \in AllOptions, SetOptions(o)
      PROVE  /\ code[Controller].at = "idle"
             /\ code'[Controller].at = IF ("LINE" \in o) # Line THEN "options" ELSE "flow"
             /\ code'[Controller].clear = ("TANDEM" \in options \ o)
             /\ Others
    BY <1>2, <1>5 DEF SetOptions, Idle, At
<1>6. ASSUME OptionsFlush
      PROVE  /\ code[Controller].at = "options" /\ mutex = NULL
             /\ code'[Controller].at = "flow"
             /\ code'[Controller].clear = code[Controller].clear
             /\ Others
  <2>1. code[Controller].at = "options" /\ mutex = NULL /\ Step(Controller, "flow")
      BY <1>6 DEF OptionsFlush, tyFlushRead, At
  <2>2. [code[Controller] EXCEPT !.at = "flow"]
          = [at |-> "flow", clear |-> code[Controller].clear]
      BY <2>1, ControllerSteps DEF CodeOK
  <2>3. Goto(Controller, [at |-> "flow", clear |-> code[Controller].clear])
      BY <2>1, <2>2 DEF Step
  <2> QED BY <1>2, <2>1, <2>3
<1>7. ASSUME OptionsFlow
      PROVE  /\ code[Controller].at = "flow" /\ Others
             /\ code'[Controller].at = IF code[Controller].clear THEN "wxoff" ELSE "idle"
    BY <1>1, <1>7 DEF OptionsFlow, At
<1>8. ASSUME OptionsXoff
      PROVE  code[Controller].at = "wxoff" /\ code'[Controller].at = "idle" /\ Others
    BY <1>1, <1>8 DEF OptionsXoff, At
<1> QED BY <1>3, <1>4, <1>5, <1>6, <1>7, <1>8 DEF Others

-----------------------------------------------------------------------------
(***************************************************************************)
(* The flags.                                                              *)
(***************************************************************************)
LEMMA FlagsNext == ASSUME FlagsOK, [Next]_vars PROVE FlagsOK'
<1>x. ASSUME NEW t \in Tasks, tyTxStartup(t)
      PROVE  busy' \in BOOLEAN
    BY <1>x DEF tyTxStartup, FlagsOK
<1>y. ASSUME NEW t \in Tasks, NEW x \in BOOLEAN, tyReadXoff(t, x)
      PROVE  readXoff' \in BOOLEAN /\ busy' \in BOOLEAN
    BY <1>x, <1>y DEF tyReadXoff, flowVars, FlagsOK
<1>1. CASE tyRead \/ ReadWoken \/ ReadGet \/ ReadGot \/ ReadXon
    BY <1>1 DEF tyRead, ReadWoken, ReadGet, ReadGot, ReadXon, readVars,
                writeVars, flowVars, FlagsOK
<1>2. CASE ReadLocked \/ ReadEnd
    BY <1>2 DEF ReadLocked, ReadEnd, GiveRead, writeVars, flowVars, FlagsOK
<1>3. CASE ReadReleases
    BY <1>3, <1>y, Apart DEF ReadReleases, readVars, writeVars, FlagsOK
<1>4. CASE tyWrite \/ WriteWoken \/ WriteLocked \/ WritePut \/ WriteStart \/ WriteLooks
    BY <1>4 DEF tyWrite, WriteWoken, WriteLocked, WritePut, WriteStart, WriteLooks,
                readVars, writeVars, flowVars, FlagsOK
<1>5. CASE WriteLock \/ WriteEnd
    BY <1>5, <1>x, Apart DEF WriteLock, WriteEnd, WriteLeaves, GiveWrite,
                readVars, writeVars, flowVars, FlagsOK
<1>6. CASE \E t \in Tasks : vgaWriteString(t)
  <2>1. PICK t \in Tasks : vgaWriteString(t)
      BY <1>6
  <2>2. busy' \in BOOLEAN /\ writeSync' \in BOOLEAN /\ eatenWrite' \in BOOLEAN
      BY <2>1 DEF vgaWriteString, TxCheck, TxStop, TxGet, TxClear, TxRoom, TxGive,
                  GiveWrite, FlagsOK
  <2> QED BY <2>1, <2>2, TransmitterLeaves DEF FlagsOK
<1>7. CASE \E ch \in Chars : tyIntRd(ch)
  <2>1. PICK ch \in Chars : tyIntRd(ch)
      BY <1>7
  <2>2. CASE ch = "xoff" /\ "TANDEM" \in options
      BY <2>1, <2>2 DEF tyIntRd, readVars, flowVars, FlagsOK
  <2>3. CASE ~(ch = "xoff" /\ "TANDEM" \in options)
    <3>1. Received(ch)
        BY <2>1, <2>3 DEF tyIntRd
    <3>2. readSync' \in BOOLEAN /\ eatenRead' \in BOOLEAN
        BY <3>1 DEF Received, PutLine, PutRaw, GiveRead, FlagsOK
    <3>3. /\ readXoff' \in BOOLEAN /\ writeSync' \in BOOLEAN
          /\ eatenWrite' \in BOOLEAN
        BY <3>1, TransmitsAll DEF Received, FlagsOK
    <3> QED BY <3>1, <3>2, <3>3 DEF Received, FlagsOK
  <2> QED BY <2>2, <2>3
<1>8. CASE Cancel
    BY <1>8 DEF Cancel, GiveRead, GiveWrite, flowVars, FlagsOK
<1>9. CASE Flush \/ OptionsFlush
  <2>1. tyFlushRead
      BY <1>9 DEF Flush, OptionsFlush
  <2>2. writeSync' \in BOOLEAN /\ eatenWrite' \in BOOLEAN
      BY <2>1, TransmitsAll DEF tyFlushRead, FlagsOK
  <2> QED BY <2>1, <2>2 DEF tyFlushRead, FlagsOK
<1>10. CASE FlushEnd
    BY <1>10 DEF FlushEnd, tyFlushWrite, GiveWrite, readVars, flowVars, FlagsOK
<1>11. CASE (\E o \in AllOptions : SetOptions(o)) \/ OptionsFlow \/ OptionsXoff
    BY <1>11, <1>x, <1>y, Apart DEF SetOptions, OptionsFlow, OptionsXoff, readVars, writeVars,
                                    flowVars, FlagsOK
<1>12. CASE UNCHANGED vars
    BY <1>12 DEF vars, readVars, writeVars, flowVars, FlagsOK
<1> QED BY <1>1, <1>2, <1>3, <1>4, <1>5, <1>6, <1>7, <1>8, <1>9, <1>10, <1>11,
           <1>12 DEF Next

-----------------------------------------------------------------------------
(***************************************************************************)
(* The reader is woken.                                                    *)
(***************************************************************************)
LEMMA ReaderNext == ASSUME CodeOK, BufferOK, FlagsOK, NoStuckReader, [Next]_vars
    PROVE NoStuckReader'
<1>1. CASE tyRead
    BY <1>1, ReaderPlaces DEF tyRead, NoStuckReader
<1>2. CASE ReadWoken \/ ReadGet \/ ReadGot \/ ReadXon \/ ReadReleases
  <2>1. code'[reader].at \in {"mutex", "got", "end", "xon", "leave"}
      BY <1>2, ReaderPlaces
  <2> QED BY <2>1 DEF NoStuckReader
<1>3. CASE ReadLocked
    BY <1>3, ReaderPlaces DEF ReadLocked, NoStuckReader
<1>4. CASE ReadEnd
    BY <1>4 DEF ReadEnd, GiveRead, NoStuckReader
<1>5. CASE tyWrite \/ WriteWoken \/ WriteLocked \/ WritePut \/ WriteStart \/ WriteLock
              \/ WriteLooks \/ WriteEnd
  <2>1. UNCHANGED <<readBuffer, readSync, eatenRead>>
      BY <1>5 DEF tyWrite, WriteWoken, WriteLocked, WritePut, WriteStart, WriteLock,
                  WriteLooks, WriteEnd, WriteLeaves, readVars
  <2>2. code'[reader] = code[reader]
      BY <1>5, WriterPlaces DEF ReaderStays
  <2> QED BY <2>1, <2>2 DEF NoStuckReader
<1>6. CASE \E t \in Tasks : vgaWriteString(t)
    BY <1>6, TransmitterLeaves DEF NoStuckReader
<1>7. CASE \E ch \in Chars : tyIntRd(ch)
  <2>1. PICK ch \in Chars : tyIntRd(ch)
      BY <1>7
  <2>2. CASE ch = "xoff" /\ "TANDEM" \in options
      BY <2>1, <2>2 DEF tyIntRd, readVars, NoStuckReader
  <2>3. CASE ~(ch = "xoff" /\ "TANDEM" \in options)
    <3>1. (IF Line THEN PutLine(ch) ELSE PutRaw) /\ code' = code
        BY <2>1, <2>3 DEF tyIntRd, Received
    <3>2. CASE Line
        BY <3>1, <3>2 DEF PutLine, GiveRead, NoStuckReader
    <3>3. CASE ~Line
      <4>1. CASE ReadFree > 0 /\ readBuffer = <<>>
        <5>1. readBuffer' = Append(readBuffer, Char)
            BY <3>1, <3>3, <4>1 DEF PutRaw
        <5>2. Len(readBuffer') = 1
            BY <4>1, <5>1
        <5>3. readSync' = TRUE
            BY <3>1, <3>3, <5>2 DEF PutRaw, GiveRead
        <5> QED BY <5>3 DEF NoStuckReader
      <4>2. CASE ReadFree > 0 /\ readBuffer # <<>>
        <5>1. readBuffer' = Append(readBuffer, Char)
            BY <3>1, <3>3, <4>2 DEF PutRaw
        <5>2. Len(readBuffer') = Len(readBuffer) + 1
            BY <5>1, AppendProperties, ValueFacts DEF BufferOK
        <5>3. Len(readBuffer) \in Nat \ {0}
            BY <4>2, EmptySeq DEF BufferOK
        <5>4. UNCHANGED <<readSync, eatenRead>>
            BY <3>1, <3>3, <5>2, <5>3 DEF PutRaw
        <5> QED BY <3>1, <4>2, <5>4 DEF NoStuckReader
      <4>3. CASE ~(ReadFree > 0)
        <5>1. readBuffer' = readBuffer
            BY <3>1, <3>3, <4>3 DEF PutRaw
        <5> QED BY <3>1, <3>3, <5>1 DEF PutRaw, GiveRead, NoStuckReader
      <4> QED BY <4>1, <4>2, <4>3
    <3> QED BY <3>2, <3>3
  <2> QED BY <2>2, <2>3
<1>8. CASE Cancel
    BY <1>8 DEF Cancel, GiveRead, NoStuckReader
<1>9. CASE Flush \/ OptionsFlush
    BY <1>9 DEF Flush, OptionsFlush, tyFlushRead, NoStuckReader
<1>10. CASE FlushEnd \/ (\E o \in AllOptions : SetOptions(o)) \/ OptionsFlow
              \/ OptionsXoff
  <2>1. UNCHANGED <<readBuffer, readSync, eatenRead>>
      BY <1>10 DEF FlushEnd, tyFlushWrite, SetOptions, OptionsFlow, OptionsXoff, readVars
  <2>2. code'[reader] = code[reader]
      BY <1>10, ControllerPlaces DEF ReaderStays
  <2> QED BY <2>1, <2>2 DEF NoStuckReader
<1>11. CASE UNCHANGED vars
    BY <1>11 DEF vars, readVars, NoStuckReader
<1> QED BY <1>1, <1>2, <1>3, <1>4, <1>5, <1>6, <1>7, <1>8, <1>9, <1>10, <1>11 DEF Next

-----------------------------------------------------------------------------
(***************************************************************************)
(* The transmitter: where a task may be while vgaWriteString runs in it,   *)
(* and that it runs to its end in one task at a time.                      *)
(***************************************************************************)
TxPlaces == {"off", "check", "stop", "get", "clear", "room", "give"}

TxOK ==
    /\ tx \in [Tasks -> TxPlaces]
    /\ ~Returned(reader) => code[reader].at = "leave"
    /\ ~Returned(writer) => code[writer].at = "end"
    /\ ~Returned(Controller) => code[Controller].at \in {"wxoff", "idle"}

\* What a step may do to the transmitter.
LEMMA TxSteps == ASSUME [Next]_vars
    PROVE \/ UNCHANGED <<busy, tx>>
          \/ ReadReleases /\ tyTxStartup(reader)
          \/ WriteLock /\ tyTxStartup(writer)
          \/ (OptionsFlow \/ OptionsXoff) /\ tyTxStartup(Controller)
          \/ \E t \in Tasks : vgaWriteString(t)
<1>1. CASE tyRead \/ ReadWoken \/ ReadLocked \/ ReadGet \/ ReadGot \/ ReadXon \/ ReadEnd
    BY <1>1 DEF tyRead, ReadWoken, ReadLocked, ReadGet, ReadGot, ReadXon, ReadEnd, flowVars
<1>2. CASE tyWrite \/ WriteWoken \/ WriteLocked \/ WritePut \/ WriteStart \/ WriteLooks
              \/ WriteEnd
    BY <1>2 DEF tyWrite, WriteWoken, WriteLocked, WritePut, WriteStart, WriteLooks,
                WriteEnd, WriteLeaves, flowVars
<1>3. CASE ReadReleases \/ WriteLock \/ OptionsFlow \/ OptionsXoff
    BY <1>3 DEF ReadReleases, WriteLock, OptionsFlow, OptionsXoff, tyReadXoff, flowVars
<1>4. CASE \E ch \in Chars : tyIntRd(ch)
    BY <1>4 DEF tyIntRd, Received, flowVars
<1>5. CASE Cancel \/ Flush \/ FlushEnd \/ (\E o \in AllOptions : SetOptions(o)) \/ OptionsFlush
    BY <1>5 DEF Cancel, Flush, FlushEnd, SetOptions, OptionsFlush, tyFlushRead, tyFlushWrite,
                flowVars
<1>6. CASE UNCHANGED vars
    BY <1>6 DEF vars, flowVars
<1> QED BY <1>1, <1>2, <1>3, <1>4, <1>5, <1>6 DEF Next

LEMMA TxStepFacts == ASSUME tx \in [Tasks -> TxPlaces], NEW t \in Tasks, vgaWriteString(t)
    PROVE /\ tx' \in [Tasks -> TxPlaces] /\ tx[t] # "off"
          /\ \A u \in Tasks : u # t => tx'[u] = tx[u]
          /\ \/ tx[t] = "check" /\ tx'[t] \in {"stop", "get"} /\ busy' = busy
             \/ tx[t] = "stop" /\ tx'[t] = "off" /\ busy' = FALSE
             \/ tx[t] = "get" /\ tx'[t] \in {"get", "clear"} /\ busy' = busy
             \/ tx[t] = "clear" /\ tx'[t] = "room" /\ busy' = FALSE
             \/ tx[t] = "room" /\ tx'[t] \in {"off", "give"} /\ busy' = busy
             \/ tx[t] = "give" /\ tx'[t] = "off" /\ busy' = busy
BY DEF vgaWriteString, TxCheck, TxStop, TxGet, TxClear, TxRoom, TxGive, TxStep, TxPlaces

LEMMA TxStartFacts == ASSUME tx \in [Tasks -> TxPlaces], NEW t \in Tasks, tyTxStartup(t)
    PROVE /\ tx' \in [Tasks -> TxPlaces]
          /\ \A u \in Tasks : u # t => tx'[u] = tx[u]
          /\ \/ UNCHANGED <<busy, tx>>
             \/ ~busy /\ busy' = TRUE /\ tx'[t] = "check"
BY DEF tyTxStartup, TxPlaces

LEMMA TxNext == ASSUME CodeOK, TxOK, [Next]_vars
    PROVE TxOK'
<1> USE Apart
<1>t. tx \in [Tasks -> TxPlaces]
    BY DEF TxOK
<1>1. CASE tyRead \/ ReadWoken \/ ReadLocked \/ ReadGet \/ ReadGot \/ ReadXon \/ ReadEnd
  <2>1. Returned(reader) /\ tx' = tx
    <3>1. code[reader].at # "leave" \/ Returned(reader)
        BY <1>1, ReaderPlaces DEF ReadEnd
    <3> QED BY <1>1, <3>1 DEF tyRead, ReadWoken, ReadLocked, ReadGet, ReadGot, ReadXon,
                              ReadEnd, flowVars, TxOK
  <2>2. code'[writer] = code[writer] /\ code'[Controller] = code[Controller]
      BY <1>1, ReaderPlaces DEF WriterStays, ControllerStays
  <2> QED BY <2>1, <2>2 DEF TxOK, Returned
<1>2. CASE ReadReleases
  <2>1. /\ code'[reader].at = "leave" /\ code'[writer] = code[writer]
        /\ code'[Controller] = code[Controller]
      BY <1>2, ReaderPlaces DEF WriterStays, ControllerStays
  <2>2. tx' = tx \/ tyTxStartup(reader)
      BY <1>2 DEF ReadReleases, tyReadXoff, flowVars
  <2>3. /\ tx' \in [Tasks -> TxPlaces] /\ tx'[writer] = tx[writer]
        /\ tx'[Controller] = tx[Controller]
      BY <1>t, <2>2, TxStartFacts
  <2> QED BY <2>1, <2>3 DEF TxOK, Returned
<1>3. CASE tyWrite \/ WriteWoken \/ WriteLocked \/ WritePut \/ WriteStart \/ WriteLooks
              \/ WriteEnd
  <2>1. Returned(writer) /\ tx' = tx
    <3>1. code[writer].at # "end" \/ Returned(writer)
        BY <1>3, WriterPlaces DEF WriteLooks
    <3> QED BY <1>3, <3>1 DEF tyWrite, WriteWoken, WriteLocked, WritePut, WriteStart,
                              WriteLooks, WriteEnd, WriteLeaves, flowVars, TxOK
  <2>2. code'[reader] = code[reader] /\ code'[Controller] = code[Controller]
      BY <1>3, WriterPlaces DEF ReaderStays, ControllerStays
  <2> QED BY <2>1, <2>2 DEF TxOK, Returned
<1>4. CASE WriteLock
  <2>1. /\ code'[writer].at = "end" /\ code'[reader] = code[reader]
        /\ code'[Controller] = code[Controller]
      BY <1>4, WriterPlaces DEF ReaderStays, ControllerStays
  <2>2. /\ tx' \in [Tasks -> TxPlaces] /\ tx'[reader] = tx[reader]
        /\ tx'[Controller] = tx[Controller]
      BY <1>t, <1>4, TxStartFacts DEF WriteLock
  <2> QED BY <2>1, <2>2 DEF TxOK, Returned
<1>5. CASE Flush \/ FlushEnd \/ (\E o \in AllOptions : SetOptions(o)) \/ OptionsFlush
  <2>1. Returned(Controller) /\ tx' = tx
    <3>1. code[Controller].at \notin {"wxoff", "idle"} \/ Returned(Controller)
        BY <1>5 DEF Flush, FlushEnd, SetOptions, OptionsFlush, Idle, At
    <3> QED BY <1>5, <3>1 DEF Flush, FlushEnd, SetOptions, OptionsFlush, tyFlushRead,
                              tyFlushWrite, flowVars, TxOK
  <2>2. code'[reader] = code[reader] /\ code'[writer] = code[writer]
      BY <1>5, ControllerPlaces DEF ReaderStays, WriterStays
  <2> QED BY <2>1, <2>2 DEF TxOK, Returned
<1>6. CASE OptionsFlow \/ OptionsXoff
  <2>1. /\ code'[Controller].at \in {"wxoff", "idle"} /\ code'[reader] = code[reader]
        /\ code'[writer] = code[writer]
      BY <1>6, ControllerPlaces DEF ReaderStays, WriterStays
  <2>2. tx' = tx \/ tyTxStartup(Controller)
      BY <1>6 DEF OptionsFlow, OptionsXoff, tyReadXoff, flowVars
  <2>3. /\ tx' \in [Tasks -> TxPlaces] /\ tx'[reader] = tx[reader] /\ tx'[writer] = tx[writer]
      BY <1>t, <2>2, TxStartFacts
  <2> QED BY <2>1, <2>3 DEF TxOK, Returned
<1>7. CASE (\E ch \in Chars : tyIntRd(ch)) \/ Cancel
    BY <1>7 DEF tyIntRd, Received, Cancel, flowVars, TxOK, Returned
<1>8. CASE \E t \in Tasks : vgaWriteString(t)
  <2>1. PICK t \in Tasks : vgaWriteString(t)
      BY <1>8
  <2>2. /\ code' = code /\ tx' \in [Tasks -> TxPlaces] /\ tx[t] # "off"
        /\ \A u \in Tasks : u # t => tx'[u] = tx[u]
      BY <1>t, <2>1, TransmitterLeaves, TxStepFacts
  <2> QED BY <2>2 DEF TxOK, Returned
<1>9. CASE UNCHANGED vars
    BY <1>9 DEF vars, flowVars, TxOK, Returned
<1> QED BY <1>1, <1>2, <1>3, <1>4, <1>5, <1>6, <1>7, <1>8, <1>9 DEF Next

\* How many tasks are in a set of them.
LEMMA TaskCount == ASSUME NEW S \in SUBSET Tasks
    PROVE /\ Cardinality(S) = 0 <=> S = {}
          /\ Cardinality(S) = 1 <=> \E t \in Tasks : S = {t}
<1>1. IsFiniteSet(Tasks)
  <2>1. IsFiniteSet({reader} \cup {writer})
      BY FS_Singleton, FS_AddElement
  <2>2. IsFiniteSet(({reader} \cup {writer}) \cup {Controller})
      BY <2>1, FS_AddElement
  <2>3. Tasks = ({reader} \cup {writer}) \cup {Controller}
      BY DEF Tasks
  <2> QED BY <2>2, <2>3
<1>2. IsFiniteSet(S)
    BY <1>1, FS_Subset
<1> QED BY <1>2, FS_EmptySet, FS_Singleton

LEMMA OneIs ==
    OneTransmitter <=> IF busy THEN \E t \in Tasks : Transmitters = {t} ELSE Transmitters = {}
<1>1. Transmitters \in SUBSET Tasks
    BY DEF Transmitters
<1> QED BY <1>1, TaskCount DEF OneTransmitter

LEMMA TransmitterNext == ASSUME FlagsOK, TxOK, OneTransmitter, [Next]_vars
    PROVE OneTransmitter'
<1> USE Apart
<1> DEFINE Has == {"check", "stop", "get", "clear"}
<1>t. tx \in [Tasks -> TxPlaces] /\ busy \in BOOLEAN
    BY DEF TxOK, FlagsOK
<1>i. IF busy THEN \E t \in Tasks : Transmitters = {t} ELSE Transmitters = {}
    BY OneIs
<1>o. (IF busy' THEN \E t \in Tasks : Transmitters' = {t} ELSE Transmitters' = {})
        => OneTransmitter'
  <2>1. Transmitters' \in SUBSET Tasks
      BY DEF Transmitters
  <2> QED BY <2>1, TaskCount DEF OneTransmitter
<1>1. CASE UNCHANGED <<busy, tx>>
    BY <1>1, <1>i, <1>o DEF Transmitters
<1>2. ASSUME NEW t \in Tasks, tyTxStartup(t) PROVE OneTransmitter'
  <2>1. CASE busy
      BY <1>2, <2>1, <1>1 DEF tyTxStartup
  <2>2. CASE ~busy
    <3>1. /\ busy' = TRUE /\ tx'[t] = "check"
          /\ \A u \in Tasks : u # t => tx'[u] = tx[u]
        BY <1>t, <1>2, <2>2 DEF tyTxStartup
    <3>2. \A u \in Tasks : tx[u] \notin Has
        BY <1>i, <2>2 DEF Transmitters
    <3>3. Transmitters' = {t}
        BY <3>1, <3>2 DEF Transmitters
    <3> QED BY <1>o, <3>1, <3>3
  <2> QED BY <2>1, <2>2
<1>3. ASSUME NEW t \in Tasks, vgaWriteString(t) PROVE OneTransmitter'
  <2>0. \A u \in Tasks : u # t => tx'[u] = tx[u]
      BY <1>t, <1>3, TxStepFacts
  <2>1. CASE busy' = busy /\ (tx[t] \in Has <=> tx'[t] \in Has)
    <3>1. Transmitters' = Transmitters
        BY <2>0, <2>1 DEF Transmitters
    <3> QED BY <1>i, <1>o, <2>1, <3>1
  <2>2. CASE tx[t] \in {"stop", "clear"} /\ tx'[t] \notin Has /\ busy' = FALSE
    <3>1. t \in Transmitters
        BY <2>2 DEF Transmitters
    <3>2. \A u \in Transmitters : u = t
        BY <1>i, <3>1
    <3>3. Transmitters' = {}
        BY <2>0, <2>2, <3>2 DEF Transmitters
    <3> QED BY <1>o, <2>2, <3>3
  <2> QED BY <1>t, <1>3, <2>1, <2>2, TxStepFacts
<1> QED BY <1>1, <1>2, <1>3, TxSteps

-----------------------------------------------------------------------------
(***************************************************************************)
(* What is left in the buffer: when the transmitter will not look again,   *)
(* the characters are stopped, or were missed, or the writer is about to   *)
(* start it.                                                               *)
(***************************************************************************)
Starting == code[writer].at \in {"start", "lock"}

MissedOK ==
    /\ missed \in BOOLEAN
    /\ (~busy \/ PastLook) /\ writeBuffer > 0 => writeXoff \/ missed \/ Starting

\* Who asks for the transmitter is heard, or what is in the buffer is missed.
LEMMA AskedFor == ASSUME FlagsOK, TxOK, OneTransmitter, MissedOK,
                         NEW t \in Tasks, tyTxStartup(t), writeBuffer' = writeBuffer
    PROVE MissedOK'
<1>1. CASE busy
    BY <1>1 DEF tyTxStartup, Asked, PastLook, MissedOK
<1>2. CASE ~busy
  <2>1. /\ busy' = TRUE /\ missed' = FALSE /\ tx'[t] = "check"
        /\ \A u \in Tasks : u # t => tx'[u] = tx[u]
      BY <1>2 DEF tyTxStartup, TxOK
  <2>2. \A u \in Tasks : tx[u] \notin {"stop", "clear"}
      BY <1>2, OneIs DEF Transmitters
  <2>3. ~PastLook'
      BY <2>1, <2>2 DEF PastLook
  <2> QED BY <2>1, <2>3 DEF MissedOK
<1> QED BY <1>1, <1>2

LEMMA MissedNext == ASSUME CodeOK, FlagsOK, TxOK, OneTransmitter, MissedOK, [Next]_vars
    PROVE MissedOK'
<1> USE Apart
<1>u. ASSUME UNCHANGED <<busy, tx, missed, writeBuffer, writeXoff>>, Starting => Starting'
      PROVE  MissedOK'
    BY <1>u DEF MissedOK, PastLook
<1>0. ASSUME writeBuffer' = 0, missed' \in BOOLEAN PROVE MissedOK'
    BY <1>0 DEF MissedOK
<1>m. missed \in BOOLEAN
    BY DEF MissedOK
<1>1. CASE tyRead \/ ReadWoken \/ ReadLocked \/ ReadGet \/ ReadGot \/ ReadXon \/ ReadEnd
  <2>1. UNCHANGED <<busy, tx, missed, writeBuffer, writeXoff>>
      BY <1>1 DEF tyRead, ReadWoken, ReadLocked, ReadGet, ReadGot, ReadXon, ReadEnd,
                  writeVars, flowVars
  <2>2. code'[writer] = code[writer]
      BY <1>1, ReaderPlaces DEF WriterStays
  <2> QED BY <1>u, <2>1, <2>2 DEF Starting
<1>2. CASE ReadReleases
  <2>1. writeBuffer' = writeBuffer /\ writeXoff' = writeXoff /\ code'[writer] = code[writer]
      BY <1>2, ReaderPlaces DEF ReadReleases, writeVars, WriterStays
  <2>2. UNCHANGED <<busy, tx, missed>> \/ tyTxStartup(reader)
      BY <1>2 DEF ReadReleases, tyReadXoff, flowVars
  <2> QED BY <1>u, <2>1, <2>2, AskedFor DEF Starting
<1>3. CASE tyWrite \/ WriteWoken \/ WriteLocked \/ WriteLooks \/ WriteEnd
  <2>1. UNCHANGED <<busy, tx, missed, writeBuffer, writeXoff>>
      BY <1>3 DEF tyWrite, WriteWoken, WriteLocked, WriteLooks, WriteEnd, WriteLeaves,
                  writeVars, flowVars
  <2>2. ~Starting
      BY <1>3, WriterPlaces DEF Starting
  <2> QED BY <1>u, <2>1, <2>2
<1>4. CASE WritePut
  <2>1. Starting' /\ missed' = missed
      BY <1>4, WriterPlaces DEF WritePut, Starting, flowVars
  <2> QED BY <1>m, <2>1 DEF MissedOK
<1>5. CASE WriteStart
  <2>1. UNCHANGED <<busy, tx, writeBuffer>>
      BY <1>5 DEF WriteStart, writeVars
  <2>2. CASE busy
    <3>1. missed' = (missed \/ (writeBuffer > 0 /\ PastLook))
        BY <1>5, <2>2 DEF WriteStart, Asked
    <3> QED BY <2>1, <2>2, <3>1 DEF MissedOK, PastLook
  <2>3. CASE ~busy
    <3>1. Starting' /\ missed' = missed
        BY <1>5, <2>3, WriterPlaces DEF WriteStart, Starting
    <3> QED BY <1>m, <3>1 DEF MissedOK
  <2> QED BY <2>2, <2>3
<1>6. CASE WriteLock
    BY <1>6, AskedFor DEF WriteLock, writeVars
<1>7. ASSUME NEW t \in Tasks, vgaWriteString(t) PROVE MissedOK'
  <2>1. /\ UNCHANGED <<writeXoff, missed, code>>
        /\ \A u \in Tasks : u # t => tx'[u] = tx[u]
      BY <1>7, TxStepFacts DEF vgaWriteString, TxOK
  <2>2. CASE tx[t] \in {"check", "get"}
    <3>1. \A u \in Tasks : u # t => tx'[u] \notin {"stop", "clear"}
      <4>1. t \in Transmitters
          BY <2>2 DEF Transmitters
      <4>2. \A u \in Transmitters : u = t
          BY <4>1, OneIs
      <4> QED BY <2>1, <4>2 DEF Transmitters
    <3>2. busy' = TRUE
      <4>1. busy' = busy
          BY <1>7, <2>2, TxStepFacts DEF TxOK
      <4>2. t \in Transmitters
          BY <2>2 DEF Transmitters
      <4> QED BY <4>1, <4>2, OneIs DEF FlagsOK
    <3>3. CASE tx'[t] \notin {"stop", "clear"}
        BY <1>m, <2>1, <3>1, <3>2, <3>3 DEF MissedOK, PastLook
    <3>4. CASE tx'[t] = "stop"
      <4>1. writeXoff
          BY <1>7, <2>2, <3>4 DEF vgaWriteString, TxCheck, TxStop, TxGet, TxClear, TxRoom,
                                  TxGive, TxStep, TxOK
      <4> QED BY <1>m, <2>1, <4>1 DEF MissedOK
    <3>5. CASE tx'[t] = "clear"
      <4>1. writeBuffer' = 0
          BY <1>7, <2>2, <3>5 DEF vgaWriteString, TxCheck, TxStop, TxGet, TxClear, TxRoom,
                                  TxGive, TxStep, TxOK
      <4> QED BY <1>0, <1>m, <2>1, <4>1
    <3> QED BY <3>3, <3>4, <3>5
  <2>3. CASE tx[t] \in {"stop", "clear"}
    <3>1. PastLook /\ writeBuffer' = writeBuffer
        BY <1>7, <2>3 DEF PastLook, vgaWriteString, TxCheck, TxStop, TxGet, TxClear, TxRoom,
                          TxGive, TxStep
    <3> QED BY <2>1, <3>1 DEF MissedOK, Starting
  <2>4. CASE tx[t] \in {"room", "give"}
    <3>1. /\ busy' = busy /\ writeBuffer' = writeBuffer
          /\ tx'[t] \notin {"stop", "clear"}
        BY <1>7, <2>4 DEF TxOK, vgaWriteString, TxCheck, TxStop, TxGet, TxClear, TxRoom,
                          TxGive, TxStep
    <3>2. PastLook' => PastLook
        BY <2>1, <3>1 DEF PastLook
    <3> QED BY <2>1, <3>1, <3>2 DEF MissedOK, Starting
  <2> QED BY <1>7, <2>2, <2>3, <2>4, TxStepFacts DEF TxOK
<1>8. ASSUME NEW asked, NEW n, Transmits(asked, n), asked \/ n = writeBuffer,
             UNCHANGED <<busy, tx, writeXoff>>, Starting => Starting'
      PROVE  MissedOK'
  <2>1. CASE asked /\ ~busy /\ ~writeXoff
      BY <1>0, <1>8, <2>1 DEF Transmits
  <2>2. CASE asked /\ busy
    <3>1. writeBuffer' = n /\ missed' = (missed \/ (n > 0 /\ PastLook))
        BY <1>8, <2>2 DEF Transmits, Asked
    <3> QED BY <1>8, <2>2, <3>1 DEF MissedOK, PastLook
  <2>3. CASE asked /\ ~busy /\ writeXoff
    <3>1. missed' = missed /\ writeXoff'
        BY <1>8, <2>3 DEF Transmits
    <3> QED BY <1>m, <3>1 DEF MissedOK
  <2>4. CASE ~asked
    <3>1. UNCHANGED <<writeBuffer, missed>>
        BY <1>8, <2>4 DEF Transmits
    <3> QED BY <1>8, <1>u, <3>1
  <2> QED BY <2>1, <2>2, <2>3, <2>4
<1>9. CASE \E ch \in Chars : tyIntRd(ch)
  <2>1. PICK ch \in Chars : tyIntRd(ch)
      BY <1>9
  <2>2. CASE ch = "xoff" /\ "TANDEM" \in options
    <3>1. writeXoff' = TRUE /\ missed' = missed
        BY <2>1, <2>2 DEF tyIntRd, flowVars
    <3> QED BY <1>m, <3>1 DEF MissedOK
  <2>3. CASE ~(ch = "xoff" /\ "TANDEM" \in options)
    <3>1. PICK asked, n : Transmits(asked, n) /\ (asked \/ n = writeBuffer)
        BY <2>1, <2>3 DEF tyIntRd, Received
    <3>2. UNCHANGED <<busy, tx, writeXoff, code>>
        BY <2>1, <2>3 DEF tyIntRd, Received
    <3> QED BY <1>8, <3>1, <3>2 DEF Starting
  <2> QED BY <2>2, <2>3
<1>10. CASE Flush \/ OptionsFlush
  <2>1. /\ Transmits(readXoff, writeBuffer) /\ UNCHANGED <<busy, tx, writeXoff>>
      BY <1>10 DEF Flush, OptionsFlush, tyFlushRead
  <2>2. code'[writer] = code[writer]
      BY <1>10, ControllerPlaces DEF WriterStays
  <2> QED BY <1>8, <2>1, <2>2 DEF Starting
<1>11. CASE FlushEnd
    BY <1>0, <1>11 DEF FlushEnd, tyFlushWrite
<1>12. CASE Cancel \/ UNCHANGED vars
    BY <1>u, <1>12 DEF Cancel, vars, writeVars, flowVars, Starting
<1>13. CASE (\E o \in AllOptions : SetOptions(o)) \/ OptionsFlow
  <2>1. writeBuffer' = writeBuffer /\ writeXoff' = writeXoff /\ code'[writer] = code[writer]
      BY <1>13, ControllerPlaces DEF SetOptions, OptionsFlow, writeVars, WriterStays
  <2>2. UNCHANGED <<busy, tx, missed>> \/ tyTxStartup(Controller)
      BY <1>13 DEF SetOptions, OptionsFlow, tyReadXoff, flowVars
  <2> QED BY <1>u, <2>1, <2>2, AskedFor DEF Starting
<1>14. CASE OptionsXoff
  <2>1. writeBuffer' = writeBuffer /\ code'[writer] = code[writer]
      BY <1>14, ControllerPlaces DEF OptionsXoff, WriterStays
  <2>2. UNCHANGED <<busy, tx, missed, writeXoff>> \/ tyTxStartup(Controller)
      BY <1>14 DEF OptionsXoff
  <2> QED BY <1>u, <2>1, <2>2, AskedFor DEF Starting
<1> QED BY <1>1, <1>2, <1>3, <1>4, <1>5, <1>6, <1>7, <1>9, <1>10, <1>11, <1>12, <1>13,
           <1>14 DEF Next

-----------------------------------------------------------------------------
(***************************************************************************)
(* The writer is woken: from the moment it has looked the buffer is full,  *)
(* or somebody in vgaWriteString will look for room.                       *)
(***************************************************************************)
Looks == \E t \in Tasks : tx[t] \in {"get", "clear", "room", "give"}

WriterOK ==
    code[writer].at \in {"idle", "sync", "leave"} /\ ~writeSync =>
        WriteFree < WriteTreshold \/ eatenWrite \/ Looks

\* Only vgaWriteString itself ends its search for room.
LEMMA LooksOn == ASSUME CodeOK, TxOK, Looks, [Next]_vars,
                        ~\E t \in Tasks : vgaWriteString(t)
    PROVE Looks'
<1> USE Apart
<1>1. PICK t \in Tasks : tx[t] \in {"get", "clear", "room", "give"}
    BY DEF Looks
<1>2. ASSUME NEW u \in Tasks, tyTxStartup(u), Returned(u) PROVE Looks'
  <2>1. t # u
      BY <1>1, <1>2 DEF Returned
  <2>2. tx'[t] = tx[t]
      BY <1>2, <2>1, TxStartFacts DEF TxOK
  <2> QED BY <1>1, <2>2 DEF Looks
<1>3. CASE UNCHANGED <<busy, tx>>
    BY <1>1, <1>3 DEF Looks
<1>4. CASE ReadReleases /\ tyTxStartup(reader)
    BY <1>2, <1>4, ReaderPlaces DEF TxOK
<1>5. CASE WriteLock /\ tyTxStartup(writer)
    BY <1>2, <1>5, WriterPlaces DEF TxOK
<1>6. CASE (OptionsFlow \/ OptionsXoff) /\ tyTxStartup(Controller)
  <2>1. Returned(Controller)
      BY <1>6, ControllerPlaces DEF TxOK, OptionsXoff
  <2> QED BY <1>2, <1>6, <2>1
<1> QED BY <1>3, <1>4, <1>5, <1>6, TxSteps

LEMMA WriterNext == ASSUME CodeOK, BufferOK, FlagsOK, TxOK, WriterOK, [Next]_vars
    PROVE WriterOK'
<1> USE Apart
<1> DEFINE Tx == \E t \in Tasks : vgaWriteString(t)
<1>f. /\ WriteFree = WriteSize - writeBuffer /\ writeBuffer \in 0..WriteSize
      /\ WriteFree' = WriteSize - writeBuffer'
    BY DEF BufferOK, WriteFree
<1>l. ~Tx /\ Looks => Looks'
    BY LooksOn
<1>k. ASSUME ~Tx, UNCHANGED <<writeBuffer, writeSync, eatenWrite>>, code'[writer] = code[writer]
      PROVE  WriterOK'
    BY <1>k, <1>l DEF WriterOK, WriteFree
<1>g. ASSUME writeSync' = TRUE PROVE WriterOK'
    BY <1>g DEF WriterOK
<1> HIDE DEF Tx
<1>1. CASE ~Tx /\ (tyRead \/ ReadWoken \/ ReadLocked \/ ReadGet \/ ReadGot \/ ReadXon
                     \/ ReadReleases \/ ReadEnd)
  <2>1. UNCHANGED <<writeBuffer, writeSync, eatenWrite>>
      BY <1>1 DEF tyRead, ReadWoken, ReadLocked, ReadGet, ReadGot, ReadXon,
                  ReadReleases, ReadEnd, writeVars
  <2>2. code'[writer] = code[writer]
      BY <1>1, ReaderPlaces DEF WriterStays
  <2> QED BY <1>k, <1>1, <2>1, <2>2
<1>2. CASE ~Tx /\ tyWrite
    BY <1>2, <1>l, WriterPlaces DEF tyWrite, WriterOK, WriteFree
<1>3. CASE WriteWoken \/ WritePut \/ WriteStart \/ WriteLock
  <2>1. code'[writer].at \in {"mutex", "start", "lock", "end"}
      BY <1>3, WriterPlaces
  <2> QED BY <2>1 DEF WriterOK
<1>4. CASE WriteLocked
    BY <1>4, WriterPlaces DEF WriteLocked, WriterOK
<1>5. CASE WriteLooks
  <2>1. CASE WriteFree > 0
      BY <1>5, <2>1, WriterPlaces DEF WriterOK
  <2>2. CASE ~(WriteFree > 0)
    <3>1. WriteFree' = WriteFree
        BY <1>5 DEF WriteLooks, writeVars, WriteFree
    <3>2. WriteFree < WriteTreshold
        BY <1>f, <2>2, Sizes
    <3> QED BY <3>1, <3>2 DEF WriterOK
  <2> QED BY <2>1, <2>2
<1>6. CASE ~Tx /\ WriteEnd
  <2>1. CASE code[writer].at = "give"
      BY <1>6, <2>1, <1>g DEF WriteEnd, GiveWrite, At
  <2>2. CASE code[writer].at = "leave"
      BY <1>6, <1>l, <2>2 DEF WriteEnd, WriteLeaves, WriterOK, At, WriteFree
  <2> QED BY <1>6, <2>1, <2>2, WriterPlaces
<1>7. CASE Tx
  <2>1. PICK t \in Tasks : vgaWriteString(t)
      BY <1>7 DEF Tx
  <2>2. code' = code /\ tx \in [Tasks -> TxPlaces] /\ tx' \in [Tasks -> TxPlaces]
      BY <2>1, TransmitterLeaves, TxStepFacts DEF TxOK
  <2>3. CASE tx'[t] \in {"get", "clear", "room", "give"}
      BY <2>3 DEF WriterOK, Looks
  <2>4. CASE tx[t] \notin {"get", "clear", "room", "give"}
    <3>1. UNCHANGED <<writeBuffer, writeSync, eatenWrite>>
        BY <2>1, <2>4 DEF vgaWriteString, TxCheck, TxStop, TxGet, TxClear, TxRoom, TxGive,
                          TxStep
    <3>2. Looks => Looks'
      <4>1. ASSUME NEW u \in Tasks, tx[u] \in {"get", "clear", "room", "give"}
            PROVE  tx'[u] = tx[u]
          BY <2>1, <2>2, <2>4, <4>1, TxStepFacts
      <4> QED BY <4>1 DEF Looks
    <3> QED BY <2>2, <3>1, <3>2 DEF WriterOK, WriteFree
  <2>5. CASE tx[t] = "room" /\ tx'[t] = "off"
    <3>1. TxRoom(t)
        BY <2>1, <2>5 DEF vgaWriteString, TxCheck, TxStop, TxGet, TxClear, TxGive, TxStep
    <3>2. ~(WriteFree >= WriteTreshold) /\ writeBuffer' = writeBuffer
        BY <2>2, <2>5, <3>1 DEF TxRoom, TxStep
    <3>3. WriteFree' < WriteTreshold
        BY <1>f, <3>2, Sizes
    <3> QED BY <3>3 DEF WriterOK
  <2>6. CASE tx[t] = "give"
    <3>1. writeSync' = TRUE
        BY <2>1, <2>6 DEF vgaWriteString, TxCheck, TxStop, TxGet, TxClear, TxRoom, TxGive,
                          TxStep, GiveWrite
    <3> QED BY <1>g, <3>1
  <2> QED BY <2>1, <2>2, <2>3, <2>4, <2>5, <2>6, TxStepFacts
<1>8. CASE ~Tx /\ \E ch \in Chars : tyIntRd(ch)
  <2>1. PICK ch \in Chars : tyIntRd(ch)
      BY <1>8
  <2>2. CASE ch = "xoff" /\ "TANDEM" \in options
      BY <2>1, <2>2, <1>k, <1>8 DEF tyIntRd
  <2>3. CASE ~(ch = "xoff" /\ "TANDEM" \in options)
    <3> DEFINE n == IF Echoes(ch) THEN Least(WriteSize, writeBuffer + EchoLen(ch))
                                  ELSE writeBuffer
    <3>1. /\ code' = code
          /\ \/ writeSync' = TRUE
             \/ writeBuffer' = n /\ UNCHANGED <<writeSync, eatenWrite>>
      <4>1. code' = code /\ \E asked : Transmits(asked, n)
          BY <2>1, <2>3 DEF tyIntRd, Received
      <4>2. PICK asked : Transmits(asked, n)
          BY <4>1
      <4> QED BY <4>1, <4>2 DEF Transmits, GiveWrite
    <3>2. EchoLen(ch) \in Nat
        BY DEF EchoLen
    <3>3. n >= writeBuffer /\ n \in Nat
        BY <1>f, <3>2, Sizes DEF Least
    <3>4. CASE writeBuffer' = n /\ UNCHANGED <<writeSync, eatenWrite>>
      <4>1. /\ WriteSize \in Nat /\ WriteTreshold \in Nat /\ writeBuffer \in Nat
            /\ WriteFree = WriteSize - writeBuffer
            /\ WriteFree' = WriteSize - writeBuffer'
          BY <1>f, Sizes
      <4>2. \A m, k, s, t \in Nat : k <= m /\ s - k < t => s - m < t
          OBVIOUS
      <4>3. writeBuffer' \in Nat /\ writeBuffer <= writeBuffer'
          BY <3>3, <3>4, <4>1
      <4>4. WriteFree < WriteTreshold => WriteFree' < WriteTreshold
          BY <4>1, <4>2, <4>3
      <4> QED BY <3>1, <3>4, <4>4, <1>l, <1>8 DEF WriterOK
    <3> QED BY <3>1, <3>4, <1>g
  <2> QED BY <2>2, <2>3
<1>9. CASE Cancel \/ FlushEnd
    BY <1>9, <1>g DEF Cancel, FlushEnd, tyFlushWrite, GiveWrite
<1>10. CASE ~Tx /\ (Flush \/ OptionsFlush)
  <2>1. \/ writeSync' = TRUE
        \/ UNCHANGED <<writeBuffer, writeSync, eatenWrite>>
      BY <1>10, TransmitsAll DEF Flush, OptionsFlush, tyFlushRead
  <2>2. code'[writer] = code[writer]
      BY <1>10, ControllerPlaces DEF WriterStays
  <2> QED BY <1>g, <1>k, <1>10, <2>1, <2>2
<1>11. CASE ~Tx /\ ((\E o \in AllOptions : SetOptions(o)) \/ OptionsFlow \/ OptionsXoff)
  <2>1. UNCHANGED <<writeBuffer, writeSync, eatenWrite>>
      BY <1>11 DEF SetOptions, OptionsFlow, OptionsXoff, writeVars
  <2>2. code'[writer] = code[writer]
      BY <1>11, ControllerPlaces DEF WriterStays
  <2> QED BY <1>k, <1>11, <2>1, <2>2
<1>12. CASE ~Tx /\ UNCHANGED vars
    BY <1>12, <1>k DEF vars, writeVars
<1> QED BY <1>1, <1>2, <1>3, <1>4, <1>5, <1>6, <1>7, <1>8, <1>9, <1>10, <1>11, <1>12
        DEF Next, Tx

-----------------------------------------------------------------------------
(***************************************************************************)
(* A stopped peer is released: whoever empties the read buffer looks at    *)
(* the flow control before it lets the mutex go, and without flow control  *)
(* no peer stays stopped once the change of the options is complete.       *)
(***************************************************************************)
Tandem == "TANDEM" \in options

PeerOK ==
    /\ readXoff /\ Tandem /\ (mutex # reader \/ At(reader, "leave")) => readBuffer # <<>>
    /\ readXoff /\ ~Tandem =>
          code[Controller].at \in {"options", "flow"} /\ code[Controller].clear

\* An empty buffer has room for the peer.
LEMMA EmptyHasRoom == ASSUME BufferOK
    PROVE /\ readBuffer = <<>> => Room(ReadFree, lnNBytes) > XonTreshold
          /\ readBuffer' = <<>> /\ lnNBytes' \in 0..(MaxLine - 1) =>
                ~(Room(ReadSize - Len(readBuffer'), lnNBytes') < XoffTreshold)
<1>1. /\ Len(<<>>) = 0 /\ lnNBytes \in 0..(MaxLine - 1)
      /\ ReadFree = ReadSize - Len(readBuffer)
    BY EmptySeq DEF BufferOK, ReadFree
<1>2. ASSUME NEW ln \in 0..(MaxLine - 1)
      PROVE  /\ Room(ReadSize - 0, ln) > XonTreshold
             /\ ~(Room(ReadSize - 0, ln) < XoffTreshold)
  <2>1. /\ ReadSize - (ln + 1) > XonTreshold /\ ReadSize > XonTreshold
        /\ ReadSize - (ln + 1) \in Int
      BY Sizes
  <2>2. CASE Line
    <3>1. Room(ReadSize - 0, ln) = ReadSize - (ln + 1)
        BY <2>2, Sizes DEF Room
    <3> QED BY <2>1, <3>1, Sizes
  <2>3. CASE ~Line
    <3>1. Room(ReadSize - 0, ln) = ReadSize
        BY <2>3, Sizes DEF Room
    <3> QED BY <2>1, <3>1, Sizes
  <2> QED BY <2>2, <2>3
<1> QED BY <1>1, <1>2

LEMMA PeerNext == ASSUME CodeOK, MutexOK, BufferOK, FlagsOK, PeerOK, [Next]_vars
    PROVE PeerOK'
<1> USE Apart
<1>1. CASE tyRead \/ ReadWoken \/ ReadLocked \/ ReadGet
  <2>1. UNCHANGED <<readBuffer, readXoff, options>>
      BY <1>1 DEF tyRead, ReadWoken, ReadLocked, ReadGet, readVars, flowVars
  <2>2. (mutex # reader /\ ~At(reader, "leave")') \/ At(reader, "got")'
      BY <1>1, ReaderPlaces DEF MutexOK, Reading, At
  <2>3. code'[Controller] = code[Controller]
      BY <1>1, ReaderPlaces DEF ControllerStays
  <2>4. At(reader, "got")' => mutex' = reader
      BY <1>1, <2>2, CodeNext DEF MutexOK, Reading, At
  <2> QED BY <2>1, <2>2, <2>3, <2>4 DEF PeerOK, Tandem, At
<1>2. CASE ReadGot
  <2>1. UNCHANGED <<readXoff, options>> /\ mutex' = reader /\ ~At(reader, "leave")'
      BY <1>2, ReaderPlaces DEF ReadGot, flowVars, MutexOK, Reading, At
  <2>2. code'[Controller] = code[Controller]
      BY <1>2, ReaderPlaces DEF ControllerStays
  <2> QED BY <2>1, <2>2 DEF PeerOK, Tandem
<1>3. CASE ReadXon
  <2>1. UNCHANGED <<readBuffer, readXoff, options>> /\ mutex' = reader
      BY <1>3, ReaderPlaces DEF ReadXon, readVars, flowVars, MutexOK, Reading
  <2>2. code'[Controller] = code[Controller]
      BY <1>3, ReaderPlaces DEF ControllerStays
  <2>3. At(reader, "leave")' /\ readXoff /\ Tandem => readBuffer # <<>>
    <3>1. At(reader, "leave")' /\ readXoff /\ Tandem =>
              ~(Room(ReadFree, lnNBytes) > XonTreshold)
        BY <1>3, ReaderPlaces DEF Tandem, At
    <3> QED BY <3>1, EmptyHasRoom
  <2> QED BY <2>1, <2>2, <2>3 DEF PeerOK, Tandem
<1>4. CASE ReadReleases
  <2>1. readXoff' = FALSE
      BY <1>4 DEF ReadReleases, tyReadXoff, flowVars
  <2> QED BY <2>1 DEF PeerOK
<1>5. CASE ReadEnd
  <2>1. UNCHANGED <<readBuffer, readXoff, options>> /\ At(reader, "leave")
      BY <1>5 DEF ReadEnd, flowVars
  <2>2. code'[Controller] = code[Controller]
      BY <1>5, ReaderPlaces DEF ControllerStays
  <2> QED BY <2>1, <2>2 DEF PeerOK, Tandem
<1>6. CASE tyWrite \/ WriteWoken \/ WriteLocked \/ WritePut \/ WriteStart \/ WriteLock
              \/ WriteLooks \/ WriteEnd
  <2>1. UNCHANGED <<readBuffer, readXoff, options>>
      BY <1>6 DEF tyWrite, WriteWoken, WriteLocked, WritePut, WriteStart, WriteLock,
                  WriteLooks, WriteEnd, WriteLeaves, readVars, flowVars
  <2>2. code'[reader] = code[reader] /\ code'[Controller] = code[Controller]
      BY <1>6, WriterPlaces DEF ReaderStays, ControllerStays
  <2>3. mutex' = reader <=> mutex = reader
      BY <2>2, CodeNext DEF MutexOK
  <2> QED BY <2>1, <2>2, <2>3 DEF PeerOK, Tandem, At
<1>7. CASE (\E t \in Tasks : vgaWriteString(t)) \/ Cancel
  <2>1. UNCHANGED <<readBuffer, readXoff, options, code, mutex>>
      BY <1>7, TransmitterLeaves DEF Cancel, flowVars
  <2> QED BY <2>1 DEF PeerOK, Tandem, At
<1>8. CASE \E ch \in Chars : tyIntRd(ch)
  <2>1. PICK ch \in Chars : tyIntRd(ch)
      BY <1>8
  <2>2. CASE ch = "xoff" /\ "TANDEM" \in options
    <3>1. UNCHANGED <<readBuffer, readXoff, options, code, mutex>>
        BY <2>1, <2>2 DEF tyIntRd, readVars, flowVars
    <3> QED BY <3>1 DEF PeerOK, Tandem, At
  <2>3. CASE ~(ch = "xoff" /\ "TANDEM" \in options)
    <3>1. Received(ch)
        BY <2>1, <2>3 DEF tyIntRd
    <3>2. UNCHANGED <<options, code, mutex>>
        BY <3>1 DEF Received
    <3>3. IF Line THEN PutLine(ch) ELSE PutRaw
        BY <3>1 DEF Received
    <3>4. readBuffer' = <<>> => readBuffer = <<>>
      <4>1. Len(readBuffer') >= Len(readBuffer) /\ readBuffer' \in Seq(Byte)
          BY <3>3, ReadBufferNext
      <4>2. Len(readBuffer) \in Nat /\ (readBuffer # <<>> => Len(readBuffer) > 0)
          BY LenProperties, EmptySeq DEF BufferOK
      <4> QED BY <4>1, <4>2, EmptySeq
    <3>5. readXoff' => readXoff \/ (Tandem /\ readBuffer' # <<>>)
      <4>1. lnNBytes' \in 0..(MaxLine - 1)
          BY <3>3, ReadBufferNext
      <4>2. readXoff' => \/ readXoff
                         \/ /\ Tandem
                            /\ Room(ReadSize - Len(readBuffer'), lnNBytes') < XoffTreshold
          BY <3>1 DEF Received, Tandem, FlagsOK
      <4> QED BY <4>1, <4>2, EmptyHasRoom
    <3> QED BY <3>2, <3>4, <3>5 DEF PeerOK, Tandem, At
  <2> QED BY <2>2, <2>3
<1>9. CASE Flush \/ OptionsFlush
  <2>1. readXoff' = FALSE
      BY <1>9 DEF Flush, OptionsFlush, tyFlushRead
  <2> QED BY <2>1 DEF PeerOK
<1>10. CASE FlushEnd
  <2>1. UNCHANGED <<readBuffer, readXoff, options, mutex>>
      BY <1>10 DEF FlushEnd, tyFlushWrite, readVars, flowVars
  <2>2. code[Controller].at \notin {"options", "flow"} /\ code'[reader] = code[reader]
      BY <1>10, ControllerPlaces DEF ReaderStays
  <2> QED BY <2>1, <2>2 DEF PeerOK, Tandem, At
<1>11. CASE \E o \in AllOptions : SetOptions(o)
  <2>1. PICK o \in AllOptions : SetOptions(o)
      BY <1>11
  <2>2. UNCHANGED <<readBuffer, readXoff, mutex>> /\ options' = o
      BY <2>1 DEF SetOptions, readVars, flowVars
  <2>3. /\ code[Controller].at = "idle" /\ code'[Controller].at \in {"options", "flow"}
        /\ code'[Controller].clear = ("TANDEM" \in options \ o)
        /\ code'[reader] = code[reader]
      BY <2>1, ControllerPlaces DEF ReaderStays
  <2>4. readXoff => Tandem
      BY <2>3 DEF PeerOK
  <2> QED BY <2>2, <2>3, <2>4 DEF PeerOK, Tandem, At
<1>12. CASE OptionsFlow
  <2>1. UNCHANGED <<readBuffer, options, mutex>>
      BY <1>12 DEF OptionsFlow, readVars
  <2>2. code'[reader] = code[reader] /\ code[Controller].at = "flow"
      BY <1>12, ControllerPlaces DEF ReaderStays
  <2>3. CASE code[Controller].clear
    <3>1. readXoff' = FALSE
        BY <1>12, <2>3 DEF OptionsFlow, tyReadXoff, flowVars
    <3> QED BY <3>1 DEF PeerOK
  <2>4. CASE ~code[Controller].clear
    <3>1. readXoff' = readXoff
        BY <1>12, <2>4 DEF OptionsFlow, flowVars
    <3> QED BY <2>1, <2>2, <2>4, <3>1 DEF PeerOK, Tandem, At
  <2> QED BY <2>3, <2>4
<1>13. CASE OptionsXoff
  <2>1. UNCHANGED <<readBuffer, readXoff, options, mutex>>
      BY <1>13 DEF OptionsXoff, readVars
  <2>2. code[Controller].at = "wxoff" /\ code'[reader] = code[reader]
      BY <1>13, ControllerPlaces DEF ReaderStays
  <2> QED BY <2>1, <2>2 DEF PeerOK, Tandem, At
<1>14. CASE UNCHANGED vars
    BY <1>14 DEF vars, readVars, flowVars, PeerOK, Tandem, At
<1> QED BY <1>1, <1>2, <1>3, <1>4, <1>5, <1>6, <1>7, <1>8, <1>9, <1>10, <1>11,
           <1>12, <1>13, <1>14 DEF Next

-----------------------------------------------------------------------------
(***************************************************************************)
(* Lines.                                                                  *)
(***************************************************************************)
\* Where the lengths are in s, and where they should be when left characters
\* of a line come first.
LengthsOf(s) == {i \in 1..Len(s) : s[i] # Char}
Starts(s, left) == {left + 1} \cup {i + 1 + Value(s[i]) : i \in LengthsOf(s)}

Whole(s, left) == Starts(s, left) = LengthsOf(s) \cup {Len(s) + 1}

LEMMA StartsFacts == ASSUME NEW s \in Seq(Byte), NEW left \in Nat
    PROVE /\ Len(s) \in Nat
          /\ \A i \in LengthsOf(s) : i \in 1..Len(s) /\ Value(s[i]) \in Nat
          /\ Starts(s, left) \subseteq Nat \ {0}
<1>1. Len(s) \in Nat
    BY LenProperties
<1>2. ASSUME NEW i \in LengthsOf(s) PROVE i \in 1..Len(s) /\ Value(s[i]) \in Nat
  <2>1. i \in 1..Len(s)
      BY DEF LengthsOf
  <2> QED BY <2>1, ElementOfSeq, ValueFacts
<1> QED BY <1>1, <1>2 DEF Starts

LEMMA WholeEmpty == Whole(<<>>, 0)
<1>1. LengthsOf(<<>>) = {} /\ Len(<<>>) = 0
    BY EmptySeq DEF LengthsOf
<1> QED BY <1>1 DEF Whole, Starts

\* A line that is put behind whole lines.
LEMMA WholeAppend == ASSUME NEW s \in Seq(Byte), NEW t \in Seq(Byte), NEW left \in Nat,
                            Whole(s, left), NEW ln \in 0..MaxLine,
                            Len(t) = Len(s) + 1 + ln,
                            \A i \in 1..Len(s) : t[i] = s[i],
                            t[Len(s) + 1] = Length(ln),
                            \A i \in (Len(s) + 2)..Len(t) : t[i] = Char
    PROVE Whole(t, left)
<1>1. Len(s) \in Nat /\ Len(t) \in Nat /\ ln \in Nat
    BY StartsFacts, Sizes
<1>2. LengthsOf(t) = LengthsOf(s) \cup {Len(s) + 1}
  <2>1. ASSUME NEW i \in 1..Len(t)
        PROVE  t[i] # Char <=> i = Len(s) + 1 \/ i \in LengthsOf(s)
    <3>1. CASE i \in 1..Len(s)
        BY <1>1, <3>1 DEF LengthsOf
    <3>2. CASE i = Len(s) + 1
        BY <3>2, ValueFacts
    <3>3. CASE i \in (Len(s) + 2)..Len(t)
        BY <1>1, <3>3 DEF LengthsOf
    <3> QED BY <1>1, <3>1, <3>2, <3>3
  <2>2. LengthsOf(s) \subseteq 1..Len(t) /\ Len(s) + 1 \in 1..Len(t)
      BY <1>1 DEF LengthsOf
  <2> QED BY <2>1, <2>2 DEF LengthsOf
<1>3. \A i \in LengthsOf(s) : t[i] = s[i]
    BY DEF LengthsOf
<1>4. Value(t[Len(s) + 1]) = ln
    BY ValueFacts
<1>5. {i + 1 + Value(t[i]) : i \in LengthsOf(t)}
        = {i + 1 + Value(s[i]) : i \in LengthsOf(s)} \cup {Len(s) + 1 + 1 + ln}
    BY <1>2, <1>3, <1>4
<1>6. Len(s) + 1 + 1 + ln = Len(t) + 1
    BY <1>1
<1> QED BY <1>2, <1>5, <1>6 DEF Whole, Starts

\* The length of the first line is taken out.
LEMMA WholeHeader == ASSUME NEW s \in Seq(Byte), s # <<>>, Whole(s, 0),
                            NEW t \in Seq(Byte), Len(t) = Len(s) - 1,
                            \A i \in 1..Len(t) : t[i] = s[i + 1]
    PROVE Whole(t, Value(s[1])) /\ Value(s[1]) \in Nat
<1>1. Len(s) \in Nat /\ Len(s) > 0 /\ Len(t) \in Nat
    BY EmptySeq, StartsFacts
<1>2. 1 \in LengthsOf(s)
  <2>1. 1 \in Starts(s, 0)
      BY DEF Starts
  <2> QED BY <1>1, <2>1 DEF Whole
<1>3. Value(s[1]) \in Nat
    BY <1>2, StartsFacts
<1>4. ASSUME NEW k \in Nat \ {0}
      PROVE  k \in LengthsOf(t) <=> k + 1 \in LengthsOf(s)
    BY <1>1 DEF LengthsOf
<1>5. ASSUME NEW k \in Nat \ {0}
      PROVE  k \in Starts(t, Value(s[1])) <=> k + 1 \in Starts(s, 0)
  <2>1. ASSUME k \in Starts(t, Value(s[1])) PROVE k + 1 \in Starts(s, 0)
    <3>1. CASE k = Value(s[1]) + 1
      <4>1. k + 1 = 1 + 1 + Value(s[1])
          BY <1>3, <3>1
      <4> QED BY <1>2, <4>1 DEF Starts
    <3>2. CASE \E i \in LengthsOf(t) : k = i + 1 + Value(t[i])
      <4>1. PICK i \in LengthsOf(t) : k = i + 1 + Value(t[i])
          BY <3>2
      <4>2. i \in 1..Len(t) /\ Value(t[i]) \in Nat /\ t[i] = s[i + 1]
          BY StartsFacts, <1>3, <4>1
      <4>3. i + 1 \in LengthsOf(s)
          BY <1>4, <4>2
      <4>4. k + 1 = (i + 1) + 1 + Value(s[i + 1])
          BY <4>1, <4>2
      <4> QED BY <4>3, <4>4 DEF Starts
    <3> QED BY <2>1, <3>1, <3>2 DEF Starts
  <2>2. ASSUME k + 1 \in Starts(s, 0) PROVE k \in Starts(t, Value(s[1]))
    <3>1. k + 1 # 0 + 1
        OBVIOUS
    <3>2. PICK i \in LengthsOf(s) : k + 1 = i + 1 + Value(s[i])
        BY <2>2, <3>1 DEF Starts
    <3>3. i \in 1..Len(s) /\ Value(s[i]) \in Nat
        BY StartsFacts
    <3>4. CASE i = 1
      <4>1. k = Value(s[1]) + 1
          BY <3>2, <3>3, <3>4
      <4> QED BY <4>1 DEF Starts
    <3>5. CASE i # 1
      <4>1. i - 1 \in Nat \ {0} /\ i = (i - 1) + 1
          BY <3>3, <3>5
      <4>2. i - 1 \in LengthsOf(t)
          BY <1>4, <4>1
      <4>3. t[i - 1] = s[i]
          BY <1>1, <3>3, <4>1
      <4>4. k = (i - 1) + 1 + Value(t[i - 1])
          BY <3>2, <3>3, <4>3
      <4> QED BY <4>2, <4>4 DEF Starts
    <3> QED BY <3>4, <3>5
  <2> QED BY <2>1, <2>2
<1>6. ASSUME NEW k \in Nat \ {0}
      PROVE  k \in Starts(t, Value(s[1])) <=> k \in LengthsOf(t) \/ k = Len(t) + 1
  <2>1. k + 1 \in Starts(s, 0) <=> k + 1 \in LengthsOf(s) \/ k + 1 = Len(s) + 1
      BY DEF Whole
  <2>2. k + 1 = Len(s) + 1 <=> k = Len(t) + 1
      BY <1>1
  <2>3. k \in LengthsOf(t) <=> k + 1 \in LengthsOf(s)
      BY <1>4
  <2>4. k \in Starts(t, Value(s[1])) <=> k + 1 \in Starts(s, 0)
      BY <1>5
  <2> QED BY <2>1, <2>2, <2>3, <2>4
<1>7. Starts(t, Value(s[1])) \subseteq Nat \ {0}
    BY <1>3, StartsFacts
<1>8. LengthsOf(t) \subseteq Nat \ {0} /\ Len(t) + 1 \in Nat \ {0}
    BY <1>1 DEF LengthsOf
<1> QED BY <1>3, <1>6, <1>7, <1>8 DEF Whole

\* No length is among the characters that are left of a line.
LEMMA NoLengthBefore == ASSUME NEW s \in Seq(Byte), NEW left \in Nat, Whole(s, left)
    PROVE /\ \A i \in LengthsOf(s) : i > left
          /\ left <= Len(s)
<1>1. Len(s) \in Nat
    BY StartsFacts
<1>2. left + 1 \in LengthsOf(s) \cup {Len(s) + 1}
    BY DEF Whole, Starts
<1>3. left <= Len(s)
    BY <1>1, <1>2 DEF LengthsOf
<1> DEFINE T == {i \in LengthsOf(s) : i <= left}
<1>4. ASSUME T # {} PROVE FALSE
  <2>1. T \subseteq Nat
      BY <1>1 DEF LengthsOf
  <2>2. PICK i \in T : \A j \in T : ~(<<j, i>> \in OpToRel(<, Nat))
      BY <1>4, <2>1, NatLessThanWellFounded, WFMin
  <2>3. i \in LengthsOf(s) /\ i \in Nat /\ i <= left /\ i \in 1..Len(s)
      BY <2>1 DEF LengthsOf
  <2>4. i \in Starts(s, left) /\ i # left + 1
      BY <2>3 DEF Whole
  <2>5. PICK j \in LengthsOf(s) : i = j + 1 + Value(s[j])
      BY <2>4 DEF Starts
  <2>6. j \in 1..Len(s) /\ Value(s[j]) \in Nat
      BY StartsFacts
  <2>7. j < i /\ j \in Nat
      BY <2>3, <2>5, <2>6
  <2>8. j \in T
      BY <2>3, <2>7
  <2>9. <<j, i>> \in OpToRel(<, Nat)
      BY <2>3, <2>7 DEF OpToRel
  <2> QED BY <2>2, <2>8, <2>9
<1>5. \A i \in LengthsOf(s) : i \in Nat
    BY <1>1 DEF LengthsOf
<1> QED BY <1>3, <1>4, <1>5

\* Characters of the line that is being read are taken out.
LEMMA WholeDrop == ASSUME NEW s \in Seq(Byte), NEW left \in Nat, Whole(s, left),
                          NEW n \in 0..left, NEW t \in Seq(Byte),
                          Len(t) = Len(s) - n,
                          \A i \in 1..Len(t) : t[i] = s[n + i]
    PROVE Whole(t, left - n)
<1>1. /\ Len(s) \in Nat /\ Len(t) \in Nat /\ n \in Nat /\ left - n \in Nat
      /\ n <= Len(s)
    BY StartsFacts, NoLengthBefore
<1>2. ASSUME NEW k \in Nat \ {0}
      PROVE  k \in LengthsOf(t) <=> n + k \in LengthsOf(s)
    BY <1>1 DEF LengthsOf
<1>3. ASSUME NEW k \in Nat \ {0}
      PROVE  k \in Starts(t, left - n) <=> n + k \in Starts(s, left)
  <2>1. ASSUME k \in Starts(t, left - n) PROVE n + k \in Starts(s, left)
    <3>1. CASE k = left - n + 1
      <4>1. n + k = left + 1
          BY <1>1, <3>1
      <4> QED BY <4>1 DEF Starts
    <3>2. CASE \E i \in LengthsOf(t) : k = i + 1 + Value(t[i])
      <4>1. PICK i \in LengthsOf(t) : k = i + 1 + Value(t[i])
          BY <3>2
      <4>2. i \in 1..Len(t) /\ Value(t[i]) \in Nat /\ t[i] = s[n + i]
          BY StartsFacts, <1>1, <4>1
      <4>3. n + i \in LengthsOf(s)
          BY <1>2, <4>2
      <4>4. n + k = (n + i) + 1 + Value(s[n + i])
          BY <1>1, <4>1, <4>2
      <4> QED BY <4>3, <4>4 DEF Starts
    <3> QED BY <2>1, <3>1, <3>2 DEF Starts
  <2>2. ASSUME n + k \in Starts(s, left) PROVE k \in Starts(t, left - n)
    <3>1. CASE n + k = left + 1
      <4>1. k = left - n + 1
          BY <1>1, <3>1
      <4> QED BY <4>1 DEF Starts
    <3>2. CASE \E i \in LengthsOf(s) : n + k = i + 1 + Value(s[i])
      <4>1. PICK i \in LengthsOf(s) : n + k = i + 1 + Value(s[i])
          BY <3>2
      <4>2. i \in 1..Len(s) /\ Value(s[i]) \in Nat /\ i > left
          BY StartsFacts, NoLengthBefore
      <4>3. i - n \in Nat \ {0} /\ i = n + (i - n)
          BY <1>1, <4>2
      <4>4. i - n \in LengthsOf(t)
          BY <1>2, <4>3
      <4>5. t[i - n] = s[i]
          BY <1>1, <4>2, <4>3
      <4>6. k = (i - n) + 1 + Value(t[i - n])
        <5>1. Value(t[i - n]) = Value(s[i])
            BY <4>5
        <5>2. \A v \in Nat : n + k = i + 1 + v => k = (i - n) + 1 + v
            BY <1>1, <4>2
        <5> QED BY <4>1, <4>2, <5>1, <5>2
      <4> QED BY <4>4, <4>6 DEF Starts
    <3> QED BY <2>2, <3>1, <3>2 DEF Starts
  <2> QED BY <2>1, <2>2
<1>4. ASSUME NEW k \in Nat \ {0}
      PROVE  k \in Starts(t, left - n) <=> k \in LengthsOf(t) \/ k = Len(t) + 1
  <2>1. n + k \in Starts(s, left) <=> n + k \in LengthsOf(s) \/ n + k = Len(s) + 1
      BY DEF Whole
  <2> QED BY <1>1, <1>2, <1>3, <2>1
<1>5. Starts(t, left - n) \subseteq Nat \ {0}
    BY <1>1, StartsFacts
<1>6. LengthsOf(t) \subseteq Nat \ {0} /\ Len(t) + 1 \in Nat \ {0}
    BY <1>1 DEF LengthsOf
<1> QED BY <1>4, <1>5, <1>6 DEF Whole

\* What a reader leaves of s when it takes b bytes.
LEMMA RestOf == ASSUME NEW s \in Seq(Byte), NEW b \in 0..Len(s)
    PROVE /\ SubSeq(s, b + 1, Len(s)) \in Seq(Byte)
          /\ Len(SubSeq(s, b + 1, Len(s))) = Len(s) - b
          /\ \A i \in 1..(Len(s) - b) : SubSeq(s, b + 1, Len(s))[i] = s[b + i]
<1>1. Len(s) \in Nat /\ b \in Nat /\ b <= Len(s)
    BY StartsFacts
<1>2. \A i \in (b + 1)..Len(s) : s[i] \in Byte
    BY <1>1, ElementOfSeq
<1>3. /\ SubSeq(s, b + 1, Len(s)) \in Seq(Byte)
      /\ Len(SubSeq(s, b + 1, Len(s))) = IF b + 1 <= Len(s) THEN Len(s) - (b + 1) + 1 ELSE 0
      /\ \A i \in 1..(Len(s) - (b + 1) + 1) : SubSeq(s, b + 1, Len(s))[i] = s[b + 1 + i - 1]
  <2>1. b + 1 \in Int /\ Len(s) \in Int
      BY <1>1
  <2> QED BY <1>2, <2>1, SubSeqProperties
<1>4. ASSUME NEW i \in 1..(Len(s) - b) PROVE SubSeq(s, b + 1, Len(s))[i] = s[b + i]
  <2>1. b + 1 + i - 1 = b + i /\ i \in 1..(Len(s) - (b + 1) + 1)
      BY <1>1
  <2> QED BY <1>3, <2>1
<1> QED BY <1>1, <1>3, <1>4

LEMMA TypedIs == ASSUME BufferOK, NEW ln \in 0..MaxLine
    PROVE /\ \A i \in 1..Len(readBuffer) : Typed(ln)[i] = readBuffer[i]
          /\ Typed(ln)[Len(readBuffer) + 1] = Length(ln)
          /\ \A i \in (Len(readBuffer) + 2)..(Len(readBuffer) + 1 + ln) : Typed(ln)[i] = Char
<1> DEFINE chars == [i \in 1..ln |-> Char]
           head == readBuffer \o <<Length(ln)>>
<1>1. chars \in Seq(Byte) /\ Len(chars) = ln /\ \A i \in 1..ln : chars[i] = Char
  <2>1. chars \in [1..ln -> Byte]
      BY ValueFacts
  <2> QED BY <2>1
<1>2. /\ readBuffer \in Seq(Byte) /\ Len(readBuffer) \in Nat /\ ln \in Nat
      /\ <<Length(ln)>> \in Seq(Byte) /\ Len(<<Length(ln)>>) = 1
      /\ <<Length(ln)>>[1] = Length(ln)
    BY ValueFacts, LenProperties, Sizes DEF BufferOK
<1>3. /\ head \in Seq(Byte) /\ Len(head) = Len(readBuffer) + 1
      /\ \A i \in 1..Len(readBuffer) : head[i] = readBuffer[i]
      /\ head[Len(readBuffer) + 1] = Length(ln)
  <2>1. /\ head \in Seq(Byte) /\ Len(head) = Len(readBuffer) + 1
        /\ \A i \in 1..(Len(readBuffer) + 1) :
              head[i] = IF i <= Len(readBuffer) THEN readBuffer[i]
                        ELSE <<Length(ln)>>[i - Len(readBuffer)]
      BY <1>2, ConcatProperties
  <2>2. ASSUME NEW i \in 1..Len(readBuffer) PROVE head[i] = readBuffer[i]
      BY <1>2, <2>1
  <2>3. head[Len(readBuffer) + 1] = Length(ln)
    <3>1. /\ Len(readBuffer) + 1 \in 1..(Len(readBuffer) + 1)
          /\ ~(Len(readBuffer) + 1 <= Len(readBuffer))
          /\ Len(readBuffer) + 1 - Len(readBuffer) = 1
        BY <1>2
    <3> QED BY <1>2, <2>1, <3>1
  <2> QED BY <2>1, <2>2, <2>3
<1> HIDE DEF chars, head
<1>4. \A i \in 1..(Len(readBuffer) + 1 + ln) :
          (head \o chars)[i] = IF i <= Len(readBuffer) + 1 THEN head[i]
                               ELSE chars[i - (Len(readBuffer) + 1)]
    BY <1>1, <1>3, ConcatProperties
<1>5. Typed(ln) = head \o chars
    BY DEF Typed, head, chars
<1>6. ASSUME NEW i \in 1..Len(readBuffer) PROVE Typed(ln)[i] = readBuffer[i]
  <2>1. i \in 1..(Len(readBuffer) + 1 + ln) /\ i <= Len(readBuffer) + 1
      BY <1>2
  <2> QED BY <1>3, <1>4, <1>5, <2>1
<1>7. Typed(ln)[Len(readBuffer) + 1] = Length(ln)
  <2>1. Len(readBuffer) + 1 \in 1..(Len(readBuffer) + 1 + ln)
      BY <1>2
  <2> QED BY <1>2, <1>3, <1>4, <1>5, <2>1
<1>8. ASSUME NEW i \in (Len(readBuffer) + 2)..(Len(readBuffer) + 1 + ln)
      PROVE  Typed(ln)[i] = Char
  <2>1. /\ i \in 1..(Len(readBuffer) + 1 + ln) /\ ~(i <= Len(readBuffer) + 1)
        /\ i - (Len(readBuffer) + 1) \in 1..ln
      BY <1>2
  <2> QED BY <1>1, <1>4, <1>5, <2>1
<1> QED BY <1>6, <1>7, <1>8

LinesOK ==
    Line /\ ~At(Controller, "options") =>
        IF At(reader, "got")
          THEN Whole(SubSeq(readBuffer, code[reader].bytes + 1, Len(readBuffer)),
                     code[reader].left)
          ELSE Whole(readBuffer, lnBytesLeft)

\* A line that becomes visible.
LEMMA LinesTyped == ASSUME CodeOK, BufferOK, LinesOK, Line, ~At(Controller, "options"),
                           NEW ln \in 0..MaxLine, ln + 1 <= ReadFree,
                           readBuffer' = Typed(ln), UNCHANGED <<code, lnBytesLeft>>
    PROVE IF At(reader, "got")
            THEN Whole(SubSeq(readBuffer', code[reader].bytes + 1, Len(readBuffer')),
                       code[reader].left)
            ELSE Whole(readBuffer', lnBytesLeft)
<1>1. /\ readBuffer \in Seq(Byte) /\ readBuffer' \in Seq(Byte) /\ Len(readBuffer) \in Nat
      /\ Len(readBuffer') = Len(readBuffer) + 1 + ln /\ ln \in Nat
    BY TypedFacts, LenProperties, Sizes DEF BufferOK
<1>2. /\ \A i \in 1..Len(readBuffer) : readBuffer'[i] = readBuffer[i]
      /\ readBuffer'[Len(readBuffer) + 1] = Length(ln)
      /\ \A i \in (Len(readBuffer) + 2)..Len(readBuffer') : readBuffer'[i] = Char
    BY <1>1, TypedIs
<1>3. CASE ~At(reader, "got")
  <2>1. Whole(readBuffer, lnBytesLeft) /\ lnBytesLeft \in Nat
      BY <1>3 DEF LinesOK, BufferOK
  <2> QED BY <1>1, <1>2, <1>3, <2>1, WholeAppend
<1>4. CASE At(reader, "got")
  <2> DEFINE b == code[reader].bytes
             s == SubSeq(readBuffer, b + 1, Len(readBuffer))
             t == SubSeq(readBuffer', b + 1, Len(readBuffer'))
             left == code[reader].left
  <2>1. b \in Nat /\ left \in Nat /\ b <= Len(readBuffer) /\ Whole(s, left)
    <3>1. code[reader] \in [at : {"got"}, bytes : Nat, left : Nat]
        BY <1>4 DEF CodeOK, ReaderCode, At
    <3> QED BY <1>4, <3>1 DEF LinesOK, BufferOK
  <2>2. /\ s \in Seq(Byte) /\ Len(s) = Len(readBuffer) - b
        /\ \A i \in 1..(Len(readBuffer) - b) : s[i] = readBuffer[b + i]
    <3>1. b \in 0..Len(readBuffer)
        BY <1>1, <2>1
    <3> QED BY <1>1, <3>1, RestOf
  <2>3. /\ t \in Seq(Byte) /\ Len(t) = Len(readBuffer') - b
        /\ \A i \in 1..(Len(readBuffer') - b) : t[i] = readBuffer'[b + i]
    <3>1. b \in 0..Len(readBuffer')
        BY <1>1, <2>1
    <3> QED BY <1>1, <3>1, RestOf
  <2> HIDE DEF s, t, b, left
  <2>4. Len(t) = Len(s) + 1 + ln
      BY <1>1, <2>1, <2>2, <2>3
  <2>5. ASSUME NEW i \in 1..Len(s) PROVE t[i] = s[i]
    <3>1. b + i \in 1..Len(readBuffer) /\ i \in 1..(Len(readBuffer') - b)
        BY <1>1, <2>1, <2>2
    <3> QED BY <1>2, <2>2, <2>3, <3>1
  <2>6. t[Len(s) + 1] = Length(ln)
    <3>1. Len(s) + 1 \in 1..(Len(readBuffer') - b) /\ b + (Len(s) + 1) = Len(readBuffer) + 1
        BY <1>1, <2>1, <2>2
    <3> QED BY <1>2, <2>3, <3>1
  <2>7. ASSUME NEW i \in (Len(s) + 2)..Len(t) PROVE t[i] = Char
    <3>1. /\ i \in 1..(Len(readBuffer') - b)
          /\ b + i \in (Len(readBuffer) + 2)..Len(readBuffer')
        BY <1>1, <2>1, <2>2, <2>3
    <3> QED BY <1>2, <2>3, <3>1
  <2>8. Whole(t, left)
      BY <2>1, <2>2, <2>3, <2>4, <2>5, <2>6, <2>7, WholeAppend
  <2> QED BY <1>4, <2>8 DEF t, b, left
<1> QED BY <1>3, <1>4

\* What tyRead takes out of whole lines.
LEMMA LinesTaken == ASSUME CodeOK, BufferOK, LinesOK, Line, ~At(Controller, "options"), ReadGet
    PROVE Whole(SubSeq(readBuffer, code'[reader].bytes + 1, Len(readBuffer)),
                code'[reader].left)
<1> DEFINE header == lnBytesLeft = 0
           v == IF header THEN Value(Head(readBuffer)) ELSE lnBytesLeft
           n == Least(v, code[reader].n)
           skip == IF header THEN 1 ELSE 0
           bytes == skip + Least(n, Len(readBuffer) - skip)
<1>1. /\ readBuffer # <<>> /\ readBuffer \in Seq(Byte) /\ code[reader].n \in Nat
      /\ lnBytesLeft \in Nat /\ Len(readBuffer) \in Nat /\ Len(readBuffer) > 0
      /\ Whole(readBuffer, lnBytesLeft)
  <2>1. code[reader].at = "get"
      BY DEF ReadGet, At
  <2>2. code[reader].n \in Nat
      BY <2>1 DEF CodeOK, ReaderCode
  <2> QED BY <2>1, <2>2, EmptySeq DEF BufferOK, LinesOK, At
<1>2. Head(readBuffer) = readBuffer[1]
    BY <1>1
<1>3. code'[reader] = [at |-> "got", bytes |-> bytes, left |-> v - n]
  <2>1. Goto(reader, [at |-> "got", bytes |-> bytes, left |-> v - n])
      BY DEF ReadGet
  <2> QED BY <2>1, Goes, Apart
<1> DEFINE s == IF header THEN SubSeq(readBuffer, 2, Len(readBuffer)) ELSE readBuffer
<1>4. /\ s \in Seq(Byte) /\ Len(s) = Len(readBuffer) - skip /\ v \in Nat /\ Whole(s, v)
      /\ \A i \in 1..Len(s) : s[i] = readBuffer[skip + i]
  <2>1. CASE header
    <3>1. /\ SubSeq(readBuffer, 1 + 1, Len(readBuffer)) \in Seq(Byte)
          /\ Len(SubSeq(readBuffer, 1 + 1, Len(readBuffer))) = Len(readBuffer) - 1
          /\ \A i \in 1..(Len(readBuffer) - 1) :
                SubSeq(readBuffer, 1 + 1, Len(readBuffer))[i] = readBuffer[1 + i]
      <4>1. 1 \in 0..Len(readBuffer)
          BY <1>1
      <4> QED BY <1>1, <4>1, RestOf
    <3>2. s = SubSeq(readBuffer, 1 + 1, Len(readBuffer)) /\ skip = 1
        BY <2>1
    <3> HIDE DEF s
    <3>3. s \in Seq(Byte) /\ Len(s) = Len(readBuffer) - 1
        BY <3>1, <3>2
    <3>4. \A i \in 1..Len(s) : s[i] = readBuffer[1 + i]
        BY <3>1, <3>2
    <3>5. \A i \in 1..Len(s) : s[i] = readBuffer[i + 1]
      <4>1. \A i \in 1..Len(s) : i + 1 = 1 + i
          OBVIOUS
      <4> QED BY <3>4, <4>1
    <3>6. Whole(readBuffer, 0)
        BY <1>1, <2>1
    <3>7. Whole(s, Value(readBuffer[1])) /\ Value(readBuffer[1]) \in Nat
        BY <1>1, <3>3, <3>5, <3>6, WholeHeader
    <3>8. v = Value(readBuffer[1])
        BY <1>2, <2>1
    <3> QED BY <3>2, <3>3, <3>4, <3>7, <3>8
  <2>2. CASE ~header
    <3>1. s = readBuffer /\ skip = 0 /\ v = lnBytesLeft
        BY <2>2
    <3>2. \A i \in 1..Len(readBuffer) : 0 + i = i
        OBVIOUS
    <3> HIDE DEF s, v, skip
    <3> QED BY <1>1, <3>1, <3>2
  <2> QED BY <2>1, <2>2
<1>5. n \in 0..v /\ v <= Len(s)
  <2>1. n \in Nat /\ n <= v
      BY <1>1, <1>4, LeastFacts
  <2>2. v <= Len(s)
      BY <1>4, NoLengthBefore
  <2> QED BY <1>4, <2>1, <2>2
<1>6. skip \in {0, 1}
    OBVIOUS
<1> HIDE DEF s, v, skip, n
<1>7. bytes = skip + n /\ bytes \in 0..Len(readBuffer)
  <2>1. n <= Len(readBuffer) - skip /\ n \in Nat
      BY <1>1, <1>4, <1>5, <1>6
  <2>2. Least(n, Len(readBuffer) - skip) = n
      BY <1>1, <1>6, <2>1 DEF Least
  <2> QED BY <1>1, <1>6, <2>1, <2>2
<1> DEFINE t == SubSeq(readBuffer, bytes + 1, Len(readBuffer))
<1> HIDE DEF bytes
<1>8. /\ t \in Seq(Byte) /\ Len(t) = Len(readBuffer) - bytes
      /\ \A i \in 1..(Len(readBuffer) - bytes) : t[i] = readBuffer[bytes + i]
    BY <1>1, <1>7, RestOf
<1> HIDE DEF t
<1>9. Len(t) = Len(s) - n
    BY <1>1, <1>4, <1>5, <1>6, <1>7, <1>8
<1>10. ASSUME NEW i \in 1..Len(t) PROVE t[i] = s[n + i]
  <2>1. n + i \in 1..Len(s) /\ skip + (n + i) = bytes + i /\ i \in 1..(Len(readBuffer) - bytes)
      BY <1>1, <1>4, <1>5, <1>6, <1>7, <1>8, <1>9
  <2> QED BY <1>4, <1>8, <2>1
<1>11. Whole(t, v - n)
    BY <1>4, <1>5, <1>8, <1>9, <1>10, WholeDrop
<1>12. code'[reader].bytes = bytes /\ code'[reader].left = v - n
    BY <1>3
<1> QED BY <1>11, <1>12 DEF t

LEMMA LinesNext == ASSUME CodeOK, MutexOK, BufferOK, LinesOK, [Next]_vars
    PROVE LinesOK'
<1> USE Apart
<1>s. ASSUME UNCHANGED <<readBuffer, lnBytesLeft, options>>, code'[reader] = code[reader],
             ~At(Controller, "options") \/ code'[Controller] = code[Controller]
      PROVE  LinesOK'
    BY <1>s DEF LinesOK, Line, At
<1>1. CASE tyRead \/ ReadWoken \/ ReadLocked \/ ReadXon \/ ReadReleases \/ ReadEnd
  <2>1. UNCHANGED <<readBuffer, lnBytesLeft, options>>
      BY <1>1 DEF tyRead, ReadWoken, ReadLocked, ReadXon, ReadReleases, ReadEnd, readVars
  <2>2. code[reader].at # "got" /\ code'[reader].at # "got"
      BY <1>1, ReaderPlaces
  <2>3. code'[Controller] = code[Controller]
      BY <1>1, ReaderPlaces DEF ControllerStays
  <2> QED BY <2>1, <2>2, <2>3 DEF LinesOK, Line, At
<1>2. CASE ReadGet
  <2>1. UNCHANGED <<readBuffer, lnBytesLeft, options>>
      BY <1>2 DEF ReadGet, readVars
  <2>2. code'[reader].at = "got" /\ code'[Controller] = code[Controller]
      BY <1>2, ReaderPlaces DEF ControllerStays
  <2> QED BY <1>2, <2>1, <2>2, LinesTaken DEF LinesOK, Line, At
<1>3. CASE ReadGot
  <2>1. /\ readBuffer' = SubSeq(readBuffer, code[reader].bytes + 1, Len(readBuffer))
        /\ lnBytesLeft' = code[reader].left /\ options' = options
      BY <1>3 DEF ReadGot
  <2>2. /\ code[reader].at = "got" /\ code'[reader].at = "end"
        /\ code'[Controller] = code[Controller]
      BY <1>3, ReaderPlaces DEF ControllerStays
  <2> QED BY <2>1, <2>2 DEF LinesOK, Line, At
<1>4. CASE tyWrite \/ WriteWoken \/ WriteLocked \/ WritePut \/ WriteStart \/ WriteLock
              \/ WriteLooks \/ WriteEnd
  <2>1. UNCHANGED <<readBuffer, lnBytesLeft, options>>
      BY <1>4 DEF tyWrite, WriteWoken, WriteLocked, WritePut, WriteStart, WriteLock,
                  WriteLooks, WriteEnd, WriteLeaves, readVars
  <2>2. code'[reader] = code[reader] /\ code'[Controller] = code[Controller]
      BY <1>4, WriterPlaces DEF ReaderStays, ControllerStays
  <2> QED BY <1>s, <2>1, <2>2
<1>5. CASE (\E t \in Tasks : vgaWriteString(t)) \/ Cancel
    BY <1>5, <1>s, TransmitterLeaves DEF Cancel, readVars
<1>6. CASE \E ch \in Chars : tyIntRd(ch)
  <2>1. PICK ch \in Chars : tyIntRd(ch)
      BY <1>6
  <2>2. CASE ch = "xoff" /\ "TANDEM" \in options
      BY <2>1, <2>2, <1>s DEF tyIntRd, readVars
  <2>3. CASE ~(ch = "xoff" /\ "TANDEM" \in options)
    <3>1. /\ UNCHANGED <<lnBytesLeft, options, code>>
          /\ IF Line THEN PutLine(ch) ELSE PutRaw
        BY <2>1, <2>3 DEF tyIntRd, Received
    <3>2. CASE ~Line \/ At(Controller, "options")
        BY <3>1, <3>2 DEF LinesOK, Line, At
    <3>3. CASE Line /\ ~At(Controller, "options") /\ LineEnds(ch)
      <4>1. readBuffer' = Typed(TypedLen(ch))
          BY <3>1, <3>3 DEF PutLine
      <4>2. TypedLen(ch) \in 0..MaxLine /\ TypedLen(ch) + 1 <= ReadFree
          BY <3>3, LineFacts
      <4>3. IF At(reader, "got")
              THEN Whole(SubSeq(readBuffer', code[reader].bytes + 1, Len(readBuffer')),
                         code[reader].left)
              ELSE Whole(readBuffer', lnBytesLeft)
          BY <3>1, <3>3, <4>1, <4>2, LinesTyped
      <4> QED BY <3>1, <4>3 DEF LinesOK, At
    <3>4. CASE Line /\ ~LineEnds(ch)
      <4>1. readBuffer' = readBuffer
          BY <3>1, <3>4 DEF PutLine
      <4> QED BY <1>s, <3>1, <4>1
    <3> QED BY <3>2, <3>3, <3>4
  <2> QED BY <2>2, <2>3
<1>7. CASE Flush \/ OptionsFlush
  <2>1. readBuffer' = <<>> /\ lnBytesLeft' = 0
      BY <1>7 DEF Flush, OptionsFlush, tyFlushRead
  <2>2. code'[reader] = code[reader] /\ mutex = NULL
      BY <1>7, ControllerPlaces DEF ReaderStays
  <2>3. ~At(reader, "got")'
      BY <2>2 DEF MutexOK, Reading, At
  <2> QED BY <2>1, <2>3, WholeEmpty DEF LinesOK
<1>8. CASE FlushEnd \/ OptionsFlow \/ OptionsXoff
  <2>1. UNCHANGED <<readBuffer, lnBytesLeft, options>>
      BY <1>8 DEF FlushEnd, OptionsFlow, OptionsXoff, tyFlushWrite, readVars
  <2>2. code'[reader] = code[reader] /\ ~At(Controller, "options")
      BY <1>8, ControllerPlaces DEF ReaderStays, At
  <2> QED BY <1>s, <2>1, <2>2
<1>9. CASE \E o \in AllOptions : SetOptions(o)
  <2>1. PICK o \in AllOptions : SetOptions(o)
      BY <1>9
  <2>2. UNCHANGED <<readBuffer, lnBytesLeft>> /\ options' = o
      BY <2>1 DEF SetOptions, readVars
  <2>3. /\ code[Controller].at = "idle" /\ code'[reader] = code[reader]
        /\ code'[Controller].at = IF ("LINE" \in o) # Line THEN "options" ELSE "flow"
      BY <2>1, ControllerPlaces DEF ReaderStays
  <2>4. Line' /\ ~At(Controller, "options")' => Line
      BY <2>2, <2>3 DEF Line, At
  <2> QED BY <2>2, <2>3, <2>4 DEF LinesOK, At
<1>10. CASE UNCHANGED vars
    BY <1>10, <1>s DEF vars, readVars
<1> QED BY <1>1, <1>2, <1>3, <1>4, <1>5, <1>6, <1>7, <1>8, <1>9, <1>10 DEF Next

-----------------------------------------------------------------------------
(***************************************************************************)
(* The theorems.                                                           *)
(***************************************************************************)
IInv ==
    /\ CodeOK /\ MutexOK /\ BufferOK /\ FlagsOK
    /\ TxOK /\ OneTransmitter /\ MissedOK
    /\ NoStuckReader /\ WriterOK /\ PeerOK /\ LinesOK

LEMMA InitHolds == Init => IInv
<1> SUFFICES ASSUME Init PROVE IInv
    OBVIOUS
<1> USE Apart
<1>1. /\ code = [t \in Tasks |-> [at |-> "idle"]]
      /\ \A t \in Tasks : code[t] = [at |-> "idle"]
      /\ readBuffer = <<>> /\ lnNBytes = 0 /\ lnBytesLeft = 0 /\ writeBuffer = 0
      /\ options \in AllOptions /\ mutex = NULL
    BY DEF Init
<1>2. CodeOK
  <2>1. /\ [at |-> "idle"] \in ReaderCode /\ [at |-> "idle"] \in WriterCode
        /\ [at |-> "idle"] \in ControllerCode
      BY DEF ReaderCode, WriterCode, ControllerCode
  <2> QED BY <1>1, <2>1 DEF CodeOK, PutFits
<1>3. MutexOK
    BY <1>1 DEF MutexOK, Reading, Writing
<1>4. BufferOK
    BY <1>1, Sizes, EmptySeq DEF BufferOK, At
<1>5. FlagsOK /\ NoStuckReader /\ WriterOK /\ PeerOK
    BY DEF Init, FlagsOK, NoStuckReader, WriterOK, PeerOK
<1>6. TxOK /\ OneTransmitter /\ MissedOK
  <2>1. tx = [t \in Tasks |-> "off"] /\ busy = FALSE
      BY DEF Init
  <2>2. Transmitters = {}
      BY <2>1 DEF Transmitters
  <2>3. MissedOK
    <3>1. missed = FALSE
        BY DEF Init
    <3>2. ~(writeBuffer > 0)
        BY <1>1
    <3> QED BY <3>1, <3>2 DEF MissedOK
  <2> QED BY <2>1, <2>2, <2>3, FS_EmptySet DEF TxOK, TxPlaces, Returned, OneTransmitter
<1>7. LinesOK
    BY <1>1, WholeEmpty DEF LinesOK, At
<1> QED BY <1>2, <1>3, <1>4, <1>5, <1>6, <1>7 DEF IInv

LEMMA NextKeeps == IInv /\ [Next]_vars => IInv'
BY CodeNext, BufferNext, FlagsNext, TxNext, TransmitterNext, MissedNext, ReaderNext,
   WriterNext, PeerNext, LinesNext DEF IInv

(***************************************************************************)
(* The inductive invariant: whose the mutex is, what the buffers hold, who *)
(* has the transmitter and who is woken (tyLib.c, m6845Vga.c).             *)
(***************************************************************************)
THEOREM Invariance == Spec => []IInv
BY InitHolds, NextKeeps, PTL DEF Spec

(***************************************************************************)
(* Neither the reader nor the writer waits for what has happened (tyLib.c  *)
(* tyRead, tyWrite, tyIntRd; m6845Vga.c vgaWriteString).                   *)
(***************************************************************************)
THEOREM NeverStuck == Spec => []NobodyStuck
<1>1. IInv => NobodyStuck
    BY DEF IInv, NobodyStuck, WriterOK, Looks, NoStuckWriter
<1> QED BY <1>1, Invariance, PTL

(***************************************************************************)
(* busy is a lock, and who finds it set may leave his characters to its    *)
(* owner, but for the moment between the owner's last look and the end of  *)
(* busy (tyLib.c tyTxStartup, tyReadXoff, tyWriteXoff; m6845Vga.c          *)
(* vgaWriteString).                                                        *)
(***************************************************************************)
THEOREM TransmitsSafely == Spec => []TransmitterSafe
<1>1. IInv => TransmitterSafe
    BY DEF IInv, MissedOK, Starting, TransmitterSafe, OnlyTheMissedStay, LeftBehind, At
<1> QED BY <1>1, Invariance, PTL

(***************************************************************************)
(* A peer that is to stop is released (tyLib.c tyRead, tyIntRd,      *)
(* tyOptionsSet).                                                          *)
(***************************************************************************)
THEOREM AlwaysReleased == Spec => []PeerIsReleased
<1>1. IInv => PeerIsReleased
    BY DEF IInv, PeerOK, PeerIsReleased, Tandem
<1> QED BY <1>1, Invariance, PTL

(***************************************************************************)
(* No character is taken for the length of a line, and the buffers keep    *)
(* their bounds (tyLib.c tyRead, tyIntRd, tyFlushRead).                    *)
(***************************************************************************)
THEOREM AlwaysConsistent == Spec => []Consistent
<1> SUFFICES ASSUME IInv PROVE Consistent
    BY Invariance, PTL
<1>1. /\ readBuffer \in Seq(Byte) /\ DOMAIN readBuffer = 1..Len(readBuffer)
      /\ Len(readBuffer) <= ReadSize /\ lnNBytes \in 0..MaxLine
    BY LenProperties, Sizes DEF IInv, BufferOK
<1>2. \A i \in DOMAIN readBuffer : readBuffer[i] = Char \/ Value(readBuffer[i]) \in 0..MaxLine
    BY <1>1, ElementOfSeq, ValueFacts
<1>3. DOMAIN code = Tasks
    BY DEF IInv, CodeOK
<1>4. TypeOK
    BY <1>1, <1>2, <1>3 DEF IInv, TypeOK, BufferOK, FlagsOK, MutexOK, TxOK, TxPlaces, MissedOK
<1>5. LinesAreWhole
  <2> SUFFICES ASSUME Line, ~At(Controller, "options"), mutex # reader
               PROVE  {lnBytesLeft + 1} \cup {i + 1 + Value(readBuffer[i]) : i \in Lengths}
                        = Lengths \cup {Len(readBuffer) + 1}
      BY DEF LinesAreWhole
  <2>1. Whole(readBuffer, lnBytesLeft)
      BY DEF IInv, LinesOK, MutexOK, Reading, At
  <2>2. Lengths = LengthsOf(readBuffer)
      BY <1>1 DEF Lengths, LengthsOf
  <2> QED BY <2>1, <2>2 DEF Whole, Starts
<1> QED BY <1>4, <1>5 DEF Consistent
=============================================================================
