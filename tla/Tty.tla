-------------------------------- MODULE Tty ---------------------------------
(***************************************************************************)
(* Terminal devices (src/os/tyLib.c) of the console, whose transmitter is  *)
(* vgaWriteString (src/drv/video/m6845Vga.c): a task that reads, one that  *)
(* writes, one that makes requests, and the keyboard's handlers.           *)
(*                                                                         *)
(* vgaWriteString drains the write buffer itself, in whatever task or      *)
(* handler starts it.  A handler runs it to its end; a task runs it step   *)
(* by step, with handlers in between.  Nothing calls tyIntTx for the       *)
(* console: it is left out, and so is readState.pending, which is there    *)
(* for tyIntTx to see that an XON or XOFF is to be sent.                   *)
(*                                                                         *)
(* The buffers are rings, which behave as module Ring shows: the read      *)
(* buffer is the sequence of its bytes, the write buffer their number.     *)
(* Handlers come between any two accesses of a task to what they share,    *)
(* tasks wherever no mutex keeps them out; who waits for the mutex gets it *)
(* when it is free.  A flush is one step, because while it goes on its     *)
(* flags turn handlers away.                                               *)
(***************************************************************************)
EXTENDS Naturals, Sequences, FiniteSets

CONSTANTS
    ReadSize, WriteSize,   \* bytes the buffers hold
    MaxLine,               \* characters of a line (255)
    XoffTreshold, XonTreshold,
    WriteTreshold,         \* vgaWriteTreshold
    Chars,                 \* kinds of characters that are received
    CharCode,              \* the code of a character, when it is taken for a length
    AllOptions,            \* the options that may be set together
    ReadLens, WriteLens,   \* bound: bytes of one call
    reader, writer, NULL

Controller == "controller"
Tasks == {reader, writer, Controller}

Kinds == {"plain", "newline", "backspace", "delete", "eof", "xoff"}

ASSUME TtyAssumption ==
    /\ Chars \subseteq Kinds
    /\ \A o \in AllOptions : o \subseteq {"LINE", "ECHO", "TANDEM"}
    /\ CharCode \in Nat /\ MaxLine \in Nat \ {0}
    /\ ReadLens \subseteq Nat \ {0} /\ WriteLens \subseteq Nat \ {0}
    /\ {XoffTreshold, XonTreshold, WriteTreshold} \subseteq Nat
    /\ ReadSize \in Nat /\ XonTreshold + MaxLine < ReadSize
    /\ XoffTreshold <= XonTreshold
    /\ WriteSize \in Nat /\ WriteTreshold \in 1..WriteSize
    /\ NULL \notin {reader, writer} /\ reader # writer
    /\ Controller \notin {reader, writer}

VARIABLES
    readBuffer, readSync,
    lnNBytes,              \* characters of the line that is being typed
    lnBytesLeft,           \* characters of the line that is being read
    readXoff,              \* the peer is to stop
    readCanceled,
    writeBuffer, writeSync,
    busy, writeXoff,       \* transmitting; stopped by the peer
    writeCanceled,
    options,
    mutex,
    code,                  \* where each task is
    tx,                    \* where it is in vgaWriteString
    missed,                \* it was asked to start after its last look
    eatenRead, eatenWrite  \* a canceled call took a wakeup and gave none

readVars  == <<readBuffer, readSync, lnNBytes, lnBytesLeft, readCanceled,
               eatenRead>>
writeVars == <<writeBuffer, writeSync, writeXoff, writeCanceled, eatenWrite>>
flowVars  == <<readXoff, busy, tx, missed>>
vars == <<readVars, writeVars, flowVars, options, mutex, code>>

Char == <<>>
Length(n) == <<n>>
Value(byte) == IF byte = Char THEN CharCode ELSE byte[1]

Line == "LINE" \in options
Least(m, n) == IF m < n THEN m ELSE n

\* tyDevInit; the last thing it does is tyFlush.
Init ==
    /\ readBuffer = <<>> /\ readSync = FALSE
    /\ lnNBytes = 0 /\ lnBytesLeft = 0
    /\ readXoff = FALSE /\ readCanceled = FALSE
    /\ writeBuffer = 0 /\ writeSync = TRUE
    /\ busy = FALSE /\ writeXoff = FALSE /\ writeCanceled = FALSE
    /\ options \in AllOptions
    /\ mutex = NULL
    /\ code = [t \in Tasks |-> [at |-> "idle"]]
    /\ tx = [t \in Tasks |-> "off"] /\ missed = FALSE
    /\ eatenRead = FALSE /\ eatenWrite = FALSE

At(t, s) == code[t].at = s
Goto(t, c) == code' = [code EXCEPT ![t] = c]
Step(t, s) == Goto(t, [code[t] EXCEPT !.at = s])

ReadFree == ReadSize - Len(readBuffer)
WriteFree == WriteSize - writeBuffer

-----------------------------------------------------------------------------
(***************************************************************************)
(* The transmitter.                                                        *)
(***************************************************************************)
GiveRead == readSync' = TRUE /\ eatenRead' = FALSE
GiveWrite == writeSync' = TRUE /\ eatenWrite' = FALSE

\* vgaWriteString is not running in t.
Returned(t) == tx[t] = "off"

\* It has seen the buffer empty, or that it is stopped, and will clear busy.
PastLook == \E t \in Tasks : tx[t] \in {"stop", "clear"}

\* Who asks for the transmitter with n characters in the buffer, and finds
\* busy set, has nothing to do: it is too late for these characters if the
\* transmitter does not look again.
Asked(n) == missed' = (missed \/ (n > 0 /\ PastLook))

\* Task t starts the transmitter, unless somebody has: the interrupts are
\* locked between the look at busy and its assignment.
tyTxStartup(t) ==
    IF busy
      THEN UNCHANGED <<busy, tx>> /\ Asked(writeBuffer)
      ELSE busy' = TRUE /\ tx' = [tx EXCEPT ![t] = "check"] /\ missed' = FALSE

\* The same where nobody comes in between: the transmitter, when it is asked
\* for and free, takes the n characters of the buffer out.
Transmits(asked, n) ==
    IF asked /\ ~busy /\ ~writeXoff
      THEN writeBuffer' = 0 /\ GiveWrite /\ missed' = FALSE
      ELSE /\ writeBuffer' = n /\ UNCHANGED <<writeSync, eatenWrite>>
           /\ IF asked /\ busy THEN Asked(n) ELSE UNCHANGED missed

TxStep(t, from, to) == tx[t] = from /\ tx' = [tx EXCEPT ![t] = to]

\* vgaWriteString: has the peer stopped us ...
TxCheck(t) ==
    /\ TxStep(t, "check", IF writeXoff THEN "stop" ELSE "get")
    /\ UNCHANGED <<busy, writeBuffer, writeSync, eatenWrite>>

TxStop(t) ==
    /\ TxStep(t, "stop", "off")
    /\ busy' = FALSE
    /\ UNCHANGED <<writeBuffer, writeSync, eatenWrite>>

\* ... the next character, until there is none ...
TxGet(t) ==
    /\ TxStep(t, "get", IF writeBuffer = 0 THEN "clear" ELSE "get")
    /\ writeBuffer' = IF writeBuffer = 0 THEN 0 ELSE writeBuffer - 1
    /\ UNCHANGED <<busy, writeSync, eatenWrite>>

TxClear(t) ==
    /\ TxStep(t, "clear", "room")
    /\ busy' = FALSE
    /\ UNCHANGED <<writeBuffer, writeSync, eatenWrite>>

\* Bug: the room is tested for equality, as tyIntTx does.
TxRoomEqual(t) ==
    /\ TxStep(t, "room", IF WriteFree = WriteTreshold THEN "give" ELSE "off")
    /\ UNCHANGED <<busy, writeBuffer, writeSync, eatenWrite>>

\* ... and is there room for the writer?
TxRoom(t) ==
    /\ TxStep(t, "room", IF WriteFree >= WriteTreshold THEN "give" ELSE "off")
    /\ UNCHANGED <<busy, writeBuffer, writeSync, eatenWrite>>

TxGive(t) ==
    /\ TxStep(t, "give", "off")
    /\ GiveWrite
    /\ UNCHANGED <<busy, writeBuffer>>

vgaWriteString(t) ==
    /\ TxCheck(t) \/ TxStop(t) \/ TxGet(t) \/ TxClear(t) \/ TxRoom(t) \/ TxGive(t)
    /\ UNCHANGED <<readVars, writeXoff, writeCanceled, readXoff, missed, options,
                   mutex, code>>

\* tyReadXoff in task t.
tyReadXoff(t, xoff) ==
    IF readXoff = xoff
      THEN UNCHANGED flowVars
      ELSE readXoff' = xoff /\ tyTxStartup(t)

\* The room that counts for flow control when n bytes are free and ln
\* characters are typed.
Room(n, ln) == IF Line THEN n - (ln + 1) ELSE n

-----------------------------------------------------------------------------
(***************************************************************************)
(* tyRead                                                                  *)
(***************************************************************************)
tyRead ==
    /\ At(reader, "idle")
    /\ readCanceled' = FALSE
    /\ \E n \in ReadLens : Goto(reader, [at |-> "sync", n |-> n])
    /\ UNCHANGED <<readBuffer, readSync, lnNBytes, lnBytesLeft, eatenRead,
                   writeVars, flowVars, options, mutex>>

ReadWoken ==
    /\ At(reader, "sync") /\ readSync
    /\ readSync' = FALSE
    /\ Step(reader, "mutex")
    /\ UNCHANGED <<readBuffer, lnNBytes, lnBytesLeft, readCanceled, eatenRead,
                   writeVars, flowVars, options, mutex>>

\* With the mutex: the call is canceled, waits again, or goes on.
ReadLocked ==
    /\ At(reader, "mutex") /\ mutex = NULL
    /\ IF readCanceled
         THEN /\ eatenRead' = (readBuffer # <<>>)
              /\ Goto(reader, [at |-> "idle"])
              /\ UNCHANGED mutex
       ELSE IF readBuffer = <<>>
         THEN /\ Step(reader, "sync")
              /\ UNCHANGED <<eatenRead, mutex>>
         ELSE /\ mutex' = reader
              /\ Step(reader, "get")
              /\ UNCHANGED eatenRead
    /\ UNCHANGED <<readBuffer, readSync, lnNBytes, lnBytesLeft, readCanceled,
                   writeVars, flowVars, options>>

\* How many bytes are taken out, and how much of the line is left: in line
\* mode the length comes first.
ReadGet ==
    /\ At(reader, "get")
    /\ LET header == Line /\ lnBytesLeft = 0
           left   == IF header THEN Value(Head(readBuffer)) ELSE lnBytesLeft
           n      == IF Line THEN Least(left, code[reader].n) ELSE code[reader].n
           skip   == IF header THEN 1 ELSE 0
       IN  Goto(reader, [at    |-> "got",
                         bytes |-> skip + Least(n, Len(readBuffer) - skip),
                         left  |-> IF Line THEN left - n ELSE lnBytesLeft])
    /\ UNCHANGED <<readVars, writeVars, flowVars, options, mutex>>

ReadGot ==
    /\ At(reader, "got")
    /\ readBuffer' = SubSeq(readBuffer, code[reader].bytes + 1, Len(readBuffer))
    /\ lnBytesLeft' = code[reader].left
    /\ Goto(reader, [at |-> "end"])
    /\ UNCHANGED <<readSync, lnNBytes, readCanceled, eatenRead, writeVars,
                   flowVars, options, mutex>>

\* The peer may send again?  The room is looked at ...
ReadXon ==
    /\ At(reader, "end")
    /\ Goto(reader, [at |-> IF "TANDEM" \in options /\ readXoff
                              /\ Room(ReadFree, lnNBytes) > XonTreshold
                           THEN "xon" ELSE "leave"])
    /\ UNCHANGED <<readVars, writeVars, flowVars, options, mutex>>

\* Bug: flow control is forgotten.
ReadReleasesNot ==
    /\ At(reader, "xon")
    /\ Goto(reader, [at |-> "leave"])
    /\ UNCHANGED <<readVars, writeVars, flowVars, options, mutex>>

\* ... and then the peer is released.
ReadReleases ==
    /\ At(reader, "xon")
    /\ tyReadXoff(reader, FALSE)
    /\ Goto(reader, [at |-> "leave"])
    /\ UNCHANGED <<readVars, writeVars, options, mutex>>

\* What a reader has seen in the buffer stays there.
ReadEnd ==
    /\ At(reader, "leave") /\ Returned(reader)
    /\ IF readBuffer = <<>> THEN UNCHANGED <<readSync, eatenRead>> ELSE GiveRead
    /\ mutex' = NULL
    /\ Goto(reader, [at |-> "idle"])
    /\ UNCHANGED <<readBuffer, lnNBytes, lnBytesLeft, readCanceled, writeVars,
                   flowVars, options>>

-----------------------------------------------------------------------------
(***************************************************************************)
(* tyWrite                                                                 *)
(***************************************************************************)
tyWrite ==
    /\ At(writer, "idle")
    /\ writeCanceled' = FALSE
    /\ \E n \in WriteLens : Goto(writer, [at |-> "sync", n |-> n, put |-> 0])
    /\ UNCHANGED <<readVars, writeBuffer, writeSync, writeXoff, eatenWrite,
                   flowVars, options, mutex>>

WriteWoken ==
    /\ At(writer, "sync") /\ writeSync
    /\ writeSync' = FALSE
    /\ Step(writer, "mutex")
    /\ UNCHANGED <<readVars, writeBuffer, writeXoff, writeCanceled, eatenWrite,
                   flowVars, options, mutex>>

\* With the mutex: the call is canceled, or sees how much fits.
WriteLocked ==
    /\ At(writer, "mutex") /\ mutex = NULL
    /\ IF writeCanceled
         THEN /\ eatenWrite' = TRUE
              /\ Goto(writer, [at |-> "idle"])
              /\ UNCHANGED mutex
         ELSE /\ mutex' = writer
              /\ Goto(writer, [at |-> "put", n |-> code[writer].n,
                              put |-> Least(code[writer].n, WriteFree)])
              /\ UNCHANGED eatenWrite
    /\ UNCHANGED <<readVars, writeBuffer, writeSync, writeXoff, writeCanceled,
                   flowVars, options>>

\* writeBufferBusy is set until the bytes are in the buffer.
WritePut ==
    /\ At(writer, "put")
    /\ writeBuffer' = writeBuffer + code[writer].put
    /\ Step(writer, "start")
    /\ UNCHANGED <<readVars, writeSync, writeXoff, writeCanceled, eatenWrite,
                   flowVars, options, mutex>>

\* tyTxStartup looks at busy ...
WriteStart ==
    /\ At(writer, "start")
    /\ IF busy THEN Step(writer, "end") /\ Asked(writeBuffer)
               ELSE Step(writer, "lock") /\ UNCHANGED missed
    /\ UNCHANGED <<readVars, writeVars, readXoff, busy, tx, options, mutex>>

\* Bug: ... and believes it.
WriteLockBelieves ==
    /\ At(writer, "lock")
    /\ busy' = TRUE /\ tx' = [tx EXCEPT ![writer] = "check"] /\ missed' = FALSE
    /\ Step(writer, "end")
    /\ UNCHANGED <<readVars, writeVars, readXoff, options, mutex>>

\* ... and again, with the interrupts locked.
WriteLock ==
    /\ At(writer, "lock")
    /\ tyTxStartup(writer)
    /\ Step(writer, "end")
    /\ UNCHANGED <<readVars, writeVars, readXoff, options, mutex>>

\* Is there more room?
WriteLooks ==
    /\ At(writer, "end") /\ Returned(writer)
    /\ Step(writer, IF WriteFree > 0 THEN "give" ELSE "leave")
    /\ UNCHANGED <<readVars, writeVars, flowVars, options, mutex>>

\* The mutex is given, and the rest is to follow.
WriteLeaves ==
    /\ mutex' = NULL
    /\ LET left == code[writer].n - code[writer].put IN
          Goto(writer, IF left = 0 THEN [at |-> "idle"]
                       ELSE [at |-> "sync", n |-> left, put |-> 0])
    /\ UNCHANGED <<readVars, writeBuffer, writeXoff, writeCanceled, flowVars,
                   options>>

WriteEnd ==
    /\ \/ At(writer, "give") /\ GiveWrite
       \/ At(writer, "leave") /\ UNCHANGED <<writeSync, eatenWrite>>
    /\ WriteLeaves

-----------------------------------------------------------------------------
(***************************************************************************)
(* Handlers.                                                               *)
(***************************************************************************)
\* How many characters answer c.
EchoLen(c) ==
    IF ~Line THEN 1
    ELSE IF c = "backspace" THEN IF lnNBytes = 0 THEN 0 ELSE 3
    ELSE IF c \in {"eof", "xoff"} THEN 2
    ELSE 1

\* No echo while the writer is filling the buffer.
Echoes(c) == "ECHO" \in options /\ ~At(writer, "put") /\ EchoLen(c) > 0

\* A line, its length in front, becomes visible.
Typed(ln) == readBuffer \o <<Length(ln)>> \o [i \in 1..ln |-> Char]

\* The line after c: what is typed, and whether the line is complete.  A
\* character that does not fit overwrites the last one.
TypedLen(c) ==
    IF c = "backspace" THEN IF lnNBytes = 0 THEN 0 ELSE lnNBytes - 1
    ELSE IF c = "delete" THEN 0
    ELSE IF c # "eof" /\ ReadFree >= lnNBytes + 2 THEN lnNBytes + 1
    ELSE lnNBytes

LineEnds(c) ==
    IF c = "eof" THEN ReadFree > 0
    ELSE /\ c \notin {"backspace", "delete"} /\ ReadFree >= 2
         /\ c = "newline" \/ TypedLen(c) = MaxLine

\* The read buffer after c, in line mode and otherwise.
PutLine(c) ==
    /\ readBuffer' = IF LineEnds(c) THEN Typed(TypedLen(c)) ELSE readBuffer
    /\ lnNBytes' = IF LineEnds(c) THEN 0 ELSE TypedLen(c)
    /\ IF LineEnds(c) THEN GiveRead ELSE UNCHANGED <<readSync, eatenRead>>

PutRaw ==
    /\ readBuffer' = IF ReadFree > 0 THEN Append(readBuffer, Char) ELSE readBuffer
    /\ IF Len(readBuffer') = 1 THEN GiveRead ELSE UNCHANGED <<readSync, eatenRead>>
    /\ UNCHANGED lnNBytes

\* tyIntRd for a character that is not the peer's XOFF.  XON is such a
\* character: the test for it names XOFF twice.
Received(c) ==
    /\ IF Line THEN PutLine(c) ELSE PutRaw
    /\ LET room == Room(ReadSize - Len(readBuffer'), lnNBytes')
           stop == "TANDEM" \in options /\ ~readXoff /\ room < XoffTreshold
           go   == "TANDEM" \in options /\ readXoff /\ room > XonTreshold
       IN  /\ readXoff' = IF stop THEN TRUE ELSE IF go THEN FALSE ELSE readXoff
           /\ Transmits(Echoes(c) \/ stop \/ go,
                        IF Echoes(c) THEN Least(WriteSize, writeBuffer + EchoLen(c))
                                     ELSE writeBuffer)
    /\ UNCHANGED <<lnBytesLeft, readCanceled, writeXoff, writeCanceled, busy, tx,
                   options, mutex, code>>

tyIntRd(c) ==
    IF c = "xoff" /\ "TANDEM" \in options
      THEN /\ writeXoff' = TRUE
           /\ UNCHANGED <<readVars, writeBuffer, writeSync, writeCanceled,
                          eatenWrite, flowVars, options, mutex, code>>
      ELSE Received(c)

-----------------------------------------------------------------------------
(***************************************************************************)
(* tyIoctl                                                                 *)
(***************************************************************************)
\* The last request is done.
Idle == At(Controller, "idle") /\ Returned(Controller)

\* FIOCANCEL
Cancel ==
    /\ Idle /\ mutex = NULL
    /\ readCanceled' = TRUE /\ writeCanceled' = TRUE
    /\ GiveRead /\ GiveWrite
    /\ UNCHANGED <<readBuffer, lnNBytes, lnBytesLeft, writeBuffer, writeXoff,
                   flowVars, options, mutex, code>>

\* Bug: the rest of the line that is being read is not forgotten.
FlushReadKeepsLine ==
    /\ mutex = NULL
    /\ readBuffer' = <<>> /\ readSync' = FALSE /\ eatenRead' = FALSE
    /\ lnNBytes' = 0
    /\ readXoff' = FALSE /\ Transmits(readXoff, writeBuffer)
    /\ UNCHANGED <<readCanceled, lnBytesLeft, writeXoff, writeCanceled, busy, tx,
                   options, mutex>>

\* A handler that comes now is turned away, so the transmitter runs to its end.
tyFlushRead ==
    /\ mutex = NULL
    /\ readBuffer' = <<>> /\ readSync' = FALSE /\ eatenRead' = FALSE
    /\ lnNBytes' = 0 /\ lnBytesLeft' = 0
    /\ readXoff' = FALSE /\ Transmits(readXoff, writeBuffer)
    /\ UNCHANGED <<readCanceled, writeXoff, writeCanceled, busy, tx, options,
                   mutex>>

tyFlushWrite ==
    /\ mutex = NULL
    /\ writeBuffer' = 0
    /\ GiveWrite
    /\ missed' = FALSE
    /\ UNCHANGED <<readVars, writeXoff, writeCanceled, readXoff, busy, tx, options,
                   mutex>>

\* FIORFLUSH, or the first half of FIOFLUSH.
Flush ==
    /\ Idle
    /\ tyFlushRead
    /\ \E next \in {"idle", "flush"} : Goto(Controller, [at |-> next])

\* FIOWFLUSH, or the other half.
FlushEnd ==
    /\ At(Controller, "flush") \/ Idle
    /\ tyFlushWrite
    /\ Goto(Controller, [at |-> "idle"])

\* FIOSETOPTIONS: the options change at once, the flush waits for the mutex.
SetOptions(o) ==
    /\ Idle /\ o # options
    /\ options' = o
    /\ Goto(Controller, [at    |-> IF ("LINE" \in o) # Line THEN "options" ELSE "flow",
                         clear |-> "TANDEM" \in options \ o])
    /\ UNCHANGED <<readVars, writeVars, flowVars, mutex>>

OptionsFlush ==
    /\ At(Controller, "options")
    /\ tyFlushRead
    /\ Step(Controller, "flow")

\* Without flow control both sides go on: the peer ...
OptionsFlow ==
    /\ At(Controller, "flow")
    /\ IF code[Controller].clear
         THEN tyReadXoff(Controller, FALSE) /\ Goto(Controller, [at |-> "wxoff"])
         ELSE UNCHANGED flowVars /\ Goto(Controller, [at |-> "idle"])
    /\ UNCHANGED <<readVars, writeVars, options, mutex>>

\* Bug: the stop is taken back, and nobody goes on.
OptionsXoffQuiet ==
    /\ At(Controller, "wxoff") /\ Returned(Controller)
    /\ writeXoff' = FALSE
    /\ Goto(Controller, [at |-> "idle"])
    /\ UNCHANGED <<readVars, writeBuffer, writeSync, writeCanceled, eatenWrite,
                   flowVars, options, mutex>>

\* ... and the transmitter.
OptionsXoff ==
    /\ At(Controller, "wxoff") /\ Returned(Controller)
    /\ IF writeXoff THEN writeXoff' = FALSE /\ tyTxStartup(Controller)
                    ELSE UNCHANGED <<writeXoff, busy, tx, missed>>
    /\ Goto(Controller, [at |-> "idle"])
    /\ UNCHANGED <<readVars, writeBuffer, writeSync, writeCanceled, eatenWrite,
                   readXoff, options, mutex>>

-----------------------------------------------------------------------------
Next ==
    \/ tyRead \/ ReadWoken \/ ReadLocked \/ ReadGet \/ ReadGot
    \/ ReadXon \/ ReadReleases \/ ReadEnd
    \/ tyWrite \/ WriteWoken \/ WriteLocked \/ WritePut \/ WriteStart
    \/ WriteLock \/ WriteLooks \/ WriteEnd
    \/ \E t \in Tasks : vgaWriteString(t)
    \/ \E c \in Chars : tyIntRd(c)
    \/ Cancel \/ Flush \/ FlushEnd
    \/ \E o \in AllOptions : SetOptions(o)
    \/ OptionsFlush \/ OptionsFlow \/ OptionsXoff

Spec == Init /\ [][Next]_vars

-----------------------------------------------------------------------------
(***************************************************************************)
(* Properties                                                              *)
(***************************************************************************)
TypeOK ==
    /\ Len(readBuffer) <= ReadSize
    /\ \A i \in DOMAIN readBuffer : readBuffer[i] = Char \/ Value(readBuffer[i]) \in 0..MaxLine
    /\ {readSync, writeSync, readXoff, writeXoff, busy, readCanceled,
        writeCanceled, eatenRead, eatenWrite, missed} \subseteq BOOLEAN
    /\ lnNBytes \in 0..MaxLine /\ lnBytesLeft \in Nat
    /\ writeBuffer \in 0..WriteSize
    /\ options \in AllOptions
    /\ mutex \in {reader, writer, NULL}
    /\ DOMAIN code = Tasks
    /\ tx \in [Tasks -> {"off", "check", "stop", "get", "clear", "room", "give"}]

(***************************************************************************)
(* Whoever waits in tyRead, or will, is woken for what is in the buffer:   *)
(* a handler gives readSync only for the first character (tyLib.c tyIntRd, *)
(* rngNBytes = 1), a reader for what it leaves.  A canceled read breaks    *)
(* this: it takes the wakeup and leaves without giving it on.              *)
(***************************************************************************)
NoStuckReader ==
    readBuffer # <<>> /\ code[reader].at \in {"idle", "sync"} => readSync \/ eatenRead

(***************************************************************************)
(* A writer waits only as long as the buffer is full, or vgaWriteString    *)
(* runs in a task that will look for room once more (m6845Vga.c, the last  *)
(* test), whatever echo, flushes and handlers do in between.               *)
(***************************************************************************)
NoStuckWriter ==
    code[writer].at \in {"idle", "sync"} /\ ~writeSync =>
        \/ WriteFree < WriteTreshold \/ eatenWrite
        \/ \E t \in Tasks : tx[t] \in {"get", "clear", "room", "give"}

(***************************************************************************)
(* Nobody waits at a terminal for what has happened already, neither the   *)
(* reader nor the writer (tyLib.c tyRead, tyWrite).                        *)
(***************************************************************************)
NobodyStuck == NoStuckReader /\ NoStuckWriter

\* The tasks that have the transmitter.
Transmitters == {t \in Tasks : tx[t] \in {"check", "stop", "get", "clear"}}

\* busy is set exactly while one task has the transmitter, and no other has it.
OneTransmitter == Cardinality(Transmitters) = IF busy THEN 1 ELSE 0

\* There are characters in the write buffer, the peer has not stopped us, and
\* nobody takes them out or is about to.
LeftBehind ==
    /\ writeBuffer > 0 /\ ~busy /\ ~writeXoff
    /\ ~At(writer, "start") /\ ~At(writer, "lock")

(***************************************************************************)
(* The transmitter is started if it is necessary (tyLib.c tyTxStartup:     *)
(* "Start transmitter if nessasary"; tyIntRd: "If echo start tx"): what is *)
(* in the write buffer does not stay there.                                *)
(***************************************************************************)
TransmitterRuns == ~LeftBehind

\* Nothing is left behind but what came after the transmitter's last look.
OnlyTheMissedStay == LeftBehind => missed

(***************************************************************************)
(* busy is a lock that is also a promise.  Tasks and handlers take it with *)
(* tyTxStartup, tyReadXoff and tyWriteXoff (tyLib.c), vgaWriteString gives *)
(* it back, and two of them never take characters from the write buffer at *)
(* the same time.  Whoever finds it set leaves his characters to the owner.*)
(* They stay there in one case only: they came after its last look at the  *)
(* buffer, or at the peer's XOFF, and before it cleared busy (m6845Vga.c   *)
(* 803 and 647).  No other order of writes, echo, flow control, flushes    *)
(* and changes of the options does it.                                     *)
(***************************************************************************)
TransmitterSafe == OneTransmitter /\ OnlyTheMissedStay

\* The bytes of the read buffer that say how long a line is.
Lengths == {i \in DOMAIN readBuffer : readBuffer[i] # Char}

(***************************************************************************)
(* In line mode the read buffer is the rest of the line that is being read *)
(* and then whole lines, so that no character is ever taken for a length,  *)
(* but in the moment between a change of the options and its flush         *)
(* (tyLib.c tyRead, tyIntRd, tyFlushRead).                                 *)
(***************************************************************************)
LinesAreWhole ==
    Line /\ ~At(Controller, "options") /\ mutex # reader =>
        LET ends == {lnBytesLeft + 1} \cup
                    {i + 1 + Value(readBuffer[i]) : i \in Lengths}
        IN  ends = Lengths \cup {Len(readBuffer) + 1}

(***************************************************************************)
(* The buffers keep their shape, whatever tasks and handlers do to them at *)
(* the same time (tyLib.c).                                                *)
(***************************************************************************)
Consistent == TypeOK /\ LinesAreWhole

(***************************************************************************)
(* A peer that is to stop is released when the buffer is empty, or nothing *)
(* would ever come again (tyLib.c tyRead, tyIntRd: the partial line counts *)
(* as well).                                                               *)
(***************************************************************************)
PeerIsReleased ==
    readXoff /\ "TANDEM" \in options /\ At(Controller, "idle") /\ mutex # reader =>
        readBuffer # <<>>
=============================================================================
