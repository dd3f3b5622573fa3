------------------------------ MODULE Watchdog ------------------------------
(***************************************************************************)
(* Watchdog timers (src/vmx/wdLib.c, vmxWdStart and vmxWdCancel of         *)
(* src/vmx/vmxLib.c), the tick queue they wait in and the two tick         *)
(* counters (src/vmx/tickLib.c).                                           *)
(*                                                                         *)
(* A watchdog can be started and cancelled by a task, by an interrupt      *)
(* handler and by a watchdog function.  A call that finds kernelState TRUE *)
(* only counts and leaves a job; the function of a watchdog is called from *)
(* the middle of the tick loop, and the jobs it leaves run there too, even *)
(* the next tick.  So everything is on one stack: the frames of the code   *)
(* that was interrupted or that called, the last one executing.            *)
(*                                                                         *)
(* The work queue is the queue of jobs that module WorkQ shows it to be.   *)
(***************************************************************************)
EXTENDS QPrio, FiniteSets, KernelState

CONSTANTS
    Wds,             \* the watchdogs
    Private,         \* those started by tasks and by their own function only
    Delays,          \* bound: the delays that are asked for
    WORD,            \* the range of an unsigned long, 2^32 in the code
    MaxTicks,        \* bound: watchdogs are started before this tick
    MaxWork,         \* bound: jobs that wait
    MaxFrames        \* bound: handlers come below this height of the stack

\* No watchdog: the function of a handler.
NoWd == "none"

ASSUME WatchdogAssumption ==
    /\ NoWd \notin Wds
    /\ Private \subseteq Wds
    /\ WORD \in Nat \ {0}
    /\ Delays \subseteq 0..(WORD - 1)
    /\ MaxTicks \in Nat /\ MaxWork \in Nat /\ MaxFrames \in Nat

VARIABLES
    valid,           \* OBJ_VERIFY of each watchdog
    status,          \* of each watchdog
    dfrStartCount,   \* starts of each watchdog that have not been carried out
    wdFunc,          \* its function; each start names the other one of two
    key, tickQ,      \* key of each watchdog, and those that are queued
    sysTicks,        \* the counter keys are made from, an unsigned long
    sysAbsTicks,     \* the ticks since the machine started
    jobs,            \* the work queue
    stack,           \* the frames, see Frames
    asked,           \* the last start of each watchdog: its delay and fate
    set              \* what the timer is set to: the delay and the tick

wdVars    == <<valid, status, dfrStartCount, wdFunc>>
clockVars == <<key, tickQ, sysTicks, sysAbsTicks>>
ghosts    == <<asked, set>>
vars == <<wdVars, clockVars, kernelState, jobs, stack, ghosts>>

Functions == 0..1
NotSet == [delay |-> 0, due |-> 0]

CallJobs ==
    [op : {"start"}, wd : Wds, delay : Delays] \cup [op : {"cancel"}, wd : Wds]
Jobs == CallJobs \cup [op : {"tick"}]

(***************************************************************************)
(* "task"     the code of tasks, at the bottom                             *)
(* "handler"  code of an interrupt handler, or of the function of fn       *)
(* "clock"    the handler of the clock interrupt                           *)
(* "post"     after INT_UNLOCK, about to append a job                      *)
(* "start", "cancel", "destroy"  has set kernelState, about to do it       *)
(* "exit"     vmxExit                                                      *)
(* "drain"    workQDoWork, called by the tick loop                         *)
(* "tick"     at the head of the loop of vmxTickAnnounce                   *)
(* "fire"     wd has expired, func was read, the count was not tested yet  *)
(***************************************************************************)
Frames ==
    [at : {"task", "clock", "exit", "drain", "tick"}] \cup
    [at : {"handler"}, fn : Wds \cup {NoWd}] \cup
    [at : {"post"}, job : CallJobs] \cup
    [at : {"start"}, wd : Wds, delay : Delays] \cup
    [at : {"cancel", "destroy"}, wd : Wds] \cup
    [at : {"fire"}, wd : Wds, func : Functions]

\* Bound, of fairness only: above MaxFrames there are watchdog functions, their
\* calls, and ticks that run as jobs of other ticks.
Heights == 1..(2 * MaxFrames)

Top == stack[Len(stack)]
Below == SubSeq(stack, 1, Len(stack) - 1)
Push(f) == stack' = Append(stack, f)
Pop == stack' = Below
Become(f) == stack' = Append(Below, f)

Init ==
    /\ valid = [w \in Wds |-> FALSE]
    /\ status = [w \in Wds |-> "DEAD"]
    /\ dfrStartCount = [w \in Wds |-> 0]
    /\ wdFunc = [w \in Wds |-> 0]
    /\ key = [w \in Wds |-> 0]
    /\ tickQ = <<>>
    /\ sysTicks = 0
    /\ sysAbsTicks = 0
    /\ kernelState = FALSE
    /\ jobs = <<>>
    /\ stack = <<[at |-> "task"]>>
    /\ asked = [w \in Wds |-> [delay |-> 0, fate |-> "over"]]
    /\ set = [w \in Wds |-> NotSet]

-----------------------------------------------------------------------------
(***************************************************************************)
(* The calls, up to their INT_UNLOCK.                                      *)
(***************************************************************************)
InCode == Top.at \in {"task", "handler"}

\* Who starts a private watchdog.
MayStart(w) ==
    w \in Private => Top.at = "task" \/ (Top.at = "handler" /\ Top.fn = w)

CanPost == Len(jobs) < MaxWork

wdCreate(w) ==
    /\ Top.at = "task"
    /\ status[w] = "DEAD" /\ ~valid[w]
    /\ valid' = [valid EXCEPT ![w] = TRUE]
    /\ status' = [status EXCEPT ![w] = "OUT_OF_Q"]
    /\ dfrStartCount' = [dfrStartCount EXCEPT ![w] = 0]
    /\ UNCHANGED <<wdFunc, clockVars, kernelState, jobs, stack, ghosts>>

\* What becomes of the last start of w.  A start that is over is forgotten.
Fate(w, f) ==
    asked' = [asked EXCEPT ![w] =
        IF @.fate = "over" \/ f = "over" THEN [delay |-> 0, fate |-> "over"]
                                         ELSE [@ EXCEPT !.fate = f]]

\* Bug: only starts that are deferred are counted.
CountDeferred(w) ==
    IF kernelState THEN [dfrStartCount EXCEPT ![w] = @ + 1] ELSE dfrStartCount

Count(w) == [dfrStartCount EXCEPT ![w] = @ + 1]

wdStart(w, delay) ==
    /\ InCode /\ valid[w] /\ MayStart(w)
    /\ sysAbsTicks < MaxTicks
    /\ dfrStartCount' = Count(w)
    /\ wdFunc' = [wdFunc EXCEPT ![w] = 1 - @]
    /\ asked' = [asked EXCEPT ![w] = [delay |-> delay, fate |-> "open"]]
    /\ kernelState' = TRUE
    /\ IF kernelState
         THEN /\ CanPost
              /\ Push([at |-> "post",
                       job |-> [op |-> "start", wd |-> w, delay |-> delay]])
         ELSE Push([at |-> "start", wd |-> w, delay |-> delay])
    /\ UNCHANGED <<valid, status, clockVars, jobs, set>>

wdCancel(w) ==
    /\ InCode /\ valid[w]
    /\ kernelState' = TRUE
    /\ IF kernelState
         THEN /\ CanPost
              /\ Push([at |-> "post", job |-> [op |-> "cancel", wd |-> w]])
              /\ Fate(w, "cancelling")
         ELSE /\ Push([at |-> "cancel", wd |-> w])
              /\ Fate(w, "over")
    /\ UNCHANGED <<wdVars, clockVars, jobs, set>>

wdDestroy(w) ==
    /\ Top.at = "task" /\ valid[w]
    /\ valid' = [valid EXCEPT ![w] = FALSE]
    /\ kernelState' = TRUE
    /\ Push([at |-> "destroy", wd |-> w])
    /\ Fate(w, "over")
    /\ UNCHANGED <<status, dfrStartCount, wdFunc, clockVars, jobs, set>>

\* workQAdd1 and workQAdd2.
Post ==
    /\ Top.at = "post"
    /\ jobs' = Append(jobs, Top.job)
    /\ Pop
    /\ UNCHANGED <<wdVars, clockVars, kernelState, ghosts>>

-----------------------------------------------------------------------------
(***************************************************************************)
(* vmxWdStart and vmxWdCancel, in the kernel section of their caller or as *)
(* jobs.  The value of a key and of sysTicks never leaves 0..WORD-1.       *)
(***************************************************************************)
tickGet == sysAbsTicks % WORD

Overflow(delay) == sysTicks + delay >= WORD

\* Q_OFFSET: what is queued counts from now, as sysTicks does.
Shifted == [w \in Wds |-> IF w \in Elements(tickQ)
                          THEN (key[w] + WORD - sysTicks) % WORD ELSE key[w]]

\* Bug: a watchdog that is queued already stays where it is.
QPutOnce(w, delay) ==
    IF status[w] = "IN_Q" THEN UNCHANGED <<sysTicks, key, tickQ>>
    ELSE /\ sysTicks' = sysTicks
         /\ key' = [key EXCEPT ![w] = sysTicks + delay]
         /\ tickQ' = QPrioPut(tickQ, w, key')

\* w is put in the tick queue, or moved there.
QPut(w, delay) ==
    LET base == IF Overflow(delay) THEN 0 ELSE sysTicks
        keys == IF Overflow(delay) THEN Shifted ELSE key
    IN  /\ sysTicks' = base
        /\ key' = [keys EXCEPT ![w] = base + delay]
        /\ tickQ' = IF status[w] = "IN_Q" THEN QPrioMove(tickQ, w, key')
                                          ELSE QPrioPut(tickQ, w, key')

SetTo(w, delay) ==
    set' = [set EXCEPT ![w] = [delay |-> delay, due |-> sysAbsTicks + delay]]

\* Of several starts only the one that is carried out last sets the timer.
vmxWdStart(w, delay) ==
    /\ dfrStartCount' = [dfrStartCount EXCEPT ![w] = @ - 1]
    /\ IF dfrStartCount'[w] = 0
         THEN /\ QPut(w, delay)
              /\ status' = [status EXCEPT ![w] = "IN_Q"]
              /\ SetTo(w, delay)
         ELSE UNCHANGED <<sysTicks, key, tickQ, status, set>>
    /\ UNCHANGED sysAbsTicks

\* Bug: the first watchdog leaves the queue, whoever was cancelled.
vmxWdCancelHead(w) ==
    tickQ' = IF status[w] = "IN_Q" THEN Tail(tickQ) ELSE tickQ

vmxWdCancel(w) ==
    tickQ' = IF status[w] = "IN_Q" THEN QRemove(tickQ, w) ELSE tickQ

\* The key of a watchdog that is in no queue is never read: it is 0 here.
Forget(w) ==
    /\ key' = [key EXCEPT ![w] = 0]
    /\ set' = [set EXCEPT ![w] = NotSet]

Cancelled(w) == IF status[w] = "IN_Q" THEN "OUT_OF_Q" ELSE status[w]

Start ==
    /\ Top.at = "start"
    /\ vmxWdStart(Top.wd, Top.delay)
    /\ Become([at |-> "exit"])
    /\ UNCHANGED <<valid, wdFunc, kernelState, jobs, asked>>

Cancel ==
    /\ Top.at \in {"cancel", "destroy"}
    /\ vmxWdCancel(Top.wd)
    /\ status' = [status EXCEPT ![Top.wd] = IF Top.at = "destroy" THEN "DEAD"
                                            ELSE Cancelled(Top.wd)]
    /\ Forget(Top.wd)
    /\ Become([at |-> "exit"])
    /\ UNCHANGED <<valid, dfrStartCount, wdFunc, sysTicks, sysAbsTicks,
                   kernelState, jobs, asked>>

-----------------------------------------------------------------------------
(***************************************************************************)
(* vmxTickAnnounce.                                                        *)
(***************************************************************************)
Announce(frames) ==
    /\ sysTicks' = (sysTicks + 1) % WORD
    /\ sysAbsTicks' = sysAbsTicks + 1
    /\ stack' = frames \o <<[at |-> "tick"]>>
    /\ UNCHANGED <<wdVars, key, tickQ, ghosts>>

\* tickAnnounce, called by the clock interrupt.
tickAnnounce ==
    /\ Top.at = "clock"
    /\ kernelState' = TRUE
    /\ IF kernelState
         THEN /\ jobs' = Append(jobs, [op |-> "tick"])
              /\ Pop
              /\ UNCHANGED <<wdVars, clockVars, ghosts>>
         ELSE /\ Announce(Append(Below, [at |-> "exit"]))
              /\ UNCHANGED jobs

\* Bug: a watchdog has to wait for the tick after its own.
ExpiredAfter == tickQ # <<>> /\ key[Head(tickQ)] < tickGet

\* qPrioExpired: keys are compared with tickGet().
Expired == tickQ # <<>> /\ key[Head(tickQ)] <= tickGet

\* The first watchdog leaves the queue, and its function is read.
Expire ==
    /\ Top.at = "tick" /\ Expired
    /\ tickQ' = Tail(tickQ)
    /\ status' = [status EXCEPT ![Head(tickQ)] = "OUT_OF_Q"]
    /\ Push([at |-> "fire", wd |-> Head(tickQ), func |-> wdFunc[Head(tickQ)]])
    /\ key' = [key EXCEPT ![Head(tickQ)] = 0]
    /\ UNCHANGED <<valid, dfrStartCount, wdFunc, sysTicks, sysAbsTicks,
                   kernelState, jobs, ghosts>>

Calls == Top.at = "fire" /\ dfrStartCount[Top.wd] = 0

\* Bug: the function is called although the watchdog was started again.
FireAnyway ==
    /\ Top.at = "fire"
    /\ stack' = Below \o <<[at |-> "drain"], [at |-> "handler", fn |-> Top.wd]>>
    /\ Fate(Top.wd, "over")
    /\ set' = [set EXCEPT ![Top.wd] = NotSet]
    /\ UNCHANGED <<wdVars, clockVars, kernelState, jobs>>

\* Unless somebody has started the watchdog meanwhile its function is called;
\* then the jobs it has left are run, before the loop goes on.
Fire ==
    /\ Top.at = "fire"
    /\ IF dfrStartCount[Top.wd] = 0
         THEN /\ stack' = Below \o <<[at |-> "drain"],
                                     [at |-> "handler", fn |-> Top.wd]>>
              /\ Fate(Top.wd, "over")
         ELSE /\ Become([at |-> "drain"])
              /\ UNCHANGED asked
    /\ set' = [set EXCEPT ![Top.wd] = NotSet]
    /\ UNCHANGED <<wdVars, clockVars, kernelState, jobs>>

TickEnds ==
    /\ Top.at = "tick" /\ ~Expired
    /\ Pop
    /\ UNCHANGED <<wdVars, clockVars, kernelState, jobs, ghosts>>

-----------------------------------------------------------------------------
(***************************************************************************)
(* workQDoWork, from the tick loop or from vmxExit, and vmxExit.           *)
(***************************************************************************)
RunJob ==
    /\ Top.at \in {"drain", "exit"} /\ jobs # <<>>
    /\ jobs' = Tail(jobs)
    /\ LET job == Head(jobs) IN
         \/ /\ job.op = "start"
            /\ vmxWdStart(job.wd, job.delay)
            /\ UNCHANGED <<valid, wdFunc, asked, stack>>
         \/ /\ job.op = "cancel"
            /\ vmxWdCancel(job.wd)
            /\ status' = [status EXCEPT ![job.wd] = Cancelled(job.wd)]
            /\ Forget(job.wd)
            /\ UNCHANGED <<valid, dfrStartCount, wdFunc, sysTicks,
                           sysAbsTicks, asked, stack>>
         \/ /\ job.op = "tick"
            /\ Announce(stack)
    /\ UNCHANGED kernelState

DrainEnds ==
    /\ Top.at = "drain" /\ jobs = <<>>
    /\ Pop
    /\ UNCHANGED <<wdVars, clockVars, kernelState, jobs, ghosts>>

ExitKernel ==
    /\ Top.at = "exit" /\ jobs = <<>>
    /\ kernelState' = FALSE
    /\ Pop
    /\ UNCHANGED <<wdVars, clockVars, jobs, ghosts>>

-----------------------------------------------------------------------------
(***************************************************************************)
(* Interrupts.  A clock interrupt is taken while it matters, see MaxTicks. *)
(***************************************************************************)
Quiet(f) ==
    /\ Len(stack) < MaxFrames
    /\ Push(f)
    /\ UNCHANGED <<wdVars, clockVars, kernelState, jobs, ghosts>>

HandlerStarts == Quiet([at |-> "handler", fn |-> NoWd])

TicksDue == sysAbsTicks + Cardinality({i \in DOMAIN jobs : jobs[i].op = "tick"})
Running == \E w \in Wds : status[w] = "IN_Q" \/ dfrStartCount[w] > 0

ClockInterrupt ==
    /\ TicksDue < MaxTicks \/ Running
    /\ CanPost
    /\ Quiet([at |-> "clock"])

\* The handler, or the watchdog function, returns.
HandlerEnds ==
    /\ Top.at = "handler"
    /\ Pop
    /\ UNCHANGED <<wdVars, clockVars, kernelState, jobs, ghosts>>

-----------------------------------------------------------------------------
\* What the code that executes does on its own.
Goes ==
    \/ Post \/ Start \/ Cancel
    \/ tickAnnounce \/ Expire \/ Fire \/ TickEnds
    \/ RunJob \/ DrainEnds \/ ExitKernel \/ HandlerEnds

Call == \E w \in Wds :
    \/ wdCreate(w) \/ wdCancel(w) \/ wdDestroy(w)
    \/ \E delay \in Delays : wdStart(w, delay)

Next == Goes \/ Call \/ HandlerStarts \/ ClockInterrupt

Spec == Init /\ [][Next]_vars

\* Code that executes goes on.  What was interrupted goes on again and again,
\* hence the strong fairness for each height of the stack, and the clock keeps
\* interrupting.  Nobody owes a call.
FairSpec ==
    /\ Spec
    /\ \A n \in Heights : SF_vars(Len(stack) = n /\ Goes)
    /\ SF_vars(ClockInterrupt)

-----------------------------------------------------------------------------
\* Counters keep their width, frames and jobs are well formed.
TypeOK ==
    /\ valid \in [Wds -> BOOLEAN]
    /\ status \in [Wds -> {"OUT_OF_Q", "IN_Q", "DEAD"}]
    /\ dfrStartCount \in [Wds -> Nat]
    /\ wdFunc \in [Wds -> Functions]
    /\ key \in [Wds -> 0..(WORD - 1)]
    /\ tickQ \in Seq(Wds)
    /\ sysTicks \in 0..(WORD - 1) /\ sysAbsTicks \in Nat
    /\ kernelState = \E i \in DOMAIN stack :
          stack[i].at \in {"start", "cancel", "destroy", "exit"}
    /\ jobs \in Seq(Jobs)
    /\ stack \in Seq(Frames) /\ stack # <<>> /\ stack[1].at = "task"

StartJob(job, w) == job.op = "start" /\ job.wd = w

\* dfrStartCount counts exactly the starts that somebody will still carry out:
\* were it lower, an early one would set the timer of the last; were it
\* higher, the watchdog would never be set again.
DeferredCounted == \A w \in Wds :
    dfrStartCount[w] =
        Cardinality({i \in DOMAIN jobs : StartJob(jobs[i], w)}) +
        Cardinality({i \in DOMAIN stack :
            \/ stack[i].at = "start" /\ stack[i].wd = w
            \/ stack[i].at = "post" /\ StartJob(stack[i].job, w)})

\* The status that start, cancel and expiry rely on tells whether the watchdog
\* is in the tick queue, which is sorted and holds each one once.
QueueTells ==
    /\ \A w \in Wds : (status[w] = "IN_Q") = (w \in Elements(tickQ))
    /\ Cardinality(Elements(tickQ)) = Len(tickQ)
    /\ QSorted(tickQ, key)

\* What later calls decide by is true: the deferred starts are counted, and
\* the status tells who is queued, between any two steps of calls, handlers,
\* watchdog functions and the jobs they leave (wdLib.c, vmxLib.c).
Consistent == TypeOK /\ DeferredCounted /\ QueueTells

\* No function is called before its time (vmxLib.c vmxTickAnnounce, qPrioLib.c
\* qPrioExpired) ...
NotEarly == Calls => set[Top.wd].due <= sysAbsTicks

\* ... and none is late: a watchdog whose tick has been announced has been
\* called when the loop of that tick is over, also when the loop ran inside
\* another one (vmxLib.c vmxTickAnnounce, workQLib.c workQDoWork).
NotLate ==
    (\A i \in DOMAIN stack : stack[i].at \notin {"tick", "fire"})
        => \A w \in Elements(tickQ) :
              /\ set[w].due >= sysAbsTicks
              /\ set[w].delay > 0 => set[w].due > sysAbsTicks

\* A function is called for the start that named it, once; not after a cancel
\* or a delete that found the kernel free; and, if only its own function and
\* tasks start the watchdog, after the delay of that start (wdLib.c wdStart,
\* wdCancel, wdDestroy).
CalledAsAsked == Calls =>
    /\ Top.func = wdFunc[Top.wd]
    /\ asked[Top.wd].fate # "over"
    /\ Top.wd \in Private => set[Top.wd].delay = asked[Top.wd].delay

\* When wdDestroy lets go of a watchdog nothing refers to it any more: its
\* memory is free (wdLib.c wdDestroy).
DeletedIsUnused == \A w \in Wds : status[w] = "DEAD" =>
    /\ w \notin Elements(tickQ)
    /\ \A i \in DOMAIN jobs : jobs[i].op # "tick" => jobs[i].wd # w
    /\ \A i \in DOMAIN stack :
          /\ stack[i].at \in {"start", "cancel", "fire"} => stack[i].wd # w
          /\ stack[i].at = "post" => stack[i].job.wd # w

\* A watchdog that was started is called, unless it is cancelled, deleted or
\* started again (wdLib.c wdStart, vmxLib.c vmxTickAnnounce).
StartsAreCalled == \A w \in Wds : \A f \in Functions :
    asked[w].fate = "open" /\ wdFunc[w] = f
        ~> asked[w].fate # "open" \/ wdFunc[w] # f
=============================================================================
