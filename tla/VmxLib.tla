------------------------------- MODULE VmxLib -------------------------------
(***************************************************************************)
(* The routines of the kernel proper (src/vmx/vmxLib.c): they move tasks   *)
(* between the ready queue, the tick queue and the pending queues and keep *)
(* the status of each task in step.  They are called with kernelState      *)
(* TRUE, by the code of one kernel section or by a job of the work queue,  *)
(* so nothing else touches this state meanwhile (see module WorkQ).  Each  *)
(* operator below is what one call does to kernVars; the loops over a      *)
(* queue are one iteration of the loop, and VmxSched repeats them.         *)
(***************************************************************************)
EXTENDS Naturals, Sequences, QPrio

CONSTANTS
    Tasks,
    Sems,
    FifoSems,        \* the semaphores created with SEM_Q_FIFO
    NULL,
    MaxTimeout,      \* bound: the longest timeout or delay, in ticks
    Priorities       \* bound: the priorities in use, within 0..255

WAIT_FOREVER == MaxTimeout + 1

ASSUME VmxLibAssumption ==
    /\ FifoSems \subseteq Sems
    /\ Tasks \cap Sems = {}
    /\ NULL \notin Tasks
    /\ MaxTimeout \in Nat
    /\ Priorities \subseteq 0..255

VARIABLES
    status,          \* the status flags of each task; TASK_READY is {}
    priority,
    retVal,          \* EAX in the saved context: what the blocked call returns
    readyQ,
    pendQ,           \* of each semaphore, and the safetyQ of each task
    tickQ,           \* the tasks with a timeout, those that expire first first
    left             \* ticks until a task in tickQ expires, else 0

kernVars == <<status, priority, retVal, readyQ, pendQ, tickQ, left>>

PendQs == Sems \cup Tasks

Flags == {"suspend", "pend", "delay", "dead"}
Ready(t) == status[t] = {}
Alive(t) == "dead" \notin status[t]

\* tcbId->pPendQ
PendQOf(t) == CHOOSE q \in PendQs : t \in Elements(pendQ[q])

PendQPut(q, t) ==
    IF q \in FifoSems THEN Append(pendQ[q], t)
                      ELSE QPrioPut(pendQ[q], t, priority)

ReadyQPut(t) == QPriBmpPut(readyQ, t, priority)

\* The ready queue after t got the flags flags', if it was not in it before.
ReadyIf(t) == readyQ' = IF status'[t] = {} THEN ReadyQPut(t) ELSE readyQ

\* Bug: the task enters the tick queue one tick late.
TickQPutLate(t, n) ==
    /\ left' = [left EXCEPT ![t] = n + 1]
    /\ tickQ' = QPrioPut(tickQ, t, left')

\* t enters the tick queue, to expire at tick n from now.
TickQPut(t, n) ==
    /\ left' = [left EXCEPT ![t] = n]
    /\ tickQ' = QPrioPut(tickQ, t, left')

\* Bug: the nodes behind the one that leaves are lost with it.
TickQRemoveTail(t) ==
    /\ left' = [left EXCEPT ![t] = 0]
    /\ tickQ' = IF t \notin Elements(tickQ) THEN tickQ
                ELSE SubSeq(tickQ, 1, (CHOOSE i \in DOMAIN tickQ : tickQ[i] = t) - 1)

TickQRemove(t) ==
    /\ left' = [left EXCEPT ![t] = 0]
    /\ tickQ' = QRemove(tickQ, t)

LeaveTickQ(t) ==
    IF "delay" \in status[t] THEN TickQRemove(t) ELSE UNCHANGED <<tickQ, left>>

-----------------------------------------------------------------------------
vmxSuspend(t) ==
    /\ status' = [status EXCEPT ![t] = @ \cup {"suspend"}]
    /\ readyQ' = IF Ready(t) THEN QRemove(readyQ, t) ELSE readyQ
    /\ UNCHANGED <<priority, retVal, pendQ, tickQ, left>>

\* Bug: every task that is resumed is made ready, also one that still waits.
vmxResumeAlways(t) ==
    /\ status' = [status EXCEPT ![t] = @ \ {"suspend"}]
    /\ readyQ' = IF "suspend" \in status[t] THEN ReadyQPut(t) ELSE readyQ
    /\ UNCHANGED <<priority, retVal, pendQ, tickQ, left>>

vmxResume(t) ==
    /\ status' = [status EXCEPT ![t] = @ \ {"suspend"}]
    /\ readyQ' = IF status[t] = {"suspend"} THEN ReadyQPut(t) ELSE readyQ
    /\ UNCHANGED <<priority, retVal, pendQ, tickQ, left>>

\* Bug: the task is moved in the queue, and stays where it is.
yieldByMove(t) ==
    /\ readyQ' = QPrioMove(readyQ, t, priority)
    /\ UNCHANGED <<status, priority, retVal, pendQ, tickQ, left>>

\* taskDelay(WAIT_NONE) only yields to the tasks of the same priority.
yield(t) ==
    /\ readyQ' = QPriBmpPut(QRemove(readyQ, t), t, priority)
    /\ UNCHANGED <<status, priority, retVal, pendQ, tickQ, left>>

vmxDelay(t, timeout) ==
    /\ status' = [status EXCEPT ![t] = @ \cup {"delay"}]
    /\ readyQ' = QRemove(readyQ, t)
    /\ TickQPut(t, timeout)
    /\ UNCHANGED <<priority, retVal, pendQ>>

\* Q_REMOVE gets &tcbId->priority for a node: it links whatever the words
\* there point to, and the tick node of the task stays in the tick queue.
vmxUndelay(t) ==
    /\ status' = [status EXCEPT ![t] = @ \ {"delay"}]
    /\ readyQ' = IF status[t] = {"delay"} THEN ReadyQPut(t) ELSE readyQ
    /\ UNCHANGED <<priority, retVal, pendQ, tickQ, left>>

\* Bug: the ready queue is not told.
vmxPrioritySetOnly(t, p) ==
    /\ priority' = [priority EXCEPT ![t] = p]
    /\ UNCHANGED <<status, retVal, readyQ, pendQ, tickQ, left>>

vmxPrioritySet(t, p) ==
    /\ priority' = [priority EXCEPT ![t] = p]
    /\ readyQ' = IF Ready(t) THEN QPriBmpMove(readyQ, t, priority') ELSE readyQ
    /\ pendQ' = IF "pend" \in status[t] /\ PendQOf(t) \notin FifoSems
                THEN [pendQ EXCEPT ![PendQOf(t)] = QPrioMove(@, t, priority')]
                ELSE pendQ
    /\ UNCHANGED <<status, retVal, tickQ, left>>

\* vmxPendQPut: task t waits in q.  WAIT_NONE is not refused, it is a timeout
\* of zero ticks.
vmxPendQPut(q, t, timeout) ==
    /\ readyQ' = QRemove(readyQ, t)
    /\ pendQ' = [pendQ EXCEPT ![q] = PendQPut(q, t)]
    /\ IF timeout = WAIT_FOREVER
         THEN /\ status' = [status EXCEPT ![t] = @ \cup {"pend"}]
              /\ UNCHANGED <<tickQ, left>>
         ELSE /\ status' = [status EXCEPT ![t] = @ \cup {"pend", "delay"}]
              /\ TickQPut(t, timeout)
    /\ UNCHANGED <<priority, retVal>>

\* The first task of q stops waiting, and its call will return ret.
unpend(q, ret) ==
    LET t == Head(pendQ[q]) IN
    /\ status' = [status EXCEPT ![t] = @ \ {"pend", "delay"}]
    /\ retVal' = [retVal EXCEPT ![t] = ret]
    /\ pendQ' = [pendQ EXCEPT ![q] = Tail(@)]
    /\ LeaveTickQ(t)
    /\ ReadyIf(t)
    /\ UNCHANGED priority

vmxPendQGet(q) == unpend(q, "OK")

\* One iteration each of the loops of vmxPendQFlush and vmxPendQTerminate.
vmxPendQFlush(q)     == unpend(q, "OK")
vmxPendQTerminate(q) == unpend(q, "ERROR")

vmxDelete(t) ==
    /\ status' = [status EXCEPT ![t] = {"dead"}]
    /\ readyQ' = IF Ready(t) THEN QRemove(readyQ, t) ELSE readyQ
    /\ pendQ' = IF "pend" \in status[t]
                THEN [pendQ EXCEPT ![PendQOf(t)] = QRemove(@, t)] ELSE pendQ
    /\ LeaveTickQ(t)
    /\ UNCHANGED <<priority, retVal>>

\* vmxTickAnnounce: the clock advances ...
advance ==
    /\ left' = [t \in Tasks |-> IF left[t] > 0 THEN left[t] - 1 ELSE 0]
    /\ UNCHANGED <<status, priority, retVal, readyQ, pendQ, tickQ>>

Expired == tickQ # <<>> /\ left[Head(tickQ)] = 0

\* Bug: the call of a task that timed out returns what was in EAX.
expireQuietly ==
    LET t == Head(tickQ) IN
    /\ tickQ' = Tail(tickQ)
    /\ status' = [status EXCEPT ![t] = @ \ {"pend", "delay"}]
    /\ pendQ' = IF "pend" \in status[t]
                THEN [pendQ EXCEPT ![PendQOf(t)] = QRemove(@, t)] ELSE pendQ
    /\ ReadyIf(t)
    /\ UNCHANGED <<priority, retVal, left>>

\* ... and the tasks whose time has come leave the tick queue, one for each
\* iteration.  A task that also was pending has timed out.
expire ==
    LET t == Head(tickQ) IN
    /\ tickQ' = Tail(tickQ)
    /\ status' = [status EXCEPT ![t] = @ \ {"pend", "delay"}]
    /\ IF "pend" \in status[t]
         THEN /\ pendQ' = [pendQ EXCEPT ![PendQOf(t)] = QRemove(@, t)]
              /\ retVal' = [retVal EXCEPT ![t] = "ERROR"]
         ELSE /\ retVal' = IF status'[t] = {}
                           THEN [retVal EXCEPT ![t] = "OK"] ELSE retVal
              /\ UNCHANGED pendQ
    /\ ReadyIf(t)
    /\ UNCHANGED <<priority, left>>
=============================================================================
