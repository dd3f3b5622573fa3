-------------------------------- MODULE MsgQ --------------------------------
(***************************************************************************)
(* Message queues (src/vmx/msgQLib.c and src/util/qMsgLib.c): a fixed set  *)
(* of nodes that move between the free list and the list of messages, each *)
(* with a queue of tasks that wait for a node.                             *)
(*                                                                         *)
(* A call holds taskLock from its start to its end, also while it waits.   *)
(* An action is one INT_LOCK section of the call with the kernel section   *)
(* it starts, or the code between two of them.  A handler sends in one     *)
(* step: what it interrupts does not notice.  The tasks do nothing else    *)
(* here, in particular they are not suspended or deleted.                  *)
(***************************************************************************)
EXTENDS VmxSched, FiniteSets

CONSTANTS
    Nodes,             \* the nodes of the pool, maxMsg of them
    Data,              \* the contents of messages
    InitialPriority,   \* of each task
    MaxWork            \* bound: jobs in the work queue

\* The two Q_MSG_HEADs of a MSG_Q; their pending queues are those of Sems.
Lists == {"free", "msg"}

ASSUME MsgQAssumption ==
    /\ IsFiniteSet(Tasks) /\ Tasks # {}
    /\ IsFiniteSet(Nodes)
    /\ Sems = Lists
    /\ InitialPriority \in [Tasks -> Priorities]
    /\ NULL \notin Nodes /\ NULL \notin Data
    /\ MaxWork \in Nat

VARIABLES
    valid,             \* the object core is that of a message queue
    list,              \* the nodes in each list
    data,              \* what is stored in each node
    call,              \* what each task does, see Calls
    gathered           \* the nodes msgQDestroy has taken out

msgQVars == <<valid, list, data, call, gathered>>
vars == <<kernVars, schedVars, msgQVars>>

\* A message is its text, and whether it was sent with MSG_PRI_URGENT.
Messages == [text : Data, urgent : BOOLEAN]

Calls == [op : {"none", "send", "receive", "delete"},
          at : {"out", "get", "woken", "copy", "put", "unlock", "exit", "gather"},
          val : Messages \cup {NULL},      \* the message sent or received
          timeout : 0..WAIT_FOREVER,
          node : Nodes \cup {NULL}]

NoCall == [op |-> "none", at |-> "out", val |-> NULL, timeout |-> 0,
           node |-> NULL]

\* The end of a call: its arguments and local variables are dead.
Leaving == [NoCall EXCEPT !.at = "unlock"]

\* All nodes are free, and the tasks are at work.
Init ==
    /\ status = [t \in Tasks |-> {}]
    /\ priority = InitialPriority
    /\ retVal = [t \in Tasks |-> "OK"]
    /\ readyQ \in {q \in [1..Cardinality(Tasks) -> Tasks] :
                      Elements(q) = Tasks /\ QSorted(q, priority)}
    /\ pendQ = [q \in PendQs |-> <<>>]
    /\ tickQ = <<>>
    /\ left = [t \in Tasks |-> 0]
    /\ taskIdCurrent = Head(readyQ)
    /\ kernelIsIdle = FALSE
    /\ kpc = "user" /\ todo = <<>> /\ workQ = <<>>
    /\ intr = FALSE /\ intOff = FALSE
    /\ savedIntOff = [t \in Tasks |-> FALSE]
    /\ lockCount = [t \in Tasks |-> 0]
    /\ timeSlice = [t \in Tasks |-> 0]
    /\ valid = TRUE
    /\ \E free \in [1..Cardinality(Nodes) -> Nodes] :
          /\ Elements(free) = Nodes
          /\ list = [q \in Lists |-> IF q = "free" THEN free ELSE <<>>]
    /\ data = [n \in Nodes |-> NULL]
    /\ call = [t \in Tasks |-> NoCall]
    /\ gathered = {}

-----------------------------------------------------------------------------
At(t, place) == Running(t) /\ call[t].at = place
GoTo(t, place) == call' = [call EXCEPT ![t].at = place]
Leave(t) == call' = [call EXCEPT ![t] = Leaving]
NoSection == UNCHANGED <<kernVars, schedVars>>
SectionOnly == UNCHANGED <<taskIdCurrent, kernelIsIdle, workQ, intr, intOff,
                           savedIntOff, lockCount, timeSlice>>
LockSet(t, n) ==
    /\ lockCount' = [lockCount EXCEPT ![t] = n]
    /\ UNCHANGED <<kernVars, taskIdCurrent, kernelIsIdle, kpc, todo, workQ, intr,
                   intOff, savedIntOff, timeSlice>>

\* Where a call takes its node from and where it puts it.
From(t) == IF call[t].op = "send" THEN "free" ELSE "msg"
To(t)   == IF call[t].op = "send" THEN "msg" ELSE "free"

\* Bug: the priority of the message is ignored.
InsertedLast(q, n, atHead) == Append(list[q], n)

\* The list after qMsgPut: Q_MSG_PRI_TAIL, or the head.
Inserted(q, n, atHead) == IF atHead THEN <<n>> \o list[q] ELSE Append(list[q], n)

\* The kernel section of qMsgPut, if a task waits for a node of list q.
WakeOne(q) ==
    IF pendQ[q] = <<>> THEN UNCHANGED <<kernVars, kpc, todo>>
                       ELSE Section(<<>>) /\ vmxPendQGet(q)

-----------------------------------------------------------------------------
\* msgQSend and msgQReceive up to qMsgGet.
Starts(t, c) ==
    /\ At(t, "out") /\ valid
    /\ call' = [call EXCEPT ![t] = c]
    /\ LockSet(t, lockCount[t] + 1)

SendOrReceive(t) ==
    /\ \/ \E m \in Messages, n \in 0..WAIT_FOREVER :
             Starts(t, [NoCall EXCEPT !.op = "send", !.at = "get", !.val = m,
                                      !.timeout = n])
       \/ \E n \in 0..WAIT_FOREVER :
             Starts(t, [NoCall EXCEPT !.op = "receive", !.at = "get",
                                      !.timeout = n])
    /\ UNCHANGED <<valid, list, data, gathered>>

\* qMsgGet finds a node.
GetNode(t) ==
    /\ At(t, "get") /\ list[From(t)] # <<>>
    /\ call' = [call EXCEPT ![t].at = "copy", ![t].timeout = 0,
                              ![t].node = Head(list[From(t)])]
    /\ list' = [list EXCEPT ![From(t)] = Tail(@)]
    /\ UNCHANGED <<valid, data, gathered>>
    /\ NoSection

\* qMsgGet finds none, and returns with WAIT_NONE, or waits.
GetNone(t) ==
    /\ At(t, "get") /\ list[From(t)] = <<>>
    /\ IF call[t].timeout = 0
         THEN Leave(t) /\ NoSection
         ELSE /\ Section(<<>>)
              /\ vmxPendQPut(From(t), t, call[t].timeout)
              /\ GoTo(t, "woken")
              /\ SectionOnly
    /\ UNCHANGED <<valid, list, data, gathered>>

\* qMsgGet goes on: it looks again, unless the wait timed out or the message
\* queue was deleted.
GetGoesOn(t) ==
    /\ At(t, "woken")
    /\ IF retVal[t] = "OK" /\ valid THEN GoTo(t, "get") ELSE Leave(t)
    /\ retVal' = [retVal EXCEPT ![t] = "OK"]
    /\ UNCHANGED <<valid, list, data, gathered, schedVars, status, priority,
                   readyQ, pendQ, tickQ, left>>

\* memcpy between the buffer of the caller and the node.  What the source holds
\* afterwards is of no consequence: NULL.
Copy(t) ==
    LET n == call[t].node IN
    /\ At(t, "copy")
    /\ IF call[t].op = "send"
         THEN /\ data' = [data EXCEPT ![n] = call[t].val]
              /\ call' = [call EXCEPT ![t].at = "put", ![t].val = NULL]
         ELSE /\ data' = [data EXCEPT ![n] = NULL]
              /\ call' = [call EXCEPT ![t].at = "put", ![t].val = data[n]]
    /\ UNCHANGED <<valid, list, gathered>>
    /\ NoSection

\* qMsgPut.
Put(t) ==
    LET q == To(t) IN
    /\ At(t, "put")
    /\ list' = [list EXCEPT ![q] = Inserted(q, call[t].node,
                  call[t].op = "receive" \/ data[call[t].node].urgent)]
    /\ WakeOne(q)
    /\ Leave(t)
    /\ UNCHANGED <<valid, data, gathered>>
    /\ SectionOnly

\* taskUnlock: first the count, then, as it is zero, through the kernel.
Unlock(t) ==
    /\ At(t, "unlock")
    /\ LockSet(t, lockCount[t] - 1)
    /\ GoTo(t, "exit")
    /\ UNCHANGED <<valid, list, data, gathered>>

Exit(t) ==
    /\ At(t, "exit")
    /\ Section(<<>>)
    /\ call' = [call EXCEPT ![t] = IF @.op = "delete"
                                   THEN [@ EXCEPT !.at = "gather"] ELSE NoCall]
    /\ UNCHANGED <<valid, list, data, gathered, kernVars>>
    /\ SectionOnly

-----------------------------------------------------------------------------
\* msgQDestroy: the queue is invalid, with preemption off.
DeleteStarts(t) ==
    /\ Starts(t, [NoCall EXCEPT !.op = "delete", !.at = "unlock"])
    /\ valid' = FALSE
    /\ UNCHANGED <<list, data, gathered>>

\* Nodes are taken out, first of the free list, one at a time.
Gather(t) ==
    LET q == IF list["free"] # <<>> THEN "free" ELSE "msg" IN
    /\ At(t, "gather") /\ list[q] # <<>>
    /\ list' = [list EXCEPT ![q] = Tail(@)]
    /\ gathered' = gathered \cup {Head(list[q])}
    /\ UNCHANGED <<valid, data, call>>
    /\ NoSection

\* All nodes are there: who waits is told that the queue is gone.
DeleteEnds(t) ==
    /\ At(t, "gather") /\ gathered = Nodes
    /\ Section(<<<<"terminate", "msg">>, <<"terminate", "free">>>>)
    /\ call' = [call EXCEPT ![t] = NoCall]
    /\ UNCHANGED <<valid, list, data, gathered, kernVars>>
    /\ SectionOnly

-----------------------------------------------------------------------------
\* Bug: the node stays in the free list, too.
HandlerMovesCopy(m) ==
    /\ valid /\ list["free"] # <<>>
    /\ LET n == Head(list["free"]) IN
       /\ data' = [data EXCEPT ![n] = m]
       /\ list' = [list EXCEPT !["msg"] = Inserted("msg", n, m.urgent)]
    /\ UNCHANGED <<valid, call, gathered>>

\* A handler sends m: msgQSend up to the end of the list operation of qMsgPut.
HandlerMoves(m) ==
    /\ valid /\ list["free"] # <<>>
    /\ LET n == Head(list["free"]) IN
       /\ data' = [data EXCEPT ![n] = m]
       /\ list' = [list EXCEPT !["free"] = Tail(@),
                               !["msg"] = Inserted("msg", n, m.urgent)]
    /\ UNCHANGED <<valid, call, gathered>>

\* With kernelState FALSE it wakes a receiver.
HandlerSends(m) ==
    /\ kpc = "user" /\ intr
    /\ HandlerMoves(m)
    /\ WakeOne("msg")
    /\ SectionOnly

CanPost == kernelState /\ todo = <<>> /\ ~intOff /\ Len(workQ) < MaxWork

Posts(j) ==
    /\ workQ' = Append(workQ, j)
    /\ UNCHANGED <<kernVars, taskIdCurrent, kernelIsIdle, kpc, todo, intr, intOff,
                   savedIntOff, lockCount, timeSlice>>

\* Bug: nobody is woken for a message that a handler sends during a section.
HandlerSendsQuietly(m) ==
    /\ CanPost
    /\ HandlerMoves(m)
    /\ NoSection

\* With kernelState TRUE the message is there at once, and a receiver is woken
\* by a job.
HandlerSendsLater(m) ==
    /\ CanPost
    /\ HandlerMoves(m)
    /\ Posts(<<"wake">>)

\* The clock.
Tick ==
    /\ \/ /\ kpc = "user" /\ intr /\ Section(TickLoops) /\ advance
          /\ SectionOnly
       \/ CanPost /\ Posts(<<"tick">>)
    /\ UNCHANGED msgQVars

\* qMsgPendQGet, the job; and the job of the clock.
RunJob ==
    /\ TakeJob
    /\ \/ /\ Head(workQ) = <<"wake">>
          /\ IF pendQ["msg"] = <<>> THEN UNCHANGED kernVars ELSE vmxPendQGet("msg")
          /\ UNCHANGED todo
       \/ Head(workQ) = <<"tick">> /\ advance /\ todo' = TickLoops
    /\ UNCHANGED <<lockCount, timeSlice, msgQVars>>

-----------------------------------------------------------------------------
TaskStep(t) ==
    \/ SendOrReceive(t) \/ GetNode(t) \/ GetNone(t) \/ GetGoesOn(t) \/ Copy(t)
    \/ Put(t) \/ Unlock(t) \/ Exit(t)
    \/ DeleteStarts(t) \/ Gather(t) \/ DeleteEnds(t)

Handler ==
    \/ IntEnt /\ UNCHANGED msgQVars
    \/ IntExit /\ UNCHANGED msgQVars
    \/ \E m \in Messages :
          HandlerSends(m) \/ HandlerSendsLater(m)
    \/ Tick

Next ==
    \/ \E t \in Tasks : TaskStep(t)
    \/ SchedStep /\ UNCHANGED msgQVars
    \/ RunJob
    \/ Handler

Spec == Init /\ [][Next]_vars

-----------------------------------------------------------------------------
Held == {call[t].node : t \in Tasks} \ {NULL}

MsgQTypeOK ==
    /\ valid \in BOOLEAN
    /\ list \in [Lists -> Seq(Nodes)]
    /\ data \in [Nodes -> Messages \cup {NULL}]
    /\ call \in [Tasks -> Calls]
    /\ gathered \subseteq Nodes
    /\ workQ \in Seq({<<"wake">>, <<"tick">>})
    /\ lockCount \in [Tasks -> 0..1]

\* No node is lost or in two places, whoever sends, receives, times out or
\* deletes the queue: it is in one list, or a task works on it, or msgQDestroy
\* has it.
NodesConserved == \A n \in Nodes :
    Cardinality({q \in Lists : n \in Elements(list[q])})
      + Cardinality({t \in Tasks : call[t].node = n})
      + (IF n \in gathered THEN 1 ELSE 0) = 1

\* The nodes stay where the calls in progress expect them (msgQLib.c,
\* qMsgLib.c).
Consistent == MsgQTypeOK /\ NodesConserved

\* The tasks that will look at a list again, and the jobs that will wake one.  A
\* task whose wait timed out leaves without a look (qMsgLib.c).
Looks(t, q) == From(t) = q /\
    \/ call[t].at = "get"
    \/ call[t].at = "woken" /\ retVal[t] = "OK" /\ t \notin Elements(pendQ[q])
Lookers(q) == {t \in Tasks : Looks(t, q)}
Jobs(q) == {i \in DOMAIN workQ : q = "msg" /\ workQ[i] = <<"wake">>}

\* Tasks wait for a node next to nodes only if enough tasks have been woken, or
\* will be by jobs that wait: for each node there is one that will look at the
\* list, although another may come first and take it.
NobodyForgotten == \A q \in Lists : pendQ[q] # <<>> /\ valid =>
    Len(list[q]) <= Cardinality(Lookers(q)) + Cardinality(Jobs(q))

\* When msgQDestroy has emptied both lists it has all nodes: it never has to
\* "wait a little", as a task that works on a node keeps the processor.
GatherComplete == \A t \in Tasks :
    call[t].at = "gather" /\ list["free"] = <<>> /\ list["msg"] = <<>> =>
        gathered = Nodes

\* Messages are delivered as MsgQueue says: in order, once, as they were sent,
\* and none before the queue exists or after it was deleted.  A message is
\* received when its node leaves the list.
Promise == INSTANCE MsgQueue WITH
    Receivers <- Tasks,
    Capacity <- Cardinality(Nodes),
    queue <- [i \in DOMAIN list["msg"] |-> data[list["msg"][i]]],
    got <- [t \in Tasks |->
              IF call[t].op # "receive" THEN NULL
              ELSE IF call[t].at = "copy" THEN data[call[t].node]
              ELSE call[t].val]
KeepsMessages == Promise!MsgSpec
=============================================================================
