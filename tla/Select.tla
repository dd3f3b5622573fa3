------------------------------- MODULE Select -------------------------------
(***************************************************************************)
(* select (src/os/selectLib.c) on pipes (src/os/pipeDrv.c).                *)
(*                                                                         *)
(* A task that selects leaves a node in the wakeup list of each device,    *)
(* then looks whether the device is ready, and waits for the semaphore of  *)
(* its own that every wakeup gives.  Who makes a device ready looks at the *)
(* list afterwards, a handler through a job of the exception task          *)
(* (src/os/excLib.c).                                                      *)
(*                                                                         *)
(* Tasks interleave at the calls of the kernel.  The message queue of a    *)
(* pipe is the bounded queue of module MsgQueue, reduced to its length;    *)
(* the mutex of a list is a semMLib semaphore with a FIFO queue.           *)
(***************************************************************************)
EXTENDS Naturals, Sequences, FiniteSets, Functions

CONSTANTS
    Tasks,
    Selecting,       \* bound: the tasks that call select
    Victims,         \* bound: the tasks that may be deleted
    Pipes,
    Plain,           \* descriptors whose driver knows no FIOSELECT
    Requests,        \* bound: what is selected on, and whether with a timeout
    MaxMsg,          \* messages a pipe can hold
    EXC_MAX_MSGS,    \* jobs the queue of the exception task can hold
    exc,             \* the exception task
    NULL

Types  == {"read", "write"}
Actors == Tasks \cup {exc}
Fds    == Types \X (Pipes \cup Plain)

\* The descriptors of a call are in the order in which selDoIoctls goes through
\* them, those to read before those to write.
IsRequest(r) ==
    /\ r.fds \in Seq(Fds) /\ r.timed \in BOOLEAN
    /\ \A i, j \in DOMAIN r.fds : r.fds[i] = r.fds[j] => i = j

ASSUME SelectAssumption ==
    /\ Selecting \subseteq Tasks /\ Victims \subseteq Tasks
    /\ exc \notin Tasks /\ NULL \notin Actors \cup Pipes \cup Plain
    /\ Pipes \cap Plain = {}
    /\ \A r \in Requests : IsRequest(r)
    /\ MaxMsg \in Nat \ {0} /\ EXC_MAX_MSGS \in Nat

VARIABLES
    msgs,            \* how many messages are in each pipe
    wakeupList,      \* the nodes in the list of each pipe
    owner, waiters,  \* the mutex of the list
    wakeupSync,      \* the semaphore of each task is full
    orig, found,     \* what each task has asked for, and what was set for it
    pendedOnSelect,
    excMsgQ,         \* jobs of the exception task
    code,            \* what each actor still has to do in its call
    suspended, dead, \* tasks that are being deleted, and those that are gone
    untold           \* ready descriptors nobody is told about

ipcVars  == <<msgs, excMsgQ>>
listVars == <<wakeupList, owner, waiters>>
taskVars == <<wakeupSync, orig, found, pendedOnSelect>>
lifeVars == <<suspended, dead>>
vars == <<ipcVars, listVars, taskVars, code, lifeVars, untold>>

Idle == [at |-> "idle"]

Init ==
    /\ msgs = [p \in Pipes |-> 0]
    /\ wakeupList = [p \in Pipes |-> <<>>]
    /\ owner = [p \in Pipes |-> NULL]
    /\ waiters = [p \in Pipes |-> <<>>]
    /\ wakeupSync = [t \in Tasks |-> FALSE]
    /\ orig = [t \in Tasks |-> <<>>]
    /\ found = [t \in Tasks |-> {}]
    /\ pendedOnSelect = [t \in Tasks |-> FALSE]
    /\ excMsgQ = <<>>
    /\ code = [t \in Actors |-> Idle]
    /\ suspended = {} /\ dead = {}
    /\ untold = {}

-----------------------------------------------------------------------------
(***************************************************************************)
(* The mutex of a list.                                                    *)
(***************************************************************************)
Runs(t) == t \notin suspended \cup dead
At(t, s) == Runs(t) /\ code[t].at = s
Goto(t, c) == code' = [code EXCEPT ![t] = c]

Waits(t) == \E p \in Pipes : t \in Range(waiters[p])

\* t gets the mutex of p, or waits.
MutexTake(t, p) ==
    IF owner[p] = NULL
      THEN owner' = [owner EXCEPT ![p] = t] /\ UNCHANGED waiters
      ELSE waiters' = [waiters EXCEPT ![p] = Append(@, t)] /\ UNCHANGED owner

\* The first task that waits becomes the owner.  A second give by the same task
\* finds another owner, or none, and is refused.
MutexGive(p) ==
    /\ owner' = [owner EXCEPT ![p] = IF waiters[p] = <<>> THEN NULL
                                                          ELSE Head(waiters[p])]
    /\ waiters' = [waiters EXCEPT ![p] = IF @ = <<>> THEN @ ELSE Tail(@)]

\* The list an actor needs next, if any.
ListOf(t) ==
    IF code[t].at \in {"select", "unselect", "hook"} /\ code[t].rest # <<>>
      THEN Head(code[t].rest)[2]
    ELSE IF code[t].at = "wake" THEN code[t].pipe ELSE NULL

semTake(t) ==
    /\ Runs(t) /\ ~Waits(t)
    /\ LET p == ListOf(t) IN
         /\ p \in Pipes /\ owner[p] # t
         /\ MutexTake(t, p)
    /\ UNCHANGED <<ipcVars, wakeupList, taskVars, code, lifeVars, untold>>

\* t is at s and has the mutex it needs for that.
Has(t, s) == At(t, s) /\ LET p == ListOf(t) IN p \in Pipes /\ owner[p] = t

Rest(t) == [code[t] EXCEPT !.rest = Tail(@)]

-----------------------------------------------------------------------------
(***************************************************************************)
(* select                                                                  *)
(***************************************************************************)
\* Bug: the semaphore keeps a wakeup of the call before.
selectAgain(t, fds, timed) ==
    /\ At(t, "idle")
    /\ orig' = [orig EXCEPT ![t] = fds]
    /\ found' = [found EXCEPT ![t] = {}]
    /\ Goto(t, [at |-> "select", rest |-> fds, timed |-> timed])
    /\ UNCHANGED <<ipcVars, listVars, wakeupSync, pendedOnSelect, lifeVars,
                   untold>>

select(t, fds, timed) ==
    /\ At(t, "idle")
    /\ wakeupSync' = [wakeupSync EXCEPT ![t] = FALSE]
    /\ orig' = [orig EXCEPT ![t] = fds]
    /\ found' = [found EXCEPT ![t] = {}]
    /\ Goto(t, [at |-> "select", rest |-> fds, timed |-> timed])
    /\ UNCHANGED <<ipcVars, listVars, pendedOnSelect, lifeVars, untold>>

Ready(fd) == IF fd[1] = "read" THEN msgs[fd[2]] > 0 ELSE msgs[fd[2]] < MaxMsg

\* FIOSELECT: selNodeAdd ...
selNodeAdd(t) ==
    /\ Has(t, "select")
    /\ LET p == ListOf(t) IN
         /\ wakeupList' = [wakeupList EXCEPT ![p] =
                Append(@, [task |-> t, type |-> Head(code[t].rest)[1]])]
         /\ MutexGive(p)
    /\ Goto(t, [code[t] EXCEPT !.at = "look"])
    /\ UNCHANGED <<ipcVars, taskVars, lifeVars, untold>>

\* Bug: a device that is ready already is left for a later wakeup.
LookNot(t) ==
    /\ At(t, "look")
    /\ Goto(t, [Rest(t) EXCEPT !.at = "select"])
    /\ UNCHANGED <<ipcVars, listVars, taskVars, lifeVars, untold>>

\* ... and the look at the device itself.
Look(t) ==
    /\ At(t, "look")
    /\ LET fd == Head(code[t].rest) IN
         IF Ready(fd)
           THEN /\ found' = [found EXCEPT ![t] = @ \cup {fd}]
                /\ wakeupSync' = [wakeupSync EXCEPT ![t] = TRUE]
           ELSE UNCHANGED <<found, wakeupSync>>
    /\ Goto(t, [Rest(t) EXCEPT !.at = "select"])
    /\ UNCHANGED <<ipcVars, listVars, orig, pendedOnSelect, lifeVars, untold>>

\* A driver without FIOSELECT: what was done so far is undone.
SelectFails(t) ==
    /\ At(t, "select") /\ ListOf(t) \in Plain
    /\ Goto(t, [at |-> "unselect", rest |-> orig[t]])
    /\ UNCHANGED <<ipcVars, listVars, taskVars, lifeVars, untold>>

Pend(t) ==
    /\ At(t, "select") /\ code[t].rest = <<>>
    /\ pendedOnSelect' = [pendedOnSelect EXCEPT ![t] = TRUE]
    /\ Goto(t, [code[t] EXCEPT !.at = "wait"])
    /\ UNCHANGED <<ipcVars, listVars, wakeupSync, orig, found, lifeVars, untold>>

\* The wait ends with a wakeup or with the timeout.
WaitEnds(t) ==
    /\ At(t, "wait")
    /\ wakeupSync[t] \/ code[t].timed
    /\ wakeupSync' = [wakeupSync EXCEPT ![t] = FALSE]
    /\ Goto(t, [at |-> "unselect", rest |-> orig[t]])
    /\ UNCHANGED <<ipcVars, listVars, orig, found, pendedOnSelect, lifeVars,
                   untold>>

\* Bug: only the head of the list is looked at.
WithoutHead(nodes, n) ==
    IF nodes # <<>> /\ Head(nodes) = n THEN Tail(nodes) ELSE nodes

\* selNodeDelete takes out the first node of the task and type, if any; a task
\* leaves the queue of a mutex the same way.
Without(nodes, n) ==
    LET at == {i \in DOMAIN nodes : nodes[i] = n}
    IN  IF at = {} THEN nodes
        ELSE LET i == CHOOSE i \in at : \A j \in at : i <= j
             IN  SubSeq(nodes, 1, i - 1) \o SubSeq(nodes, i + 1, Len(nodes))

\* FIOUNSELECT, for the caller or for the task it deletes.
selNodeDelete(t, for) ==
    /\ LET p == ListOf(t) IN
         /\ wakeupList' = [wakeupList EXCEPT ![p] =
                Without(@, [task |-> for, type |-> Head(code[t].rest)[1]])]
         /\ MutexGive(p)
    /\ Goto(t, Rest(t))
    /\ UNCHANGED <<ipcVars, taskVars, lifeVars, untold>>

Unselect(t) == Has(t, "unselect") /\ selNodeDelete(t, t)

\* The ioctl of a driver that has no FIOUNSELECT fails, and the loop goes on.
UnselectPlain(t) ==
    /\ At(t, "unselect") \/ At(t, "hook")
    /\ ListOf(t) \in Plain
    /\ Goto(t, Rest(t))
    /\ UNCHANGED <<ipcVars, listVars, taskVars, lifeVars, untold>>

\* The bits are counted, and the caller has its sets back.
Return(t) ==
    /\ At(t, "unselect") /\ code[t].rest = <<>>
    /\ pendedOnSelect' = [pendedOnSelect EXCEPT ![t] = FALSE]
    /\ orig' = [orig EXCEPT ![t] = <<>>]
    /\ found' = [found EXCEPT ![t] = {}]
    /\ Goto(t, Idle)
    /\ UNCHANGED <<ipcVars, listVars, wakeupSync, lifeVars, untold>>

-----------------------------------------------------------------------------
(***************************************************************************)
(* selWakeupAll                                                            *)
(***************************************************************************)
Nodes(p, type) == {t \in Tasks : [task |-> t, type |-> type] \in Range(wakeupList[p])}

\* The tasks whose nodes selWakeup is called for.
Woken(p, type) == Nodes(p, type)

\* The length of the list is looked at without its mutex ...
LookAtList(t) ==
    /\ At(t, "list")
    /\ Goto(t, IF wakeupList[code[t].pipe] = <<>> THEN Idle
               ELSE [code[t] EXCEPT !.at = "wake"])
    /\ UNCHANGED <<ipcVars, listVars, taskVars, lifeVars, untold>>

\* ... and all nodes of the type are woken with it.
WakeAll(t) ==
    /\ Has(t, "wake")
    /\ LET p == code[t].pipe
           woken == Woken(p, code[t].type)
       IN  /\ found' = [u \in Tasks |-> IF u \in woken
                        THEN found[u] \cup {<<code[t].type, p>>} ELSE found[u]]
           /\ wakeupSync' = [u \in Tasks |-> u \in woken \/ wakeupSync[u]]
           /\ MutexGive(p)
    /\ untold' = untold \ {<<code[t].type, code[t].pipe>>}
    /\ Goto(t, Idle)
    /\ UNCHANGED <<ipcVars, wakeupList, orig, pendedOnSelect, lifeVars>>

-----------------------------------------------------------------------------
(***************************************************************************)
(* Pipes.                                                                  *)
(***************************************************************************)
\* No list will be gone through for fds; who is not ready needs no wakeup.
Untold(fds) == untold' = {fd \in untold \cup fds : Ready(fd)'}

\* The message is sent and the mutex taken without preemption in between.
pipeWrite(t, p) ==
    /\ At(t, "idle")
    /\ msgs[p] < MaxMsg
    /\ msgs' = [msgs EXCEPT ![p] = @ + 1]
    /\ MutexTake(t, p)
    /\ Goto(t, [at |-> "wake", pipe |-> p, type |-> "read"])
    /\ Untold({})
    /\ UNCHANGED <<excMsgQ, wakeupList, taskVars, lifeVars>>

pipeRead(t, p) ==
    /\ At(t, "idle")
    /\ msgs[p] > 0
    /\ msgs' = [msgs EXCEPT ![p] = @ - 1]
    /\ Goto(t, [at |-> "list", pipe |-> p, type |-> "write"])
    /\ Untold({})
    /\ UNCHANGED <<excMsgQ, listVars, taskVars, lifeVars>>

\* FIOFLUSH: the messages are received with preemption off, and nobody is told.
pipeFlush(t, p) ==
    /\ At(t, "idle")
    /\ msgs[p] > 0
    /\ msgs' = [msgs EXCEPT ![p] = 0]
    /\ Untold(IF wakeupList[p] = <<>> THEN {} ELSE {<<"write", p>>})
    /\ UNCHANGED <<excMsgQ, listVars, taskVars, code, lifeVars>>

(***************************************************************************)
(* pipeWrite by a handler.  While the kernel is busy qMsgPut links the     *)
(* message and returns a variable it has not set: the caller may be told   *)
(* that the send has failed, and then looks at no list.                    *)
(***************************************************************************)
HandlerSends(p) ==
    /\ msgs[p] < MaxMsg
    /\ msgs' = [msgs EXCEPT ![p] = @ + 1]
    /\ UNCHANGED <<listVars, taskVars, code, lifeVars>>

HandlerWrites(p) ==
    /\ HandlerSends(p)
    /\ \/ /\ wakeupList[p] = <<>>
          /\ UNCHANGED excMsgQ
          /\ Untold({})
       \/ /\ wakeupList[p] # <<>> /\ Len(excMsgQ) < EXC_MAX_MSGS
          /\ excMsgQ' = Append(excMsgQ, p)
          /\ Untold({})
       \/ /\ wakeupList[p] # <<>> /\ Len(excMsgQ) = EXC_MAX_MSGS
          /\ UNCHANGED excMsgQ
          /\ Untold({<<"read", p>>})

HandlerMisled(p) ==
    /\ HandlerSends(p)
    /\ Untold(IF wakeupList[p] = <<>> THEN {} ELSE {<<"read", p>>})
    /\ UNCHANGED excMsgQ

\* excTask calls selWakeupAll of the list, for readers.
ExcTask ==
    /\ At(exc, "idle") /\ excMsgQ # <<>>
    /\ excMsgQ' = Tail(excMsgQ)
    /\ Goto(exc, [at |-> "list", pipe |-> Head(excMsgQ), type |-> "read"])
    /\ UNCHANGED <<msgs, listVars, taskVars, lifeVars, untold>>

-----------------------------------------------------------------------------
(***************************************************************************)
(* Deletion of a task (taskDestroy): the victim, which is not safe then,   *)
(* that is owns no mutex and deletes nobody, is suspended, its hook is     *)
(* run, and then it is dead.  A wakeup it was about to give is not given.  *)
(***************************************************************************)
OnItsWay(u) == code[u].at \in {"list", "wake"}

taskDestroy(t, v) ==
    /\ At(t, "idle") /\ Runs(v) /\ v # t
    /\ \A p \in Pipes : owner[p] # v
    /\ code[v].at # "hook"
    /\ suspended' = suspended \cup {v}
    /\ Goto(t, [at |-> "hook", victim |-> v,
                rest |-> IF pendedOnSelect[v] THEN orig[v] ELSE <<>>])
    /\ UNCHANGED <<ipcVars, listVars, taskVars, dead>>
    /\ Untold(IF OnItsWay(v) THEN {<<code[v].type, code[v].pipe>>} ELSE {})

selTaskDeleteHook(t) == Has(t, "hook") /\ selNodeDelete(t, code[t].victim)

Dies(t) ==
    /\ At(t, "hook") /\ code[t].rest = <<>>
    /\ LET v == code[t].victim IN
         /\ dead' = dead \cup {v}
         /\ waiters' = [p \in Pipes |-> Without(waiters[p], v)]
    /\ Goto(t, Idle)
    /\ UNCHANGED <<ipcVars, wakeupList, owner, taskVars, suspended, untold>>

-----------------------------------------------------------------------------
\* Calls that have begun go on.
Goes(t) ==
    \/ semTake(t) \/ LookAtList(t) \/ WakeAll(t)
    \/ t \in Tasks /\
         \/ selNodeAdd(t) \/ Look(t) \/ SelectFails(t) \/ Pend(t) \/ WaitEnds(t)
         \/ Unselect(t) \/ UnselectPlain(t) \/ Return(t)
         \/ selTaskDeleteHook(t) \/ Dies(t)

Call(t) ==
    \/ t \in Selecting /\ \E r \in Requests : select(t, r.fds, r.timed)
    \/ \E p \in Pipes : pipeWrite(t, p) \/ pipeRead(t, p) \/ pipeFlush(t, p)
    \/ \E v \in Victims : taskDestroy(t, v)

Next ==
    \/ \E t \in Actors : Goes(t)
    \/ \E t \in Tasks : Call(t)
    \/ \E p \in Pipes : HandlerWrites(p) \/ HandlerMisled(p)
    \/ ExcTask

Spec == Init /\ [][Next]_vars

-----------------------------------------------------------------------------
(***************************************************************************)
(* Properties                                                              *)
(***************************************************************************)
\* Everything the calls keep between their steps has its type.
TypeOK ==
    /\ msgs \in [Pipes -> 0..MaxMsg]
    /\ \A p \in Pipes : Range(wakeupList[p]) \subseteq [task : Tasks, type : Types]
    /\ owner \in [Pipes -> Actors \cup {NULL}]
    /\ \A p \in Pipes : Range(waiters[p]) \subseteq Actors
    /\ wakeupSync \in [Tasks -> BOOLEAN]
    /\ orig \in [Tasks -> Seq(Fds)] /\ found \in [Tasks -> SUBSET Fds]
    /\ pendedOnSelect \in [Tasks -> BOOLEAN]
    /\ Len(excMsgQ) <= EXC_MAX_MSGS /\ Range(excMsgQ) \subseteq Pipes
    /\ dead \subseteq suspended /\ suspended \subseteq Tasks

\* t waits, although fd, one of its descriptors, is ready.
Sleeps(t, fd) ==
    /\ At(t, "wait") /\ ~wakeupSync[t]
    /\ fd \in Range(orig[t]) /\ Ready(fd)

\* Somebody is on the way to the list of the pipe of fd.
WakeupComes(fd) ==
    \/ \E u \in Actors : /\ Runs(u) /\ OnItsWay(u)
                         /\ code[u].pipe = fd[2] /\ code[u].type = fd[1]
    \/ fd[1] = "read" /\ fd[2] \in Range(excMsgQ)

(***************************************************************************)
(* Whoever waits in select on a descriptor that is ready, reader or        *)
(* writer, is about to be woken, whatever came between the look at the     *)
(* pipe, the wait, and the wakeups of tasks and handlers (selectLib.c      *)
(* select, selWakeupAll).  The exceptions are a wakeup that the exception  *)
(* task had no room for, or that the handler was told not to ask for, or   *)
(* whose task was deleted on the way to the list, and a pipe that was      *)
(* flushed (pipeDrv.c pipeIoctl); they last until the next wakeup.         *)
(***************************************************************************)
NoLostWakeup ==
    \A t \in Tasks, fd \in Types \X Pipes :
        Sleeps(t, fd) => fd \in untold \/ WakeupComes(fd)

(***************************************************************************)
(* A task that is out of select has no node in any list: the sets that a  *)
(* wakeup writes to are in the memory of the caller (selectLib.c           *)
(* selWakeup), and the descriptor of the node may be closed by now.        *)
(***************************************************************************)
NoNodeAfterReturn ==
    \A t \in Tasks, p \in Pipes :
        At(t, "idle") => t \notin {n.task : n \in Range(wakeupList[p])}

(***************************************************************************)
(* The lists hold nodes of tasks that are in select, one call's at most,   *)
(* in every step (selectLib.c selNodeAdd, selNodeDelete).                  *)
(***************************************************************************)
Consistent == TypeOK /\ NoNodeAfterReturn

(***************************************************************************)
(* A wait ends early only for a descriptor that is in the result, never    *)
(* for a wakeup that was meant for an earlier call (selectLib.c select     *)
(* empties wakeupSync first).                                              *)
(***************************************************************************)
WokenForSomething ==
    \A t \in Tasks : At(t, "wait") /\ wakeupSync[t] => found[t] # {}

(***************************************************************************)
(* No list holds a node of a task that is gone: the delete hook says       *)
(* "Unselect all read file descriptors" (selectLib.c selTaskDeleteHook).   *)
(* The code breaks it: a task deleted after FIOSELECT has added its nodes  *)
(* and before pendedOnSelect is set leaves them in the lists.              *)
(***************************************************************************)
NodesOfLiveTasks ==
    \A p \in Pipes : \A n \in Range(wakeupList[p]) : n.task \notin dead
=============================================================================
