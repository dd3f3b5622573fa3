------------------------------ MODULE NetTask -------------------------------
(***************************************************************************)
(* The network task and what feeds it: jobs in a ring of bytes             *)
(* (src/net/netLib.c), the processor level of the network code, which is a *)
(* mutex here (src/os/unixLib.c), the periodic timeouts of the protocols   *)
(* (src/net/domainLib.c, ifLib.c), the loopback interface                  *)
(* (src/drv/netif/if_loop.c) and the receive buffer of a socket            *)
(* (src/net/sbLib.c).                                                      *)
(*                                                                         *)
(* A datagram goes from a sender through the interrupt queue of IP and a   *)
(* job of the network task to the reader of a socket.  What the protocols  *)
(* do with it in between is left out, but for a reply they may send.       *)
(* Tasks interleave where they call the kernel or change what a task       *)
(* outside of the network level or a handler looks at.                     *)
(***************************************************************************)
EXTENDS Ring, FiniteSets

CONSTANTS
    Senders, Readers,
    netTask,
    Timers,            \* the functions that start their watchdog again
    NodeSize,          \* sizeof(NET_JOB_NODE)
    Nodes,             \* jobs the ring has room for (85 in the code)
    ifq_maxlen,        \* packets in the queue of IP
    sb_max,            \* datagrams in the receive buffer
    MaxBurst,          \* bound: packets sent in one call
    MaxReplies,        \* bound: packets sent in answer to one
    NULL

Tasks == Senders \cup Readers \cup {netTask}
Funcs == Timers \cup {"lodequeue", "driver"}

ASSUME NetTaskAssumption ==
    /\ netTask \notin Senders \cup Readers /\ NULL \notin Tasks
    /\ Senders \cap Readers = {}
    /\ NULL \notin Funcs /\ Timers \cap {"lodequeue", "driver"} = {}
    /\ NodeSize \in Nat \ {0} /\ Nodes \in Nat \ {0}
    /\ ifq_maxlen \in Nat /\ sb_max \in Nat
    /\ MaxBurst \in Nat /\ MaxReplies \in Nat

VARIABLES
    netWorkRing,
    netTaskSem,        \* the binary semaphore netTask waits for is full
    splSem, splWaits,  \* owner of the mutex of the network level, and waiters
    splTaskId,
    ipintrq,           \* packets in the queue of IP
    sb_cc, sb_want, sb_sem,  \* the receive buffer
    armed,             \* timers whose watchdog runs
    refused,           \* the functions of jobs that did not fit into the ring
    code               \* where each task is

jobVars    == <<netWorkRing, netTaskSem>>
splVars    == <<splSem, splWaits, splTaskId>>
socketVars == <<sb_cc, sb_want, sb_sem>>
timerVars  == <<armed, refused>>
vars == <<jobVars, splVars, ipintrq, socketVars, timerVars, code>>

\* A job as bytes, which are told apart by their place.
Node(func) == [i \in 1..NodeSize |-> <<func, i>>]
Bytes == (Funcs \cup {NULL}) \X (0..NodeSize)

\* NET_LIB_RING_SIZE is a whole number of nodes.
\* Bug: the ring is created without regard to the size of a node.
RingSizeOdd == Nodes * NodeSize + 1

RingSize == Nodes * NodeSize

Init ==
    /\ netWorkRing = rngCreate(RingSize, <<NULL, 0>>)
    /\ netTaskSem = FALSE
    /\ splSem = NULL /\ splWaits = {} /\ splTaskId = NULL
    /\ ipintrq = 0
    /\ sb_cc = 0 /\ sb_want = 0 /\ sb_sem = FALSE
    /\ armed = Timers /\ refused = {}
    /\ code = [t \in Tasks |-> [at |-> IF t = netTask THEN "take" ELSE "idle"]]

At(t, s) == code[t].at = s
Goto(t, c) == code' = [code EXCEPT ![t] = c]
Step(t, s) == Goto(t, [code[t] EXCEPT !.at = s])

-----------------------------------------------------------------------------
(***************************************************************************)
(* The network level.  splnet and splimp are the same code; a task that    *)
(* has the level already goes on, and its splx does nothing, so that only  *)
(* the outermost calls are here.                                           *)
(***************************************************************************)
\* semTake of the mutex: t gets it or waits until it is given to t.
splTake(t) ==
    /\ At(t, "splnet") /\ splSem # t /\ t \notin splWaits
    /\ IF splSem = NULL THEN splSem' = t /\ UNCHANGED splWaits
                        ELSE splWaits' = splWaits \cup {t} /\ UNCHANGED splSem
    /\ UNCHANGED <<jobVars, splTaskId, ipintrq, socketVars, timerVars, code>>

splnet(t) ==
    /\ At(t, "splnet") /\ splSem = t
    /\ splTaskId' = t
    /\ Step(t, code[t].in)
    /\ UNCHANGED <<jobVars, splSem, splWaits, ipintrq, socketVars, timerVars>>

\* The most urgent waiter gets the mutex; any of them may be that.
Give(t) ==
    IF splWaits = {}
      THEN splSem' = NULL /\ UNCHANGED splWaits
      ELSE \E u \in splWaits : splSem' = u /\ splWaits' = splWaits \ {u}

\* Bug: the mutex is given before splTaskId is cleared.
splxGivesFirst(t) ==
    /\ \/ /\ At(t, "splx")
          /\ Give(t) /\ UNCHANGED splTaskId
          /\ Step(t, "splGive")
       \/ /\ At(t, "splGive")
          /\ splTaskId' = NULL /\ UNCHANGED <<splSem, splWaits>>
          /\ Step(t, code[t].then)
    /\ UNCHANGED <<jobVars, ipintrq, socketVars, timerVars>>

\* splx, and the first half of ksleep.
splx(t) ==
    /\ \/ /\ At(t, "splx")
          /\ splTaskId' = NULL /\ UNCHANGED <<splSem, splWaits>>
          /\ Step(t, "splGive")
       \/ /\ At(t, "splGive")
          /\ Give(t) /\ UNCHANGED splTaskId
          /\ Step(t, code[t].then)
    /\ UNCHANGED <<jobVars, ipintrq, socketVars, timerVars>>

-----------------------------------------------------------------------------
(***************************************************************************)
(* Jobs.                                                                   *)
(***************************************************************************)
\* The put of netJobAdd, with interrupts locked.
PutJob(func) == netWorkRing' = rngBufPut(netWorkRing, Node(func))
Accepted == PutCount(netWorkRing, NodeSize) = NodeSize

\* netJobAdd by a task: the job of looutput, whose result is ignored ...
netJobAdd(t) ==
    /\ At(t, "netJobAdd")
    /\ PutJob("lodequeue")
    /\ Step(t, IF Accepted THEN "semGive" ELSE "output")
    /\ refused' = IF Accepted THEN refused ELSE refused \cup {"lodequeue"}
    /\ UNCHANGED <<netTaskSem, splVars, ipintrq, socketVars, armed>>

\* ... and its wakeup.
semGive(t) ==
    /\ At(t, "semGive")
    /\ netTaskSem' = TRUE
    /\ Step(t, "output")
    /\ UNCHANGED <<netWorkRing, splVars, ipintrq, socketVars, timerVars>>

\* netJobAdd by a handler.  Nothing comes between its put and its give but
\* handlers, and those do the same.
HandlerAdds(func) ==
    /\ PutJob(func)
    /\ netTaskSem' = (netTaskSem \/ Accepted)
    /\ UNCHANGED <<splVars, ipintrq, socketVars, code>>

\* The watchdog of a timeout expires.
Timeout(k) ==
    /\ k \in armed
    /\ armed' = armed \ {k}
    /\ refused' = IF Accepted THEN refused ELSE refused \cup {k}
    /\ HandlerAdds(k)

\* A driver that is loaded later defers work of its own.
DriverAdds == HandlerAdds("driver") /\ UNCHANGED timerVars

(***************************************************************************)
(* netTask                                                                 *)
(***************************************************************************)
Take ==
    /\ At(netTask, "take") /\ netTaskSem
    /\ netTaskSem' = FALSE
    /\ Step(netTask, "more")
    /\ UNCHANGED <<netWorkRing, splVars, ipintrq, socketVars, timerVars>>

\* Bug: one job is done per wakeup.
MoreNot ==
    /\ At(netTask, "more")
    /\ Goto(netTask, IF rngIsEmpty(netWorkRing) \/ "to" \in DOMAIN code[netTask]
                     THEN [at |-> "take"]
                     ELSE [at |-> "get", to |-> netWorkRing.to])
    /\ UNCHANGED <<jobVars, splVars, ipintrq, socketVars, timerVars>>

\* The test for more, and the load of the other side's offset in rngBufGet.
More ==
    /\ At(netTask, "more")
    /\ Goto(netTask, IF rngIsEmpty(netWorkRing) THEN [at |-> "take"]
                     ELSE [at |-> "get", to |-> netWorkRing.to])
    /\ UNCHANGED <<jobVars, splVars, ipintrq, socketVars, timerVars>>

\* Where the function of a job begins.
Job(func) ==
    [at   |-> IF func = "driver" THEN "more" ELSE "splnet",
     in   |-> IF func \in Timers THEN "timeout" ELSE "lodequeue",
     then |-> IF func \in Timers THEN "wdStart" ELSE "more",
     left |-> 0,
     to   |-> 0,
     func |-> func]

\* The rest of rngBufGet, and the test of its result.
Get ==
    /\ At(netTask, "get")
    /\ LET got == rngBufGot(netWorkRing, code[netTask].to, NodeSize) IN
         /\ netWorkRing' = rngBufGet(netWorkRing, code[netTask].to, NodeSize)
         /\ Goto(netTask, IF Len(got) = NodeSize THEN Job(got[1][1])
                                                 ELSE [at |-> "exited"])
    /\ UNCHANGED <<netTaskSem, splVars, ipintrq, socketVars, timerVars>>

\* pffasttimo, pfslowtimo, if_slowtimo: the work of the protocols ...
Protocols ==
    /\ At(netTask, "timeout")
    /\ Step(netTask, "splx")
    /\ UNCHANGED <<jobVars, splVars, ipintrq, socketVars, timerVars>>

\* ... and, outside of the level, the next round.
wdStart ==
    /\ At(netTask, "wdStart")
    /\ armed' = armed \cup {code[netTask].func}
    /\ Goto(netTask, [at |-> "more"])
    /\ UNCHANGED <<jobVars, splVars, ipintrq, socketVars, refused>>

-----------------------------------------------------------------------------
(***************************************************************************)
(* Datagrams.                                                              *)
(***************************************************************************)
send(t) ==
    /\ At(t, "idle")
    /\ \E n \in 1..MaxBurst :
          Goto(t, [at |-> "splnet", in |-> "output", then |-> "idle", left |-> n])
    /\ UNCHANGED <<jobVars, splVars, ipintrq, socketVars, timerVars>>

\* looutput: a full queue drops the packet, a job is added for the first one.
\* Its callers have the level, so its own splimp and splx change nothing, nor
\* does it matter that it leaves without splx when the queue is full.
looutput(t) ==
    /\ At(t, "output") /\ code[t].left > 0
    /\ IF ipintrq >= ifq_maxlen
         THEN UNCHANGED ipintrq
         ELSE ipintrq' = ipintrq + 1
    /\ Goto(t, [code[t] EXCEPT !.left = @ - 1,
                    !.at = IF ipintrq = 0 /\ ipintrq < ifq_maxlen
                             THEN "netJobAdd" ELSE "output"])
    /\ UNCHANGED <<jobVars, splVars, socketVars, timerVars>>

Sent(t) ==
    /\ At(t, "output") /\ code[t].left = 0
    /\ Step(t, "splx")
    /\ UNCHANGED <<jobVars, splVars, ipintrq, socketVars, timerVars>>

sbwakeup ==
    /\ sb_want' = IF sb_want > 0 THEN sb_want - 1 ELSE 0
    /\ sb_sem' = (sb_sem \/ sb_want > 0)

\* sbappendaddr by the protocol that got the datagram, and the wakeup after it.
Deliver ==
    IF sb_cc < sb_max THEN sb_cc' = sb_cc + 1 /\ sbwakeup
                      ELSE UNCHANGED socketVars

\* One packet is taken from the queue, and the protocols work on it.
lodequeue ==
    /\ At(netTask, "lodequeue")
    /\ IF ipintrq = 0
         THEN UNCHANGED <<ipintrq, socketVars>> /\ Step(netTask, "splx")
         ELSE /\ ipintrq' = ipintrq - 1
              /\ Deliver
              /\ \E n \in 0..MaxReplies :
                    Goto(netTask, [code[netTask] EXCEPT !.at = "output", !.left = n])
    /\ UNCHANGED <<jobVars, splVars, timerVars>>

receive(t) ==
    /\ At(t, "idle")
    /\ Goto(t, [at |-> "splnet", in |-> "soreceive", then |-> "idle"])
    /\ UNCHANGED <<jobVars, splVars, ipintrq, socketVars, timerVars>>

soreceive(t) ==
    /\ At(t, "soreceive") /\ sb_cc > 0
    /\ sb_cc' = sb_cc - 1
    /\ Goto(t, [code[t] EXCEPT !.at = "splx", !.then = "idle"])
    /\ UNCHANGED <<jobVars, splVars, ipintrq, sb_want, sb_sem, timerVars>>

\* Bug: the wish for a wakeup is not noted.
sbwaitWantsNot(t) ==
    /\ At(t, "soreceive") /\ sb_cc = 0
    /\ Goto(t, [code[t] EXCEPT !.at = "splx", !.then = "ksleep"])
    /\ UNCHANGED <<jobVars, splVars, ipintrq, socketVars, timerVars>>

\* Nothing there: the level is left as splx leaves it ...
sbwait(t) ==
    /\ At(t, "soreceive") /\ sb_cc = 0
    /\ sb_want' = sb_want + 1
    /\ Goto(t, [code[t] EXCEPT !.at = "splx", !.then = "ksleep"])
    /\ UNCHANGED <<jobVars, splVars, ipintrq, sb_cc, sb_sem, timerVars>>

\* ... and after the wakeup it is taken again, and the buffer looked at again.
ksleep(t) ==
    /\ At(t, "ksleep") /\ sb_sem
    /\ sb_sem' = FALSE
    /\ Step(t, "splnet")
    /\ UNCHANGED <<jobVars, splVars, ipintrq, sb_cc, sb_want, timerVars>>

-----------------------------------------------------------------------------
InLevel(t) ==
    splTake(t) \/ splnet(t) \/ splx(t)

Output(t) == looutput(t) \/ netJobAdd(t) \/ semGive(t) \/ Sent(t)

NetTask == Take \/ More \/ Get \/ Protocols \/ wdStart \/ lodequeue

Next ==
    \/ \E t \in Tasks : InLevel(t)
    \/ \E t \in Senders \cup {netTask} : Output(t)
    \/ \E t \in Senders : send(t)
    \/ \E t \in Readers : receive(t) \/ soreceive(t) \/ sbwait(t) \/ ksleep(t)
    \/ NetTask
    \/ \E k \in Timers : Timeout(k)
    \/ DriverAdds

Spec == Init /\ [][Next]_vars

-----------------------------------------------------------------------------
(***************************************************************************)
(* Properties                                                              *)
(***************************************************************************)
TypeOK ==
    /\ IsRing(netWorkRing, Bytes) /\ netWorkRing.size = RingSize + 1
    /\ netTaskSem \in BOOLEAN
    /\ splSem \in Tasks \cup {NULL} /\ splWaits \subseteq Tasks
    /\ splTaskId \in Tasks \cup {NULL}
    /\ ipintrq \in 0..ifq_maxlen
    /\ sb_cc \in 0..sb_max /\ sb_want \in Nat
    /\ sb_sem \in BOOLEAN
    /\ armed \subseteq Timers /\ refused \subseteq Funcs
    /\ DOMAIN code = Tasks

\* The jobs in the ring, found by the first byte of each.
Queued == {Contents(netWorkRing)[i][1] :
             i \in {j \in 1..rngNBytes(netWorkRing) :
                      Contents(netWorkRing)[j][2] = 1}}

(***************************************************************************)
(* netTask never gets a part of a job, and so never ends ("kill task if    *)
(* error", netLib.c netTask): a job that does not fit leaves nothing in    *)
(* the ring, because room and jobs are always whole nodes, also when a     *)
(* handler adds one while netTask is in rngBufGet.                         *)
(***************************************************************************)
NoPartialJob == ~At(netTask, "exited")

(***************************************************************************)
(* No job waits in the ring with nobody to wake netTask (netLib.c: the     *)
(* ring is found empty, then the semaphore is taken).                      *)
(***************************************************************************)
NoStrandedJob ==
    At(netTask, "take") /\ ~rngIsEmpty(netWorkRing) =>
        netTaskSem \/ \E t \in Tasks : At(t, "semGive")

(***************************************************************************)
(* Each periodic timeout goes on for ever: its watchdog runs, or its job   *)
(* waits, intact, in the ring, or netTask is at it and will start the      *)
(* watchdog again; only a full ring ends it (domainLib.c, ifLib.c).        *)
(***************************************************************************)
TimersGoOn ==
    \A k \in Timers :
        \/ k \in armed \cup refused \cup Queued
        \/ code[netTask].at \notin {"take", "more", "get", "exited"} /\ code[netTask].func = k

Level == {"output", "netJobAdd", "semGive", "lodequeue", "timeout", "soreceive",
          "splx"}

(***************************************************************************)
(* Whoever runs network code has the level, and splTaskId says so, or a    *)
(* nested splnet would wait for its own task (unixLib.c splnet, splx).     *)
(***************************************************************************)
LevelIsExclusive ==
    \A t \in Tasks : code[t].at \in Level => splSem = t /\ splTaskId = t

(***************************************************************************)
(* What the tasks share keeps its shape, and one task at a time is inside  *)
(* the level that protects it (unixLib.c splnet, splx).                    *)
(***************************************************************************)
Consistent == TypeOK /\ LevelIsExclusive

(***************************************************************************)
(* The only reader of a socket does not sleep on a datagram: one that      *)
(* arrives between sbwait's look and its sleep still wakes it (sbLib.c     *)
(* sbwait, unixLib.c ksleep).                                              *)
(***************************************************************************)
NoSleepyReader ==
    \A t \in Readers :
        Readers = {t} /\ At(t, "ksleep") /\ sb_cc > 0 => sb_sem

(***************************************************************************)
(* A packet in the queue of IP will be taken out: "Put work on net task if *)
(* needed" (if_loop.c:195).  The code breaks it: a packet that is queued   *)
(* behind another adds no job, and the job of the other takes one packet.  *)
(* From then on the queue is never empty and no job is ever added.         *)
(***************************************************************************)
NoStrandedPacket ==
    ipintrq > 0 =>
        \/ "lodequeue" \in Queued \cup refused
        \/ At(netTask, "splnet") /\ code[netTask].in = "lodequeue"
        \/ At(netTask, "lodequeue")
        \/ \E t \in Tasks : At(t, "netJobAdd")
=============================================================================
