----------------------------- MODULE MsgQProof ------------------------------
(***************************************************************************)
(* Theorems about MsgQ: no node of the pool is lost, whoever waits for a   *)
(* node next to nodes will be woken, msgQDestroy finds all nodes, and the  *)
(* calls implement the bounded queue of module MsgQueue.                   *)
(*                                                                         *)
(* The argument: a call in which the task has the processor holds          *)
(* taskLock, so that there is one at a time (HolderOK), and a task waits   *)
(* in a pending queue only as its call says (WaitersOK).                   *)
(***************************************************************************)
EXTENDS MsgQ, VmxSchedProof

\* The task of a call at one of these places has the processor.
Busy == {"get", "copy", "put", "unlock"}

\* A task that executes its own code is ready.
CurrentReady ==
    kpc = "user" /\ ~intr /\ ~kernelIsIdle => Ready(taskIdCurrent)

KernelOK == KernTypes /\ SchedTypes /\ KernInv /\ SchedBase /\ CurrentReady

CallOK(t) ==
    /\ lockCount[t] = IF call[t].at \in Busy \cup {"woken"} THEN 1 ELSE 0
    /\ call[t].op \in {"send", "receive"} <=>
          call[t].at \in {"get", "woken", "copy", "put"}
    /\ call[t].at = "gather" => call[t].op = "delete"
    /\ call[t].op = "delete" => ~valid
    /\ call[t].at \in {"get", "copy", "put"} => valid

CallsOK == \A t \in Tasks : CallOK(t)

HolderOK == \A t \in Tasks : call[t].at \in Busy =>
    /\ taskIdCurrent = t /\ Ready(t)
    /\ ~kernelIsIdle /\ kpc \in {"user", "exit", "work"}

WaitersOK == \A t \in Tasks, q \in PendQs :
    t \in Elements(pendQ[q]) => call[t].at = "woken" /\ From(t) = q

\* A node is in one place.
Free == Elements(list["free"])
Sent == Elements(list["msg"])

NodesOK ==
    /\ \A q \in Lists : IsQueue(list[q], Nodes)
    /\ Free \cap Sent = {}
    /\ (Free \cup Sent) \cap gathered = {}
    /\ \A n \in Nodes :
          n \in Free \cup Sent \cup gathered \/ \E t \in Tasks : call[t].node = n
    /\ \A t \in Tasks :
          /\ call[t].node \notin Free \cup Sent \cup gathered
          /\ call[t].node # NULL <=> call[t].at \in {"copy", "put"}

DataOf(t) ==
    /\ call[t].op = "send" =>
          IF call[t].at = "put" THEN data[call[t].node] \in Messages
                                ELSE call[t].val \in Messages
    /\ call[t].op = "receive" /\ call[t].at = "copy" => data[call[t].node] \in Messages
    /\ call[t].op = "receive" /\ call[t].at # "put" => call[t].val = NULL

DataOK == (\A n \in Sent : data[n] \in Messages) /\ (\A t \in Tasks : DataOf(t))

MsgQInv ==
    /\ KernelOK /\ MsgQTypeOK
    /\ CallsOK /\ HolderOK /\ WaitersOK /\ NodesOK /\ DataOK /\ NobodyForgotten

-----------------------------------------------------------------------------
(***************************************************************************)
(* The kernel.                                                             *)
(***************************************************************************)
\* The lists of a message queue are among the queues of the kernel.
LEMMA ListsPend == ASSUME NEW q \in Lists PROVE q \in PendQs
BY MsgQAssumption DEF PendQs

\* The code of a task between two sections.
LEMMA NoSectionKernel ==
    ASSUME KernelOK, NoSection
    PROVE  KernelOK' /\ QueuesShrink
<1>1. KernTypes'
    BY SameTypes DEF KernelOK, NoSection
<1>2. KernInv'
    BY SameQueues DEF KernelOK, NoSection, kernVars
<1>3. SchedTypes'
    BY DEF KernelOK, NoSection, SchedTypes, schedVars
<1>4. SchedBase' /\ CurrentReady'
    BY DEF KernelOK, NoSection, SchedBase, CurrentReady, schedVars, kernVars, readyHead,
           Ready
<1> QED
  BY <1>1, <1>2, <1>3, <1>4, SameShrink DEF KernelOK, NoSection, kernVars

\* taskLock and the first half of taskUnlock.
LEMMA LockSetKernel ==
    ASSUME KernelOK, NEW t \in Tasks, NEW n \in Nat, LockSet(t, n)
    PROVE  KernelOK' /\ QueuesShrink
<1>1. KernTypes'
    BY SameTypes DEF KernelOK, LockSet
<1>2. KernInv'
    BY SameQueues DEF KernelOK, LockSet, kernVars
<1>3. SchedTypes'
    BY DEF KernelOK, LockSet, SchedTypes
<1>4. SchedBase' /\ CurrentReady'
    BY DEF KernelOK, LockSet, SchedBase, CurrentReady, kernVars, readyHead, Ready
<1> QED
  BY <1>1, <1>2, <1>3, <1>4, SameShrink DEF KernelOK, LockSet, kernVars

\* A section of a task, or of a handler, up to its exit.
LEMMA SectionKernel ==
    ASSUME KernelOK, NEW loops \in Seq(TodoItems), Section(loops), SectionOnly,
           intr \/ ~kernelIsIdle, KernTypes', KernInv'
    PROVE  KernelOK'
<1>1. SchedTypes'
    BY DEF KernelOK, Section, SectionOnly, SchedTypes, KernelStates
<1>2. SchedBase' /\ CurrentReady'
    BY DEF KernelOK, Section, SectionOnly, SchedBase, CurrentReady
<1> QED
  BY <1>1, <1>2 DEF KernelOK

\* A handler finds the kernel busy and posts a job.
LEMMA PostKernel ==
    ASSUME KernelOK, NEW j, Posts(j)
    PROVE  KernelOK' /\ QueuesShrink
<1>1. KernTypes'
    BY SameTypes DEF KernelOK, Posts
<1>2. KernInv'
    BY SameQueues DEF KernelOK, Posts, kernVars
<1>3. SchedTypes'
    BY DEF KernelOK, Posts, SchedTypes
<1>4. SchedBase' /\ CurrentReady'
    BY DEF KernelOK, Posts, SchedBase, CurrentReady, kernVars, readyHead, Ready
<1> QED
  BY <1>1, <1>2, <1>3, <1>4, SameShrink DEF KernelOK, Posts, kernVars

\* A task that executes its own code is ready and waits nowhere.
LEMMA RunsReady ==
    ASSUME KernelOK, NEW t \in Tasks, Running(t)
    PROVE  Ready(t) /\ \A q \in PendQs : t \notin Elements(pendQ[q])
<1>1. Ready(t)
    BY DEF KernelOK, CurrentReady, Running
<1>2. "pend" \notin status[t]
    BY <1>1 DEF Ready
<1> QED BY <1>1, <1>2 DEF KernelOK, KernInv, PendOK

-----------------------------------------------------------------------------
(***************************************************************************)
(* A step of the task t: what it leaves alone.                             *)
(***************************************************************************)
OneCall(t) == \A u \in Tasks \ {t} : call'[u] = call[u]

\* The call of t changes.
LEMMA NewCall ==
    ASSUME MsgQTypeOK, NEW t \in Tasks, NEW c \in Calls, call' = [call EXCEPT ![t] = c]
    PROVE  call' \in [Tasks -> Calls] /\ call'[t] = c /\ OneCall(t)
BY DEF MsgQTypeOK, OneCall

\* The calls of the others still are as they were.
LEMMA CallsFrame ==
    ASSUME CallsOK, NEW t \in Tasks, OneCall(t), valid' = valid,
           \A u \in Tasks \ {t} : lockCount'[u] = lockCount[u], CallOK(t)'
    PROVE  CallsOK'
BY DEF CallsOK, CallOK, OneCall

\* While t executes its own code no other call has the processor.
LEMMA Alone ==
    ASSUME HolderOK, NEW t \in Tasks, Running(t)
    PROVE  \A u \in Tasks \ {t} : call[u].at \notin Busy
BY DEF HolderOK, Running

\* Nor does one get it.
LEMMA HolderFrame ==
    ASSUME HolderOK, NEW t \in Tasks, Running(t), OneCall(t),
           UNCHANGED <<taskIdCurrent, kernelIsIdle>>, kpc' \in {"user", "exit"},
           call'[t].at \in Busy => Ready(t)'
    PROVE  HolderOK'
BY Alone DEF HolderOK, OneCall, Running

\* Nobody begins to wait, and t does not wait.
LEMMA WaitersFrame ==
    ASSUME KernelOK, WaitersOK, NEW t \in Tasks, Running(t), OneCall(t), QueuesShrink
    PROVE  WaitersOK'
<1>1. \A q \in PendQs : t \notin Elements(pendQ[q])
    BY RunsReady
<1>2. \A u \in Tasks \ {t} : call'[u] = call[u] /\ From(u)' = From(u)
    BY DEF OneCall, From
<1>3. \A q \in PendQs : Elements(pendQ'[q]) \subseteq Elements(pendQ[q])
    BY DEF QueuesShrink
<1>4. ASSUME NEW u \in Tasks, NEW q \in PendQs, u \in Elements(pendQ'[q])
      PROVE  call'[u].at = "woken" /\ From(u)' = q
    BY <1>1, <1>2, <1>3, <1>4 DEF WaitersOK
<1> QED BY <1>4 DEF WaitersOK

\* The nodes stay where they are.
LEMMA NodesFrame ==
    ASSUME NodesOK, NEW t \in Tasks, OneCall(t), UNCHANGED <<list, gathered>>,
           call'[t].node = call[t].node,
           call'[t].at \in {"copy", "put"} <=> call[t].at \in {"copy", "put"}
    PROVE  NodesOK'
<1>1. \A u \in Tasks : call'[u].node = call[u].node
    BY DEF OneCall
<1>2. \A u \in Tasks : call'[u].at \in {"copy", "put"} <=> call[u].at \in {"copy", "put"}
    BY DEF OneCall
<1>3. Free' = Free /\ Sent' = Sent
    BY DEF Free, Sent
<1> QED BY <1>1, <1>2, <1>3 DEF NodesOK

\* So do their contents.
LEMMA DataFrame ==
    ASSUME DataOK, NEW t \in Tasks, OneCall(t), UNCHANGED <<list, data>>, DataOf(t)'
    PROVE  DataOK'
BY DEF DataOK, DataOf, OneCall, Sent

\* The others look at the lists as before, if none of them begins to wait.
LEMMA LooksFrame ==
    ASSUME NEW t \in Tasks, OneCall(t), \A u \in Tasks \ {t} : retVal'[u] = retVal[u],
           \A u \in Tasks \ {t}, q \in Lists :
              u \in Elements(pendQ'[q]) => u \in Elements(pendQ[q])
    PROVE  \A u \in Tasks \ {t}, q \in Lists : Looks(u, q) => Looks(u, q)'
<1>1. \A u \in Tasks \ {t} : call'[u] = call[u] /\ From(u)' = From(u)
    BY DEF OneCall, From
<1> QED BY <1>1 DEF Looks

\* The tasks are finitely many.
LEMMA LookersFinite == \A S : S \subseteq Tasks =>
    /\ IsFiniteSet(S) /\ Cardinality(S) \in Nat
    /\ \A T : T \subseteq S => Cardinality(T) <= Cardinality(S)
<1> TAKE S
<1> HAVE S \subseteq Tasks
<1>1. IsFiniteSet(S) /\ Cardinality(S) \in Nat
    BY MsgQAssumption, FS_Subset, FS_CardinalityType
<1>2. \A T : T \subseteq S => Cardinality(T) <= Cardinality(S)
    BY <1>1, FS_Subset
<1> QED BY <1>1, <1>2

\* So are the places in the work queue.
LEMMA PlacesFinite ==
    ASSUME NEW S, NEW s \in Seq(S), NEW J, J \subseteq DOMAIN s
    PROVE  IsFiniteSet(J) /\ Cardinality(J) \in Nat
<1>1. PICK n \in Nat : n = Len(s) /\ DOMAIN s = 1..n
    OBVIOUS
<1>2. J \in SUBSET (1..n) /\ IsFiniteSet(1..n)
    BY <1>1, FS_Interval
<1> QED BY <1>2, FS_Subset, FS_CardinalityType

\* So are the jobs.
LEMMA JobsFinite ==
    ASSUME MsgQTypeOK, NEW q
    PROVE  IsFiniteSet(Jobs(q)) /\ Cardinality(Jobs(q)) \in Nat
<1>1. Jobs(q) \subseteq DOMAIN workQ
    BY DEF Jobs
<1> QED BY <1>1, PlacesFinite DEF MsgQTypeOK

\* No list gets longer where tasks wait, and nobody who will look is lost.
LEMMA EnoughFrame ==
    ASSUME MsgQTypeOK, MsgQTypeOK', NobodyForgotten, workQ' = workQ,
           \A q \in Lists : pendQ'[q] # <<>> /\ valid' =>
              \/ list'[q] = <<>>
              \/ /\ pendQ[q] # <<>> /\ valid /\ list'[q] = list[q]
                 /\ \A u \in Tasks : Looks(u, q) => Looks(u, q)'
    PROVE  NobodyForgotten'
<1> SUFFICES ASSUME NEW q \in Lists, pendQ'[q] # <<>> /\ valid'
             PROVE  Len(list'[q]) <= Cardinality(Lookers(q)') + Cardinality(Jobs(q)')
    BY DEF NobodyForgotten
<1>1. Cardinality(Lookers(q)) \in Nat /\ Cardinality(Lookers(q)') \in Nat
  <2>1. Lookers(q) \subseteq Tasks /\ Lookers(q)' \subseteq Tasks
      BY DEF Lookers
  <2> QED BY <2>1, LookersFinite
<1>2. Cardinality(Jobs(q)') = Cardinality(Jobs(q)) /\ Cardinality(Jobs(q)) \in Nat
    BY JobsFinite DEF Jobs
<1>3. CASE list'[q] = <<>>
    BY <1>1, <1>2, <1>3
<1>4. CASE /\ pendQ[q] # <<>> /\ valid /\ list'[q] = list[q]
           /\ \A u \in Tasks : Looks(u, q) => Looks(u, q)'
  <2>1. Lookers(q) \subseteq Lookers(q)' /\ Lookers(q)' \subseteq Tasks
      BY <1>4 DEF Lookers
  <2>2. Cardinality(Lookers(q)) <= Cardinality(Lookers(q)')
      BY <2>1, LookersFinite
  <2>3. Len(list[q]) <= Cardinality(Lookers(q)) + Cardinality(Jobs(q))
      BY <1>4 DEF NobodyForgotten
  <2>4. list'[q] = list[q] /\ Len(list[q]) \in Nat
      BY <1>4 DEF MsgQTypeOK
  <2> QED BY <1>1, <1>2, <2>2, <2>3, <2>4
<1> QED BY <1>3, <1>4

-----------------------------------------------------------------------------
(***************************************************************************)
(* Nodes that leave a list or enter one.                                   *)
(***************************************************************************)
\* The first node leaves list q.
LEMMA TakeNode ==
    ASSUME MsgQTypeOK, NodesOK, NEW q \in Lists, list[q] # <<>>, NEW n, n = Head(list[q]),
           list' = [list EXCEPT ![q] = Tail(@)]
    PROVE  /\ n \in Nodes /\ n \in Elements(list[q])
           /\ list' \in [Lists -> Seq(Nodes)] /\ Len(list'[q]) = Len(list[q]) - 1
           /\ \A r \in Lists : r # q => list'[r] = list[r]
           /\ \A r \in Lists : IsQueue(list'[r], Nodes)
           /\ \A r \in Lists : Elements(list'[r]) = Elements(list[r]) \ {n}
<1>1. IsQueue(list[q], Nodes) /\ list[q] \in Seq(Nodes)
    BY DEF NodesOK, MsgQTypeOK
<1>2. /\ n \in Nodes /\ n \in Elements(list[q])
      /\ IsQueue(Tail(list[q]), Nodes) /\ Elements(Tail(list[q])) = Elements(list[q]) \ {n}
    BY <1>1, TailQueue
<1>3. Tail(list[q]) \in Seq(Nodes) /\ Len(Tail(list[q])) = Len(list[q]) - 1
    BY <1>1, HeadTailProperties
<1>4. list'[q] = Tail(list[q]) /\ list' \in [Lists -> Seq(Nodes)]
      /\ \A r \in Lists : r # q => list'[r] = list[r]
    BY <1>3 DEF MsgQTypeOK
<1>5. \A r \in Lists : r # q => n \notin Elements(list[r])
    BY <1>2 DEF NodesOK, Free, Sent, Lists
<1>6. \A r \in Lists : IsQueue(list'[r], Nodes)
    BY <1>2, <1>4 DEF NodesOK
<1>7. \A r \in Lists : Elements(list'[r]) = Elements(list[r]) \ {n}
    BY <1>2, <1>4, <1>5
<1> QED BY <1>2, <1>3, <1>4, <1>6, <1>7

\* A node in front of all others (dllAdd with Q_MSG_PRI_URGENT).
LEMMA PushQueue ==
    ASSUME NEW S, NEW q \in Seq(S), NEW n \in S, NEW r, r = <<n>> \o q
    PROVE  InsertedAt(r, q, 1, n, S)
<1>1. r \in Seq(S) /\ Len(r) = Len(q) + 1 /\ Len(q) \in Nat
      /\ \A j \in 1..(Len(q) + 1) : r[j] = IF j = 1 THEN n ELSE q[j - 1]
    OBVIOUS
<1> QED BY <1>1 DEF InsertedAt

\* The list after qMsgPut.
LEMMA PutNode ==
    ASSUME NEW q, NEW s, s = list[q], IsQueue(s, Nodes), NEW n \in Nodes, n \notin Elements(s),
           NEW h
    PROVE  /\ IsQueue(Inserted(q, n, h), Nodes) /\ Inserted(q, n, h) \in Seq(Nodes)
           /\ Len(Inserted(q, n, h)) = Len(s) + 1
           /\ Elements(Inserted(q, n, h)) = Elements(s) \cup {n}
<1>1. PICK r, i : r = Inserted(q, n, h) /\ InsertedAt(r, s, i, n, Nodes)
  <2>1. CASE h
    <3>1. PICK r : r = <<n>> \o s
        OBVIOUS
    <3>2. InsertedAt(r, s, 1, n, Nodes)
        BY <3>1, PushQueue DEF IsQueue
    <3> QED BY <2>1, <3>1, <3>2 DEF Inserted
  <2>2. CASE ~h
      BY <2>2, AppendQueue DEF Inserted, IsQueue
  <2> QED BY <2>1, <2>2
<1>2. IsQueue(r, Nodes) /\ Elements(r) = Elements(s) \cup {n}
    BY <1>1, Inserts
<1>3. r \in Seq(Nodes) /\ Len(r) = Len(s) + 1
    BY <1>1 DEF InsertedAt
<1> QED BY <1>1, <1>2, <1>3

-----------------------------------------------------------------------------
(***************************************************************************)
(* The steps of a call.                                                    *)
(***************************************************************************)
\* The call a task starts.
LEMMA StartedCall ==
    ASSUME NEW t \in Tasks, SendOrReceive(t)
    PROVE  \E c \in Calls :
              /\ call' = [call EXCEPT ![t] = c] /\ LockSet(t, lockCount[t] + 1)
              /\ c.op \in {"send", "receive"} /\ c.at = "get" /\ c.node = NULL
              /\ c.op = "send" => c.val \in Messages
              /\ c.op = "receive" => c.val = NULL
<1>1. CASE \E m \in Messages, n \in 0..WAIT_FOREVER :
             Starts(t, [NoCall EXCEPT !.op = "send", !.at = "get", !.val = m,
                                      !.timeout = n])
  <2>1. PICK m \in Messages, n \in 0..WAIT_FOREVER :
             Starts(t, [NoCall EXCEPT !.op = "send", !.at = "get", !.val = m,
                                      !.timeout = n])
      BY <1>1
  <2>2. PICK c : c = [NoCall EXCEPT !.op = "send", !.at = "get", !.val = m,
                                    !.timeout = n]
      OBVIOUS
  <2>3. c \in Calls /\ c.op = "send" /\ c.at = "get" /\ c.val = m /\ c.node = NULL
      BY <2>2 DEF NoCall, Calls
  <2>4. Starts(t, c)
      BY <2>1, <2>2
  <2> QED BY <2>3, <2>4 DEF Starts
<1>2. CASE \E n \in 0..WAIT_FOREVER :
             Starts(t, [NoCall EXCEPT !.op = "receive", !.at = "get", !.timeout = n])
  <2>1. PICK n \in 0..WAIT_FOREVER :
             Starts(t, [NoCall EXCEPT !.op = "receive", !.at = "get", !.timeout = n])
      BY <1>2
  <2>2. PICK c : c = [NoCall EXCEPT !.op = "receive", !.at = "get", !.timeout = n]
      OBVIOUS
  <2>3. /\ c \in Calls /\ c.op = "receive" /\ c.at = "get" /\ c.val = NULL
        /\ c.node = NULL
      BY <2>2 DEF NoCall, Calls
  <2>4. Starts(t, c)
      BY <2>1, <2>2
  <2> QED BY <2>3, <2>4 DEF Starts
<1> QED BY <1>1, <1>2 DEF SendOrReceive

\* msgQSend and msgQReceive begin: taskLock.
LEMMA StartsKept ==
    ASSUME MsgQInv, NEW t \in Tasks, SendOrReceive(t)
    PROVE  MsgQInv'
<1> USE DEF MsgQInv
<1>1. PICK c \in Calls :
        /\ call' = [call EXCEPT ![t] = c] /\ LockSet(t, lockCount[t] + 1)
        /\ c.op \in {"send", "receive"} /\ c.at = "get" /\ c.node = NULL
        /\ c.op = "send" => c.val \in Messages
        /\ c.op = "receive" => c.val = NULL
    BY StartedCall
<1>2. /\ Running(t) /\ call[t].at = "out" /\ valid
      /\ UNCHANGED <<valid, list, data, gathered>>
    BY DEF SendOrReceive, Starts, At
<1>3. call' \in [Tasks -> Calls] /\ call'[t] = c /\ OneCall(t)
    BY <1>1, NewCall
<1>4. lockCount[t] = 0 /\ call[t].node = NULL
    BY <1>2 DEF CallsOK, CallOK, Busy, NodesOK
<1>5. lockCount' = [lockCount EXCEPT ![t] = 1] /\ UNCHANGED <<kernVars, taskIdCurrent,
        kernelIsIdle, kpc, workQ>>
    BY <1>1, <1>4 DEF LockSet
<1>6. KernelOK' /\ QueuesShrink
    BY <1>1, <1>4, LockSetKernel
<1>7. MsgQTypeOK'
    BY <1>2, <1>3, <1>5 DEF MsgQTypeOK
<1>8. CallsOK'
  <2>1. CallOK(t)'
      BY <1>1, <1>2, <1>3, <1>5 DEF CallOK, Busy, MsgQTypeOK
  <2> QED BY <1>2, <1>3, <1>5, <2>1, CallsFrame DEF MsgQTypeOK
<1>9. HolderOK'
  <2>1. Ready(t)' /\ kpc' = "user"
      BY <1>2, <1>5, RunsReady DEF Ready, kernVars, Running
  <2> QED BY <1>2, <1>3, <1>5, <2>1, HolderFrame
<1>10. WaitersOK'
    BY <1>2, <1>3, <1>6, WaitersFrame
<1>11. NodesOK'
    BY <1>1, <1>2, <1>3, <1>4, NodesFrame
<1>12. DataOK'
  <2>1. DataOf(t)'
      BY <1>1, <1>3 DEF DataOf
  <2> QED BY <1>2, <1>3, <2>1, DataFrame
<1>13. NobodyForgotten'
  <2>1. \A u \in Tasks, q \in Lists : Looks(u, q) => Looks(u, q)'
    <3>1. \A u \in Tasks \ {t}, q \in Lists : Looks(u, q) => Looks(u, q)'
        BY <1>3, <1>5, LooksFrame DEF kernVars
    <3>2. \A q \in Lists : ~Looks(t, q)
        BY <1>2 DEF Looks
    <3> QED BY <3>1, <3>2
  <2> QED BY <1>2, <1>5, <1>7, <2>1, EnoughFrame DEF kernVars
<1> QED BY <1>6, <1>7, <1>8, <1>9, <1>10, <1>11, <1>12, <1>13

\* A looker less.
LEMMA LookerLeaves ==
    ASSUME NEW S, NEW T, NEW t, S \subseteq Tasks, T \subseteq Tasks, S \subseteq T \cup {t}
    PROVE  Cardinality(S) <= Cardinality(T) + 1
<1>1. IsFiniteSet(T) /\ Cardinality(T) \in Nat
    BY LookersFinite
<1>2. /\ IsFiniteSet(T \cup {t})
      /\ Cardinality(T \cup {t}) = IF t \in T THEN Cardinality(T) ELSE Cardinality(T) + 1
    BY <1>1, FS_AddElement
<1>3. S \in SUBSET (T \cup {t})
    OBVIOUS
<1>4. Cardinality(S) <= Cardinality(T \cup {t}) /\ Cardinality(S) \in Nat
    BY <1>2, <1>3, FS_Subset, FS_CardinalityType
<1> QED BY <1>1, <1>2, <1>4

\* qMsgGet takes a node.
LEMMA GetNodeKept ==
    ASSUME MsgQInv, NEW t \in Tasks, GetNode(t)
    PROVE  MsgQInv'
<1> USE DEF MsgQInv
<1>1. PICK q \in Lists : q = From(t)
    BY DEF From, Lists
<1>2. PICK n : n = Head(list[q])
    OBVIOUS
<1>3. /\ Running(t) /\ call[t].at = "get" /\ list[q] # <<>>
      /\ list' = [list EXCEPT ![q] = Tail(@)]
      /\ UNCHANGED <<valid, data, gathered>> /\ NoSection
    BY <1>1 DEF GetNode, At
<1>4. PICK d, c : /\ d \in Calls /\ d = call[t]
                  /\ c = [d EXCEPT !.at = "copy", !.timeout = 0, !.node = n]
    BY DEF MsgQTypeOK
<1>5. /\ n \in Nodes /\ n \in Elements(list[q])
      /\ list' \in [Lists -> Seq(Nodes)] /\ Len(list'[q]) = Len(list[q]) - 1
      /\ \A r \in Lists : r # q => list'[r] = list[r]
      /\ \A r \in Lists : IsQueue(list'[r], Nodes)
      /\ \A r \in Lists : Elements(list'[r]) = Elements(list[r]) \ {n}
    BY <1>2, <1>3, TakeNode
<1>6. /\ c \in Calls /\ c.at = "copy" /\ c.node = n /\ c.op = call[t].op
      /\ c.val = call[t].val
  <2>1. 0 \in 0..WAIT_FOREVER
      BY VmxLibAssumption DEF WAIT_FOREVER
  <2> QED BY <1>4, <1>5, <2>1 DEF Calls
<1>7. call' = [call EXCEPT ![t] = c]
    BY <1>1, <1>2, <1>4 DEF GetNode, MsgQTypeOK, Calls
<1>8. call' \in [Tasks -> Calls] /\ call'[t] = c /\ OneCall(t)
    BY <1>6, <1>7, NewCall
<1>9. UNCHANGED <<kernVars, taskIdCurrent, kernelIsIdle, kpc, workQ, lockCount>>
    BY <1>3 DEF NoSection, schedVars
<1>10. KernelOK' /\ QueuesShrink
    BY <1>3, NoSectionKernel
<1>11. MsgQTypeOK'
    BY <1>3, <1>5, <1>8, <1>9 DEF MsgQTypeOK
<1>12. CallsOK'
  <2>1. CallOK(t)'
      BY <1>3, <1>6, <1>8, <1>9 DEF CallsOK, CallOK, Busy
  <2> QED BY <1>3, <1>8, <1>9, <2>1, CallsFrame
<1>13. HolderOK'
  <2>1. Ready(t)' /\ kpc' = "user"
      BY <1>3, <1>9, RunsReady DEF Ready, kernVars, Running
  <2> QED BY <1>3, <1>8, <1>9, <2>1, HolderFrame
<1>14. WaitersOK'
    BY <1>3, <1>8, <1>10, WaitersFrame
<1>15. NodesOK'
  <2>1. Free' = Free \ {n} /\ Sent' = Sent \ {n} /\ n \in Free \cup Sent
      BY <1>5 DEF Free, Sent, Lists
  <2>2. \A u \in Tasks \ {t} : call'[u] = call[u] /\ call[u].node # n
      BY <1>8, <2>1 DEF OneCall, NodesOK
  <2>3. call'[t].node = n /\ call'[t].at = "copy" /\ n # NULL /\ call[t].node = NULL
      BY <1>3, <1>5, <1>6, <1>8, MsgQAssumption DEF NodesOK
  <2>4. gathered' = gathered /\ n \notin gathered
      BY <1>3, <2>1 DEF NodesOK
  <2>5. \A u \in Tasks :
          /\ call'[u].node \notin Free' \cup Sent' \cup gathered'
          /\ call'[u].node # NULL <=> call'[u].at \in {"copy", "put"}
      BY <2>1, <2>2, <2>3, <2>4 DEF NodesOK
  <2>6. ASSUME NEW m \in Nodes
        PROVE  m \in Free' \cup Sent' \cup gathered' \/ \E u \in Tasks : call'[u].node = m
    <3>1. CASE m = n
        BY <2>3, <3>1
    <3>2. CASE \E u \in Tasks : call[u].node = m
      <4>1. PICK u \in Tasks : call[u].node = m
          BY <3>2
      <4>2. u # t
          BY <2>3, <4>1, MsgQAssumption
      <4> QED BY <2>2, <4>1, <4>2
    <3>3. CASE m \in Free \cup Sent \cup gathered
        BY <2>1, <2>3, <2>4, <3>3
    <3> QED BY <3>2, <3>3 DEF NodesOK
  <2> QED BY <1>5, <2>1, <2>4, <2>5, <2>6 DEF NodesOK
<1>16. DataOK'
  <2>1. call[t].op = "receive" => n \in Sent
      BY <1>1, <1>5 DEF From, Sent
  <2>2. DataOf(t)'
      BY <1>3, <1>6, <1>8, <2>1 DEF DataOK, DataOf
  <2>3. Sent' \subseteq Sent
      BY <1>5 DEF Sent, Lists
  <2> QED BY <1>3, <1>8, <2>2, <2>3 DEF DataOK, DataOf, OneCall
<1>17. NobodyForgotten'
  <2> SUFFICES ASSUME NEW r \in Lists, pendQ'[r] # <<>> /\ valid'
               PROVE  Len(list'[r]) <= Cardinality(Lookers(r)') + Cardinality(Jobs(r)')
      BY DEF NobodyForgotten
  <2>1. pendQ[r] # <<>> /\ valid
      BY <1>3, <1>9 DEF kernVars
  <2>2. Len(list[r]) <= Cardinality(Lookers(r)) + Cardinality(Jobs(r))
      BY <2>1 DEF NobodyForgotten
  <2>3. Cardinality(Jobs(r)') = Cardinality(Jobs(r)) /\ Cardinality(Jobs(r)) \in Nat
      BY <1>9, JobsFinite DEF Jobs
  <2>4. \A u \in Tasks \ {t} : Looks(u, r) => Looks(u, r)'
      BY <1>8, <1>9, LooksFrame DEF kernVars
  <2>5. Lookers(r) \subseteq Tasks /\ Lookers(r)' \subseteq Tasks
      BY DEF Lookers
  <2>6. Cardinality(Lookers(r)) \in Nat /\ Cardinality(Lookers(r)') \in Nat
      BY <2>5, LookersFinite
  <2>7. Len(list[r]) \in Nat
      BY DEF MsgQTypeOK
  <2>8. CASE r = q
    <3>1. Lookers(r) \subseteq Lookers(r)' \cup {t}
        BY <2>4 DEF Lookers
    <3>2. Cardinality(Lookers(r)) <= Cardinality(Lookers(r)') + 1
        BY <2>5, <3>1, LookerLeaves
    <3> QED BY <1>5, <2>2, <2>3, <2>6, <2>7, <2>8, <3>2
  <2>9. CASE r # q
    <3>1. Lookers(r) \subseteq Lookers(r)'
        BY <1>1, <2>4, <2>9 DEF Lookers, Looks
    <3>2. Cardinality(Lookers(r)) <= Cardinality(Lookers(r)')
        BY <2>5, <3>1, LookersFinite
    <3> QED BY <1>5, <2>2, <2>3, <2>6, <2>7, <2>9, <3>2
  <2> QED BY <2>8, <2>9
<1> QED BY <1>10, <1>11, <1>12, <1>13, <1>14, <1>15, <1>16, <1>17

\* The end of a call.
LEMMA LeaveCall ==
    ASSUME MsgQTypeOK, NEW t \in Tasks, Leave(t)
    PROVE  /\ call' \in [Tasks -> Calls] /\ OneCall(t)
           /\ call'[t].op = "none" /\ call'[t].at = "unlock" /\ call'[t].node = NULL
<1>1. PICK c : c = Leaving
    OBVIOUS
<1>2. 0 \in 0..WAIT_FOREVER
    BY VmxLibAssumption DEF WAIT_FOREVER
<1>3. c \in Calls /\ c.op = "none" /\ c.at = "unlock" /\ c.node = NULL
    BY <1>1, <1>2 DEF Leaving, NoCall, Calls
<1> QED BY <1>1, <1>3, NewCall DEF Leave

\* A call goes on.
LEMMA GoToCall ==
    ASSUME MsgQTypeOK, NEW t \in Tasks,
           NEW p \in {"get", "woken", "unlock", "exit", "gather"}, GoTo(t, p)
    PROVE  /\ call' \in [Tasks -> Calls] /\ OneCall(t)
           /\ call'[t].op = call[t].op /\ call'[t].at = p /\ call'[t].val = call[t].val
           /\ call'[t].node = call[t].node
<1>1. PICK d, c : /\ d \in Calls /\ d = call[t]
                  /\ c = [d EXCEPT !.at = p]
    BY DEF MsgQTypeOK
<1>2. c \in Calls /\ c.op = d.op /\ c.at = p /\ c.val = d.val /\ c.node = d.node
    BY <1>1 DEF Calls
<1>3. call' = [call EXCEPT ![t] = c]
    BY <1>1 DEF GoTo
<1> QED BY <1>1, <1>2, <1>3, NewCall

\* qMsgGet gives up, as it does not wait.
LEMMA GetNothingKept ==
    ASSUME MsgQInv, NEW t \in Tasks, GetNone(t), call[t].timeout = 0
    PROVE  MsgQInv'
<1> USE DEF MsgQInv
<1>1. /\ Running(t) /\ call[t].at = "get" /\ list[From(t)] = <<>>
      /\ UNCHANGED <<valid, list, data, gathered>> /\ Leave(t) /\ NoSection
    BY DEF GetNone, At
<1>2. /\ call' \in [Tasks -> Calls] /\ OneCall(t)
      /\ call'[t].op = "none" /\ call'[t].at = "unlock" /\ call'[t].node = NULL
    BY <1>1, LeaveCall
<1>3. UNCHANGED <<kernVars, taskIdCurrent, kernelIsIdle, kpc, workQ, lockCount>>
    BY <1>1 DEF NoSection, schedVars
<1>4. KernelOK' /\ QueuesShrink
    BY <1>1, NoSectionKernel
<1>5. MsgQTypeOK'
    BY <1>1, <1>2, <1>3 DEF MsgQTypeOK
<1>6. CallsOK'
  <2>1. CallOK(t)'
      BY <1>1, <1>2, <1>3 DEF CallsOK, CallOK, Busy
  <2> QED BY <1>1, <1>2, <1>3, <2>1, CallsFrame
<1>7. HolderOK'
  <2>1. Ready(t)' /\ kpc' = "user"
      BY <1>1, <1>3, RunsReady DEF Ready, kernVars, Running
  <2> QED BY <1>1, <1>2, <1>3, <2>1, HolderFrame
<1>8. WaitersOK'
    BY <1>1, <1>2, <1>4, WaitersFrame
<1>9. NodesOK'
  <2>1. call[t].node = NULL
      BY <1>1 DEF NodesOK
  <2> QED BY <1>1, <1>2, <2>1, NodesFrame
<1>10. DataOK'
  <2>1. DataOf(t)'
      BY <1>2 DEF DataOf
  <2> QED BY <1>1, <1>2, <2>1, DataFrame
<1>11. NobodyForgotten'
  <2>1. \A u \in Tasks \ {t}, q \in Lists : Looks(u, q) => Looks(u, q)'
      BY <1>2, <1>3, LooksFrame DEF kernVars
  <2>2. \A q \in Lists : list'[q] = <<>> \/ ~Looks(t, q)
      BY <1>1 DEF Looks
  <2> QED BY <1>1, <1>3, <1>5, <2>1, <2>2, EnoughFrame DEF kernVars
<1> QED BY <1>4, <1>5, <1>6, <1>7, <1>8, <1>9, <1>10, <1>11

\* qMsgGet waits.
LEMMA GetWaitsKept ==
    ASSUME MsgQInv, NEW t \in Tasks, GetNone(t), call[t].timeout # 0
    PROVE  MsgQInv'
<1> USE DEF MsgQInv
<1>1. PICK q \in Lists, n \in 0..WAIT_FOREVER : q = From(t) /\ n = call[t].timeout
    BY DEF From, Lists, MsgQTypeOK, Calls
<1>2. /\ Running(t) /\ call[t].at = "get" /\ list[q] = <<>>
      /\ UNCHANGED <<valid, list, data, gathered>>
      /\ Section(<<>>) /\ vmxPendQPut(q, t, n) /\ GoTo(t, "woken") /\ SectionOnly
    BY <1>1 DEF GetNone, At
<1>3. /\ call' \in [Tasks -> Calls] /\ OneCall(t)
      /\ call'[t].op = call[t].op /\ call'[t].at = "woken" /\ call'[t].val = call[t].val
      /\ call'[t].node = call[t].node
    BY <1>2, GoToCall
<1>4. q \in PendQs /\ Ready(t) /\ \A r \in PendQs : t \notin Elements(pendQ[r])
    BY <1>1, <1>2, ListsPend, RunsReady
<1>5. /\ UNCHANGED <<taskIdCurrent, kernelIsIdle, workQ, lockCount, retVal>>
      /\ kpc' = "exit"
    BY <1>2 DEF Section, SectionOnly, vmxPendQPut
<1>6. KernelOK'
  <2>1. KernTypes'
      BY <1>2, <1>4, PendPutTypes DEF KernelOK
  <2>2. KernInv'
      BY <1>2, <1>4, <2>1, PendPutQueues DEF KernelOK, Ready
  <2>3. <<>> \in Seq(TodoItems)
      OBVIOUS
  <2> QED BY <1>2, <2>1, <2>2, <2>3, SectionKernel DEF Running
<1>7. \A u \in Tasks, r \in PendQs : u \in Elements(pendQ'[r]) =>
         u \in Elements(pendQ[r]) \/ (u = t /\ r = q)
  <2>1. PICK s : s = PendQPut(q, t)
      OBVIOUS
  <2>2. Elements(s) = Elements(pendQ[q]) \cup {t}
      BY <1>4, <2>1, PendJoins DEF KernelOK, KernInv, Ready
  <2>3. \A r \in PendQs : pendQ'[r] = IF r = q THEN s ELSE pendQ[r]
      BY <1>2, <2>1 DEF vmxPendQPut, KernelOK, KernTypes
  <2> QED BY <2>2, <2>3
<1>8. MsgQTypeOK'
    BY <1>2, <1>3, <1>5 DEF MsgQTypeOK
<1>9. CallsOK'
  <2>1. CallOK(t)'
      BY <1>2, <1>3, <1>5 DEF CallsOK, CallOK, Busy
  <2> QED BY <1>2, <1>3, <1>5, <2>1, CallsFrame
<1>10. HolderOK'
    BY <1>2, <1>3, <1>5, HolderFrame DEF Busy
<1>11. WaitersOK'
  <2>1. From(t)' = q /\ \A u \in Tasks \ {t} : call'[u] = call[u] /\ From(u)' = From(u)
      BY <1>1, <1>3 DEF From, OneCall
  <2>2. ASSUME NEW u \in Tasks, NEW r \in PendQs, u \in Elements(pendQ'[r])
        PROVE  call'[u].at = "woken" /\ From(u)' = r
      BY <1>3, <1>4, <1>7, <2>1, <2>2 DEF WaitersOK
  <2> QED BY <2>2 DEF WaitersOK
<1>12. NodesOK'
    BY <1>2, <1>3, NodesFrame
<1>13. DataOK'
  <2>1. DataOf(t)'
      BY <1>2, <1>3 DEF DataOK, DataOf
  <2> QED BY <1>2, <1>3, <2>1, DataFrame
<1>14. NobodyForgotten'
  <2>1. \A u \in Tasks \ {t}, r \in Lists : Looks(u, r) => Looks(u, r)'
      BY <1>3, <1>5, <1>7, ListsPend, LooksFrame
  <2>2. \A r \in Lists : list'[r] = <<>> \/ ~Looks(t, r)
      BY <1>1, <1>2 DEF Looks
  <2>3. \A r \in Lists : pendQ'[r] = pendQ[r] \/ list'[r] = <<>>
      BY <1>2, ListsPend DEF vmxPendQPut, KernelOK, KernTypes
  <2> QED BY <1>2, <1>5, <1>8, <2>1, <2>2, <2>3, EnoughFrame
<1> QED BY <1>6, <1>8, <1>9, <1>10, <1>11, <1>12, <1>13, <1>14

\* qMsgGet returns from its wait.
LEMMA GetGoesOnKept ==
    ASSUME MsgQInv, NEW t \in Tasks, GetGoesOn(t)
    PROVE  MsgQInv'
<1> USE DEF MsgQInv
<1>1. /\ Running(t) /\ call[t].at = "woken"
      /\ UNCHANGED <<valid, list, data, gathered, taskIdCurrent, kernelIsIdle, kpc, workQ,
                     lockCount, status, priority, readyQ, pendQ, tickQ, left, schedVars>>
      /\ retVal' = [retVal EXCEPT ![t] = "OK"]
    BY DEF GetGoesOn, At, schedVars
<1>2. /\ call' \in [Tasks -> Calls] /\ OneCall(t) /\ call'[t].node = call[t].node
      /\ \/ /\ call'[t].at = "get" /\ call'[t].op = call[t].op /\ call'[t].val = call[t].val
            /\ valid
         \/ /\ call'[t].at = "unlock" /\ call'[t].op = "none"
            /\ ~(retVal[t] = "OK" /\ valid)
  <2>1. CASE retVal[t] = "OK" /\ valid
    <3>1. GoTo(t, "get")
        BY <2>1 DEF GetGoesOn
    <3> QED BY <2>1, <3>1, GoToCall
  <2>2. CASE ~(retVal[t] = "OK" /\ valid)
    <3>1. Leave(t)
        BY <2>2 DEF GetGoesOn
    <3>2. call[t].node = NULL
        BY <1>1 DEF NodesOK
    <3> QED BY <2>2, <3>1, <3>2, LeaveCall
  <2> QED BY <2>1, <2>2
<1>3. KernelOK' /\ QueuesShrink
  <2>1. KernTypes'
      BY <1>1 DEF KernelOK, KernTypes
  <2>2. KernInv'
      BY <1>1, SameQueues DEF KernelOK
  <2>3. SchedTypes'
      BY <1>1 DEF KernelOK, SchedTypes, schedVars
  <2>4. SchedBase' /\ CurrentReady'
      BY <1>1 DEF KernelOK, SchedBase, CurrentReady, schedVars, readyHead, Ready
  <2> QED BY <1>1, <2>1, <2>2, <2>3, <2>4, SameShrink DEF KernelOK
<1>4. MsgQTypeOK'
    BY <1>1, <1>2 DEF MsgQTypeOK
<1>5. CallsOK'
  <2>1. CallOK(t)'
      BY <1>1, <1>2 DEF CallsOK, CallOK, Busy
  <2> QED BY <1>1, <1>2, <2>1, CallsFrame
<1>6. HolderOK'
  <2>1. Ready(t)' /\ kpc' = "user"
      BY <1>1, RunsReady DEF Ready, Running
  <2> QED BY <1>1, <1>2, <2>1, HolderFrame
<1>7. WaitersOK'
    BY <1>1, <1>2, <1>3, WaitersFrame
<1>8. NodesOK'
    BY <1>1, <1>2, NodesFrame
<1>9. DataOK'
  <2>1. DataOf(t)'
      BY <1>1, <1>2 DEF DataOK, DataOf
  <2> QED BY <1>1, <1>2, <2>1, DataFrame
<1>10. NobodyForgotten'
  <2>1. \A u \in Tasks \ {t} : retVal'[u] = retVal[u]
      BY <1>1 DEF KernelOK, KernTypes
  <2>2. \A u \in Tasks \ {t}, q \in Lists : Looks(u, q) => Looks(u, q)'
      BY <1>1, <1>2, <2>1, LooksFrame
  <2>3. ASSUME NEW q \in Lists, Looks(t, q), valid PROVE Looks(t, q)'
      BY <1>1, <1>2, <2>3 DEF Looks, From
  <2> QED BY <1>1, <1>4, <2>2, <2>3, EnoughFrame
<1> QED BY <1>3, <1>4, <1>5, <1>6, <1>7, <1>8, <1>9, <1>10

\* memcpy.
LEMMA CopyKept ==
    ASSUME MsgQInv, NEW t \in Tasks, Copy(t)
    PROVE  MsgQInv'
<1> USE DEF MsgQInv
<1>1. PICK n : n = call[t].node
    OBVIOUS
<1>2. /\ Running(t) /\ call[t].at = "copy" /\ UNCHANGED <<valid, list, gathered>>
      /\ NoSection
    BY DEF Copy, At
<1>3. n \in Nodes /\ n \notin Free \cup Sent
    BY <1>1, <1>2 DEF NodesOK, MsgQTypeOK, Calls
<1>4. /\ call' \in [Tasks -> Calls] /\ OneCall(t) /\ call'[t].at = "put"
      /\ call'[t].op = call[t].op /\ call'[t].node = n
      /\ data' \in [Nodes -> Messages \cup {NULL}]
      /\ \A m \in Nodes : m # n => data'[m] = data[m]
      /\ call[t].op = "send" => data'[n] = call[t].val
  <2>1. CASE call[t].op = "send"
    <3>1. PICK d, c : /\ d \in Calls /\ d = call[t]
                      /\ c = [d EXCEPT !.at = "put", !.val = NULL]
        BY DEF MsgQTypeOK
    <3>2. c \in Calls /\ c.op = d.op /\ c.at = "put" /\ c.node = d.node
        BY <3>1 DEF Calls
    <3>3. call' = [call EXCEPT ![t] = c]
        BY <2>1, <3>1 DEF Copy, MsgQTypeOK, Calls
    <3>4. data' = [data EXCEPT ![n] = call[t].val]
        BY <1>1, <2>1 DEF Copy
    <3>5. call[t].val \in Messages
        BY <1>2, <2>1 DEF DataOK, DataOf
    <3> QED BY <1>1, <1>3, <3>1, <3>2, <3>3, <3>4, <3>5, NewCall DEF MsgQTypeOK
  <2>2. CASE call[t].op # "send"
    <3>1. PICK d, c : /\ d \in Calls /\ d = call[t]
                      /\ c = [d EXCEPT !.at = "put", !.val = data[n]]
        BY DEF MsgQTypeOK
    <3>2. data[n] \in Messages \cup {NULL}
        BY <1>3 DEF MsgQTypeOK
    <3>3. c \in Calls /\ c.op = d.op /\ c.at = "put" /\ c.node = d.node
        BY <3>1, <3>2 DEF Calls
    <3>4. call' = [call EXCEPT ![t] = c]
        BY <1>1, <2>2, <3>1 DEF Copy, MsgQTypeOK, Calls
    <3>5. data' = [data EXCEPT ![n] = NULL]
        BY <1>1, <2>2 DEF Copy
    <3> QED BY <1>1, <1>3, <2>2, <3>1, <3>3, <3>4, <3>5, NewCall DEF MsgQTypeOK
  <2> QED BY <2>1, <2>2
<1>5. UNCHANGED <<kernVars, taskIdCurrent, kernelIsIdle, kpc, workQ, lockCount>>
    BY <1>2 DEF NoSection, schedVars
<1>6. KernelOK' /\ QueuesShrink
    BY <1>2, NoSectionKernel
<1>7. MsgQTypeOK'
    BY <1>2, <1>4, <1>5 DEF MsgQTypeOK
<1>8. CallsOK'
  <2>1. CallOK(t)'
      BY <1>2, <1>4, <1>5 DEF CallsOK, CallOK, Busy
  <2> QED BY <1>2, <1>4, <1>5, <2>1, CallsFrame
<1>9. HolderOK'
  <2>1. Ready(t)' /\ kpc' = "user"
      BY <1>2, <1>5, RunsReady DEF Ready, kernVars, Running
  <2> QED BY <1>2, <1>4, <1>5, <2>1, HolderFrame
<1>10. WaitersOK'
    BY <1>2, <1>4, <1>6, WaitersFrame
<1>11. NodesOK'
    BY <1>1, <1>2, <1>4, NodesFrame
<1>12. DataOK'
  <2>1. DataOf(t)'
      BY <1>2, <1>4 DEF DataOK, DataOf
  <2>2. \A m \in Sent : m \in Nodes /\ data'[m] = data[m]
    <3>1. Sent \subseteq Nodes
        BY QueueElements DEF Sent, MsgQTypeOK, Lists
    <3> QED BY <1>3, <1>4, <3>1
  <2>3. \A u \in Tasks \ {t} : call'[u] = call[u] /\ call[u].at # "copy" /\ call[u].at # "put"
      BY <1>2, <1>4, Alone DEF OneCall, Busy
  <2>4. Sent' = Sent
      BY <1>2 DEF Sent
  <2> QED BY <2>1, <2>2, <2>3, <2>4 DEF DataOK, DataOf
<1>13. NobodyForgotten'
  <2>1. \A u \in Tasks \ {t}, q \in Lists : Looks(u, q) => Looks(u, q)'
      BY <1>4, <1>5, LooksFrame DEF kernVars
  <2>2. \A q \in Lists : ~Looks(t, q)
      BY <1>2 DEF Looks
  <2> QED BY <1>2, <1>5, <1>7, <2>1, <2>2, EnoughFrame DEF kernVars
<1> QED BY <1>6, <1>7, <1>8, <1>9, <1>10, <1>11, <1>12, <1>13

-----------------------------------------------------------------------------
(***************************************************************************)
(* A task is woken.                                                        *)
(***************************************************************************)
\* The numbers that NobodyForgotten compares.
LEMMA Counts ==
    ASSUME MsgQTypeOK, NEW q \in Lists
    PROVE  /\ Len(list[q]) \in Nat /\ Cardinality(Jobs(q)) \in Nat
           /\ Lookers(q) \subseteq Tasks /\ Cardinality(Lookers(q)) \in Nat
<1>1. Lookers(q) \subseteq Tasks
    BY DEF Lookers
<1>2. Len(list[q]) \in Nat
    BY DEF MsgQTypeOK
<1> QED BY <1>1, <1>2, LookersFinite, JobsFinite

\* Where tasks wait, a list gets no more nodes than there are lookers and jobs more.
LEMMA EnoughCount ==
    ASSUME MsgQTypeOK, MsgQTypeOK', NobodyForgotten,
           \A q \in Lists : pendQ'[q] # <<>> /\ valid' =>
              /\ pendQ[q] # <<>> /\ valid
              /\ Len(list'[q]) + Cardinality(Lookers(q)) + Cardinality(Jobs(q))
                   <= Len(list[q]) + Cardinality(Lookers(q)') + Cardinality(Jobs(q)')
    PROVE  NobodyForgotten'
<1> SUFFICES ASSUME NEW q \in Lists, pendQ'[q] # <<>> /\ valid'
             PROVE  Len(list'[q]) <= Cardinality(Lookers(q)') + Cardinality(Jobs(q)')
    BY DEF NobodyForgotten
<1>1. Len(list[q]) <= Cardinality(Lookers(q)) + Cardinality(Jobs(q))
    BY DEF NobodyForgotten
<1>2. /\ Len(list[q]) \in Nat /\ Cardinality(Jobs(q)) \in Nat
      /\ Cardinality(Lookers(q)) \in Nat
    BY Counts
<1>3. /\ Len(list'[q]) \in Nat /\ Cardinality(Jobs(q)') \in Nat
      /\ Cardinality(Lookers(q)') \in Nat
  <2>1. Lookers(q)' \subseteq Tasks /\ Jobs(q)' \subseteq DOMAIN workQ'
      BY DEF Lookers, Jobs
  <2>2. Cardinality(Jobs(q)') \in Nat
      BY <2>1, PlacesFinite DEF MsgQTypeOK
  <2> QED BY <2>1, <2>2, LookersFinite DEF MsgQTypeOK
<1> QED BY <1>1, <1>2, <1>3

\* The first task of a queue is woken (vmxPendQGet).
LEMMA WokenTask ==
    ASSUME KernelOK, NEW q \in PendQs, pendQ[q] # <<>>, vmxPendQGet(q)
    PROVE  /\ KernTypes' /\ KernInv' /\ QueuesShrink
           /\ \A u \in Tasks : Ready(u) => Ready(u)'
           /\ \E w \in Tasks :
                 /\ w \in Elements(pendQ[q]) /\ w \notin Elements(pendQ'[q])
                 /\ retVal'[w] = "OK"
                 /\ \A u \in Tasks \ {w} : retVal'[u] = retVal[u]
<1>1. unpend(q, "OK")
    BY DEF vmxPendQGet
<1>2. KernTypes' /\ KernInv' /\ QueuesShrink
    BY <1>1, UnpendTypes, UnpendQueues, UnpendShrink DEF KernelOK, KernInv
<1>3. PICK w : w = Head(pendQ[q])
    OBVIOUS
<1>4. /\ w \in Tasks /\ w \in Elements(pendQ[q])
      /\ Elements(Tail(pendQ[q])) = Elements(pendQ[q]) \ {w}
    BY <1>3, TailQueue DEF KernelOK, KernInv, PendOK
<1>5. pendQ'[q] = Tail(pendQ[q])
    BY <1>1 DEF unpend, KernelOK, KernTypes
<1>6. retVal' = [retVal EXCEPT ![w] = "OK"]
      /\ status' = [status EXCEPT ![w] = @ \ {"pend", "delay"}]
    BY <1>1, <1>3 DEF unpend
<1>7. \A u \in Tasks : Ready(u) => Ready(u)'
    BY <1>6 DEF Ready, KernelOK, KernTypes
<1>8. retVal'[w] = "OK" /\ \A u \in Tasks \ {w} : retVal'[u] = retVal[u]
    BY <1>4, <1>6 DEF KernelOK, KernTypes
<1> QED BY <1>2, <1>4, <1>5, <1>7, <1>8

\* It will look at the list, and the others that will do so still will.
LEMMA WokenLooks ==
    ASSUME MsgQTypeOK, KernelOK, WaitersOK, NEW q \in Lists, pendQ[q] # <<>>, vmxPendQGet(q),
           \A u \in Tasks : call[u].at \in {"get", "woken"} => call'[u] = call[u]
    PROVE  /\ \A r \in Lists : Lookers(r) \subseteq Lookers(r)'
           /\ Cardinality(Lookers(q)) + 1 <= Cardinality(Lookers(q)')
<1>1. q \in PendQs
    BY ListsPend
<1>2. QueuesShrink
    BY <1>1, WokenTask
<1>3. PICK w \in Tasks :
         /\ w \in Elements(pendQ[q]) /\ w \notin Elements(pendQ'[q])
         /\ retVal'[w] = "OK"
         /\ \A u \in Tasks \ {w} : retVal'[u] = retVal[u]
    BY <1>1, WokenTask
<1>4. call[w].at = "woken" /\ From(w) = q
    BY <1>1, <1>3 DEF WaitersOK
<1>5. \A u \in Tasks : call[u].at \in {"get", "woken"} => From(u)' = From(u)
    BY DEF From
<1>6. \A u \in Tasks, r \in Lists : Looks(u, r) => Looks(u, r)'
    BY <1>2, <1>3, <1>4, <1>5, ListsPend DEF Looks, QueuesShrink
<1>7. \A r \in Lists : Lookers(r) \subseteq Lookers(r)'
    BY <1>6 DEF Lookers
<1>8. w \notin Lookers(q) /\ w \in Lookers(q)'
    BY <1>3, <1>4, <1>5 DEF Lookers, Looks
<1>9. /\ Lookers(q) \cup {w} \subseteq Lookers(q)' /\ Lookers(q)' \subseteq Tasks
      /\ Lookers(q) \subseteq Tasks
    BY <1>7, <1>8 DEF Lookers
<1>10. Cardinality(Lookers(q) \cup {w}) <= Cardinality(Lookers(q)')
    BY <1>9, LookersFinite
<1>11. Cardinality(Lookers(q) \cup {w}) = Cardinality(Lookers(q)) + 1
    BY <1>8, <1>9, LookersFinite, FS_AddElement
<1> QED BY <1>7, <1>10, <1>11

\* What qMsgPut does to the kernel.
LEMMA WakeKernel ==
    ASSUME KernelOK, NEW q \in Lists, kpc = "user", intr \/ ~kernelIsIdle,
           WakeOne(q), SectionOnly
    PROVE  /\ KernelOK' /\ QueuesShrink /\ kpc' \in {"user", "exit"}
           /\ \A u \in Tasks : Ready(u) => Ready(u)'
           /\ UNCHANGED <<taskIdCurrent, kernelIsIdle, workQ, lockCount>>
           /\ IF pendQ[q] = <<>> THEN pendQ' = pendQ /\ retVal' = retVal
                                 ELSE vmxPendQGet(q)
<1> USE DEF WakeOne, SectionOnly
<1>1. CASE pendQ[q] = <<>>
  <2>1. NoSection
      BY <1>1 DEF NoSection, schedVars
  <2>2. KernelOK' /\ QueuesShrink
      BY <2>1, NoSectionKernel
  <2> QED BY <1>1, <2>2 DEF kernVars, Ready
<1>2. CASE pendQ[q] # <<>>
  <2>1. <<>> \in Seq(TodoItems)
      OBVIOUS
  <2>2. KernTypes' /\ KernInv' /\ QueuesShrink /\ \A u \in Tasks : Ready(u) => Ready(u)'
      BY <1>2, WokenTask, ListsPend
  <2>3. Section(<<>>)
      BY <1>2
  <2>4. KernelOK'
      BY <2>1, <2>2, <2>3, SectionKernel
  <2> QED BY <1>2, <2>2, <2>3, <2>4 DEF Section
<1> QED BY <1>1, <1>2

\* qMsgPut.
LEMMA PutKept ==
    ASSUME MsgQInv, NEW t \in Tasks, Put(t)
    PROVE  MsgQInv'
<1> USE DEF MsgQInv
<1>0. PICK q \in Lists : q = To(t)
    BY DEF To, Lists
<1>1. PICK n, h : /\ q = To(t) /\ n = call[t].node
                  /\ h = (call[t].op = "receive" \/ data[n].urgent)
    BY <1>0
<1>2. /\ Running(t) /\ call[t].at = "put" /\ list' = [list EXCEPT ![q] = Inserted(q, n, h)]
      /\ WakeOne(q) /\ Leave(t) /\ UNCHANGED <<valid, data, gathered>> /\ SectionOnly
    BY <1>1 DEF Put, At
<1>3. /\ call' \in [Tasks -> Calls] /\ OneCall(t)
      /\ call'[t].op = "none" /\ call'[t].at = "unlock" /\ call'[t].node = NULL
    BY <1>2, LeaveCall
<1>4. n \in Nodes /\ n \notin Free \cup Sent
    BY <1>1, <1>2 DEF NodesOK, MsgQTypeOK, Calls
<1>5. PICK s : s = list[q] /\ s \in Seq(Nodes) /\ IsQueue(s, Nodes) /\ n \notin Elements(s)
    BY <1>4 DEF MsgQTypeOK, NodesOK, Free, Sent, Lists
<1>6. /\ IsQueue(Inserted(q, n, h), Nodes) /\ Inserted(q, n, h) \in Seq(Nodes)
      /\ Len(Inserted(q, n, h)) = Len(s) + 1
      /\ Elements(Inserted(q, n, h)) = Elements(s) \cup {n}
    BY <1>4, <1>5, PutNode
<1>7. /\ list' \in [Lists -> Seq(Nodes)] /\ list'[q] = Inserted(q, n, h)
      /\ \A r \in Lists : r # q => list'[r] = list[r]
    BY <1>2, <1>6 DEF MsgQTypeOK
<1>8. /\ KernelOK' /\ QueuesShrink /\ kpc' \in {"user", "exit"}
      /\ \A u \in Tasks : Ready(u) => Ready(u)'
      /\ UNCHANGED <<taskIdCurrent, kernelIsIdle, workQ, lockCount>>
      /\ IF pendQ[q] = <<>> THEN pendQ' = pendQ /\ retVal' = retVal
                            ELSE vmxPendQGet(q)
    BY <1>2, WakeKernel DEF Running
<1>9. MsgQTypeOK'
    BY <1>2, <1>3, <1>7, <1>8 DEF MsgQTypeOK
<1>10. CallsOK'
  <2>1. CallOK(t)'
      BY <1>2, <1>3, <1>8 DEF CallsOK, CallOK, Busy
  <2> QED BY <1>2, <1>3, <1>8, <2>1, CallsFrame
<1>11. HolderOK'
    BY <1>2, <1>3, <1>8, RunsReady, HolderFrame
<1>12. WaitersOK'
    BY <1>2, <1>3, <1>8, WaitersFrame
<1>13. (Free \cup Sent)' = (Free \cup Sent) \cup {n} /\ (Free \cap Sent)' = Free \cap Sent
       /\ Sent' = IF q = "msg" THEN Sent \cup {n} ELSE Sent
    BY <1>4, <1>5, <1>6, <1>7 DEF Free, Sent, Lists
<1>14. \A u \in Tasks \ {t} : call'[u] = call[u] /\ call[u].node = NULL
  <2>1. \A u \in Tasks \ {t} : call[u].at \notin {"copy", "put"}
      BY <1>2, Alone DEF Busy
  <2> QED BY <1>3, <2>1 DEF NodesOK, OneCall
<1>15. NodesOK'
  <2>1. \A r \in Lists : IsQueue(list'[r], Nodes)
      BY <1>6, <1>7 DEF NodesOK
  <2>2. \A u \in Tasks : call'[u].node = NULL /\ call'[u].at \notin {"copy", "put"}
      BY <1>3, <1>14 DEF NodesOK
  <2>3. gathered' = gathered /\ n \notin gathered
      BY <1>1, <1>2 DEF NodesOK
  <2>4. NULL \notin (Free \cup Sent \cup gathered)'
      BY <1>3, <1>4, <1>9, <1>13, <2>3, MsgQAssumption, QueueElements
         DEF Free, Sent, MsgQTypeOK, Lists
  <2>5. \A m \in Nodes : m \in (Free \cup Sent \cup gathered)'
    <3> TAKE m \in Nodes
    <3>1. CASE \E u \in Tasks : call[u].node = m
        BY <1>1, <1>13, <1>14, <3>1, MsgQAssumption
    <3>2. CASE m \in Free \cup Sent \cup gathered
        BY <1>13, <2>3, <3>2
    <3> QED BY <3>1, <3>2 DEF NodesOK
  <2> QED BY <1>13, <2>1, <2>2, <2>3, <2>4, <2>5 DEF NodesOK
<1>16. DataOK'
  <2>1. DataOf(t)'
      BY <1>3 DEF DataOf
  <2>2. \A u \in Tasks \ {t} : DataOf(u)'
      BY <1>2, <1>14 DEF DataOK, DataOf
  <2>3. q = "msg" => data[n] \in Messages
      BY <1>1, <1>2 DEF To, DataOK, DataOf
  <2>4. \A m \in Sent' : data'[m] \in Messages
      BY <1>2, <1>13, <2>3 DEF DataOK
  <2> QED BY <2>1, <2>2, <2>4 DEF DataOK
<1>17. NobodyForgotten'
  <2> SUFFICES ASSUME NEW r \in Lists, pendQ'[r] # <<>> /\ valid'
               PROVE  /\ pendQ[r] # <<>> /\ valid
                      /\ Len(list'[r]) + Cardinality(Lookers(r)) + Cardinality(Jobs(r))
                           <= Len(list[r]) + Cardinality(Lookers(r)') + Cardinality(Jobs(r)')
      BY <1>9, EnoughCount
  <2>1. Jobs(r)' = Jobs(r) /\ valid
      BY <1>2, <1>8 DEF Jobs
  <2>2. /\ Len(list[r]) \in Nat /\ Cardinality(Jobs(r)) \in Nat
        /\ Cardinality(Lookers(r)) \in Nat
      BY Counts
  <2>3. Lookers(r)' \subseteq Tasks /\ Cardinality(Lookers(r)') \in Nat
      BY LookersFinite DEF Lookers
  <2>4. CASE pendQ[q] = <<>>
    <3>1. pendQ' = pendQ /\ retVal' = retVal /\ r # q
        BY <1>8, <2>4
    <3>2. \A u \in Tasks \ {t} : Looks(u, r) => Looks(u, r)'
        BY <1>3, <3>1, LooksFrame
    <3>3. Lookers(r) \subseteq Lookers(r)'
        BY <1>2, <3>2 DEF Lookers, Looks
    <3>4. Cardinality(Lookers(r)) <= Cardinality(Lookers(r)')
        BY <2>3, <3>3, LookersFinite
    <3> QED BY <1>7, <2>1, <2>2, <2>3, <3>1, <3>4
  <2>5. CASE pendQ[q] # <<>>
    <3>1. vmxPendQGet(q)
        BY <1>8, <2>5
    <3>2. \A u \in Tasks : call[u].at \in {"get", "woken"} => call'[u] = call[u]
        BY <1>2, <1>14
    <3>3. /\ Lookers(r) \subseteq Lookers(r)'
          /\ Cardinality(Lookers(q)) + 1 <= Cardinality(Lookers(q)')
        BY <2>5, <3>1, <3>2, WokenLooks
    <3>4. Cardinality(Lookers(r)) <= Cardinality(Lookers(r)')
        BY <2>3, <3>3, LookersFinite
    <3>5. pendQ[r] # <<>>
      <4>1. r = q \/ pendQ'[r] = pendQ[r]
          BY <3>1, ListsPend DEF vmxPendQGet, unpend, KernelOK, KernTypes
      <4> QED BY <2>5, <4>1
    <3>6. Len(list'[r]) = IF r = q THEN Len(list[r]) + 1 ELSE Len(list[r])
        BY <1>5, <1>6, <1>7
    <3> QED BY <2>1, <2>2, <2>3, <3>3, <3>4, <3>5, <3>6
  <2> QED BY <2>4, <2>5
<1> QED BY <1>8, <1>9, <1>10, <1>11, <1>12, <1>15, <1>16, <1>17

-----------------------------------------------------------------------------
(***************************************************************************)
(* The end of a call, and msgQDestroy.                                     *)
(***************************************************************************)
\* taskUnlock: the count.
LEMMA UnlockKept ==
    ASSUME MsgQInv, NEW t \in Tasks, Unlock(t)
    PROVE  MsgQInv'
<1> USE DEF MsgQInv
<1>1. /\ Running(t) /\ call[t].at = "unlock" /\ UNCHANGED <<valid, list, data, gathered>>
      /\ LockSet(t, lockCount[t] - 1) /\ GoTo(t, "exit")
    BY DEF Unlock, At
<1>2. /\ call' \in [Tasks -> Calls] /\ OneCall(t)
      /\ call'[t].op = call[t].op /\ call'[t].at = "exit"
      /\ call'[t].node = call[t].node
    BY <1>1, GoToCall
<1>3. lockCount[t] = 1
    BY <1>1 DEF CallsOK, CallOK, Busy
<1>4. lockCount' = [lockCount EXCEPT ![t] = 0] /\ UNCHANGED <<kernVars, taskIdCurrent,
        kernelIsIdle, kpc, workQ>>
    BY <1>1, <1>3 DEF LockSet
<1>5. KernelOK' /\ QueuesShrink
    BY <1>1, <1>3, LockSetKernel
<1>6. MsgQTypeOK'
    BY <1>1, <1>2, <1>4 DEF MsgQTypeOK
<1>7. CallsOK'
  <2>1. CallOK(t)'
      BY <1>1, <1>2, <1>4 DEF CallsOK, CallOK, Busy, MsgQTypeOK
  <2> QED BY <1>1, <1>2, <1>4, <2>1, CallsFrame DEF MsgQTypeOK
<1>8. HolderOK'
    BY <1>1, <1>2, <1>4, HolderFrame DEF Busy, Running
<1>9. WaitersOK'
    BY <1>1, <1>2, <1>5, WaitersFrame
<1>10. NodesOK'
    BY <1>1, <1>2, NodesFrame
<1>11. DataOK'
  <2>1. DataOf(t)'
      BY <1>1, <1>2 DEF DataOf, CallsOK, CallOK
  <2> QED BY <1>1, <1>2, <2>1, DataFrame
<1>12. NobodyForgotten'
  <2>1. \A u \in Tasks \ {t}, q \in Lists : Looks(u, q) => Looks(u, q)'
      BY <1>2, <1>4, LooksFrame DEF kernVars
  <2>2. \A q \in Lists : ~Looks(t, q)
      BY <1>1 DEF Looks
  <2> QED BY <1>1, <1>4, <1>6, <2>1, <2>2, EnoughFrame DEF kernVars
<1> QED BY <1>5, <1>6, <1>7, <1>8, <1>9, <1>10, <1>11, <1>12

\* A section that leaves the queues of the kernel alone.
LEMMA PlainSection ==
    ASSUME KernelOK, NEW t \in Tasks, Running(t), NEW loops \in Seq(TodoItems),
           Section(loops), SectionOnly, UNCHANGED kernVars
    PROVE  /\ KernelOK' /\ QueuesShrink /\ kpc' = "exit"
           /\ UNCHANGED <<taskIdCurrent, kernelIsIdle, workQ, lockCount, pendQ, retVal>>
<1>1. KernTypes'
    BY SameTypes DEF KernelOK
<1>2. KernInv'
    BY SameQueues DEF KernelOK, kernVars
<1>3. KernelOK'
    BY <1>1, <1>2, SectionKernel DEF Running
<1> QED BY <1>3, SameShrink DEF Section, SectionOnly, kernVars

\* taskUnlock: the exit through the kernel.
LEMMA ExitKept ==
    ASSUME MsgQInv, NEW t \in Tasks, Exit(t)
    PROVE  MsgQInv'
<1> USE DEF MsgQInv
<1>1. /\ Running(t) /\ call[t].at = "exit" /\ UNCHANGED <<valid, list, data, gathered>>
      /\ Section(<<>>) /\ SectionOnly /\ UNCHANGED kernVars
    BY DEF Exit, At
<1>2. /\ call' \in [Tasks -> Calls] /\ OneCall(t) /\ call'[t].node = call[t].node
      /\ \/ call[t].op = "delete" /\ call'[t].at = "gather" /\ call'[t].op = "delete"
         \/ call'[t].at = "out" /\ call'[t].op = "none"
  <2>1. CASE call[t].op = "delete"
    <3>1. PICK d, c : /\ d \in Calls /\ d = call[t]
                      /\ c = [d EXCEPT !.at = "gather"]
        BY DEF MsgQTypeOK
    <3>2. c \in Calls /\ c.at = "gather" /\ c.op = d.op /\ c.node = d.node
        BY <3>1 DEF Calls
    <3>3. call' = [call EXCEPT ![t] = c]
        BY <2>1, <3>1 DEF Exit
    <3> QED BY <2>1, <3>1, <3>2, <3>3, NewCall
  <2>2. CASE call[t].op # "delete"
    <3>1. PICK c : c = NoCall
        OBVIOUS
    <3>2. 0 \in 0..WAIT_FOREVER
        BY VmxLibAssumption DEF WAIT_FOREVER
    <3>3. c \in Calls /\ c.op = "none" /\ c.at = "out" /\ c.node = NULL
        BY <3>1, <3>2 DEF NoCall, Calls
    <3>4. call' = [call EXCEPT ![t] = c]
        BY <2>2, <3>1 DEF Exit
    <3>5. call[t].node = NULL
        BY <1>1 DEF NodesOK
    <3> QED BY <3>3, <3>4, <3>5, NewCall
  <2> QED BY <2>1, <2>2
<1>3. /\ KernelOK' /\ QueuesShrink /\ kpc' = "exit"
      /\ UNCHANGED <<taskIdCurrent, kernelIsIdle, workQ, lockCount, pendQ, retVal>>
  <2>1. <<>> \in Seq(TodoItems)
      OBVIOUS
  <2> QED BY <1>1, <2>1, PlainSection
<1>4. MsgQTypeOK'
    BY <1>1, <1>2, <1>3 DEF MsgQTypeOK
<1>5. CallsOK'
  <2>1. CallOK(t)'
      BY <1>1, <1>2, <1>3 DEF CallsOK, CallOK, Busy
  <2> QED BY <1>1, <1>2, <1>3, <2>1, CallsFrame
<1>6. HolderOK'
    BY <1>1, <1>2, <1>3, HolderFrame DEF Busy
<1>7. WaitersOK'
    BY <1>1, <1>2, <1>3, WaitersFrame
<1>8. NodesOK'
    BY <1>1, <1>2, NodesFrame
<1>9. DataOK'
  <2>1. DataOf(t)'
      BY <1>2 DEF DataOf
  <2> QED BY <1>1, <1>2, <2>1, DataFrame
<1>10. NobodyForgotten'
  <2>1. \A u \in Tasks \ {t}, q \in Lists : Looks(u, q) => Looks(u, q)'
      BY <1>2, <1>3, LooksFrame
  <2>2. \A q \in Lists : ~Looks(t, q)
      BY <1>1 DEF Looks
  <2> QED BY <1>1, <1>3, <1>4, <2>1, <2>2, EnoughFrame
<1> QED BY <1>3, <1>4, <1>5, <1>6, <1>7, <1>8, <1>9, <1>10

\* msgQDestroy invalidates the queue, when nobody else is at it.
LEMMA DeleteStartsKept ==
    ASSUME MsgQInv, NEW t \in Tasks, DeleteStarts(t)
    PROVE  MsgQInv'
<1> USE DEF MsgQInv
<1>1. PICK c : c = [NoCall EXCEPT !.op = "delete", !.at = "unlock"]
    OBVIOUS
<1>2. /\ Running(t) /\ call[t].at = "out" /\ valid /\ call' = [call EXCEPT ![t] = c]
      /\ LockSet(t, lockCount[t] + 1) /\ valid' = FALSE /\ UNCHANGED <<list, data, gathered>>
    BY <1>1 DEF DeleteStarts, Starts, At
<1>3. 0 \in 0..WAIT_FOREVER
    BY VmxLibAssumption DEF WAIT_FOREVER
<1>4. c \in Calls /\ c.op = "delete" /\ c.at = "unlock" /\ c.node = NULL
    BY <1>1, <1>3 DEF NoCall, Calls
<1>5. call' \in [Tasks -> Calls] /\ call'[t] = c /\ OneCall(t)
    BY <1>2, <1>4, NewCall
<1>6. lockCount[t] = 0 /\ call[t].node = NULL
    BY <1>2 DEF CallsOK, CallOK, Busy, NodesOK
<1>7. lockCount' = [lockCount EXCEPT ![t] = 1] /\ UNCHANGED <<kernVars, taskIdCurrent,
        kernelIsIdle, kpc, workQ>>
    BY <1>2, <1>6 DEF LockSet
<1>8. KernelOK' /\ QueuesShrink
    BY <1>2, <1>6, LockSetKernel
<1>9. MsgQTypeOK'
  <2>1. lockCount' \in [Tasks -> 0..1]
      BY <1>7 DEF MsgQTypeOK
  <2>2. valid' \in BOOLEAN
      BY <1>2, Zenon
  <2> QED BY <1>2, <1>5, <1>7, <2>1, <2>2 DEF MsgQTypeOK
<1>10. CallsOK'
  <2>1. CallOK(t)'
      BY <1>2, <1>4, <1>5, <1>7 DEF CallOK, Busy, MsgQTypeOK
  <2>2. ASSUME NEW u \in Tasks \ {t} PROVE CallOK(u)'
    <3>1. call'[u] = call[u] /\ lockCount'[u] = lockCount[u] /\ call[u].at \notin Busy
        BY <1>2, <1>5, <1>7, Alone DEF OneCall, MsgQTypeOK
    <3> QED BY <1>2, <3>1 DEF CallsOK, CallOK, Busy
  <2> QED BY <2>1, <2>2 DEF CallsOK
<1>11. HolderOK'
  <2>1. Ready(t)' /\ kpc' = "user"
      BY <1>2, <1>7, RunsReady DEF Ready, kernVars, Running
  <2> QED BY <1>2, <1>5, <1>7, <2>1, HolderFrame
<1>12. WaitersOK'
    BY <1>2, <1>5, <1>8, WaitersFrame
<1>13. NodesOK'
    BY <1>2, <1>4, <1>5, <1>6, NodesFrame
<1>14. DataOK'
  <2>1. DataOf(t)'
      BY <1>4, <1>5 DEF DataOf
  <2> QED BY <1>2, <1>5, <2>1, DataFrame
<1>15. NobodyForgotten'
    BY <1>2 DEF NobodyForgotten
<1> QED BY <1>8, <1>9, <1>10, <1>11, <1>12, <1>13, <1>14, <1>15

\* msgQDestroy takes a node out.
LEMMA GatherKept ==
    ASSUME MsgQInv, NEW t \in Tasks, Gather(t)
    PROVE  MsgQInv'
<1> USE DEF MsgQInv
<1>0. PICK q \in Lists : q = (IF list["free"] # <<>> THEN "free" ELSE "msg")
    BY DEF Lists
<1>1. PICK n : q = (IF list["free"] # <<>> THEN "free" ELSE "msg") /\ n = Head(list[q])
    BY <1>0
<1>2. /\ Running(t) /\ call[t].at = "gather" /\ list[q] # <<>>
      /\ list' = [list EXCEPT ![q] = Tail(@)] /\ gathered' = gathered \cup {n}
      /\ UNCHANGED <<valid, data, call>> /\ NoSection
    BY <1>1 DEF Gather, At
<1>3. /\ n \in Nodes /\ n \in Elements(list[q])
      /\ list' \in [Lists -> Seq(Nodes)] /\ Len(list'[q]) = Len(list[q]) - 1
      /\ \A r \in Lists : r # q => list'[r] = list[r]
      /\ \A r \in Lists : IsQueue(list'[r], Nodes)
      /\ \A r \in Lists : Elements(list'[r]) = Elements(list[r]) \ {n}
    BY <1>1, <1>2, TakeNode
<1>4. UNCHANGED <<kernVars, taskIdCurrent, kernelIsIdle, kpc, workQ, lockCount>>
    BY <1>2 DEF NoSection, schedVars
<1>5. KernelOK' /\ QueuesShrink
    BY <1>2, NoSectionKernel
<1>6. MsgQTypeOK'
    BY <1>2, <1>3, <1>4 DEF MsgQTypeOK
<1>7. CallsOK'
    BY <1>2, <1>4 DEF CallsOK, CallOK
<1>8. HolderOK'
    BY <1>2, <1>4 DEF HolderOK, kernVars, Ready
<1>9. WaitersOK'
    BY <1>2, <1>5 DEF WaitersOK, QueuesShrink, From
<1>10. Free' = Free \ {n} /\ Sent' = Sent \ {n} /\ n \in Free \cup Sent
    BY <1>3 DEF Free, Sent, Lists
<1>11. NodesOK'
    BY <1>2, <1>3, <1>10 DEF NodesOK
<1>12. DataOK'
    BY <1>2, <1>10 DEF DataOK, DataOf
<1>13. NobodyForgotten'
  <2>1. ~valid
      BY <1>2 DEF CallsOK, CallOK
  <2> QED BY <1>2, <2>1 DEF NobodyForgotten
<1> QED BY <1>5, <1>6, <1>7, <1>8, <1>9, <1>11, <1>12, <1>13

\* msgQDestroy tells those who wait.
LEMMA DeleteEndsKept ==
    ASSUME MsgQInv, NEW t \in Tasks, DeleteEnds(t)
    PROVE  MsgQInv'
<1> USE DEF MsgQInv
<1>1. PICK c, loops : c = NoCall /\ loops = <<<<"terminate", "msg">>, <<"terminate", "free">>>>
    OBVIOUS
<1>2. /\ Running(t) /\ call[t].at = "gather" /\ call' = [call EXCEPT ![t] = c]
      /\ UNCHANGED <<valid, list, data, gathered>>
      /\ Section(loops) /\ SectionOnly /\ UNCHANGED kernVars
    BY <1>1 DEF DeleteEnds, At
<1>3. 0 \in 0..WAIT_FOREVER
    BY VmxLibAssumption DEF WAIT_FOREVER
<1>4. c \in Calls /\ c.op = "none" /\ c.at = "out" /\ c.node = NULL
    BY <1>1, <1>3 DEF NoCall, Calls
<1>5. call' \in [Tasks -> Calls] /\ call'[t] = c /\ OneCall(t)
    BY <1>2, <1>4, NewCall
<1>6. /\ KernelOK' /\ QueuesShrink /\ kpc' = "exit"
      /\ UNCHANGED <<taskIdCurrent, kernelIsIdle, workQ, lockCount, pendQ, retVal>>
  <2>1. <<"terminate", "msg">> \in TodoItems /\ <<"terminate", "free">> \in TodoItems
      BY ListsPend DEF TodoItems, Lists
  <2>2. loops \in Seq(TodoItems)
      BY <1>1, <2>1
  <2> QED BY <1>2, <2>2, PlainSection
<1>7. MsgQTypeOK'
    BY <1>2, <1>5, <1>6 DEF MsgQTypeOK
<1>8. CallsOK'
  <2>1. CallOK(t)'
      BY <1>2, <1>4, <1>5, <1>6 DEF CallsOK, CallOK, Busy
  <2> QED BY <1>2, <1>5, <1>6, <2>1, CallsFrame
<1>9. HolderOK'
    BY <1>2, <1>4, <1>5, <1>6, HolderFrame DEF Busy
<1>10. WaitersOK'
    BY <1>2, <1>5, <1>6, WaitersFrame
<1>11. NodesOK'
  <2>1. call[t].node = NULL
      BY <1>2 DEF NodesOK
  <2> QED BY <1>2, <1>4, <1>5, <2>1, NodesFrame
<1>12. DataOK'
  <2>1. DataOf(t)'
      BY <1>4, <1>5 DEF DataOf
  <2> QED BY <1>2, <1>5, <2>1, DataFrame
<1>13. NobodyForgotten'
  <2>1. ~valid
      BY <1>2 DEF CallsOK, CallOK
  <2> QED BY <1>2, <2>1 DEF NobodyForgotten
<1> QED BY <1>6, <1>7, <1>8, <1>9, <1>10, <1>11, <1>12, <1>13

-----------------------------------------------------------------------------
(***************************************************************************)
(* Handlers.                                                               *)
(***************************************************************************)
\* The calls of tasks, when a handler or the kernel runs.
LEMMA CallsSame ==
    ASSUME CallsOK, WaitersOK, UNCHANGED <<call, lockCount, valid>>, QueuesShrink
    PROVE  CallsOK' /\ WaitersOK'
<1>1. CallsOK'
    BY DEF CallsOK, CallOK
<1>2. \A t \in Tasks : From(t)' = From(t)
    BY DEF From
<1> QED BY <1>1, <1>2 DEF WaitersOK, QueuesShrink

\* They keep the processor, if tasks stay ready.
LEMMA HolderSame ==
    ASSUME HolderOK, UNCHANGED <<call, taskIdCurrent, kernelIsIdle>>,
           kpc' \in {kpc, "user", "exit"}, \A u \in Tasks : Ready(u) => Ready(u)'
    PROVE  HolderOK'
BY DEF HolderOK

\* The nodes and what they hold.
LEMMA NodesSame ==
    ASSUME NodesOK, DataOK, UNCHANGED <<list, data, call, gathered>>
    PROVE  NodesOK' /\ DataOK'
BY DEF NodesOK, DataOK, DataOf, Free, Sent

\* A handler moves a node from the free list to the list of messages.
LEMMA HandlerMovesKept ==
    ASSUME MsgQInv, NEW m \in Messages, HandlerMoves(m)
    PROVE  /\ list' \in [Lists -> Seq(Nodes)] /\ data' \in [Nodes -> Messages \cup {NULL}]
           /\ NodesOK' /\ DataOK'
           /\ Len(list'["free"]) <= Len(list["free"])
           /\ Len(list'["msg"]) = Len(list["msg"]) + 1
<1> USE DEF MsgQInv
<1>1. PICK n, h : n = Head(list["free"]) /\ h = m.urgent
    OBVIOUS
<1>2. /\ list["free"] # <<>> /\ data' = [data EXCEPT ![n] = m]
      /\ list' = [list EXCEPT !["free"] = Tail(@), !["msg"] = Inserted("msg", n, h)]
      /\ UNCHANGED <<valid, call, gathered>>
    BY <1>1 DEF HandlerMoves
<1>3. "free" \in Lists /\ "msg" \in Lists
    BY DEF Lists
<1>4. PICK f, s : /\ f = list["free"] /\ f \in Seq(Nodes) /\ IsQueue(f, Nodes)
                  /\ s = list["msg"] /\ s \in Seq(Nodes) /\ IsQueue(s, Nodes)
    BY <1>3 DEF MsgQTypeOK, NodesOK
<1>5. /\ n \in Nodes /\ n \in Elements(f)
      /\ IsQueue(Tail(f), Nodes) /\ Elements(Tail(f)) = Elements(f) \ {n}
    BY <1>1, <1>2, <1>4, TailQueue
<1>6. Tail(f) \in Seq(Nodes) /\ Len(Tail(f)) = Len(f) - 1
    BY <1>2, <1>4, HeadTailProperties
<1>7. n \notin Elements(s)
    BY <1>4, <1>5 DEF NodesOK, Free, Sent
<1>8. /\ IsQueue(Inserted("msg", n, h), Nodes) /\ Inserted("msg", n, h) \in Seq(Nodes)
      /\ Len(Inserted("msg", n, h)) = Len(s) + 1
      /\ Elements(Inserted("msg", n, h)) = Elements(s) \cup {n}
    BY <1>4, <1>5, <1>7, PutNode
<1>9. /\ list'["free"] = Tail(f) /\ list'["msg"] = Inserted("msg", n, h)
      /\ list' \in [Lists -> Seq(Nodes)]
    BY <1>2, <1>3, <1>4, <1>6, <1>8 DEF MsgQTypeOK
<1>10. data' \in [Nodes -> Messages \cup {NULL}] /\ data'[n] = m
       /\ \A x \in Nodes : x # n => data'[x] = data[x]
    BY <1>2, <1>5 DEF MsgQTypeOK
<1>11. Free' = Free \ {n} /\ Sent' = Sent \cup {n} /\ n \in Free /\ n \notin Sent
    BY <1>4, <1>5, <1>7, <1>8, <1>9 DEF Free, Sent
<1>12. NodesOK'
  <2>1. \A r \in Lists : IsQueue(list'[r], Nodes)
      BY <1>5, <1>8, <1>9 DEF Lists
  <2> QED BY <1>2, <1>11, <2>1 DEF NodesOK
<1>13. DataOK'
  <2>1. Sent \subseteq Nodes
      BY <1>3, QueueElements DEF Sent, MsgQTypeOK
  <2>2. \A x \in Sent' : data'[x] \in Messages
      BY <1>10, <1>11, <2>1 DEF DataOK
  <2>3. \A t \in Tasks : call[t].node # NULL =>
           data'[call[t].node] = data[call[t].node]
      BY <1>10, <1>11 DEF NodesOK, MsgQTypeOK, Calls
  <2>4. \A t \in Tasks : DataOf(t)'
    <3>1. \A t \in Tasks : call[t].at \in {"copy", "put"} =>
             data'[call[t].node] = data[call[t].node]
        BY <2>3 DEF NodesOK
    <3> QED BY <1>2, <3>1 DEF DataOK, DataOf
  <2> QED BY <2>2, <2>4 DEF DataOK
<1>14. Len(f) \in Nat
    BY <1>4
<1> QED BY <1>4, <1>6, <1>8, <1>9, <1>10, <1>12, <1>13, <1>14

\* A handler sends, and wakes a receiver itself.
LEMMA HandlerSendsKept ==
    ASSUME MsgQInv, NEW m \in Messages, HandlerSends(m)
    PROVE  MsgQInv'
<1> USE DEF MsgQInv
<1>1. /\ kpc = "user" /\ intr /\ HandlerMoves(m) /\ WakeOne("msg") /\ SectionOnly
      /\ valid /\ UNCHANGED <<valid, call, gathered>>
    BY DEF HandlerSends, HandlerMoves
<1>2. /\ list' \in [Lists -> Seq(Nodes)] /\ data' \in [Nodes -> Messages \cup {NULL}]
      /\ NodesOK' /\ DataOK'
      /\ Len(list'["free"]) <= Len(list["free"])
      /\ Len(list'["msg"]) = Len(list["msg"]) + 1
    BY <1>1, HandlerMovesKept
<1>3. "msg" \in Lists
    BY DEF Lists
<1>4. /\ KernelOK' /\ QueuesShrink /\ kpc' \in {"user", "exit"}
      /\ \A u \in Tasks : Ready(u) => Ready(u)'
      /\ UNCHANGED <<taskIdCurrent, kernelIsIdle, workQ, lockCount>>
      /\ IF pendQ["msg"] = <<>> THEN pendQ' = pendQ /\ retVal' = retVal
                                ELSE vmxPendQGet("msg")
    BY <1>1, <1>3, WakeKernel
<1>5. MsgQTypeOK'
    BY <1>1, <1>2, <1>4 DEF MsgQTypeOK
<1>6. CallsOK' /\ WaitersOK'
    BY <1>1, <1>4, CallsSame
<1>7. HolderOK'
    BY <1>1, <1>4, HolderSame
<1>8. NobodyForgotten'
  <2> SUFFICES ASSUME NEW r \in Lists, pendQ'[r] # <<>> /\ valid'
               PROVE  /\ pendQ[r] # <<>> /\ valid
                      /\ Len(list'[r]) + Cardinality(Lookers(r)) + Cardinality(Jobs(r))
                           <= Len(list[r]) + Cardinality(Lookers(r)') + Cardinality(Jobs(r)')
      BY <1>5, EnoughCount
  <2>1. Jobs(r)' = Jobs(r)
      BY <1>4 DEF Jobs
  <2>2. /\ Len(list[r]) \in Nat /\ Cardinality(Jobs(r)) \in Nat
        /\ Cardinality(Lookers(r)) \in Nat
      BY Counts
  <2>3. Lookers(r)' \subseteq Tasks /\ Cardinality(Lookers(r)') \in Nat
      BY LookersFinite DEF Lookers
  <2>4. Len(list'[r]) \in Nat
      BY <1>5 DEF MsgQTypeOK
  <2>5. CASE pendQ["msg"] = <<>>
    <3>1. pendQ' = pendQ /\ retVal' = retVal /\ r = "free"
        BY <1>4, <2>5 DEF Lists
    <3>2. Lookers(r) = Lookers(r)'
        BY <1>1, <3>1 DEF Lookers, Looks, From
    <3> QED BY <1>1, <1>2, <2>1, <2>2, <2>3, <2>4, <3>1, <3>2
  <2>6. CASE pendQ["msg"] # <<>>
    <3>1. vmxPendQGet("msg")
        BY <1>4, <2>6
    <3>2. \A u \in Tasks : call[u].at \in {"get", "woken"} => call'[u] = call[u]
        BY <1>1
    <3>3. /\ Lookers(r) \subseteq Lookers(r)'
          /\ Cardinality(Lookers("msg")) + 1 <= Cardinality(Lookers("msg")')
        BY <1>3, <2>6, <3>1, <3>2, WokenLooks
    <3>4. Cardinality(Lookers(r)) <= Cardinality(Lookers(r)')
        BY <2>3, <3>3, LookersFinite
    <3>5. pendQ[r] # <<>>
      <4>1. r = "msg" \/ pendQ'[r] = pendQ[r]
          BY <1>3, <3>1, ListsPend DEF vmxPendQGet, unpend, KernelOK, KernTypes
      <4> QED BY <2>6, <4>1
    <3>6. CASE r = "msg"
        BY <1>1, <1>2, <2>1, <2>2, <2>3, <2>4, <3>3, <3>5, <3>6
    <3>7. CASE r = "free"
        BY <1>1, <1>2, <2>1, <2>2, <2>3, <2>4, <3>4, <3>5, <3>7
    <3> QED BY <3>6, <3>7 DEF Lists
  <2> QED BY <2>5, <2>6
<1> QED BY <1>2, <1>4, <1>5, <1>6, <1>7, <1>8

\* A job more in the work queue.
LEMMA JobPosted ==
    ASSUME MsgQTypeOK, NEW j \in {<<"wake">>, <<"tick">>}, workQ' = Append(workQ, j),
           NEW q \in Lists
    PROVE  /\ workQ' \in Seq({<<"wake">>, <<"tick">>}) /\ Cardinality(Jobs(q)') \in Nat
           /\ Cardinality(Jobs(q)) + (IF q = "msg" /\ j = <<"wake">> THEN 1 ELSE 0)
                <= Cardinality(Jobs(q)')
<1>1. PICK n \in Nat : n = Len(workQ) /\ DOMAIN workQ = 1..n
    BY DEF MsgQTypeOK
<1>2. /\ workQ' \in Seq({<<"wake">>, <<"tick">>}) /\ DOMAIN workQ' = 1..(n + 1)
      /\ workQ'[n + 1] = j /\ \A i \in 1..n : workQ'[i] = workQ[i]
    BY <1>1 DEF MsgQTypeOK
<1>3. Jobs(q)' \subseteq DOMAIN workQ' /\ Jobs(q) \subseteq Jobs(q)'
    BY <1>1, <1>2 DEF Jobs
<1>4. IsFiniteSet(Jobs(q)') /\ Cardinality(Jobs(q)') \in Nat
    BY <1>2, <1>3, PlacesFinite
<1>5. IsFiniteSet(Jobs(q)) /\ Cardinality(Jobs(q)) \in Nat
    BY JobsFinite
<1>6. CASE q = "msg" /\ j = <<"wake">>
  <2>1. n + 1 \notin Jobs(q) /\ Jobs(q) \cup {n + 1} \in SUBSET Jobs(q)'
      BY <1>1, <1>2, <1>3, <1>6 DEF Jobs
  <2>2. Cardinality(Jobs(q) \cup {n + 1}) = Cardinality(Jobs(q)) + 1
      BY <1>5, <2>1, FS_AddElement
  <2>3. Cardinality(Jobs(q) \cup {n + 1}) <= Cardinality(Jobs(q)')
      BY <1>4, <2>1, FS_Subset
  <2> QED BY <1>2, <1>4, <1>6, <2>2, <2>3
<1>7. CASE ~(q = "msg" /\ j = <<"wake">>)
  <2>1. Cardinality(Jobs(q)) <= Cardinality(Jobs(q)')
      BY <1>3, <1>4, FS_Subset
  <2> QED BY <1>2, <1>4, <1>5, <1>7, <2>1
<1> QED BY <1>6, <1>7

\* The first job leaves the work queue.
LEMMA JobTaken ==
    ASSUME MsgQTypeOK, workQ # <<>>, workQ' = Tail(workQ), NEW q \in Lists
    PROVE  /\ workQ' \in Seq({<<"wake">>, <<"tick">>}) /\ Cardinality(Jobs(q)') \in Nat
           /\ Cardinality(Jobs(q)) <=
                Cardinality(Jobs(q)')
                  + (IF q = "msg" /\ Head(workQ) = <<"wake">> THEN 1 ELSE 0)
<1>1. PICK n \in Nat : n = Len(workQ) /\ DOMAIN workQ = 1..n /\ n > 0
    BY DEF MsgQTypeOK
<1>2. /\ workQ' \in Seq({<<"wake">>, <<"tick">>}) /\ DOMAIN workQ' = 1..(n - 1)
      /\ Head(workQ) = workQ[1] /\ \A i \in 1..(n - 1) : workQ'[i] = workQ[i + 1]
    BY <1>1 DEF MsgQTypeOK
<1>3. Jobs(q)' \subseteq DOMAIN workQ'
    BY DEF Jobs
<1>4. IsFiniteSet(Jobs(q)') /\ Cardinality(Jobs(q)') \in Nat
    BY <1>2, <1>3, PlacesFinite
<1>5. IsFiniteSet(Jobs(q)) /\ Cardinality(Jobs(q)) \in Nat
    BY JobsFinite
<1>6. PICK f : f = [i \in Jobs(q) \ {1} |-> i - 1]
    OBVIOUS
<1>7. Jobs(q) \ {1} \subseteq 2..n /\ \A i \in Jobs(q) \ {1} : i - 1 \in Jobs(q)'
  <2>1. Jobs(q) \ {1} \subseteq 2..n
      BY <1>1 DEF Jobs
  <2>2. ASSUME NEW i \in Jobs(q) \ {1} PROVE i - 1 \in Jobs(q)'
    <3>1. i - 1 \in 1..(n - 1) /\ workQ'[i - 1] = workQ[i]
        BY <1>2, <2>1
    <3> QED BY <1>2, <3>1 DEF Jobs
  <2> QED BY <2>1, <2>2
<1>8. f \in Injection(Jobs(q) \ {1}, Jobs(q)')
    BY <1>6, <1>7 DEF Injection, IsInjective
<1>9. Cardinality(Jobs(q) \ {1}) <= Cardinality(Jobs(q)')
    BY <1>4, <1>8, FS_Injection
<1>10. Cardinality(Jobs(q) \ {1}) =
          IF 1 \in Jobs(q) THEN Cardinality(Jobs(q)) - 1 ELSE Cardinality(Jobs(q))
    BY <1>5, FS_RemoveElement
<1>11. 1 \in Jobs(q) <=> q = "msg" /\ Head(workQ) = <<"wake">>
    BY <1>1, <1>2 DEF Jobs
<1> QED BY <1>2, <1>4, <1>5, <1>9, <1>10, <1>11

\* A handler sends while the kernel is busy, and a job will wake a receiver.
LEMMA HandlerSendsLaterKept ==
    ASSUME MsgQInv, NEW m \in Messages, HandlerSendsLater(m)
    PROVE  MsgQInv'
<1> USE DEF MsgQInv
<1>1. /\ HandlerMoves(m) /\ Posts(<<"wake">>)
      /\ valid /\ UNCHANGED <<valid, call, gathered>>
    BY DEF HandlerSendsLater, HandlerMoves
<1>2. /\ list' \in [Lists -> Seq(Nodes)] /\ data' \in [Nodes -> Messages \cup {NULL}]
      /\ NodesOK' /\ DataOK'
      /\ Len(list'["free"]) <= Len(list["free"])
      /\ Len(list'["msg"]) = Len(list["msg"]) + 1
    BY <1>1, HandlerMovesKept
<1>3. KernelOK' /\ QueuesShrink
    BY <1>1, PostKernel
<1>4. /\ UNCHANGED <<kernVars, taskIdCurrent, kernelIsIdle, kpc, lockCount>>
      /\ workQ' = Append(workQ, <<"wake">>)
    BY <1>1 DEF Posts
<1>5. MsgQTypeOK'
    BY <1>1, <1>2, <1>4 DEF MsgQTypeOK
<1>6. CallsOK' /\ WaitersOK'
    BY <1>1, <1>3, <1>4, CallsSame
<1>7. HolderOK'
    BY <1>1, <1>4, HolderSame DEF kernVars, Ready
<1>8. NobodyForgotten'
  <2> SUFFICES ASSUME NEW r \in Lists, pendQ'[r] # <<>> /\ valid'
               PROVE  /\ pendQ[r] # <<>> /\ valid
                      /\ Len(list'[r]) + Cardinality(Lookers(r)) + Cardinality(Jobs(r))
                           <= Len(list[r]) + Cardinality(Lookers(r)') + Cardinality(Jobs(r)')
      BY <1>5, EnoughCount
  <2>1. /\ Cardinality(Jobs(r)') \in Nat
        /\ Cardinality(Jobs(r)) + (IF r = "msg" THEN 1 ELSE 0) <= Cardinality(Jobs(r)')
      BY <1>4, JobPosted
  <2>2. /\ Len(list[r]) \in Nat /\ Cardinality(Jobs(r)) \in Nat
        /\ Cardinality(Lookers(r)) \in Nat
      BY Counts
  <2>3. Lookers(r)' = Lookers(r) /\ pendQ' = pendQ
      BY <1>1, <1>4 DEF Lookers, Looks, From, kernVars
  <2>4. Len(list'[r]) \in Nat
      BY <1>5 DEF MsgQTypeOK
  <2>5. CASE r = "msg"
      BY <1>1, <1>2, <2>1, <2>2, <2>3, <2>4, <2>5
  <2>6. CASE r = "free"
      BY <1>1, <1>2, <2>1, <2>2, <2>3, <2>4, <2>6
  <2> QED BY <2>5, <2>6 DEF Lists
<1> QED BY <1>2, <1>3, <1>5, <1>6, <1>7, <1>8

\* Nobody looks away, and there are no nodes or jobs less.
LEMMA EnoughSame ==
    ASSUME MsgQTypeOK, MsgQTypeOK', NobodyForgotten, UNCHANGED <<list, call, valid>>, QueuesShrink,
           \A q \in Lists : Cardinality(Jobs(q)) <= Cardinality(Jobs(q)'),
           \A u \in Tasks, q \in Lists : Looks(u, q) => Looks(u, q)',
           KernTypes, KernTypes'
    PROVE  NobodyForgotten'
<1> SUFFICES ASSUME NEW r \in Lists, pendQ'[r] # <<>> /\ valid'
             PROVE  /\ pendQ[r] # <<>> /\ valid
                    /\ Len(list'[r]) + Cardinality(Lookers(r)) + Cardinality(Jobs(r))
                         <= Len(list[r]) + Cardinality(Lookers(r)') + Cardinality(Jobs(r)')
    BY EnoughCount
<1>1. pendQ[r] # <<>>
  <2>1. pendQ[r] \in Seq(Tasks) /\ pendQ'[r] \in Seq(Tasks)
      BY ListsPend DEF KernTypes
  <2>2. Head(pendQ'[r]) \in Elements(pendQ'[r])
      BY <2>1 DEF Elements
  <2>3. Head(pendQ'[r]) \in Elements(pendQ[r])
      BY <2>2, ListsPend DEF QueuesShrink
  <2> QED BY <2>3 DEF Elements
<1>2. Lookers(r) \subseteq Lookers(r)' /\ Lookers(r)' \subseteq Tasks
    BY DEF Lookers
<1>3. Cardinality(Lookers(r)) <= Cardinality(Lookers(r)') /\ Cardinality(Lookers(r)') \in Nat
    BY <1>2, LookersFinite
<1>4. /\ Len(list[r]) \in Nat /\ Cardinality(Jobs(r)) \in Nat
      /\ Cardinality(Lookers(r)) \in Nat
    BY Counts
<1>5. Cardinality(Jobs(r)') \in Nat
  <2>1. Jobs(r)' \subseteq DOMAIN workQ'
      BY DEF Jobs
  <2> QED BY <2>1, PlacesFinite DEF MsgQTypeOK
<1> QED BY <1>1, <1>3, <1>4, <1>5

\* What the clock starts.
LEMMA TickLoopsType == TickLoops \in Seq(TodoItems)
<1>1. <<"expire">> \in TodoItems /\ <<"slice">> \in TodoItems
    BY DEF TodoItems
<1> QED BY <1>1 DEF TickLoops

\* The clock.
LEMMA TickKept ==
    ASSUME MsgQInv, Tick
    PROVE  MsgQInv'
<1> USE DEF MsgQInv
<1>1. UNCHANGED msgQVars
    BY DEF Tick
<1>2. /\ KernelOK' /\ QueuesShrink /\ UNCHANGED <<pendQ, retVal, status>>
      /\ UNCHANGED <<taskIdCurrent, kernelIsIdle, lockCount>> /\ kpc' \in {kpc, "user", "exit"}
      /\ workQ' = workQ \/ workQ' = Append(workQ, <<"tick">>)
  <2>1. CASE kpc = "user" /\ intr /\ Section(TickLoops) /\ advance /\ SectionOnly
    <3>1. KernTypes' /\ KernInv'
        BY <2>1, AdvanceTypes, AdvanceQueues DEF KernelOK
    <3>2. KernelOK'
        BY <2>1, <3>1, TickLoopsType, SectionKernel
    <3> QED BY <2>1, <3>2, SameShrink DEF advance, Section, SectionOnly
  <2>2. CASE Posts(<<"tick">>)
    <3>1. KernelOK' /\ QueuesShrink
        BY <2>2, PostKernel
    <3> QED BY <2>2, <3>1 DEF Posts, kernVars
  <2> QED BY <2>1, <2>2 DEF Tick
<1>3. MsgQTypeOK'
  <2>1. workQ' \in Seq({<<"wake">>, <<"tick">>})
    <3>1. PICK S, j : S = {<<"wake">>, <<"tick">>} /\ j = <<"tick">> /\ j \in S
        OBVIOUS
    <3>2. workQ \in Seq(S)
        BY <3>1 DEF MsgQTypeOK
    <3>3. workQ' = workQ \/ workQ' = Append(workQ, j)
        BY <1>2, <3>1
    <3>4. workQ' \in Seq(S)
        BY <3>1, <3>2, <3>3, AppendProperties
    <3> QED BY <3>1, <3>4
  <2> QED BY <1>1, <1>2, <2>1 DEF MsgQTypeOK, msgQVars
<1>4. CallsOK' /\ WaitersOK'
    BY <1>1, <1>2, CallsSame DEF msgQVars
<1>5. HolderOK'
    BY <1>1, <1>2, HolderSame DEF msgQVars, Ready
<1>6. NodesOK' /\ DataOK'
    BY <1>1, NodesSame DEF msgQVars
<1>7. NobodyForgotten'
  <2>1. \A q \in Lists : Cardinality(Jobs(q)) <= Cardinality(Jobs(q)')
    <3> TAKE q \in Lists
    <3>1. Cardinality(Jobs(q)) \in Nat
        BY JobsFinite
    <3>2. CASE workQ' = workQ
      <4>1. Jobs(q)' = Jobs(q)
          BY <3>2 DEF Jobs
      <4> QED BY <3>1, <4>1
    <3>3. CASE workQ' = Append(workQ, <<"tick">>)
      <4>1. PICK j \in {<<"wake">>, <<"tick">>} : j = <<"tick">>
          OBVIOUS
      <4>2. Cardinality(Jobs(q)) + (IF q = "msg" /\ j = <<"wake">> THEN 1 ELSE 0)
              <= Cardinality(Jobs(q)')
          BY <3>3, <4>1, JobPosted
      <4>3. j # <<"wake">>
          BY <4>1
      <4> QED BY <3>1, <4>2, <4>3
    <3> QED BY <1>2, <3>2, <3>3
  <2>2. \A u \in Tasks, q \in Lists : Looks(u, q) => Looks(u, q)'
      BY <1>1, <1>2 DEF Looks, From, msgQVars
  <2> QED BY <1>1, <1>2, <1>3, <2>1, <2>2, EnoughSame DEF msgQVars, KernelOK
<1> QED BY <1>2, <1>3, <1>4, <1>5, <1>6, <1>7

\* The kernel with a job done.
LEMMA JobKernel ==
    ASSUME KernelOK, TakeJob, UNCHANGED <<lockCount, timeSlice>>, KernTypes', KernInv',
           todo' \in {todo, TickLoops}
    PROVE  KernelOK'
<1>1. kpc \in {"work", "rework"} /\ kpc' = kpc
    BY DEF TakeJob, KernelAt
<1>2. SchedTypes'
    BY TickLoopsType DEF KernelOK, SchedTypes, TakeJob
<1>3. SchedBase' /\ CurrentReady'
    BY <1>1 DEF KernelOK, SchedBase, CurrentReady, TakeJob
<1> QED BY <1>2, <1>3 DEF KernelOK

\* The job that wakes a receiver.
LEMMA WakeJobKept ==
    ASSUME MsgQInv, RunJob, Head(workQ) = <<"wake">>
    PROVE  MsgQInv'
<1> USE DEF MsgQInv
<1>1. /\ TakeJob /\ workQ # <<>> /\ workQ' = Tail(workQ)
      /\ UNCHANGED <<taskIdCurrent, kernelIsIdle, kpc, todo, lockCount, timeSlice, msgQVars>>
      /\ IF pendQ["msg"] = <<>> THEN UNCHANGED kernVars ELSE vmxPendQGet("msg")
    BY DEF RunJob, TakeJob
<1>2. "msg" \in Lists /\ "msg" \in PendQs
    BY ListsPend DEF Lists
<1>3. KernTypes' /\ KernInv' /\ QueuesShrink /\ \A u \in Tasks : Ready(u) => Ready(u)'
  <2>1. CASE pendQ["msg"] = <<>>
      BY <1>1, <2>1, SameTypes, SameQueues, SameShrink DEF KernelOK, kernVars, Ready
  <2>2. CASE pendQ["msg"] # <<>>
      BY <1>1, <1>2, <2>2, WokenTask
  <2> QED BY <2>1, <2>2
<1>4. KernelOK'
    BY <1>1, <1>3, JobKernel
<1>5. workQ' \in Seq({<<"wake">>, <<"tick">>})
    BY <1>1, <1>2, JobTaken
<1>6. MsgQTypeOK'
    BY <1>1, <1>5 DEF MsgQTypeOK, msgQVars
<1>7. CallsOK' /\ WaitersOK'
    BY <1>1, <1>3, CallsSame DEF msgQVars
<1>8. HolderOK'
    BY <1>1, <1>3, HolderSame DEF msgQVars
<1>9. NodesOK' /\ DataOK'
    BY <1>1, NodesSame DEF msgQVars
<1>10. NobodyForgotten'
  <2> SUFFICES ASSUME NEW r \in Lists, pendQ'[r] # <<>> /\ valid'
               PROVE  /\ pendQ[r] # <<>> /\ valid
                      /\ Len(list'[r]) + Cardinality(Lookers(r)) + Cardinality(Jobs(r))
                           <= Len(list[r]) + Cardinality(Lookers(r)') + Cardinality(Jobs(r)')
      BY <1>6, EnoughCount
  <2>1. /\ Cardinality(Jobs(r)') \in Nat
        /\ Cardinality(Jobs(r)) <= Cardinality(Jobs(r)') + (IF r = "msg" THEN 1 ELSE 0)
      BY <1>1, JobTaken
  <2>2. /\ Len(list[r]) \in Nat /\ Cardinality(Jobs(r)) \in Nat
        /\ Cardinality(Lookers(r)) \in Nat
      BY Counts
  <2>3. Lookers(r)' \subseteq Tasks /\ Cardinality(Lookers(r)') \in Nat
      BY LookersFinite DEF Lookers
  <2>4. list' = list /\ valid' = valid /\ call' = call
      BY <1>1 DEF msgQVars
  <2>5. CASE pendQ["msg"] = <<>>
    <3>1. pendQ' = pendQ /\ retVal' = retVal /\ r # "msg"
        BY <1>1, <2>5 DEF kernVars
    <3>2. Lookers(r)' = Lookers(r)
        BY <2>4, <3>1 DEF Lookers, Looks, From
    <3> QED BY <2>1, <2>2, <2>4, <3>1, <3>2
  <2>6. CASE pendQ["msg"] # <<>>
    <3>1. vmxPendQGet("msg")
        BY <1>1, <2>6
    <3>2. /\ Lookers(r) \subseteq Lookers(r)'
          /\ Cardinality(Lookers("msg")) + 1 <= Cardinality(Lookers("msg")')
        BY <1>2, <2>4, <2>6, <3>1, WokenLooks
    <3>3. Cardinality(Lookers(r)) <= Cardinality(Lookers(r)')
        BY <2>3, <3>2, LookersFinite
    <3>4. pendQ[r] # <<>>
      <4>1. r = "msg" \/ pendQ'[r] = pendQ[r]
          BY <1>2, <3>1, ListsPend DEF vmxPendQGet, unpend, KernelOK, KernTypes
      <4> QED BY <2>6, <4>1
    <3> QED BY <2>1, <2>2, <2>3, <2>4, <3>2, <3>3, <3>4
  <2> QED BY <2>5, <2>6
<1> QED BY <1>4, <1>6, <1>7, <1>8, <1>9, <1>10

\* The job of the clock.
LEMMA TickJobKept ==
    ASSUME MsgQInv, RunJob, Head(workQ) # <<"wake">>
    PROVE  MsgQInv'
<1> USE DEF MsgQInv
<1>1. /\ TakeJob /\ workQ # <<>> /\ workQ' = Tail(workQ) /\ advance /\ todo' = TickLoops
      /\ UNCHANGED <<taskIdCurrent, kernelIsIdle, kpc, lockCount, timeSlice, msgQVars>>
    BY DEF RunJob, TakeJob
<1>2. /\ KernTypes' /\ KernInv' /\ QueuesShrink /\ UNCHANGED <<pendQ, retVal, status>>
    BY <1>1, AdvanceTypes, AdvanceQueues, SameShrink DEF KernelOK, advance
<1>3. KernelOK'
    BY <1>1, <1>2, JobKernel
<1>4. "msg" \in Lists
    BY DEF Lists
<1>5. /\ workQ' \in Seq({<<"wake">>, <<"tick">>})
      /\ \A q \in Lists : Cardinality(Jobs(q)') \in Nat
                          /\ Cardinality(Jobs(q)) <= Cardinality(Jobs(q)') + 0
    BY <1>1, <1>4, JobTaken
<1>6. MsgQTypeOK'
    BY <1>1, <1>5 DEF MsgQTypeOK, msgQVars
<1>7. CallsOK' /\ WaitersOK'
    BY <1>1, <1>2, CallsSame DEF msgQVars
<1>8. HolderOK'
    BY <1>1, <1>2, HolderSame DEF msgQVars, Ready
<1>9. NodesOK' /\ DataOK'
    BY <1>1, NodesSame DEF msgQVars
<1>10. NobodyForgotten'
  <2>1. \A u \in Tasks, q \in Lists : Looks(u, q) => Looks(u, q)'
      BY <1>1, <1>2 DEF Looks, From, msgQVars
  <2> QED BY <1>1, <1>2, <1>5, <1>6, <2>1, EnoughSame DEF msgQVars, KernelOK
<1> QED BY <1>3, <1>6, <1>7, <1>8, <1>9, <1>10

-----------------------------------------------------------------------------
(***************************************************************************)
(* The scheduler.                                                          *)
(***************************************************************************)
\* The part of the state that the kernel does not know.
LEMMA OutsideKept ==
    ASSUME MsgQInv, UNCHANGED msgQVars, workQ' = workQ, lockCount' = lockCount,
           KernTypes', QueuesShrink, \A u \in Tasks : Told(u)
    PROVE  MsgQTypeOK' /\ CallsOK' /\ WaitersOK' /\ NodesOK' /\ DataOK' /\ NobodyForgotten'
<1> USE DEF MsgQInv
<1>1. MsgQTypeOK'
    BY DEF MsgQTypeOK, msgQVars
<1>2. CallsOK' /\ WaitersOK'
    BY CallsSame DEF msgQVars
<1>3. NodesOK' /\ DataOK'
    BY NodesSame DEF msgQVars
<1>4. NobodyForgotten'
  <2>1. \A q \in Lists : Cardinality(Jobs(q)) <= Cardinality(Jobs(q)')
    <3> TAKE q \in Lists
    <3>1. Jobs(q)' = Jobs(q) /\ Cardinality(Jobs(q)) \in Nat
        BY JobsFinite DEF Jobs
    <3> QED BY <3>1
  <2>2. ASSUME NEW u \in Tasks, NEW q \in Lists, Looks(u, q) PROVE Looks(u, q)'
    <3>1. From(u)' = From(u) /\ call'[u] = call[u]
        BY DEF From, msgQVars
    <3>2. CASE call[u].at = "get"
        BY <2>2, <3>1, <3>2 DEF Looks
    <3>3. CASE call[u].at # "get"
      <4>1. \A r \in PendQs : u \notin Elements(pendQ[r])
          BY <2>2, <3>3 DEF Looks, WaitersOK
      <4>2. retVal'[u] = "OK" /\ u \notin Elements(pendQ'[q])
          BY <2>2, <3>3, <4>1, ListsPend DEF Told, Looks, QueuesShrink
      <4> QED BY <2>2, <3>1, <3>3, <4>2 DEF Looks
    <3> QED BY <3>2, <3>3
  <2> QED BY <1>1, <2>1, <2>2, EnoughSame DEF msgQVars, KernelOK
<1> QED BY <1>1, <1>2, <1>3, <1>4

\* The ways out of the kernel, and the loops: the task of a call that has the
\* processor keeps it, as it is locked.
LEMMA SchedKept ==
    ASSUME MsgQInv, SchedStep, UNCHANGED msgQVars
    PROVE  MsgQInv'
<1> USE DEF MsgQInv
<1>1. KernTypes' /\ SchedTypes' /\ workQ' = workQ
    BY StepTypes DEF KernelOK
<1>2. KernInv' /\ SchedBase' /\ RunsRight'
    BY StepRuns DEF KernelOK
<1>3. /\ QueuesShrink /\ lockCount' = lockCount
      /\ \A u \in Tasks : Ready(u) => Ready(u)'
      /\ \A u \in Tasks : Told(u)
    BY StepWakes DEF KernelOK
<1>4. CurrentReady'
  <2> SUFFICES ASSUME kpc' = "user", ~intr', ~kernelIsIdle'
               PROVE  Ready(taskIdCurrent)'
      BY DEF CurrentReady
  <2>1. taskIdCurrent' = readyHead' \/ Locked'
      BY <1>2 DEF RunsRight
  <2>2. taskIdCurrent' \in Tasks
      BY <1>1 DEF SchedTypes
  <2>3. CASE taskIdCurrent' = readyHead'
    <3>1. readyQ' # <<>> /\ taskIdCurrent' = Head(readyQ')
        BY <2>2, <2>3, VmxLibAssumption DEF readyHead, QFirst
    <3>2. taskIdCurrent' \in Elements(readyQ')
        BY <1>2, <3>1, TailQueue DEF KernInv, ReadyOK
    <3> QED BY <1>2, <2>2, <3>2 DEF KernInv, ReadyOK
  <2> QED BY <2>1, <2>3 DEF Locked
<1>5. HolderOK'
  <2> SUFFICES ASSUME NEW t \in Tasks, call[t].at \in Busy
               PROVE  /\ taskIdCurrent' = t /\ Ready(t)'
                      /\ ~kernelIsIdle' /\ kpc' \in {"user", "exit", "work"}
      BY DEF HolderOK, msgQVars
  <2>1. /\ taskIdCurrent = t /\ Ready(t) /\ ~kernelIsIdle /\ kpc \in {"user", "exit", "work"}
      BY DEF HolderOK
  <2>2. lockCount[t] = 1
      BY DEF CallsOK, CallOK
  <2>3. Locked
      BY <2>1, <2>2 DEF Locked
  <2>4. ~SaveTaskContext /\ ~SwitchTasks /\ ~Dispatch /\ ~NoTaskReady
      BY <2>1, <2>3 DEF SaveTaskContext, SwitchTasks, Dispatch, NoTaskReady, KernelAt
  <2>5. UNCHANGED <<taskIdCurrent, kernelIsIdle>> /\ kpc' \in {"user", "exit", "work"}
    <3>1. ExitFromInt \/ ExitToCaller \/ WorkDone =>
             UNCHANGED <<taskIdCurrent, kernelIsIdle>> /\ kpc' \in {"user", "exit", "work"}
        BY <2>1 DEF ExitFromInt, ExitToCaller, WorkDone, KernelAt, othersThan
    <3>2. FlushLoop \/ TerminateLoop \/ ExpireLoop \/ RoundRobin =>
             UNCHANGED <<taskIdCurrent, kernelIsIdle, kpc>>
        BY DEF FlushLoop, TerminateLoop, ExpireLoop, RoundRobin, loopVars
    <3> QED BY <2>1, <2>4, <3>1, <3>2 DEF SchedStep
  <2> QED BY <1>3, <2>1, <2>5
<1>6. MsgQTypeOK' /\ CallsOK' /\ WaitersOK' /\ NodesOK' /\ DataOK' /\ NobodyForgotten'
    BY <1>1, <1>3, OutsideKept
<1> QED BY <1>1, <1>2, <1>4, <1>5, <1>6 DEF KernelOK

\* intEnt.
LEMMA IntEntKept ==
    ASSUME MsgQInv, IntEnt, UNCHANGED msgQVars
    PROVE  MsgQInv'
<1> USE DEF MsgQInv, IntEnt
<1>1. KernTypes' /\ KernInv'
    BY SameTypes, SameQueues DEF KernelOK, kernVars
<1>2. SchedTypes' /\ SchedBase' /\ CurrentReady'
    BY DEF KernelOK, SchedTypes, SchedBase, CurrentReady
<1>3. HolderOK'
    BY HolderSame DEF msgQVars, kernVars, Ready
<1>4. QueuesShrink /\ \A u \in Tasks : Told(u)
    BY SameShrink DEF kernVars, Told
<1>5. MsgQTypeOK' /\ CallsOK' /\ WaitersOK' /\ NodesOK' /\ DataOK' /\ NobodyForgotten'
    BY <1>1, <1>4, OutsideKept
<1> QED BY <1>1, <1>2, <1>3, <1>5 DEF KernelOK

\* intExit: the task of a call that has the processor gets it back.
LEMMA IntExitKept ==
    ASSUME MsgQInv, IntExit, UNCHANGED msgQVars
    PROVE  MsgQInv'
<1> USE DEF MsgQInv
<1>1. KernTypes' /\ KernInv'
    BY SameTypes, SameQueues DEF KernelOK, kernVars, IntExit
<1>2. /\ kpc = "user" /\ intr' = FALSE
      /\ kpc' = IF kernelIsIdle \/ (taskIdCurrent # readyHead /\ ~Locked)
                  THEN "resched" ELSE "user"
      /\ UNCHANGED <<kernVars, taskIdCurrent, kernelIsIdle, todo, workQ,
                     intOff, savedIntOff, lockCount, timeSlice>>
    BY DEF IntExit
<1>3. SchedTypes' /\ SchedBase'
    BY <1>2 DEF KernelOK, SchedTypes, SchedBase, KernelStates
<1>4. CurrentReady'
  <2> SUFFICES ASSUME kpc' = "user", ~kernelIsIdle PROVE Ready(taskIdCurrent)
      BY <1>2 DEF CurrentReady, kernVars, Ready
  <2>1. taskIdCurrent = readyHead \/ Locked
      BY <1>2
  <2>2. taskIdCurrent \in Tasks
      BY DEF KernelOK, SchedTypes
  <2> QED BY <2>1, <2>2, HeadReady DEF KernelOK, Locked
<1>5. HolderOK'
  <2>1. ASSUME NEW t \in Tasks, call[t].at \in Busy PROVE kpc' = "user"
    <3>1. lockCount[t] = 1 /\ taskIdCurrent = t /\ Ready(t) /\ ~kernelIsIdle
        BY <2>1 DEF CallsOK, CallOK, HolderOK
    <3> QED BY <1>2, <3>1 DEF Locked
  <2> QED BY <1>2, <2>1 DEF HolderOK, msgQVars, kernVars, Ready
<1>6. QueuesShrink /\ \A u \in Tasks : Told(u)
    BY <1>2, SameShrink DEF kernVars, Told
<1>7. MsgQTypeOK' /\ CallsOK' /\ WaitersOK' /\ NodesOK' /\ DataOK' /\ NobodyForgotten'
    BY <1>1, <1>2, <1>6, OutsideKept
<1> QED BY <1>1, <1>3, <1>4, <1>5, <1>7 DEF KernelOK
-----------------------------------------------------------------------------
(***************************************************************************)
(* The invariant.                                                          *)
(***************************************************************************)
\* A stutter.
LEMMA StutterKept == ASSUME MsgQInv, UNCHANGED vars PROVE MsgQInv'
<1> USE DEF MsgQInv
<1>1. UNCHANGED kernVars /\ UNCHANGED schedVars /\ UNCHANGED msgQVars
    BY DEF vars
<1>2. KernelOK'
    BY <1>1, NoSectionKernel DEF NoSection
<1>3. QueuesShrink /\ \A u \in Tasks : Told(u)
    BY <1>1, SameShrink DEF kernVars, Told
<1>4. lockCount' = lockCount /\ workQ' = workQ
    BY <1>1 DEF schedVars
<1>5. MsgQTypeOK' /\ CallsOK' /\ WaitersOK' /\ NodesOK' /\ DataOK' /\ NobodyForgotten'
    BY <1>1, <1>2, <1>3, <1>4, OutsideKept DEF KernelOK
<1>6. HolderOK'
    BY <1>1 DEF HolderOK, schedVars, msgQVars, kernVars, Ready
<1> QED BY <1>2, <1>5, <1>6

\* The ready queue and the free list at the start.
LEMMA InitLists ==
    ASSUME Init
    PROVE  /\ IsQueue(readyQ, Tasks) /\ Elements(readyQ) = Tasks /\ readyQ # <<>>
           /\ Head(readyQ) \in Tasks
           /\ IsQueue(list["free"], Nodes) /\ Elements(list["free"]) = Nodes
           /\ list["msg"] = <<>> /\ list \in [Lists -> Seq(Nodes)]
<1>1. PICK q : q = readyQ
    OBVIOUS
<1>2. q \in [1..Cardinality(Tasks) -> Tasks] /\ Elements(q) = Tasks
    BY <1>1 DEF Init
<1>3. IsQueue(q, Tasks) /\ q # <<>> /\ Head(q) \in Tasks
    BY <1>2, AllOnce, MsgQAssumption
<1>4. PICK free \in [1..Cardinality(Nodes) -> Nodes] :
          /\ Elements(free) = Nodes
          /\ list = [r \in Lists |-> IF r = "free" THEN free ELSE <<>>]
    BY DEF Init
<1>5. IsQueue(free, Nodes)
    BY <1>4, AllOnce, MsgQAssumption
<1>6. list["free"] = free /\ list["msg"] = <<>>
    BY <1>4 DEF Lists
<1>7. list \in [Lists -> Seq(Nodes)]
    BY <1>4, <1>5 DEF IsQueue
<1> QED BY <1>1, <1>2, <1>3, <1>4, <1>5, <1>6, <1>7

\* The kernel at the start.
LEMMA InitKernel == ASSUME Init PROVE KernelOK
<1>1. MaxTimeout \in Nat /\ InitialPriority \in [Tasks -> Priorities] /\ Priorities \subseteq Nat
    BY VmxLibAssumption, MsgQAssumption
<1>2. KernTypes
  <2>1. readyQ \in Seq(Tasks) /\ tickQ \in Seq(Tasks)
    <3>1. readyQ \in Seq(Tasks)
        BY InitLists DEF IsQueue
    <3>2. tickQ = <<>>
        BY DEF Init
    <3> QED BY <3>1, <3>2
  <2>2. pendQ \in [PendQs -> Seq(Tasks)]
      BY DEF Init
  <2>3. /\ status \in [Tasks -> SUBSET Flags] /\ retVal \in [Tasks -> {"OK", "ERROR"}]
        /\ priority \in [Tasks -> Priorities] /\ left \in [Tasks -> 0..MaxTimeout]
      BY <1>1 DEF Init
  <2> QED BY <2>1, <2>2, <2>3 DEF KernTypes
<1>3. SchedTypes
  <2>1. kernelIsIdle \in BOOLEAN /\ intr \in BOOLEAN /\ intOff \in BOOLEAN
      BY DEF Init
  <2>2. taskIdCurrent \in Tasks
      BY InitLists DEF Init
  <2>4. todo \in Seq(TodoItems) /\ kpc \in KernelStates
      BY DEF Init, KernelStates
  <2>3. /\ savedIntOff \in [Tasks -> BOOLEAN]
        /\ lockCount \in [Tasks -> Nat] /\ timeSlice \in [Tasks -> Nat]
      BY DEF Init
  <2> QED BY <2>1, <2>2, <2>3, <2>4 DEF SchedTypes
<1>4. KernInv
  <2>1. ReadyOK
      BY <1>1, InitLists DEF Init, ReadyOK, Ready
  <2>2. TickOK
      BY DEF Init, TickOK, IsQueue, QSorted, Elements
  <2>3. PendOK
      BY DEF Init, PendOK, IsQueue, QSorted, Elements
  <2> QED BY <2>1, <2>2, <2>3 DEF KernInv
<1>5. SchedBase /\ CurrentReady
    BY InitLists DEF Init, SchedBase, CurrentReady, Ready
<1> QED BY <1>2, <1>3, <1>4, <1>5 DEF KernelOK

\* A message queue nobody has used.
LEMMA InitKept == Init => MsgQInv
<1> SUFFICES ASSUME Init PROVE MsgQInv
    OBVIOUS
<1>1. /\ call = [t \in Tasks |-> NoCall] /\ lockCount = [t \in Tasks |-> 0]
      /\ gathered = {} /\ data = [n \in Nodes |-> NULL] /\ valid = TRUE
      /\ pendQ = [q \in PendQs |-> <<>>] /\ workQ = <<>>
    BY DEF Init
<1>2. NoCall \in Calls /\ NoCall.op = "none" /\ NoCall.at = "out" /\ NoCall.node = NULL
    BY VmxLibAssumption DEF NoCall, Calls, WAIT_FOREVER
<1>3. MsgQTypeOK
    BY <1>1, <1>2, InitLists DEF MsgQTypeOK
<1>4. CallsOK
    BY <1>1, <1>2 DEF CallsOK, CallOK, Busy
<1>5. HolderOK
    BY <1>1, <1>2 DEF HolderOK, Busy
<1>6. WaitersOK
    BY <1>1 DEF WaitersOK, Elements
<1>7. NodesOK
  <2>1. Free = Nodes /\ Sent = {}
      BY InitLists DEF Free, Sent, Elements
  <2>2. \A q \in Lists : IsQueue(list[q], Nodes)
      BY InitLists DEF Lists, IsQueue
  <2> QED BY <1>1, <1>2, <2>1, <2>2, MsgQAssumption DEF NodesOK
<1>8. DataOK
  <2>1. Sent = {}
      BY InitLists DEF Sent, Elements
  <2> QED BY <1>1, <1>2, <2>1 DEF DataOK, DataOf
<1>9. NobodyForgotten
    BY <1>1, ListsPend DEF NobodyForgotten
<1> QED BY <1>3, <1>4, <1>5, <1>6, <1>7, <1>8, <1>9, InitKernel DEF MsgQInv

\* A step of a task.
LEMMA TaskKept == ASSUME MsgQInv, NEW t \in Tasks, TaskStep(t) PROVE MsgQInv'
<1>1. CASE GetNone(t)
    BY <1>1, GetNothingKept, GetWaitsKept
<1> QED
  BY <1>1, StartsKept, GetNodeKept, GetGoesOnKept, CopyKept, PutKept, UnlockKept, ExitKept,
     DeleteStartsKept, GatherKept, DeleteEndsKept DEF TaskStep

\* A step of the kernel or of a handler.
LEMMA OthersKept ==
    ASSUME MsgQInv, (SchedStep /\ UNCHANGED msgQVars) \/ RunJob \/ Handler PROVE MsgQInv'
<1>1. CASE RunJob
    BY <1>1, WakeJobKept, TickJobKept
<1>2. CASE Handler
    BY <1>2, IntEntKept, IntExitKept, HandlerSendsKept, HandlerSendsLaterKept, TickKept
       DEF Handler
<1> QED BY <1>1, <1>2, SchedKept

\* Every step keeps the invariant.
LEMMA NextKept == MsgQInv /\ [Next]_vars => MsgQInv'
BY StutterKept, TaskKept, OthersKept DEF Next

\* In every state the calls, the nodes and the queues of the kernel fit
\* together.
THEOREM MsgQInductive == Spec => []MsgQInv
BY InitKept, NextKept, PTL DEF Spec
-----------------------------------------------------------------------------
(***************************************************************************)
(* What it means for the nodes and for those who wait.                     *)
(***************************************************************************)
\* One task at a time works on a node.
LEMMA OneHolder ==
    ASSUME MsgQInv, NEW n \in Nodes, NEW t \in Tasks, call[t].node = n
    PROVE  {u \in Tasks : call[u].node = n} = {t}
<1>1. ASSUME NEW u \in Tasks, call[u].node = n PROVE u = taskIdCurrent
    BY <1>1, MsgQAssumption DEF MsgQInv, NodesOK, HolderOK, Busy
<1> QED BY <1>1

\* No node is lost or in two places (msgQSend, msgQReceive and msgQDestroy).
LEMMA Conserved == MsgQInv => NodesConserved
<1> SUFFICES ASSUME MsgQInv, NEW n \in Nodes
             PROVE  Cardinality({q \in Lists : n \in Elements(list[q])})
                      + Cardinality({t \in Tasks : call[t].node = n})
                      + (IF n \in gathered THEN 1 ELSE 0) = 1
    BY DEF NodesConserved
<1> DEFINE A == {q \in Lists : n \in Elements(list[q])}
           B == {t \in Tasks : call[t].node = n}
<1>1. NodesOK
    BY DEF MsgQInv
<1>2. Cardinality({}) = 0 /\ \A x : Cardinality({x}) = 1
    BY FS_EmptySet, FS_Singleton
<1>3. CASE n \in Free
  <2>1. A = {"free"} /\ B = {} /\ n \notin gathered
      BY <1>1, <1>3 DEF NodesOK, Free, Sent, Lists
  <2>2. Cardinality(A) = 1 /\ Cardinality(B) = 0
      BY <1>2, <2>1
  <2> QED BY <2>1, <2>2
<1>4. CASE n \in Sent
  <2>1. A = {"msg"} /\ B = {} /\ n \notin gathered
      BY <1>1, <1>4 DEF NodesOK, Free, Sent, Lists
  <2>2. Cardinality(A) = 1 /\ Cardinality(B) = 0
      BY <1>2, <2>1
  <2> QED BY <2>1, <2>2
<1>5. CASE n \in gathered
  <2>1. A = {} /\ B = {}
      BY <1>1, <1>5 DEF NodesOK, Free, Sent, Lists
  <2>2. Cardinality(A) = 0 /\ Cardinality(B) = 0
      BY <1>2, <2>1
  <2> QED BY <1>5, <2>2
<1>6. CASE n \notin Free \cup Sent \cup gathered
  <2>1. PICK t \in Tasks : call[t].node = n
      BY <1>1, <1>6 DEF NodesOK
  <2>2. A = {} /\ B = {t}
      BY <1>6, <2>1, OneHolder DEF Free, Sent, Lists
  <2>3. Cardinality(A) = 0 /\ Cardinality(B) = 1
      BY <1>2, <2>2
  <2> QED BY <1>6, <2>3
<1> QED BY <1>3, <1>4, <1>5, <1>6

\* The nodes stay where the calls in progress expect them, for any number of
\* tasks, nodes and messages.
THEOREM NodesSafe == Spec => []Consistent
<1>1. MsgQInv => Consistent
    BY Conserved DEF MsgQInv, Consistent
<1> QED BY <1>1, MsgQInductive, PTL

\* qMsgGet and qMsgPut: no task waits for a node for good next to nodes.
THEOREM NodesNotMissed == Spec => []NobodyForgotten
<1>1. MsgQInv => NobodyForgotten
    BY DEF MsgQInv
<1> QED BY <1>1, MsgQInductive, PTL

\* msgQDestroy has all nodes when both lists are empty: it never waits.
THEOREM GathersAll == Spec => []GatherComplete
<1>1. MsgQInv => GatherComplete
  <2> SUFFICES ASSUME MsgQInv, NEW t \in Tasks, call[t].at = "gather",
                      list["free"] = <<>>, list["msg"] = <<>>
               PROVE  gathered = Nodes
      BY DEF GatherComplete
  <2>1. ~valid
      BY DEF MsgQInv, CallsOK, CallOK
  <2>2. \A u \in Tasks : call[u].node = NULL
      BY <2>1 DEF MsgQInv, CallsOK, CallOK, NodesOK
  <2>3. Free = {} /\ Sent = {}
      BY DEF Free, Sent, Elements
  <2>4. Nodes \subseteq gathered
      BY <2>2, <2>3, MsgQAssumption DEF MsgQInv, NodesOK
  <2> QED BY <2>4 DEF MsgQInv, MsgQTypeOK
<1> QED BY <1>1, MsgQInductive, PTL
-----------------------------------------------------------------------------
(***************************************************************************)
(* The messages: what the nodes of a list hold.                            *)
(***************************************************************************)
Contents(s, d) == [i \in DOMAIN s |-> d[s[i]]]

\* The messages of the nodes in s.
LEMMA ContentsType ==
    ASSUME NEW N, NEW M, NEW s \in Seq(N), NEW d, \A x \in Elements(s) : d[x] \in M
    PROVE  /\ Contents(s, d) \in Seq(M) /\ Len(Contents(s, d)) = Len(s)
           /\ \A i \in 1..Len(s) : Contents(s, d)[i] = d[s[i]]
<1>1. PICK n \in Nat : n = Len(s) /\ DOMAIN s = 1..n
    OBVIOUS
<1>2. \A i \in 1..n : d[s[i]] \in M
    BY <1>1 DEF Elements
<1>3. PICK c : c = [i \in 1..n |-> d[s[i]]]
    OBVIOUS
<1>4. c \in Seq(M) /\ Len(c) = n /\ \A i \in 1..n : c[i] = d[s[i]]
    BY <1>2, <1>3
<1>5. c = Contents(s, d)
    BY <1>1, <1>3 DEF Contents
<1> QED BY <1>1, <1>4, <1>5

\* There are as many messages as nodes.
LEMMA ContentsLen ==
    ASSUME NEW N, NEW s \in Seq(N), NEW d PROVE Len(Contents(s, d)) = Len(s)
<1>1. PICK M : M = {d[x] : x \in Elements(s)}
    OBVIOUS
<1>2. \A x \in Elements(s) : d[x] \in M
    BY <1>1
<1>3. Contents(s, d) \in Seq(M) /\ Len(Contents(s, d)) = Len(s)
    BY <1>2, ContentsType
<1> QED BY <1>3

\* They depend on what these nodes hold only.
LEMMA ContentsSame ==
    ASSUME NEW s, NEW d, NEW e, \A x \in Elements(s) : e[x] = d[x]
    PROVE  Contents(s, e) = Contents(s, d)
BY DEF Contents, Elements

\* The first node leaves the list.
LEMMA ContentsTail ==
    ASSUME NEW N, NEW s \in Seq(N), NEW d, s # <<>>
    PROVE  /\ Contents(s, d) # <<>> /\ Head(Contents(s, d)) = d[Head(s)]
           /\ Contents(Tail(s), d) = Tail(Contents(s, d))
<1>0. PICK M : \A x \in Elements(s) : d[x] \in M
  <2>1. \A x \in Elements(s) : d[x] \in {d[y] : y \in Elements(s)}
      OBVIOUS
  <2> QED BY <2>1
<1>1. PICK c, r : c = Contents(s, d) /\ r = Tail(s)
    OBVIOUS
<1>2. c \in Seq(M) /\ Len(c) = Len(s) /\ \A i \in 1..Len(s) : c[i] = d[s[i]]
    BY <1>0, <1>1, ContentsType
<1>3. /\ r \in Seq(N) /\ Len(r) = Len(s) - 1 /\ Len(s) \in Nat /\ Len(s) > 0
      /\ \A i \in 1..(Len(s) - 1) : r[i] = s[i + 1]
    BY <1>1, HeadTailProperties
<1>4. \A x \in Elements(r) : d[x] \in M
    BY <1>0, <1>3 DEF Elements
<1>5. PICK e : e = Contents(r, d)
    OBVIOUS
<1>6. e \in Seq(M) /\ Len(e) = Len(s) - 1 /\ \A i \in 1..(Len(s) - 1) : e[i] = d[s[i + 1]]
    BY <1>3, <1>4, <1>5, ContentsType
<1>7. c # <<>> /\ Head(c) = d[Head(s)]
    BY <1>2, <1>3
<1>8. PICK f : f = Tail(c)
    OBVIOUS
<1>9. f \in Seq(M) /\ Len(f) = Len(s) - 1 /\ \A i \in 1..(Len(s) - 1) : f[i] = d[s[i + 1]]
    BY <1>2, <1>3, <1>7, <1>8, HeadTailProperties
<1>10. e = f
    BY <1>6, <1>9, SeqEqual
<1> QED BY <1>1, <1>5, <1>7, <1>8, <1>10

-----------------------------------------------------------------------------
(***************************************************************************)
(* MsgQ implements MsgQueue.                                               *)
(***************************************************************************)
\* The messages that wait, and the message each task has got.
Waiting == Contents(list["msg"], data)
GotBy(t) == IF call[t].op # "receive" THEN NULL
            ELSE IF call[t].at = "copy" THEN data[call[t].node]
            ELSE call[t].val
Got == [t \in Tasks |-> GotBy(t)]

\* The steps of MsgQueue, in these words.
SendStep(m) ==
    /\ valid /\ Len(Waiting) < Cardinality(Nodes)
    /\ Waiting' = IF m.urgent THEN <<m>> \o Waiting ELSE Append(Waiting, m)
    /\ UNCHANGED <<Got, valid>>

ReceiveStep(t) ==
    /\ valid /\ Waiting # <<>> /\ Got[t] = NULL
    /\ Got' = [Got EXCEPT ![t] = Head(Waiting)]
    /\ Waiting' = Tail(Waiting)
    /\ UNCHANGED valid

ReturnStep(t) ==
    /\ Got' = [Got EXCEPT ![t] = NULL]
    /\ UNCHANGED <<Waiting, valid>>

DeleteStep  == valid /\ valid' = FALSE /\ UNCHANGED <<Waiting, Got>>
DiscardStep ==
    ~valid /\ Waiting # <<>> /\ Waiting' = Tail(Waiting) /\ UNCHANGED <<Got, valid>>

\* Nothing that MsgQueue speaks of changes.
Unseen == UNCHANGED <<Waiting, Got, valid>>

PromiseStep ==
    \/ \E m \in Messages : SendStep(m)
    \/ \E t \in Tasks : ReceiveStep(t) \/ ReturnStep(t)
    \/ DeleteStep \/ DiscardStep
    \/ Unseen

\* They are those of MsgQueue.
LEMMA PromiseWords == PromiseStep => [Promise!MsgNext]_(Promise!msgVars)
<1> SUFFICES ASSUME PromiseStep PROVE Promise!MsgNext \/ UNCHANGED Promise!msgVars
    OBVIOUS
<1>1. ASSUME NEW m \in Messages, SendStep(m) PROVE Promise!MsgNext
  <2>1. Promise!Send(m)
      BY <1>1 DEF SendStep, Promise!Send, Waiting, Contents, Got, GotBy
  <2> QED BY <2>1 DEF Promise!MsgNext
<1>2. ASSUME NEW t \in Tasks, ReceiveStep(t) PROVE Promise!MsgNext
  <2>1. Promise!Receive(t)
      BY <1>2 DEF ReceiveStep, Promise!Receive, Waiting, Contents, Got, GotBy
  <2> QED BY <2>1 DEF Promise!MsgNext
<1>3. ASSUME NEW t \in Tasks, ReturnStep(t) PROVE Promise!MsgNext
  <2>1. Promise!Return(t)
      BY <1>3 DEF ReturnStep, Promise!Return, Waiting, Contents, Got, GotBy
  <2> QED BY <2>1 DEF Promise!MsgNext
<1>4. CASE DeleteStep
  <2>1. Promise!Delete
      BY <1>4 DEF DeleteStep, Promise!Delete, Waiting, Contents, Got, GotBy
  <2> QED BY <2>1 DEF Promise!MsgNext
<1>5. CASE DiscardStep
  <2>1. Promise!Discard
      BY <1>5 DEF DiscardStep, Promise!Discard, Waiting, Contents, Got, GotBy
  <2> QED BY <2>1 DEF Promise!MsgNext
<1>6. CASE Unseen
  <2>1. UNCHANGED Promise!msgVars
      BY <1>6 DEF Unseen, Promise!msgVars, Waiting, Contents, Got, GotBy
  <2> QED BY <2>1
<1> QED BY <1>1, <1>2, <1>3, <1>4, <1>5, <1>6 DEF PromiseStep

\* At the start no message waits and nobody has one.
LEMMA PromiseInit == Init => Promise!MsgInit
<1> SUFFICES ASSUME Init PROVE Promise!MsgInit
    OBVIOUS
<1>1. Waiting = <<>>
  <2>1. list["msg"] = <<>>
      BY InitLists
  <2>2. PICK s : s = list["msg"]
      OBVIOUS
  <2>3. Contents(s, data) = <<>>
      BY <2>1, <2>2 DEF Contents
  <2> QED BY <2>2, <2>3 DEF Waiting
<1>2. Got = [t \in Tasks |-> NULL]
    BY DEF Init, NoCall, Got, GotBy
<1>3. valid = TRUE
    BY DEF Init
<1> QED BY <1>1, <1>2, <1>3 DEF Promise!MsgInit, Waiting, Contents, Got, GotBy
\* What the others have got, if the nodes they read stay as they are.
LEMMA OthersGot ==
    ASSUME MsgQInv, NEW t \in Tasks, OneCall(t),
           \A u \in Tasks \ {t} : call[u].at = "copy" =>
              data'[call[u].node] = data[call[u].node]
    PROVE  /\ GotBy(t)' = GotBy(t) => Got' = Got
           /\ Got' = [Got EXCEPT ![t] = GotBy(t)']
<1>1. \A u \in Tasks \ {t} : GotBy(u)' = GotBy(u)
    BY DEF OneCall, GotBy
<1>2. GotBy(t)' = GotBy(t) => Got' = Got
    BY <1>1 DEF Got
<1>3. Got' = [Got EXCEPT ![t] = GotBy(t)']
    BY <1>1 DEF Got
<1> QED BY <1>2, <1>3

\* While t executes its own code nobody else reads a node.
LEMMA NobodyReads ==
    ASSUME MsgQInv, NEW t \in Tasks, Running(t)
    PROVE  \A u \in Tasks \ {t} : call[u].at # "copy"
BY Alone DEF MsgQInv, Busy

\* A call that neither reads a node nor has read it has got nothing.
LEMMA GotNothing ==
    ASSUME MsgQInv, NEW t \in Tasks, call[t].at \notin {"copy", "put"}
    PROVE  GotBy(t) = NULL
BY DEF MsgQInv, DataOK, DataOf, GotBy

\* The same of the next state.
LEMMA GotNothingNext ==
    ASSUME MsgQInv', NEW t \in Tasks, call'[t].at \notin {"copy", "put"}
    PROVE  GotBy(t)' = NULL
BY DEF MsgQInv, DataOK, DataOf, GotBy

\* A step of a call far from the nodes.
LEMMA QuietStep ==
    ASSUME MsgQInv, MsgQInv', NEW t \in Tasks, OneCall(t), UNCHANGED <<list, data>>,
           call[t].at \notin {"copy", "put"}, call'[t].at \notin {"copy", "put"}
    PROVE  Waiting' = Waiting /\ Got' = Got
<1>1. GotBy(t)' = GotBy(t)
    BY GotNothing, GotNothingNext
<1>2. Got' = Got
    BY <1>1, OthersGot
<1> QED BY <1>2 DEF Waiting

\* The nodes that hold messages.
LEMMA SentNodes ==
    ASSUME MsgQInv
    PROVE  /\ list["msg"] \in Seq(Nodes) /\ \A n \in Sent : data[n] \in Messages
           /\ Sent = Elements(list["msg"]) /\ Sent \subseteq Nodes
           /\ Len(Waiting) = Len(list["msg"])
<1>1. list["msg"] \in Seq(Nodes) /\ (\A n \in Sent : data[n] \in Messages)
    BY DEF MsgQInv, MsgQTypeOK, Lists, DataOK
<1>2. PICK s \in Seq(Nodes) : s = list["msg"]
    BY <1>1
<1>3. Sent = Elements(s) /\ Elements(s) \subseteq Nodes
    BY <1>2, QueueElements DEF Sent
<1>4. Len(Contents(s, data)) = Len(s)
    BY ContentsLen
<1> QED BY <1>1, <1>2, <1>3, <1>4 DEF Waiting

\* A node n that holds message m becomes the last or the first of the list.
LEMMA MessageEnters ==
    ASSUME MsgQInv, valid, NEW n \in Nodes, n \notin Sent, NEW m \in Messages,
           list'["msg"] = Inserted("msg", n, m.urgent),
           data'[n] = m, \A x \in Nodes \ {n} : data'[x] = data[x],
           UNCHANGED <<Got, valid>>
    PROVE  SendStep(m)
<1>1. PICK s \in Seq(Nodes) : s = list["msg"] /\ Sent = Elements(s)
    BY SentNodes
<1>2. \A x \in Elements(s) : data[x] \in Messages /\ x \in Nodes \ {n}
    BY <1>1, SentNodes
<1>3. Len(Waiting) < Cardinality(Nodes)
  <2>1. IsFiniteSet(Nodes) /\ Cardinality(Nodes) \in Nat
      BY MsgQAssumption, FS_CardinalityType
  <2>2. IsFiniteSet(Nodes \ {n}) /\ Cardinality(Nodes \ {n}) = Cardinality(Nodes) - 1
      BY <2>1, FS_RemoveElement
  <2>3. IsQueue(s, Nodes)
      BY <1>1 DEF MsgQInv, NodesOK, Lists
  <2>4. Cardinality(Elements(s)) = Len(s) /\ Elements(s) \in SUBSET (Nodes \ {n})
      BY <1>2, <2>3, QueueSize
  <2>5. Cardinality(Elements(s)) <= Cardinality(Nodes \ {n})
      BY <2>2, <2>4, FS_Subset
  <2>6. Len(Waiting) = Len(s) /\ Len(s) \in Nat
      BY <1>1, SentNodes
  <2> QED BY <2>1, <2>2, <2>4, <2>5, <2>6
<1>4. PICK d, e : d = data /\ e = data'
    OBVIOUS
<1>5. \A x \in Elements(s) : d[x] \in Messages /\ e[x] = d[x]
    BY <1>2, <1>4
<1>6. PICK c \in Seq(Messages) : c = Contents(s, d) /\ Len(c) = Len(s)
    BY <1>5, ContentsType
<1>7. PICK r, g : /\ r = Inserted("msg", n, m.urgent)
                  /\ g = IF m.urgent THEN <<m>> \o c ELSE Append(c, m)
    OBVIOUS
<1>8. PICK i : InsertedAt(r, s, i, n, Nodes) /\ InsertedAt(g, c, i, m, Messages)
  <2>1. CASE m.urgent
    <3>1. r = <<n>> \o s /\ g = <<m>> \o c
        BY <1>1, <1>7, <2>1 DEF Inserted
    <3> QED BY <3>1, PushQueue
  <2>2. CASE ~m.urgent
    <3>1. r = Append(s, n) /\ g = Append(c, m)
        BY <1>1, <1>7, <2>2 DEF Inserted
    <3>2. InsertedAt(r, s, Len(s) + 1, n, Nodes)
        BY <3>1, AppendQueue
    <3>3. InsertedAt(g, c, Len(s) + 1, m, Messages)
        BY <1>6, <3>1, AppendQueue
    <3> QED BY <3>2, <3>3
  <2> QED BY <2>1, <2>2
<1>9. Contents(r, e) = g
  <2>1. PICK k \in Nat : k = Len(s) /\ DOMAIN s = 1..k
      BY <1>1
  <2>2. Len(c) = k /\ \A j \in 1..k : c[j] = d[s[j]]
      BY <1>6, <2>1 DEF Contents
  <2>3. \A j \in 1..k : e[s[j]] = c[j]
      BY <1>5, <2>1, <2>2 DEF Elements
  <2>4. r \in Seq(Nodes) /\ Len(r) = k + 1 /\ g \in Seq(Messages) /\ Len(g) = k + 1
      BY <1>8, <2>1, <2>2 DEF InsertedAt
  <2>5. i \in 1..(k + 1) /\ \A j \in 1..(k + 1) :
          /\ r[j] = IF j < i THEN s[j] ELSE IF j = i THEN n ELSE s[j - 1]
          /\ g[j] = IF j < i THEN c[j] ELSE IF j = i THEN m ELSE c[j - 1]
      BY <1>8, <2>1, <2>2 DEF InsertedAt
  <2>6. ASSUME NEW j \in 1..(k + 1) PROVE e[r[j]] = g[j]
    <3>1. CASE j < i
        BY <2>3, <2>5, <3>1
    <3>2. CASE j = i
        BY <1>4, <2>5, <3>2
    <3>3. CASE j > i
      <4>1. j - 1 \in 1..k /\ r[j] = s[j - 1] /\ g[j] = c[j - 1]
          BY <2>5, <3>3
      <4> QED BY <2>3, <4>1
    <3> QED BY <2>5, <3>1, <3>2, <3>3
  <2>7. DOMAIN r = 1..(k + 1) /\ g = [j \in 1..(k + 1) |-> g[j]]
      BY <2>4
  <2>8. Contents(r, e) = [j \in 1..(k + 1) |-> e[r[j]]]
      BY <2>7 DEF Contents
  <2> QED BY <2>6, <2>7, <2>8
<1>10. Waiting' = IF m.urgent THEN <<m>> \o Waiting ELSE Append(Waiting, m)
    BY <1>1, <1>4, <1>6, <1>7, <1>9 DEF Waiting
<1> QED BY <1>3, <1>10 DEF SendStep

\* The first message leaves the list.
LEMMA MessageLeaves ==
    ASSUME MsgQInv, list["msg"] # <<>>, list'["msg"] = Tail(list["msg"]), data' = data
    PROVE  /\ Waiting # <<>> /\ Head(Waiting) = data[Head(list["msg"])]
           /\ Waiting' = Tail(Waiting)
<1>1. PICK s \in Seq(Nodes) : s = list["msg"] /\ Sent = Elements(s)
    BY SentNodes
<1>2. /\ Contents(s, data) # <<>> /\ Head(Contents(s, data)) = data[Head(s)]
      /\ Contents(Tail(s), data) = Tail(Contents(s, data))
    BY <1>1, ContentsTail
<1> QED BY <1>1, <1>2 DEF Waiting

\* qMsgGet of a receiver takes the first message, that of a sender none.
LEMMA GetNodePromise ==
    ASSUME MsgQInv, MsgQInv', NEW t \in Tasks, GetNode(t)
    PROVE  PromiseStep
<1>1. PICK q \in Lists : q = From(t)
    BY DEF From, Lists
<1>2. PICK n : n = Head(list[q])
    OBVIOUS
<1>3. /\ Running(t) /\ call[t].at = "get" /\ list[q] # <<>>
      /\ list' = [list EXCEPT ![q] = Tail(@)] /\ UNCHANGED <<valid, data>>
    BY <1>1 DEF GetNode, At
<1>4. call' \in [Tasks -> Calls] /\ OneCall(t) /\ call'[t].at = "copy"
      /\ call'[t].op = call[t].op /\ call'[t].node = n
  <2>1. PICK d, c : /\ d \in Calls /\ d = call[t]
                    /\ c = [d EXCEPT !.at = "copy", !.timeout = 0, !.node = n]
      BY DEF MsgQInv, MsgQTypeOK
  <2>2. c.at = "copy" /\ c.op = d.op /\ c.node = n
      BY <2>1 DEF Calls
  <2>3. call' = [call EXCEPT ![t] = c]
      BY <1>1, <1>2, <2>1 DEF GetNode, MsgQInv, MsgQTypeOK, Calls
  <2> QED BY <2>1, <2>2, <2>3 DEF MsgQInv, MsgQTypeOK, OneCall
<1>5. valid /\ call[t].op \in {"send", "receive"}
    BY <1>3 DEF MsgQInv, CallsOK, CallOK
<1>6. /\ list \in [Lists -> Seq(Nodes)] /\ "msg" \in Lists
    BY DEF MsgQInv, MsgQTypeOK, Lists
<1>7. CASE call[t].op = "send"
  <2>1. q = "free" /\ list'["msg"] = list["msg"]
      BY <1>1, <1>3, <1>6, <1>7 DEF From
  <2>2. GotBy(t)' = GotBy(t)
      BY <1>4, <1>7 DEF GotBy
  <2>3. Got' = Got
      BY <1>3, <1>4, <2>2, OthersGot
  <2> QED BY <1>3, <2>1, <2>3 DEF PromiseStep, Unseen, Waiting
<1>8. CASE call[t].op = "receive"
  <2>1. q = "msg" /\ list'["msg"] = Tail(list["msg"])
      BY <1>1, <1>3, <1>6, <1>8 DEF From
  <2>2. /\ Waiting # <<>> /\ Head(Waiting) = data[n] /\ Waiting' = Tail(Waiting)
      BY <1>2, <1>3, <2>1, MessageLeaves
  <2>3. Got[t] = NULL
      BY <1>3, GotNothing DEF Got
  <2>4. GotBy(t)' = data[n]
      BY <1>3, <1>4, <1>8 DEF GotBy
  <2>5. Got' = [Got EXCEPT ![t] = data[n]]
      BY <1>3, <1>4, <2>4, OthersGot
  <2>6. ReceiveStep(t)
      BY <1>3, <1>5, <2>2, <2>3, <2>5 DEF ReceiveStep
  <2> QED BY <2>6 DEF PromiseStep
<1> QED BY <1>5, <1>7, <1>8
\* The list of messages stays, and so does what its nodes hold.
LEMMA SameWaiting ==
    ASSUME MsgQInv, list'["msg"] = list["msg"], \A n \in Sent : data'[n] = data[n]
    PROVE  Waiting' = Waiting
<1>1. PICK s, d, e : s = list["msg"] /\ d = data /\ e = data'
    OBVIOUS
<1>2. \A n \in Elements(s) : e[n] = d[n]
    BY <1>1 DEF Sent
<1>3. Contents(s, e) = Contents(s, d)
    BY <1>2, ContentsSame
<1> QED BY <1>1, <1>3 DEF Waiting

\* The copy is seen by nobody: what is read was got before.
LEMMA CopyPromise ==
    ASSUME MsgQInv, MsgQInv', NEW t \in Tasks, Copy(t)
    PROVE  Unseen
<1>1. PICK n : n = call[t].node
    OBVIOUS
<1>2. /\ Running(t) /\ call[t].at = "copy" /\ UNCHANGED <<valid, list>>
      /\ call[t].op \in {"send", "receive"}
    BY DEF Copy, At, MsgQInv, CallsOK, CallOK
<1>3. n \in Nodes /\ n \notin Sent /\ Sent \subseteq Nodes
    BY <1>1, <1>2, SentNodes DEF MsgQInv, NodesOK, MsgQTypeOK, Calls
<1>4. /\ OneCall(t) /\ GotBy(t)' = GotBy(t)
      /\ \A m \in Nodes : m # n => data'[m] = data[m]
  <2>1. CASE call[t].op = "send"
    <3>1. PICK d, c : /\ d \in Calls /\ d = call[t]
                      /\ c = [d EXCEPT !.at = "put", !.val = NULL]
        BY DEF MsgQInv, MsgQTypeOK
    <3>2. c.op = "send"
        BY <2>1, <3>1 DEF Calls
    <3>3. call' = [call EXCEPT ![t] = c]
        BY <2>1, <3>1 DEF Copy, MsgQInv, MsgQTypeOK, Calls
    <3>4. data' = [data EXCEPT ![n] = call[t].val]
        BY <1>1, <2>1 DEF Copy
    <3>5. OneCall(t) /\ call'[t].op = "send"
        BY <3>2, <3>3 DEF MsgQInv, MsgQTypeOK, OneCall
    <3> QED BY <2>1, <3>4, <3>5 DEF MsgQInv, MsgQTypeOK, GotBy
  <2>2. CASE call[t].op = "receive"
    <3>1. PICK d, c : /\ d \in Calls /\ d = call[t]
                      /\ c = [d EXCEPT !.at = "put", !.val = data[n]]
        BY DEF MsgQInv, MsgQTypeOK
    <3>2. c.op = "receive" /\ c.at = "put" /\ c.val = data[n]
        BY <2>2, <3>1 DEF Calls
    <3>3. call' = [call EXCEPT ![t] = c]
        BY <1>1, <2>2, <3>1 DEF Copy, MsgQInv, MsgQTypeOK, Calls
    <3>4. data' = [data EXCEPT ![n] = NULL]
        BY <1>1, <2>2 DEF Copy
    <3>5. OneCall(t) /\ call'[t] = c
        BY <3>3 DEF MsgQInv, MsgQTypeOK, OneCall
    <3> QED BY <1>1, <1>2, <2>2, <3>2, <3>4, <3>5 DEF MsgQInv, MsgQTypeOK, GotBy
  <2> QED BY <1>2, <2>1, <2>2
<1>5. Got' = Got
    BY <1>2, <1>4, NobodyReads, OthersGot
<1>6. Waiting' = Waiting
    BY <1>2, <1>3, <1>4, SameWaiting
<1> QED BY <1>2, <1>5, <1>6 DEF Unseen

\* qMsgPut: a sender's message enters the queue, a receiver gives its node
\* back.
LEMMA PutPromise ==
    ASSUME MsgQInv, MsgQInv', NEW t \in Tasks, Put(t)
    PROVE  PromiseStep
<1>0. PICK q \in Lists : q = To(t)
    BY DEF To, Lists
<1>1. PICK n, h : /\ q = To(t) /\ n = call[t].node
                  /\ h = (call[t].op = "receive" \/ data[n].urgent)
    BY <1>0
<1>2. /\ Running(t) /\ call[t].at = "put" /\ list' = [list EXCEPT ![q] = Inserted(q, n, h)]
      /\ Leave(t) /\ UNCHANGED <<valid, data>>
    BY <1>1 DEF Put, At
<1>3. OneCall(t) /\ call'[t].at = "unlock"
    BY <1>2, LeaveCall DEF MsgQInv
<1>4. n \in Nodes /\ n \notin Sent
    BY <1>1, <1>2 DEF MsgQInv, NodesOK, MsgQTypeOK, Calls
<1>5. valid /\ call[t].op \in {"send", "receive"}
    BY <1>2 DEF MsgQInv, CallsOK, CallOK
<1>6. list \in [Lists -> Seq(Nodes)] /\ "msg" \in Lists
    BY DEF MsgQInv, MsgQTypeOK, Lists
<1>7. GotBy(t)' = NULL
    BY <1>3, GotNothingNext
<1>8. CASE call[t].op = "send"
  <2>1. PICK m : m = data[n]
      OBVIOUS
  <2>2. m \in Messages
      BY <1>1, <1>2, <1>8, <2>1 DEF MsgQInv, DataOK, DataOf
  <2>3. m.urgent \in BOOLEAN
      BY <2>2 DEF Messages
  <2>4. h = m.urgent
      BY <1>1, <1>8, <2>1, <2>3
  <2>5. list'["msg"] = Inserted("msg", n, m.urgent)
      BY <1>1, <1>2, <1>6, <1>8, <2>4 DEF To
  <2>6. GotBy(t) = NULL
      BY <1>8 DEF GotBy
  <2>7. Got' = Got
      BY <1>2, <1>3, <1>7, <2>6, OthersGot
  <2>8. data'[n] = m /\ \A x \in Nodes \ {n} : data'[x] = data[x]
      BY <1>2, <2>1
  <2>9. SendStep(m)
      BY <1>2, <1>4, <1>5, <2>2, <2>5, <2>7, <2>8, MessageEnters
  <2> QED BY <2>2, <2>9 DEF PromiseStep
<1>9. CASE call[t].op = "receive"
  <2>1. list'["msg"] = list["msg"]
      BY <1>1, <1>2, <1>6, <1>9 DEF To
  <2>2. Waiting' = Waiting
      BY <1>2, <2>1, SameWaiting
  <2>3. Got' = [Got EXCEPT ![t] = NULL]
      BY <1>2, <1>3, <1>7, OthersGot
  <2> QED BY <1>2, <2>2, <2>3 DEF PromiseStep, ReturnStep
<1> QED BY <1>5, <1>8, <1>9

\* The other steps of a call but those of msgQDestroy.
LEMMA CallPromise ==
    ASSUME MsgQInv, MsgQInv', NEW t \in Tasks,
           SendOrReceive(t) \/ GetNone(t) \/ GetGoesOn(t) \/ Unlock(t) \/ Exit(t)
           \/ DeleteEnds(t)
    PROVE  Unseen
<1>1. UNCHANGED <<valid, list, data>> /\ call[t].at \notin {"copy", "put"}
    BY DEF SendOrReceive, Starts, GetNone, GetGoesOn, Unlock, Exit, DeleteEnds, At
<1>2. OneCall(t) /\ call'[t].at \notin {"copy", "put"}
  <2>1. CASE SendOrReceive(t)
      BY <2>1, StartedCall, NewCall DEF MsgQInv
  <2>2. CASE GetNone(t)
      BY <2>2, LeaveCall, GoToCall DEF GetNone, MsgQInv
  <2>3. CASE GetGoesOn(t)
      BY <2>3, LeaveCall, GoToCall DEF GetGoesOn, MsgQInv
  <2>4. CASE Unlock(t)
      BY <2>4, GoToCall DEF Unlock, MsgQInv
  <2>5. CASE Exit(t)
    <3>1. PICK d, c : /\ d \in Calls /\ d = call[t]
                      /\ c = IF d.op = "delete"
                               THEN [d EXCEPT !.at = "gather"] ELSE NoCall
        BY DEF MsgQInv, MsgQTypeOK
    <3>2. c.at \in {"gather", "out"}
        BY <3>1 DEF Calls, NoCall
    <3>3. call' = [call EXCEPT ![t] = c]
        BY <2>5, <3>1 DEF Exit
    <3> QED BY <3>2, <3>3 DEF MsgQInv, MsgQTypeOK, OneCall
  <2>6. CASE DeleteEnds(t)
      BY <2>6 DEF DeleteEnds, NoCall, MsgQInv, MsgQTypeOK, OneCall
  <2> QED BY <2>1, <2>2, <2>3, <2>4, <2>5, <2>6
<1>3. Waiting' = Waiting /\ Got' = Got
    BY <1>1, <1>2, QuietStep
<1> QED BY <1>1, <1>3 DEF Unseen

\* msgQDestroy.
LEMMA DeletePromise ==
    ASSUME MsgQInv, MsgQInv', NEW t \in Tasks, DeleteStarts(t) \/ Gather(t)
    PROVE  PromiseStep
<1>1. CASE DeleteStarts(t)
  <2>1. /\ UNCHANGED <<list, data>> /\ call[t].at = "out" /\ valid /\ valid' = FALSE
        /\ call' = [call EXCEPT ![t] = [NoCall EXCEPT !.op = "delete", !.at = "unlock"]]
      BY <1>1 DEF DeleteStarts, Starts, At
  <2>2. OneCall(t) /\ call'[t].at = "unlock"
      BY <2>1 DEF NoCall, MsgQInv, MsgQTypeOK, OneCall
  <2>3. Waiting' = Waiting /\ Got' = Got
      BY <2>1, <2>2, QuietStep
  <2> QED BY <2>1, <2>3 DEF PromiseStep, DeleteStep
<1>2. CASE Gather(t)
  <2>1. PICK q \in Lists : q = (IF list["free"] # <<>> THEN "free" ELSE "msg")
      BY DEF Lists
  <2>2. /\ Running(t) /\ call[t].at = "gather" /\ list[q] # <<>>
        /\ list' = [list EXCEPT ![q] = Tail(@)] /\ UNCHANGED <<valid, data, call>>
      BY <1>2, <2>1 DEF Gather, At
  <2>3. ~valid
      BY <2>2 DEF MsgQInv, CallsOK, CallOK
  <2>4. Got' = Got
      BY <2>2 DEF Got, GotBy
  <2>5. list \in [Lists -> Seq(Nodes)] /\ "msg" \in Lists
      BY DEF MsgQInv, MsgQTypeOK, Lists
  <2>6. CASE q = "free"
    <3>1. Waiting' = Waiting
        BY <2>2, <2>5, <2>6, SameWaiting
    <3> QED BY <2>2, <2>4, <3>1 DEF PromiseStep, Unseen
  <2>7. CASE q = "msg"
    <3>1. Waiting # <<>> /\ Waiting' = Tail(Waiting)
        BY <2>2, <2>5, <2>7, MessageLeaves
    <3> QED BY <2>2, <2>3, <2>4, <3>1 DEF PromiseStep, DiscardStep
  <2> QED BY <2>6, <2>7 DEF Lists
<1> QED BY <1>1, <1>2

\* A handler sends.
LEMMA HandlerPromise ==
    ASSUME MsgQInv, NEW m \in Messages, HandlerMoves(m)
    PROVE  PromiseStep
<1>1. PICK n : n = Head(list["free"])
    OBVIOUS
<1>2. /\ valid /\ list["free"] # <<>> /\ data' = [data EXCEPT ![n] = m]
      /\ list' = [list EXCEPT !["free"] = Tail(@),
                              !["msg"] = Inserted("msg", n, m.urgent)]
      /\ UNCHANGED <<valid, call>>
    BY <1>1 DEF HandlerMoves
<1>3. list \in [Lists -> Seq(Nodes)] /\ "free" \in Lists /\ "msg" \in Lists
    BY DEF MsgQInv, MsgQTypeOK, Lists
<1>4. list'["msg"] = Inserted("msg", n, m.urgent)
    BY <1>2, <1>3
<1>5. PICK f : f = list["free"] /\ f \in Seq(Nodes) /\ IsQueue(f, Nodes) /\ f # <<>>
    BY <1>2, <1>3 DEF MsgQInv, NodesOK
<1>6. n \in Nodes /\ n \in Elements(f)
    BY <1>1, <1>5, TailQueue
<1>7. n \in Free /\ n \notin Sent
    BY <1>5, <1>6 DEF Free, MsgQInv, NodesOK
<1>8. data'[n] = m /\ \A x \in Nodes \ {n} : data'[x] = data[x]
    BY <1>2, <1>6 DEF MsgQInv, MsgQTypeOK
<1>9. Got' = Got
  <2>1. \A t \in Tasks : call[t].at = "copy" => data'[call[t].node] = data[call[t].node]
      BY <1>7, <1>8 DEF MsgQInv, NodesOK, MsgQTypeOK, Calls
  <2>2. \A t \in Tasks : GotBy(t)' = GotBy(t)
      BY <1>2, <2>1 DEF GotBy
  <2> QED BY <2>2 DEF Got
<1>10. SendStep(m)
    BY <1>2, <1>4, <1>6, <1>7, <1>8, <1>9, MessageEnters
<1> QED BY <1>10 DEF PromiseStep

\* Every step is one of MsgQueue, or not seen there.
LEMMA NextPromise == MsgQInv /\ [Next]_vars => PromiseStep
<1> SUFFICES ASSUME MsgQInv, [Next]_vars PROVE PromiseStep
    OBVIOUS
<1>1. MsgQInv'
    BY NextKept
<1>2. ASSUME UNCHANGED msgQVars PROVE PromiseStep
  <2>1. Unseen
      BY <1>2 DEF msgQVars, Unseen, Waiting, Got, GotBy
  <2> QED BY <2>1 DEF PromiseStep
<1>3. ASSUME NEW t \in Tasks, TaskStep(t) PROVE PromiseStep
  <2>1. CASE GetNode(t) \/ Put(t) \/ DeleteStarts(t) \/ Gather(t)
      BY <1>1, <2>1, GetNodePromise, PutPromise, DeletePromise
  <2>2. CASE Copy(t)
      BY <1>1, <2>2, CopyPromise DEF PromiseStep
  <2>3. CASE SendOrReceive(t) \/ GetNone(t) \/ GetGoesOn(t) \/ Unlock(t) \/ Exit(t)
             \/ DeleteEnds(t)
      BY <1>1, <2>3, CallPromise DEF PromiseStep
  <2> QED BY <1>3, <2>1, <2>2, <2>3 DEF TaskStep
<1>4. CASE Handler
  <2>1. CASE UNCHANGED msgQVars
      BY <1>2, <2>1
  <2>2. ASSUME NEW m \in Messages, HandlerSends(m) \/ HandlerSendsLater(m)
        PROVE  PromiseStep
      BY <2>2, HandlerPromise DEF HandlerSends, HandlerSendsLater
  <2> QED BY <1>4, <2>1, <2>2 DEF Handler, Tick
<1>5. CASE SchedStep /\ UNCHANGED msgQVars
    BY <1>2, <1>5
<1>6. CASE RunJob
    BY <1>2, <1>6 DEF RunJob
<1>7. CASE UNCHANGED vars
    BY <1>2, <1>7 DEF vars
<1> QED BY <1>3, <1>4, <1>5, <1>6, <1>7 DEF Next

\* Message queues deliver what was sent, once, urgent messages first and the
\* others in order, and nothing after msgQDestroy.
THEOREM MessagesKept == Spec => KeepsMessages
<1>1. MsgQInv /\ [Next]_vars => [Promise!MsgNext]_(Promise!msgVars)
    BY NextPromise, PromiseWords
<1> QED
  BY <1>1, PromiseInit, MsgQInductive, PTL DEF Spec, KeepsMessages, Promise!MsgSpec
=============================================================================
