---------------------------- MODULE VmxSchedProof ---------------------------
(***************************************************************************)
(* What the routines of VmxLib and the steps of VmxSched keep, whoever     *)
(* calls them: the types, how the queues and the status flags of the tasks *)
(* fit together (KernInv), and what the scheduler relies on (SchedBase).   *)
(* The proofs about modules that extend VmxSched build on it.              *)
(***************************************************************************)
EXTENDS VmxSched, QPrioProof

KernTypes ==
    /\ status \in [Tasks -> SUBSET Flags]
    /\ priority \in [Tasks -> Priorities]
    /\ retVal \in [Tasks -> {"OK", "ERROR"}]
    /\ readyQ \in Seq(Tasks) /\ tickQ \in Seq(Tasks)
    /\ pendQ \in [PendQs -> Seq(Tasks)]
    /\ left \in [Tasks -> 0..MaxTimeout]

TodoItems == ({"flush", "terminate"} \X PendQs) \cup ({"disown"} \X Sems)
               \cup {<<"expire">>, <<"slice">>}

SchedTypes ==
    /\ taskIdCurrent \in Tasks
    /\ kernelIsIdle \in BOOLEAN /\ intr \in BOOLEAN /\ intOff \in BOOLEAN
    /\ kpc \in KernelStates
    /\ todo \in Seq(TodoItems)
    /\ savedIntOff \in [Tasks -> BOOLEAN]
    /\ lockCount \in [Tasks -> Nat]
    /\ timeSlice \in [Tasks -> Nat]

\* A task enters or leaves the ready queue.
LEMMA ReadyTypes ==
    ASSUME KernTypes, NEW t \in Tasks
    PROVE  /\ ReadyQPut(t) \in Seq(Tasks)
           /\ QRemove(readyQ, t) \in Seq(Tasks)
           /\ QPriBmpPut(QRemove(readyQ, t), t, priority) \in Seq(Tasks)
           /\ ReadyIf(t) => readyQ' \in Seq(Tasks)
<1>1. readyQ \in Seq(Tasks)
    BY DEF KernTypes
<1>2. ReadyQPut(t) \in Seq(Tasks) /\ QRemove(readyQ, t) \in Seq(Tasks)
    BY <1>1, SeqOperators DEF ReadyQPut
<1>3. QPriBmpPut(QRemove(readyQ, t), t, priority) \in Seq(Tasks)
    BY <1>2, SeqOperators
<1> QED BY <1>1, <1>2, <1>3 DEF ReadyIf

\* A task enters or leaves the tick queue.
LEMMA TickTypes ==
    ASSUME KernTypes, NEW t \in Tasks
    PROVE  /\ \A n \in 0..MaxTimeout : TickQPut(t, n) =>
                 tickQ' \in Seq(Tasks) /\ left' \in [Tasks -> 0..MaxTimeout]
           /\ LeaveTickQ(t) =>
                 tickQ' \in Seq(Tasks) /\ left' \in [Tasks -> 0..MaxTimeout]
<1>1. tickQ \in Seq(Tasks) /\ left \in [Tasks -> 0..MaxTimeout] /\ MaxTimeout \in Nat
    BY VmxLibAssumption DEF KernTypes
<1>2. ASSUME NEW n \in 0..MaxTimeout, TickQPut(t, n)
      PROVE  tickQ' \in Seq(Tasks) /\ left' \in [Tasks -> 0..MaxTimeout]
  <2>1. PICK l : l = left' /\ tickQ' = QPrioPut(tickQ, t, l)
      BY <1>2 DEF TickQPut
  <2>2. tickQ' \in Seq(Tasks)
      BY <1>1, <2>1, SeqOperators
  <2> QED BY <1>1, <1>2, <2>2 DEF TickQPut
<1>3. ASSUME LeaveTickQ(t)
      PROVE  tickQ' \in Seq(Tasks) /\ left' \in [Tasks -> 0..MaxTimeout]
  <2>1. QRemove(tickQ, t) \in Seq(Tasks)
      BY <1>1, SeqOperators
  <2> QED BY <1>1, <1>3, <2>1 DEF LeaveTickQ, TickQRemove
<1> QED BY <1>2, <1>3

\* A task enters or leaves a pending queue.
LEMMA PendTypes ==
    ASSUME KernTypes, NEW t \in Tasks, NEW q
    PROVE  /\ q \in PendQs => PendQPut(q, t) \in Seq(Tasks)
           /\ [pendQ EXCEPT ![q] = QRemove(@, t)] \in [PendQs -> Seq(Tasks)]
           /\ \A key : [pendQ EXCEPT ![q] = QPrioMove(@, t, key)]
                         \in [PendQs -> Seq(Tasks)]
<1>1. pendQ \in [PendQs -> Seq(Tasks)]
    BY DEF KernTypes
<1>2. CASE q \in PendQs
  <2>1. pendQ[q] \in Seq(Tasks)
      BY <1>1, <1>2
  <2>2. PendQPut(q, t) \in Seq(Tasks)
      BY <2>1, SeqOperators DEF PendQPut
  <2>3. QRemove(pendQ[q], t) \in Seq(Tasks)
      BY <2>1, SeqOperators
  <2>4. \A key : QPrioMove(pendQ[q], t, key) \in Seq(Tasks)
      BY <2>1, SeqOperators
  <2> QED BY <1>1, <2>2, <2>3, <2>4
<1>3. CASE q \notin PendQs
    BY <1>1, <1>3
<1> QED BY <1>2, <1>3

\* vmxSuspend.
LEMMA SuspendTypes == ASSUME KernTypes, NEW t \in Tasks, vmxSuspend(t) PROVE KernTypes'
<1>1. readyQ' \in Seq(Tasks)
    BY ReadyTypes DEF vmxSuspend, KernTypes
<1> QED BY <1>1 DEF vmxSuspend, KernTypes, Flags

\* vmxResume.
LEMMA ResumeTypes == ASSUME KernTypes, NEW t \in Tasks, vmxResume(t) PROVE KernTypes'
<1>1. readyQ' \in Seq(Tasks)
    BY ReadyTypes DEF vmxResume, KernTypes
<1> QED BY <1>1 DEF vmxResume, KernTypes, Flags

\* vmxUndelay.
LEMMA UndelayTypes == ASSUME KernTypes, NEW t \in Tasks, vmxUndelay(t) PROVE KernTypes'
<1>1. readyQ' \in Seq(Tasks)
    BY ReadyTypes DEF vmxUndelay, KernTypes
<1> QED BY <1>1 DEF vmxUndelay, KernTypes, Flags

\* vmxPrioritySet.
LEMMA PriorityTypes ==
    ASSUME KernTypes, NEW t \in Tasks, NEW p \in Priorities, vmxPrioritySet(t, p)
    PROVE  KernTypes'
<1>1. PICK key : key = priority'
    OBVIOUS
<1>2. QPriBmpMove(readyQ, t, key) \in Seq(Tasks)
    BY SeqOperators DEF KernTypes
<1>3. readyQ' \in Seq(Tasks)
    BY <1>1, <1>2 DEF vmxPrioritySet, KernTypes
<1>4. pendQ' \in [PendQs -> Seq(Tasks)]
  <2>1. [pendQ EXCEPT ![PendQOf(t)] = QPrioMove(@, t, key)] \in [PendQs -> Seq(Tasks)]
      BY PendTypes
  <2> QED BY <1>1, <2>1 DEF vmxPrioritySet, KernTypes
<1> QED BY <1>3, <1>4 DEF vmxPrioritySet, KernTypes

\* taskDelay with WAIT_NONE.
LEMMA YieldTypes == ASSUME KernTypes, NEW t \in Tasks, yield(t) PROVE KernTypes'
<1>1. readyQ' \in Seq(Tasks)
    BY ReadyTypes DEF yield
<1> QED BY <1>1 DEF yield, KernTypes

\* vmxDelay.
LEMMA DelayTypes ==
    ASSUME KernTypes, NEW t \in Tasks, NEW n \in 0..MaxTimeout, vmxDelay(t, n)
    PROVE  KernTypes'
<1>1. readyQ' \in Seq(Tasks)
    BY ReadyTypes DEF vmxDelay
<1>2. tickQ' \in Seq(Tasks) /\ left' \in [Tasks -> 0..MaxTimeout]
    BY TickTypes DEF vmxDelay
<1> QED BY <1>1, <1>2 DEF vmxDelay, KernTypes, Flags

\* vmxPendQPut.
LEMMA PendPutTypes ==
    ASSUME KernTypes, NEW q \in PendQs, NEW t \in Tasks, NEW n \in 0..WAIT_FOREVER,
           vmxPendQPut(q, t, n)
    PROVE  KernTypes'
<1>1. readyQ' \in Seq(Tasks)
    BY ReadyTypes DEF vmxPendQPut
<1>2. pendQ' \in [PendQs -> Seq(Tasks)]
  <2>1. PendQPut(q, t) \in Seq(Tasks)
      BY PendTypes
  <2> QED BY <2>1 DEF vmxPendQPut, KernTypes
<1>3. CASE n = WAIT_FOREVER
    BY <1>1, <1>2, <1>3 DEF vmxPendQPut, KernTypes, Flags
<1>4. CASE n # WAIT_FOREVER
  <2>1. n \in 0..MaxTimeout
      BY <1>4, VmxLibAssumption DEF WAIT_FOREVER
  <2>2. tickQ' \in Seq(Tasks) /\ left' \in [Tasks -> 0..MaxTimeout]
      BY <1>4, <2>1, TickTypes DEF vmxPendQPut
  <2> QED BY <1>1, <1>2, <1>4, <2>2 DEF vmxPendQPut, KernTypes, Flags
<1> QED BY <1>3, <1>4

\* vmxPendQGet and the loops over a pending queue.
LEMMA UnpendTypes ==
    ASSUME KernTypes, NEW q \in PendQs, pendQ[q] # <<>>, NEW ret \in {"OK", "ERROR"},
           unpend(q, ret)
    PROVE  KernTypes'
<1>1. PICK t \in Tasks : t = Head(pendQ[q])
    BY DEF KernTypes
<1>2. readyQ' \in Seq(Tasks)
    BY <1>1, ReadyTypes DEF unpend
<1>3. tickQ' \in Seq(Tasks) /\ left' \in [Tasks -> 0..MaxTimeout]
    BY <1>1, TickTypes DEF unpend
<1>4. pendQ' \in [PendQs -> Seq(Tasks)]
    BY DEF unpend, KernTypes
<1> QED BY <1>1, <1>2, <1>3, <1>4 DEF unpend, KernTypes, Flags

\* vmxDelete.
LEMMA DeleteTypes == ASSUME KernTypes, NEW t \in Tasks, vmxDelete(t) PROVE KernTypes'
<1>1. readyQ' \in Seq(Tasks)
    BY ReadyTypes DEF vmxDelete, KernTypes
<1>2. tickQ' \in Seq(Tasks) /\ left' \in [Tasks -> 0..MaxTimeout]
    BY TickTypes DEF vmxDelete
<1>3. pendQ' \in [PendQs -> Seq(Tasks)]
    BY PendTypes DEF vmxDelete, KernTypes
<1> QED BY <1>1, <1>2, <1>3 DEF vmxDelete, KernTypes, Flags

\* vmxTickAnnounce: the clock.
LEMMA AdvanceTypes == ASSUME KernTypes, advance PROVE KernTypes'
<1>1. left' \in [Tasks -> 0..MaxTimeout]
    BY VmxLibAssumption DEF advance, KernTypes
<1> QED BY <1>1 DEF advance, KernTypes

\* vmxTickAnnounce: a task whose time has come.
LEMMA ExpireTypes == ASSUME KernTypes, Expired, expire PROVE KernTypes'
<1>1. PICK t \in Tasks : t = Head(tickQ)
    BY DEF KernTypes, Expired
<1>2. readyQ' \in Seq(Tasks)
    BY <1>1, ReadyTypes DEF expire
<1>3. pendQ' \in [PendQs -> Seq(Tasks)]
  <2>1. PICK q : q = PendQOf(t)
      OBVIOUS
  <2>2. \/ pendQ' = [pendQ EXCEPT ![q] = QRemove(@, t)]
        \/ pendQ' = pendQ
      BY <1>1, <2>1 DEF expire
  <2>3. [pendQ EXCEPT ![q] = QRemove(@, t)] \in [PendQs -> Seq(Tasks)]
      BY PendTypes
  <2> QED BY <2>2, <2>3 DEF KernTypes
<1>4. tickQ' \in Seq(Tasks)
    BY DEF expire, KernTypes, Expired
<1>5. retVal' \in [Tasks -> {"OK", "ERROR"}]
    BY DEF expire, KernTypes
<1> QED BY <1>1, <1>2, <1>3, <1>4, <1>5 DEF expire, KernTypes, Flags

\* A step that leaves tasks and queues alone.
LEMMA SameTypes == ASSUME KernTypes, UNCHANGED kernVars PROVE KernTypes'
BY DEF KernTypes, kernVars

\* What the next loop of a kernel section is about.
LEMMA TodoShape ==
    ASSUME NEW x \in TodoItems
    PROVE  /\ x[1] \in {"flush", "terminate"} => x[2] \in PendQs
           /\ x[1] = "disown" => x[2] \in Sems
BY DEF TodoItems

\* The loop of vmxPendQFlush, if there is one.
LEMMA FlushTypes == ASSUME NEW q \in PendQs PROVE Flush(q) \in Seq(TodoItems)
<1>1. <<"flush", q>> \in TodoItems
    BY DEF TodoItems
<1> QED BY <1>1 DEF Flush

-----------------------------------------------------------------------------
(***************************************************************************)
(* Queues and status flags.                                                *)
(***************************************************************************)
ReadyOK ==
    /\ IsQueue(readyQ, Tasks) /\ QSorted(readyQ, priority)
    /\ \A t \in Tasks : Ready(t) <=> t \in Elements(readyQ)

TickOK ==
    /\ IsQueue(tickQ, Tasks) /\ QSorted(tickQ, left)
    /\ \A t \in Tasks : "delay" \in status[t] <=> t \in Elements(tickQ)

PendOK ==
    /\ \A q \in PendQs :
          /\ IsQueue(pendQ[q], Tasks)
          /\ q \notin FifoSems => QSorted(pendQ[q], priority)
    /\ \A t \in Tasks :
          /\ "pend" \in status[t] <=> \E q \in PendQs : t \in Elements(pendQ[q])
          /\ \A q, r \in PendQs :
                t \in Elements(pendQ[q]) /\ t \in Elements(pendQ[r]) => q = r

KernInv == ReadyOK /\ TickOK /\ PendOK

\* Only the flags of t change.
FlagsOf(t) == \A u \in Tasks \ {t} : status'[u] = status[u]

\* The keys the queues are sorted by: priorities, and ticks that are left.
LEMMA Keys ==
    ASSUME KernTypes
    PROVE  priority \in [Tasks -> Nat] /\ left \in [Tasks -> Nat]
<1>1. Priorities \subseteq Nat /\ 0..MaxTimeout \subseteq Nat
    BY VmxLibAssumption
<1>2. priority \in [Tasks -> Priorities] /\ left \in [Tasks -> 0..MaxTimeout]
    BY DEF KernTypes
<1> QED BY <1>1, <1>2

\* A task that gets ready.
LEMMA ReadyEnters ==
    ASSUME KernTypes, ReadyOK, NEW t \in Tasks, FlagsOf(t), ~Ready(t),
           status'[t] = {}, priority' = priority, readyQ' = ReadyQPut(t)
    PROVE  ReadyOK'
<1>1. t \notin Elements(readyQ)
    BY DEF ReadyOK
<1>2. /\ IsQueue(readyQ', Tasks) /\ Elements(readyQ') = Elements(readyQ) \cup {t}
      /\ QSorted(readyQ', priority)
    BY <1>1, PutQueue, Keys DEF ReadyOK, ReadyQPut, QPriBmpPut
<1> QED BY <1>2 DEF ReadyOK, FlagsOf, Ready

\* A task that is not ready any more.
LEMMA ReadyLeaves ==
    ASSUME KernTypes, ReadyOK, NEW t \in Tasks, FlagsOf(t), status'[t] # {},
           priority' = priority, readyQ' = QRemove(readyQ, t)
    PROVE  ReadyOK'
<1>1. /\ IsQueue(readyQ', Tasks) /\ Elements(readyQ') = Elements(readyQ) \ {t}
      /\ QSorted(readyQ', priority)
    BY RemoveQueue DEF ReadyOK
<1> QED BY <1>1 DEF ReadyOK, FlagsOf, Ready

\* A task that is not ready, and was not.
LEMMA ReadyStays ==
    ASSUME ReadyOK, NEW t \in Tasks, FlagsOf(t), status'[t] = {} <=> status[t] = {},
           priority' = priority, readyQ' = readyQ
    PROVE  ReadyOK'
BY DEF ReadyOK, FlagsOf, Ready

\* A ready task that goes behind its equals.
LEMMA ReadyTurns ==
    ASSUME KernTypes, ReadyOK, NEW t \in Tasks, Ready(t), status' = status,
           priority' = priority, readyQ' = QPriBmpPut(QRemove(readyQ, t), t, priority)
    PROVE  ReadyOK'
<1> DEFINE q == QRemove(readyQ, t)
<1>1. /\ IsQueue(q, Tasks) /\ Elements(q) = Elements(readyQ) \ {t}
      /\ QSorted(q, priority)
    BY RemoveQueue DEF ReadyOK
<1> HIDE DEF q
<1>2. /\ IsQueue(QPrioPut(q, t, priority), Tasks)
      /\ Elements(QPrioPut(q, t, priority)) = Elements(q) \cup {t}
      /\ QSorted(QPrioPut(q, t, priority), priority)
    BY <1>1, PutQueue, Keys
<1>3. readyQ' = QPrioPut(q, t, priority)
    BY DEF q, QPriBmpPut
<1>4. t \in Elements(readyQ)
    BY DEF ReadyOK
<1> QED BY <1>1, <1>2, <1>3, <1>4 DEF ReadyOK, Ready

\* A task of ReadyIf: it had a flag and has fewer.
LEMMA ReadyIfOK ==
    ASSUME KernTypes, ReadyOK, NEW t \in Tasks, FlagsOf(t), ~Ready(t),
           priority' = priority, ReadyIf(t)
    PROVE  ReadyOK'
<1>1. CASE status'[t] = {}
    BY <1>1, ReadyEnters DEF ReadyIf
<1>2. CASE status'[t] # {}
    BY <1>2, ReadyStays DEF ReadyIf, Ready
<1> QED BY <1>1, <1>2

-----------------------------------------------------------------------------
\* A task that waits for the clock.
LEMMA TickEnters ==
    ASSUME KernTypes, KernTypes', TickOK, NEW t \in Tasks, NEW n, FlagsOf(t),
           "delay" \notin status[t], "delay" \in status'[t], TickQPut(t, n)
    PROVE  TickOK'
<1>1. PICK l : l = left' /\ tickQ' = QPrioPut(tickQ, t, l)
    BY DEF TickQPut
<1>2. l \in [Tasks -> Nat]
    BY <1>1, VmxLibAssumption DEF KernTypes
<1>3. t \notin Elements(tickQ) /\ Elements(tickQ) \subseteq Tasks
    BY QueueElements DEF TickOK, IsQueue
<1>4. \A u \in Elements(tickQ) : l[u] = left[u]
    BY <1>1, <1>3 DEF TickQPut, KernTypes
<1>5. QSorted(tickQ, l)
    BY <1>4, SortedBy DEF TickOK, IsQueue
<1>6. /\ IsQueue(tickQ', Tasks) /\ Elements(tickQ') = Elements(tickQ) \cup {t}
      /\ QSorted(tickQ', l)
    BY <1>1, <1>2, <1>3, <1>5, PutQueue DEF TickOK
<1> QED BY <1>1, <1>6 DEF TickOK, FlagsOf

\* A task that does not wait for the clock any more.
LEMMA TickLeaves ==
    ASSUME KernTypes, TickOK, NEW t \in Tasks, FlagsOf(t), "delay" \notin status'[t],
           LeaveTickQ(t)
    PROVE  TickOK'
<1>1. CASE "delay" \in status[t]
  <2>1. tickQ' = QRemove(tickQ, t) /\ left' = [left EXCEPT ![t] = 0]
      BY <1>1 DEF LeaveTickQ, TickQRemove
  <2>2. /\ IsQueue(tickQ', Tasks) /\ Elements(tickQ') = Elements(tickQ) \ {t}
        /\ QSorted(tickQ', left)
      BY <2>1, RemoveQueue DEF TickOK
  <2>3. Elements(tickQ') \subseteq Tasks
      BY <2>2, QueueElements DEF IsQueue
  <2>4. \A u \in Elements(tickQ') : left'[u] = left[u]
      BY <2>1, <2>2, <2>3 DEF KernTypes
  <2>5. PICK q, l : q = tickQ' /\ l = left'
      OBVIOUS
  <2>6. QSorted(q, l)
      BY <2>2, <2>4, <2>5, SortedBy DEF IsQueue
  <2> QED BY <2>2, <2>5, <2>6 DEF TickOK, FlagsOf
<1>2. CASE "delay" \notin status[t]
    BY <1>2 DEF LeaveTickQ, TickOK, FlagsOf
<1> QED BY <1>1, <1>2

\* A task that waits for the clock as before.
LEMMA TickStays ==
    ASSUME TickOK, NEW t \in Tasks, FlagsOf(t),
           "delay" \in status'[t] <=> "delay" \in status[t],
           UNCHANGED <<tickQ, left>>
    PROVE  TickOK'
BY DEF TickOK, FlagsOf

\* The first task of the queue, when its time has come.
LEMMA TickExpires ==
    ASSUME KernTypes, TickOK, tickQ # <<>>, NEW t \in Tasks, t = Head(tickQ),
           FlagsOf(t), "delay" \notin status'[t], tickQ' = Tail(tickQ), left' = left
    PROVE  TickOK'
<1>1. /\ IsQueue(tickQ', Tasks) /\ Elements(tickQ') = Elements(tickQ) \ {t}
      /\ QSorted(tickQ', left)
    BY TailQueue DEF TickOK
<1> QED BY <1>1 DEF TickOK, FlagsOf

\* The clock advances.
LEMMA TickAdvances ==
    ASSUME KernTypes, TickOK, advance
    PROVE  TickOK'
<1>1. PICK l : l = left' /\ l = [t \in Tasks |-> IF left[t] > 0 THEN left[t] - 1 ELSE 0]
    BY DEF advance
<1>2. \A u, v \in Tasks : left[u] <= left[v] => l[u] <= l[v]
    BY <1>1, Keys
<1>3. \A i \in DOMAIN tickQ : tickQ[i] \in Tasks
    BY DEF KernTypes
<1>4. QSorted(tickQ, l)
    BY <1>2, <1>3 DEF TickOK, QSorted
<1> QED BY <1>1, <1>4 DEF TickOK, advance

-----------------------------------------------------------------------------
\* What PendQPut does to the queue.
LEMMA PendJoins ==
    ASSUME KernTypes, PendOK, NEW q \in PendQs, NEW t \in Tasks, "pend" \notin status[t],
           NEW r, r = PendQPut(q, t)
    PROVE  /\ IsQueue(r, Tasks) /\ Elements(r) = Elements(pendQ[q]) \cup {t}
           /\ q \notin FifoSems => QSorted(r, priority)
<1>1. t \notin Elements(pendQ[q]) /\ IsQueue(pendQ[q], Tasks)
    BY DEF PendOK
<1>2. CASE q \in FifoSems
  <2>1. InsertedAt(r, pendQ[q], Len(pendQ[q]) + 1, t, Tasks)
      BY <1>1, <1>2, AppendQueue DEF PendQPut, IsQueue
  <2> QED BY <1>1, <1>2, <2>1, Inserts
<1>3. CASE q \notin FifoSems
    BY <1>1, <1>3, PutQueue, Keys DEF PendQPut, PendOK
<1> QED BY <1>2, <1>3

\* A task that has to wait in q.
LEMMA PendEnters ==
    ASSUME KernTypes, PendOK, NEW q \in PendQs, NEW t \in Tasks, FlagsOf(t),
           "pend" \notin status[t], "pend" \in status'[t], priority' = priority,
           pendQ' = [pendQ EXCEPT ![q] = PendQPut(q, t)]
    PROVE  PendOK'
<1>1. t \notin Elements(pendQ[q])
    BY DEF PendOK
<1>2. PICK r : r = PendQPut(q, t)
    OBVIOUS
<1>3. /\ IsQueue(r, Tasks) /\ Elements(r) = Elements(pendQ[q]) \cup {t}
      /\ q \notin FifoSems => QSorted(r, priority)
    BY <1>2, PendJoins
<1>4. /\ pendQ'[q] = r /\ \A p \in PendQs : p # q => pendQ'[p] = pendQ[p]
    BY <1>2 DEF KernTypes
<1> QED BY <1>1, <1>3, <1>4 DEF PendOK, FlagsOf

\* The queue q of a task that waits loses it.
LEMMA PendLosesIt ==
    ASSUME KernTypes, PendOK, NEW q \in PendQs, NEW t \in Elements(pendQ[q]), FlagsOf(t),
           "pend" \notin status'[t], priority' = priority, NEW r, IsQueue(r, Tasks),
           Elements(r) = Elements(pendQ[q]) \ {t},
           \A key : QSorted(pendQ[q], key) => QSorted(r, key),
           pendQ' = [pendQ EXCEPT ![q] = r]
    PROVE  PendOK'
<1>1. pendQ'[q] = r /\ \A p \in PendQs : p # q => pendQ'[p] = pendQ[p]
    BY DEF KernTypes
<1>2. t \in Tasks
    BY QueueElements DEF KernTypes
<1>3. \A p \in PendQs : t \in Elements(pendQ[p]) => p = q
    BY <1>2 DEF PendOK
<1> QED BY <1>1, <1>2, <1>3 DEF PendOK, FlagsOf

\* The first task of a pending queue is woken.
LEMMA PendHead ==
    ASSUME KernTypes, PendOK, NEW q \in PendQs, pendQ[q] # <<>>,
           NEW t, t = Head(pendQ[q]), FlagsOf(t),
           "pend" \notin status'[t], priority' = priority,
           pendQ' = [pendQ EXCEPT ![q] = Tail(pendQ[q])]
    PROVE  PendOK'
<1>1. IsQueue(pendQ[q], Tasks)
    BY DEF PendOK
<1>2. PICK r : r = Tail(pendQ[q])
    OBVIOUS
<1>3. /\ t \in Elements(pendQ[q]) /\ IsQueue(r, Tasks)
      /\ Elements(r) = Elements(pendQ[q]) \ {t}
      /\ \A key : QSorted(pendQ[q], key) => QSorted(r, key)
    BY <1>1, <1>2, TailQueue
<1> QED BY <1>2, <1>3, PendLosesIt

\* The queue of a task that waits, as PendQOf finds it.
LEMMA PendQOfTask ==
    ASSUME PendOK, NEW t \in Tasks, "pend" \in status[t]
    PROVE  PendQOf(t) \in PendQs /\ t \in Elements(pendQ[PendQOf(t)])
BY DEF PendOK, PendQOf

\* A task that waits or not is taken out of its pending queue (vmxDelete,
\* vmxTickAnnounce).
LEMMA PendLeaves ==
    ASSUME KernTypes, PendOK, NEW t \in Tasks, FlagsOf(t), "pend" \notin status'[t],
           priority' = priority,
           pendQ' = IF "pend" \in status[t]
                    THEN [pendQ EXCEPT ![PendQOf(t)] = QRemove(@, t)] ELSE pendQ
    PROVE  PendOK'
<1>1. CASE "pend" \in status[t]
  <2>1. PICK q \in PendQs : q = PendQOf(t) /\ t \in Elements(pendQ[q])
      BY <1>1, PendQOfTask
  <2>2. PICK r : r = QRemove(pendQ[q], t)
      OBVIOUS
  <2>3. IsQueue(pendQ[q], Tasks)
      BY DEF PendOK
  <2>4. /\ IsQueue(r, Tasks) /\ Elements(r) = Elements(pendQ[q]) \ {t}
        /\ \A key : QSorted(pendQ[q], key) => QSorted(r, key)
      BY <2>2, <2>3, RemoveQueue
  <2>5. pendQ' = [pendQ EXCEPT ![q] = r]
      BY <1>1, <2>1, <2>2
  <2> QED BY <2>1, <2>4, <2>5, PendLosesIt
<1>2. CASE "pend" \notin status[t]
    BY <1>2 DEF PendOK, FlagsOf
<1> QED BY <1>1, <1>2

\* A task that waits in a pending queue as before.
LEMMA PendStays ==
    ASSUME PendOK, NEW t \in Tasks, FlagsOf(t),
           "pend" \in status'[t] <=> "pend" \in status[t],
           UNCHANGED <<pendQ, priority>>
    PROVE  PendOK'
BY DEF PendOK, FlagsOf

-----------------------------------------------------------------------------
(***************************************************************************)
(* The routines of VmxLib.                                                 *)
(***************************************************************************)
\* The new flags of a task, and of no other.
LEMMA NewFlags ==
    ASSUME KernTypes, NEW t \in Tasks, NEW S, status' = [status EXCEPT ![t] = S]
    PROVE  status'[t] = S /\ FlagsOf(t)
BY DEF KernTypes, FlagsOf

\* vmxSuspend.
LEMMA SuspendQueues == ASSUME KernTypes, KernInv, NEW t \in Tasks, vmxSuspend(t) PROVE KernInv'
<1> USE DEF KernInv
<1>1. status'[t] = status[t] \cup {"suspend"} /\ FlagsOf(t)
    BY NewFlags DEF vmxSuspend
<1>2. ReadyOK'
  <2>1. CASE Ready(t)
      BY <1>1, <2>1, ReadyLeaves DEF vmxSuspend
  <2>2. CASE ~Ready(t)
      BY <1>1, <2>2, ReadyStays DEF vmxSuspend, Ready
  <2> QED BY <2>1, <2>2
<1>3. TickOK' /\ PendOK'
    BY <1>1, TickStays, PendStays DEF vmxSuspend
<1> QED BY <1>2, <1>3

\* vmxResume.
LEMMA ResumeQueues == ASSUME KernTypes, KernInv, NEW t \in Tasks, vmxResume(t) PROVE KernInv'
<1> USE DEF KernInv
<1>1. status'[t] = status[t] \ {"suspend"} /\ FlagsOf(t)
    BY NewFlags DEF vmxResume
<1>2. ReadyOK'
  <2>1. CASE status[t] = {"suspend"}
      BY <1>1, <2>1, ReadyEnters DEF vmxResume, Ready
  <2>2. CASE status[t] # {"suspend"}
    <3>1. status'[t] = {} <=> status[t] = {}
        BY <1>1, <2>2
    <3> QED BY <1>1, <2>2, <3>1, ReadyStays DEF vmxResume
  <2> QED BY <2>1, <2>2
<1>3. TickOK' /\ PendOK'
    BY <1>1, TickStays, PendStays DEF vmxResume
<1> QED BY <1>2, <1>3

\* taskDelay with WAIT_NONE.
LEMMA YieldQueues ==
    ASSUME KernTypes, KernInv, NEW t \in Tasks, Ready(t), yield(t) PROVE KernInv'
<1> USE DEF KernInv
<1>1. FlagsOf(t) /\ status' = status
    BY DEF yield, FlagsOf
<1> QED BY <1>1, ReadyTurns, TickStays, PendStays DEF yield

\* vmxDelay.
LEMMA DelayQueues ==
    ASSUME KernTypes, KernTypes', KernInv, NEW t \in Tasks, NEW n,
           "delay" \notin status[t], vmxDelay(t, n)
    PROVE  KernInv'
<1> USE DEF KernInv
<1>1. status'[t] = status[t] \cup {"delay"} /\ FlagsOf(t)
    BY NewFlags DEF vmxDelay
<1>2. ReadyOK'
    BY <1>1, ReadyLeaves DEF vmxDelay
<1>3. TickOK'
    BY <1>1, TickEnters DEF vmxDelay
<1>4. PendOK'
    BY <1>1, PendStays DEF vmxDelay
<1> QED BY <1>2, <1>3, <1>4

\* vmxPendQPut.
LEMMA PendPutQueues ==
    ASSUME KernTypes, KernTypes', KernInv, NEW q \in PendQs, NEW t \in Tasks, NEW n,
           "pend" \notin status[t], "delay" \notin status[t], vmxPendQPut(q, t, n)
    PROVE  KernInv'
<1> USE DEF KernInv
<1>1. FlagsOf(t) /\ "pend" \in status'[t]
      /\ ("delay" \in status'[t] <=> n # WAIT_FOREVER)
  <2>1. CASE n = WAIT_FOREVER
    <3>1. status'[t] = status[t] \cup {"pend"} /\ FlagsOf(t)
        BY <2>1, NewFlags DEF vmxPendQPut
    <3> QED BY <2>1, <3>1
  <2>2. CASE n # WAIT_FOREVER
    <3>1. status'[t] = status[t] \cup {"pend", "delay"} /\ FlagsOf(t)
        BY <2>2, NewFlags DEF vmxPendQPut
    <3> QED BY <2>2, <3>1
  <2> QED BY <2>1, <2>2
<1>2. ReadyOK'
    BY <1>1, ReadyLeaves DEF vmxPendQPut
<1>3. PendOK'
    BY <1>1, PendEnters DEF vmxPendQPut
<1>4. TickOK'
  <2>1. CASE n = WAIT_FOREVER
      BY <1>1, <2>1, TickStays DEF vmxPendQPut
  <2>2. CASE n # WAIT_FOREVER
      BY <1>1, <2>2, TickEnters DEF vmxPendQPut
  <2> QED BY <2>1, <2>2
<1> QED BY <1>2, <1>3, <1>4

\* vmxPendQGet and the loops over a pending queue.
LEMMA UnpendQueues ==
    ASSUME KernTypes, KernInv, NEW q \in PendQs, pendQ[q] # <<>>, NEW ret, unpend(q, ret)
    PROVE  KernInv'
<1> USE DEF KernInv
<1>1. PICK t \in Tasks : t = Head(pendQ[q])
    BY DEF KernTypes
<1>2. status'[t] = status[t] \ {"pend", "delay"} /\ FlagsOf(t)
    BY <1>1, NewFlags DEF unpend
<1>3. "pend" \in status[t]
  <2>1. t \in Elements(pendQ[q])
      BY <1>1, TailQueue DEF PendOK
  <2> QED BY <2>1 DEF PendOK
<1>4. ReadyOK'
    BY <1>1, <1>2, <1>3, ReadyIfOK DEF unpend, Ready
<1>5. TickOK'
    BY <1>1, <1>2, TickLeaves DEF unpend
<1>6. PendOK'
    BY <1>1, <1>2, PendHead DEF unpend
<1> QED BY <1>4, <1>5, <1>6

\* vmxDelete.
LEMMA DeleteQueues == ASSUME KernTypes, KernInv, NEW t \in Tasks, vmxDelete(t) PROVE KernInv'
<1> USE DEF KernInv
<1>1. status'[t] = {"dead"} /\ FlagsOf(t)
    BY NewFlags DEF vmxDelete
<1>2. ReadyOK'
  <2>1. CASE Ready(t)
      BY <1>1, <2>1, ReadyLeaves DEF vmxDelete
  <2>2. CASE ~Ready(t)
      BY <1>1, <2>2, ReadyStays DEF vmxDelete, Ready
  <2> QED BY <2>1, <2>2
<1>3. TickOK'
    BY <1>1, TickLeaves DEF vmxDelete
<1>4. PendOK'
    BY <1>1, PendLeaves DEF vmxDelete
<1> QED BY <1>2, <1>3, <1>4

\* vmxTickAnnounce: the clock.
LEMMA AdvanceQueues == ASSUME KernTypes, KernInv, advance PROVE KernInv'
<1> USE DEF KernInv
<1>1. ReadyOK' /\ PendOK'
    BY DEF advance, ReadyOK, PendOK, Ready
<1> QED BY <1>1, TickAdvances

\* vmxTickAnnounce: a task whose time has come.
LEMMA ExpireQueues == ASSUME KernTypes, KernInv, Expired, expire PROVE KernInv'
<1> USE DEF KernInv
<1>1. PICK t \in Tasks : t = Head(tickQ) /\ tickQ # <<>>
    BY DEF KernTypes, Expired
<1>2. status'[t] = status[t] \ {"pend", "delay"} /\ FlagsOf(t)
    BY <1>1, NewFlags DEF expire
<1>3. "delay" \in status[t]
  <2>1. t \in Elements(tickQ)
      BY <1>1, TailQueue DEF TickOK
  <2> QED BY <2>1 DEF TickOK
<1>4. ReadyOK'
    BY <1>1, <1>2, <1>3, ReadyIfOK DEF expire, Ready
<1>5. TickOK'
    BY <1>1, <1>2, TickExpires DEF expire
<1>6. PendOK'
  <2>1. pendQ' = IF "pend" \in status[t]
                 THEN [pendQ EXCEPT ![PendQOf(t)] = QRemove(@, t)] ELSE pendQ
      BY <1>1 DEF expire
  <2> QED BY <1>2, <2>1, PendLeaves DEF expire
<1> QED BY <1>4, <1>5, <1>6

\* vmxPrioritySet.
LEMMA PriorityQueues ==
    ASSUME KernTypes, KernTypes', KernInv, NEW t \in Tasks, NEW p, vmxPrioritySet(t, p)
    PROVE  KernInv'
<1> USE DEF KernInv
<1>1. PICK key \in [Tasks -> Nat] : key = priority'
  <2>1. priority' \in [Tasks -> Priorities]
      BY DEF KernTypes
  <2>2. Priorities \subseteq Nat
      BY VmxLibAssumption
  <2>3. priority' \in [Tasks -> Nat]
      BY <2>1, <2>2
  <2> QED BY <2>3
<1>2. \A u \in Tasks : u # t => key[u] = priority[u]
    BY <1>1 DEF vmxPrioritySet, KernTypes
<1>3. ReadyOK'
  <2>1. CASE Ready(t)
    <3>1. t \in Elements(readyQ) /\ IsQueue(readyQ, Tasks) /\ QSorted(readyQ, priority)
        BY <2>1 DEF ReadyOK
    <3>2. PICK r : r = QPriBmpMove(readyQ, t, key)
        OBVIOUS
    <3>3. IsQueue(r, Tasks) /\ Elements(r) = Elements(readyQ) /\ QSorted(r, key)
        BY <1>2, <3>1, <3>2, MoveQueue, Keys
    <3>4. readyQ' = r
        BY <1>1, <2>1, <3>2 DEF vmxPrioritySet
    <3> QED BY <1>1, <3>3, <3>4 DEF ReadyOK, Ready, vmxPrioritySet
  <2>2. CASE ~Ready(t)
    <3>1. readyQ \in Seq(Tasks) /\ \A u \in Elements(readyQ) : key[u] = priority[u]
      <4>1. Elements(readyQ) \subseteq Tasks /\ t \notin Elements(readyQ)
          BY <2>2, QueueElements DEF ReadyOK, IsQueue
      <4> QED BY <1>2, <4>1 DEF ReadyOK, IsQueue
    <3>2. QSorted(readyQ, key)
        BY <3>1, SortedBy DEF ReadyOK
    <3>3. readyQ' = readyQ /\ status' = status
        BY <2>2 DEF vmxPrioritySet
    <3> QED BY <1>1, <3>2, <3>3 DEF ReadyOK, Ready
  <2> QED BY <2>1, <2>2
<1>4. TickOK'
    BY TickStays DEF vmxPrioritySet, FlagsOf
<1>5. ASSUME NEW q \in PendQs, t \notin Elements(pendQ[q])
      PROVE  q \notin FifoSems => QSorted(pendQ[q], key)
  <2>1. pendQ[q] \in Seq(Tasks) /\ Elements(pendQ[q]) \subseteq Tasks
      BY QueueElements DEF KernTypes
  <2>2. \A u \in Elements(pendQ[q]) : key[u] = priority[u]
      BY <1>2, <1>5, <2>1
  <2> QED BY <2>1, <2>2, SortedBy DEF PendOK
<1>6. PendOK'
  <2>1. CASE "pend" \in status[t] /\ PendQOf(t) \notin FifoSems
    <3>1. PICK q \in PendQs : q = PendQOf(t) /\ t \in Elements(pendQ[q])
        BY <2>1, PendQOfTask
    <3>2. PICK r : r = QPrioMove(pendQ[q], t, key)
        OBVIOUS
    <3>3. IsQueue(pendQ[q], Tasks) /\ QSorted(pendQ[q], priority)
        BY <2>1, <3>1 DEF PendOK
    <3>4. IsQueue(r, Tasks) /\ Elements(r) = Elements(pendQ[q]) /\ QSorted(r, key)
        BY <1>2, <3>1, <3>2, <3>3, MoveQueue, Keys
    <3>5. pendQ' = [pendQ EXCEPT ![q] = r] /\ status' = status
        BY <1>1, <2>1, <3>1, <3>2 DEF vmxPrioritySet
    <3>6. pendQ'[q] = r /\ \A o \in PendQs : o # q => pendQ'[o] = pendQ[o]
        BY <3>5 DEF KernTypes
    <3>7. \A o \in PendQs : o # q => t \notin Elements(pendQ[o])
        BY <3>1 DEF PendOK
    <3>8. \A o \in PendQs : /\ IsQueue(pendQ'[o], Tasks)
                            /\ o \notin FifoSems => QSorted(pendQ'[o], key)
        BY <1>5, <3>4, <3>6, <3>7 DEF PendOK
    <3>9. \A o \in PendQs : Elements(pendQ'[o]) = Elements(pendQ[o])
        BY <3>4, <3>6
    <3> QED BY <1>1, <3>5, <3>8, <3>9 DEF PendOK
  <2>2. CASE ~("pend" \in status[t] /\ PendQOf(t) \notin FifoSems)
    <3>1. pendQ' = pendQ /\ status' = status
        BY <2>2 DEF vmxPrioritySet
    <3>2. ASSUME NEW q \in PendQs, q \notin FifoSems PROVE QSorted(pendQ[q], key)
      <4>1. CASE t \in Elements(pendQ[q])
        <5>1. "pend" \in status[t]
            BY <4>1 DEF PendOK
        <5>2. PendQOf(t) = q
            BY <4>1, <5>1, PendQOfTask DEF PendOK
        <5> QED BY <2>2, <3>2, <5>1, <5>2
      <4>2. CASE t \notin Elements(pendQ[q])
          BY <1>5, <3>2, <4>2
      <4> QED BY <4>1, <4>2
    <3> QED BY <1>1, <3>1, <3>2 DEF PendOK
  <2> QED BY <2>1, <2>2
<1> QED BY <1>3, <1>4, <1>6

\* A step that leaves tasks and queues alone.
LEMMA SameQueues ==
    ASSUME KernInv, UNCHANGED <<status, priority, readyQ, pendQ, tickQ, left>>
    PROVE  KernInv'
BY DEF KernInv, ReadyOK, TickOK, PendOK, Ready

\* The first of the ready queue is ready.
LEMMA HeadReady ==
    ASSUME KernTypes, KernInv, NEW t \in Tasks, t = readyHead PROVE Ready(t)
<1>1. readyQ # <<>> /\ t = Head(readyQ)
    BY VmxLibAssumption DEF readyHead, QFirst
<1>2. t \in Elements(readyQ)
    BY <1>1, TailQueue DEF KernInv, ReadyOK
<1> QED BY <1>2 DEF KernInv, ReadyOK

-----------------------------------------------------------------------------
(***************************************************************************)
(* Queues that only shrink.                                                *)
(***************************************************************************)
\* Nobody begins to wait.
QueuesShrink == \A q \in PendQs : Elements(pendQ'[q]) \subseteq Elements(pendQ[q])

\* A step that leaves the queues alone.
LEMMA SameShrink == ASSUME pendQ' = pendQ PROVE QueuesShrink
BY DEF QueuesShrink

\* What is done to one queue leaves the others alone.
LEMMA OneQueue ==
    ASSUME KernTypes, NEW q, NEW r,
           q \in PendQs => Elements(r) \subseteq Elements(pendQ[q]),
           pendQ' = [pendQ EXCEPT ![q] = r]
    PROVE  QueuesShrink
BY DEF KernTypes, QueuesShrink

\* A task that waits or not is taken out of its pending queue.
LEMMA LeaveShrink ==
    ASSUME KernTypes, PendOK, NEW t \in Tasks,
           pendQ' = IF "pend" \in status[t]
                    THEN [pendQ EXCEPT ![PendQOf(t)] = QRemove(@, t)] ELSE pendQ
    PROVE  QueuesShrink
<1>1. CASE "pend" \in status[t]
  <2>1. PICK q \in PendQs : q = PendQOf(t)
      BY <1>1, PendQOfTask
  <2>2. PICK r : r = QRemove(pendQ[q], t)
      OBVIOUS
  <2>3. Elements(r) = Elements(pendQ[q]) \ {t}
      BY <2>2, RemoveQueue DEF PendOK
  <2>4. pendQ' = [pendQ EXCEPT ![q] = r]
      BY <1>1, <2>1, <2>2
  <2> QED BY <2>3, <2>4, OneQueue
<1>2. CASE "pend" \notin status[t]
    BY <1>2, SameShrink
<1> QED BY <1>1, <1>2

\* vmxPrioritySet.
LEMMA PriorityShrink ==
    ASSUME KernTypes, KernTypes', PendOK, NEW t \in Tasks, NEW p, vmxPrioritySet(t, p)
    PROVE  QueuesShrink
<1>1. CASE "pend" \in status[t] /\ PendQOf(t) \notin FifoSems
  <2>1. PICK q \in PendQs : q = PendQOf(t) /\ t \in Elements(pendQ[q])
      BY <1>1, PendQOfTask
  <2>2. PICK key \in [Tasks -> Nat] : key = priority'
    <3>1. priority' \in [Tasks -> Priorities] /\ Priorities \subseteq Nat
        BY VmxLibAssumption DEF KernTypes
    <3> QED BY <3>1
  <2>3. PICK r : r = QPrioMove(pendQ[q], t, key)
      OBVIOUS
  <2>4. \A u \in Tasks : u # t => key[u] = priority[u]
      BY <2>2 DEF vmxPrioritySet, KernTypes
  <2>5. IsQueue(pendQ[q], Tasks) /\ QSorted(pendQ[q], priority)
      BY <1>1, <2>1 DEF PendOK
  <2>6. Elements(r) = Elements(pendQ[q])
      BY <2>1, <2>3, <2>4, <2>5, MoveQueue, Keys
  <2>7. pendQ' = [pendQ EXCEPT ![q] = r]
      BY <1>1, <2>1, <2>2, <2>3 DEF vmxPrioritySet
  <2> QED BY <2>6, <2>7, OneQueue
<1>2. CASE ~("pend" \in status[t] /\ PendQOf(t) \notin FifoSems)
    BY <1>2, SameShrink DEF vmxPrioritySet
<1> QED BY <1>1, <1>2

\* vmxDelete.
LEMMA DeleteShrink ==
    ASSUME KernTypes, PendOK, NEW t \in Tasks, vmxDelete(t)
    PROVE  QueuesShrink
BY LeaveShrink DEF vmxDelete

\* vmxTickAnnounce: a task whose time has come.
LEMMA ExpireShrink ==
    ASSUME KernTypes, PendOK, Expired, expire
    PROVE  QueuesShrink
<1>1. PICK t \in Tasks : t = Head(tickQ)
    BY DEF KernTypes, Expired
<1>2. pendQ' = IF "pend" \in status[t]
               THEN [pendQ EXCEPT ![PendQOf(t)] = QRemove(@, t)] ELSE pendQ
    BY <1>1 DEF expire
<1> QED BY <1>2, LeaveShrink

\* vmxPendQGet and the loops over a pending queue.
LEMMA UnpendShrink ==
    ASSUME KernTypes, PendOK, NEW q \in PendQs, pendQ[q] # <<>>, NEW ret, unpend(q, ret)
    PROVE  QueuesShrink
<1>1. PICK r : r = Tail(pendQ[q])
    OBVIOUS
<1>2. Elements(r) \subseteq Elements(pendQ[q])
    BY <1>1, TailQueue DEF PendOK
<1> QED BY <1>1, <1>2, OneQueue DEF unpend

-----------------------------------------------------------------------------
(***************************************************************************)
(* The scheduler.                                                          *)
(***************************************************************************)
\* Where loops are done, which code a handler finds and when nothing is ready.
SchedBase ==
    /\ kpc \in {"user", "resched", "dispatch", "recheck"} => todo = <<>>
    /\ intr => kpc \in {"user", "exit", "work"}
    /\ kernelIsIdle => intr \/ kpc \in {"user", "resched"}
    /\ kpc = "dispatch" => taskIdCurrent = readyHead

\* What the exits of the kernel leave.
RunsRight == kpc = "user" /\ ~intr =>
    IF kernelIsIdle THEN readyQ = <<>> ELSE taskIdCurrent = readyHead \/ Locked

\* vmxExit, vmxTaskReschedule, dispatch, workQDoWork and the loops.
LEMMA StepTypes ==
    ASSUME KernTypes, SchedTypes, SchedStep
    PROVE  KernTypes' /\ SchedTypes' /\ workQ' = workQ
<1> USE DEF othersThan, KernelAt
<1>1. CASE ExitFromInt
    BY <1>1, SameTypes DEF ExitFromInt, SchedTypes, KernelStates
<1>2. CASE ExitToCaller
    BY <1>2, SameTypes DEF ExitToCaller, SchedTypes, KernelStates
<1>3. CASE SaveTaskContext
  <2>1. KernTypes'
      BY <1>3 DEF SaveTaskContext, KernTypes
  <2> QED BY <1>3, <2>1 DEF SaveTaskContext, SchedTypes, KernelStates
<1>4. CASE SwitchTasks
  <2>1. taskIdCurrent' \in Tasks
      BY <1>4 DEF SwitchTasks, KernTypes
  <2>2. kernelIsIdle' \in BOOLEAN
      BY <1>4 DEF SwitchTasks, SchedTypes
  <2> QED
    BY <1>4, <2>1, <2>2, SameTypes DEF SwitchTasks, SchedTypes, KernelStates
<1>5. CASE Dispatch
  <2>1. KernTypes'
      BY <1>5, SameTypes DEF Dispatch
  <2>2. intOff' \in BOOLEAN
    <3>1. savedIntOff[taskIdCurrent] \in BOOLEAN
        BY DEF SchedTypes
    <3> QED BY <1>5, <3>1 DEF Dispatch, LoadFlags
  <2>3. savedIntOff' \in [Tasks -> BOOLEAN]
    <3>1. \/ savedIntOff' = savedIntOff
          \/ savedIntOff' = [savedIntOff EXCEPT ![taskIdCurrent] = FALSE]
        BY <1>5 DEF Dispatch, LoadFlags
    <3> QED BY <3>1 DEF SchedTypes
  <2>4. kpc' \in KernelStates
      BY <1>5 DEF Dispatch, KernelStates
  <2> QED BY <1>5, <2>1, <2>2, <2>3, <2>4 DEF Dispatch, SchedTypes
<1>6. CASE NoTaskReady
  <2>1. KernTypes'
      BY <1>6, SameTypes DEF NoTaskReady
  <2>2. kernelIsIdle' \in BOOLEAN
      BY <1>6 DEF NoTaskReady, SchedTypes
  <2>3. kpc' \in KernelStates
      BY <1>6 DEF NoTaskReady, KernelStates
  <2> QED BY <1>6, <2>1, <2>2, <2>3 DEF NoTaskReady, SchedTypes
<1>7. CASE WorkDone
    BY <1>7, SameTypes DEF WorkDone, SchedTypes, KernelStates
<1> USE DEF loopVars, Todo
<1>8. todo # <<>> => Head(todo) \in TodoItems /\ Tail(todo) \in Seq(TodoItems)
    BY DEF SchedTypes
<1>9. CASE FlushLoop
  <2>1. PICK q \in PendQs : q = Head(todo)[2]
      BY <1>8, <1>9, TodoShape DEF FlushLoop
  <2>2. KernTypes'
    <3>1. CASE pendQ[q] # <<>>
        BY <1>9, <2>1, <3>1, UnpendTypes DEF FlushLoop, vmxPendQFlush
    <3>2. CASE pendQ[q] = <<>>
        BY <1>9, <2>1, <3>2, SameTypes DEF FlushLoop
    <3> QED BY <3>1, <3>2
  <2>3. todo' = todo \/ todo' = Tail(todo)
      BY <1>9 DEF FlushLoop
  <2> QED BY <1>8, <1>9, <2>2, <2>3 DEF FlushLoop, SchedTypes
<1>10. CASE TerminateLoop
  <2>1. PICK q \in PendQs : q = Head(todo)[2]
      BY <1>8, <1>10, TodoShape DEF TerminateLoop
  <2>2. KernTypes'
    <3>1. CASE pendQ[q] # <<>>
        BY <1>10, <2>1, <3>1, UnpendTypes DEF TerminateLoop, vmxPendQTerminate
    <3>2. CASE pendQ[q] = <<>>
        BY <1>10, <2>1, <3>2, SameTypes DEF TerminateLoop
    <3> QED BY <3>1, <3>2
  <2>3. todo' = todo \/ todo' = Tail(todo)
      BY <1>10 DEF TerminateLoop
  <2> QED BY <1>8, <1>10, <2>2, <2>3 DEF TerminateLoop, SchedTypes
<1>11. CASE ExpireLoop
  <2>1. KernTypes'
      BY <1>11, ExpireTypes, SameTypes DEF ExpireLoop
  <2>2. todo' = todo \/ todo' = Tail(todo)
      BY <1>11 DEF ExpireLoop
  <2> QED BY <1>8, <1>11, <2>1, <2>2 DEF ExpireLoop, SchedTypes
<1>12. CASE RoundRobin
  <2>1. taskIdCurrent \in Tasks
      BY DEF SchedTypes
  <2>2. KernTypes'
      BY <1>12, <2>1, YieldTypes, SameTypes DEF RoundRobin
  <2>3. timeSlice' \in [Tasks -> Nat]
    <3>1. \/ timeSlice' = timeSlice
          \/ timeSlice' = [timeSlice EXCEPT ![taskIdCurrent] = 0]
          \/ timeSlice' = [timeSlice EXCEPT ![taskIdCurrent] = timeSlice[taskIdCurrent] + 1]
        BY <1>12 DEF RoundRobin
    <3>2. timeSlice \in [Tasks -> Nat]
        BY DEF SchedTypes
    <3> QED BY <2>1, <3>1, <3>2
  <2> QED
    BY <1>8, <1>12, <2>2, <2>3 DEF RoundRobin, SchedTypes
<1> QED
  BY <1>1, <1>2, <1>3, <1>4, <1>5, <1>6, <1>7, <1>9, <1>10, <1>11, <1>12
     DEF SchedStep

\* vmxExit, vmxTaskReschedule, dispatch, workQDoWork and the loops.
LEMMA StepRuns ==
    ASSUME KernTypes, SchedTypes, KernInv, SchedBase, SchedStep
    PROVE  KernInv' /\ SchedBase' /\ RunsRight'
<1> USE DEF othersThan, KernelAt
<1>1. CASE ExitFromInt
  <2>1. KernInv' /\ todo' = <<>> /\ intr /\ intr' /\ kpc' \in {"user", "work"}
      BY <1>1, SameQueues DEF ExitFromInt, kernVars
  <2> QED BY <2>1 DEF SchedBase, RunsRight
<1>2. CASE ExitToCaller
  <2>1. KernInv' /\ todo' = <<>> /\ ~intr /\ ~intr' /\ kpc = "exit" /\ kpc' \in {"user", "work"}
        /\ kernelIsIdle' = kernelIsIdle /\ taskIdCurrent' = taskIdCurrent
      BY <1>2, SameQueues DEF ExitToCaller, kernVars
  <2>2. taskIdCurrent' = readyHead' \/ Locked'
      BY <1>2 DEF ExitToCaller, kernVars, readyHead, Locked, Ready
  <2>3. ~kernelIsIdle'
      BY <2>1 DEF SchedBase
  <2> QED BY <2>1, <2>2, <2>3 DEF SchedBase, RunsRight
<1>3. CASE SaveTaskContext
  <2>1. KernInv'
      BY <1>3, SameQueues DEF SaveTaskContext
  <2>2. todo' = <<>> /\ ~intr' /\ kpc' = "resched"
      BY <1>3 DEF SaveTaskContext
  <2> QED BY <2>1, <2>2 DEF SchedBase, RunsRight
<1>4. CASE SwitchTasks
  <2>1. KernInv' /\ todo' = <<>> /\ intr' = intr /\ kpc' = "dispatch"
        /\ kpc \in {"resched", "recheck"}
      BY <1>4, SameQueues DEF SwitchTasks, kernVars
  <2>2. ~intr /\ ~kernelIsIdle'
      BY <1>4, <2>1 DEF SwitchTasks, SchedBase
  <2>3. taskIdCurrent' = readyHead'
      BY <1>4 DEF SwitchTasks, kernVars, readyHead, QFirst
  <2> QED BY <2>1, <2>2, <2>3 DEF SchedBase, RunsRight
<1>5. CASE Dispatch
  <2>1. KernInv' /\ todo' = <<>> /\ intr' = intr /\ kpc = "dispatch" /\ kpc' \in {"user", "rework"}
        /\ kernelIsIdle' = kernelIsIdle
      BY <1>5, SameQueues DEF Dispatch, kernVars
  <2>2. ~intr /\ ~kernelIsIdle /\ taskIdCurrent = readyHead
      BY <2>1 DEF SchedBase
  <2>3. taskIdCurrent' = readyHead'
      BY <1>5, <2>2 DEF Dispatch, kernVars, readyHead
  <2> QED BY <2>1, <2>2, <2>3 DEF SchedBase, RunsRight
<1>6. CASE NoTaskReady
  <2>1. KernInv' /\ todo' = <<>> /\ intr' = intr /\ readyQ' = <<>>
        /\ kpc \in {"resched", "recheck"}
      BY <1>6, SameQueues DEF NoTaskReady, kernVars
  <2>2. ~intr
      BY <2>1 DEF SchedBase
  <2>3. \/ kpc' = "user" /\ kernelIsIdle'
        \/ kpc' = "rework" /\ ~kernelIsIdle'
      BY <1>6, <2>1, <2>2 DEF NoTaskReady, SchedBase
  <2> QED BY <2>1, <2>2, <2>3 DEF SchedBase, RunsRight
<1>7. CASE WorkDone
  <2>1. KernInv' /\ todo' = <<>> /\ intr' = intr /\ kernelIsIdle' = kernelIsIdle
      BY <1>7, SameQueues DEF WorkDone, kernVars
  <2>2. CASE kpc = "work"
    <3>1. kpc' = "exit"
        BY <1>7, <2>2 DEF WorkDone
    <3> QED BY <2>1, <2>2, <3>1 DEF SchedBase, RunsRight
  <2>3. CASE kpc = "rework"
    <3>1. kpc' = "recheck"
        BY <1>7, <2>3 DEF WorkDone
    <3> QED BY <2>1, <2>3, <3>1 DEF SchedBase, RunsRight
  <2> QED BY <1>7, <2>2, <2>3 DEF WorkDone
<1>8. ASSUME todo # <<>>, UNCHANGED loopVars PROVE SchedBase' /\ RunsRight'
  <2>1. kpc \in {"exit", "work", "rework"}
      BY <1>8 DEF SchedBase, SchedTypes, KernelStates
  <2> QED BY <1>8, <2>1 DEF loopVars, SchedBase, RunsRight
<1> USE DEF Todo
<1>9. todo # <<>> => Head(todo) \in TodoItems
    BY DEF SchedTypes
<1>10. CASE FlushLoop
  <2>1. PICK q \in PendQs : q = Head(todo)[2]
      BY <1>9, <1>10, TodoShape DEF FlushLoop
  <2>2. KernInv'
    <3>1. CASE pendQ[q] # <<>>
        BY <1>10, <2>1, <3>1, UnpendQueues DEF FlushLoop, vmxPendQFlush
    <3>2. CASE pendQ[q] = <<>>
        BY <1>10, <2>1, <3>2, SameQueues DEF FlushLoop, kernVars
    <3> QED BY <3>1, <3>2
  <2> QED BY <1>8, <1>10, <2>2 DEF FlushLoop
<1>11. CASE TerminateLoop
  <2>1. PICK q \in PendQs : q = Head(todo)[2]
      BY <1>9, <1>11, TodoShape DEF TerminateLoop
  <2>2. KernInv'
    <3>1. CASE pendQ[q] # <<>>
        BY <1>11, <2>1, <3>1, UnpendQueues DEF TerminateLoop, vmxPendQTerminate
    <3>2. CASE pendQ[q] = <<>>
        BY <1>11, <2>1, <3>2, SameQueues DEF TerminateLoop, kernVars
    <3> QED BY <3>1, <3>2
  <2> QED BY <1>8, <1>11, <2>2 DEF TerminateLoop
<1>12. CASE ExpireLoop
  <2>1. KernInv'
      BY <1>12, ExpireQueues, SameQueues DEF ExpireLoop, kernVars
  <2> QED BY <1>8, <1>12, <2>1 DEF ExpireLoop
<1>13. CASE RoundRobin
  <2>1. taskIdCurrent \in Tasks
      BY DEF SchedTypes
  <2>2. KernInv'
      BY <1>13, <2>1, YieldQueues, SameQueues DEF RoundRobin, kernVars
  <2> QED BY <1>8, <1>13, <2>2 DEF RoundRobin
<1> QED
  BY <1>1, <1>2, <1>3, <1>4, <1>5, <1>6, <1>7, <1>10, <1>11, <1>12, <1>13
     DEF SchedStep

\* What the loops of a section may tell a task that they wake.
Told(u) == retVal'[u] \in {retVal[u], "OK"} \/ \E q \in PendQs : u \in Elements(pendQ[q])

\* Nobody begins to wait, and only a task that waits can fail.
LEMMA StepWakes ==
    ASSUME KernTypes, SchedTypes, KernInv, SchedStep
    PROVE  /\ QueuesShrink /\ lockCount' = lockCount
           /\ \A u \in Tasks : Ready(u) => Ready(u)'
           /\ \A u \in Tasks : Told(u)
<1> USE DEF othersThan
<1>1. CASE UNCHANGED <<pendQ, status, retVal, lockCount>>
    BY <1>1, SameShrink DEF Ready, Told
<1>2. CASE SaveTaskContext
  <2>1. pendQ' = pendQ /\ status' = status /\ lockCount' = lockCount
        /\ retVal' = [retVal EXCEPT ![taskIdCurrent] = "OK"]
      BY <1>2 DEF SaveTaskContext
  <2>2. \A u \in Tasks : retVal'[u] \in {retVal[u], "OK"}
      BY <2>1 DEF KernTypes
  <2> QED BY <2>1, <2>2, SameShrink DEF Ready, Told
<1>3. ASSUME NEW q \in PendQs, NEW ret, pendQ[q] # <<>>, unpend(q, ret)
      PROVE  /\ QueuesShrink /\ \A u \in Tasks : Ready(u) => Ready(u)'
             /\ \A u \in Tasks : Told(u)
  <2>1. QueuesShrink
      BY <1>3, UnpendShrink DEF KernInv
  <2>2. PICK w : w = Head(pendQ[q])
      OBVIOUS
  <2>3. w \in Tasks /\ w \in Elements(pendQ[q])
      BY <1>3, <2>2, TailQueue DEF KernInv, PendOK
  <2>4. /\ retVal' = [retVal EXCEPT ![w] = ret]
        /\ status' = [status EXCEPT ![w] = @ \ {"pend", "delay"}]
      BY <1>3, <2>2 DEF unpend
  <2>5. \A u \in Tasks : Ready(u) => Ready(u)'
      BY <2>4 DEF Ready, KernTypes
  <2>6. \A u \in Tasks : Told(u)
      BY <2>3, <2>4 DEF Told, KernTypes
  <2> QED BY <2>1, <2>5, <2>6
<1> USE DEF Todo, loopVars
<1>4. todo # <<>> => Head(todo) \in TodoItems
    BY DEF SchedTypes
<1>5. CASE FlushLoop
  <2>1. PICK q \in PendQs : q = Head(todo)[2]
      BY <1>4, <1>5, TodoShape DEF FlushLoop
  <2>2. CASE pendQ[q] # <<>>
      BY <1>3, <1>5, <2>1, <2>2 DEF FlushLoop, vmxPendQFlush
  <2>3. CASE pendQ[q] = <<>>
      BY <1>1, <1>5, <2>1, <2>3 DEF FlushLoop, kernVars
  <2> QED BY <2>2, <2>3
<1>6. CASE TerminateLoop
  <2>1. PICK q \in PendQs : q = Head(todo)[2]
      BY <1>4, <1>6, TodoShape DEF TerminateLoop
  <2>2. CASE pendQ[q] # <<>>
      BY <1>3, <1>6, <2>1, <2>2 DEF TerminateLoop, vmxPendQTerminate
  <2>3. CASE pendQ[q] = <<>>
      BY <1>1, <1>6, <2>1, <2>3 DEF TerminateLoop, kernVars
  <2> QED BY <2>2, <2>3
<1>7. CASE ExpireLoop
  <2>1. CASE Expired
    <3>1. expire /\ lockCount' = lockCount
        BY <1>7, <2>1 DEF ExpireLoop
    <3>2. QueuesShrink
        BY <2>1, <3>1, ExpireShrink DEF KernInv
    <3>3. PICK w \in Tasks : w = Head(tickQ)
        BY <2>1 DEF KernTypes, Expired
    <3>4. /\ status' = [status EXCEPT ![w] = @ \ {"pend", "delay"}]
          /\ \/ retVal' \in {retVal, [retVal EXCEPT ![w] = "OK"]}
             \/ /\ retVal' = [retVal EXCEPT ![w] = "ERROR"] /\ "pend" \in status[w]
        BY <3>1, <3>3 DEF expire
    <3>5. \A u \in Tasks : Ready(u) => Ready(u)'
        BY <3>4 DEF Ready, KernTypes
    <3>6. "pend" \in status[w] => \E q \in PendQs : w \in Elements(pendQ[q])
        BY DEF KernInv, PendOK
    <3>7. \A u \in Tasks : Told(u)
        BY <3>4, <3>6 DEF Told, KernTypes
    <3> QED BY <3>1, <3>2, <3>5, <3>7
  <2>2. CASE ~Expired
      BY <1>1, <1>7, <2>2 DEF ExpireLoop, kernVars
  <2> QED BY <2>1, <2>2
<1>8. CASE RoundRobin
  <2>1. UNCHANGED <<pendQ, status, retVal, lockCount>>
      BY <1>8 DEF RoundRobin, yield, kernVars
  <2> QED BY <1>1, <2>1
<1>9. ExitFromInt \/ ExitToCaller \/ SwitchTasks \/ Dispatch \/ NoTaskReady \/ WorkDone =>
         UNCHANGED <<pendQ, status, retVal, lockCount>>
    BY DEF ExitFromInt, ExitToCaller, SwitchTasks, Dispatch, NoTaskReady, WorkDone, kernVars
<1> QED BY <1>1, <1>2, <1>5, <1>6, <1>7, <1>8, <1>9 DEF SchedStep
=============================================================================
