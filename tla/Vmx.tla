-------------------------------- MODULE Vmx ---------------------------------
(***************************************************************************)
(* The kernel as a whole: tasks and interrupt handlers that make arbitrary *)
(* legal calls, the kernel sections those start, and the jobs handlers     *)
(* post while a section is under way.                                      *)
(***************************************************************************)
EXTENDS VmxTask, FiniteSets

CONSTANTS
    InitialPriority,  \* of each task
    TaskCalls,        \* the calls tasks make
    IsrCalls,         \* the calls interrupt handlers make
    MaxWork           \* bound: jobs in the work queue

ASSUME VmxAssumption ==
    /\ IsFiniteSet(Tasks) /\ Tasks # {}
    /\ InitialPriority \in [Tasks -> Priorities]
    /\ MaxWork \in Nat

vars == <<kernVars, schedVars, semVars, safes>>

\* The tasks have been spawned and started, by a root task that has exited,
\* and the semaphores were created: binary ones full, counting ones with 0.
Init ==
    /\ status = [t \in Tasks |-> {}]
    /\ priority = InitialPriority
    /\ retVal = [t \in Tasks |-> "OK"]
    /\ readyQ \in {q \in [1..Cardinality(Tasks) -> Tasks] :
                      Elements(q) = Tasks /\ QSorted(q, priority)}
    /\ pendQ = [q \in PendQs |-> <<>>]
    /\ tickQ = <<>>
    /\ left = [t \in Tasks |-> 0]
    /\ taskIdCurrent = Head(readyQ)
    /\ kernelIsIdle = FALSE
    /\ kpc = "user" /\ todo = <<>> /\ workQ = <<>>
    /\ intr = FALSE
    /\ intOff = FALSE
    /\ savedIntOff = [t \in Tasks |-> FALSE]
    /\ lockCount = [t \in Tasks |-> 0]
    /\ timeSlice = [t \in Tasks |-> 0]
    /\ semValid = [s \in Sems |-> TRUE]
    /\ semOwner = [s \in Sems |-> NULL]
    /\ semCount = [s \in Sems |-> 0]
    /\ recurse = [s \in Sems |-> 0]
    /\ code = [t \in Tasks |-> <<>>]
    /\ safeCount = [t \in Tasks |-> 0]
    /\ safes = [t \in Tasks |-> 0]

OpsOn(v) == {<<"suspend", v>>, <<"resume", v>>, <<"undelay", v>>}
              \cup {<<"priority", v, p>> : p \in Priorities}
Ops == UNION {OpsOn(v) : v \in Tasks}

Jobs == Ops \cup {<<"tick">>} \cup ({"give", "flush"} \X Sems)

MayCall(name) == name \in (IF intr THEN IsrCalls ELSE TaskCalls)

-----------------------------------------------------------------------------
(***************************************************************************)
(* Interrupt handlers that find kernelState TRUE.                          *)
(***************************************************************************)
\* OBJ_VERIFY of what the job is about.
Verified(j) ==
    CASE j[1] \in TaskOps -> Alive(j[2])
      [] j[1] \in {"give", "flush"} -> semValid[j[2]]
      [] OTHER -> TRUE

CanPost(j) ==
    /\ kernelState /\ todo = <<>> /\ ~intOff
    /\ j[1] \in IsrCalls
    /\ Len(workQ) < MaxWork

\* Bug: the object of a deferred call is not verified.
PostUnverified(j) ==
    /\ CanPost(j)
    /\ workQ' = Append(workQ, j)
    /\ UNCHANGED <<kernVars, semVars, safes, taskIdCurrent, kernelIsIdle, kpc,
                   todo, intr, intOff, savedIntOff, lockCount, timeSlice>>

\* The handler defers its call.  Loops do not look at the work queue, so what
\* is posted during a loop may as well be posted behind it.
Post(j) ==
    /\ CanPost(j) /\ Verified(j)
    /\ j[1] = "give" /\ SemType[j[2]] = "counting" => semCount[j[2]] < MaxCount
    /\ workQ' = Append(workQ, j)
    /\ UNCHANGED <<kernVars, semVars, safes, taskIdCurrent, kernelIsIdle, kpc,
                   todo, intr, intOff, savedIntOff, lockCount, timeSlice>>

\* workQDoWork calls the job it has taken.  Jobs to give or flush a mutex do
\* nothing.
RunJob ==
    /\ TakeJob
    /\ LET j == Head(workQ) IN
       \/ /\ j[1] = "tick"
          /\ advance /\ todo' = TickLoops
          /\ UNCHANGED semVars
       \/ /\ j[1] = "give" /\ semValid[j[2]] /\ SemType[j[2]] # "mutex"
          /\ GiveKernel(j[2])
          /\ UNCHANGED <<todo, semValid, recurse, code, safeCount>>
       \/ /\ j[1] = "flush" /\ SemType[j[2]] # "mutex"
          /\ todo' = Flush(j[2])
          /\ UNCHANGED <<kernVars, semVars>>
       \/ /\ j[1] \in {"give", "flush"}
          /\ SemType[j[2]] = "mutex" \/ (j[1] = "give" /\ ~semValid[j[2]])
          /\ UNCHANGED <<todo, kernVars, semVars>>
       \/ /\ j[1] \in TaskOps
          /\ TaskKernel(j)
          /\ UNCHANGED <<todo, semVars>>
    /\ UNCHANGED <<lockCount, timeSlice, safes>>

\* tickAnnounce, called by the clock's handler with kernelState FALSE.
Tick ==
    /\ InHandler
    /\ Section(TickLoops)
    /\ advance
    /\ UNCHANGED <<semVars, safes>>
    /\ SectionOnly

-----------------------------------------------------------------------------
SemCall ==
    \/ \E t \in Tasks, s \in Sems :
          \/ MayCall("take") /\ TakeFull(t, s)
          \/ MayCall("take") /\ TakeAgain(t, s)
          \/ MayCall("takeNoWait") /\ TakeNoWait(t, s)
          \/ MayCall("take")
             /\ \E n \in 1..WAIT_FOREVER : TakeWait(t, s, n)
          \/ MayCall("giveM") /\ GiveRecurse(t, s)
          \/ MayCall("giveM") /\ GiveMutex(t, s)
          \/ MayCall("delete") /\ SemDelete(t, s)
    \/ \E t \in Tasks : TakeReturns(t)
    \/ \E s \in Sems :
          \/ MayCall("give") /\ Give(s)
          \/ MayCall("flush") /\ SemFlush(s)

TaskCall ==
    \E t \in Tasks :
       \/ \E op \in Ops : MayCall(op[1]) /\ TaskVerified(t, op)
       \/ TaskApplied(t)
       \/ MayCall("delay") /\ \E n \in 0..MaxTimeout : taskDelay(t, n)
       \/ taskLock(t) \/ taskUnlock(t)
       \/ taskSafe(t) \/ taskUnsafe(t)
       \/ FlushSafety(t)
       \/ \E v \in Tasks :
             \/ MayCall("destroy") /\ DestroyCalled(t, v, FALSE)
             \/ MayCall("force") /\ DestroyCalled(t, v, TRUE)
       \/ DestroyTooLate(t) \/ DestroyWaits(t) \/ DestroyForces(t)
       \/ DestroySuspends(t) \/ DestroyKills(t)

Kernel ==
    \/ (SchedStep /\ UNCHANGED <<semVars, safes>>)
    \/ Disown /\ UNCHANGED safes
    \/ RunJob

HandlerStarts == IsrCalls # {} /\ IntEnt /\ UNCHANGED <<semVars, safes>>
HandlerEnds   == IntExit /\ UNCHANGED <<semVars, safes>>

Interrupt ==
    \/ HandlerStarts \/ HandlerEnds
    \/ "tick" \in IsrCalls /\ Tick
    \/ \E op \in Ops : op[1] \in IsrCalls /\ TaskFromHandler(op)
    \/ \E j \in Jobs : Post(j)

Next == (SemCall /\ UNCHANGED safes) \/ TaskCall \/ Kernel \/ Interrupt

Spec == Init /\ [][Next]_vars

\* The code of the kernel goes on; now and then it finds the work queue empty,
\* in workQDoWork and then at its exit, as handlers do not post a job in each of
\* these moments forever; the clock's handler is called again and again,
\* announces the tick, and comes to its end.  No task has to do anything.
Fairness ==
    /\ WF_vars(Kernel)
    /\ SF_vars(WorkDone /\ UNCHANGED <<semVars, safes>>)
    /\ SF_vars(Kernel /\ kpc' = "user")
    /\ SF_vars(HandlerStarts) /\ SF_vars(HandlerEnds)
    /\ SF_vars(("tick" \in IsrCalls /\ Tick) \/ Post(<<"tick">>))

FairSpec == Spec /\ Fairness

-----------------------------------------------------------------------------
Count(P(_), S) == Cardinality({x \in S : P(x)})
Has(t, step) == \E i \in DOMAIN code[t] : code[t][i] = step
NoDuplicates(q) == Cardinality(Elements(q)) = Len(q)

Steps == ({"taken"} \X Sems) \cup Ops \cup ({"destroy"} \X Tasks \X BOOLEAN)
           \cup ({"kill"} \X Tasks)
           \cup {<<x>> : x \in {"lock", "unlock", "unsafe", "flushSafety"}}

TypeOK ==
    /\ status \in [Tasks -> SUBSET Flags]
    /\ priority \in [Tasks -> Priorities]
    /\ retVal \in [Tasks -> {"OK", "ERROR"}]
    /\ readyQ \in Seq(Tasks) /\ tickQ \in Seq(Tasks)
    /\ pendQ \in [PendQs -> Seq(Tasks)]
    /\ left \in [Tasks -> 0..MaxTimeout]
    /\ taskIdCurrent \in Tasks
    /\ kernelIsIdle \in BOOLEAN /\ intr \in BOOLEAN /\ intOff \in BOOLEAN
    /\ kpc \in KernelStates
    /\ todo \in Seq(({"flush", "terminate"} \X PendQs) \cup ({"disown"} \X Sems)
                      \cup {<<"expire">>, <<"slice">>})
    /\ workQ \in Seq(Jobs)
    /\ savedIntOff \in [Tasks -> BOOLEAN]
    /\ lockCount \in [Tasks -> Nat]
    /\ timeSlice \in [Tasks -> Nat]
    /\ semValid \in [Sems -> BOOLEAN]
    /\ semOwner \in [Sems -> Tasks \cup {NULL}]
    /\ semCount \in [Sems -> Nat]
    /\ recurse \in [Sems -> 0..MaxRecurse]
    /\ code \in [Tasks -> Seq(Steps)]
    /\ safeCount \in [Tasks -> 0..UnsignedMax]
    /\ safes \in [Tasks -> 0..MaxSafe]

\* A task is in the tick queue exactly if its delay flag is set: a timeout that
\* is cancelled (vmxUndelay, vmxPendQGet, vmxDelete, ...) leaves the queue.
TickQMatches == \A t \in Tasks :
    "delay" \in status[t] <=> t \in Elements(tickQ)

\* The three kinds of queues and the status flags tell the same, at every step
\* of every kernel section and job: a task is ready, or waits in one queue, or
\* is dead and in none, and no queue has it twice.
QueuesMatchStatus ==
    /\ \A t \in Tasks :
          /\ Ready(t) <=> t \in Elements(readyQ)
          /\ Count(LAMBDA q : t \in Elements(pendQ[q]), PendQs)
               = (IF "pend" \in status[t] THEN 1 ELSE 0)
    /\ TickQMatches
    /\ NoDuplicates(readyQ) /\ NoDuplicates(tickQ)
    /\ \A q \in PendQs : NoDuplicates(pendQ[q])

\* Priorities change while tasks wait in queues and new ones arrive, and the
\* queues stay sorted: the head of the ready queue is a task of the highest
\* priority, and the tick queue can stop at the first task that is not due.
QueuesSorted ==
    /\ QSorted(readyQ, priority)
    /\ QSorted(tickQ, left)
    /\ \A q \in PendQs \ FifoSems : QSorted(pendQ[q], priority)

\* Whenever a task executes, it is the first of the ready queue, or it has
\* preemption off, or it is just about to enter the kernel to turn it on; and
\* when the processor idles, no task is ready.  Handlers make tasks ready and
\* suspend the one they interrupted, and no such change is lost.
HighestRuns == kpc = "user" /\ ~intr =>
    IF kernelIsIdle THEN readyQ = <<>>
    ELSE \/ taskIdCurrent = readyHead
         \/ Locked
         \/ Ready(taskIdCurrent) /\ At(taskIdCurrent, "flushSafety")

\* No exit of the kernel leaves a job behind (vmxExit, dispatch and noTaskReady
\* each have a test of their own).
NoJobLeft == ~kernelState => workQ = <<>>

\* A job finds the task or semaphore alive that was verified when the handler
\* posted it: nothing is deleted between the post and the call.
JobTargetsAlive == \A i \in DOMAIN workQ : Verified(workQ[i])

\* Nobody waits for a semaphore that is full, whoever gave it, took it, timed
\* out or was deleted in whatever order; and nobody waits for one that was
\* deleted.
NoNeedlessWait == \A s \in Sems : pendQ[s] # <<>> =>
    IF semValid[s] THEN ~Full(s)
    ELSE \E i \in DOMAIN todo : todo[i] = <<"terminate", s>>

\* A take of a mutex that had to wait returns OK exactly if the mutex belongs
\* to the caller then, although the owner, the timeout and the result are set
\* by different tasks and handlers.
TakeTellsOwner == \A t \in Tasks :
    At(t, "taken") /\ SemType[Arg(t, 2)] = "mutex" =>
        (retVal[t] = "OK" <=> semOwner[Arg(t, 2)] = t)

\* safeCount counts what it should: the taskSafe calls of the task, those that
\* the kernel made for it, the delete-safe mutexes it owns and the task that is
\* deleting it.
SafeCountBalanced ==
    (\A i \in DOMAIN todo : todo[i][1] # "disown") =>
    \A t \in Tasks : Alive(t) =>
        safeCount[t] =
            safes[t]
            + (IF Has(t, <<"unsafe">>) THEN 1 ELSE 0)
            + Count(LAMBDA s : semValid[s] /\ semOwner[s] = t, DeleteSafe)
            + Count(LAMBDA d : Has(d, <<"kill", t>>), Tasks)

\* "Now only one cadidate is selected for deletion": of all tasks that want to
\* delete a task, one gets to do it, and the others do not touch what is left.
OneKiller == \A v \in Tasks :
    /\ Count(LAMBDA d : Has(d, <<"kill", v>>), Tasks) <= 1
    /\ ~Alive(v) => \A d \in Tasks : ~Has(d, <<"kill", v>>)

\* Who waits to delete a task waits for a reason: the task is alive and safe, or
\* has preemption off, or is about to wake the waiters.
DeleterHasReason == \A v \in Tasks : ~kernelState /\ pendQ[v] # <<>> =>
    /\ Alive(v)
    /\ safeCount[v] > 0 \/ lockCount[v] > 0 \/ Has(v, <<"flushSafety">>)

\* Every delay and every timeout comes to an end, also when gives, flushes and
\* other timeouts take tasks out of the tick queue meanwhile.
DelayEnds == \A t \in Tasks :
    "delay" \in status[t] ~> "delay" \notin status[t]

\* With round robin, a ready task among tasks of its priority gets its turn,
\* although none of them ever gives up the processor.
TurnComes == \A t \in Tasks :
    Ready(t) ~> (taskIdCurrent = t \/ ~Ready(t))

\* A task that owns a delete-safe mutex is not deleted.
OwnerNotDeleted == \A s \in DeleteSafe :
    semValid[s] /\ semOwner[s] # NULL => Alive(semOwner[s])

\* taskSuspend, taskResume and taskPrioritySet act on a task.
VerifiedStillAlive == \A t \in Tasks, name \in TaskOps :
    At(t, name) => Alive(Arg(t, 2))

\* INT_LOCK and INT_UNLOCK come in pairs: a task's own code is never executed
\* with interrupts off.
CallsUnlock == ~kernelState => ~intOff
=============================================================================
