------------------------------ MODULE VmxProof ------------------------------
(***************************************************************************)
(* Proofs about module Vmx, for every set of tasks and semaphores and all  *)
(* bounds.                                                                 *)
(*                                                                         *)
(* Jobs.  No way out of the kernel leaves a job behind, and a job finds    *)
(* alive what was verified when it was posted.  The second needs the       *)
(* first: what makes a task dead or a semaphore invalid happens with       *)
(* kernelState FALSE, and then no job is waiting.  With kernelState TRUE   *)
(* the routines of the kernel move tasks around but let them live          *)
(* (KeepsAlive), whatever the queues contain.                              *)
(*                                                                         *)
(* Types.  They hold without any other invariant.                          *)
(*                                                                         *)
(* Queues and scheduler.  The flags of a task tell which queues it is in,  *)
(* each queue has it once and is sorted (KernInv), and from that it        *)
(* follows how the scheduler finds the task to run (SchedInv): a task      *)
(* that runs is ready, so whoever suspends, delays or pends it takes the   *)
(* right nodes out of the right queues.                                    *)
(*                                                                         *)
(* Deletion.  A call in progress is one of a few sequences of steps        *)
(* (CodeOK), so is what a kernel section has yet to do (LoopsOK), and a    *)
(* dead task is in no call and waits for nothing (DeadOK).                 *)
(***************************************************************************)
EXTENDS Vmx, VmxSchedProof

StatusOK == status \in [Tasks -> SUBSET Flags]

\* Of the state that the two invariants mention, what is needed of its type.
TypesOK ==
    /\ StatusOK
    /\ semValid \in [Sems -> BOOLEAN]
    /\ workQ \in Seq(Jobs)

JobInv == TypesOK /\ NoJobLeft /\ JobTargetsAlive

\* What a routine of the kernel does to the tasks.
KeepsAlive == StatusOK' /\ \A t \in Tasks : Alive(t) => Alive(t)'

-----------------------------------------------------------------------------
(***************************************************************************)
(* The routines of VmxLib.                                                 *)
(***************************************************************************)
\* Flags other than "dead" come and go without a task being made dead.
LEMMA FlagsChange ==
    ASSUME StatusOK, NEW t, NEW S,
           t \in Tasks => S \subseteq Flags /\ ("dead" \in S => ~Alive(t)),
           status' = [status EXCEPT ![t] = S]
    PROVE  KeepsAlive
BY DEF KeepsAlive, StatusOK, Alive

\* A routine that leaves the flags alone.
LEMMA NoChange == ASSUME StatusOK, UNCHANGED status PROVE KeepsAlive
BY DEF KeepsAlive, StatusOK, Alive

\* No routine but vmxDelete makes a task dead.
LEMMA SuspendAlive == ASSUME StatusOK, NEW t, vmxSuspend(t) PROVE KeepsAlive
BY FlagsChange DEF vmxSuspend, StatusOK, Alive, Flags

\* vmxResume.
LEMMA ResumeAlive == ASSUME StatusOK, NEW t, vmxResume(t) PROVE KeepsAlive
BY FlagsChange DEF vmxResume, StatusOK, Alive, Flags

\* vmxUndelay.
LEMMA UndelayAlive == ASSUME StatusOK, NEW t, vmxUndelay(t) PROVE KeepsAlive
BY FlagsChange DEF vmxUndelay, StatusOK, Alive, Flags

\* vmxPrioritySet.
LEMMA PriorityAlive ==
    ASSUME StatusOK, NEW t, NEW p, vmxPrioritySet(t, p) PROVE KeepsAlive
BY NoChange DEF vmxPrioritySet

\* taskDelay with WAIT_NONE.
LEMMA YieldAlive == ASSUME StatusOK, NEW t, yield(t) PROVE KeepsAlive
BY NoChange DEF yield

\* vmxDelay.
LEMMA DelayAlive == ASSUME StatusOK, NEW t, NEW n, vmxDelay(t, n) PROVE KeepsAlive
BY FlagsChange DEF vmxDelay, StatusOK, Alive, Flags

\* vmxPendQPut.
LEMMA PendAlive ==
    ASSUME StatusOK, NEW q, NEW t, NEW n, vmxPendQPut(q, t, n) PROVE KeepsAlive
<1>1. CASE n = WAIT_FOREVER
  BY <1>1, FlagsChange DEF vmxPendQPut, StatusOK, Alive, Flags
<1>2. CASE n # WAIT_FOREVER
  BY <1>2, FlagsChange DEF vmxPendQPut, StatusOK, Alive, Flags
<1> QED BY <1>1, <1>2

\* vmxPendQGet, and the loops of vmxPendQFlush and vmxPendQTerminate.
LEMMA UnpendAlive == ASSUME StatusOK, NEW q, NEW r, unpend(q, r) PROVE KeepsAlive
BY FlagsChange DEF unpend, StatusOK, Alive, Flags

\* vmxTickAnnounce: the clock.
LEMMA AdvanceAlive == ASSUME StatusOK, advance PROVE KeepsAlive
BY NoChange DEF advance

\* vmxTickAnnounce: a task whose time has come.
LEMMA ExpireAlive == ASSUME StatusOK, expire PROVE KeepsAlive
BY FlagsChange DEF expire, StatusOK, Alive, Flags

\* The routine of a deferred or direct call about a task.
LEMMA TaskKernelAlive ==
    ASSUME StatusOK, NEW op, op[1] \in TaskOps, TaskKernel(op) PROVE KeepsAlive
<1>1. CASE op[1] = "suspend"
  BY <1>1, SuspendAlive DEF TaskKernel
<1>2. CASE op[1] = "resume"
  BY <1>2, ResumeAlive DEF TaskKernel
<1>3. CASE op[1] = "undelay"
  BY <1>3, UndelayAlive DEF TaskKernel
<1>4. CASE op[1] = "priority"
  BY <1>4, PriorityAlive DEF TaskKernel
<1> QED BY <1>1, <1>2, <1>3, <1>4 DEF TaskOps

\* A give of a semaphore.
LEMMA GiveAlive == ASSUME StatusOK, NEW s, GiveKernel(s) PROVE KeepsAlive
BY UnpendAlive, NoChange DEF GiveKernel, vmxPendQGet, kernVars

\* vmxDelete keeps the type, and makes its task dead.
LEMMA DeleteType == ASSUME StatusOK, NEW t, vmxDelete(t) PROVE StatusOK'
BY DEF vmxDelete, StatusOK, Flags

-----------------------------------------------------------------------------
(***************************************************************************)
(* The two ways a step keeps the invariant.                                *)
(***************************************************************************)
\* With kernelState FALSE no job waits, and anything may be deleted.
Outside == kpc = "user" /\ workQ' = workQ /\ StatusOK'
             /\ semValid' \in [Sems -> BOOLEAN]

\* With kernelState TRUE nothing is deleted, and no exit leaves a job behind.
Inside == KeepsAlive /\ semValid' = semValid /\ (kpc' = "user" => workQ' = <<>>)

\* A call that starts with kernelState FALSE.
LEMMA OutsideKeeps == JobInv /\ Outside => JobInv'
BY DEF JobInv, Outside, TypesOK, NoJobLeft, JobTargetsAlive, kernelState

\* A job about a task names a task.
LEMMA JobShape ==
    ASSUME NEW j \in Jobs, j[1] \in TaskOps
    PROVE  j[2] \in Tasks
<1>1. CASE j \in Ops
  BY <1>1 DEF Ops, OpsOn
<1>2. CASE j = <<"tick">>
  BY <1>2 DEF TaskOps
<1>3. CASE j \in {"give", "flush"} \X Sems
  BY <1>3 DEF TaskOps
<1> QED BY <1>1, <1>2, <1>3 DEF Jobs

\* What was verified for a job stays so while no task dies.
LEMMA VerifiedStays ==
    ASSUME KeepsAlive, semValid' = semValid, NEW j \in Jobs, Verified(j)
    PROVE  Verified(j)'
<1>1. CASE j[1] \in TaskOps
  BY <1>1, JobShape DEF Verified, KeepsAlive
<1>2. CASE j[1] \notin TaskOps
  BY <1>2 DEF Verified
<1> QED BY <1>1, <1>2

\* The work queue stays, or loses its first job.
LEMMA InsideKeeps ==
    ASSUME JobInv, Inside,
           workQ' = workQ \/ (workQ # <<>> /\ workQ' = Tail(workQ))
    PROVE  JobInv'
<1>1. TypesOK'
  BY DEF JobInv, TypesOK, Inside, KeepsAlive
<1>2. ASSUME NEW i \in DOMAIN workQ'
      PROVE  \E k \in DOMAIN workQ : workQ'[i] = workQ[k]
  <2>1. CASE workQ' = workQ
    BY <1>2, <2>1
  <2>2. CASE workQ # <<>> /\ workQ' = Tail(workQ)
    <3>1. /\ DOMAIN workQ = 1..Len(workQ) /\ Len(workQ) \in Nat
          /\ DOMAIN workQ' = 1..(Len(workQ) - 1)
          /\ workQ'[i] = workQ[i + 1]
      BY <1>2, <2>2 DEF JobInv, TypesOK
    <3> QED BY <1>2, <3>1
  <2> QED BY <2>1, <2>2
<1>3. JobTargetsAlive'
  <2> SUFFICES ASSUME NEW i \in DOMAIN workQ' PROVE Verified(workQ[i])'
    BY DEF JobTargetsAlive
  <2>1. PICK j \in Jobs : workQ'[i] = j /\ Verified(j)
    BY <1>2 DEF JobInv, TypesOK, JobTargetsAlive
  <2>2. Verified(j)'
    BY <2>1, VerifiedStays DEF Inside
  <2> QED BY <2>1, <2>2 DEF Verified, Alive
<1>4. NoJobLeft'
  BY DEF NoJobLeft, Inside, kernelState
<1> QED BY <1>1, <1>3, <1>4 DEF JobInv

-----------------------------------------------------------------------------
(***************************************************************************)
(* Calls of tasks and handlers are made with kernelState FALSE.            *)
(***************************************************************************)
LEMMA SemCallOutside ==
    ASSUME JobInv, SemCall PROVE Outside
<1> USE DEF JobInv, TypesOK, Outside, SectionOnly, NoSection, semVars, schedVars,
            kernVars, Section, Free, At, Running, Caller, InHandler
<1>1. ASSUME NEW t \in Tasks, NEW s \in Sems, TakeFull(t, s) PROVE Outside
  BY <1>1 DEF TakeFull, StatusOK
<1>2. ASSUME NEW t \in Tasks, NEW s \in Sems, TakeAgain(t, s) PROVE Outside
  BY <1>2 DEF TakeAgain, StatusOK
<1>3. ASSUME NEW t \in Tasks, NEW s \in Sems, TakeNoWait(t, s) PROVE Outside
  BY <1>3 DEF TakeNoWait, StatusOK
<1>4. ASSUME NEW t \in Tasks, NEW s \in Sems, NEW n, TakeWait(t, s, n)
      PROVE  Outside
  BY <1>4, PendAlive DEF TakeWait, KeepsAlive
<1>5. ASSUME NEW t \in Tasks, TakeReturns(t) PROVE Outside
  BY <1>5 DEF TakeReturns, StatusOK
<1>6. ASSUME NEW t \in Tasks, NEW s \in Sems, GiveRecurse(t, s) PROVE Outside
  BY <1>6 DEF GiveRecurse, StatusOK
<1>7. ASSUME NEW t \in Tasks, NEW s \in Sems, GiveMutex(t, s) PROVE Outside
  <2>1. KeepsAlive
    BY <1>7, UnpendAlive, NoChange DEF GiveMutex, vmxPendQGet
  <2> QED BY <1>7, <2>1 DEF GiveMutex, KeepsAlive
<1>8. ASSUME NEW t \in Tasks, NEW s \in Sems, SemDelete(t, s) PROVE Outside
  BY <1>8 DEF SemDelete, StatusOK
<1>9. ASSUME NEW s \in Sems, Give(s) PROVE Outside
  BY <1>9, GiveAlive DEF Give, KeepsAlive
<1>10. ASSUME NEW s \in Sems, SemFlush(s) PROVE Outside
  BY <1>10 DEF SemFlush, StatusOK
<1> QED
  BY <1>1, <1>2, <1>3, <1>4, <1>5, <1>6, <1>7, <1>8, <1>9, <1>10 DEF SemCall

\* The calls of taskLib start with kernelState FALSE.
LEMMA TaskCallOutside ==
    ASSUME JobInv, TaskCall PROVE Outside
<1> USE DEF JobInv, TypesOK, Outside, SectionOnly, NoSection, semVars, semOnly,
            schedVars, kernVars, Section, Free, At, Running
<1>1. ASSUME NEW t \in Tasks, NEW op, TaskVerified(t, op) PROVE Outside
  BY <1>1 DEF TaskVerified, StatusOK
<1>2. ASSUME NEW t \in Tasks, TaskApplied(t) PROVE Outside
  <2>1. KeepsAlive
    BY <1>2, TaskKernelAlive DEF TaskApplied
  <2> QED BY <1>2, <2>1 DEF TaskApplied, KeepsAlive
<1>3. ASSUME NEW t \in Tasks, NEW n, taskDelay(t, n) PROVE Outside
  <2>1. KeepsAlive
    BY <1>3, YieldAlive, DelayAlive DEF taskDelay
  <2> QED BY <1>3, <2>1 DEF taskDelay, KeepsAlive
<1>4. ASSUME NEW t \in Tasks, taskLock(t) PROVE Outside
  BY <1>4 DEF taskLock, StatusOK
<1>5. ASSUME NEW t \in Tasks, taskUnlock(t) PROVE Outside
  BY <1>5 DEF taskUnlock, StatusOK
<1>6. ASSUME NEW t \in Tasks, taskSafe(t) PROVE Outside
  BY <1>6 DEF taskSafe, StatusOK
<1>7. ASSUME NEW t \in Tasks, taskUnsafe(t) PROVE Outside
  BY <1>7 DEF taskUnsafe, StatusOK
<1>8. ASSUME NEW t \in Tasks, FlushSafety(t) PROVE Outside
  BY <1>8 DEF FlushSafety, StatusOK
<1>9. ASSUME NEW t \in Tasks, NEW v \in Tasks, NEW f, DestroyCalled(t, v, f)
      PROVE  Outside
  BY <1>9 DEF DestroyCalled, StatusOK
<1>10. ASSUME NEW t \in Tasks, DestroyTooLate(t) PROVE Outside
  BY <1>10 DEF DestroyTooLate, StatusOK
<1>11. ASSUME NEW t \in Tasks, DestroyWaits(t) PROVE Outside
  <2>1. KeepsAlive
    BY <1>11, PendAlive DEF DestroyWaits
  <2> QED BY <1>11, <2>1 DEF DestroyWaits, KeepsAlive
<1>12. ASSUME NEW t \in Tasks, DestroyForces(t) PROVE Outside
  BY <1>12 DEF DestroyForces, StatusOK
<1>13. ASSUME NEW t \in Tasks, DestroySuspends(t) PROVE Outside
  <2>1. KeepsAlive
    BY <1>13, SuspendAlive DEF DestroySuspends
  <2> QED BY <1>13, <2>1 DEF DestroySuspends, KeepsAlive
<1>14. ASSUME NEW t \in Tasks, DestroyKills(t) PROVE Outside
  BY <1>14, DeleteType DEF DestroyKills
<1> QED
  BY <1>1, <1>2, <1>3, <1>4, <1>5, <1>6, <1>7, <1>8, <1>9, <1>10, <1>11, <1>12,
     <1>13, <1>14 DEF TaskCall

-----------------------------------------------------------------------------
(***************************************************************************)
(* The kernel, and handlers.                                               *)
(***************************************************************************)
LEMMA KernelInside ==
    ASSUME JobInv, Kernel
    PROVE  Inside /\ (workQ' = workQ \/ (workQ # <<>> /\ workQ' = Tail(workQ)))
<1> DEFINE Kept == Inside /\ workQ' = workQ
<1> USE DEF JobInv, TypesOK, Inside, semVars, kernVars, KernelAt
<1>1. ASSUME SchedStep, UNCHANGED semVars PROVE Kept
  <2> USE DEF othersThan, loopVars
  <2>1. CASE ExitFromInt    BY <1>1, <2>1, NoChange DEF ExitFromInt
  <2>2. CASE ExitToCaller   BY <1>1, <2>2, NoChange DEF ExitToCaller
  <2>3. CASE SaveTaskContext BY <1>1, <2>3, NoChange DEF SaveTaskContext
  <2>4. CASE SwitchTasks    BY <1>1, <2>4, NoChange DEF SwitchTasks
  <2>5. CASE Dispatch       BY <1>1, <2>5, NoChange DEF Dispatch
  <2>6. CASE NoTaskReady    BY <1>1, <2>6, NoChange DEF NoTaskReady
  <2>7. CASE WorkDone       BY <1>1, <2>7, NoChange DEF WorkDone
  <2> USE DEF NoJobLeft, kernelState
  <2>8. CASE FlushLoop
    BY <1>1, <2>8, NoChange, UnpendAlive DEF FlushLoop, vmxPendQFlush
  <2>9. CASE TerminateLoop
    BY <1>1, <2>9, NoChange, UnpendAlive DEF TerminateLoop, vmxPendQTerminate
  <2>10. CASE ExpireLoop
    BY <1>1, <2>10, NoChange, ExpireAlive DEF ExpireLoop
  <2>11. CASE RoundRobin
    BY <1>1, <2>11, NoChange, YieldAlive DEF RoundRobin
  <2> QED
    BY <1>1, <2>1, <2>2, <2>3, <2>4, <2>5, <2>6, <2>7, <2>8, <2>9, <2>10, <2>11
       DEF SchedStep
<1>2. ASSUME Disown PROVE Kept
  BY <1>2, NoChange DEF Disown, loopVars, NoJobLeft, kernelState
<1>3. ASSUME RunJob PROVE Inside /\ workQ # <<>> /\ workQ' = Tail(workQ)
  <2> DEFINE j == Head(workQ)
  <2>1. /\ workQ # <<>> /\ workQ' = Tail(workQ)
        /\ kpc' # "user"
    BY <1>3 DEF RunJob, TakeJob
  <2>2. KeepsAlive /\ semValid' = semValid
    <3>1. CASE advance /\ UNCHANGED semVars
      BY <3>1, AdvanceAlive
    <3>2. CASE GiveKernel(j[2]) /\ UNCHANGED semValid
      BY <3>2, GiveAlive
    <3>3. CASE UNCHANGED <<kernVars, semVars>>
      BY <3>3, NoChange
    <3>4. CASE j[1] \in TaskOps /\ TaskKernel(j) /\ UNCHANGED semVars
      BY <3>4, TaskKernelAlive
    <3> QED BY <1>3, <3>1, <3>2, <3>3, <3>4 DEF RunJob
  <2> QED BY <2>1, <2>2
<1> QED BY <1>1, <1>2, <1>3 DEF Kernel

\* Only a handler that finds kernelState TRUE adds a job, after verifying it.
LEMMA PostKeeps == ASSUME JobInv, NEW j \in Jobs, Post(j) PROVE JobInv'
<1>1. /\ kernelState /\ Verified(j) /\ workQ' = Append(workQ, j)
      /\ UNCHANGED <<kpc, status, semValid>>
  BY DEF Post, CanPost, kernVars, semVars
<1>2. /\ TypesOK'
      /\ DOMAIN workQ = 1..Len(workQ) /\ Len(workQ) \in Nat
      /\ DOMAIN workQ' = 1..(Len(workQ) + 1)
  BY <1>1 DEF JobInv, TypesOK, StatusOK
<1>3. ASSUME NEW i \in DOMAIN workQ' PROVE Verified(workQ[i])'
  <2>1. CASE i = Len(workQ) + 1
    BY <1>1, <1>2, <2>1 DEF Verified, Alive, JobInv, TypesOK
  <2>2. CASE i \in DOMAIN workQ
    BY <1>1, <1>2, <2>2 DEF Verified, Alive, JobInv, TypesOK, JobTargetsAlive
  <2> QED BY <1>2, <2>1, <2>2
<1> QED BY <1>1, <1>2, <1>3 DEF JobInv, NoJobLeft, kernelState, JobTargetsAlive

\* intEnt, intExit, tickAnnounce, and the calls handlers make or defer.
LEMMA InterruptKeeps == ASSUME JobInv, Interrupt PROVE JobInv'
<1> USE DEF JobInv, TypesOK, Outside, SectionOnly, semVars, kernVars, Section,
            InHandler
<1>1. CASE HandlerStarts
  <2>1. Outside
    BY <1>1 DEF HandlerStarts, IntEnt, StatusOK
  <2> QED BY <2>1, OutsideKeeps
<1>2. CASE HandlerEnds
  <2>1. Outside
    BY <1>2 DEF HandlerEnds, IntExit, StatusOK
  <2> QED BY <2>1, OutsideKeeps
<1>3. CASE Tick
  <2>1. KeepsAlive
    BY <1>3, AdvanceAlive DEF Tick
  <2>2. Outside
    BY <1>3, <2>1 DEF Tick, KeepsAlive
  <2> QED BY <2>2, OutsideKeeps
<1>4. ASSUME NEW op \in Ops, TaskFromHandler(op) PROVE JobInv'
  <2>1. op[1] \in TaskOps
    BY DEF Ops, OpsOn, TaskOps
  <2>2. KeepsAlive
    BY <1>4, <2>1, TaskKernelAlive DEF TaskFromHandler
  <2>3. Outside
    BY <1>4, <2>2 DEF TaskFromHandler, KeepsAlive
  <2> QED BY <2>3, OutsideKeeps
<1>5. ASSUME NEW j \in Jobs, Post(j) PROVE JobInv'
  BY <1>5, PostKeeps
<1> QED BY <1>1, <1>2, <1>3, <1>4, <1>5 DEF Interrupt

-----------------------------------------------------------------------------
\* The invariant is inductive.
THEOREM JobsInductive == Spec => []JobInv
<1>1. Init => JobInv
  <2> SUFFICES ASSUME Init PROVE JobInv
    OBVIOUS
  <2>1. TypesOK
    BY DEF Init, TypesOK, StatusOK, Flags
  <2> QED BY <2>1 DEF Init, JobInv, NoJobLeft, JobTargetsAlive
<1>2. JobInv /\ [Next]_vars => JobInv'
  <2> SUFFICES ASSUME JobInv, [Next]_vars PROVE JobInv'
    OBVIOUS
  <2>1. CASE SemCall
    BY <2>1, SemCallOutside, OutsideKeeps
  <2>2. CASE TaskCall
    BY <2>2, TaskCallOutside, OutsideKeeps
  <2>3. CASE Kernel
    BY <2>3, KernelInside, InsideKeeps
  <2>4. CASE Interrupt
    BY <2>4, InterruptKeeps
  <2>5. CASE UNCHANGED vars
    BY <2>5 DEF vars, kernVars, schedVars, semVars, JobInv, TypesOK, StatusOK,
       NoJobLeft, kernelState, JobTargetsAlive, Verified, Alive
  <2> QED BY <2>1, <2>2, <2>3, <2>4, <2>5 DEF Next
<1> QED BY <1>1, <1>2, PTL DEF Spec

\* No exit of the kernel, of the three there are, leaves a job in the work queue
\* that was posted up to the last moment.
THEOREM NothingLeft == Spec => []NoJobLeft
<1>1. JobInv => NoJobLeft
  BY DEF JobInv
<1> QED BY <1>1, JobsInductive, PTL

\* Between the TASK_ID_VERIFY or OBJ_VERIFY of a deferred call and the call of
\* its job, the task or semaphore is not deleted.
THEOREM JobsVerified == Spec => []JobTargetsAlive
<1>1. JobInv => JobTargetsAlive
  BY DEF JobInv
<1> QED BY <1>1, JobsInductive, PTL

-----------------------------------------------------------------------------
(***************************************************************************)
(* Types.  The steps of a call and the jobs are only about what tasks and  *)
(* handlers do call.                                                       *)
(***************************************************************************)
CallSteps == {x \in Steps : x[1] \in TaskOps => x[1] \in TaskCalls \cup IsrCalls}
CallJobs  == {j \in Jobs : j[1] \in IsrCalls}

SemTypes ==
    /\ semValid \in [Sems -> BOOLEAN]
    /\ semOwner \in [Sems -> Tasks \cup {NULL}]
    /\ semCount \in [Sems -> Nat]
    /\ recurse \in [Sems -> 0..MaxRecurse]
    /\ safeCount \in [Tasks -> 0..UnsignedMax]
    /\ safes \in [Tasks -> 0..MaxSafe]

CodeTypes == code \in [Tasks -> Seq(CallSteps)]
WorkTypes == workQ \in Seq(CallJobs)

TypeInv == KernTypes /\ SchedTypes /\ SemTypes /\ CodeTypes /\ WorkTypes

\* The routine that a call of taskLib or its job calls.
LEMMA TaskKernelTypes ==
    ASSUME KernTypes, NEW op \in Ops, TaskKernel(op) PROVE KernTypes'
<1>1. PICK v \in Tasks : op \in OpsOn(v)
    BY DEF Ops
<1>2. CASE op = <<"suspend", v>>
    BY <1>2, SuspendTypes DEF TaskKernel
<1>3. CASE op = <<"resume", v>>
    BY <1>3, ResumeTypes DEF TaskKernel
<1>4. CASE op = <<"undelay", v>>
    BY <1>4, UndelayTypes DEF TaskKernel
<1>5. ASSUME NEW p \in Priorities, op = <<"priority", v, p>> PROVE KernTypes'
    BY <1>5, PriorityTypes DEF TaskKernel
<1> QED BY <1>1, <1>2, <1>3, <1>4, <1>5 DEF OpsOn

-----------------------------------------------------------------------------
\* The type invariant of the proofs is at least that of the runs.
LEMMA TypeInvType == TypeInv => TypeOK
<1> SUFFICES ASSUME TypeInv PROVE TypeOK
    OBVIOUS
<1>1. code \in [Tasks -> Seq(Steps)]
  <2>1. CallSteps \subseteq Steps
      BY DEF CallSteps
  <2>2. \A t \in Tasks : code[t] \in Seq(Steps)
      BY <2>1 DEF TypeInv, CodeTypes
  <2> QED BY <2>2 DEF TypeInv, CodeTypes
<1>2. workQ \in Seq(Jobs)
    BY DEF TypeInv, WorkTypes, CallJobs
<1> QED
  BY <1>1, <1>2 DEF TypeInv, TypeOK, KernTypes, SchedTypes, SemTypes, TodoItems

\* What the next step of a call is about.
LEMMA StepShape ==
    ASSUME NEW x \in CallSteps
    PROVE  /\ x[1] \in {"kill", "destroy"} => x[2] \in Tasks
           /\ x[1] = "taken" => x[2] \in Sems
           /\ x[1] \in TaskOps => x \in Ops
BY DEF CallSteps, Steps, TaskOps, Ops, OpsOn

\* What a job is about.
LEMMA CallJobShape ==
    ASSUME NEW j \in CallJobs
    PROVE  /\ j[1] \in {"give", "flush"} => j[2] \in Sems
           /\ j[1] \in TaskOps => j \in Ops
BY DEF CallJobs, Jobs, TaskOps, Ops, OpsOn

\* safeCount++ and safeCount--, of an unsigned.
LEMMA PlusMinusTypes ==
    ASSUME NEW n \in 0..UnsignedMax
    PROVE  Plus1(n) \in 0..UnsignedMax /\ Minus1(n) \in 0..UnsignedMax
BY VmxSemAssumption DEF Plus1, Minus1

\* The rest of a call: its next step, if there is one, and new ones before it.
LEMMA CodeStays ==
    ASSUME CodeTypes, NEW t \in Tasks
    PROVE  /\ code[t] \in Seq(CallSteps)
           /\ code[t] # <<>> => /\ Head(code[t]) \in CallSteps
                                /\ Tail(code[t]) \in Seq(CallSteps)
BY DEF CodeTypes

\* The calls of semBLib, semCLib, semMLib and semLib.
LEMMA CallTypes ==
    ASSUME CodeTypes, NEW t \in Tasks, NEW steps \in Seq(CallSteps)
    PROVE  /\ Call(t, steps) => CodeTypes'
           /\ code[t] # <<>> /\ GoOn(t, steps) => CodeTypes'
<1>1. CASE code[t] # <<>>
  <2>1. Tail(code[t]) \in Seq(CallSteps)
      BY <1>1, CodeStays
  <2>2. steps \o Tail(code[t]) \in Seq(CallSteps)
      BY <2>1
  <2> QED BY <2>2 DEF Call, GoOn, CodeTypes
<1> QED BY <1>1 DEF Call, CodeTypes

\* The steps that are not calls of TaskOps are always possible.
LEMMA StepsAllowed ==
    /\ <<>> \in Seq(CallSteps)
    /\ <<<<"unsafe">>>> \in Seq(CallSteps)
    /\ \A n : AfterDrop(n) \in Seq(CallSteps)
    /\ \A s \in Sems : <<<<"taken", s>>>> \in Seq(CallSteps)
    /\ \A v \in Tasks, f \in BOOLEAN : <<<<"destroy", v, f>>>> \in Seq(CallSteps)
    /\ \A v \in Tasks : <<<<"lock">>, <<"kill", v>>, <<"unlock">>, <<"unsafe">>>>
                          \in Seq(CallSteps)
<1>1. /\ <<"lock">> \in CallSteps /\ <<"unlock">> \in CallSteps
      /\ <<"unsafe">> \in CallSteps /\ <<"flushSafety">> \in CallSteps
      /\ \A s \in Sems : <<"taken", s>> \in CallSteps
      /\ \A v \in Tasks, f \in BOOLEAN : <<"destroy", v, f>> \in CallSteps
      /\ \A v \in Tasks : <<"kill", v>> \in CallSteps
    BY DEF CallSteps, Steps, TaskOps
<1> QED BY <1>1 DEF AfterDrop

\* What a give does, called by a task, a handler or a job.
LEMMA GiveTypes ==
    ASSUME KernTypes, SemTypes, NEW s \in Sems, GiveKernel(s),
           UNCHANGED <<semValid, recurse, safeCount, safes>>
    PROVE  KernTypes' /\ SemTypes'
<1>1. s \in PendQs /\ pendQ[s] \in Seq(Tasks)
    BY DEF KernTypes, PendQs
<1>2. KernTypes'
  <2>1. CASE pendQ[s] = <<>>
      BY <2>1, SameTypes DEF GiveKernel
  <2>2. CASE pendQ[s] # <<>>
      BY <1>1, <2>2, UnpendTypes DEF GiveKernel, vmxPendQGet
  <2> QED BY <2>1, <2>2
<1>3. QFirst(pendQ[s], NULL) \in Tasks \cup {NULL}
    BY <1>1 DEF QFirst
<1>4. semOwner' \in [Sems -> Tasks \cup {NULL}] /\ semCount' \in [Sems -> Nat]
  <2>1. CASE SemType[s] = "counting"
    <3>1. \/ semCount' = semCount
          \/ semCount' = [semCount EXCEPT ![s] = semCount[s] + 1]
        BY <2>1 DEF GiveKernel
    <3>2. semCount' \in [Sems -> Nat]
        BY <3>1 DEF SemTypes
    <3>3. semOwner' = semOwner
        BY <2>1 DEF GiveKernel
    <3> QED BY <3>2, <3>3 DEF SemTypes
  <2>2. CASE SemType[s] # "counting"
      BY <1>3, <2>2 DEF GiveKernel, SemTypes
  <2> QED BY <2>1, <2>2
<1> QED BY <1>2, <1>4 DEF SemTypes

-----------------------------------------------------------------------------
(***************************************************************************)
(* Every step keeps the types.                                             *)
(***************************************************************************)
LEMMA SemCallTypes ==
    ASSUME TypeInv, SemCall, safes' = safes PROVE TypeInv'
<1> USE DEF TypeInv
<1> USE DEF SectionOnly, NoSection, semVars, schedVars, Section, Free, At, Running
<1>1. ASSUME NEW t \in Tasks, NEW s \in Sems, TakeFull(t, s) PROVE TypeInv'
  <2>1. KernTypes' /\ SchedTypes' /\ CodeTypes' /\ WorkTypes'
      BY <1>1 DEF TakeFull, KernTypes, kernVars, SchedTypes, CodeTypes, WorkTypes
  <2>2. semOwner' \in [Sems -> Tasks \cup {NULL}] /\ semCount' \in [Sems -> Nat]
    <3>1. CASE SemType[s] = "counting"
      <4>1. semCount[s] - 1 \in Nat
          BY <1>1, <3>1 DEF TakeFull, SemTypes, Full
      <4> QED BY <1>1, <3>1, <4>1 DEF TakeFull, SemTypes
    <3>2. CASE SemType[s] # "counting"
        BY <1>1, <3>2 DEF TakeFull, SemTypes
    <3> QED BY <3>1, <3>2
  <2>3. safeCount' \in [Tasks -> 0..UnsignedMax]
      BY <1>1, PlusMinusTypes DEF TakeFull, SemTypes
  <2> QED BY <1>1, <2>1, <2>2, <2>3 DEF SemTypes, TakeFull
<1>2. ASSUME NEW t \in Tasks, NEW s \in Sems, TakeAgain(t, s) PROVE TypeInv'
  <2>1. KernTypes' /\ SchedTypes' /\ CodeTypes' /\ WorkTypes'
      BY <1>2 DEF TakeAgain, KernTypes, kernVars, SchedTypes, CodeTypes, WorkTypes
  <2>2. SemTypes'
      BY <1>2, VmxSemAssumption DEF TakeAgain, SemTypes
  <2> QED BY <2>1, <2>2
<1>3. ASSUME NEW t \in Tasks, NEW s \in Sems, TakeNoWait(t, s) PROVE TypeInv'
  <2>1. KernTypes' /\ SchedTypes' /\ CodeTypes' /\ WorkTypes'
      BY <1>3 DEF TakeNoWait, KernTypes, kernVars, SchedTypes, CodeTypes, WorkTypes
  <2>2. SemTypes'
      BY <1>3 DEF TakeNoWait, SemTypes
  <2> QED BY <2>1, <2>2
<1>4. ASSUME NEW t \in Tasks, NEW s \in Sems, NEW n \in 1..WAIT_FOREVER,
             TakeWait(t, s, n)
      PROVE  TypeInv'
  <2>1. KernTypes'
    <3>1. n \in 0..WAIT_FOREVER /\ s \in PendQs
        BY VmxLibAssumption DEF WAIT_FOREVER, PendQs
    <3> QED BY <1>4, <3>1, PendPutTypes DEF TakeWait
  <2>2. SchedTypes' /\ WorkTypes'
      BY <1>4 DEF TakeWait, SchedTypes, WorkTypes, KernelStates
  <2>3. SemTypes'
      BY <1>4 DEF TakeWait, SemTypes
  <2>4. CodeTypes'
      BY <1>4, StepsAllowed DEF TakeWait, CodeTypes
  <2> QED BY <2>1, <2>2, <2>3, <2>4
<1>5. ASSUME NEW t \in Tasks, TakeReturns(t) PROVE TypeInv'
  <2>1. SchedTypes' /\ WorkTypes' /\ KernTypes'
      BY <1>5 DEF TakeReturns, SchedTypes, WorkTypes, KernTypes
  <2>2. SemTypes'
      BY <1>5 DEF TakeReturns, SemTypes
  <2>3. CodeTypes'
      BY <1>5, CodeStays DEF TakeReturns, CodeTypes
  <2> QED BY <2>1, <2>2, <2>3
<1>6. ASSUME NEW t \in Tasks, NEW s \in Sems, GiveRecurse(t, s) PROVE TypeInv'
  <2>1. KernTypes' /\ SchedTypes' /\ CodeTypes' /\ WorkTypes'
      BY <1>6 DEF GiveRecurse, KernTypes, kernVars, SchedTypes, CodeTypes, WorkTypes
  <2>2. SemTypes'
      BY <1>6, VmxSemAssumption DEF GiveRecurse, SemTypes
  <2> QED BY <2>1, <2>2
<1>7. ASSUME NEW t \in Tasks, NEW s \in Sems, GiveMutex(t, s) PROVE TypeInv'
  <2> DEFINE next == QFirst(pendQ[s], NULL)
             less == IF s \in DeleteSafe
                     THEN [safeCount EXCEPT ![t] = Minus1(@)] ELSE safeCount
             loops == IF s \in DeleteSafe /\ less[t] = 0 THEN Flush(t) ELSE <<>>
  <2>1. /\ s \in PendQs /\ t \in PendQs /\ pendQ[s] \in Seq(Tasks)
        /\ NULL \notin Tasks
      BY VmxLibAssumption DEF KernTypes, PendQs
  <2>2. /\ next = NULL => pendQ[s] = <<>>
        /\ next # NULL => next \in Tasks /\ pendQ[s] # <<>>
      BY <2>1 DEF QFirst
  <2>3. less \in [Tasks -> 0..UnsignedMax] /\ loops \in Seq(TodoItems)
    <3>1. Flush(t) \in Seq(TodoItems)
        BY <2>1, FlushTypes
    <3>2. safeCount \in [Tasks -> 0..UnsignedMax]
        BY DEF SemTypes
    <3>3. Minus1(safeCount[t]) \in 0..UnsignedMax
        BY <3>2, PlusMinusTypes
    <3> QED BY <3>1, <3>2, <3>3
  <2> HIDE DEF less, loops, next
  <2>4. KernTypes'
    <3>1. CASE next = NULL
        BY <1>7, <3>1, SameTypes DEF GiveMutex, next
    <3>2. CASE next # NULL
        BY <1>7, <3>2, <2>1, <2>2, UnpendTypes DEF GiveMutex, next, vmxPendQGet
    <3> QED BY <3>1, <3>2
  <2>5. SchedTypes' /\ WorkTypes'
    <3>1. UNCHANGED <<kpc, todo>> \/ Section(loops)
        BY <1>7 DEF GiveMutex, loops, less, next
    <3> QED BY <1>7, <2>3, <3>1 DEF GiveMutex, SchedTypes, WorkTypes, KernelStates
  <2>6. safeCount' \in [Tasks -> 0..UnsignedMax]
    <3>1. safeCount' = IF s \in DeleteSafe /\ next # NULL
                       THEN [less EXCEPT ![next] = Plus1(@)] ELSE less
        BY <1>7 DEF GiveMutex, less, next
    <3> QED BY <2>2, <2>3, <3>1, PlusMinusTypes
  <2>7. semOwner' \in [Sems -> Tasks \cup {NULL}]
    <3>1. semOwner' = [semOwner EXCEPT ![s] = next]
        BY <1>7 DEF GiveMutex, next
    <3> QED BY <2>2, <3>1 DEF SemTypes
  <2>8. SemTypes' /\ CodeTypes'
      BY <1>7, <2>6, <2>7 DEF SemTypes, CodeTypes, GiveMutex
  <2> QED BY <2>4, <2>5, <2>8
<1>8. ASSUME NEW t \in Tasks, NEW s \in Sems, SemDelete(t, s) PROVE TypeInv'
  <2>1. <<<<"terminate", s>>, <<"disown", s>>>> \in Seq(TodoItems)
    <3>1. <<"terminate", s>> \in TodoItems /\ <<"disown", s>> \in TodoItems
        BY DEF TodoItems, PendQs
    <3> QED BY <3>1
  <2>2. KernTypes' /\ SchedTypes' /\ WorkTypes'
      BY <1>8, <2>1, SameTypes DEF SemDelete, SchedTypes, WorkTypes, KernelStates
  <2>3. SemTypes'
      BY <1>8 DEF SemDelete, SemTypes
  <2>4. CodeTypes'
      BY <1>8, StepsAllowed DEF SemDelete, CodeTypes
  <2> QED BY <2>2, <2>3, <2>4
<1>9. ASSUME NEW s \in Sems, Give(s) PROVE TypeInv'
  <2>1. SchedTypes' /\ WorkTypes' /\ CodeTypes'
    <3>1. UNCHANGED <<kpc, todo>> \/ (kpc' = "exit" /\ todo' = <<>>)
        BY <1>9 DEF Give
    <3>2. CASE UNCHANGED <<kpc, todo>>
        BY <1>9, <3>2 DEF Give, SchedTypes, WorkTypes, CodeTypes
    <3>3. CASE kpc' = "exit" /\ todo' = <<>>
        BY <1>9, <3>3 DEF Give, SchedTypes, WorkTypes, CodeTypes, KernelStates
    <3> QED BY <3>1, <3>2, <3>3
  <2>2. GiveKernel(s) /\ UNCHANGED <<semValid, recurse, safeCount>>
      BY <1>9 DEF Give
  <2>3. KernTypes' /\ SemTypes'
      BY <2>2, GiveTypes
  <2> QED BY <2>1, <2>3
<1>10. ASSUME NEW s \in Sems, SemFlush(s) PROVE TypeInv'
  <2>1. Flush(s) \in Seq(TodoItems)
      BY FlushTypes DEF PendQs
  <2>2. KernTypes' /\ SchedTypes' /\ WorkTypes' /\ CodeTypes'
      BY <1>10, <2>1, SameTypes
         DEF SemFlush, SchedTypes, WorkTypes, CodeTypes, KernelStates
  <2>3. SemTypes'
      BY <1>10 DEF SemFlush, SemTypes
  <2> QED BY <2>2, <2>3
<1> QED
  BY <1>1, <1>2, <1>3, <1>4, <1>5, <1>6, <1>7, <1>8, <1>9, <1>10 DEF SemCall

\* The calls of taskLib.
LEMMA TaskCallTypes ==
    ASSUME TypeInv, TaskCall PROVE TypeInv'
<1> USE DEF TypeInv
<1> USE DEF SectionOnly, NoSection, semVars, semOnly, schedVars, Section, Free,
            At, Running
<1>1. ASSUME NEW t \in Tasks, NEW op \in Ops, MayCall(op[1]), TaskVerified(t, op)
      PROVE  TypeInv'
  <2>1. <<op>> \in Seq(CallSteps)
      BY <1>1 DEF CallSteps, Steps, MayCall
  <2>2. CodeTypes'
      BY <1>1, <2>1, CallTypes DEF TaskVerified
  <2> QED
    BY <1>1, <2>2 DEF TaskVerified, KernTypes, kernVars, SchedTypes, SemTypes, WorkTypes
<1>2. ASSUME NEW t \in Tasks, TaskApplied(t) PROVE TypeInv'
  <2>1. Head(code[t]) \in Ops
      BY <1>2, CodeStays, StepShape DEF TaskApplied
  <2>2. KernTypes'
      BY <1>2, <2>1, TaskKernelTypes DEF TaskApplied
  <2>3. CodeTypes'
      BY <1>2, CallTypes, StepsAllowed DEF TaskApplied
  <2>4. SchedTypes' /\ WorkTypes'
      BY <1>2 DEF TaskApplied, SchedTypes, WorkTypes, KernelStates
  <2>5. SemTypes'
      BY <1>2 DEF TaskApplied, SemTypes
  <2> QED BY <2>2, <2>3, <2>4, <2>5
<1>3. ASSUME NEW t \in Tasks, NEW n \in 0..MaxTimeout, taskDelay(t, n) PROVE TypeInv'
  <2>1. KernTypes'
      BY <1>3, YieldTypes, DelayTypes DEF taskDelay
  <2>2. SchedTypes' /\ WorkTypes' /\ CodeTypes'
      BY <1>3 DEF taskDelay, SchedTypes, WorkTypes, KernelStates, CodeTypes
  <2>3. SemTypes'
      BY <1>3 DEF taskDelay, SemTypes
  <2> QED BY <2>1, <2>2, <2>3
<1>4. ASSUME NEW t \in Tasks, taskLock(t) PROVE TypeInv'
  <2>1. CodeTypes'
      BY <1>4, CallTypes, StepsAllowed DEF taskLock, CodeTypes
  <2>2. SchedTypes' /\ WorkTypes' /\ KernTypes'
      BY <1>4 DEF taskLock, SchedTypes, WorkTypes, KernTypes, kernVars
  <2>3. SemTypes'
      BY <1>4 DEF taskLock, SemTypes
  <2> QED BY <2>1, <2>2, <2>3
<1>5. ASSUME NEW t \in Tasks, taskUnlock(t) PROVE TypeInv'
  <2>1. CodeTypes'
      BY <1>5, CallTypes, StepsAllowed DEF taskUnlock
  <2>2. lockCount' \in [Tasks -> Nat]
      BY <1>5 DEF taskUnlock, SchedTypes
  <2>3. SchedTypes' /\ WorkTypes' /\ KernTypes'
      BY <1>5, <2>2 DEF taskUnlock, SchedTypes, WorkTypes, KernTypes, kernVars
  <2>4. SemTypes'
      BY <1>5 DEF taskUnlock, SemTypes
  <2> QED BY <2>1, <2>3, <2>4
<1>6. ASSUME NEW t \in Tasks, taskSafe(t) PROVE TypeInv'
  <2>1. SchedTypes' /\ WorkTypes' /\ KernTypes' /\ CodeTypes'
      BY <1>6 DEF taskSafe, SchedTypes, WorkTypes, KernTypes, kernVars, CodeTypes
  <2>2. SemTypes'
    <3>1. safeCount' \in [Tasks -> 0..UnsignedMax]
        BY <1>6, PlusMinusTypes DEF taskSafe, SemTypes
    <3>2. safes' \in [Tasks -> 0..MaxSafe]
        BY <1>6, VmxTaskAssumption DEF taskSafe, SemTypes
    <3> QED BY <1>6, <3>1, <3>2 DEF taskSafe, SemTypes
  <2> QED BY <2>1, <2>2
<1>7. ASSUME NEW t \in Tasks, taskUnsafe(t) PROVE TypeInv'
  <2>1. CodeTypes'
      BY <1>7, CallTypes, StepsAllowed DEF taskUnsafe
  <2>2. SchedTypes' /\ WorkTypes' /\ KernTypes'
      BY <1>7 DEF taskUnsafe, SchedTypes, WorkTypes, KernTypes, kernVars
  <2>3. safeCount' \in [Tasks -> 0..UnsignedMax]
      BY <1>7, VmxSemAssumption DEF taskUnsafe, SemTypes
  <2>4. safes' \in [Tasks -> 0..MaxSafe]
    <3>1. safes' = safes \/ (safes[t] > 0 /\ safes' = [safes EXCEPT ![t] = safes[t] - 1])
        BY <1>7 DEF taskUnsafe
    <3> QED BY <3>1, VmxTaskAssumption DEF SemTypes
  <2> QED BY <1>7, <2>1, <2>2, <2>3, <2>4 DEF SemTypes, taskUnsafe
<1>8. ASSUME NEW t \in Tasks, FlushSafety(t) PROVE TypeInv'
  <2>1. Flush(t) \in Seq(TodoItems)
      BY FlushTypes DEF PendQs
  <2>2. CodeTypes'
      BY <1>8, CallTypes, StepsAllowed DEF FlushSafety
  <2>3. SchedTypes' /\ WorkTypes' /\ KernTypes'
      BY <1>8, <2>1, SameTypes DEF FlushSafety, SchedTypes, WorkTypes, KernelStates
  <2>4. SemTypes'
      BY <1>8 DEF FlushSafety, SemTypes
  <2> QED BY <2>2, <2>3, <2>4
<1>9. ASSUME NEW t \in Tasks, NEW v \in Tasks, NEW f \in BOOLEAN,
             DestroyCalled(t, v, f)
      PROVE  TypeInv'
  <2>1. CodeTypes'
    <3>1. <<<<"destroy", v, f>>>> \in Seq(CallSteps)
        BY DEF CallSteps, Steps, TaskOps
    <3> QED BY <1>9, <3>1, CallTypes DEF DestroyCalled
  <2>2. SchedTypes' /\ WorkTypes' /\ KernTypes'
      BY <1>9 DEF DestroyCalled, SchedTypes, WorkTypes, KernTypes, kernVars
  <2>3. SemTypes'
      BY <1>9 DEF DestroyCalled, SemTypes
  <2> QED BY <2>1, <2>2, <2>3
<1>10. ASSUME NEW t \in Tasks, DestroyTooLate(t) PROVE TypeInv'
  <2>1. CodeTypes'
      BY <1>10, CallTypes, StepsAllowed DEF DestroyTooLate
  <2>2. SchedTypes' /\ WorkTypes' /\ KernTypes'
      BY <1>10 DEF DestroyTooLate, SchedTypes, WorkTypes, KernTypes, kernVars
  <2>3. SemTypes'
      BY <1>10 DEF DestroyTooLate, SemTypes
  <2> QED BY <2>1, <2>2, <2>3
<1>11. ASSUME NEW t \in Tasks, At(t, "destroy") \/ At(t, "kill") PROVE Arg(t, 2) \in Tasks
    BY <1>11, CodeStays, StepShape DEF Arg
<1>12. ASSUME NEW t \in Tasks, DestroyWaits(t) PROVE TypeInv'
  <2>1. Arg(t, 2) \in PendQs /\ WAIT_FOREVER \in 0..WAIT_FOREVER
      BY <1>11, <1>12, VmxLibAssumption DEF DestroyWaits, PendQs, WAIT_FOREVER
  <2>2. KernTypes'
      BY <1>12, <2>1, PendPutTypes DEF DestroyWaits
  <2>3. SchedTypes' /\ WorkTypes' /\ CodeTypes'
      BY <1>12 DEF DestroyWaits, SchedTypes, WorkTypes, KernelStates, CodeTypes
  <2>4. SemTypes'
      BY <1>12 DEF DestroyWaits, SemTypes
  <2> QED BY <2>2, <2>3, <2>4
<1>13. ASSUME NEW t \in Tasks, DestroyForces(t) PROVE TypeInv'
  <2>1. PICK v \in Tasks : v = Arg(t, 2)
      BY <1>11, <1>13 DEF DestroyForces
  <2>2. Flush(v) \in Seq(TodoItems)
      BY FlushTypes DEF PendQs
  <2>3. lockCount' \in [Tasks -> Nat]
      BY <1>13, <2>1 DEF DestroyForces, SchedTypes
  <2>4. SchedTypes' /\ WorkTypes' /\ KernTypes' /\ CodeTypes'
      BY <1>13, <2>1, <2>2, <2>3, SameTypes
         DEF DestroyForces, SchedTypes, WorkTypes, KernelStates, CodeTypes
  <2>5. SemTypes'
      BY <1>13, <2>1, VmxSemAssumption DEF DestroyForces, SemTypes
  <2> QED BY <2>4, <2>5
<1>14. ASSUME NEW t \in Tasks, DestroySuspends(t) PROVE TypeInv'
  <2>1. PICK v \in Tasks : v = Arg(t, 2)
      BY <1>11, <1>14 DEF DestroySuspends
  <2>2. KernTypes'
      BY <1>14, <2>1, SuspendTypes DEF DestroySuspends
  <2>3. CodeTypes'
      BY <1>14, <2>1, CallTypes, StepsAllowed DEF DestroySuspends
  <2>4. SchedTypes' /\ WorkTypes'
      BY <1>14 DEF DestroySuspends, SchedTypes, WorkTypes, KernelStates
  <2>5. safeCount' \in [Tasks -> 0..UnsignedMax]
      BY <1>14, <2>1, PlusMinusTypes DEF DestroySuspends, SemTypes
  <2> QED BY <1>14, <2>2, <2>3, <2>4, <2>5 DEF DestroySuspends, SemTypes
<1>15. ASSUME NEW t \in Tasks, DestroyKills(t) PROVE TypeInv'
  <2>1. PICK v \in Tasks : v = Arg(t, 2)
      BY <1>11, <1>15 DEF DestroyKills
  <2>2. KernTypes'
      BY <1>15, <2>1, DeleteTypes DEF DestroyKills
  <2>3. CodeTypes'
    <3>1. Tail(code[t]) \in Seq(CallSteps) /\ <<>> \in Seq(CallSteps)
        BY <1>15, CodeStays, StepsAllowed DEF DestroyKills
    <3>2. code' = [code EXCEPT ![t] = Tail(code[t]), ![v] = <<>>]
        BY <1>15, <2>1 DEF DestroyKills
    <3> QED BY <3>1, <3>2 DEF CodeTypes
  <2>4. Flush(v) \in Seq(TodoItems)
      BY FlushTypes DEF PendQs
  <2>5. SchedTypes' /\ WorkTypes'
      BY <1>15, <2>1, <2>4 DEF DestroyKills, SchedTypes, WorkTypes, KernelStates
  <2>6. SemTypes'
      BY <1>15, <2>1, VmxTaskAssumption DEF DestroyKills, SemTypes
  <2> QED BY <2>2, <2>3, <2>5, <2>6
<1> QED
  BY <1>1, <1>2, <1>3, <1>4, <1>5, <1>6, <1>7, <1>8, <1>9, <1>10, <1>12, <1>13,
     <1>14, <1>15 DEF TaskCall

\* vmxExit, vmxTaskReschedule, dispatch, workQDoWork and the loops.
LEMMA SchedStepTypes ==
    ASSUME TypeInv, SchedStep, UNCHANGED <<semVars, safes>> PROVE TypeInv'
<1>1. KernTypes' /\ SchedTypes' /\ workQ' = workQ
    BY StepTypes DEF TypeInv
<1> QED BY <1>1 DEF TypeInv, SemTypes, CodeTypes, WorkTypes, semVars

\* The code of the kernel, and the jobs.
LEMMA KernelTypes == ASSUME TypeInv, Kernel PROVE TypeInv'
<1>1. CASE SchedStep /\ UNCHANGED <<semVars, safes>>
    BY <1>1, SchedStepTypes
<1> USE DEF TypeInv
<1>2. CASE Disown /\ UNCHANGED safes
  <2> DEFINE s == Head(todo)[2]
             o == semOwner[s]
             owned == s \in DeleteSafe /\ o # NULL /\ Alive(o)
             less == IF owned THEN [safeCount EXCEPT ![o] = Minus1(@)] ELSE safeCount
  <2>1. s \in Sems /\ Tail(todo) \in Seq(TodoItems)
    <3>1. todo # <<>> /\ Head(todo)[1] = "disown" /\ todo \in Seq(TodoItems)
        BY <1>2 DEF Disown, Todo, SchedTypes
    <3>2. Head(todo) \in TodoItems /\ Tail(todo) \in Seq(TodoItems)
        BY <3>1
    <3> QED BY <3>1, <3>2, TodoShape
  <2>2. owned => o \in Tasks /\ Flush(o) \in Seq(TodoItems)
      BY <2>1, FlushTypes DEF SemTypes, PendQs
  <2>3. less \in [Tasks -> 0..UnsignedMax]
      BY <2>2, PlusMinusTypes DEF SemTypes
  <2>4. todo' = (IF owned /\ less[o] = 0 THEN Flush(o) ELSE <<>>) \o Tail(todo)
      BY <1>2 DEF Disown
  <2>5. safeCount' = [less EXCEPT ![taskIdCurrent] = Plus1(@)]
      BY <1>2 DEF Disown
  <2> HIDE DEF owned, less, o, s
  <2>6. todo' \in Seq(TodoItems)
      BY <2>1, <2>2, <2>4
  <2>7. safeCount' \in [Tasks -> 0..UnsignedMax]
      BY <2>3, <2>5, PlusMinusTypes DEF SchedTypes
  <2>8. KernTypes' /\ WorkTypes' /\ CodeTypes'
      BY <1>2, SameTypes DEF Disown, WorkTypes, CodeTypes, loopVars
  <2>9. SchedTypes'
      BY <1>2, <2>6 DEF Disown, SchedTypes, loopVars
  <2>10. SemTypes'
      BY <1>2, <2>7 DEF Disown, SemTypes
  <2> QED BY <2>8, <2>9, <2>10
<1>3. CASE RunJob
  <2>1. PICK j \in CallJobs : j = Head(workQ)
      BY <1>3 DEF RunJob, TakeJob, WorkTypes
  <2>2. WorkTypes'
      BY <1>3 DEF RunJob, TakeJob, WorkTypes
  <2>3. ASSUME todo' \in Seq(TodoItems) PROVE SchedTypes'
      BY <1>3, <2>3 DEF RunJob, TakeJob, SchedTypes
  <2>4. UNCHANGED semVars => SemTypes' /\ CodeTypes'
      BY <1>3 DEF RunJob, SemTypes, CodeTypes, semVars
  <2>5. UNCHANGED todo => todo' \in Seq(TodoItems)
      BY DEF SchedTypes
  <2>6. CASE advance /\ todo' = TickLoops /\ UNCHANGED semVars
    <3>1. todo' \in Seq(TodoItems)
        BY <2>6 DEF TickLoops, TodoItems
    <3> QED BY <2>2, <2>3, <2>4, <2>6, <3>1, AdvanceTypes
  <2>7. CASE /\ j[1] = "give" /\ GiveKernel(j[2])
             /\ UNCHANGED <<todo, semValid, recurse, code, safeCount>>
    <3>1. j[2] \in Sems /\ safes' = safes
        BY <1>3, <2>7, CallJobShape DEF RunJob
    <3>2. KernTypes' /\ SemTypes'
        BY <2>7, <3>1, GiveTypes
    <3> QED BY <2>2, <2>3, <2>5, <2>7, <3>2 DEF CodeTypes
  <2>8. CASE j[1] = "flush" /\ todo' = Flush(j[2]) /\ UNCHANGED <<kernVars, semVars>>
    <3>1. todo' \in Seq(TodoItems)
        BY <2>8, CallJobShape, FlushTypes DEF PendQs
    <3> QED BY <2>2, <2>3, <2>4, <2>8, <3>1, SameTypes
  <2>9. CASE UNCHANGED <<todo, kernVars, semVars>>
      BY <2>2, <2>3, <2>4, <2>5, <2>9, SameTypes
  <2>10. CASE j[1] \in TaskOps /\ TaskKernel(j) /\ UNCHANGED <<todo, semVars>>
    <3>1. j \in Ops
        BY <2>10, CallJobShape
    <3> QED BY <2>2, <2>3, <2>4, <2>5, <2>10, <3>1, TaskKernelTypes
  <2> QED BY <1>3, <2>1, <2>6, <2>7, <2>8, <2>9, <2>10 DEF RunJob
<1> QED BY <1>1, <1>2, <1>3 DEF Kernel

\* intEnt, intExit, tickAnnounce, and the calls handlers make or defer.
LEMMA InterruptTypes == ASSUME TypeInv, Interrupt PROVE TypeInv'
<1> USE DEF TypeInv, SectionOnly, Section
<1>1. CASE HandlerStarts
  <2>1. SemTypes' /\ CodeTypes' /\ WorkTypes' /\ KernTypes'
      BY <1>1, SameTypes DEF HandlerStarts, IntEnt, SemTypes, CodeTypes, WorkTypes, semVars
  <2> QED BY <1>1, <2>1 DEF HandlerStarts, IntEnt, SchedTypes
<1>2. CASE HandlerEnds
  <2>1. SemTypes' /\ CodeTypes' /\ WorkTypes' /\ KernTypes'
      BY <1>2, SameTypes DEF HandlerEnds, IntExit, SemTypes, CodeTypes, WorkTypes, semVars
  <2>2. kpc' \in KernelStates
      BY <1>2 DEF HandlerEnds, IntExit, KernelStates
  <2> QED BY <1>2, <2>1, <2>2 DEF HandlerEnds, IntExit, SchedTypes
<1>3. CASE Tick
  <2>1. SemTypes' /\ CodeTypes' /\ WorkTypes' /\ KernTypes'
      BY <1>3, AdvanceTypes DEF Tick, SemTypes, CodeTypes, WorkTypes, semVars
  <2>2. todo' \in Seq(TodoItems) /\ kpc' \in KernelStates
      BY <1>3 DEF Tick, TickLoops, TodoItems, KernelStates
  <2> QED BY <1>3, <2>1, <2>2 DEF Tick, SchedTypes
<1>4. ASSUME NEW op \in Ops, TaskFromHandler(op) PROVE TypeInv'
  <2>1. SemTypes' /\ CodeTypes' /\ WorkTypes' /\ KernTypes'
      BY <1>4, TaskKernelTypes
         DEF TaskFromHandler, SemTypes, CodeTypes, WorkTypes, semVars
  <2>2. todo' \in Seq(TodoItems) /\ kpc' \in KernelStates
      BY <1>4 DEF TaskFromHandler, KernelStates
  <2> QED BY <1>4, <2>1, <2>2 DEF TaskFromHandler, SchedTypes
<1>5. ASSUME NEW j \in Jobs, Post(j) PROVE TypeInv'
  <2>1. SemTypes' /\ CodeTypes' /\ KernTypes' /\ SchedTypes'
      BY <1>5, SameTypes DEF Post, SemTypes, CodeTypes, SchedTypes, semVars
  <2>2. WorkTypes'
    <3>1. j \in CallJobs
        BY <1>5 DEF Post, CanPost, CallJobs
    <3> QED BY <1>5, <3>1 DEF Post, WorkTypes
  <2> QED BY <2>1, <2>2
<1> QED BY <1>1, <1>2, <1>3, <1>4, <1>5 DEF Interrupt

\* The ready queue of the tasks that were started: each of them is in it once.
LEMMA InitReadyQ ==
    ASSUME NEW q \in [1..Cardinality(Tasks) -> Tasks], Elements(q) = Tasks
    PROVE  IsQueue(q, Tasks) /\ q # <<>> /\ Head(q) \in Tasks
BY VmxAssumption, AllOnce

\* What kernelInit and the root task leave.
LEMMA InitTypes == Init => TypeInv
<1> SUFFICES ASSUME Init PROVE TypeInv
    OBVIOUS
<1>1. readyQ \in Seq(Tasks) /\ taskIdCurrent \in Tasks
    BY InitReadyQ DEF Init, IsQueue
<1>2. MaxTimeout \in Nat /\ MaxSafe \in Nat /\ UnsignedMax \in Nat /\ MaxRecurse \in Nat
    BY VmxLibAssumption, VmxTaskAssumption, VmxSemAssumption
<1>3. KernTypes
    BY <1>1, <1>2, VmxAssumption DEF Init, KernTypes, Flags
<1>4. SchedTypes
  <2>1. kernelIsIdle \in BOOLEAN /\ intr \in BOOLEAN /\ intOff \in BOOLEAN
      BY DEF Init
  <2>2. todo \in Seq(TodoItems) /\ kpc \in KernelStates
      BY DEF Init, KernelStates
  <2>3. /\ savedIntOff \in [Tasks -> BOOLEAN]
        /\ lockCount \in [Tasks -> Nat] /\ timeSlice \in [Tasks -> Nat]
      BY DEF Init
  <2> QED BY <1>1, <2>1, <2>2, <2>3 DEF SchedTypes
<1>5. SemTypes
    BY <1>2 DEF Init, SemTypes
<1>6. CodeTypes /\ WorkTypes
    BY DEF Init, CodeTypes, WorkTypes
<1> QED BY <1>3, <1>4, <1>5, <1>6 DEF TypeInv

\* Every step of tasks, handlers and kernel keeps the types.
LEMMA NextTypes == TypeInv /\ [Next]_vars => TypeInv'
<1> SUFFICES ASSUME TypeInv, [Next]_vars PROVE TypeInv'
    OBVIOUS
<1>1. CASE SemCall /\ safes' = safes
    BY <1>1, SemCallTypes
<1>2. CASE TaskCall
    BY <1>2, TaskCallTypes
<1>3. CASE Kernel
    BY <1>3, KernelTypes
<1>4. CASE Interrupt
    BY <1>4, InterruptTypes
<1>5. CASE UNCHANGED vars
  <2>1. UNCHANGED kernVars /\ UNCHANGED schedVars /\ UNCHANGED semVars /\ safes' = safes
      BY <1>5 DEF vars
  <2> QED
    BY <2>1, SameTypes
       DEF TypeInv, SchedTypes, SemTypes, CodeTypes, WorkTypes, schedVars, semVars
<1> QED BY <1>1, <1>2, <1>3, <1>4, <1>5 DEF Next

\* The type invariant: in the kernel of vmx every queue has tasks in it, every
\* count is in its range, and what a task has yet to do is a step of a call.
THEOREM Types == Spec => []TypeInv
BY InitTypes, NextTypes, PTL DEF Spec

\* The type invariant the runs check.
THEOREM TypeCorrect == Spec => []TypeOK
BY Types, TypeInvType, PTL

-----------------------------------------------------------------------------
(***************************************************************************)
(* Queues and status flags.                                                *)
(***************************************************************************)
\* The routine of a call or job about a task, if it is not taskUndelay.
LEMMA TaskKernelQueues ==
    ASSUME KernTypes, KernTypes', KernInv, NEW op \in Ops, op[1] # "undelay", TaskKernel(op)
    PROVE  KernInv'
<1>1. PICK v \in Tasks : op \in OpsOn(v)
    BY DEF Ops
<1>2. CASE op = <<"suspend", v>>
    BY <1>2, SuspendQueues DEF TaskKernel
<1>3. CASE op = <<"resume", v>>
    BY <1>3, ResumeQueues DEF TaskKernel
<1>4. ASSUME NEW p \in Priorities, op = <<"priority", v, p>> PROVE KernInv'
    BY <1>4, PriorityQueues DEF TaskKernel
<1>5. op # <<"undelay", v>>
    OBVIOUS
<1> QED BY <1>1, <1>2, <1>3, <1>4, <1>5 DEF OpsOn

\* What a give does.
LEMMA GiveQueues ==
    ASSUME KernTypes, KernInv, NEW s \in Sems, GiveKernel(s) PROVE KernInv'
<1>1. CASE pendQ[s] = <<>>
    BY <1>1, SameQueues DEF GiveKernel, kernVars
<1>2. CASE pendQ[s] # <<>>
    BY <1>2, UnpendQueues DEF GiveKernel, vmxPendQGet, PendQs
<1> QED BY <1>1, <1>2

-----------------------------------------------------------------------------
(***************************************************************************)
(* Which task runs.                                                        *)
(***************************************************************************)
SchedInv == SchedBase /\ HighestRuns

RunInv == TypeInv /\ KernInv /\ SchedInv

\* taskUndelay is not called.
NoUndelay == "undelay" \notin TaskCalls \cup IsrCalls

\* A task that executes is ready.
LEMMA RunningReady == ASSUME RunInv, NEW t \in Tasks, Running(t) PROVE Ready(t)
<1>1. /\ taskIdCurrent = t
      /\ \/ taskIdCurrent = readyHead
         \/ Locked
         \/ Ready(taskIdCurrent)
    BY DEF RunInv, SchedInv, SchedBase, HighestRuns, Running
<1> QED BY <1>1, HeadReady DEF Locked, RunInv, TypeInv

\* A call enters the kernel.
LEMMA SectionSched ==
    ASSUME SchedInv, kpc' = "exit", UNCHANGED <<intr, kernelIsIdle>>,
           kernelIsIdle => intr
    PROVE  SchedInv'
BY DEF SchedInv, SchedBase, HighestRuns

\* A call does not enter the kernel, nor change what the scheduler looks at.
LEMMA SameSched ==
    ASSUME SchedInv,
           UNCHANGED <<kpc, todo, intr, kernelIsIdle, taskIdCurrent, readyQ, status,
                       lockCount>>,
           code' = code \/ ~At(taskIdCurrent, "flushSafety")
    PROVE  SchedInv'
<1>1. readyHead' = readyHead /\ (Locked => Locked')
    BY DEF readyHead, Locked, Ready
<1>2. At(taskIdCurrent, "flushSafety") => At(taskIdCurrent, "flushSafety")'
    BY DEF At, Running
<1>3. Ready(taskIdCurrent) => Ready(taskIdCurrent)'
    BY DEF Ready
<1>4. HighestRuns'
    BY <1>1, <1>2, <1>3 DEF HighestRuns, SchedInv, SchedBase
<1> QED BY <1>1, <1>4 DEF SchedInv, SchedBase

\* A loop or a job, before the code of the kernel gets to an exit.
LEMMA InsideSched ==
    ASSUME SchedInv, kpc \in {"exit", "work", "rework"},
           UNCHANGED <<kpc, intr, kernelIsIdle>>
    PROVE  SchedInv'
BY DEF SchedInv, SchedBase, HighestRuns

\* The calls of semBLib, semCLib, semMLib and semLib.
LEMMA SemCallRuns ==
    ASSUME RunInv, TypeInv', SemCall PROVE KernInv' /\ SchedInv'
<1> USE DEF RunInv, TypeInv
<1> USE DEF SectionOnly, NoSection, semVars, schedVars, Section
<1>1. ASSUME NEW t \in Tasks, NEW s \in Sems, TakeFull(t, s) PROVE KernInv' /\ SchedInv'
  BY <1>1, SameQueues, SameSched DEF TakeFull, kernVars
<1>2. ASSUME NEW t \in Tasks, NEW s \in Sems, TakeAgain(t, s) PROVE KernInv' /\ SchedInv'
  BY <1>2, SameQueues, SameSched DEF TakeAgain, kernVars
<1>3. ASSUME NEW t \in Tasks, NEW s \in Sems, TakeNoWait(t, s) PROVE KernInv' /\ SchedInv'
  BY <1>3, SameQueues, SameSched DEF TakeNoWait, kernVars
<1>4. ASSUME NEW t \in Tasks, NEW s \in Sems, NEW n, TakeWait(t, s, n)
      PROVE  KernInv' /\ SchedInv'
  <2>1. Ready(t)
      BY <1>4, RunningReady DEF TakeWait, Free
  <2>2. KernInv'
      BY <1>4, <2>1, PendPutQueues DEF TakeWait, Ready, PendQs
  <2>3. SchedInv'
      BY <1>4, SectionSched DEF TakeWait, Free, Running
  <2> QED BY <2>2, <2>3
<1>5. ASSUME NEW t \in Tasks, TakeReturns(t) PROVE KernInv' /\ SchedInv'
  <2>1. ~At(taskIdCurrent, "flushSafety")
      BY <1>5 DEF TakeReturns, At, Running
  <2> QED BY <1>5, <2>1, SameQueues, SameSched DEF TakeReturns
<1>6. ASSUME NEW t \in Tasks, NEW s \in Sems, GiveRecurse(t, s) PROVE KernInv' /\ SchedInv'
  BY <1>6, SameQueues, SameSched DEF GiveRecurse, kernVars
<1>7. ASSUME NEW t \in Tasks, NEW s \in Sems, GiveMutex(t, s) PROVE KernInv' /\ SchedInv'
  <2>1. s \in PendQs /\ pendQ[s] \in Seq(Tasks)
      BY DEF KernTypes, PendQs
  <2>2. CASE QFirst(pendQ[s], NULL) = NULL
    <3>1. UNCHANGED kernVars
        BY <1>7, <2>2 DEF GiveMutex
    <3>2. KernInv'
        BY <3>1, SameQueues DEF kernVars
    <3>3. CASE UNCHANGED <<kpc, todo>>
        BY <1>7, <3>1, <3>2, <3>3, SameSched DEF GiveMutex, kernVars
    <3>4. CASE kpc' = "exit"
        BY <1>7, <3>2, <3>4, SectionSched DEF GiveMutex, Free, Running
    <3> QED BY <1>7, <3>3, <3>4 DEF GiveMutex
  <2>3. CASE QFirst(pendQ[s], NULL) # NULL
    <3>1. pendQ[s] # <<>>
        BY <2>3 DEF QFirst
    <3>2. KernInv'
        BY <1>7, <2>1, <2>3, <3>1, UnpendQueues DEF GiveMutex, vmxPendQGet
    <3>3. SchedInv'
        BY <1>7, <2>3, SectionSched DEF GiveMutex, Free, Running
    <3> QED BY <3>2, <3>3
  <2> QED BY <2>2, <2>3
<1>8. ASSUME NEW t \in Tasks, NEW s \in Sems, SemDelete(t, s) PROVE KernInv' /\ SchedInv'
  BY <1>8, SameQueues, SectionSched DEF SemDelete, Free, Running, kernVars
<1>9. ASSUME NEW s \in Sems, Give(s) PROVE KernInv' /\ SchedInv'
  <2>1. KernInv'
      BY <1>9, GiveQueues DEF Give
  <2>2. kernelIsIdle => intr
      BY <1>9 DEF Give, Caller, InHandler, Free, Running
  <2>3. CASE pendQ[s] = <<>>
    <3>1. UNCHANGED kernVars /\ UNCHANGED <<kpc, todo>>
        BY <1>9, <2>3 DEF Give, GiveKernel
    <3>2. code' = code /\ UNCHANGED <<intr, kernelIsIdle, taskIdCurrent, lockCount>>
        BY <1>9 DEF Give
    <3>3. SchedInv'
        BY <3>1, <3>2, SameSched DEF kernVars
    <3> QED BY <2>1, <3>3
  <2>4. CASE pendQ[s] # <<>>
    <3>1. kpc' = "exit" /\ UNCHANGED <<intr, kernelIsIdle>>
        BY <1>9, <2>4 DEF Give
    <3> QED BY <2>1, <2>2, <3>1, SectionSched
  <2> QED BY <2>1, <2>3, <2>4
<1>10. ASSUME NEW s \in Sems, SemFlush(s) PROVE KernInv' /\ SchedInv'
  <2>1. kernelIsIdle => intr
      BY <1>10 DEF SemFlush, Caller, InHandler, Free, Running
  <2> QED BY <1>10, <2>1, SameQueues, SectionSched DEF SemFlush, kernVars
<1> QED
  BY <1>1, <1>2, <1>3, <1>4, <1>5, <1>6, <1>7, <1>8, <1>9, <1>10 DEF SemCall

\* The calls of taskLib.
LEMMA TaskCallRuns ==
    ASSUME NoUndelay, RunInv, TypeInv', TaskCall PROVE KernInv' /\ SchedInv'
<1> USE DEF RunInv, TypeInv
<1> USE DEF SectionOnly, NoSection, semVars, semOnly, schedVars, Section
<1>1. ASSUME NEW t \in Tasks, NEW op, TaskVerified(t, op) PROVE KernInv' /\ SchedInv'
  <2>1. ~At(taskIdCurrent, "flushSafety")
      BY <1>1 DEF TaskVerified, Free, At, Running
  <2> QED BY <1>1, <2>1, SameQueues, SameSched DEF TaskVerified, kernVars
<1>2. ASSUME NEW t \in Tasks, TaskApplied(t) PROVE KernInv' /\ SchedInv'
  <2>1. Head(code[t]) \in Ops /\ Head(code[t])[1] # "undelay"
    <3>1. Head(code[t]) \in CallSteps /\ Head(code[t])[1] \in TaskOps
        BY <1>2, CodeStays DEF TaskApplied, At
    <3>2. Head(code[t])[1] # "undelay"
        BY <3>1 DEF CallSteps, NoUndelay
    <3> QED BY <3>1, <3>2, StepShape
  <2>2. KernInv'
      BY <1>2, <2>1, TaskKernelQueues DEF TaskApplied
  <2>3. SchedInv'
      BY <1>2, SectionSched DEF TaskApplied, At, Running
  <2> QED BY <2>2, <2>3
<1>3. ASSUME NEW t \in Tasks, NEW n, taskDelay(t, n) PROVE KernInv' /\ SchedInv'
  <2>1. Ready(t)
      BY <1>3, RunningReady DEF taskDelay, Free
  <2>2. KernInv'
      BY <1>3, <2>1, YieldQueues, DelayQueues DEF taskDelay, Ready
  <2>3. SchedInv'
      BY <1>3, SectionSched DEF taskDelay, Free, Running
  <2> QED BY <2>2, <2>3
<1>4. ASSUME NEW t \in Tasks, taskLock(t) PROVE KernInv' /\ SchedInv'
  <2>1. KernInv'
      BY <1>4, SameQueues DEF taskLock, kernVars
  <2>2. /\ kpc = "user" /\ kpc' = "user" /\ ~intr /\ ~kernelIsIdle /\ taskIdCurrent = t
        /\ UNCHANGED <<todo, intr, kernelIsIdle, taskIdCurrent>>
        /\ ~At(t, "flushSafety")
      BY <1>4 DEF taskLock, Free, At, Running
  <2>3. Locked => Locked'
      BY <1>4, <2>2 DEF taskLock, Locked, SchedTypes, Ready, kernVars
  <2>4. readyHead' = readyHead
      BY <1>4 DEF taskLock, readyHead, kernVars
  <2>5. HighestRuns'
      BY <2>2, <2>3, <2>4 DEF SchedInv, SchedBase, HighestRuns
  <2>6. SchedInv'
      BY <2>2, <2>5 DEF SchedInv, SchedBase
  <2> QED BY <2>1, <2>6
<1>5. ASSUME NEW t \in Tasks, taskUnlock(t) PROVE KernInv' /\ SchedInv'
  <2>1. KernInv'
      BY <1>5, SameQueues DEF taskUnlock, kernVars
  <2>2. /\ kpc = "user" /\ kpc' = "user" /\ ~intr /\ ~kernelIsIdle /\ taskIdCurrent = t
        /\ UNCHANGED <<todo, intr, kernelIsIdle, taskIdCurrent>>
        /\ ~At(t, "flushSafety")
      BY <1>5 DEF taskUnlock, Free, At, Running
  <2>3. Ready(t)
      BY <2>2, RunningReady DEF Running
  <2>4. Ready(t)' /\ readyHead' = readyHead
      BY <1>5, <2>3 DEF taskUnlock, readyHead, kernVars, Ready
  <2>5. CASE lockCount[t] = 1
    <3>1. code[t] \in Seq(CallSteps)
        BY CodeStays
    <3>2. code' = [code EXCEPT ![t] = <<<<"flushSafety">>>>]
            \/ (code[t] # <<>> /\ code' = [code EXCEPT ![t] = <<<<"flushSafety">>>> \o Tail(code[t])])
        BY <1>5, <2>5 DEF taskUnlock, AfterDrop, Call, GoOn, At
    <3>3. code'[t] # <<>> /\ Head(code'[t])[1] = "flushSafety"
      <4>1. CASE code' = [code EXCEPT ![t] = <<<<"flushSafety">>>>]
          BY <4>1 DEF CodeTypes
      <4>2. CASE code[t] # <<>> /\ code' = [code EXCEPT ![t] = <<<<"flushSafety">>>> \o Tail(code[t])]
        <5>1. PICK r \in Seq(CallSteps) : r = Tail(code[t])
            BY <4>2, CodeStays
        <5>2. code'[t] = <<<<"flushSafety">>>> \o r
            BY <4>2, <5>1 DEF CodeTypes
        <5>3. <<<<"flushSafety">>>> \in Seq({<<"flushSafety">>} \cup CallSteps)
              /\ r \in Seq({<<"flushSafety">>} \cup CallSteps)
            BY <5>1
        <5>4. PICK c : c = <<<<"flushSafety">>>> \o r
            OBVIOUS
        <5>5. Len(c) > 0 /\ c[1] = <<"flushSafety">> /\ c \in Seq({<<"flushSafety">>} \cup CallSteps)
            BY <5>3, <5>4, ConcatProperties
        <5> QED BY <5>2, <5>4, <5>5
      <4> QED BY <3>2, <4>1, <4>2
    <3>4. At(t, "flushSafety")'
        BY <2>2, <3>3 DEF At, Running
    <3> QED BY <2>1, <2>2, <2>4, <3>4 DEF SchedInv, SchedBase, HighestRuns
  <2>6. CASE lockCount[t] # 1
    <3>1. Locked => Locked'
        BY <1>5, <2>2, <2>4, <2>6 DEF taskUnlock, Locked, SchedTypes
    <3> QED BY <2>1, <2>2, <2>4, <3>1 DEF SchedInv, SchedBase, HighestRuns
  <2> QED BY <2>5, <2>6
<1>6. ASSUME NEW t \in Tasks, taskSafe(t) PROVE KernInv' /\ SchedInv'
  BY <1>6, SameQueues, SameSched DEF taskSafe, kernVars
<1>7. ASSUME NEW t \in Tasks, taskUnsafe(t) PROVE KernInv' /\ SchedInv'
  <2>1. ~At(taskIdCurrent, "flushSafety")
      BY <1>7 DEF taskUnsafe, Free, At, Running
  <2> QED BY <1>7, <2>1, SameQueues, SameSched DEF taskUnsafe, kernVars
<1>8. ASSUME NEW t \in Tasks, FlushSafety(t) PROVE KernInv' /\ SchedInv'
  BY <1>8, SameQueues, SectionSched DEF FlushSafety, At, Running, kernVars
<1>9. ASSUME NEW t \in Tasks, NEW v, NEW f, DestroyCalled(t, v, f)
      PROVE  KernInv' /\ SchedInv'
  <2>1. ~At(taskIdCurrent, "flushSafety")
      BY <1>9 DEF DestroyCalled, Free, At, Running
  <2> QED BY <1>9, <2>1, SameQueues, SameSched DEF DestroyCalled, kernVars
<1>10. ASSUME NEW t \in Tasks, DestroyTooLate(t) PROVE KernInv' /\ SchedInv'
  <2>1. ~At(taskIdCurrent, "flushSafety")
      BY <1>10 DEF DestroyTooLate, At, Running
  <2> QED BY <1>10, <2>1, SameQueues, SameSched DEF DestroyTooLate, kernVars
<1>11. ASSUME NEW t \in Tasks, At(t, "destroy") \/ At(t, "kill") PROVE Arg(t, 2) \in Tasks
    BY <1>11, CodeStays, StepShape DEF Arg, At
<1>12. ASSUME NEW t \in Tasks, DestroyWaits(t) PROVE KernInv' /\ SchedInv'
  <2>1. Ready(t)
      BY <1>12, RunningReady DEF DestroyWaits, At
  <2>2. Arg(t, 2) \in PendQs
      BY <1>11, <1>12 DEF DestroyWaits, PendQs
  <2>3. KernInv'
      BY <1>12, <2>1, <2>2, PendPutQueues DEF DestroyWaits, Ready
  <2> QED BY <1>12, <2>3, SectionSched DEF DestroyWaits, At, Running
<1>13. ASSUME NEW t \in Tasks, DestroyForces(t) PROVE KernInv' /\ SchedInv'
  BY <1>13, SameQueues, SectionSched DEF DestroyForces, At, Running, kernVars
<1>14. ASSUME NEW t \in Tasks, DestroySuspends(t) PROVE KernInv' /\ SchedInv'
  <2>1. PICK v \in Tasks : v = Arg(t, 2)
      BY <1>11, <1>14 DEF DestroySuspends
  <2>2. KernInv'
      BY <1>14, <2>1, SuspendQueues DEF DestroySuspends
  <2> QED BY <1>14, <2>2, SectionSched DEF DestroySuspends, At, Running
<1>15. ASSUME NEW t \in Tasks, DestroyKills(t) PROVE KernInv' /\ SchedInv'
  <2>1. PICK v \in Tasks : v = Arg(t, 2)
      BY <1>11, <1>15 DEF DestroyKills
  <2>2. KernInv'
      BY <1>15, <2>1, DeleteQueues DEF DestroyKills
  <2> QED BY <1>15, <2>2, SectionSched DEF DestroyKills, At, Running
<1> QED
  BY <1>1, <1>2, <1>3, <1>4, <1>5, <1>6, <1>7, <1>8, <1>9, <1>10, <1>12, <1>13,
     <1>14, <1>15 DEF TaskCall

\* vmxExit, vmxTaskReschedule, dispatch, workQDoWork and the loops.
LEMMA SchedStepRuns ==
    ASSUME RunInv, TypeInv', SchedStep, code' = code PROVE KernInv' /\ SchedInv'
<1>1. KernInv' /\ SchedBase' /\ RunsRight'
    BY StepRuns DEF RunInv, TypeInv, SchedInv, SchedBase
<1> QED BY <1>1 DEF SchedInv, SchedBase, RunsRight, HighestRuns

\* The code of the kernel, and the jobs.
LEMMA KernelRuns ==
    ASSUME NoUndelay, RunInv, TypeInv', Kernel PROVE KernInv' /\ SchedInv'
<1>1. CASE SchedStep /\ UNCHANGED <<semVars, safes>>
    BY <1>1, SchedStepRuns DEF semVars
<1> USE DEF RunInv, TypeInv
<1>2. CASE Disown
  <2>1. kpc \in {"exit", "work", "rework"}
      BY <1>2 DEF Disown, Todo, SchedInv, SchedBase, SchedTypes, KernelStates
  <2> QED BY <1>2, <2>1, SameQueues, InsideSched DEF Disown, loopVars, kernVars
<1>3. CASE RunJob
  <2>1. PICK j \in CallJobs : j = Head(workQ)
      BY <1>3 DEF RunJob, TakeJob, WorkTypes
  <2>2. SchedInv'
      BY <1>3, InsideSched DEF RunJob, TakeJob, KernelAt
  <2>3. CASE advance
      BY <2>2, <2>3, AdvanceQueues
  <2>4. CASE j[1] = "give" /\ GiveKernel(j[2])
      BY <2>2, <2>4, CallJobShape, GiveQueues
  <2>5. CASE UNCHANGED kernVars
      BY <2>2, <2>5, SameQueues DEF kernVars
  <2>6. CASE j[1] \in TaskOps /\ TaskKernel(j)
    <3>1. j \in Ops /\ j[1] # "undelay"
        BY <2>6, CallJobShape DEF CallJobs, NoUndelay
    <3> QED BY <2>2, <2>6, <3>1, TaskKernelQueues
  <2> QED BY <1>3, <2>1, <2>3, <2>4, <2>5, <2>6 DEF RunJob
<1> QED BY <1>1, <1>2, <1>3 DEF Kernel

\* intEnt, intExit, tickAnnounce, and the calls handlers make or defer.
LEMMA InterruptRuns ==
    ASSUME NoUndelay, RunInv, TypeInv', Interrupt PROVE KernInv' /\ SchedInv'
<1> USE DEF RunInv, TypeInv, SectionOnly, Section
<1>1. CASE HandlerStarts
  <2>1. KernInv' /\ intr' /\ kpc = "user" /\ kpc' = "user" /\ todo' = todo
      BY <1>1, SameQueues DEF HandlerStarts, IntEnt, kernVars
  <2> QED BY <2>1 DEF SchedInv, SchedBase, HighestRuns
<1>2. CASE HandlerEnds
  <2>1. /\ KernInv' /\ ~intr' /\ kpc = "user" /\ todo' = todo
        /\ kernelIsIdle' = kernelIsIdle /\ taskIdCurrent' = taskIdCurrent
        /\ kpc' = IF kernelIsIdle \/ (taskIdCurrent # readyHead /\ ~Locked)
                  THEN "resched" ELSE "user"
      BY <1>2, SameQueues DEF HandlerEnds, IntExit, kernVars
  <2>2. readyHead' = readyHead /\ (Locked => Locked')
      BY <1>2 DEF HandlerEnds, IntExit, kernVars, readyHead, Locked, Ready
  <2> QED BY <2>1, <2>2 DEF SchedInv, SchedBase, HighestRuns
<1>3. CASE Tick
  BY <1>3, AdvanceQueues, SectionSched DEF Tick, InHandler
<1>4. ASSUME NEW op \in Ops, op[1] \in IsrCalls, TaskFromHandler(op)
      PROVE  KernInv' /\ SchedInv'
  <2>1. op[1] # "undelay"
      BY <1>4 DEF NoUndelay
  <2> QED BY <1>4, <2>1, TaskKernelQueues, SectionSched DEF TaskFromHandler, InHandler
<1>5. ASSUME NEW j \in Jobs, Post(j) PROVE KernInv' /\ SchedInv'
  BY <1>5, SameQueues, SameSched DEF Post, kernVars, semVars
<1> QED BY <1>1, <1>2, <1>3, <1>4, <1>5 DEF Interrupt

\* What kernelInit and the root task leave.
LEMMA InitRuns == Init => KernInv /\ SchedInv
<1> SUFFICES ASSUME Init PROVE KernInv /\ SchedInv
    OBVIOUS
<1>1. IsQueue(readyQ, Tasks) /\ readyQ # <<>>
    BY InitReadyQ DEF Init
<1>2. ReadyOK
    BY <1>1 DEF Init, ReadyOK, Ready
<1>3. Elements(<<>>) = {} /\ IsQueue(<<>>, Tasks) /\ \A key : QSorted(<<>>, key)
    BY DEF Elements, IsQueue, QSorted
<1>4. TickOK /\ PendOK
    BY <1>3 DEF Init, TickOK, PendOK
<1>5. SchedInv
    BY <1>1 DEF Init, SchedInv, SchedBase, HighestRuns, readyHead, QFirst
<1> QED BY <1>2, <1>4, <1>5 DEF KernInv

\* The invariant is inductive as long as taskUndelay is not called.
LEMMA NextRuns == NoUndelay /\ RunInv /\ [Next]_vars => RunInv'
<1> SUFFICES ASSUME NoUndelay, RunInv, [Next]_vars PROVE RunInv'
    OBVIOUS
<1>1. TypeInv'
    BY NextTypes DEF RunInv
<1>2. CASE SemCall
    BY <1>1, <1>2, SemCallRuns DEF RunInv
<1>3. CASE TaskCall
    BY <1>1, <1>3, TaskCallRuns DEF RunInv
<1>4. CASE Kernel
    BY <1>1, <1>4, KernelRuns DEF RunInv
<1>5. CASE Interrupt
    BY <1>1, <1>5, InterruptRuns DEF RunInv
<1>6. CASE UNCHANGED vars
    BY <1>1, <1>6, SameQueues, SameSched DEF RunInv, vars, kernVars, schedVars, semVars
<1> QED BY <1>2, <1>3, <1>4, <1>5, <1>6 DEF Next

\* What the runs check of queues, flags and the scheduler are parts of RunInv.
LEMMA QueuesTell == RunInv => QueuesMatchStatus /\ QueuesSorted /\ HighestRuns
<1> SUFFICES ASSUME RunInv PROVE QueuesMatchStatus /\ QueuesSorted /\ HighestRuns
    OBVIOUS
<1> USE DEF RunInv, KernInv
<1>1. ASSUME NEW q, IsQueue(q, Tasks) PROVE NoDuplicates(q)
    BY <1>1, QueueSize DEF NoDuplicates
<1>2. ASSUME NEW t \in Tasks
      PROVE  Count(LAMBDA q : t \in Elements(pendQ[q]), PendQs)
               = (IF "pend" \in status[t] THEN 1 ELSE 0)
  <2> DEFINE Q == {q \in PendQs : t \in Elements(pendQ[q])}
  <2>1. Count(LAMBDA q : t \in Elements(pendQ[q]), PendQs) = Cardinality(Q)
      BY DEF Count
  <2>2. CASE "pend" \in status[t]
    <3>1. PICK q \in PendQs : t \in Elements(pendQ[q])
        BY <2>2 DEF PendOK
    <3>2. Q = {q}
        BY <3>1 DEF PendOK
    <3> QED BY <2>1, <2>2, <3>2, FS_Singleton
  <2>3. CASE "pend" \notin status[t]
    <3>1. Q = {}
        BY <2>3 DEF PendOK
    <3> QED BY <2>1, <2>3, <3>1, FS_EmptySet
  <2> QED BY <2>2, <2>3
<1>3. QueuesMatchStatus
    BY <1>1, <1>2 DEF QueuesMatchStatus, TickQMatches, ReadyOK, TickOK, PendOK
<1>4. QueuesSorted
    BY DEF QueuesSorted, ReadyOK, TickOK, PendOK
<1> QED BY <1>3, <1>4 DEF SchedInv, SchedBase

\* Tasks, flags, queues and the scheduler fit together at every step of the
\* kernel (vmxLib.c, vmxALib.s), if vmxUndelay is not called, which does not
\* take the task out of the tick queue.
THEOREM RunsInductive == ASSUME NoUndelay PROVE Spec => []RunInv
<1>1. Init => RunInv
    BY InitTypes, InitRuns DEF RunInv
<1>2. RunInv /\ [Next]_vars => RunInv'
    BY NextRuns
<1> QED BY <1>1, <1>2, PTL DEF Spec

\* A task is in a queue exactly if its status flags say so, for every order of
\* calls, jobs, ticks and interrupts.
THEOREM QueuesAndFlags == ASSUME NoUndelay PROVE Spec => []QueuesMatchStatus
BY RunsInductive, QueuesTell, PTL

\* Every priority queue is sorted at every step, whoever changes a priority.
THEOREM QueuesInOrder == ASSUME NoUndelay PROVE Spec => []QueuesSorted
BY RunsInductive, QueuesTell, PTL

\* Whenever the kernel is left, through vmxExit, dispatch, noTaskReady or
\* intExit, the first task of the ready queue runs, or one with preemption off.
THEOREM MostUrgentRuns == ASSUME NoUndelay PROVE Spec => []HighestRuns
BY RunsInductive, QueuesTell, PTL

-----------------------------------------------------------------------------
(***************************************************************************)
(* Semaphores and those who wait for them.                                 *)
(***************************************************************************)
\* The loop that wakes those who wait for a deleted semaphore is not done.
Terminating(s) == \E i \in DOMAIN todo : todo[i] = <<"terminate", s>>

\* Nobody begins to wait for a semaphore nobody waits for.
NobodyNew == \A s \in Sems : pendQ[s] = <<>> => pendQ'[s] = <<>>

\* If queues only shrink, an empty one stays empty.
LEMMA ShrinkNobodyNew == ASSUME KernTypes', QueuesShrink PROVE NobodyNew
<1> SUFFICES ASSUME NEW s \in Sems, pendQ[s] = <<>> PROVE pendQ'[s] = <<>>
    BY DEF NobodyNew
<1>1. PICK r \in Seq(Tasks) : r = pendQ'[s]
    BY DEF KernTypes, PendQs
<1>2. Elements(r) = {}
  <2>1. Elements(<<>>) = {}
      BY DEF Elements
  <2> QED BY <1>1, <2>1 DEF QueuesShrink, PendQs
<1>3. r = <<>>
  <2>1. r # <<>> => r[1] \in Elements(r)
      BY QueueElements
  <2> QED BY <1>2, <2>1
<1> QED BY <1>1, <1>3

\* The routine that a call of taskLib or its job calls.
LEMMA TaskKernelShrink ==
    ASSUME KernTypes, KernTypes', PendOK, NEW op \in Ops, TaskKernel(op)
    PROVE  QueuesShrink
<1>1. PICK v \in Tasks : op \in OpsOn(v)
    BY DEF Ops
<1>2. CASE op = <<"suspend", v>>
    BY <1>2, SameShrink DEF TaskKernel, vmxSuspend
<1>3. CASE op = <<"resume", v>>
    BY <1>3, SameShrink DEF TaskKernel, vmxResume
<1>4. ASSUME NEW p \in Priorities, op = <<"priority", v, p>> PROVE QueuesShrink
    BY <1>4, PriorityShrink DEF TaskKernel
<1>5. CASE op = <<"undelay", v>>
    BY <1>5, SameShrink DEF TaskKernel, vmxUndelay
<1> QED BY <1>1, <1>2, <1>3, <1>4, <1>5 DEF OpsOn

\* What a give does to the queues.
LEMMA GiveShrink ==
    ASSUME KernTypes, PendOK, NEW s \in Sems, GiveKernel(s) PROVE QueuesShrink
<1>1. CASE pendQ[s] = <<>>
    BY <1>1, SameShrink DEF GiveKernel, kernVars
<1>2. CASE pendQ[s] # <<>>
    BY <1>2, UnpendShrink DEF GiveKernel, vmxPendQGet, PendQs
<1> QED BY <1>1, <1>2

-----------------------------------------------------------------------------
\* A step that has nothing to do with the state of semaphores, and ends no loop
\* over the queue of a deleted one too early.
LEMMA WaitsStay ==
    ASSUME NoNeedlessWait, NobodyNew, UNCHANGED <<semValid, semOwner, semCount>>,
           \A s \in Sems : Terminating(s) => Terminating(s)' \/ pendQ'[s] = <<>>
    PROVE  NoNeedlessWait'
BY DEF NoNeedlessWait, NobodyNew, Full, Terminating

\* A call that starts with no loop to do.
LEMMA NoLoops == ASSUME todo = <<>>, NEW s PROVE ~Terminating(s)
BY DEF Terminating

\* The first loop is done, and others are put before the rest.
LEMMA LoopsLeft ==
    ASSUME todo \in Seq(TodoItems), todo # <<>>, NEW s,
           \E f \in Seq(TodoItems) : todo' = f \o Tail(todo), Terminating(s)
    PROVE  Terminating(s)' \/ Head(todo) = <<"terminate", s>>
<1>1. PICK N \in Nat : N = Len(todo) /\ DOMAIN todo = 1..N
    OBVIOUS
<1>2. PICK i \in 1..N : todo[i] = <<"terminate", s>>
    BY <1>1 DEF Terminating
<1>3. CASE i = 1
    BY <1>2, <1>3
<1>4. CASE i > 1
  <2>1. PICK f \in Seq(TodoItems) : todo' = f \o Tail(todo)
      OBVIOUS
  <2>2. PICK r \in Seq(TodoItems) : /\ r = Tail(todo) /\ Len(r) = N - 1
                                    /\ \A j \in 1..(N - 1) : r[j] = todo[j + 1]
    <3>1. PICK r \in Seq(TodoItems) : r = Tail(todo)
        BY HeadTailProperties
    <3> QED BY <1>1, <3>1, HeadTailProperties
  <2>3. i - 1 \in 1..(N - 1) /\ r[i - 1] = todo[i]
      BY <1>4, <2>2
  <2>4. PICK M \in Nat : M = Len(f)
      OBVIOUS
  <2>5. PICK g : g = f \o r
      OBVIOUS
  <2>6. Len(g) = M + (N - 1) /\ DOMAIN g = 1..(M + (N - 1))
        /\ \A j \in 1..(M + (N - 1)) : g[j] = IF j <= M THEN f[j] ELSE r[j - M]
    <3>1. g \in Seq(TodoItems) /\ Len(g) = Len(f) + Len(r)
          /\ \A j \in 1..(Len(f) + Len(r)) : g[j] = IF j <= Len(f) THEN f[j] ELSE r[j - Len(f)]
        BY <2>2, <2>5, ConcatProperties
    <3> QED BY <1>1, <2>2, <2>4, <3>1
  <2>7. M + (i - 1) \in DOMAIN g /\ g[M + (i - 1)] = todo[i]
    <3>1. M + (i - 1) \in 1..(M + (N - 1)) /\ ~(M + (i - 1) <= M) /\ (M + (i - 1)) - M = i - 1
        BY <2>3
    <3> QED BY <2>3, <2>6, <3>1
  <2>8. todo' = g
      BY <2>1, <2>2, <2>5
  <2> QED BY <1>2, <2>7, <2>8 DEF Terminating
<1> QED BY <1>3, <1>4

\* What a give does: with somebody in the queue the semaphore does not get full.
LEMMA GiveWaits ==
    ASSUME KernTypes, KernTypes', PendOK, SemTypes, NoNeedlessWait, NEW s \in Sems, semValid[s],
           GiveKernel(s), semValid' = semValid, todo = <<>>
    PROVE  NoNeedlessWait'
<1>1. s \in PendQs /\ pendQ[s] \in Seq(Tasks)
    BY DEF KernTypes, PendQs
<1>2. NobodyNew
    BY GiveShrink, ShrinkNobodyNew
<1>3. \A r \in Sems : r # s => /\ semOwner'[r] = semOwner[r]
                               /\ semCount'[r] = semCount[r]
    BY DEF GiveKernel, SemTypes
<1>4. pendQ[s] # <<>> => ~Full(s)'
  <2> SUFFICES ASSUME pendQ[s] # <<>> PROVE ~Full(s)'
      OBVIOUS
  <2>1. CASE SemType[s] = "counting"
    <3>1. ~Full(s) /\ semCount' = semCount
        BY <2>1 DEF NoNeedlessWait, GiveKernel
    <3> QED BY <2>1, <3>1 DEF Full
  <2>2. CASE SemType[s] # "counting"
    <3>1. QFirst(pendQ[s], NULL) \in Tasks
        BY <1>1 DEF QFirst
    <3>2. semOwner'[s] = QFirst(pendQ[s], NULL)
        BY <2>2 DEF GiveKernel, SemTypes
    <3>3. semOwner'[s] # NULL
        BY <3>1, <3>2, VmxLibAssumption
    <3> QED BY <2>2, <3>3 DEF Full
  <2> QED BY <2>1, <2>2
<1>5. \A r \in Sems : ~Terminating(r)
    BY NoLoops
<1> QED BY <1>2, <1>3, <1>4, <1>5 DEF NoNeedlessWait, NobodyNew, Full, Terminating

\* The calls of semBLib, semCLib, semMLib and semLib.
LEMMA SemCallWaits ==
    ASSUME RunInv, TypeInv', NoNeedlessWait, SemCall PROVE NoNeedlessWait'
<1> USE DEF RunInv, TypeInv, KernInv
<1> USE DEF SectionOnly, NoSection, semVars, schedVars, Section, Free, At, Running
<1>1. ASSUME NEW t \in Tasks, NEW s \in Sems, TakeFull(t, s) PROVE NoNeedlessWait'
  <2>1. todo' = todo /\ semValid' = semValid /\ pendQ' = pendQ
      BY <1>1 DEF TakeFull, kernVars
  <2>2. \A r \in Sems : r # s => semOwner'[r] = semOwner[r] /\ semCount'[r] = semCount[r]
      BY <1>1 DEF TakeFull, SemTypes
  <2>3. pendQ[s] = <<>>
      BY <1>1 DEF TakeFull, NoNeedlessWait
  <2> QED BY <2>1, <2>2, <2>3 DEF NoNeedlessWait, Full
<1>2. ASSUME NEW t \in Tasks, NEW s \in Sems, TakeAgain(t, s) PROVE NoNeedlessWait'
  BY <1>2, WaitsStay DEF TakeAgain, kernVars, NobodyNew, Terminating
<1>3. ASSUME NEW t \in Tasks, NEW s \in Sems, TakeNoWait(t, s) PROVE NoNeedlessWait'
  BY <1>3, WaitsStay DEF TakeNoWait, kernVars, NobodyNew, Terminating
<1>4. ASSUME NEW t \in Tasks, NEW s \in Sems, NEW n, TakeWait(t, s, n)
      PROVE  NoNeedlessWait'
  <2>1. todo = <<>>
      BY <1>4 DEF TakeWait, SchedInv, SchedBase
  <2>2. /\ semValid' = semValid /\ semOwner' = semOwner /\ semCount' = semCount
        /\ semValid[s] /\ ~Full(s)
      BY <1>4 DEF TakeWait
  <2>3. \A r \in Sems : r # s => pendQ'[r] = pendQ[r]
      BY <1>4 DEF TakeWait, vmxPendQPut, KernTypes
  <2>4. \A r \in Sems : ~Terminating(r)
      BY <2>1, NoLoops
  <2> QED BY <2>2, <2>3, <2>4 DEF NoNeedlessWait, Full, Terminating
<1>5. ASSUME NEW t \in Tasks, TakeReturns(t) PROVE NoNeedlessWait'
  BY <1>5, WaitsStay DEF TakeReturns, NobodyNew, Terminating
<1>6. ASSUME NEW t \in Tasks, NEW s \in Sems, GiveRecurse(t, s) PROVE NoNeedlessWait'
  BY <1>6, WaitsStay DEF GiveRecurse, kernVars, NobodyNew, Terminating
<1>7. ASSUME NEW t \in Tasks, NEW s \in Sems, GiveMutex(t, s) PROVE NoNeedlessWait'
  <2>1. s \in PendQs /\ pendQ[s] \in Seq(Tasks)
      BY DEF KernTypes, PendQs
  <2>2. PICK next : next = QFirst(pendQ[s], NULL)
      OBVIOUS
  <2>3. /\ next = NULL => pendQ[s] = <<>>
        /\ next # NULL => pendQ[s] # <<>>
      BY <2>1, <2>2, VmxLibAssumption DEF QFirst
  <2>4. /\ semOwner' = [semOwner EXCEPT ![s] = next] /\ semValid' = semValid
        /\ semCount' = semCount /\ semValid[s] /\ SemType[s] = "mutex"
        /\ IF next = NULL THEN UNCHANGED kernVars ELSE vmxPendQGet(s)
      BY <1>7, <2>2 DEF GiveMutex
  <2>5. NobodyNew
    <3>1. CASE next = NULL
        BY <2>4, <3>1 DEF kernVars, NobodyNew
    <3>2. CASE next # NULL
        BY <2>1, <2>3, <2>4, <3>2, UnpendShrink, ShrinkNobodyNew DEF vmxPendQGet
    <3> QED BY <3>1, <3>2
  <2>6. \A r \in Sems : ~Terminating(r)
    <3>1. todo = <<>>
        BY <1>7 DEF GiveMutex, SchedInv, SchedBase
    <3> QED BY <3>1, NoLoops
  <2>7. /\ semOwner'[s] = next
        /\ \A r \in Sems : r # s => semOwner'[r] = semOwner[r]
      BY <2>4 DEF SemTypes
  <2> QED BY <2>3, <2>4, <2>5, <2>6, <2>7 DEF NoNeedlessWait, NobodyNew, Full, Terminating
<1>8. ASSUME NEW t \in Tasks, NEW s \in Sems, SemDelete(t, s) PROVE NoNeedlessWait'
  <2>1. todo = <<>> /\ todo' = <<<<"terminate", s>>, <<"disown", s>>>>
      BY <1>8 DEF SemDelete, SchedInv, SchedBase
  <2>2. /\ semOwner' = semOwner /\ semCount' = semCount /\ pendQ' = pendQ
        /\ \A r \in Sems : r # s => semValid'[r] = semValid[r]
        /\ ~semValid'[s]
      BY <1>8 DEF SemDelete, kernVars, SemTypes
  <2>3. Terminating(s)'
    <3>1. 1 \in DOMAIN todo' /\ todo'[1] = <<"terminate", s>>
        BY <2>1
    <3> QED BY <3>1 DEF Terminating
  <2>4. \A r \in Sems : ~Terminating(r)
      BY <2>1, NoLoops
  <2> QED BY <2>2, <2>3, <2>4 DEF NoNeedlessWait, Full, Terminating
<1>9. ASSUME NEW s \in Sems, Give(s) PROVE NoNeedlessWait'
  <2>1. todo = <<>>
      BY <1>9 DEF Give, Caller, InHandler, SchedInv, SchedBase
  <2> QED BY <1>9, <2>1, GiveWaits DEF Give
<1>10. ASSUME NEW s \in Sems, SemFlush(s) PROVE NoNeedlessWait'
  <2>1. todo = <<>>
      BY <1>10 DEF SemFlush, Caller, InHandler, SchedInv, SchedBase
  <2>2. \A r \in Sems : ~Terminating(r)
      BY <2>1, NoLoops
  <2> QED BY <1>10, <2>2, WaitsStay DEF SemFlush, kernVars, NobodyNew
<1> QED
  BY <1>1, <1>2, <1>3, <1>4, <1>5, <1>6, <1>7, <1>8, <1>9, <1>10 DEF SemCall

\* The calls of taskLib: they are not about semaphores.
LEMMA TaskCallWaits ==
    ASSUME RunInv, TypeInv', NoNeedlessWait, TaskCall PROVE NoNeedlessWait'
<1> USE DEF RunInv, TypeInv, KernInv
<1> USE DEF SectionOnly, NoSection, semVars, semOnly, schedVars, Section, Free, At, Running
<1>1. todo = <<>> /\ UNCHANGED <<semValid, semOwner, semCount>>
  BY DEF TaskCall, SchedInv, SchedBase, TaskVerified, TaskApplied, taskDelay, taskLock, taskUnlock,
     taskSafe, taskUnsafe, FlushSafety, DestroyCalled, DestroyTooLate, DestroyWaits,
     DestroyForces, DestroySuspends, DestroyKills
<1>2. \A r \in Sems : ~Terminating(r)
  BY <1>1, NoLoops
<1>3. SUFFICES NobodyNew
  BY <1>1, <1>2, WaitsStay
<1>4. ASSUME NEW t \in Tasks, At(t, "destroy") \/ At(t, "kill") PROVE Arg(t, 2) \in Tasks
    BY <1>4, CodeStays, StepShape DEF Arg
<1>5. ASSUME NEW t \in Tasks, TaskApplied(t) PROVE NobodyNew
  <2>1. Head(code[t]) \in Ops
    <3>1. Head(code[t]) \in CallSteps /\ Head(code[t])[1] \in TaskOps
        BY <1>5, CodeStays DEF TaskApplied
    <3> QED BY <3>1, StepShape
  <2> QED BY <1>5, <2>1, TaskKernelShrink, ShrinkNobodyNew DEF TaskApplied
<1>6. ASSUME NEW t \in Tasks, NEW n, taskDelay(t, n) PROVE NobodyNew
    BY <1>6 DEF taskDelay, yield, vmxDelay, NobodyNew
<1>7. ASSUME NEW t \in Tasks, DestroyWaits(t) PROVE NobodyNew
  <2>1. PICK v \in Tasks : v = Arg(t, 2)
      BY <1>4, <1>7 DEF DestroyWaits
  <2>2. vmxPendQPut(v, t, WAIT_FOREVER)
      BY <1>7, <2>1 DEF DestroyWaits
  <2>3. v \notin Sems
      BY VmxLibAssumption
  <2> QED BY <2>2, <2>3 DEF vmxPendQPut, KernTypes, NobodyNew
<1>8. ASSUME NEW t \in Tasks, DestroyKills(t) PROVE NobodyNew
  <2>1. PICK v \in Tasks : v = Arg(t, 2)
      BY <1>4, <1>8 DEF DestroyKills
  <2> QED BY <1>8, <2>1, DeleteShrink, ShrinkNobodyNew DEF DestroyKills
<1>9. ASSUME NEW t \in Tasks, DestroySuspends(t) PROVE NobodyNew
    BY <1>9 DEF DestroySuspends, vmxSuspend, NobodyNew
<1>10. ASSUME UNCHANGED kernVars PROVE NobodyNew
    BY <1>10 DEF kernVars, NobodyNew
<1> QED
  BY <1>5, <1>6, <1>7, <1>8, <1>9, <1>10 DEF TaskCall, TaskVerified, taskLock, taskUnlock,
     taskSafe, taskUnsafe, FlushSafety, DestroyCalled, DestroyTooLate, DestroyForces

\* The code of the kernel, and the jobs.
LEMMA KernelWaits ==
    ASSUME RunInv, TypeInv', NoNeedlessWait, Kernel PROVE NoNeedlessWait'
<1> USE DEF RunInv, TypeInv, KernInv
<1>1. ASSUME UNCHANGED pendQ, UNCHANGED todo, UNCHANGED <<semValid, semOwner, semCount>>
      PROVE  NoNeedlessWait'
    BY <1>1, WaitsStay DEF NobodyNew, Terminating
<1>2. ASSUME NobodyNew, todo # <<>>, UNCHANGED <<semValid, semOwner, semCount>>,
             \/ UNCHANGED todo
             \/ todo' = Tail(todo) /\ \A s \in Sems : Head(todo) = <<"terminate", s>> => pendQ'[s] = <<>>
      PROVE  NoNeedlessWait'
  <2>1. CASE UNCHANGED todo
      BY <1>2, <2>1, WaitsStay DEF Terminating
  <2>2. CASE todo' = Tail(todo) /\ \A s \in Sems : Head(todo) = <<"terminate", s>> => pendQ'[s] = <<>>
    <3>1. \E f \in Seq(TodoItems) : todo' = f \o Tail(todo)
      <4>1. todo' = <<>> \o Tail(todo) /\ <<>> \in Seq(TodoItems)
          BY <1>2, <2>2 DEF SchedTypes
      <4> QED BY <4>1
    <3>2. \A s \in Sems : Terminating(s) => Terminating(s)' \/ pendQ'[s] = <<>>
        BY <1>2, <2>2, <3>1, LoopsLeft DEF SchedTypes
    <3> QED BY <1>2, <3>2, WaitsStay
  <2> QED BY <1>2, <2>1, <2>2
<1>3. CASE SchedStep /\ UNCHANGED <<semVars, safes>>
  <2> USE DEF semVars
  <2>1. CASE \/ ExitFromInt \/ ExitToCaller \/ SaveTaskContext
             \/ SwitchTasks \/ Dispatch \/ NoTaskReady \/ WorkDone
      BY <1>1, <1>3, <2>1 DEF ExitFromInt, ExitToCaller, SaveTaskContext, SwitchTasks,
         Dispatch, NoTaskReady, WorkDone, othersThan, kernVars
  <2> USE DEF Todo, kernVars
  <2>2. todo # <<>> => Head(todo) \in TodoItems
      BY DEF SchedTypes
  <2>3. CASE FlushLoop
    <3>1. PICK q \in PendQs : q = Head(todo)[2]
        BY <2>2, <2>3, TodoShape DEF FlushLoop
    <3>2. CASE pendQ[q] # <<>>
        BY <1>2, <1>3, <2>3, <3>1, <3>2, UnpendShrink, ShrinkNobodyNew DEF FlushLoop, vmxPendQFlush
    <3>3. CASE pendQ[q] = <<>>
        BY <1>2, <1>3, <2>3, <3>1, <3>3 DEF FlushLoop, NobodyNew
    <3> QED BY <3>2, <3>3
  <2>4. CASE TerminateLoop
    <3>1. PICK q \in PendQs : q = Head(todo)[2]
        BY <2>2, <2>4, TodoShape DEF TerminateLoop
    <3>2. CASE pendQ[q] # <<>>
        BY <1>2, <1>3, <2>4, <3>1, <3>2, UnpendShrink, ShrinkNobodyNew DEF TerminateLoop, vmxPendQTerminate
    <3>3. CASE pendQ[q] = <<>>
        BY <1>2, <1>3, <2>4, <3>1, <3>3 DEF TerminateLoop, NobodyNew
    <3> QED BY <3>2, <3>3
  <2>5. CASE ExpireLoop
    <3>1. CASE Expired
        BY <1>2, <1>3, <2>5, <3>1, ExpireShrink, ShrinkNobodyNew DEF ExpireLoop
    <3>2. CASE ~Expired
        BY <1>2, <1>3, <2>5, <3>2 DEF ExpireLoop, NobodyNew
    <3> QED BY <3>1, <3>2
  <2>6. CASE RoundRobin
      BY <1>2, <1>3, <2>6 DEF RoundRobin, yield, NobodyNew
  <2> QED BY <1>3, <2>1, <2>3, <2>4, <2>5, <2>6 DEF SchedStep
<1>4. CASE Disown
  <2>1. todo # <<>> /\ Head(todo)[1] = "disown" /\ Head(todo) \in TodoItems
    <3>1. todo # <<>> /\ Head(todo)[1] = "disown"
        BY <1>4 DEF Disown, Todo
    <3> QED BY <3>1 DEF SchedTypes
  <2>2. NobodyNew /\ UNCHANGED <<semValid, semOwner, semCount>>
      BY <1>4 DEF Disown, kernVars, NobodyNew
  <2>3. PICK o : o = semOwner[Head(todo)[2]] /\ o \in Tasks \cup {NULL}
      BY <2>1, TodoShape DEF SemTypes
  <2>4. \/ todo' = <<>> \o Tail(todo)
        \/ o # NULL /\ todo' = Flush(o) \o Tail(todo)
      BY <1>4, <2>3 DEF Disown
  <2>5. \E f \in Seq(TodoItems) : todo' = f \o Tail(todo)
    <3>1. <<>> \in Seq(TodoItems)
        OBVIOUS
    <3>2. o # NULL => Flush(o) \in Seq(TodoItems)
        BY <2>3, FlushTypes DEF PendQs
    <3> QED BY <2>4, <3>1, <3>2
  <2>6. \A s \in Sems : Terminating(s) => Terminating(s)'
    <3> SUFFICES ASSUME NEW s \in Sems, Terminating(s) PROVE Terminating(s)'
        OBVIOUS
    <3>1. Head(todo) # <<"terminate", s>>
        BY <2>1
    <3> QED BY <2>1, <2>5, <3>1, LoopsLeft DEF SchedTypes
  <2> QED BY <2>2, <2>6, WaitsStay
<1>5. CASE RunJob
  <2>1. PICK j \in CallJobs : j = Head(workQ)
      BY <1>5 DEF RunJob, TakeJob, WorkTypes
  <2>2. todo = <<>>
      BY <1>5 DEF RunJob, TakeJob, KernelAt
  <2>3. \A r \in Sems : ~Terminating(r)
      BY <2>2, NoLoops
  <2>4. ASSUME NobodyNew, UNCHANGED <<semValid, semOwner, semCount>> PROVE NoNeedlessWait'
      BY <2>3, <2>4, WaitsStay
  <2> USE DEF semVars
  <2>5. CASE advance /\ UNCHANGED semVars
      BY <2>4, <2>5 DEF advance, NobodyNew
  <2>6. CASE j[1] = "give" /\ semValid[j[2]] /\ GiveKernel(j[2]) /\ semValid' = semValid
      BY <2>2, <2>6, CallJobShape, GiveWaits
  <2>7. CASE UNCHANGED <<kernVars, semVars>>
      BY <2>4, <2>7 DEF kernVars, NobodyNew
  <2>8. CASE j[1] \in TaskOps /\ TaskKernel(j) /\ UNCHANGED semVars
      BY <2>4, <2>8, CallJobShape, TaskKernelShrink, ShrinkNobodyNew
  <2> QED BY <1>5, <2>1, <2>5, <2>6, <2>7, <2>8 DEF RunJob
<1> QED BY <1>3, <1>4, <1>5 DEF Kernel

\* intEnt, intExit, tickAnnounce, and the calls handlers make or defer.
LEMMA InterruptWaits ==
    ASSUME RunInv, TypeInv', NoNeedlessWait, Interrupt PROVE NoNeedlessWait'
<1> USE DEF RunInv, TypeInv, KernInv, semVars
<1>1. UNCHANGED <<semValid, semOwner, semCount>>
    BY DEF Interrupt, HandlerStarts, HandlerEnds, Tick, TaskFromHandler, Post
<1>2. (UNCHANGED todo) \/ todo = <<>>
    BY DEF Interrupt, HandlerStarts, HandlerEnds, IntEnt, IntExit, Tick, InHandler,
       TaskFromHandler, Post, SchedInv, SchedBase
<1>3. \A r \in Sems : Terminating(r) => Terminating(r)'
    BY <1>2, NoLoops DEF Terminating
<1>4. SUFFICES NobodyNew
    BY <1>1, <1>3, WaitsStay
<1>5. ASSUME NEW op \in Ops, TaskFromHandler(op) PROVE NobodyNew
    BY <1>5, TaskKernelShrink, ShrinkNobodyNew DEF TaskFromHandler
<1> QED
  BY <1>5 DEF Interrupt, HandlerStarts, HandlerEnds, IntEnt, IntExit, Tick, advance, Post,
     kernVars, NobodyNew

\* Nobody waits for a semaphore that is full, or for a deleted one longer than
\* until vmxPendQTerminate has come to its place in the queue: semaphores are
\* not left in semBTake, semCTake or semMTake in a way that loses a give.
THEOREM NobodyWaitsInVain == ASSUME NoUndelay PROVE Spec => []NoNeedlessWait
<1>1. Init => NoNeedlessWait
    BY DEF Init, NoNeedlessWait, PendQs
<1>2. RunInv /\ NoNeedlessWait /\ [Next]_vars => NoNeedlessWait'
  <2> SUFFICES ASSUME RunInv, NoNeedlessWait, [Next]_vars PROVE NoNeedlessWait'
      OBVIOUS
  <2>1. CASE UNCHANGED vars
      BY <2>1 DEF vars, kernVars, schedVars, semVars, NoNeedlessWait, Full
  <2>2. TypeInv'
      BY NextTypes DEF RunInv
  <2> QED
    BY <2>1, <2>2, SemCallWaits, TaskCallWaits, KernelWaits, InterruptWaits DEF Next
<1> QED BY <1>1, <1>2, RunsInductive, PTL DEF Spec
-----------------------------------------------------------------------------
(***************************************************************************)
(* How one task deletes another, and what a take returns.                  *)
(***************************************************************************)
\* taskDeleteForce and taskResume are not called.
NoForce  == "force" \notin TaskCalls
NoResume == "resume" \notin TaskCalls \cup IsrCalls

\* What taskDestroy has yet to do: all of it, from the kill on, and the rest.
Locking(v) == <<<<"lock">>, <<"kill", v>>, <<"unlock">>, <<"unsafe">>>>
Killing(v) == <<<<"kill", v>>, <<"unlock">>, <<"unsafe">>>>
Unlocking  == <<<<"unlock">>, <<"unsafe">>>>
Flushing   == <<<<"flushSafety">>, <<"unsafe">>>>

Deletion(t) == {Unlocking, Flushing} \cup {Locking(v) : v \in Tasks \ {t}}
                                     \cup {Killing(v) : v \in Tasks \ {t}}

\* Calls, and the ends of calls, that are one step long.
LastSteps(t) ==
    {x \in CallSteps :
        /\ x[1] \notin {"lock", "kill", "unlock"}
        /\ x[1] = "destroy" => x[2] # t /\ (x[3] => "force" \in TaskCalls)}

CallShape(t, c) ==
    \/ c = <<>>
    \/ \E x \in LastSteps(t) : c = <<x>>
    \/ c \in Deletion(t)

CodeOK == \A t \in Tasks : CallShape(t, code[t])

\* Loops of one kind, and the loop and the end of vmxSemDelete.
Simple(loops) == \/ loops \in {<<>>, TickLoops, <<<<"slice">>>>}
                 \/ \E q \in PendQs : loops = <<<<"flush", q>>>>
Deletes(loops, s) == loops \in {<<<<"terminate", s>>, <<"disown", s>>>>,
                                <<<<"disown", s>>>>}

\* semDestroy is on its way to the end of vmxSemDelete.
Disowning(s) == Deletes(todo, s)

LoopsOK ==
    /\ Simple(todo) \/ \E s \in Sems : Disowning(s)
    /\ \A s \in Sems : Disowning(s) =>
          /\ kpc = "exit" /\ ~semValid[s]
          /\ code[taskIdCurrent] = <<<<"unsafe">>>>

DeadOK == \A t \in Tasks : ~Alive(t) =>
    code[t] = <<>> /\ status[t] \cap {"pend", "delay"} = {}

CallInv == CodeOK /\ LoopsOK /\ DeadOK

-----------------------------------------------------------------------------
(***************************************************************************)
(* Sequences of steps.                                                     *)
(***************************************************************************)
\* What is left of a call behind its next step.
LEMMA NextStep ==
    ASSUME CodeOK, CodeTypes, NEW t \in Tasks, code[t] # <<>>
    PROVE  LET h == Head(code[t])  r == Tail(code[t]) IN
           /\ h[1] = "lock" => \E v \in Tasks \ {t} :
                                  code[t] = Locking(v) /\ r = Killing(v)
           /\ h[1] = "kill" => \E v \in Tasks \ {t} :
                  h = <<"kill", v>> /\ code[t] = Killing(v) /\ r = Unlocking
           /\ h[1] = "unlock" => code[t] = Unlocking /\ r = <<<<"unsafe">>>>
           /\ h[1] = "flushSafety" => \/ code[t] = Flushing /\ r = <<<<"unsafe">>>>
                                      \/ code[t] = <<<<"flushSafety">>>> /\ r = <<>>
           /\ h[1] \notin {"lock", "kill", "unlock", "flushSafety"} =>
                  h \in LastSteps(t) /\ code[t] = <<h>> /\ r = <<>>
<1>1. CASE \E x \in LastSteps(t) : code[t] = <<x>>
  <2>1. PICK x \in LastSteps(t) : code[t] = <<x>>
      BY <1>1
  <2>2. Head(code[t]) = x /\ Tail(code[t]) = <<>>
      BY <2>1
  <2>3. x[1] \notin {"lock", "kill", "unlock"} /\ x \in Steps
      BY DEF LastSteps, CallSteps
  <2>4. x[1] = "flushSafety" => x = <<"flushSafety">>
      BY <2>3 DEF Steps, Ops, OpsOn
  <2> QED BY <2>1, <2>2, <2>3, <2>4
<1>2. CASE code[t] = Unlocking
    BY <1>2 DEF Unlocking
<1>3. CASE code[t] = Flushing
    BY <1>3 DEF Flushing
<1>4. ASSUME NEW v \in Tasks \ {t}, code[t] = Locking(v)
      PROVE  Head(code[t]) = <<"lock">> /\ Tail(code[t]) = Killing(v)
    BY <1>4 DEF Locking, Killing
<1>5. ASSUME NEW v \in Tasks \ {t}, code[t] = Killing(v)
      PROVE  Head(code[t]) = <<"kill", v>> /\ Tail(code[t]) = Unlocking
    BY <1>5 DEF Killing, Unlocking
<1>6. CASE \E v \in Tasks \ {t} : code[t] = Locking(v)
    BY <1>4, <1>6
<1>7. CASE \E v \in Tasks \ {t} : code[t] = Killing(v)
    BY <1>5, <1>7
<1> QED BY <1>1, <1>2, <1>3, <1>6, <1>7 DEF CodeOK, CallShape, Deletion

\* Two sequences of one step each.
LEMMA TwoSteps == ASSUME NEW x, NEW y PROVE <<x>> \o <<y>> = <<x, y>>
<1>1. PICK S : S = {x, y}
    OBVIOUS
<1>2. PICK p, q, r : p = <<x>> /\ q = <<y>> /\ r = <<x, y>>
    OBVIOUS
<1>3. /\ p \in Seq(S) /\ Len(p) = 1 /\ p[1] = x
      /\ q \in Seq(S) /\ Len(q) = 1 /\ q[1] = y
      /\ r \in Seq(S) /\ Len(r) = 2 /\ r[1] = x /\ r[2] = y
    BY <1>1, <1>2
<1>4. PICK c : c = p \o q
    OBVIOUS
<1>5. c \in Seq(S) /\ Len(c) = 2 /\ c[1] = x /\ c[2] = y
  <2>1. /\ c \in Seq(S) /\ Len(c) = Len(p) + Len(q)
        /\ \A i \in 1..(Len(p) + Len(q)) :
              c[i] = IF i <= Len(p) THEN p[i] ELSE q[i - Len(p)]
      BY <1>3, <1>4, ConcatProperties
  <2> QED BY <1>3, <2>1
<1>6. c = r
    BY <1>3, <1>5, SeqEqual
<1> QED BY <1>2, <1>4, <1>6

\* A call gets into another of these shapes.
LEMMA CallKeeps ==
    ASSUME CodeOK, CodeTypes, NEW t \in Tasks, NEW c, CallShape(t, c),
           code' = [code EXCEPT ![t] = c]
    PROVE  CodeOK'
BY DEF CodeOK, CodeTypes, CallShape, Deletion, LastSteps

\* What taskUnlock and taskUnsafe put before the rest of a call.
LEMMA DropSteps ==
    ASSUME NEW n
    PROVE  /\ AfterDrop(n) \in {<<>>, <<<<"flushSafety">>>>}
           /\ AfterDrop(n) \o <<>> = AfterDrop(n)
           /\ AfterDrop(n) \o <<<<"unsafe">>>> \in {<<<<"unsafe">>>>, Flushing}
<1>1. CASE n = 1
  <2>1. AfterDrop(n) = <<<<"flushSafety">>>>
      BY <1>1 DEF AfterDrop
  <2>2. <<<<"flushSafety">>>> \o <<<<"unsafe">>>> = Flushing
      BY TwoSteps DEF Flushing
  <2> QED BY <2>1, <2>2
<1>2. CASE n # 1
  <2>1. AfterDrop(n) = <<>>
      BY <1>2 DEF AfterDrop
  <2> QED BY <2>1
<1> QED BY <1>1, <1>2

\* What tasks go on with.
LEMMA Shapes ==
    ASSUME NEW t \in Tasks
    PROVE  /\ CallShape(t, <<>>)
           /\ CallShape(t, <<<<"unsafe">>>>)
           /\ \A n : /\ CallShape(t, AfterDrop(n))
                    /\ CallShape(t, AfterDrop(n) \o <<>>)
                    /\ CallShape(t, AfterDrop(n) \o <<<<"unsafe">>>>)
           /\ \A s \in Sems : CallShape(t, <<<<"taken", s>>>>)
           /\ \A v \in Tasks \ {t} : Locking(v) \in Deletion(t) /\ Killing(v) \in Deletion(t)
<1>1. <<"unsafe">> \in LastSteps(t) /\ <<"flushSafety">> \in LastSteps(t)
    BY DEF LastSteps, CallSteps, Steps, TaskOps
<1>2. \A s \in Sems : <<"taken", s>> \in LastSteps(t)
    BY DEF LastSteps, CallSteps, Steps, TaskOps
<1>4. Flushing \in Deletion(t)
    BY DEF Deletion
<1>5. \A v \in Tasks \ {t} : Locking(v) \in Deletion(t) /\ Killing(v) \in Deletion(t)
    BY DEF Deletion
<1> QED BY <1>1, <1>2, <1>4, <1>5, DropSteps DEF CallShape

\* The loops of one kind do not delete a semaphore.
LEMMA SimpleLoops == ASSUME NEW loops, Simple(loops), NEW s PROVE ~Deletes(loops, s)
<1>1. CASE loops = <<>>
    BY <1>1 DEF Deletes
<1>2. CASE loops # <<>>
  <2>1. Head(loops)[1] \in {"expire", "slice", "flush"}
      BY <1>2 DEF Simple, TickLoops
  <2>2. Deletes(loops, s) => Head(loops)[1] \in {"terminate", "disown"}
      BY DEF Deletes
  <2> QED BY <2>1, <2>2
<1> QED BY <1>1, <1>2

\* Loops of one kind are left to do, or are begun.
LEMMA SimpleKeeps == ASSUME Simple(todo') PROVE LoopsOK' /\ \A s : ~Disowning(s)'
BY SimpleLoops DEF LoopsOK, Disowning

\* vmxPendQFlush has something to do or not.
LEMMA FlushSimple == ASSUME NEW q \in PendQs PROVE Simple(Flush(q))
BY DEF Flush, Simple

-----------------------------------------------------------------------------
(***************************************************************************)
(* Flags.                                                                  *)
(***************************************************************************)
\* The tasks live on, a dead one does not begin to wait, and who is suspended is
\* resumed by taskResume only.
Lives == \A t \in Tasks :
    /\ Alive(t)' <=> Alive(t)
    /\ ~Alive(t) => status'[t] \cap {"pend", "delay"} \subseteq status[t]
    /\ NoResume /\ "suspend" \in status[t] => "suspend" \in status'[t]

\* The flags of one task change.
LEMMA FlagsLive ==
    ASSUME KernTypes, NEW t \in Tasks, NEW S, status' = [status EXCEPT ![t] = S],
           "dead" \in S <=> "dead" \in status[t],
           ~Alive(t) => S \cap {"pend", "delay"} \subseteq status[t],
           NoResume /\ "suspend" \in status[t] => "suspend" \in S
    PROVE  Lives
BY DEF KernTypes, Lives, Alive

\* No flag changes.
LEMMA SameLives == ASSUME status' = status PROVE Lives
BY DEF Lives, Alive

\* The routine that a call of taskLib or its job calls.
LEMMA TaskKernelLives ==
    ASSUME KernTypes, NEW op \in Ops, op[1] \in TaskCalls \cup IsrCalls, TaskKernel(op)
    PROVE  Lives
<1>1. PICK v \in Tasks : op \in OpsOn(v)
    BY DEF Ops
<1>2. CASE op = <<"suspend", v>>
  <2>1. status' = [status EXCEPT ![v] = status[v] \cup {"suspend"}]
      BY <1>2 DEF TaskKernel, vmxSuspend
  <2> QED BY <2>1, FlagsLive
<1>3. CASE op = <<"resume", v>>
  <2>1. status' = [status EXCEPT ![v] = status[v] \ {"suspend"}] /\ ~NoResume
      BY <1>3 DEF TaskKernel, vmxResume, NoResume
  <2> QED BY <2>1, FlagsLive
<1>4. ASSUME NEW p \in Priorities, op = <<"priority", v, p>> PROVE Lives
    BY <1>4, SameLives DEF TaskKernel, vmxPrioritySet
<1>5. CASE op = <<"undelay", v>>
  <2>1. status' = [status EXCEPT ![v] = status[v] \ {"delay"}]
      BY <1>5 DEF TaskKernel, vmxUndelay
  <2> QED BY <2>1, FlagsLive
<1> QED BY <1>1, <1>2, <1>3, <1>4, <1>5 DEF OpsOn

\* taskDelay.
LEMMA DelayLives ==
    ASSUME KernTypes, NEW t \in Tasks, Alive(t), NEW n, vmxDelay(t, n) PROVE Lives
<1>1. status' = [status EXCEPT ![t] = status[t] \cup {"delay"}]
    BY DEF vmxDelay
<1> QED BY <1>1, FlagsLive

\* A task begins to wait.
LEMMA PendPutLives ==
    ASSUME KernTypes, NEW t \in Tasks, Alive(t), NEW q, NEW n, vmxPendQPut(q, t, n)
    PROVE  Lives
<1>1. \/ status' = [status EXCEPT ![t] = status[t] \cup {"pend"}]
      \/ status' = [status EXCEPT ![t] = status[t] \cup {"pend", "delay"}]
    BY DEF vmxPendQPut
<1> QED BY <1>1, FlagsLive

\* vmxPendQGet and the loops over a pending queue.
LEMMA UnpendLives ==
    ASSUME KernTypes, NEW q \in PendQs, pendQ[q] # <<>>, NEW ret, unpend(q, ret)
    PROVE  Lives
<1>1. PICK t \in Tasks : t = Head(pendQ[q])
    BY DEF KernTypes
<1>2. status' = [status EXCEPT ![t] = status[t] \ {"pend", "delay"}]
    BY <1>1 DEF unpend
<1> QED BY <1>2, FlagsLive

\* A task whose time has come.
LEMMA ExpireLives == ASSUME KernTypes, Expired, expire PROVE Lives
<1>1. PICK t \in Tasks : t = Head(tickQ)
    BY DEF KernTypes, Expired
<1>2. status' = [status EXCEPT ![t] = status[t] \ {"pend", "delay"}]
    BY <1>1 DEF expire
<1> QED BY <1>2, FlagsLive

\* A give by a task, a handler or a job.
LEMMA GiveLives ==
    ASSUME KernTypes, NEW s \in Sems, GiveKernel(s) PROVE Lives
<1>1. CASE pendQ[s] = <<>>
    BY <1>1, SameLives DEF GiveKernel, kernVars
<1>2. CASE pendQ[s] # <<>>
    BY <1>2, UnpendLives DEF GiveKernel, vmxPendQGet, PendQs
<1> QED BY <1>1, <1>2

-----------------------------------------------------------------------------
(***************************************************************************)
(* Every step keeps the shapes.                                            *)
(***************************************************************************)
\* No task gets further in its call.
LEMMA CallSame ==
    ASSUME CallInv, Lives, code' = code, Simple(todo') PROVE CallInv'
<1>1. CodeOK'
    BY DEF CallInv, CodeOK, CallShape, Deletion, LastSteps
<1>2. DeadOK'
    BY DEF CallInv, DeadOK, Lives
<1> QED BY <1>1, <1>2, SimpleKeeps DEF CallInv

\* A task that runs begins a call or does a step of it.
LEMMA CallStep ==
    ASSUME CallInv, CodeTypes, Lives, NEW t \in Tasks, Alive(t), NEW c, CallShape(t, c),
           code' = [code EXCEPT ![t] = c], Simple(todo')
    PROVE  CallInv'
<1>1. CodeOK'
    BY CallKeeps DEF CallInv
<1>2. DeadOK'
    BY DEF CallInv, DeadOK, Lives, CodeTypes
<1> QED BY <1>1, <1>2, SimpleKeeps DEF CallInv

\* The calls of semBLib, semCLib, semMLib and semLib.
LEMMA SemCallShapes ==
    ASSUME RunInv, CallInv, SemCall PROVE CallInv'
<1> USE DEF RunInv, TypeInv, KernInv
<1> USE DEF SectionOnly, NoSection, semVars, schedVars, Section, Free, At, Running
<1>1. ASSUME NEW t \in Tasks, Running(t) PROVE Alive(t)
    BY <1>1, RunningReady DEF Ready, Alive
<1>2. Simple(<<>>) /\ \A q \in PendQs : Simple(Flush(q))
    BY FlushSimple DEF Simple
<1>3. Tasks \subseteq PendQs /\ Sems \subseteq PendQs
    BY DEF PendQs
<1>4. kpc = "user" => todo = <<>>
    BY DEF SchedInv, SchedBase
<1>5. ASSUME NEW t \in Tasks, NEW s \in Sems,
             TakeFull(t, s) \/ TakeAgain(t, s) \/ TakeNoWait(t, s) \/ GiveRecurse(t, s)
      PROVE  CallInv'
  <2>1. UNCHANGED <<code, todo, status>> /\ todo = <<>>
      BY <1>4, <1>5 DEF TakeFull, TakeAgain, TakeNoWait, GiveRecurse, kernVars
  <2> QED BY <1>2, <2>1, CallSame, SameLives
<1>6. ASSUME NEW t \in Tasks, NEW s \in Sems, NEW n, TakeWait(t, s, n) PROVE CallInv'
  <2>1. Lives
      BY <1>1, <1>6, PendPutLives DEF TakeWait
  <2>2. code' = [code EXCEPT ![t] = <<<<"taken", s>>>>] /\ todo' = <<>> /\ Alive(t)
      BY <1>1, <1>6 DEF TakeWait
  <2>3. CallShape(t, <<<<"taken", s>>>>)
      BY Shapes
  <2> QED BY <1>2, <2>1, <2>2, <2>3, CallStep
<1>7. ASSUME NEW t \in Tasks, TakeReturns(t) PROVE CallInv'
  <2>1. Lives /\ Alive(t) /\ Simple(todo')
      BY <1>1, <1>2, <1>4, <1>7, SameLives DEF TakeReturns
  <2>2. code' = [code EXCEPT ![t] = Tail(code[t])]
      BY <1>7 DEF TakeReturns
  <2>3. Tail(code[t]) = <<>>
      BY <1>7, NextStep DEF TakeReturns, CallInv
  <2> QED BY <2>1, <2>2, <2>3, CallStep, Shapes
<1>8. ASSUME NEW t \in Tasks, NEW s \in Sems, GiveMutex(t, s) PROVE CallInv'
  <2>1. PICK next : next = QFirst(pendQ[s], NULL)
      OBVIOUS
  <2>2. pendQ[s] \in Seq(Tasks)
      BY <1>3 DEF KernTypes
  <2>3. next # NULL => pendQ[s] # <<>>
      BY <2>1, <2>2 DEF QFirst
  <2>4. Lives
    <3>1. IF next = NULL THEN UNCHANGED kernVars ELSE vmxPendQGet(s)
        BY <1>8, <2>1 DEF GiveMutex
    <3> QED BY <1>3, <2>3, <3>1, SameLives, UnpendLives DEF kernVars, vmxPendQGet
  <2>5. todo' \in {<<>>, Flush(t)}
      BY <1>4, <1>8 DEF GiveMutex
  <2>6. code' = code
      BY <1>8 DEF GiveMutex
  <2> QED BY <1>2, <1>3, <2>4, <2>5, <2>6, CallSame
<1>9. ASSUME NEW t \in Tasks, NEW s \in Sems, SemDelete(t, s) PROVE CallInv'
  <2>1. Lives /\ Alive(t)
      BY <1>1, <1>9, SameLives DEF SemDelete, kernVars
  <2>2. code' = [code EXCEPT ![t] = <<<<"unsafe">>>>] /\ taskIdCurrent' = t
      BY <1>9 DEF SemDelete
  <2>3. CodeOK'
      BY <2>2, CallKeeps, Shapes DEF CallInv
  <2>4. DeadOK'
      BY <2>1, <2>2 DEF CallInv, DeadOK, Lives, CodeTypes
  <2>5. todo' = <<<<"terminate", s>>, <<"disown", s>>>> /\ kpc' = "exit" /\ ~semValid'[s]
      BY <1>9 DEF SemDelete, SemTypes
  <2>6. \A r : Disowning(r)' => r = s
      BY <2>5 DEF Disowning, Deletes
  <2>7. Disowning(s)'
      BY <2>5 DEF Disowning, Deletes
  <2>8. code'[taskIdCurrent'] = <<<<"unsafe">>>>
      BY <2>2 DEF CodeTypes
  <2> QED BY <2>3, <2>4, <2>5, <2>6, <2>7, <2>8 DEF CallInv, LoopsOK
<1>10. ASSUME NEW s \in Sems, Give(s) PROVE CallInv'
  <2>1. Lives /\ code' = code
      BY <1>10, GiveLives DEF Give
  <2>2. todo' = <<>>
      BY <1>4, <1>10 DEF Give, Caller, InHandler
  <2> QED BY <1>2, <2>1, <2>2, CallSame
<1>11. ASSUME NEW s \in Sems, SemFlush(s) PROVE CallInv'
  <2>1. Lives /\ code' = code /\ todo' = Flush(s)
      BY <1>11, SameLives DEF SemFlush, kernVars
  <2> QED BY <1>2, <1>3, <2>1, CallSame
<1> QED
  BY <1>5, <1>6, <1>7, <1>8, <1>9, <1>10, <1>11 DEF SemCall

\* The calls of taskLib.
LEMMA TaskCallShapes ==
    ASSUME RunInv, CallInv, TaskCall PROVE CallInv'
<1> USE DEF RunInv, TypeInv, KernInv
<1> USE DEF SectionOnly, NoSection, semVars, semOnly, schedVars, Section, Free, At, Running
<1>1. ASSUME NEW t \in Tasks, Running(t) PROVE Alive(t)
    BY <1>1, RunningReady DEF Ready, Alive
<1>2. Simple(<<>>) /\ \A q \in PendQs : Simple(Flush(q))
    BY FlushSimple DEF Simple
<1>3. Tasks \subseteq PendQs
    BY DEF PendQs
<1>4. kpc = "user" => todo = <<>>
    BY DEF SchedInv, SchedBase
<1>20. <<>> \o <<>> = <<>>
    OBVIOUS
<1>5. ASSUME NEW t \in Tasks, NEW op \in Ops, MayCall(op[1]), TaskVerified(t, op)
      PROVE  CallInv'
  <2>1. Lives /\ Alive(t) /\ Simple(todo')
      BY <1>1, <1>2, <1>4, <1>5, SameLives DEF TaskVerified, kernVars
  <2>2. op \in LastSteps(t)
    <3>1. op \in CallSteps
        BY <1>5 DEF CallSteps, Steps, MayCall
    <3>2. op[1] \in TaskOps
        BY DEF Ops, OpsOn, TaskOps
    <3> QED BY <3>1, <3>2 DEF LastSteps, TaskOps
  <2>3. CallShape(t, <<op>>) /\ code' = [code EXCEPT ![t] = <<op>>]
      BY <1>5, <2>2 DEF CallShape, TaskVerified, Call
  <2> QED BY <2>1, <2>3, CallStep
<1>6. ASSUME NEW t \in Tasks, TaskApplied(t) PROVE CallInv'
  <2>1. Head(code[t]) \in CallSteps /\ Head(code[t])[1] \in TaskOps /\ code[t] # <<>>
      BY <1>6, CodeStays DEF TaskApplied
  <2>2. Head(code[t]) \in Ops /\ Head(code[t])[1] \in TaskCalls \cup IsrCalls
      BY <2>1, StepShape DEF CallSteps
  <2>3. Lives /\ Alive(t) /\ Simple(todo')
      BY <1>1, <1>2, <1>6, <2>2, TaskKernelLives DEF TaskApplied
  <2>4. Tail(code[t]) = <<>>
      BY <2>1, NextStep DEF CallInv, TaskOps
  <2>5. code' = [code EXCEPT ![t] = <<>>]
      BY <1>6, <2>4, <1>20 DEF TaskApplied, GoOn
  <2> QED BY <2>3, <2>5, CallStep, Shapes
<1>7. ASSUME NEW t \in Tasks, NEW n, taskDelay(t, n) PROVE CallInv'
  <2>1. Lives
      BY <1>1, <1>7, SameLives, DelayLives DEF taskDelay, yield
  <2> QED BY <1>2, <1>7, <2>1, CallSame DEF taskDelay
<1>8. ASSUME NEW t \in Tasks, taskLock(t) PROVE CallInv'
  <2>1. Lives /\ Alive(t) /\ Simple(todo')
      BY <1>1, <1>2, <1>4, <1>8, SameLives DEF taskLock, kernVars
  <2>2. CASE UNCHANGED code
      BY <2>1, <2>2, CallSame
  <2>3. CASE At(t, "lock") /\ GoOn(t, <<>>)
    <3>1. PICK v \in Tasks \ {t} : Tail(code[t]) = Killing(v)
        BY <2>3, NextStep DEF CallInv
    <3>2. code' = [code EXCEPT ![t] = Killing(v)]
      <4>1. <<>> \o Killing(v) = Killing(v)
          BY DEF Killing
      <4> QED BY <2>3, <3>1, <4>1 DEF GoOn
    <3> QED BY <2>1, <3>2, CallStep, Shapes DEF CallShape
  <2> QED BY <1>8, <2>2, <2>3 DEF taskLock
<1>9. ASSUME NEW t \in Tasks, taskUnlock(t) PROVE CallInv'
  <2>1. Lives /\ Alive(t) /\ Simple(todo')
      BY <1>1, <1>2, <1>4, <1>9, SameLives DEF taskUnlock, kernVars
  <2>2. CASE Call(t, AfterDrop(lockCount[t]))
      BY <2>1, <2>2, CallStep, Shapes DEF Call
  <2>3. CASE At(t, "unlock") /\ GoOn(t, AfterDrop(lockCount[t]))
    <3>1. Tail(code[t]) = <<<<"unsafe">>>>
        BY <2>3, NextStep DEF CallInv
    <3>2. code' = [code EXCEPT ![t] = AfterDrop(lockCount[t]) \o <<<<"unsafe">>>>]
        BY <2>3, <3>1 DEF GoOn
    <3> QED BY <2>1, <3>2, CallStep, Shapes
  <2> QED BY <1>9, <2>2, <2>3 DEF taskUnlock
<1>10. ASSUME NEW t \in Tasks, taskSafe(t) PROVE CallInv'
  <2>1. Lives /\ code' = code /\ Simple(todo')
      BY <1>2, <1>4, <1>10, SameLives DEF taskSafe, kernVars
  <2> QED BY <2>1, CallSame
<1>11. ASSUME NEW t \in Tasks, taskUnsafe(t) PROVE CallInv'
  <2>1. Lives /\ Alive(t) /\ Simple(todo')
      BY <1>1, <1>2, <1>4, <1>11, SameLives DEF taskUnsafe, kernVars
  <2>2. CASE Call(t, AfterDrop(safeCount[t]))
      BY <2>1, <2>2, CallStep, Shapes DEF Call
  <2>3. CASE At(t, "unsafe") /\ GoOn(t, AfterDrop(safeCount[t]))
    <3>1. Tail(code[t]) = <<>>
        BY <2>3, NextStep DEF CallInv
    <3>2. code' = [code EXCEPT ![t] = AfterDrop(safeCount[t]) \o <<>>]
        BY <2>3, <3>1 DEF GoOn
    <3> QED BY <2>1, <3>2, CallStep, Shapes
  <2> QED BY <1>11, <2>2, <2>3 DEF taskUnsafe
<1>12. ASSUME NEW t \in Tasks, FlushSafety(t) PROVE CallInv'
  <2>1. Lives /\ Alive(t) /\ Simple(todo')
      BY <1>1, <1>2, <1>3, <1>12, SameLives DEF FlushSafety, kernVars
  <2>2. Tail(code[t]) \in {<<<<"unsafe">>>>, <<>>}
      BY <1>12, NextStep DEF CallInv, FlushSafety
  <2>3. code' = [code EXCEPT ![t] = Tail(code[t])]
    <3>1. <<>> \o Tail(code[t]) = Tail(code[t])
        BY <2>2
    <3> QED BY <1>12, <3>1 DEF FlushSafety, GoOn
  <2> QED BY <2>1, <2>2, <2>3, CallStep, Shapes
<1>13. ASSUME NEW t \in Tasks, NEW v \in Tasks, NEW f \in BOOLEAN,
              DestroyCalled(t, v, f), f => MayCall("force")
       PROVE  CallInv'
  <2>1. Lives /\ Alive(t) /\ Simple(todo')
      BY <1>1, <1>2, <1>4, <1>13, SameLives DEF DestroyCalled, kernVars
  <2>2. <<"destroy", v, f>> \in LastSteps(t)
    <3>1. <<"destroy", v, f>> \in CallSteps
        BY DEF CallSteps, Steps, TaskOps
    <3>2. f => "force" \in TaskCalls
        BY <1>13 DEF DestroyCalled, MayCall
    <3> QED BY <1>13, <3>1, <3>2 DEF LastSteps, DestroyCalled
  <2>3. CallShape(t, <<<<"destroy", v, f>>>>)
      BY <2>2 DEF CallShape
  <2> QED BY <1>13, <2>1, <2>3, CallStep DEF DestroyCalled, Call
<1>14. ASSUME NEW t \in Tasks, At(t, "destroy")
       PROVE  /\ Tail(code[t]) = <<>> /\ Arg(t, 2) \in Tasks \ {t}
              /\ \A c : c \o Tail(code[t]) = c \o <<>>
  <2>1. Head(code[t]) \in LastSteps(t) /\ Tail(code[t]) = <<>>
      BY <1>14, NextStep DEF CallInv
  <2>2. Arg(t, 2) \in Tasks
      BY <1>14, CodeStays, StepShape DEF Arg
  <2> QED BY <1>14, <2>1, <2>2 DEF LastSteps, Arg
<1>15. ASSUME NEW t \in Tasks, DestroyTooLate(t) PROVE CallInv'
  <2>1. Lives /\ Alive(t) /\ Simple(todo')
      BY <1>1, <1>2, <1>4, <1>15, SameLives DEF DestroyTooLate, kernVars
  <2>2. code' = [code EXCEPT ![t] = <<>>]
      BY <1>14, <1>15, <1>20 DEF DestroyTooLate, GoOn
  <2> QED BY <2>1, <2>2, CallStep, Shapes
<1>16. ASSUME NEW t \in Tasks, DestroyWaits(t) PROVE CallInv'
  <2>1. Lives
      BY <1>1, <1>16, PendPutLives DEF DestroyWaits
  <2> QED BY <1>2, <1>16, <2>1, CallSame DEF DestroyWaits
<1>17. ASSUME NEW t \in Tasks, DestroyForces(t) PROVE CallInv'
  <2>1. Lives /\ code' = code
      BY <1>17, SameLives DEF DestroyForces, kernVars
  <2>2. Simple(todo')
      BY <1>2, <1>3, <1>14, <1>17 DEF DestroyForces
  <2> QED BY <2>1, <2>2, CallSame
<1>18. ASSUME NEW t \in Tasks, DestroySuspends(t) PROVE CallInv'
  <2>1. PICK v \in Tasks \ {t} : v = Arg(t, 2)
      BY <1>14, <1>18 DEF DestroySuspends
  <2>2. Lives
    <3>1. status' = [status EXCEPT ![v] = status[v] \cup {"suspend"}]
        BY <1>18, <2>1 DEF DestroySuspends, vmxSuspend
    <3> QED BY <3>1, FlagsLive
  <2>3. Alive(t) /\ todo' = <<>>
      BY <1>1, <1>18 DEF DestroySuspends
  <2>4. code' = [code EXCEPT ![t] = Locking(v)]
    <3>1. code' = [code EXCEPT ![t] = Locking(v) \o <<>>]
        BY <1>14, <1>18, <2>1 DEF DestroySuspends, GoOn, Locking
    <3>2. Locking(v) \o <<>> = Locking(v)
        BY DEF Locking
    <3> QED BY <3>1, <3>2
  <2> QED BY <1>2, <2>2, <2>3, <2>4, CallStep, Shapes DEF CallShape
<1>19. ASSUME NEW t \in Tasks, DestroyKills(t) PROVE CallInv'
  <2>1. PICK v \in Tasks \ {t} : v = Arg(t, 2) /\ Tail(code[t]) = Unlocking
      BY <1>19, NextStep DEF CallInv, DestroyKills, Arg
  <2>2. /\ code' = [code EXCEPT ![t] = Unlocking, ![v] = <<>>]
        /\ status' = [status EXCEPT ![v] = {"dead"}] /\ todo' = Flush(v)
      BY <1>19, <2>1 DEF DestroyKills, vmxDelete
  <2>3. /\ code'[t] = Unlocking /\ code'[v] = <<>>
        /\ \A u \in Tasks : u # t /\ u # v => code'[u] = code[u]
      BY <2>2 DEF CodeTypes
  <2>4. CodeOK'
    <3>1. CallShape(t, Unlocking)
        BY DEF CallShape, Deletion
    <3>2. \A u \in Tasks : CallShape(u, code'[u])
        BY <2>3, <3>1, Shapes DEF CallInv, CodeOK
    <3> QED BY <3>2 DEF CodeOK, CallShape, Deletion, LastSteps
  <2>5. DeadOK'
      BY <1>1, <1>19, <2>2, <2>3 DEF CallInv, DeadOK, Alive, DestroyKills, KernTypes
  <2> QED BY <1>2, <1>3, <2>2, <2>4, <2>5, SimpleKeeps DEF CallInv
<1> QED
  BY <1>5, <1>6, <1>7, <1>8, <1>9, <1>10, <1>11, <1>12, <1>13, <1>15, <1>16, <1>17,
     <1>18, <1>19 DEF TaskCall

\* The loop a kernel section is in, and what it has to do behind it.
LEMMA NextLoop ==
    ASSUME LoopsOK, NEW what, Todo(what)
    PROVE  /\ what = "flush" => \E q \in PendQs :
                 todo = <<<<"flush", q>>>> /\ Head(todo) = <<"flush", q>> /\ Tail(todo) = <<>>
           /\ what = "terminate" => \E s \in Sems :
                 /\ todo = <<<<"terminate", s>>, <<"disown", s>>>>
                 /\ Head(todo) = <<"terminate", s>> /\ Tail(todo) = <<<<"disown", s>>>>
           /\ what = "disown" => \E s \in Sems :
                 todo = <<<<"disown", s>>>> /\ Head(todo) = <<"disown", s>> /\ Tail(todo) = <<>>
           /\ what = "expire" => todo = TickLoops /\ Tail(todo) = <<<<"slice">>>>
           /\ what = "slice" => todo = <<<<"slice">>>> /\ Tail(todo) = <<>>
<1> USE DEF Todo
<1>1. CASE todo = TickLoops
  <2>1. Head(todo) = <<"expire">> /\ Tail(todo) = <<<<"slice">>>>
      BY <1>1 DEF TickLoops
  <2> QED BY <1>1, <2>1
<1>6. CASE todo = <<<<"slice">>>>
  <2>1. Head(todo) = <<"slice">> /\ Tail(todo) = <<>>
      BY <1>6
  <2> QED BY <1>6, <2>1
<1>2. CASE \E q \in PendQs : todo = <<<<"flush", q>>>>
  <2>1. PICK q \in PendQs : todo = <<<<"flush", q>>>>
      BY <1>2
  <2>2. Head(todo) = <<"flush", q>> /\ Tail(todo) = <<>> /\ what = "flush"
      BY <2>1
  <2> QED BY <2>1, <2>2
<1>3. CASE \E s \in Sems : todo = <<<<"terminate", s>>, <<"disown", s>>>>
  <2>1. PICK s \in Sems : todo = <<<<"terminate", s>>, <<"disown", s>>>>
      BY <1>3
  <2>2. /\ Head(todo) = <<"terminate", s>> /\ Tail(todo) = <<<<"disown", s>>>>
        /\ what = "terminate"
      BY <2>1
  <2> QED BY <2>1, <2>2
<1>4. CASE \E s \in Sems : todo = <<<<"disown", s>>>>
  <2>1. PICK s \in Sems : todo = <<<<"disown", s>>>>
      BY <1>4
  <2>2. Head(todo) = <<"disown", s>> /\ Tail(todo) = <<>> /\ what = "disown"
      BY <2>1
  <2> QED BY <2>1, <2>2
<1>5. \/ todo = TickLoops \/ todo = <<<<"slice">>>>
      \/ \E q \in PendQs : todo = <<<<"flush", q>>>>
      \/ \E s \in Sems : todo = <<<<"terminate", s>>, <<"disown", s>>>>
      \/ \E s \in Sems : todo = <<<<"disown", s>>>>
    BY DEF LoopsOK, Simple, Disowning, Deletes
<1> QED BY <1>1, <1>2, <1>3, <1>4, <1>5, <1>6

\* The code of the kernel and the jobs.
LEMMA KernelShapes ==
    ASSUME RunInv, CallInv, Kernel PROVE CallInv'
<1> USE DEF RunInv, TypeInv, KernInv
<1>1. Simple(<<>>) /\ Simple(TickLoops) /\ Simple(<<<<"slice">>>>)
      /\ \A q \in PendQs : Simple(Flush(q))
    BY FlushSimple DEF Simple
<1>2. Tasks \subseteq PendQs /\ Sems \subseteq PendQs
    BY DEF PendQs
<1>3. ASSUME Lives, UNCHANGED <<code, todo, semValid>>,
             todo # <<>> => UNCHANGED <<kpc, taskIdCurrent>>
      PROVE  CallInv'
  <2>1. CodeOK'
      BY <1>3 DEF CallInv, CodeOK, CallShape, Deletion, LastSteps
  <2>2. DeadOK'
      BY <1>3 DEF CallInv, DeadOK, Lives
  <2>3. \A s : Disowning(s)' <=> Disowning(s)
      BY <1>3 DEF Disowning
  <2>4. \A s : Disowning(s) => todo # <<>>
      BY DEF Disowning, Deletes
  <2>5. LoopsOK'
      BY <1>3, <2>3, <2>4 DEF LoopsOK, Simple, CallInv
  <2> QED BY <2>1, <2>2, <2>5 DEF CallInv
<1>4. CASE SchedStep /\ UNCHANGED <<semVars, safes>>
  <2> USE DEF semVars
  <2>1. CASE \/ ExitFromInt \/ ExitToCaller \/ SaveTaskContext
             \/ SwitchTasks \/ Dispatch \/ NoTaskReady \/ WorkDone
    <3>1. todo = <<>> /\ UNCHANGED <<status, todo>>
        BY <2>1 DEF ExitFromInt, ExitToCaller, SaveTaskContext, SwitchTasks,
           Dispatch, NoTaskReady, WorkDone, KernelAt, othersThan, kernVars
    <3> QED BY <1>3, <1>4, <3>1, SameLives
  <2> USE DEF loopVars
  <2>2. CASE FlushLoop
    <3>1. PICK q \in PendQs : q = Head(todo)[2] /\ Tail(todo) = <<>>
        BY <2>2, NextLoop DEF FlushLoop, CallInv
    <3>2. CASE pendQ[q] # <<>>
        BY <1>3, <1>4, <2>2, <3>1, <3>2, UnpendLives DEF FlushLoop, vmxPendQFlush
    <3>3. CASE pendQ[q] = <<>>
        BY <1>1, <1>4, <2>2, <3>1, <3>3, CallSame, SameLives DEF FlushLoop, kernVars
    <3> QED BY <3>2, <3>3
  <2>3. CASE TerminateLoop
    <3>1. PICK s \in Sems :
             /\ todo = <<<<"terminate", s>>, <<"disown", s>>>>
             /\ s = Head(todo)[2] /\ Tail(todo) = <<<<"disown", s>>>>
        BY <2>3, NextLoop DEF TerminateLoop, CallInv
    <3>2. CASE pendQ[s] # <<>>
        BY <1>2, <1>3, <1>4, <2>3, <3>1, <3>2, UnpendLives DEF TerminateLoop, vmxPendQTerminate
    <3>3. CASE pendQ[s] = <<>>
      <4>1. todo' = <<<<"disown", s>>>> /\ UNCHANGED <<status, code, semValid, kpc, taskIdCurrent>>
          BY <1>4, <2>3, <3>1, <3>3 DEF TerminateLoop, kernVars
      <4>2. CodeOK' /\ DeadOK'
          BY <4>1 DEF CallInv, CodeOK, CallShape, Deletion, LastSteps, DeadOK, Alive
      <4>3. Disowning(s) /\ Disowning(s)'
          BY <3>1, <4>1 DEF Disowning, Deletes
      <4>4. \A r : Disowning(r)' => r = s
          BY <4>1 DEF Disowning, Deletes
      <4> QED BY <4>1, <4>2, <4>3, <4>4 DEF CallInv, LoopsOK
    <3> QED BY <3>2, <3>3
  <2>4. CASE ExpireLoop
    <3>1. CASE Expired
        BY <1>3, <1>4, <2>4, <3>1, ExpireLives DEF ExpireLoop
    <3>2. CASE ~Expired
      <4>1. todo' = <<<<"slice">>>> /\ UNCHANGED <<status, code>>
          BY <1>4, <2>4, <3>2, NextLoop DEF ExpireLoop, kernVars, CallInv
      <4> QED BY <1>1, <4>1, CallSame, SameLives
    <3> QED BY <3>1, <3>2
  <2>5. CASE RoundRobin
    <3>1. todo' = <<>> /\ UNCHANGED <<status, code>>
        BY <1>4, <2>5, NextLoop DEF RoundRobin, yield, kernVars, CallInv
    <3> QED BY <1>1, <3>1, CallSame, SameLives
  <2> QED BY <1>4, <2>1, <2>2, <2>3, <2>4, <2>5 DEF SchedStep
<1>5. CASE Disown
  <2>1. PICK s \in Sems : s = Head(todo)[2] /\ Tail(todo) = <<>>
    <3>1. Todo("disown")
        BY <1>5 DEF Disown
    <3> QED BY <3>1, NextLoop DEF CallInv
  <2>2. PICK o : o = semOwner[s] /\ o \in Tasks \cup {NULL}
      BY DEF SemTypes
  <2>3. todo' = <<>> \/ (o # NULL /\ todo' = Flush(o))
    <3>1. \/ todo' = <<>> \o <<>>
          \/ o # NULL /\ todo' = Flush(o) \o <<>>
        BY <1>5, <2>1, <2>2 DEF Disown
    <3>2. o # NULL => Flush(o) \in Seq(TodoItems)
        BY <1>2, <2>2, FlushTypes
    <3> QED BY <3>1, <3>2
  <2>4. UNCHANGED <<status, code>>
      BY <1>5 DEF Disown, kernVars
  <2> QED BY <1>1, <1>2, <2>2, <2>3, <2>4, CallSame, SameLives
<1>6. CASE RunJob
  <2>1. PICK j \in CallJobs : j = Head(workQ)
      BY <1>6 DEF RunJob, TakeJob, WorkTypes
  <2>2. todo = <<>> /\ code' = code
      BY <1>6 DEF RunJob, TakeJob, KernelAt, semVars
  <2>3. Simple(todo')
      BY <1>1, <1>2, <1>6, <2>1, <2>2, CallJobShape DEF RunJob
  <2>4. CASE UNCHANGED status
      BY <2>2, <2>3, <2>4, CallSame, SameLives
  <2>5. CASE j[1] = "give" /\ GiveKernel(j[2])
      BY <2>1, <2>2, <2>3, <2>5, CallSame, GiveLives, CallJobShape
  <2>6. CASE j[1] \in TaskOps /\ TaskKernel(j)
      BY <2>1, <2>2, <2>3, <2>6, CallSame, TaskKernelLives, CallJobShape DEF CallJobs
  <2> QED BY <1>6, <2>1, <2>4, <2>5, <2>6 DEF RunJob, advance, kernVars
<1> QED BY <1>4, <1>5, <1>6 DEF Kernel

\* intEnt, intExit, tickAnnounce, and the calls handlers make or defer.
LEMMA InterruptShapes ==
    ASSUME RunInv, CallInv, Interrupt PROVE CallInv'
<1> USE DEF RunInv, TypeInv, KernInv, semVars
<1>1. code' = code
    BY DEF Interrupt, HandlerStarts, HandlerEnds, Tick, TaskFromHandler, Post
<1>2. Lives
  <2>1. ASSUME NEW op \in Ops, op[1] \in IsrCalls, TaskFromHandler(op) PROVE Lives
      BY <2>1, TaskKernelLives DEF TaskFromHandler
  <2> QED BY <2>1, SameLives DEF Interrupt, HandlerStarts, HandlerEnds, IntEnt, IntExit,
             Tick, advance, Post, kernVars
<1>3. todo' \in {<<>>, TickLoops}
    BY DEF Interrupt, HandlerStarts, HandlerEnds, IntEnt, IntExit, Tick, InHandler, Section,
       TaskFromHandler, Post, CanPost, SchedInv, SchedBase
<1>4. Simple(todo')
    BY <1>3 DEF Simple
<1> QED BY <1>1, <1>2, <1>4, CallSame

\* The shapes hold from the start, and no step leaves them.
LEMMA InitShapes == Init => CallInv
<1> SUFFICES ASSUME Init PROVE CallInv
    OBVIOUS
<1>1. \A t \in Tasks : code[t] = <<>> /\ Alive(t)
    BY DEF Init, Alive
<1>2. todo = <<>>
    BY DEF Init
<1>3. LoopsOK
    BY <1>2, SimpleLoops DEF LoopsOK, Simple, Disowning
<1> QED BY <1>1, <1>3 DEF CallInv, CodeOK, CallShape, DeadOK

\* Every step.
LEMMA NextShapes == RunInv /\ CallInv /\ [Next]_vars => CallInv'
<1> SUFFICES ASSUME RunInv, CallInv, [Next]_vars PROVE CallInv'
    OBVIOUS
<1>1. CASE UNCHANGED vars
  <2>1. UNCHANGED <<status, code, todo, kpc, semValid, taskIdCurrent>>
      BY <1>1 DEF vars, kernVars, schedVars, semVars
  <2> QED BY <2>1 DEF CallInv, CodeOK, CallShape, Deletion, LastSteps, LoopsOK, Simple,
             Disowning, DeadOK, Alive
<1> QED
  BY <1>1, SemCallShapes, TaskCallShapes, KernelShapes, InterruptShapes DEF Next

-----------------------------------------------------------------------------
(***************************************************************************)
(* Reasons not to delete a task.  In the middle of semDestroy the mutex is *)
(* counted although it is invalid, and the taskUnsafe that is to come is   *)
(* not: both change with the end of vmxSemDelete.                          *)
(***************************************************************************)
Owned(t)   == {s \in DeleteSafe : semOwner[s] = t /\ (semValid[s] \/ Disowning(s))}
Killers(t) == {d \in Tasks : Has(d, <<"kill", t>>)}
Unsafe(t)  == IF Has(t, <<"unsafe">>)
                   /\ ~(t = taskIdCurrent /\ \E s \in Sems : Disowning(s))
              THEN 1 ELSE 0

Reasons(t) == safes[t] + Unsafe(t) + Cardinality(Owned(t)) + Cardinality(Killers(t))

\* A task that is resumed by others while it is deleted can itself be about to
\* delete, and the count it has raised then is never lowered.
Dead  == {t \in Tasks : ~Alive(t)}
Slack == IF NoResume THEN 0 ELSE Cardinality(Dead)

Balance == \A t \in Tasks : Alive(t) =>
    Reasons(t) <= safeCount[t] /\ safeCount[t] <= Reasons(t) + Slack

\* One task deletes another, which is alive and cannot run, unless it is resumed.
KillOK == \A v, d \in Tasks : Has(d, <<"kill", v>>) =>
    /\ Alive(v)
    /\ \A e \in Tasks : Has(e, <<"kill", v>>) => d = e
    /\ NoResume => "suspend" \in status[v] /\ ~Has(v, <<"unsafe">>)

DeletionInv == Balance /\ KillOK

\* The counts do not overflow, for as many tasks and mutexes as there can be.
CountsFit ==
    /\ IsFiniteSet(DeleteSafe)
    /\ MaxSafe + Cardinality(DeleteSafe) + Cardinality(Tasks) + 2 <= UnsignedMax

\* A step is among those of a call.
Contains(c, x) == \E i \in DOMAIN c : c[i] = x

\* The kills and the taskUnsafe in what a task has yet to do.
LEMMA StepsOf ==
    /\ \A x : ~Contains(<<>>, x)
    /\ \A x, y : Contains(<<y>>, x) <=> x = y
    /\ \A u, v : /\ Contains(Locking(v), <<"kill", u>>) <=> u = v
                 /\ Contains(Killing(v), <<"kill", u>>) <=> u = v
    /\ \A v : Contains(Locking(v), <<"unsafe">>) /\ Contains(Killing(v), <<"unsafe">>)
    /\ \A u : /\ ~Contains(Unlocking, <<"kill", u>>)
              /\ ~Contains(Flushing, <<"kill", u>>)
    /\ Contains(Unlocking, <<"unsafe">>) /\ Contains(Flushing, <<"unsafe">>)
<1>1. /\ \A x : ~Contains(<<>>, x)
      /\ \A x, y : Contains(<<y>>, x) <=> x = y
    BY DEF Contains
<1>2. ASSUME NEW u, NEW v
      PROVE  /\ Contains(Locking(v), <<"kill", u>>) <=> u = v
             /\ Contains(Killing(v), <<"kill", u>>) <=> u = v
    BY DEF Contains, Locking, Killing
<1>3. ASSUME NEW v
      PROVE  Contains(Locking(v), <<"unsafe">>) /\ Contains(Killing(v), <<"unsafe">>)
    BY DEF Contains, Locking, Killing
<1>4. ASSUME NEW u
      PROVE  ~Contains(Unlocking, <<"kill", u>>) /\ ~Contains(Flushing, <<"kill", u>>)
    BY DEF Contains, Unlocking, Flushing
<1>5. Contains(Unlocking, <<"unsafe">>) /\ Contains(Flushing, <<"unsafe">>)
    BY DEF Contains, Unlocking, Flushing
<1> QED BY <1>1, <1>2, <1>3, <1>4, <1>5

\* A task that is to kill is in the middle of taskDestroy.
LEMMA KillerCode ==
    ASSUME CodeOK, NEW t \in Tasks, NEW v, Has(t, <<"kill", v>>)
    PROVE  /\ v \in Tasks \ {t} /\ code[t] \in {Locking(v), Killing(v)}
           /\ Has(t, <<"unsafe">>)
<1>1. PICK c : c = code[t]
    OBVIOUS
<1>2. Contains(c, <<"kill", v>>) /\ CallShape(t, c)
    BY <1>1 DEF Has, Contains, CodeOK
<1>3. c # <<>>
    BY <1>2, StepsOf
<1>4. ~ \E x \in LastSteps(t) : c = <<x>>
  <2> SUFFICES ASSUME NEW x \in LastSteps(t), c = <<x>> PROVE FALSE
      OBVIOUS
  <2>1. x = <<"kill", v>>
      BY <1>2, StepsOf
  <2> QED BY <2>1 DEF LastSteps
<1>5. c \in Deletion(t)
    BY <1>2, <1>3, <1>4 DEF CallShape
<1>6. \E u \in Tasks \ {t} : c \in {Locking(u), Killing(u)}
    BY <1>2, <1>5, StepsOf DEF Deletion
<1>7. PICK u \in Tasks \ {t} : c \in {Locking(u), Killing(u)}
    BY <1>6
<1>8. u = v /\ Contains(c, <<"unsafe">>)
    BY <1>2, <1>7, StepsOf
<1> QED BY <1>1, <1>7, <1>8 DEF Has, Contains

\* The parts of the sum.
LEMMA Sizes ==
    ASSUME CountsFit, SemTypes, KillOK, NEW t \in Tasks
    PROVE  /\ safes[t] \in 0..MaxSafe /\ Unsafe(t) \in 0..1
           /\ IsFiniteSet(Owned(t)) /\ Cardinality(Owned(t)) \in 0..Cardinality(DeleteSafe)
           /\ IsFiniteSet(Killers(t)) /\ Cardinality(Killers(t)) \in 0..1
           /\ IsFiniteSet(Dead) /\ Slack \in Nat
           /\ Alive(t) => Slack + 1 <= Cardinality(Tasks)
           /\ Reasons(t) \in Nat
<1>1. IsFiniteSet(Tasks) /\ IsFiniteSet(DeleteSafe)
    BY VmxAssumption DEF CountsFit
<1>2. /\ IsFiniteSet(Owned(t)) /\ IsFiniteSet(Killers(t)) /\ IsFiniteSet(Dead)
      /\ Cardinality(Owned(t)) <= Cardinality(DeleteSafe)
    BY <1>1, FS_Subset DEF Owned, Killers, Dead
<1>3. /\ Cardinality(Owned(t)) \in Nat /\ Cardinality(Killers(t)) \in Nat
      /\ Cardinality(Dead) \in Nat /\ Cardinality(Tasks) \in Nat
      /\ Cardinality(DeleteSafe) \in Nat
    BY <1>1, <1>2, FS_CardinalityType
<1>4. Cardinality(Killers(t)) <= 1
  <2>1. CASE Killers(t) = {}
      BY <2>1, FS_EmptySet
  <2>2. CASE Killers(t) # {}
    <3>1. PICK d : d \in Killers(t)
        BY <2>2
    <3>2. Killers(t) = {d}
        BY <3>1 DEF KillOK, Killers
    <3> QED BY <3>2, FS_Singleton
  <2> QED BY <2>1, <2>2
<1>5. Alive(t) => Cardinality(Dead) + 1 <= Cardinality(Tasks)
  <2> SUFFICES ASSUME Alive(t) PROVE Cardinality(Dead) + 1 <= Cardinality(Tasks)
      OBVIOUS
  <2>1. Dead \in SUBSET (Tasks \ {t})
      BY DEF Dead
  <2>2. IsFiniteSet(Tasks \ {t}) /\ Cardinality(Tasks \ {t}) = Cardinality(Tasks) - 1
      BY <1>1, FS_RemoveElement
  <2>3. Cardinality(Dead) <= Cardinality(Tasks \ {t})
      BY <2>1, <2>2, FS_Subset
  <2> QED BY <1>3, <2>2, <2>3
<1>6. Cardinality(Tasks) # 0
    BY <1>1, FS_EmptySet, VmxAssumption
<1>7. Slack \in Nat /\ (Alive(t) => Slack + 1 <= Cardinality(Tasks))
    BY <1>3, <1>5, <1>6 DEF Slack
<1>8. safes[t] \in 0..MaxSafe /\ Unsafe(t) \in 0..1
    BY DEF SemTypes, Unsafe
<1>9. Reasons(t) \in Nat
    BY <1>3, <1>8, VmxTaskAssumption DEF Reasons
<1> QED BY <1>2, <1>3, <1>4, <1>7, <1>8, <1>9

\* safeCount++ does not overflow.
LEMMA NoOverflow ==
    ASSUME CountsFit, SemTypes, DeletionInv, NEW t \in Tasks, Alive(t)
    PROVE  safeCount[t] \in Nat /\ Plus1(safeCount[t]) = safeCount[t] + 1
<1>6. /\ safes[t] \in Nat /\ Unsafe(t) \in Nat /\ Cardinality(Owned(t)) \in Nat
      /\ Cardinality(Killers(t)) \in Nat /\ Slack \in Nat /\ safeCount[t] \in Nat
  <2>1. safeCount[t] \in 0..UnsignedMax
      BY DEF SemTypes
  <2> QED BY <2>1, Sizes, VmxSemAssumption DEF DeletionInv
<1>1. PICK m, u, o, k, f, n \in Nat :
         /\ m = safes[t] /\ u = Unsafe(t) /\ o = Cardinality(Owned(t))
         /\ k = Cardinality(Killers(t)) /\ f = Slack /\ n = safeCount[t]
    BY <1>6
<1>2. PICK D, T \in Nat : D = Cardinality(DeleteSafe) /\ T = Cardinality(Tasks)
    BY FS_CardinalityType, VmxAssumption DEF CountsFit
<1>3. m <= MaxSafe /\ u <= 1 /\ o <= D /\ k <= 1 /\ f + 1 <= T
    BY <1>1, <1>2, Sizes DEF DeletionInv
<1>4. n <= m + u + o + k + f
    BY <1>1 DEF DeletionInv, Balance, Reasons
<1>5. n < UnsignedMax
    BY <1>1, <1>2, <1>3, <1>4, VmxTaskAssumption, VmxSemAssumption DEF CountsFit
<1> QED BY <1>1, <1>5 DEF Plus1

\* With a reason, safeCount-- does not wrap.
LEMMA NoUnderflow ==
    ASSUME CountsFit, SemTypes, DeletionInv, NEW t \in Tasks, Alive(t), Reasons(t) > 0
    PROVE  safeCount[t] > 0 /\ Minus1(safeCount[t]) = safeCount[t] - 1
<1>1. Reasons(t) \in Nat /\ safeCount[t] \in Nat /\ Reasons(t) <= safeCount[t]
    BY Sizes, NoOverflow DEF DeletionInv, Balance
<1> QED BY <1>1 DEF Minus1

-----------------------------------------------------------------------------
(***************************************************************************)
(* Steps that are no reason, and what of the sum a step leaves alone.      *)
(***************************************************************************)
SameHas == \A t \in Tasks :
    /\ \A v : Has(t, <<"kill", v>>)' <=> Has(t, <<"kill", v>>)
    /\ Has(t, <<"unsafe">>)' <=> Has(t, <<"unsafe">>)

SameOwners == \A s \in DeleteSafe : semOwner'[s] = semOwner[s]

\* No semaphore gets deleted, and vmxSemDelete does not end.
SameDisowning ==
    /\ semValid' = semValid
    /\ \A s \in Sems : Disowning(s)' <=> Disowning(s)
    /\ (\E s \in Sems : Disowning(s)) => taskIdCurrent' = taskIdCurrent

\* The mutexes of a task.
LEMMA OwnedStays ==
    ASSUME SameOwners, SameDisowning PROVE \A t : Owned(t)' = Owned(t)
BY VmxSemAssumption DEF Owned, SameOwners, SameDisowning

\* Who is to kill a task.
LEMMA KillersStay == ASSUME SameHas PROVE \A t : Killers(t)' = Killers(t)
BY DEF Killers, SameHas

\* The taskUnsafe that is to come.
LEMMA UnsafeStays ==
    ASSUME SameDisowning, NEW t \in Tasks, Has(t, <<"unsafe">>)' <=> Has(t, <<"unsafe">>)
    PROVE  Unsafe(t)' = Unsafe(t)
BY DEF Unsafe, SameDisowning

\* The dead tasks.
LEMMA SlackStays == ASSUME Lives PROVE Slack' = Slack
<1>1. Dead' = Dead
    BY DEF Dead, Lives
<1> QED BY <1>1 DEF Slack

\* No task begins to kill, and who gets to be safe can run.
LEMMA KillsStay ==
    ASSUME KillOK, Lives,
           \A t, v \in Tasks : Has(t, <<"kill", v>>)' => Has(t, <<"kill", v>>),
           \A v \in Tasks : Has(v, <<"unsafe">>)' => Has(v, <<"unsafe">>) \/ Ready(v)
    PROVE  KillOK'
<1> SUFFICES ASSUME NEW v \in Tasks, NEW d \in Tasks, Has(d, <<"kill", v>>)'
             PROVE  /\ Alive(v)'
                    /\ \A e \in Tasks : Has(e, <<"kill", v>>)' => d = e
                    /\ NoResume => "suspend" \in status'[v] /\ ~Has(v, <<"unsafe">>)'
    BY DEF KillOK
<1>1. Has(d, <<"kill", v>>) /\ Alive(v)
    BY DEF KillOK
<1>2. NoResume => "suspend" \in status[v] /\ ~Has(v, <<"unsafe">>) /\ ~Ready(v)
    BY <1>1 DEF KillOK, Ready
<1> QED BY <1>1, <1>2 DEF KillOK, Lives

\* A step that neither counts nor is counted.
LEMMA QuietKeeps ==
    ASSUME DeletionInv, Lives, SameHas, SameOwners, SameDisowning,
           UNCHANGED <<safeCount, safes>>
    PROVE  DeletionInv'
<1>1. \A t \in Tasks : Reasons(t)' = Reasons(t)
    BY OwnedStays, KillersStay, UnsafeStays DEF Reasons, SameHas
<1>2. Slack' = Slack
    BY SlackStays
<1>3. Balance'
    BY <1>1, <1>2 DEF DeletionInv, Balance, Lives
<1>4. KillOK'
    BY KillsStay DEF SameHas, DeletionInv
<1> QED BY <1>3, <1>4 DEF DeletionInv

\* No task gets further in its call.
LEMMA CodeHas == ASSUME code' = code PROVE SameHas
BY DEF SameHas, Has

\* A task gets from one step of its call to another.
LEMMA CallHas ==
    ASSUME CodeTypes, NEW t \in Tasks, NEW c, code' = [code EXCEPT ![t] = c],
           \A v : Contains(c, <<"kill", v>>) <=> Contains(code[t], <<"kill", v>>)
    PROVE  /\ \A u \in Tasks : \A v : Has(u, <<"kill", v>>)' <=> Has(u, <<"kill", v>>)
           /\ \A u \in Tasks \ {t} : Has(u, <<"unsafe">>)' <=> Has(u, <<"unsafe">>)
           /\ Has(t, <<"unsafe">>)' <=> Contains(c, <<"unsafe">>)
<1>1. code'[t] = c /\ \A u \in Tasks \ {t} : code'[u] = code[u]
    BY DEF CodeTypes
<1> QED BY <1>1 DEF Has, Contains

\* ... and is no nearer to a kill or to taskUnsafe.
LEMMA CallSameHas ==
    ASSUME CodeTypes, NEW t \in Tasks, NEW c, code' = [code EXCEPT ![t] = c],
           \A v : Contains(c, <<"kill", v>>) <=> Contains(code[t], <<"kill", v>>),
           Contains(c, <<"unsafe">>) <=> Contains(code[t], <<"unsafe">>)
    PROVE  SameHas
<1>1. Has(t, <<"unsafe">>) <=> Contains(code[t], <<"unsafe">>)
    BY DEF Has, Contains
<1> QED BY <1>1, CallHas DEF SameHas

\* Calls that have nothing to do with deletion.
Plain(c) == ~Contains(c, <<"unsafe">>) /\ \A v : ~Contains(c, <<"kill", v>>)

\* Which calls those are.
LEMMA PlainSteps ==
    /\ Plain(<<>>)
    /\ \A x : x[1] \notin {"kill", "unsafe"} => Plain(<<x>>)
    /\ \A n : Plain(AfterDrop(n))
<1>1. Plain(<<>>)
    BY StepsOf DEF Plain
<1>2. ASSUME NEW x, x[1] \notin {"kill", "unsafe"} PROVE Plain(<<x>>)
  <2>1. x # <<"unsafe">> /\ \A v : x # <<"kill", v>>
      BY <1>2
  <2> QED BY <2>1, StepsOf DEF Plain
<1>3. ASSUME NEW n PROVE Plain(AfterDrop(n))
  <2>1. <<"flushSafety">>[1] \notin {"kill", "unsafe"}
      OBVIOUS
  <2> QED BY <1>1, <1>2, <2>1 DEF AfterDrop
<1> QED BY <1>1, <1>2, <1>3

\* A task gets from one of them to another.
LEMMA PlainCall ==
    ASSUME CodeTypes, NEW t \in Tasks, NEW c, code' = [code EXCEPT ![t] = c],
           Plain(c), Plain(code[t])
    PROVE  SameHas
BY CallSameHas DEF Plain

\* Loops of one kind before and after the step.
LEMMA NoDisowning ==
    ASSUME Simple(todo), Simple(todo'), semValid' = semValid PROVE SameDisowning
BY SimpleLoops DEF SameDisowning, Disowning

\* safeCount moves by as much as the reasons do.
Moves(t, d) == safeCount'[t] = safeCount[t] + d /\ Reasons(t)' = Reasons(t) + d

\* All that live move by the same in both, so the balance is kept.
LEMMA MovesKeep ==
    ASSUME CountsFit, SemTypes, DeletionInv, Lives, KillOK',
           \A t \in Tasks : Alive(t) => \E d \in Int : Moves(t, d)
    PROVE  DeletionInv'
<1>1. Slack' = Slack
    BY SlackStays
<1>2. ASSUME NEW t \in Tasks, Alive(t)'
      PROVE  Reasons(t)' <= safeCount'[t] /\ safeCount'[t] <= Reasons(t)' + Slack
  <2>1. Alive(t)
      BY <1>2 DEF Lives
  <2>2. PICK d \in Int : Moves(t, d)
      BY <2>1
  <2>3. Reasons(t) \in Nat /\ safeCount[t] \in Nat /\ Slack \in Nat
      BY <2>1, Sizes, NoOverflow DEF DeletionInv
  <2>4. Reasons(t) <= safeCount[t] /\ safeCount[t] <= Reasons(t) + Slack
      BY <2>1 DEF DeletionInv, Balance
  <2> QED BY <2>2, <2>3, <2>4 DEF Moves
<1> QED BY <1>1, <1>2 DEF DeletionInv, Balance

\* Neither moves.
LEMMA NoMove ==
    ASSUME CountsFit, SemTypes, DeletionInv, NEW t \in Tasks, Alive(t),
           safeCount'[t] = safeCount[t], safes'[t] = safes[t],
           UNCHANGED <<Unsafe(t), Owned(t), Killers(t)>>
    PROVE  \E d \in Int : Moves(t, d)
<1>1. safeCount[t] \in Nat /\ Reasons(t) \in Nat
    BY NoOverflow, Sizes DEF DeletionInv
<1>2. Reasons(t)' = Reasons(t)
    BY DEF Reasons
<1>3. Moves(t, 0)
    BY <1>1, <1>2 DEF Moves
<1> QED BY <1>3

-----------------------------------------------------------------------------
(***************************************************************************)
(* The calls of semBLib, semCLib, semMLib and semLib.                      *)
(***************************************************************************)
\* A delete-safe mutex that was full.
LEMMA TakeFullMoves ==
    ASSUME CountsFit, RunInv, CallInv, DeletionInv, NEW t \in Tasks, NEW s \in DeleteSafe,
           TakeFull(t, s), safes' = safes
    PROVE  DeletionInv'
<1> USE DEF RunInv, TypeInv
<1>1. /\ s \in Sems /\ SemType[s] = "mutex" /\ t # NULL
      /\ \A r \in DeleteSafe : r \in Sems
    BY VmxSemAssumption, VmxLibAssumption
<1>2. Running(t) /\ todo = <<>>
    BY DEF TakeFull, Free, Running, SchedInv, SchedBase
<1>3. Alive(t) /\ Lives
    BY <1>2, RunningReady, SameLives DEF Ready, Alive, TakeFull, NoSection, kernVars
<1>4. SameDisowning /\ SameHas
    BY <1>2, NoDisowning, CodeHas DEF TakeFull, NoSection, schedVars, Simple
<1>5. /\ semOwner[s] = NULL /\ semValid[s] /\ semOwner' = [semOwner EXCEPT ![s] = t]
      /\ safeCount' = [safeCount EXCEPT ![t] = Plus1(safeCount[t])]
    BY <1>1 DEF TakeFull, Full
<1>6. Owned(t)' = Owned(t) \cup {s} /\ s \notin Owned(t)
    BY <1>1, <1>4, <1>5 DEF Owned, SameDisowning, SemTypes
<1>7. \A u \in Tasks \ {t} : Owned(u)' = Owned(u)
    BY <1>1, <1>4, <1>5, VmxLibAssumption DEF Owned, SameDisowning, SemTypes
<1>8. \A u \in Tasks : Killers(u)' = Killers(u) /\ Unsafe(u)' = Unsafe(u)
    BY <1>4, KillersStay, UnsafeStays DEF SameHas
<1>9. Moves(t, 1)
  <2>1. Cardinality(Owned(t)') = Cardinality(Owned(t)) + 1
      BY <1>6, FS_AddElement, Sizes DEF DeletionInv
  <2>2. Reasons(t)' = Reasons(t) + 1
      BY <1>8, <2>1, Sizes DEF Reasons, DeletionInv
  <2>3. safeCount'[t] = safeCount[t] + 1
      BY <1>3, <1>5, NoOverflow DEF SemTypes
  <2> QED BY <2>2, <2>3 DEF Moves
<1>10. ASSUME NEW u \in Tasks, Alive(u) PROVE \E d \in Int : Moves(u, d)
  <2>1. CASE u = t
      BY <1>9, <2>1
  <2>2. CASE u # t
    <3>1. safeCount'[u] = safeCount[u]
        BY <1>5, <2>2 DEF SemTypes
    <3> QED BY <1>7, <1>8, <1>10, <2>2, <3>1, NoMove
  <2> QED BY <2>1, <2>2
<1>11. KillOK'
    BY <1>3, <1>4, KillsStay DEF SameHas, DeletionInv
<1> QED BY <1>3, <1>10, <1>11, MovesKeep

\* A delete-safe mutex goes to the next task or is full again.
LEMMA GiveMutexMoves ==
    ASSUME CountsFit, RunInv, CallInv, DeletionInv, NEW t \in Tasks, NEW s \in DeleteSafe,
           GiveMutex(t, s), safes' = safes, Lives, SameDisowning
    PROVE  DeletionInv'
<1> USE DEF RunInv, TypeInv
<1>1. s \in Sems /\ s \in PendQs /\ \A r \in DeleteSafe : r \in Sems
    BY VmxSemAssumption DEF PendQs
<1>2. Alive(t) /\ Ready(t)
    BY RunningReady DEF Ready, Alive, GiveMutex, Free
<1>3. PICK next : next = QFirst(pendQ[s], NULL)
    OBVIOUS
<1>4. PICK less : less = [safeCount EXCEPT ![t] = Minus1(safeCount[t])]
    OBVIOUS
<1>5. /\ semOwner[s] = t /\ semValid[s] /\ semOwner' = [semOwner EXCEPT ![s] = next]
      /\ safeCount' = IF next # NULL THEN [less EXCEPT ![next] = Plus1(less[next])] ELSE less
      /\ code' = code
    BY <1>3, <1>4 DEF GiveMutex
<1>6. next # NULL => next \in Tasks /\ next # t /\ Alive(next)
  <2>1. pendQ[s] \in Seq(Tasks)
      BY <1>1 DEF KernTypes
  <2>2. next # NULL => next \in Tasks /\ next \in Elements(pendQ[s])
      BY <1>1, <1>3, <2>1, TailQueue DEF QFirst, KernInv, PendOK
  <2>3. next # NULL => "pend" \in status[next]
      BY <1>1, <2>2 DEF KernInv, PendOK
  <2> QED BY <1>2, <2>2, <2>3 DEF Ready, CallInv, DeadOK
<1>7. Owned(t)' = Owned(t) \ {s} /\ s \in Owned(t)
    BY <1>1, <1>5, <1>6, VmxLibAssumption DEF Owned, SameDisowning, SemTypes
<1>8. next # NULL => Owned(next)' = Owned(next) \cup {s} /\ s \notin Owned(next)
    BY <1>1, <1>5, <1>6 DEF Owned, SameDisowning, SemTypes
<1>9. \A u \in Tasks \ {t} : u # next => Owned(u)' = Owned(u)
    BY <1>1, <1>5, <1>6 DEF Owned, SameDisowning, SemTypes
<1>10. \A u \in Tasks : Killers(u)' = Killers(u) /\ Unsafe(u)' = Unsafe(u)
    BY <1>5, CodeHas, KillersStay, UnsafeStays DEF SameHas
<1>11. Moves(t, -1)
  <2>1. Cardinality(Owned(t)') = Cardinality(Owned(t)) - 1
      BY <1>7, FS_RemoveElement, Sizes DEF DeletionInv
  <2>2. Cardinality(Owned(t)) > 0
      BY <1>7, FS_EmptySet, Sizes DEF DeletionInv
  <2>3. Reasons(t)' = Reasons(t) - 1 /\ Reasons(t) > 0
      BY <1>10, <2>1, <2>2, Sizes DEF Reasons, DeletionInv
  <2>4. less[t] = safeCount[t] - 1
      BY <1>2, <1>4, <2>3, NoUnderflow DEF SemTypes
  <2>5. safeCount'[t] = less[t]
    <3>1. less \in [Tasks -> 0..UnsignedMax]
        BY <1>4, PlusMinusTypes DEF SemTypes
    <3> QED BY <1>5, <1>6, <3>1
  <2>6. safeCount[t] \in Nat /\ Reasons(t) \in Nat
      BY <1>2, NoOverflow, Sizes DEF DeletionInv
  <2> QED BY <2>3, <2>4, <2>5, <2>6 DEF Moves
<1>12. ASSUME next # NULL PROVE Moves(next, 1)
  <2>1. Cardinality(Owned(next)') = Cardinality(Owned(next)) + 1
      BY <1>6, <1>8, <1>12, FS_AddElement, Sizes DEF DeletionInv
  <2>2. Reasons(next)' = Reasons(next) + 1
    <3>1. /\ safes[next] \in Nat /\ Unsafe(next) \in Nat
          /\ Cardinality(Owned(next)) \in Nat /\ Cardinality(Killers(next)) \in Nat
        BY <1>6, <1>12, Sizes DEF DeletionInv
    <3>2. Killers(next)' = Killers(next) /\ Unsafe(next)' = Unsafe(next)
        BY <1>6, <1>10, <1>12
    <3> QED BY <2>1, <3>1, <3>2 DEF Reasons
  <2>3. less[next] = safeCount[next] /\ next \in DOMAIN less
      BY <1>4, <1>6, <1>12 DEF SemTypes
  <2>4. safeCount'[next] = safeCount[next] + 1
      BY <1>5, <1>6, <1>12, <2>3, NoOverflow
  <2> QED BY <2>2, <2>4 DEF Moves
<1>13. ASSUME NEW u \in Tasks, Alive(u) PROVE \E d \in Int : Moves(u, d)
  <2>1. CASE u = t
      BY <1>11, <2>1
  <2>2. CASE u = next
      BY <1>12, <2>2, VmxLibAssumption
  <2>3. CASE u # t /\ u # next
    <3>1. safeCount'[u] = safeCount[u]
        BY <1>4, <1>5, <2>3 DEF SemTypes
    <3> QED BY <1>9, <1>10, <1>13, <2>3, <3>1, NoMove
  <2> QED BY <2>1, <2>2, <2>3
<1>14. KillOK'
    BY <1>5, CodeHas, KillsStay DEF SameHas, DeletionInv
<1> QED BY <1>13, <1>14, MovesKeep

\* semDestroy: its caller is going to be unsafe once, and the mutex still is a
\* reason for its owner, until vmxSemDelete ends.
LEMMA SemDeleteMoves ==
    ASSUME CountsFit, RunInv, CallInv, DeletionInv, NEW t \in Tasks, NEW s \in Sems,
           SemDelete(t, s), safes' = safes
    PROVE  DeletionInv'
<1> USE DEF RunInv, TypeInv
<1>1. Running(t) /\ todo = <<>> /\ code[t] = <<>> /\ taskIdCurrent = t
    BY DEF SemDelete, Free, Running, SchedInv, SchedBase
<1>2. Alive(t) /\ Ready(t) /\ Lives
    BY <1>1, RunningReady, SameLives DEF Ready, Alive, SemDelete, kernVars
<1>3. /\ code' = [code EXCEPT ![t] = <<<<"unsafe">>>>] /\ taskIdCurrent' = t
      /\ semValid[s] /\ semValid' = [semValid EXCEPT ![s] = FALSE]
      /\ todo' = <<<<"terminate", s>>, <<"disown", s>>>>
      /\ UNCHANGED <<semOwner, safeCount>>
    BY <1>1 DEF SemDelete, Section, SectionOnly
<1>4. /\ \A u \in Tasks : \A v : Has(u, <<"kill", v>>)' <=> Has(u, <<"kill", v>>)
      /\ \A u \in Tasks \ {t} : Has(u, <<"unsafe">>)' <=> Has(u, <<"unsafe">>)
      /\ ~Has(t, <<"unsafe">>)
  <2>1. PICK c : c = <<<<"unsafe">>>>
      OBVIOUS
  <2>2. \A v : Contains(c, <<"kill", v>>) <=> Contains(code[t], <<"kill", v>>)
    <3>1. \A v : <<"kill", v>> # <<"unsafe">>
        OBVIOUS
    <3>2. \A v : ~Contains(c, <<"kill", v>>) /\ ~Contains(<<>>, <<"kill", v>>)
        BY <2>1, <3>1, StepsOf
    <3> QED BY <1>1, <3>2
  <2>3. ~Has(t, <<"unsafe">>)
      BY <1>1 DEF Has
  <2> QED BY <1>3, <2>1, <2>2, <2>3, CallHas
<1>5. /\ \A r \in Sems : ~Disowning(r)
      /\ \A r \in Sems : Disowning(r)' <=> r = s
    BY <1>1, <1>3, SimpleLoops DEF Disowning, Deletes, Simple
<1>6. \A u \in Tasks : Owned(u)' = Owned(u)
    BY <1>3, <1>5, VmxSemAssumption DEF Owned, SemTypes
<1>7. \A u \in Tasks : Killers(u)' = Killers(u)
    BY <1>4 DEF Killers
<1>8. \A u \in Tasks : Unsafe(u)' = Unsafe(u)
    BY <1>1, <1>3, <1>4, <1>5 DEF Unsafe
<1>9. KillOK'
    BY <1>2, <1>4, KillsStay DEF DeletionInv
<1> QED BY <1>2, <1>3, <1>6, <1>7, <1>8, <1>9, NoMove, MovesKeep

\* A call of semLib.
LEMMA SemCallMoves ==
    ASSUME CountsFit, RunInv, CallInv, DeletionInv, SemCall, safes' = safes
    PROVE  DeletionInv'
<1> USE DEF RunInv, TypeInv, KernInv
<1> USE DEF SectionOnly, NoSection, semVars, schedVars, Section, Free, At, Running
<1>1. ASSUME NEW t \in Tasks, Running(t) PROVE Alive(t)
    BY <1>1, RunningReady DEF Ready, Alive
<1>2. Simple(<<>>) /\ \A q \in PendQs : Simple(Flush(q))
    BY FlushSimple DEF Simple
<1>3. Tasks \subseteq PendQs /\ Sems \subseteq PendQs /\ DeleteSafe \subseteq Sems
    BY VmxSemAssumption DEF PendQs
<1>4. kpc = "user" => todo = <<>>
    BY DEF SchedInv, SchedBase
<1>5. ASSUME NEW t \in Tasks, NEW s \in Sems,
             TakeAgain(t, s) \/ TakeNoWait(t, s) \/ GiveRecurse(t, s)
      PROVE  DeletionInv'
  <2>1. UNCHANGED <<code, todo, status, semOwner, semValid, safeCount>> /\ todo = <<>>
      BY <1>4, <1>5 DEF TakeAgain, TakeNoWait, GiveRecurse, kernVars
  <2> QED BY <1>2, <2>1, QuietKeeps, CodeHas, SameLives, NoDisowning DEF SameOwners
<1>6. ASSUME NEW t \in Tasks, NEW s \in Sems, TakeFull(t, s) PROVE DeletionInv'
  <2>1. CASE s \in DeleteSafe
      BY <1>6, <2>1, TakeFullMoves
  <2>2. CASE s \notin DeleteSafe
    <3>1. UNCHANGED <<code, todo, status, semValid, safeCount>> /\ todo = <<>>
        BY <1>4, <1>6, <2>2 DEF TakeFull, kernVars
    <3>2. SameOwners
        BY <1>3, <1>6, <2>2 DEF TakeFull, SameOwners, SemTypes
    <3> QED BY <1>2, <3>1, <3>2, QuietKeeps, CodeHas, SameLives, NoDisowning
  <2> QED BY <2>1, <2>2
<1>7. ASSUME NEW t \in Tasks, NEW s \in Sems, NEW n, TakeWait(t, s, n) PROVE DeletionInv'
  <2>1. Lives
      BY <1>1, <1>7, PendPutLives DEF TakeWait
  <2>2. PICK c : c = <<<<"taken", s>>>> /\ Plain(c)
    <3>1. <<"taken", s>>[1] \notin {"kill", "unsafe"}
        OBVIOUS
    <3> QED BY <3>1, PlainSteps
  <2>3. /\ code' = [code EXCEPT ![t] = c] /\ code[t] = <<>> /\ todo = <<>> /\ todo' = <<>>
        /\ UNCHANGED <<semOwner, semValid, safeCount>>
      BY <1>4, <1>7, <2>2 DEF TakeWait
  <2>5. SameHas
      BY <2>2, <2>3, PlainCall, PlainSteps
  <2> QED BY <1>2, <2>1, <2>3, <2>5, QuietKeeps, NoDisowning DEF SameOwners
<1>8. ASSUME NEW t \in Tasks, TakeReturns(t) PROVE DeletionInv'
  <2>1. Lives /\ todo = <<>> /\ UNCHANGED <<todo, semOwner, semValid, safeCount>>
      BY <1>4, <1>8, SameLives DEF TakeReturns
  <2>2. PICK x : x = Head(code[t]) /\ x[1] = "taken" /\ code[t] = <<x>> /\ Tail(code[t]) = <<>>
      BY <1>8, NextStep DEF TakeReturns, CallInv
  <2>3. code' = [code EXCEPT ![t] = <<>>]
      BY <1>8, <2>2 DEF TakeReturns
  <2>5. SameHas
    <3>1. x[1] \notin {"kill", "unsafe"}
        BY <2>2
    <3> QED BY <2>2, <2>3, <3>1, PlainCall, PlainSteps
  <2> QED BY <1>2, <2>1, <2>5, QuietKeeps, NoDisowning DEF SameOwners
<1>9. ASSUME NEW t \in Tasks, NEW s \in Sems, GiveMutex(t, s) PROVE DeletionInv'
  <2>1. PICK next : next = QFirst(pendQ[s], NULL)
      OBVIOUS
  <2>2. pendQ[s] \in Seq(Tasks)
      BY <1>3 DEF KernTypes
  <2>3. next # NULL => pendQ[s] # <<>>
      BY <2>1, <2>2 DEF QFirst
  <2>4. Lives
    <3>1. IF next = NULL THEN UNCHANGED kernVars ELSE vmxPendQGet(s)
        BY <1>9, <2>1 DEF GiveMutex
    <3> QED BY <1>3, <2>3, <3>1, SameLives, UnpendLives DEF kernVars, vmxPendQGet
  <2>5. todo = <<>> /\ todo' \in {<<>>, Flush(t)}
      BY <1>4, <1>9 DEF GiveMutex
  <2>6. code' = code /\ semValid' = semValid
      BY <1>9 DEF GiveMutex
  <2>7. SameDisowning
      BY <1>2, <1>3, <2>5, <2>6, NoDisowning
  <2>8. CASE s \in DeleteSafe
      BY <1>9, <2>4, <2>7, <2>8, GiveMutexMoves
  <2>9. CASE s \notin DeleteSafe
    <3>1. safeCount' = safeCount /\ SameOwners
        BY <1>9, <2>9 DEF GiveMutex, SameOwners, SemTypes
    <3> QED BY <2>4, <2>6, <2>7, <3>1, QuietKeeps, CodeHas
  <2> QED BY <2>8, <2>9
<1>10. ASSUME NEW t \in Tasks, NEW s \in Sems, SemDelete(t, s) PROVE DeletionInv'
    BY <1>10, SemDeleteMoves
<1>11. ASSUME NEW s \in Sems, Give(s) PROVE DeletionInv'
  <2>1. Lives /\ UNCHANGED <<code, semValid, safeCount>>
      BY <1>11, GiveLives DEF Give
  <2>2. todo = <<>> /\ todo' = <<>>
      BY <1>4, <1>11 DEF Give, Caller, InHandler
  <2>3. SameOwners
    <3>1. s \notin DeleteSafe
        BY <1>11, VmxSemAssumption DEF Give
    <3>2. PICK o : semOwner' = semOwner \/ semOwner' = [semOwner EXCEPT ![s] = o]
        BY <1>11 DEF Give, GiveKernel
    <3> QED BY <1>3, <3>1, <3>2 DEF SameOwners, SemTypes
  <2> QED BY <1>2, <2>1, <2>2, <2>3, QuietKeeps, CodeHas, NoDisowning
<1>12. ASSUME NEW s \in Sems, SemFlush(s) PROVE DeletionInv'
  <2>1. Lives /\ UNCHANGED <<code, semValid, semOwner, safeCount>> /\ todo' = Flush(s)
      BY <1>12, SameLives DEF SemFlush, kernVars
  <2>2. todo = <<>>
      BY <1>4, <1>12 DEF SemFlush, Caller, InHandler
  <2> QED BY <1>2, <1>3, <2>1, <2>2, QuietKeeps, CodeHas, NoDisowning DEF SameOwners
<1> QED
  BY <1>5, <1>6, <1>7, <1>8, <1>9, <1>10, <1>11, <1>12 DEF SemCall

-----------------------------------------------------------------------------
(***************************************************************************)
(* The calls of taskLib.                                                   *)
(***************************************************************************)
\* The steps of a call that do not count.
LEMMA QuietSteps ==
    ASSUME RunInv, CallInv, NEW t \in Tasks,
           \/ \E op \in Ops : TaskVerified(t, op)
           \/ TaskApplied(t) \/ taskLock(t) \/ taskUnlock(t) \/ FlushSafety(t)
           \/ \E v \in Tasks, f \in BOOLEAN : DestroyCalled(t, v, f)
           \/ DestroyTooLate(t)
    PROVE  SameHas
<1> USE DEF RunInv, TypeInv, CallInv, Free, At
<1>1. ASSUME NEW x, code[t] = <<>>, x[1] \notin {"kill", "unsafe"}, Call(t, <<x>>)
      PROVE  SameHas
  <2>1. PICK c : c = <<x>> /\ Plain(c)
      BY <1>1, PlainSteps
  <2> QED BY <1>1, <2>1, PlainCall, PlainSteps DEF Call
<1>2. ASSUME code[t] # <<>>, GoOn(t, <<>>),
             Head(code[t])[1] \notin {"lock", "kill", "unlock", "flushSafety", "unsafe"}
      PROVE  SameHas
  <2>1. PICK x : x = Head(code[t]) /\ code[t] = <<x>> /\ Tail(code[t]) = <<>>
      BY <1>2, NextStep
  <2>2. x[1] \notin {"kill", "unsafe"}
      BY <1>2, <2>1
  <2>3. <<>> \o <<>> = <<>>
      OBVIOUS
  <2>4. code' = [code EXCEPT ![t] = <<>>]
      BY <1>2, <2>1, <2>3 DEF GoOn
  <2> QED BY <2>1, <2>2, <2>4, PlainCall, PlainSteps
<1>3. CASE \E op \in Ops : TaskVerified(t, op)
  <2>1. PICK op \in Ops : TaskVerified(t, op)
      BY <1>3
  <2>2. op[1] \notin {"kill", "unsafe"}
      BY DEF Ops, OpsOn
  <2> QED BY <1>1, <2>1, <2>2 DEF TaskVerified
<1>4. CASE TaskApplied(t)
    BY <1>2, <1>4 DEF TaskApplied, TaskOps
<1>5. CASE taskLock(t)
  <2>1. CASE UNCHANGED code
      BY <2>1, CodeHas
  <2>2. CASE At(t, "lock") /\ GoOn(t, <<>>)
    <3>1. PICK v \in Tasks \ {t} : code[t] = Locking(v) /\ Tail(code[t]) = Killing(v)
        BY <2>2, NextStep
    <3>2. PICK c : c = Killing(v)
        OBVIOUS
    <3>3. code' = [code EXCEPT ![t] = c]
      <4>1. <<>> \o Killing(v) = Killing(v)
          BY DEF Killing
      <4> QED BY <2>2, <3>1, <3>2, <4>1 DEF GoOn
    <3>4. /\ \A u : Contains(c, <<"kill", u>>) <=> Contains(code[t], <<"kill", u>>)
          /\ Contains(c, <<"unsafe">>) /\ Contains(code[t], <<"unsafe">>)
        BY <3>1, <3>2, StepsOf
    <3> QED BY <3>3, <3>4, CallSameHas
  <2> QED BY <1>5, <2>1, <2>2 DEF taskLock
<1>6. CASE taskUnlock(t)
  <2>1. CASE code[t] = <<>> /\ Call(t, AfterDrop(lockCount[t]))
    <3>1. PICK c : c = AfterDrop(lockCount[t]) /\ Plain(c)
        BY PlainSteps
    <3> QED BY <2>1, <3>1, PlainCall, PlainSteps DEF Call
  <2>2. CASE At(t, "unlock") /\ GoOn(t, AfterDrop(lockCount[t]))
    <3>1. code[t] = Unlocking /\ Tail(code[t]) = <<<<"unsafe">>>>
        BY <2>2, NextStep
    <3>2. PICK c : c = AfterDrop(lockCount[t]) \o <<<<"unsafe">>>>
        OBVIOUS
    <3>3. code' = [code EXCEPT ![t] = c]
        BY <2>2, <3>1, <3>2 DEF GoOn
    <3>4. c = <<<<"unsafe">>>> \/ c = Flushing
        BY <3>2, DropSteps
    <3>5. Contains(c, <<"unsafe">>) /\ \A u : ~Contains(c, <<"kill", u>>)
      <4>1. \A u : <<"kill", u>> # <<"unsafe">>
          OBVIOUS
      <4> QED BY <3>4, <4>1, StepsOf
    <3>6. Contains(code[t], <<"unsafe">>) /\ \A u : ~Contains(code[t], <<"kill", u>>)
        BY <3>1, StepsOf
    <3> QED BY <3>3, <3>5, <3>6, CallSameHas
  <2> QED BY <1>6, <2>1, <2>2 DEF taskUnlock
<1>7. CASE FlushSafety(t)
  <2>1. code[t] # <<>> /\ Head(code[t])[1] = "flushSafety" /\ GoOn(t, <<>>)
      BY <1>7 DEF FlushSafety
  <2>2. PICK c : c = Tail(code[t])
      OBVIOUS
  <2>3. \/ code[t] = Flushing /\ c = <<<<"unsafe">>>>
        \/ code[t] = <<<<"flushSafety">>>> /\ c = <<>>
      BY <2>1, <2>2, NextStep
  <2>4. code' = [code EXCEPT ![t] = c]
    <3>1. <<>> \o c = c
        BY <2>3
    <3> QED BY <2>1, <2>2, <3>1 DEF GoOn
  <2>5. CASE code[t] = Flushing /\ c = <<<<"unsafe">>>>
    <3>1. \A u : <<"kill", u>> # <<"unsafe">>
        OBVIOUS
    <3>2. /\ Contains(c, <<"unsafe">>) /\ \A u : ~Contains(c, <<"kill", u>>)
          /\ Contains(code[t], <<"unsafe">>) /\ \A u : ~Contains(code[t], <<"kill", u>>)
        BY <2>5, <3>1, StepsOf
    <3> QED BY <2>4, <3>2, CallSameHas
  <2>6. CASE code[t] = <<<<"flushSafety">>>> /\ c = <<>>
    <3>1. <<"flushSafety">>[1] \notin {"kill", "unsafe"}
        OBVIOUS
    <3> QED BY <2>4, <2>6, <3>1, PlainCall, PlainSteps
  <2> QED BY <2>3, <2>5, <2>6
<1>8. CASE \E v \in Tasks, f \in BOOLEAN : DestroyCalled(t, v, f)
  <2>1. PICK v \in Tasks, f \in BOOLEAN : DestroyCalled(t, v, f)
      BY <1>8
  <2>2. PICK x : x = <<"destroy", v, f>>
      OBVIOUS
  <2>3. x[1] \notin {"kill", "unsafe"}
      BY <2>2
  <2> QED BY <1>1, <2>1, <2>2 DEF DestroyCalled
<1>9. CASE DestroyTooLate(t)
    BY <1>2, <1>9 DEF DestroyTooLate
<1> QED BY <1>3, <1>4, <1>5, <1>6, <1>7, <1>8, <1>9

\* One task moves.
LEMMA OneMoves ==
    ASSUME CountsFit, SemTypes, DeletionInv, Lives, KillOK', NEW t \in Tasks,
           NEW d \in Int, Moves(t, d),
           \A u \in Tasks \ {t} : /\ safeCount'[u] = safeCount[u] /\ safes'[u] = safes[u]
                                  /\ UNCHANGED <<Unsafe(u), Owned(u), Killers(u)>>
    PROVE  DeletionInv'
<1>1. ASSUME NEW u \in Tasks, Alive(u) PROVE \E e \in Int : Moves(u, e)
  <2>1. CASE u = t
      BY <2>1
  <2>2. CASE u # t
      BY <1>1, <2>2, NoMove
  <2> QED BY <2>1, <2>2
<1> QED BY <1>1, MovesKeep

\* taskSafe.
LEMMA SafeMoves ==
    ASSUME CountsFit, RunInv, CallInv, DeletionInv, NEW t \in Tasks, taskSafe(t)
    PROVE  DeletionInv'
<1> USE DEF RunInv, TypeInv
<1>1. Running(t) /\ todo = <<>>
    BY DEF taskSafe, Free, Running, SchedInv, SchedBase
<1>2. Alive(t) /\ Lives
    BY <1>1, RunningReady, SameLives DEF Ready, Alive, taskSafe, NoSection, kernVars
<1>3. SameDisowning /\ SameHas /\ SameOwners
    BY <1>1, NoDisowning, CodeHas
    DEF taskSafe, NoSection, schedVars, semOnly, Simple, SameOwners
<1>4. \A u \in Tasks : /\ Killers(u)' = Killers(u) /\ Unsafe(u)' = Unsafe(u)
                       /\ Owned(u)' = Owned(u)
    BY <1>3, OwnedStays, KillersStay, UnsafeStays DEF SameHas
<1>5. safeCount'[t] = safeCount[t] + 1 /\ safes'[t] = safes[t] + 1
    BY <1>2, NoOverflow DEF taskSafe, SemTypes
<1>6. Reasons(t)' = Reasons(t) + 1
  <2>1. /\ safes[t] \in Nat /\ Unsafe(t) \in Nat
        /\ Cardinality(Owned(t)) \in Nat /\ Cardinality(Killers(t)) \in Nat
      BY Sizes, VmxTaskAssumption DEF DeletionInv
  <2> QED BY <1>4, <1>5, <2>1 DEF Reasons
<1>7. Moves(t, 1)
    BY <1>5, <1>6 DEF Moves
<1>8. \A u \in Tasks \ {t} : safeCount'[u] = safeCount[u] /\ safes'[u] = safes[u]
    BY DEF taskSafe, SemTypes
<1>9. KillOK'
    BY <1>2, <1>3, KillsStay DEF SameHas, DeletionInv
<1> QED BY <1>2, <1>4, <1>7, <1>8, <1>9, OneMoves

\* taskUnsafe, for a taskSafe of the task's own or of the kernel.
LEMMA UnsafeMoves ==
    ASSUME CountsFit, RunInv, CallInv, DeletionInv, NEW t \in Tasks, taskUnsafe(t)
    PROVE  DeletionInv'
<1> USE DEF RunInv, TypeInv
<1>1. Running(t) /\ todo = <<>>
    BY DEF taskUnsafe, Free, At, Running, SchedInv, SchedBase
<1>2. Alive(t) /\ Lives
    BY <1>1, RunningReady, SameLives DEF Ready, Alive, taskUnsafe, NoSection, kernVars
<1>3. SameDisowning /\ SameOwners
    BY <1>1, NoDisowning
    DEF taskUnsafe, NoSection, schedVars, semOnly, Simple, SameOwners
<1>4. \A u \in Tasks : Owned(u)' = Owned(u)
    BY <1>3, OwnedStays
<1>5. \A s \in Sems : ~Disowning(s) /\ ~Disowning(s)'
    BY <1>1, SimpleLoops DEF taskUnsafe, NoSection, schedVars, Simple, Disowning
<1>6. PICK c : c = AfterDrop(safeCount[t]) /\ Plain(c)
    BY PlainSteps
<1>7. /\ \A u \in Tasks : Killers(u)' = Killers(u)
      /\ \A u \in Tasks \ {t} : Unsafe(u)' = Unsafe(u)
      /\ safes'[t] + Unsafe(t)' = (safes[t] + Unsafe(t)) - 1
      /\ safes[t] + Unsafe(t) > 0
      /\ \A u \in Tasks \ {t} : safes'[u] = safes[u]
      /\ \A u \in Tasks, v \in Tasks : Has(u, <<"kill", v>>)' => Has(u, <<"kill", v>>)
      /\ \A v \in Tasks : Has(v, <<"unsafe">>)' => Has(v, <<"unsafe">>)
  <2>1. safes[t] \in Nat
      BY VmxTaskAssumption DEF SemTypes
  <2>2. CASE /\ Free(t) /\ safes[t] > 0
             /\ safes' = [safes EXCEPT ![t] = @ - 1]
             /\ Call(t, AfterDrop(safeCount[t]))
    <3>1. SameHas
        BY <1>6, <2>2, PlainCall, PlainSteps DEF Call, Free
    <3>2. \A u \in Tasks : Unsafe(u)' = Unsafe(u) /\ Killers(u)' = Killers(u)
        BY <1>3, <3>1, UnsafeStays, KillersStay DEF SameHas
    <3>3. Unsafe(t) \in Nat
        BY DEF Unsafe
    <3>4. safes'[t] = safes[t] - 1 /\ \A u \in Tasks \ {t} : safes'[u] = safes[u]
        BY <2>2 DEF SemTypes
    <3> QED BY <2>1, <2>2, <3>1, <3>2, <3>3, <3>4 DEF SameHas
  <2>3. CASE At(t, "unsafe") /\ GoOn(t, AfterDrop(safeCount[t])) /\ UNCHANGED safes
    <3>1. Head(code[t]) \in LastSteps(t) /\ code[t] = <<Head(code[t])>> /\ Tail(code[t]) = <<>>
        BY <2>3, NextStep DEF At, CallInv
    <3>2. Head(code[t]) = <<"unsafe">>
        BY <2>3, <3>1, CodeStays DEF At, LastSteps, CallSteps, Steps, Ops, OpsOn
    <3>3. code' = [code EXCEPT ![t] = c]
      <4>1. AfterDrop(safeCount[t]) \o <<>> = AfterDrop(safeCount[t])
          BY DropSteps
      <4> QED BY <1>6, <2>3, <3>1, <4>1 DEF GoOn
    <3>4. code[t] = <<<<"unsafe">>>>
        BY <3>1, <3>2
    <3>5. \A v : Contains(c, <<"kill", v>>) <=> Contains(code[t], <<"kill", v>>)
      <4>1. \A v : <<"kill", v>> # <<"unsafe">>
          OBVIOUS
      <4>2. PICK b : b = <<<<"unsafe">>>>
          OBVIOUS
      <4>3. \A v : ~Contains(b, <<"kill", v>>)
          BY <4>1, <4>2, StepsOf
      <4> QED BY <1>6, <3>4, <4>2, <4>3 DEF Plain
    <3>6. /\ \A u \in Tasks : \A v : Has(u, <<"kill", v>>)' <=> Has(u, <<"kill", v>>)
          /\ \A u \in Tasks \ {t} : Has(u, <<"unsafe">>)' <=> Has(u, <<"unsafe">>)
          /\ Has(t, <<"unsafe">>)' <=> Contains(c, <<"unsafe">>)
        BY <3>3, <3>5, CallHas
    <3>7. Has(t, <<"unsafe">>) /\ ~Has(t, <<"unsafe">>)'
      <4>1. Contains(code[t], <<"unsafe">>)
          BY <3>4, StepsOf
      <4>2. Has(t, <<"unsafe">>)
          BY <4>1 DEF Has, Contains
      <4> QED BY <1>6, <3>6, <4>2 DEF Plain
    <3>8. Unsafe(t) = 1 /\ Unsafe(t)' = 0
        BY <1>5, <3>7 DEF Unsafe
    <3>9. \A u \in Tasks \ {t} : Unsafe(u)' = Unsafe(u)
        BY <1>3, <3>6, UnsafeStays
    <3>10. \A u \in Tasks : Killers(u)' = Killers(u)
        BY <3>6 DEF Killers
    <3> QED BY <2>1, <2>3, <3>6, <3>7, <3>8, <3>9, <3>10
  <2> QED BY <2>2, <2>3 DEF taskUnsafe
<1>8. KillOK'
    BY <1>2, <1>7, KillsStay DEF DeletionInv
<1>9. Moves(t, -1)
  <2>1. /\ safes[t] + Unsafe(t) \in Nat /\ Reasons(t) \in Nat
        /\ Cardinality(Owned(t)) \in Nat /\ Cardinality(Killers(t)) \in Nat
      BY Sizes, VmxTaskAssumption DEF DeletionInv
  <2>2. Reasons(t) = (safes[t] + Unsafe(t)) + Cardinality(Owned(t)) + Cardinality(Killers(t))
      BY DEF Reasons
  <2>3. Reasons(t)' = (safes'[t] + Unsafe(t)') + Cardinality(Owned(t)) + Cardinality(Killers(t))
      BY <1>4, <1>7 DEF Reasons
  <2>4. Reasons(t)' = Reasons(t) - 1 /\ Reasons(t) > 0
    <3>1. PICK x, y : x = safes[t] + Unsafe(t) /\ y = safes'[t] + Unsafe(t)'
        OBVIOUS
    <3>2. PICK o, k \in Nat : o = Cardinality(Owned(t)) /\ k = Cardinality(Killers(t))
        BY <2>1
    <3>3. x \in Nat /\ x > 0 /\ y = x - 1
      <4>1. x \in Nat
          BY <2>1, <3>1
      <4>2. x > 0
          BY <1>7, <3>1
      <4>3. y = x - 1
          BY <1>7, <3>1
      <4> QED BY <4>1, <4>2, <4>3
    <3>4. Reasons(t) = x + o + k /\ Reasons(t)' = y + o + k
        BY <2>2, <2>3, <3>1, <3>2
    <3> QED BY <3>2, <3>3, <3>4
  <2>5. safeCount[t] \in Nat /\ safeCount[t] > 0
      BY <1>2, <2>4, NoUnderflow, NoOverflow
  <2>6. safeCount'[t] = safeCount[t] - 1
      BY <2>5 DEF taskUnsafe, SemTypes
  <2> QED BY <2>1, <2>4, <2>5, <2>6 DEF Moves
<1>10. \A u \in Tasks \ {t} : safeCount'[u] = safeCount[u]
    BY DEF taskUnsafe, SemTypes
<1> QED BY <1>2, <1>4, <1>7, <1>8, <1>9, <1>10, OneMoves

\* taskDestroy finds nothing that protects the task v, and takes hold of it.
LEMMA SuspendsMoves ==
    ASSUME CountsFit, RunInv, CallInv, DeletionInv, NEW t \in Tasks, DestroySuspends(t)
    PROVE  DeletionInv'
<1> USE DEF RunInv, TypeInv
<1>1. Running(t) /\ todo = <<>>
    BY DEF DestroySuspends, At, Running, SchedInv, SchedBase
<1>2. Alive(t) /\ Ready(t)
    BY <1>1, RunningReady DEF Ready, Alive
<1>3. PICK v \in Tasks \ {t} : v = Arg(t, 2)
  <2>1. Head(code[t]) \in LastSteps(t)
      BY NextStep DEF CallInv, DestroySuspends, At
  <2>2. Arg(t, 2) \in Tasks
      BY CodeStays, StepShape DEF Arg, DestroySuspends, At
  <2> QED BY <2>1, <2>2 DEF LastSteps, Arg, DestroySuspends, At
<1>4. PICK x : x = Head(code[t]) /\ code[t] = <<x>>
    BY NextStep DEF CallInv, DestroySuspends, At
<1>5. x[1] = "destroy" /\ Tail(code[t]) = <<>>
    BY <1>4 DEF DestroySuspends, At
<1>6. Plain(code[t])
  <2>1. x[1] \notin {"kill", "unsafe"}
      BY <1>5
  <2> QED BY <1>4, <2>1, PlainSteps
<1>7. code' = [code EXCEPT ![t] = Locking(v)]
  <2>1. code' = [code EXCEPT ![t] = Locking(v) \o <<>>]
      BY <1>3, <1>5 DEF DestroySuspends, GoOn, Locking
  <2>2. Locking(v) \o <<>> = Locking(v)
      BY DEF Locking
  <2> QED BY <2>1, <2>2
<1>8. /\ \A u \in Tasks : \A w : Has(u, <<"kill", w>>)' <=> (Has(u, <<"kill", w>>) \/ (u = t /\ w = v))
      /\ \A u \in Tasks \ {t} : Has(u, <<"unsafe">>)' <=> Has(u, <<"unsafe">>)
      /\ ~Has(t, <<"unsafe">>) /\ Has(t, <<"unsafe">>)'
      /\ \A w : ~Has(t, <<"kill", w>>)
  <2>1. code'[t] = Locking(v) /\ \A u \in Tasks \ {t} : code'[u] = code[u]
      BY <1>7 DEF CodeTypes
  <2>2. \A w, u \in Tasks \ {t} : /\ Has(u, <<"kill", w>>)' <=> Has(u, <<"kill", w>>)
                                  /\ Has(u, <<"unsafe">>)' <=> Has(u, <<"unsafe">>)
      BY <2>1 DEF Has
  <2>3. /\ \A w : Has(t, <<"kill", w>>)' <=> w = v
        /\ Has(t, <<"unsafe">>)'
    <3>1. PICK c : c = Locking(v)
        OBVIOUS
    <3>2. /\ \A w : Contains(c, <<"kill", w>>) <=> w = v
          /\ Contains(c, <<"unsafe">>)
        BY <3>1, StepsOf
    <3> QED BY <2>1, <3>1, <3>2 DEF Has, Contains
  <2>4. ~Has(t, <<"unsafe">>) /\ \A w : ~Has(t, <<"kill", w>>)
      BY <1>6 DEF Plain, Has, Contains
  <2>5. \A u \in Tasks : \A w : Has(u, <<"kill", w>>)' <=> (Has(u, <<"kill", w>>) \/ (u = t /\ w = v))
    <3>1. ASSUME NEW u \in Tasks, NEW w, u # t
          PROVE  Has(u, <<"kill", w>>)' <=> (Has(u, <<"kill", w>>) \/ (u = t /\ w = v))
        BY <2>1, <3>1 DEF Has
    <3>2. ASSUME NEW u \in Tasks, NEW w, u = t
          PROVE  Has(u, <<"kill", w>>)' <=> (Has(u, <<"kill", w>>) \/ (u = t /\ w = v))
        BY <2>3, <2>4, <3>2
    <3> QED BY <3>1, <3>2
  <2> QED BY <2>2, <2>3, <2>4, <2>5
<1>9. Lives /\ "suspend" \in status'[v]
  <2>1. status' = [status EXCEPT ![v] = status[v] \cup {"suspend"}]
      BY <1>3 DEF DestroySuspends, vmxSuspend
  <2> QED BY <2>1, FlagsLive DEF KernTypes
<1>10. SameDisowning /\ SameOwners /\ \A s \in Sems : ~Disowning(s) /\ ~Disowning(s)'
    BY <1>1, NoDisowning, SimpleLoops
    DEF DestroySuspends, Section, semOnly, Simple, SameOwners, Disowning
<1>11. Alive(v) /\ safeCount[v] = 0
  <2>1. safeCount[v] \in Nat
      BY VmxSemAssumption DEF SemTypes
  <2> QED BY <1>3, <2>1 DEF DestroySuspends, Protected
<1>12. ~Has(v, <<"unsafe">>) /\ Killers(v) = {}
  <2>1. Reasons(v) <= 0
      BY <1>11 DEF DeletionInv, Balance
  <2>2. /\ safes[v] \in Nat /\ Unsafe(v) \in Nat /\ IsFiniteSet(Killers(v))
        /\ Cardinality(Owned(v)) \in Nat /\ Cardinality(Killers(v)) \in Nat
      BY Sizes, VmxTaskAssumption DEF DeletionInv
  <2>3. Unsafe(v) = 0 /\ Cardinality(Killers(v)) = 0
      BY <2>1, <2>2 DEF Reasons
  <2> QED BY <1>10, <2>2, <2>3, FS_EmptySet DEF Unsafe
<1>13. /\ \A u \in Tasks : Owned(u)' = Owned(u)
       /\ \A u \in Tasks \ {v} : Killers(u)' = Killers(u)
       /\ Killers(v)' = {t}
       /\ \A u \in Tasks \ {t} : Unsafe(u)' = Unsafe(u)
       /\ Unsafe(t) = 0 /\ Unsafe(t)' = 1
  <2>1. \A u \in Tasks \ {v} : Killers(u)' = Killers(u)
      BY <1>8 DEF Killers
  <2>2. Killers(v)' = {t}
      BY <1>8, <1>12 DEF Killers
  <2>3. Unsafe(t) = 0 /\ Unsafe(t)' = 1
      BY <1>8, <1>10 DEF Unsafe
  <2>4. \A u \in Tasks \ {t} : Unsafe(u)' = Unsafe(u)
      BY <1>8, <1>10 DEF Unsafe
  <2> QED BY <1>10, <2>1, <2>2, <2>3, <2>4, OwnedStays
<1>14. /\ safeCount'[t] = safeCount[t] + 1 /\ safeCount'[v] = safeCount[v] + 1
       /\ \A u \in Tasks \ {t, v} : safeCount'[u] = safeCount[u]
       /\ safes' = safes
  <2>1. PICK n, m : n = Plus1(safeCount[t]) /\ m = Plus1(safeCount[v])
      OBVIOUS
  <2>2. safeCount' = [safeCount EXCEPT ![t] = n, ![v] = m] /\ safes' = safes
      BY <1>3, <2>1 DEF DestroySuspends
  <2>3. n = safeCount[t] + 1 /\ m = safeCount[v] + 1
      BY <1>2, <1>11, <2>1, NoOverflow
  <2>4. safeCount'[t] = n /\ safeCount'[v] = m
        /\ \A u \in Tasks \ {t, v} : safeCount'[u] = safeCount[u]
      BY <2>2 DEF SemTypes
  <2> QED BY <2>2, <2>3, <2>4
<1>15. \A u \in Tasks : /\ safes[u] \in Nat /\ Unsafe(u) \in Nat
                        /\ Cardinality(Owned(u)) \in Nat /\ Cardinality(Killers(u)) \in Nat
    BY Sizes, VmxTaskAssumption DEF DeletionInv
<1>16. Moves(t, 1)
  <2>1. safes'[t] = safes[t] /\ Killers(t)' = Killers(t) /\ Owned(t)' = Owned(t)
      BY <1>13, <1>14
  <2>2. Reasons(t)' = Reasons(t) + 1
      BY <1>13, <1>15, <2>1 DEF Reasons
  <2> QED BY <1>14, <2>2 DEF Moves
<1>17. Moves(v, 1)
  <2>1. safes'[v] = safes[v] /\ Unsafe(v)' = Unsafe(v) /\ Owned(v)' = Owned(v)
      BY <1>13, <1>14
  <2>2. Cardinality(Killers(v)) = 0 /\ Cardinality(Killers(v)') = 1
      BY <1>12, <1>13, FS_EmptySet, FS_Singleton
  <2>3. Reasons(v)' = Reasons(v) + 1
      BY <1>15, <2>1, <2>2 DEF Reasons
  <2> QED BY <1>14, <2>3 DEF Moves
<1>18. ASSUME NEW u \in Tasks, Alive(u) PROVE \E d \in Int : Moves(u, d)
  <2>1. CASE u \in {t, v}
      BY <1>16, <1>17, <2>1
  <2>2. CASE u \notin {t, v}
      BY <1>13, <1>14, <1>18, <2>2, NoMove
  <2> QED BY <2>1, <2>2
<1>19. KillOK'
  <2> SUFFICES ASSUME NEW w \in Tasks, NEW d \in Tasks, Has(d, <<"kill", w>>)'
               PROVE  /\ Alive(w)'
                      /\ \A e \in Tasks : Has(e, <<"kill", w>>)' => d = e
                      /\ NoResume => "suspend" \in status'[w] /\ ~Has(w, <<"unsafe">>)'
      BY DEF KillOK
  <2>1. CASE w = v
    <3>1. \A e \in Tasks : Has(e, <<"kill", v>>)' => e = t
        BY <1>8, <1>12 DEF Killers
    <3>2. Alive(v)' /\ ~Has(v, <<"unsafe">>)'
        BY <1>8, <1>9, <1>11, <1>12 DEF Lives
    <3> QED BY <1>9, <2>1, <3>1, <3>2
  <2>2. CASE w # v
    <3>1. Has(d, <<"kill", w>>) /\ \A e \in Tasks : Has(e, <<"kill", w>>)' => Has(e, <<"kill", w>>)
        BY <1>8, <2>2
    <3>2. Alive(w)' /\ \A e \in Tasks : Has(e, <<"kill", w>>)' => d = e
        BY <1>9, <3>1 DEF DeletionInv, KillOK, Lives
    <3>3. NoResume => "suspend" \in status'[w] /\ ~Has(w, <<"unsafe">>) /\ w # t
        BY <1>2, <1>9, <3>1 DEF DeletionInv, KillOK, Lives, Ready
    <3> QED BY <1>8, <3>2, <3>3
  <2> QED BY <2>1, <2>2
<1> QED BY <1>9, <1>18, <1>19, MovesKeep

\* taskDestroy makes an end of the task v.
LEMMA KillsMoves ==
    ASSUME CountsFit, RunInv, CallInv, DeletionInv, NEW t \in Tasks, DestroyKills(t)
    PROVE  DeletionInv'
<1> USE DEF RunInv, TypeInv
<1>1. Running(t) /\ todo = <<>>
    BY DEF DestroyKills, At, Running, SchedInv, SchedBase
<1>2. PICK v \in Tasks \ {t} : /\ v = Arg(t, 2) /\ code[t] = Killing(v)
                               /\ Tail(code[t]) = Unlocking
    BY NextStep DEF CallInv, DestroyKills, At, Arg
<1>3. /\ code' = [code EXCEPT ![t] = Unlocking, ![v] = <<>>]
      /\ status' = [status EXCEPT ![v] = {"dead"}] /\ todo' = Flush(v)
      /\ safes' = [safes EXCEPT ![v] = 0]
      /\ UNCHANGED <<semValid, semOwner, safeCount>>
    BY <1>2 DEF DestroyKills, vmxDelete, Section, semOnly
<1>4. /\ code'[t] = Unlocking /\ code'[v] = <<>>
      /\ \A u \in Tasks \ {t, v} : code'[u] = code[u]
    BY <1>3 DEF CodeTypes
<1>5. /\ Has(t, <<"kill", v>>) /\ Has(t, <<"unsafe">>) /\ Has(t, <<"unsafe">>)'
      /\ \A w : (Has(t, <<"kill", w>>) <=> w = v) /\ ~Has(t, <<"kill", w>>)'
  <2>1. PICK b, c : b = Killing(v) /\ c = Unlocking
      OBVIOUS
  <2>2. /\ \A w : Contains(b, <<"kill", w>>) <=> w = v
        /\ Contains(b, <<"unsafe">>)
        /\ \A w : ~Contains(c, <<"kill", w>>)
        /\ Contains(c, <<"unsafe">>)
      BY <2>1, StepsOf
  <2> QED BY <1>2, <1>4, <2>1, <2>2 DEF Has, Contains
<1>6. \A w : ~Has(v, w)'
    BY <1>4 DEF Has
<1>7. \A u \in Tasks \ {t, v} : \A w : Has(u, w)' <=> Has(u, w)
    BY <1>4 DEF Has
<1>8. Alive(v) /\ \A d \in Tasks : Has(d, <<"kill", v>>) => d = t
    BY <1>5 DEF DeletionInv, KillOK
<1>9. \A u \in Tasks \ {v} : (Alive(u)' <=> Alive(u)) /\ status'[u] = status[u]
    BY <1>3 DEF Alive, KernTypes
<1>10. ~Alive(v)'
    BY <1>3 DEF Alive, KernTypes
<1>11. SameDisowning /\ SameOwners
  <2>1. Simple(todo) /\ Simple(todo')
      BY <1>1, <1>3, FlushSimple DEF Simple, PendQs
  <2> QED BY <1>3, <2>1, NoDisowning DEF SameOwners
<1>12. /\ \A u \in Tasks : Owned(u)' = Owned(u)
       /\ \A u \in Tasks \ {v} : Unsafe(u)' = Unsafe(u)
       /\ \A u \in Tasks \ {v} : Killers(u)' = Killers(u) \ {v}
  <2>1. \A u \in Tasks \ {v} : Has(u, <<"unsafe">>)' <=> Has(u, <<"unsafe">>)
      BY <1>5, <1>7
  <2>2. \A u \in Tasks \ {v} : Killers(u)' = Killers(u) \ {v}
      BY <1>5, <1>6, <1>7 DEF Killers
  <2> QED BY <1>11, <2>1, <2>2, OwnedStays, UnsafeStays
<1>13. Dead' = Dead \cup {v} /\ v \notin Dead
    BY <1>8, <1>9, <1>10 DEF Dead
<1>14. NoResume => ~Has(v, <<"unsafe">>)
    BY <1>5 DEF DeletionInv, KillOK
<1>15. ASSUME NEW u \in Tasks, Alive(u)'
       PROVE  Reasons(u)' <= safeCount'[u] /\ safeCount'[u] <= Reasons(u)' + Slack'
  <2>1. u # v /\ Alive(u)
      BY <1>9, <1>10, <1>15
  <2>2. safes'[u] = safes[u] /\ safeCount' = safeCount
      BY <1>3, <2>1 DEF SemTypes
  <2>3. /\ safes[u] \in Nat /\ Unsafe(u) \in Nat /\ IsFiniteSet(Killers(u))
        /\ Cardinality(Owned(u)) \in Nat /\ Cardinality(Killers(u)) \in Nat
        /\ IsFiniteSet(Dead) /\ Cardinality(Dead) \in Nat /\ safeCount[u] \in Nat
      BY <2>1, Sizes, NoOverflow, FS_CardinalityType, VmxTaskAssumption DEF DeletionInv
  <2>4. Reasons(u) <= safeCount[u] /\ safeCount[u] <= Reasons(u) + Slack
      BY <2>1 DEF DeletionInv, Balance
  <2>5. Reasons(u)' = safes[u] + Unsafe(u) + Cardinality(Owned(u)) + Cardinality(Killers(u)')
      BY <1>12, <2>1, <2>2 DEF Reasons
  <2>6. CASE NoResume
    <3>1. v \notin Killers(u)
        BY <1>14, <2>6, KillerCode DEF Killers, CallInv
    <3>2. Killers(u)' = Killers(u)
        BY <1>12, <2>1, <3>1
    <3>3. Slack = 0 /\ Slack' = 0
        BY <2>6 DEF Slack, NoResume
    <3> QED BY <2>2, <2>4, <2>5, <3>2, <3>3 DEF Reasons
  <2>7. CASE ~NoResume
    <3>1. Slack' = Slack + 1 /\ Slack \in Nat
      <4>1. Cardinality(Dead') = Cardinality(Dead) + 1
          BY <1>13, <2>3, FS_AddElement
      <4> QED BY <2>3, <2>7, <4>1 DEF Slack, NoResume
    <3>2. /\ Cardinality(Killers(u)') \in Nat
          /\ Cardinality(Killers(u)') \in {Cardinality(Killers(u)), Cardinality(Killers(u)) - 1}
      <4>1. Cardinality(Killers(u) \ {v}) \in {Cardinality(Killers(u)), Cardinality(Killers(u)) - 1}
          BY <2>3, FS_RemoveElement
      <4>2. IsFiniteSet(Killers(u) \ {v})
          BY <2>3, FS_RemoveElement
      <4> QED BY <1>12, <2>1, <4>1, <4>2, FS_CardinalityType
    <3>3. PICK m, n, o, k, f, c \in Nat :
             /\ m = safes[u] /\ n = Unsafe(u) /\ o = Cardinality(Owned(u))
             /\ k = Cardinality(Killers(u)) /\ f = Slack /\ c = safeCount[u]
        BY <2>3, <3>1
    <3>4. PICK l \in Nat : l = Cardinality(Killers(u)') /\ (l = k \/ l = k - 1)
        BY <3>2, <3>3
    <3>5. Reasons(u) = m + n + o + k /\ Reasons(u)' = m + n + o + l
        BY <2>5, <3>3, <3>4 DEF Reasons
    <3> QED BY <2>2, <2>4, <3>1, <3>3, <3>4, <3>5
  <2> QED BY <2>6, <2>7
<1>16. KillOK'
  <2> SUFFICES ASSUME NEW w \in Tasks, NEW d \in Tasks, Has(d, <<"kill", w>>)'
               PROVE  /\ Alive(w)'
                      /\ \A e \in Tasks : Has(e, <<"kill", w>>)' => d = e
                      /\ NoResume => "suspend" \in status'[w] /\ ~Has(w, <<"unsafe">>)'
      BY DEF KillOK
  <2>1. d \notin {t, v} /\ Has(d, <<"kill", w>>)
      BY <1>5, <1>6, <1>7
  <2>2. w # v
      BY <1>8, <2>1
  <2>3. \A e \in Tasks : Has(e, <<"kill", w>>)' => d = e
      BY <1>5, <1>6, <1>7, <2>1 DEF DeletionInv, KillOK
  <2>4. Alive(w)'
      BY <1>9, <2>1, <2>2 DEF DeletionInv, KillOK
  <2>5. NoResume => "suspend" \in status'[w] /\ ~Has(w, <<"unsafe">>)
      BY <1>9, <2>1, <2>2 DEF DeletionInv, KillOK
  <2>6. Has(w, <<"unsafe">>)' => Has(w, <<"unsafe">>)
      BY <1>5, <1>7, <2>2
  <2> QED BY <2>3, <2>4, <2>5, <2>6
<1> QED BY <1>15, <1>16 DEF DeletionInv, Balance

\* A call of taskLib.
LEMMA TaskCallMoves ==
    ASSUME CountsFit, NoForce, RunInv, CallInv, DeletionInv, TaskCall
    PROVE  DeletionInv'
<1> USE DEF RunInv, TypeInv, KernInv
<1> USE DEF SectionOnly, NoSection, semVars, semOnly, schedVars, Section, Free, At, Running
<1>1. ASSUME NEW t \in Tasks, Running(t) PROVE Alive(t)
    BY <1>1, RunningReady DEF Ready, Alive
<1>2. Simple(<<>>) /\ \A q \in PendQs : Simple(Flush(q))
    BY FlushSimple DEF Simple
<1>3. Tasks \subseteq PendQs
    BY DEF PendQs
<1>4. kpc = "user" => todo = <<>>
    BY DEF SchedInv, SchedBase
<1>5. ASSUME Lives, SameHas, todo = <<>>, Simple(todo'),
             UNCHANGED <<semValid, semOwner, safeCount, safes>>
      PROVE  DeletionInv'
    BY <1>2, <1>5, NoDisowning, QuietKeeps DEF SameOwners
<1>6. ASSUME NEW t \in Tasks, NEW op \in Ops, TaskVerified(t, op) PROVE DeletionInv'
  <2>1. /\ Lives /\ todo = <<>> /\ Simple(todo')
        /\ UNCHANGED <<semValid, semOwner, safeCount, safes>>
      BY <1>2, <1>4, <1>6, SameLives DEF TaskVerified, kernVars
  <2>2. SameHas
      BY <1>6, QuietSteps
  <2> QED BY <1>5, <2>1, <2>2
<1>7. ASSUME NEW t \in Tasks, TaskApplied(t) PROVE DeletionInv'
  <2>1. Head(code[t]) \in CallSteps /\ Head(code[t])[1] \in TaskOps /\ code[t] # <<>>
      BY <1>7, CodeStays DEF TaskApplied
  <2>2. Head(code[t]) \in Ops /\ Head(code[t])[1] \in TaskCalls \cup IsrCalls
      BY <2>1, StepShape DEF CallSteps
  <2>3. /\ Lives /\ todo = <<>> /\ Simple(todo')
        /\ UNCHANGED <<semValid, semOwner, safeCount, safes>>
      BY <1>2, <1>4, <1>7, <2>2, TaskKernelLives DEF TaskApplied
  <2>4. SameHas
      BY <1>7, QuietSteps
  <2> QED BY <1>5, <2>3, <2>4
<1>8. ASSUME NEW t \in Tasks, NEW n, taskDelay(t, n) PROVE DeletionInv'
  <2>1. /\ Lives /\ SameHas /\ todo = <<>> /\ Simple(todo')
        /\ UNCHANGED <<semValid, semOwner, safeCount, safes>>
      BY <1>1, <1>2, <1>4, <1>8, SameLives, DelayLives, CodeHas DEF taskDelay, yield
  <2> QED BY <1>5, <2>1
<1>9. ASSUME NEW t \in Tasks, taskLock(t) \/ taskUnlock(t) PROVE DeletionInv'
  <2>1. /\ Lives /\ todo = <<>> /\ Simple(todo')
        /\ UNCHANGED <<semValid, semOwner, safeCount, safes>>
      BY <1>2, <1>4, <1>9, SameLives DEF taskLock, taskUnlock, kernVars
  <2>2. SameHas
      BY <1>9, QuietSteps
  <2> QED BY <1>5, <2>1, <2>2
<1>10. ASSUME NEW t \in Tasks, FlushSafety(t) PROVE DeletionInv'
  <2>1. /\ Lives /\ todo = <<>> /\ Simple(todo')
        /\ UNCHANGED <<semValid, semOwner, safeCount, safes>>
      BY <1>2, <1>3, <1>4, <1>10, SameLives DEF FlushSafety, kernVars
  <2>2. SameHas
      BY <1>10, QuietSteps
  <2> QED BY <1>5, <2>1, <2>2
<1>11. ASSUME NEW t \in Tasks,
              \/ \E v \in Tasks, f \in BOOLEAN : DestroyCalled(t, v, f)
              \/ DestroyTooLate(t)
       PROVE  DeletionInv'
  <2>1. /\ Lives /\ todo = <<>> /\ Simple(todo')
        /\ UNCHANGED <<semValid, semOwner, safeCount, safes>>
      BY <1>2, <1>4, <1>11, SameLives DEF DestroyCalled, DestroyTooLate, kernVars
  <2>2. SameHas
      BY <1>11, QuietSteps
  <2> QED BY <1>5, <2>1, <2>2
<1>12. ASSUME NEW t \in Tasks, DestroyWaits(t) PROVE DeletionInv'
  <2>1. /\ Lives /\ SameHas /\ todo = <<>> /\ Simple(todo')
        /\ UNCHANGED <<semValid, semOwner, safeCount, safes>>
      BY <1>1, <1>2, <1>4, <1>12, PendPutLives, CodeHas DEF DestroyWaits
  <2> QED BY <1>5, <2>1
<1>13. ASSUME NEW t \in Tasks PROVE ~DestroyForces(t)
  <2> SUFFICES ASSUME DestroyForces(t) PROVE FALSE
      OBVIOUS
  <2>1. Head(code[t]) \in LastSteps(t) /\ Head(code[t])[1] = "destroy" /\ Head(code[t])[3]
      BY NextStep DEF CallInv, DestroyForces, Arg
  <2> QED BY <2>1 DEF LastSteps, NoForce
<1> QED
  BY <1>6, <1>7, <1>8, <1>9, <1>10, <1>11, <1>12, <1>13, SafeMoves, UnsafeMoves,
     SuspendsMoves, KillsMoves DEF TaskCall

-----------------------------------------------------------------------------
(***************************************************************************)
(* The kernel, its jobs, and handlers.                                     *)
(***************************************************************************)
\* The scheduler and the loops.
LEMMA SchedStepMoves ==
    ASSUME RunInv, CallInv, DeletionInv, SchedStep, UNCHANGED <<semVars, safes>>
    PROVE  DeletionInv'
<1> USE DEF RunInv, TypeInv, KernInv, semVars
<1>1. ASSUME Lives, \A s \in Sems : Disowning(s)' <=> Disowning(s),
             todo # <<>> => taskIdCurrent' = taskIdCurrent
      PROVE  DeletionInv'
  <2>1. (\E s \in Sems : Disowning(s)) => todo # <<>>
      BY DEF Disowning, Deletes
  <2>2. SameDisowning
      BY <1>1, <2>1 DEF SameDisowning
  <2> QED BY <1>1, <2>2, QuietKeeps, CodeHas DEF SameOwners
<1>2. ASSUME Lives, UNCHANGED todo, todo # <<>> => taskIdCurrent' = taskIdCurrent
      PROVE  DeletionInv'
    BY <1>1, <1>2 DEF Disowning
<1>3. ASSUME Lives, UNCHANGED taskIdCurrent, Simple(todo), Simple(todo')
      PROVE  DeletionInv'
    BY <1>1, <1>3, SimpleLoops DEF Disowning
<1>4. Simple(<<>>) /\ Simple(TickLoops) /\ Simple(<<<<"slice">>>>)
      /\ \A q \in PendQs : Simple(<<<<"flush", q>>>>)
    BY DEF Simple
<1>5. CASE \/ ExitFromInt \/ ExitToCaller \/ SaveTaskContext
           \/ SwitchTasks \/ Dispatch \/ NoTaskReady \/ WorkDone
  <2>1. todo = <<>> /\ UNCHANGED <<status, todo>>
      BY <1>5 DEF ExitFromInt, ExitToCaller, SaveTaskContext, SwitchTasks,
         Dispatch, NoTaskReady, WorkDone, KernelAt, othersThan, kernVars
  <2> QED BY <1>2, <2>1, SameLives
<1> USE DEF loopVars
<1>6. CASE FlushLoop
  <2>1. PICK q \in PendQs : /\ q = Head(todo)[2] /\ Tail(todo) = <<>>
                            /\ todo = <<<<"flush", q>>>>
      BY <1>6, NextLoop DEF FlushLoop, CallInv
  <2>2. CASE pendQ[q] # <<>>
      BY <1>2, <1>6, <2>1, <2>2, UnpendLives DEF FlushLoop, vmxPendQFlush
  <2>3. CASE pendQ[q] = <<>>
    <3>1. todo' = <<>> /\ UNCHANGED <<status, taskIdCurrent>>
        BY <1>6, <2>1, <2>3 DEF FlushLoop, kernVars
    <3> QED BY <1>3, <1>4, <2>1, <3>1, SameLives
  <2> QED BY <2>2, <2>3
<1>7. CASE TerminateLoop
  <2>1. PICK s \in Sems :
           /\ todo = <<<<"terminate", s>>, <<"disown", s>>>>
           /\ s = Head(todo)[2] /\ Tail(todo) = <<<<"disown", s>>>>
      BY <1>7, NextLoop DEF TerminateLoop, CallInv
  <2>2. CASE pendQ[s] # <<>>
      BY <1>2, <1>7, <2>1, <2>2, UnpendLives DEF TerminateLoop, vmxPendQTerminate, PendQs
  <2>3. CASE pendQ[s] = <<>>
    <3>1. todo' = <<<<"disown", s>>>> /\ UNCHANGED <<status, taskIdCurrent>>
        BY <1>7, <2>1, <2>3 DEF TerminateLoop, kernVars
    <3>2. \A r \in Sems : Disowning(r) <=> r = s
        BY <2>1 DEF Disowning, Deletes
    <3>3. \A r \in Sems : Disowning(r)' <=> r = s
        BY <3>1 DEF Disowning, Deletes
    <3> QED BY <1>1, <3>1, <3>2, <3>3, SameLives
  <2> QED BY <2>2, <2>3
<1>8. CASE ExpireLoop
  <2>1. CASE Expired
      BY <1>2, <1>8, <2>1, ExpireLives DEF ExpireLoop
  <2>2. CASE ~Expired
    <3>1. todo = TickLoops /\ Tail(todo) = <<<<"slice">>>>
        BY <1>8, NextLoop DEF ExpireLoop, CallInv
    <3>2. todo' = <<<<"slice">>>> /\ UNCHANGED <<status, taskIdCurrent>>
        BY <1>8, <2>2, <3>1 DEF ExpireLoop, kernVars
    <3> QED BY <1>3, <1>4, <3>1, <3>2, SameLives
  <2> QED BY <2>1, <2>2
<1>9. CASE RoundRobin
  <2>1. todo = <<<<"slice">>>> /\ Tail(todo) = <<>>
      BY <1>9, NextLoop DEF RoundRobin, CallInv
  <2>2. todo' = <<>> /\ UNCHANGED <<status, taskIdCurrent>>
      BY <1>9, <2>1 DEF RoundRobin, yield, kernVars
  <2> QED BY <1>3, <1>4, <2>1, <2>2, SameLives
<1> QED BY <1>5, <1>6, <1>7, <1>8, <1>9 DEF SchedStep

\* The end of vmxSemDelete: the mutex is no reason any more, and its deleter is
\* safe until it calls taskUnsafe.
LEMMA DisownMoves ==
    ASSUME CountsFit, RunInv, CallInv, DeletionInv, Disown, safes' = safes
    PROVE  DeletionInv'
<1> USE DEF RunInv, TypeInv
<1>1. PICK s \in Sems : /\ todo = <<<<"disown", s>>>> /\ s = Head(todo)[2]
                        /\ Tail(todo) = <<>>
  <2>1. Todo("disown")
      BY DEF Disown
  <2> QED BY <2>1, NextLoop DEF CallInv
<1>2. Disowning(s) /\ \A r \in Sems : Disowning(r) <=> r = s
    BY <1>1 DEF Disowning, Deletes
<1>3. PICK cur \in Tasks : cur = taskIdCurrent
    BY DEF SchedTypes
<1>4. ~semValid[s] /\ code[cur] = <<<<"unsafe">>>>
    BY <1>2, <1>3 DEF CallInv, LoopsOK
<1>5. Alive(cur) /\ Has(cur, <<"unsafe">>)
  <2>1. Contains(code[cur], <<"unsafe">>) /\ code[cur] # <<>>
      BY <1>4, StepsOf
  <2> QED BY <2>1 DEF Has, Contains, CallInv, DeadOK
<1>6. PICK o : o = semOwner[s]
    OBVIOUS
<1>7. PICK owned \in BOOLEAN : owned = (s \in DeleteSafe /\ o # NULL /\ Alive(o))
    OBVIOUS
<1>8. o \in Tasks \cup {NULL}
    BY <1>6 DEF SemTypes
<1>9. PICK less : less = IF owned THEN [safeCount EXCEPT ![o] = Minus1(safeCount[o])]
                                  ELSE safeCount
    OBVIOUS
<1>10. /\ safeCount' = [less EXCEPT ![cur] = Plus1(less[cur])]
       /\ todo' = (IF owned /\ less[o] = 0 THEN Flush(o) ELSE <<>>) \o <<>>
       /\ UNCHANGED <<status, code, semOwner, semValid, taskIdCurrent>>
    BY <1>1, <1>3, <1>6, <1>7, <1>9 DEF Disown, kernVars, loopVars
<1>11. \A r \in Sems : ~Disowning(r)'
  <2>1. todo' = <<>> \/ (o # NULL /\ todo' = Flush(o))
    <3>1. todo' = <<>> \o <<>> \/ (o # NULL /\ todo' = Flush(o) \o <<>>)
        BY <1>7, <1>10
    <3>2. o # NULL => Flush(o) \in Seq(TodoItems)
        BY <1>8, FlushTypes DEF PendQs
    <3> QED BY <3>1, <3>2
  <2>2. Simple(todo')
      BY <1>8, <2>1, FlushSimple DEF Simple, PendQs
  <2> QED BY <2>2, SimpleKeeps
<1>12. Lives /\ SameHas /\ KillOK'
  <2>1. Lives /\ SameHas
      BY <1>10, SameLives, CodeHas
  <2> QED BY <2>1, KillsStay DEF SameHas, DeletionInv
<1>13. \A u \in Tasks : Killers(u)' = Killers(u)
    BY <1>12, KillersStay
<1>14. \A u \in Tasks : Owned(u)' = Owned(u) \ {s}
    BY <1>2, <1>4, <1>10, <1>11, VmxSemAssumption DEF Owned
<1>15. \A u \in Tasks : s \in Owned(u) <=> (s \in DeleteSafe /\ u = o)
    BY <1>2, <1>6 DEF Owned
<1>16. /\ Unsafe(cur) = 0 /\ Unsafe(cur)' = 1
       /\ \A u \in Tasks : u # cur => Unsafe(u)' = Unsafe(u)
  <2>1. Unsafe(cur) = 0
      BY <1>2, <1>3 DEF Unsafe
  <2>2. Unsafe(cur)' = 1
      BY <1>5, <1>11, <1>12 DEF Unsafe, SameHas
  <2>3. \A u \in Tasks : u # cur => Unsafe(u)' = Unsafe(u)
      BY <1>3, <1>10, <1>11, <1>12 DEF Unsafe, SameHas
  <2> QED BY <2>1, <2>2, <2>3
<1>17. less \in [Tasks -> 0..UnsignedMax]
    BY <1>7, <1>8, <1>9, PlusMinusTypes, VmxLibAssumption DEF SemTypes
<1>18. ASSUME NEW u \in Tasks, Alive(u)
       PROVE  \E d \in {0, -1} : /\ less[u] = safeCount[u] + d
                                 /\ Cardinality(Owned(u)') = Cardinality(Owned(u)) + d
  <2>1. IsFiniteSet(Owned(u)) /\ Cardinality(Owned(u)) \in Nat /\ safeCount[u] \in Nat
      BY <1>18, Sizes, NoOverflow DEF DeletionInv
  <2>2. CASE s \in Owned(u)
    <3>1. u = o /\ owned
        BY <1>7, <1>15, <1>18, <2>2, VmxLibAssumption
    <3>2. Cardinality(Owned(u)) > 0
        BY <2>1, <2>2, FS_EmptySet
    <3>3. Reasons(u) > 0
      <4>1. safes[u] \in Nat /\ Unsafe(u) \in Nat /\ Cardinality(Killers(u)) \in Nat
          BY Sizes, VmxTaskAssumption DEF DeletionInv
      <4> QED BY <2>1, <3>2, <4>1 DEF Reasons
    <3>4. less[u] = safeCount[u] - 1
        BY <1>9, <1>18, <3>1, <3>3, NoUnderflow DEF SemTypes
    <3>5. Cardinality(Owned(u)') = Cardinality(Owned(u)) - 1
        BY <1>14, <2>1, <2>2, FS_RemoveElement
    <3> QED BY <2>1, <3>4, <3>5
  <2>3. CASE s \notin Owned(u)
    <3>1. Owned(u)' = Owned(u)
        BY <1>14, <2>3
    <3>2. ~(owned /\ u = o)
        BY <1>7, <1>15, <2>3
    <3>3. less[u] = safeCount[u]
        BY <1>9, <3>2 DEF SemTypes
    <3> QED BY <2>1, <3>1, <3>3
  <2> QED BY <2>2, <2>3
<1>19. ASSUME NEW u \in Tasks, Alive(u) PROVE \E d \in Int : Moves(u, d)
  <2>1. PICK d \in {0, -1} : /\ less[u] = safeCount[u] + d
                             /\ Cardinality(Owned(u)') = Cardinality(Owned(u)) + d
      BY <1>18, <1>19
  <2>2. /\ safes[u] \in Nat /\ Unsafe(u) \in Nat /\ safeCount[u] \in Nat
        /\ Cardinality(Owned(u)) \in Nat /\ Cardinality(Killers(u)) \in Nat
      BY <1>19, Sizes, NoOverflow, VmxTaskAssumption DEF DeletionInv
  <2>3. Killers(u)' = Killers(u) /\ safes'[u] = safes[u]
      BY <1>13
  <2>4. CASE u = cur
    <3>1. Unsafe(u) = 0 /\ Unsafe(u)' = 1
        BY <1>16, <2>4
    <3>2. Reasons(u)' = Reasons(u) + (d + 1)
        BY <2>1, <2>2, <2>3, <3>1 DEF Reasons
    <3>3. safeCount'[u] = Plus1(less[u])
        BY <1>10, <1>17, <2>4
    <3>4. Plus1(less[u]) = safeCount[u] + (d + 1)
      <4>1. CASE d = 0
        <5>1. less[u] = safeCount[u]
            BY <2>1, <2>2, <4>1
        <5>2. Plus1(safeCount[u]) = safeCount[u] + 1
            BY <1>19, NoOverflow
        <5> QED BY <4>1, <5>1, <5>2
      <4>2. CASE d = -1
        <5>1. safeCount[u] \in 0..UnsignedMax /\ less[u] = safeCount[u] - 1
            BY <2>1, <4>2 DEF SemTypes
        <5> QED BY <2>2, <4>2, <5>1, VmxSemAssumption DEF Plus1
      <4> QED BY <4>1, <4>2
    <3>5. Moves(u, d + 1) /\ d + 1 \in Int
        BY <3>2, <3>3, <3>4 DEF Moves
    <3> QED BY <3>5
  <2>5. CASE u # cur
    <3>1. Unsafe(u)' = Unsafe(u) /\ safeCount'[u] = less[u]
        BY <1>10, <1>16, <1>17, <2>5
    <3>2. Reasons(u)' = Reasons(u) + d
        BY <2>1, <2>2, <2>3, <3>1 DEF Reasons
    <3>3. Moves(u, d) /\ d \in Int
        BY <2>1, <3>1, <3>2 DEF Moves
    <3> QED BY <3>3
  <2> QED BY <2>4, <2>5
<1> QED BY <1>12, <1>19, MovesKeep

\* The jobs.
LEMMA RunJobMoves ==
    ASSUME RunInv, CallInv, DeletionInv, RunJob PROVE DeletionInv'
<1> USE DEF RunInv, TypeInv, KernInv, semVars
<1>1. PICK j \in CallJobs : j = Head(workQ)
    BY DEF RunJob, TakeJob, WorkTypes
<1>2. todo = <<>> /\ UNCHANGED <<code, semValid, safeCount, safes>>
    BY DEF RunJob, TakeJob, KernelAt
<1>3. Simple(todo')
  <2>1. Simple(<<>>) /\ Simple(TickLoops) /\ \A q \in PendQs : Simple(Flush(q))
      BY FlushSimple DEF Simple
  <2>2. Sems \subseteq PendQs
      BY DEF PendQs
  <2> QED BY <1>1, <1>2, <2>1, <2>2, CallJobShape DEF RunJob
<1>4. SameDisowning /\ SameHas
    BY <1>2, <1>3, NoDisowning, CodeHas DEF Simple
<1>5. CASE UNCHANGED <<status, semOwner>>
    BY <1>2, <1>4, <1>5, SameLives, QuietKeeps DEF SameOwners
<1>6. CASE j[1] = "give" /\ SemType[j[2]] # "mutex" /\ GiveKernel(j[2])
  <2>1. PICK s \in Sems : s = j[2] /\ s \notin DeleteSafe
      BY <1>1, <1>6, CallJobShape, VmxSemAssumption
  <2>2. PICK o : semOwner' = semOwner \/ semOwner' = [semOwner EXCEPT ![s] = o]
      BY <1>6, <2>1 DEF GiveKernel
  <2>3. SameOwners
      BY <2>1, <2>2, VmxSemAssumption DEF SameOwners, SemTypes
  <2>4. Lives
      BY <1>6, <2>1, GiveLives
  <2> QED BY <1>2, <1>4, <2>3, <2>4, QuietKeeps
<1>7. CASE j[1] \in TaskOps /\ TaskKernel(j) /\ UNCHANGED semOwner
  <2>1. Lives
      BY <1>7, TaskKernelLives, CallJobShape DEF CallJobs
  <2> QED BY <1>2, <1>4, <1>7, <2>1, QuietKeeps DEF SameOwners
<1> QED BY <1>1, <1>5, <1>6, <1>7 DEF RunJob, advance, kernVars

\* Handlers.
LEMMA InterruptMoves ==
    ASSUME RunInv, CallInv, DeletionInv, Interrupt PROVE DeletionInv'
<1> USE DEF RunInv, TypeInv, KernInv, semVars
<1>1. UNCHANGED <<code, semValid, semOwner, safeCount, safes>>
    BY DEF Interrupt, HandlerStarts, HandlerEnds, Tick, TaskFromHandler, Post
<1>2. Lives
  <2>1. ASSUME NEW op \in Ops, op[1] \in IsrCalls, TaskFromHandler(op) PROVE Lives
      BY <2>1, TaskKernelLives DEF TaskFromHandler
  <2> QED BY <2>1, SameLives DEF Interrupt, HandlerStarts, HandlerEnds, IntEnt, IntExit,
             Tick, advance, Post, kernVars
<1>3. todo = <<>> /\ todo' \in {<<>>, TickLoops}
    BY DEF Interrupt, HandlerStarts, HandlerEnds, IntEnt, IntExit, Tick, InHandler, Section,
       TaskFromHandler, Post, CanPost, SchedInv, SchedBase
<1>4. SameDisowning /\ SameHas
    BY <1>1, <1>3, NoDisowning, CodeHas DEF Simple
<1> QED BY <1>1, <1>2, <1>4, QuietKeeps DEF SameOwners

\* No task has a reason not to be deleted at first.
LEMMA InitMoves == CountsFit /\ Init => DeletionInv
<1> SUFFICES ASSUME CountsFit, Init PROVE DeletionInv
    OBVIOUS
<1>1. \A t \in Tasks : \A x : ~Has(t, x)
    BY DEF Init, Has
<1>2. KillOK
    BY <1>1 DEF KillOK
<1>3. ASSUME NEW t \in Tasks PROVE Reasons(t) = 0
  <2>1. Owned(t) = {}
      BY VmxSemAssumption, VmxLibAssumption DEF Owned, Init
  <2>2. Killers(t) = {} /\ Unsafe(t) = 0 /\ safes[t] = 0
      BY <1>1 DEF Killers, Unsafe, Init
  <2> QED BY <2>1, <2>2, FS_EmptySet DEF Reasons
<1>4. Slack = 0
  <2>1. Dead = {}
      BY DEF Dead, Init, Alive
  <2> QED BY <2>1, FS_EmptySet DEF Slack
<1>5. \A t \in Tasks : safeCount[t] = 0
    BY DEF Init
<1> QED BY <1>2, <1>3, <1>4, <1>5 DEF DeletionInv, Balance

\* Every step.
LEMMA NextMoves ==
    ASSUME CountsFit, NoForce, RunInv, CallInv, DeletionInv, [Next]_vars
    PROVE  DeletionInv'
<1>1. CASE UNCHANGED vars
  <2>1. UNCHANGED <<status, code, todo, semValid, semOwner, taskIdCurrent, safeCount, safes>>
      BY <1>1 DEF vars, kernVars, schedVars, semVars
  <2>2. SameDisowning
      BY <2>1 DEF SameDisowning, Disowning
  <2> QED BY <2>1, <2>2, SameLives, CodeHas, QuietKeeps DEF SameOwners
<1>2. CASE Kernel
    BY <1>2, SchedStepMoves, DisownMoves, RunJobMoves DEF Kernel
<1> QED BY <1>1, <1>2, SemCallMoves, TaskCallMoves, InterruptMoves DEF Next

-----------------------------------------------------------------------------
(***************************************************************************)
(* What taskDestroy promises.                                              *)
(***************************************************************************)
\* Calls in progress and dead tasks are what they should be.
THEOREM CallsInductive == ASSUME NoUndelay PROVE Spec => []CallInv
<1>1. Init => CallInv
    BY InitShapes
<1>2. RunInv /\ CallInv /\ [Next]_vars => CallInv'
    BY NextShapes
<1> QED BY <1>1, <1>2, RunsInductive, PTL DEF Spec

\* The reasons not to delete a task are counted, and one task deletes another.
THEOREM DeletionInductive ==
    ASSUME NoUndelay, NoForce, CountsFit PROVE Spec => []DeletionInv
<1>1. Init => DeletionInv
    BY InitMoves
<1>2. RunInv /\ CallInv /\ DeletionInv /\ [Next]_vars => DeletionInv'
    BY NextMoves
<1> QED BY <1>1, <1>2, RunsInductive, CallsInductive, PTL DEF Spec

\* However many tasks call taskDestroy for one victim, and in whatever order they
\* wait in its safety queue, are woken and look at its safeCount again: one of
\* them gets to delete it, and nobody does so a second time.
THEOREM OneDeleter ==
    ASSUME NoUndelay, NoForce, CountsFit PROVE Spec => []OneKiller
<1>1. RunInv /\ DeletionInv => OneKiller
  <2> SUFFICES ASSUME RunInv, DeletionInv, NEW v \in Tasks
               PROVE  /\ Count(LAMBDA d : Has(d, <<"kill", v>>), Tasks) <= 1
                      /\ ~Alive(v) => \A d \in Tasks : ~Has(d, <<"kill", v>>)
      BY DEF OneKiller
  <2>1. Cardinality(Killers(v)) <= 1
      BY Sizes DEF RunInv, TypeInv, DeletionInv
  <2>2. Count(LAMBDA d : Has(d, <<"kill", v>>), Tasks) = Cardinality(Killers(v))
      BY DEF Count, Killers
  <2> QED BY <2>1, <2>2 DEF DeletionInv, KillOK
<1> QED BY <1>1, RunsInductive, DeletionInductive, PTL

\* safeCount, which semMTake, semMGive, semDestroy, taskSafe, taskUnsafe and
\* taskDestroy all change, is the number of reasons there are not to delete the
\* task, at every step but the end of vmxSemDelete.  Without taskResume: a task
\* that is resumed while it is deleted can be deleting another one itself.
THEOREM SafeCountsRight ==
    ASSUME NoUndelay, NoForce, NoResume, CountsFit
    PROVE  Spec => []SafeCountBalanced
<1>1. RunInv /\ CallInv /\ DeletionInv => SafeCountBalanced
  <2> SUFFICES ASSUME RunInv, CallInv, DeletionInv,
                      \A i \in DOMAIN todo : todo[i][1] # "disown",
                      NEW t \in Tasks, Alive(t)
               PROVE  safeCount[t] =
                        safes[t]
                        + (IF Has(t, <<"unsafe">>) THEN 1 ELSE 0)
                        + Count(LAMBDA s : semValid[s] /\ semOwner[s] = t, DeleteSafe)
                        + Count(LAMBDA d : Has(d, <<"kill", t>>), Tasks)
      BY DEF SafeCountBalanced
  <2>1. \A s \in Sems : ~Disowning(s)
    <3> SUFFICES ASSUME NEW s \in Sems, Disowning(s) PROVE FALSE
        OBVIOUS
    <3>1. CASE todo = <<<<"terminate", s>>, <<"disown", s>>>>
      <4>1. 2 \in DOMAIN todo /\ todo[2] = <<"disown", s>>
          BY <3>1
      <4> QED BY <4>1
    <3>2. CASE todo = <<<<"disown", s>>>>
      <4>1. 1 \in DOMAIN todo /\ todo[1] = <<"disown", s>>
          BY <3>2
      <4> QED BY <4>1
    <3> QED BY <3>1, <3>2 DEF Disowning, Deletes
  <2>2. Owned(t) = {s \in DeleteSafe : semValid[s] /\ semOwner[s] = t}
      BY <2>1, VmxSemAssumption DEF Owned
  <2>3. Count(LAMBDA s : semValid[s] /\ semOwner[s] = t, DeleteSafe) = Cardinality(Owned(t))
      BY <2>2 DEF Count
  <2>4. Count(LAMBDA d : Has(d, <<"kill", t>>), Tasks) = Cardinality(Killers(t))
      BY DEF Count, Killers
  <2>5. Unsafe(t) = IF Has(t, <<"unsafe">>) THEN 1 ELSE 0
      BY <2>1 DEF Unsafe
  <2>6. safeCount[t] = Reasons(t)
    <3>1. Slack = 0
        BY DEF Slack
    <3>2. Reasons(t) \in Nat /\ safeCount[t] \in Nat
        BY Sizes, NoOverflow DEF RunInv, TypeInv, DeletionInv
    <3> QED BY <3>1, <3>2 DEF DeletionInv, Balance
  <2> QED BY <2>3, <2>4, <2>5, <2>6 DEF Reasons
<1> QED BY <1>1, RunsInductive, CallsInductive, DeletionInductive, PTL

-----------------------------------------------------------------------------
(***************************************************************************)
(* Who waits to delete a task.                                             *)
(***************************************************************************)
\* taskDestroy has a reason to wait: the task is safe, or has preemption off, or
\* is about to wake those who wait.
Sheltered(v) ==
    Alive(v) /\ (safeCount[v] > 0 \/ lockCount[v] > 0 \/ Has(v, <<"flushSafety">>))

\* The loop that wakes those who wait is under way.
Woken(v) == todo = <<<<"flush", v>>>>

ReasonInv == \A v \in Tasks : pendQ[v] # <<>> => Woken(v) \/ Sheltered(v)

\* Nobody begins to wait for a task nobody waits for.
NoNewDeleter == \A v \in Tasks : pendQ[v] = <<>> => pendQ'[v] = <<>>

\* If queues only shrink, an empty one stays empty.
LEMMA ShrinkNoDeleter == ASSUME KernTypes', QueuesShrink PROVE NoNewDeleter
<1> SUFFICES ASSUME NEW v \in Tasks, pendQ[v] = <<>> PROVE pendQ'[v] = <<>>
    BY DEF NoNewDeleter
<1>1. PICK r \in Seq(Tasks) : r = pendQ'[v]
    BY DEF KernTypes, PendQs
<1>2. Elements(r) = {}
  <2>1. Elements(<<>>) = {}
      BY DEF Elements
  <2> QED BY <1>1, <2>1 DEF QueuesShrink, PendQs
<1>3. r # <<>> => r[1] \in Elements(r)
    BY QueueElements
<1> QED BY <1>1, <1>2, <1>3

\* A step that leaves a task unsheltered wakes those who wait, if there are any.
LEMMA ReasonsStay ==
    ASSUME ReasonInv, NoNewDeleter,
           \A v \in Tasks : pendQ'[v] # <<>> =>
              /\ Woken(v) => Woken(v)'
              /\ Sheltered(v) => Woken(v)' \/ Sheltered(v)'
    PROVE  ReasonInv'
BY DEF ReasonInv, NoNewDeleter

\* A step with kernelState FALSE that takes away no shelter.
LEMMA ShelterStays ==
    ASSUME ReasonInv, NoNewDeleter, Lives, todo = <<>>,
           \A v \in Tasks : /\ Alive(v) /\ safeCount[v] > 0 => safeCount'[v] > 0
                            /\ lockCount[v] > 0 => lockCount'[v] > 0
                            /\ Has(v, <<"flushSafety">>) => Has(v, <<"flushSafety">>)'
    PROVE  ReasonInv'
<1>1. \A v \in Tasks : ~Woken(v)
    BY DEF Woken
<1>2. \A v \in Tasks : Sheltered(v) => Sheltered(v)'
    BY DEF Sheltered, Lives
<1> QED BY <1>1, <1>2, ReasonsStay

\* A call that has got to another step of its own is not about to wake.
LEMMA NotWaking ==
    ASSUME CodeOK, CodeTypes, NEW t \in Tasks,
           code[t] = <<>> \/ Head(code[t])[1] # "flushSafety"
    PROVE  ~Has(t, <<"flushSafety">>)
<1> SUFFICES ASSUME code[t] # <<>>, NEW i \in DOMAIN code[t], code[t][i] = <<"flushSafety">>
             PROVE  FALSE
    BY DEF Has
<1>1. CASE \E x : code[t] = <<x>> /\ x = Head(code[t])
    BY <1>1
<1>2. CASE \E v : code[t] = Locking(v)
    BY <1>2 DEF Locking
<1>3. CASE \E v : code[t] = Killing(v)
    BY <1>3 DEF Killing
<1>4. CASE code[t] = Unlocking
    BY <1>4 DEF Unlocking
<1> QED BY <1>1, <1>2, <1>3, <1>4, NextStep

\* ... so a task that gets further takes away no shelter by that.
LEMMA WakingStays ==
    ASSUME CodeOK, CodeTypes, NEW t \in Tasks, NEW c, code' = [code EXCEPT ![t] = c],
           code[t] = <<>> \/ Head(code[t])[1] # "flushSafety"
    PROVE  \A v \in Tasks : Has(v, <<"flushSafety">>) => Has(v, <<"flushSafety">>)'
<1>1. \A v \in Tasks : v # t => code'[v] = code[v]
    BY DEF CodeTypes
<1> QED BY <1>1, NotWaking DEF Has

\* The calls of semBLib, semCLib, semMLib and semLib.
LEMMA SemCallReasons ==
    ASSUME CountsFit, RunInv, KernTypes', CallInv, DeletionInv, ReasonInv, SemCall
    PROVE  ReasonInv'
<1> USE DEF RunInv, TypeInv, KernInv
<1> USE DEF SectionOnly, NoSection, semVars, schedVars, Section, Free, At, Running
<1>1. ASSUME NEW t \in Tasks, Running(t) PROVE Alive(t)
    BY <1>1, RunningReady DEF Ready, Alive
<1>2. kpc = "user" => todo = <<>>
    BY DEF SchedInv, SchedBase
<1>3. ASSUME Lives, NoNewDeleter, todo = <<>>, UNCHANGED <<safeCount, lockCount, code>>
      PROVE  ReasonInv'
    BY <1>3, ShelterStays DEF Has
<1>4. ASSUME NEW t \in Tasks, NEW s \in Sems,
             TakeAgain(t, s) \/ TakeNoWait(t, s) \/ GiveRecurse(t, s)
      PROVE  ReasonInv'
  <2>1. /\ UNCHANGED <<code, status, pendQ, safeCount, lockCount>> /\ todo = <<>>
      BY <1>2, <1>4 DEF TakeAgain, TakeNoWait, GiveRecurse, kernVars
  <2> QED BY <1>3, <2>1, SameLives DEF NoNewDeleter
<1>5. ASSUME NEW t \in Tasks, NEW s \in Sems, TakeFull(t, s) PROVE ReasonInv'
  <2>1. /\ UNCHANGED <<code, status, pendQ, lockCount>> /\ todo = <<>> /\ Alive(t)
        /\ \/ safeCount' = safeCount
           \/ safeCount' = [safeCount EXCEPT ![t] = Plus1(safeCount[t])]
      BY <1>1, <1>2, <1>5 DEF TakeFull, kernVars
  <2>2. Plus1(safeCount[t]) > 0
      BY <2>1, NoOverflow
  <2>3. \A v \in Tasks : safeCount[v] > 0 => safeCount'[v] > 0
      BY <2>1, <2>2 DEF SemTypes
  <2> QED BY <2>1, <2>3, SameLives, ShelterStays DEF NoNewDeleter, Has
<1>6. ASSUME NEW t \in Tasks, NEW s \in Sems, NEW n, TakeWait(t, s, n) PROVE ReasonInv'
  <2>1. Lives
      BY <1>1, <1>6, PendPutLives DEF TakeWait
  <2>2. NoNewDeleter
    <3>1. s \notin Tasks
        BY VmxLibAssumption
    <3> QED BY <1>6, <3>1 DEF TakeWait, vmxPendQPut, KernTypes, NoNewDeleter
  <2>3. /\ code' = [code EXCEPT ![t] = <<<<"taken", s>>>>] /\ code[t] = <<>> /\ todo = <<>>
        /\ UNCHANGED <<safeCount, lockCount>>
      BY <1>2, <1>6 DEF TakeWait
  <2>4. \A v \in Tasks : Has(v, <<"flushSafety">>) => Has(v, <<"flushSafety">>)'
      BY <2>3, WakingStays DEF CallInv
  <2> QED BY <2>1, <2>2, <2>3, <2>4, ShelterStays
<1>7. ASSUME NEW t \in Tasks, TakeReturns(t) PROVE ReasonInv'
  <2>1. /\ Lives /\ NoNewDeleter /\ todo = <<>> /\ UNCHANGED <<safeCount, lockCount>>
      BY <1>2, <1>7, SameLives DEF TakeReturns, NoNewDeleter
  <2>2. \A v \in Tasks : Has(v, <<"flushSafety">>) => Has(v, <<"flushSafety">>)'
      BY <1>7, WakingStays DEF CallInv, TakeReturns
  <2> QED BY <2>1, <2>2, ShelterStays
<1>8. ASSUME NEW t \in Tasks, NEW s \in Sems, GiveMutex(t, s) PROVE ReasonInv'
  <2>1. PICK next : next = QFirst(pendQ[s], NULL)
      OBVIOUS
  <2>2. pendQ[s] \in Seq(Tasks) /\ s \in PendQs
      BY DEF KernTypes, PendQs
  <2>3. next # NULL => pendQ[s] # <<>>
      BY <2>1, <2>2 DEF QFirst
  <2>4. Lives /\ NoNewDeleter
    <3>1. IF next = NULL THEN UNCHANGED kernVars ELSE vmxPendQGet(s)
        BY <1>8, <2>1 DEF GiveMutex
    <3>2. CASE next = NULL
        BY <3>1, <3>2, SameLives DEF kernVars, NoNewDeleter
    <3>3. CASE next # NULL
        BY <2>2, <2>3, <3>1, <3>3, UnpendLives, UnpendShrink, ShrinkNoDeleter DEF vmxPendQGet
    <3> QED BY <3>2, <3>3
  <2>5. Ready(t) /\ todo = <<>> /\ UNCHANGED <<code, lockCount>>
      BY <1>2, <1>8, RunningReady DEF GiveMutex
  <2>6. next # NULL => next \in Tasks /\ next # t /\ Alive(next)
    <3>1. next # NULL => next \in Tasks /\ next \in Elements(pendQ[s])
        BY <2>1, <2>2, TailQueue DEF QFirst, PendOK
    <3>2. next # NULL => "pend" \in status[next]
        BY <2>2, <3>1 DEF PendOK
    <3> QED BY <2>5, <3>1, <3>2 DEF Ready, CallInv, DeadOK
  <2>7. PICK less : less = IF s \in DeleteSafe
                           THEN [safeCount EXCEPT ![t] = Minus1(safeCount[t])] ELSE safeCount
      OBVIOUS
  <2>8. /\ safeCount' = IF s \in DeleteSafe /\ next # NULL
                        THEN [less EXCEPT ![next] = Plus1(less[next])] ELSE less
        /\ LET loops == IF s \in DeleteSafe /\ less[t] = 0 THEN Flush(t) ELSE <<>>
           IN  IF next = NULL /\ loops = <<>> THEN todo' = todo ELSE todo' = loops
      BY <1>8, <2>1, <2>7 DEF GiveMutex
  <2>9. less \in [Tasks -> 0..UnsignedMax]
      BY <2>7, PlusMinusTypes DEF SemTypes
  <2>10. ASSUME NEW v \in Tasks, pendQ'[v] # <<>>, Sheltered(v)
         PROVE  Woken(v)' \/ Sheltered(v)'
    <3>1. /\ Alive(v)' /\ lockCount'[v] = lockCount[v]
          /\ Has(v, <<"flushSafety">>)' <=> Has(v, <<"flushSafety">>)
        BY <2>4, <2>5, <2>10 DEF Lives, Sheltered, Has
    <3>2. CASE s \in DeleteSafe /\ v = t /\ less[t] = 0
      <4>1. Flush(t) = <<<<"flush", t>>>>
          BY <2>4, <2>10, <3>2 DEF Flush, NoNewDeleter
      <4> QED BY <2>8, <3>2, <4>1 DEF Woken
    <3>3. CASE ~(s \in DeleteSafe /\ v = t /\ less[t] = 0)
      <4>1. safeCount[v] > 0 => less[v] > 0
          BY <2>7, <2>9, <3>3 DEF SemTypes
      <4>2. v = next /\ next # NULL => less[v] = safeCount[v]
          BY <2>6, <2>7 DEF SemTypes
      <4>3. v = next /\ next # NULL => Plus1(safeCount[v]) > 0
          BY <2>6, NoOverflow
      <4>4. safeCount[v] > 0 => safeCount'[v] > 0
          BY <2>6, <2>8, <2>9, <4>1, <4>2, <4>3
      <4> QED BY <2>10, <3>1, <4>4 DEF Sheltered
    <3> QED BY <3>2, <3>3
  <2>11. \A v \in Tasks : ~Woken(v)
      BY <2>5 DEF Woken
  <2> QED BY <2>4, <2>10, <2>11, ReasonsStay
<1>9. ASSUME NEW t \in Tasks, NEW s \in Sems, SemDelete(t, s) PROVE ReasonInv'
  <2>1. /\ Lives /\ NoNewDeleter /\ todo = <<>> /\ UNCHANGED <<safeCount, lockCount>>
        /\ code[t] = <<>> /\ code' = [code EXCEPT ![t] = <<<<"unsafe">>>>]
      BY <1>2, <1>9, SameLives DEF SemDelete, kernVars, NoNewDeleter
  <2>2. \A v \in Tasks : Has(v, <<"flushSafety">>) => Has(v, <<"flushSafety">>)'
      BY <2>1, WakingStays DEF CallInv
  <2> QED BY <2>1, <2>2, ShelterStays
<1>10. ASSUME NEW s \in Sems, Give(s) PROVE ReasonInv'
  <2>1. Lives /\ NoNewDeleter /\ UNCHANGED <<safeCount, lockCount, code>>
      BY <1>10, GiveLives, GiveShrink, ShrinkNoDeleter DEF Give
  <2>2. todo = <<>>
      BY <1>2, <1>10 DEF Give, Caller, InHandler
  <2> QED BY <1>3, <2>1, <2>2
<1>11. ASSUME NEW s \in Sems, SemFlush(s) PROVE ReasonInv'
  <2>1. Lives /\ NoNewDeleter /\ UNCHANGED <<safeCount, lockCount, code>>
      BY <1>11, SameLives DEF SemFlush, kernVars, NoNewDeleter
  <2>2. todo = <<>>
      BY <1>2, <1>11 DEF SemFlush, Caller, InHandler
  <2> QED BY <1>3, <2>1, <2>2
<1> QED
  BY <1>4, <1>5, <1>6, <1>7, <1>8, <1>9, <1>10, <1>11 DEF SemCall

\* A count that gets to zero puts the waking before the rest of the call.
LEMMA DropWakes ==
    ASSUME CodeTypes, NEW t \in Tasks, NEW n \in Nat, NEW m, NEW rest \in Seq(Steps), n > 0,
           m = (IF n > 0 THEN n - 1 ELSE 0),
           code' = [code EXCEPT ![t] = AfterDrop(n) \o rest]
    PROVE  m > 0 \/ Has(t, <<"flushSafety">>)'
<1>1. CASE n = 1
  <2>1. PICK f : f = <<<<"flushSafety">>>>
      OBVIOUS
  <2>2. f \in Seq({<<"flushSafety">>} \cup Steps) /\ Len(f) = 1 /\ f[1] = <<"flushSafety">>
      BY <2>1
  <2>3. PICK c : c = f \o rest
      OBVIOUS
  <2>4. rest \in Seq({<<"flushSafety">>} \cup Steps)
    <3>1. Steps \subseteq {<<"flushSafety">>} \cup Steps
        OBVIOUS
    <3> QED BY <3>1
  <2>5. 1 \in DOMAIN c /\ c[1] = <<"flushSafety">>
      BY <2>2, <2>3, <2>4, ConcatProperties
  <2>6. code'[t] = c
      BY <1>1, <2>1, <2>3 DEF AfterDrop, CodeTypes
  <2> QED BY <2>5, <2>6 DEF Has
<1>2. CASE n # 1
    BY <1>2
<1> QED BY <1>1, <1>2

\* The calls of taskLib.
LEMMA TaskCallReasons ==
    ASSUME CountsFit, NoForce, RunInv, KernTypes', CallInv, DeletionInv, ReasonInv, TaskCall
    PROVE  ReasonInv'
<1> USE DEF RunInv, TypeInv, KernInv
<1> USE DEF SectionOnly, NoSection, semVars, semOnly, schedVars, Section, Free, At, Running
<1>1. ASSUME NEW t \in Tasks, Running(t) PROVE Alive(t)
    BY <1>1, RunningReady DEF Ready, Alive
<1>2. kpc = "user" => todo = <<>>
    BY DEF SchedInv, SchedBase
<1>3. ASSUME Lives, NoNewDeleter, todo = <<>>, UNCHANGED <<safeCount, lockCount>>,
             NEW t \in Tasks, NEW c, code' = [code EXCEPT ![t] = c],
             code[t] = <<>> \/ Head(code[t])[1] # "flushSafety"
      PROVE  ReasonInv'
  <2>1. \A v \in Tasks : Has(v, <<"flushSafety">>) => Has(v, <<"flushSafety">>)'
      BY <1>3, WakingStays DEF CallInv
  <2> QED BY <1>3, <2>1, ShelterStays
<1>4. ASSUME Lives, NoNewDeleter, todo = <<>>, UNCHANGED <<safeCount, lockCount, code>>
      PROVE  ReasonInv'
    BY <1>4, ShelterStays DEF Has
<1>5. ASSUME NEW t \in Tasks, NEW op \in Ops, TaskVerified(t, op) PROVE ReasonInv'
    BY <1>2, <1>3, <1>5, SameLives DEF TaskVerified, Call, kernVars, NoNewDeleter
<1>6. ASSUME NEW t \in Tasks, TaskApplied(t) PROVE ReasonInv'
  <2>1. Head(code[t]) \in CallSteps /\ Head(code[t])[1] \in TaskOps /\ code[t] # <<>>
      BY <1>6, CodeStays DEF TaskApplied
  <2>2. Head(code[t]) \in Ops /\ Head(code[t])[1] \in TaskCalls \cup IsrCalls
      BY <2>1, StepShape DEF CallSteps
  <2>3. Lives /\ NoNewDeleter
      BY <1>6, <2>2, TaskKernelLives, TaskKernelShrink, ShrinkNoDeleter DEF TaskApplied
  <2>4. Head(code[t])[1] # "flushSafety"
      BY <2>1 DEF TaskOps
  <2> QED BY <1>2, <1>3, <1>6, <2>3, <2>4 DEF TaskApplied, GoOn
<1>7. ASSUME NEW t \in Tasks, NEW n, taskDelay(t, n) PROVE ReasonInv'
  <2>1. Lives /\ NoNewDeleter
      BY <1>1, <1>7, SameLives, DelayLives DEF taskDelay, yield, vmxDelay, NoNewDeleter
  <2> QED BY <1>2, <1>4, <1>7, <2>1 DEF taskDelay
<1>8. ASSUME NEW t \in Tasks, taskLock(t) PROVE ReasonInv'
  <2>1. /\ Lives /\ NoNewDeleter /\ todo = <<>> /\ safeCount' = safeCount
        /\ lockCount' = [lockCount EXCEPT ![t] = lockCount[t] + 1]
      BY <1>2, <1>8, SameLives DEF taskLock, kernVars, NoNewDeleter
  <2>2. \A v \in Tasks : lockCount[v] > 0 => lockCount'[v] > 0
      BY <2>1 DEF SchedTypes
  <2>3. \A v \in Tasks : Has(v, <<"flushSafety">>) => Has(v, <<"flushSafety">>)'
    <3>1. CASE UNCHANGED code
        BY <3>1 DEF Has
    <3>2. CASE At(t, "lock") /\ GoOn(t, <<>>)
        BY <3>2, WakingStays DEF GoOn, CallInv
    <3> QED BY <1>8, <3>1, <3>2 DEF taskLock
  <2> QED BY <2>1, <2>2, <2>3, ShelterStays
<1>9. ASSUME NEW t \in Tasks, Head(code[t])[1] # "flushSafety" \/ code[t] = <<>>,
             NEW n \in Nat,
             \/ Call(t, AfterDrop(n))
             \/ code[t] # <<>> /\ GoOn(t, AfterDrop(n))
      PROVE  /\ n > 0 => n - 1 > 0 \/ Has(t, <<"flushSafety">>)'
             /\ \A v \in Tasks : Has(v, <<"flushSafety">>) => Has(v, <<"flushSafety">>)'
  <2>1. PICK rest \in Seq(Steps) : code' = [code EXCEPT ![t] = AfterDrop(n) \o rest]
    <3>1. CASE Call(t, AfterDrop(n))
      <4>1. AfterDrop(n) \o <<>> = AfterDrop(n) /\ <<>> \in Seq(Steps)
          BY DropSteps
      <4> QED BY <3>1, <4>1 DEF Call
    <3>2. CASE code[t] # <<>> /\ GoOn(t, AfterDrop(n))
      <4>1. Tail(code[t]) \in Seq(Steps)
        <5>1. code[t] \in Seq(CallSteps) /\ CallSteps \subseteq Steps
            BY DEF CodeTypes, CallSteps
        <5> QED BY <3>2, <5>1
      <4> QED BY <3>2, <4>1 DEF GoOn
    <3> QED BY <1>9, <3>1, <3>2
  <2>2. n > 0 => n - 1 > 0 \/ Has(t, <<"flushSafety">>)'
      BY <2>1, DropWakes
  <2>3. \A v \in Tasks : Has(v, <<"flushSafety">>) => Has(v, <<"flushSafety">>)'
      BY <1>9, <2>1, WakingStays DEF CallInv
  <2> QED BY <2>2, <2>3
<1>10. ASSUME Lives, NoNewDeleter, todo = <<>>, NEW t \in Tasks,
              \A v \in Tasks \ {t} : lockCount'[v] = lockCount[v] /\ safeCount'[v] = safeCount[v],
              safeCount[t] > 0 => safeCount'[t] > 0 \/ Has(t, <<"flushSafety">>)',
              lockCount[t] > 0 => lockCount'[t] > 0 \/ Has(t, <<"flushSafety">>)',
              \A v \in Tasks : Has(v, <<"flushSafety">>) => Has(v, <<"flushSafety">>)'
       PROVE  ReasonInv'
  <2>1. \A v \in Tasks : Sheltered(v) => Sheltered(v)'
      BY <1>10 DEF Sheltered, Lives
  <2>2. \A v \in Tasks : ~Woken(v)
      BY <1>10 DEF Woken
  <2> QED BY <1>10, <2>1, <2>2, ReasonsStay
<1>11. ASSUME NEW t \in Tasks, taskUnlock(t) PROVE ReasonInv'
  <2>1. /\ Lives /\ NoNewDeleter /\ todo = <<>> /\ safeCount' = safeCount
        /\ lockCount' = [lockCount EXCEPT ![t] = IF lockCount[t] > 0 THEN lockCount[t] - 1 ELSE 0]
      BY <1>2, <1>11, SameLives DEF taskUnlock, kernVars, NoNewDeleter
  <2>2. lockCount[t] \in Nat
      BY DEF SchedTypes
  <2>3. /\ lockCount[t] > 0 => lockCount[t] - 1 > 0 \/ Has(t, <<"flushSafety">>)'
        /\ \A v \in Tasks : Has(v, <<"flushSafety">>) => Has(v, <<"flushSafety">>)'
      BY <1>9, <1>11, <2>2 DEF taskUnlock
  <2>4. /\ lockCount[t] > 0 => lockCount'[t] > 0 \/ Has(t, <<"flushSafety">>)'
        /\ \A v \in Tasks \ {t} : lockCount'[v] = lockCount[v]
      BY <2>1, <2>2, <2>3 DEF SchedTypes
  <2> QED BY <1>10, <2>1, <2>3, <2>4
<1>12. ASSUME NEW t \in Tasks, taskUnsafe(t) PROVE ReasonInv'
  <2>1. /\ Lives /\ NoNewDeleter /\ todo = <<>> /\ lockCount' = lockCount
        /\ safeCount' = [safeCount EXCEPT ![t] = IF safeCount[t] > 0 THEN safeCount[t] - 1 ELSE 0]
      BY <1>2, <1>12, SameLives DEF taskUnsafe, kernVars, NoNewDeleter
  <2>2. safeCount[t] \in Nat
      BY VmxSemAssumption DEF SemTypes
  <2>3. /\ safeCount[t] > 0 => safeCount[t] - 1 > 0 \/ Has(t, <<"flushSafety">>)'
        /\ \A v \in Tasks : Has(v, <<"flushSafety">>) => Has(v, <<"flushSafety">>)'
      BY <1>9, <1>12, <2>2 DEF taskUnsafe
  <2>4. /\ safeCount[t] > 0 => safeCount'[t] > 0 \/ Has(t, <<"flushSafety">>)'
        /\ \A v \in Tasks \ {t} : safeCount'[v] = safeCount[v]
      BY <2>1, <2>2, <2>3 DEF SemTypes
  <2> QED BY <1>10, <2>1, <2>3, <2>4
<1>13. ASSUME NEW t \in Tasks, taskSafe(t) PROVE ReasonInv'
  <2>1. /\ Lives /\ NoNewDeleter /\ todo = <<>> /\ UNCHANGED <<lockCount, code>> /\ Alive(t)
        /\ safeCount' = [safeCount EXCEPT ![t] = Plus1(safeCount[t])]
      BY <1>1, <1>2, <1>13, SameLives DEF taskSafe, kernVars, NoNewDeleter
  <2>2. Plus1(safeCount[t]) > 0
      BY <2>1, NoOverflow
  <2>3. \A v \in Tasks : safeCount[v] > 0 => safeCount'[v] > 0
      BY <2>1, <2>2 DEF SemTypes
  <2> QED BY <2>1, <2>3, ShelterStays DEF Has
<1>14. ASSUME NEW t \in Tasks, FlushSafety(t) PROVE ReasonInv'
  <2>1. /\ Lives /\ NoNewDeleter /\ todo = <<>> /\ todo' = Flush(t)
        /\ UNCHANGED <<safeCount, lockCount, pendQ>>
        /\ \A v \in Tasks \ {t} : code'[v] = code[v]
      BY <1>2, <1>14, SameLives
      DEF FlushSafety, GoOn, kernVars, NoNewDeleter, CodeTypes
  <2>2. \A v \in Tasks \ {t} : Sheltered(v) => Sheltered(v)'
      BY <2>1 DEF Sheltered, Lives, Has
  <2>3. pendQ'[t] # <<>> => Woken(t)'
      BY <2>1 DEF Flush, Woken
  <2>4. \A v \in Tasks : ~Woken(v)
      BY <2>1 DEF Woken
  <2> QED BY <2>1, <2>2, <2>3, <2>4, ReasonsStay
<1>15. ASSUME NEW t \in Tasks, NEW v \in Tasks, NEW f \in BOOLEAN, DestroyCalled(t, v, f)
       PROVE  ReasonInv'
    BY <1>2, <1>3, <1>15, SameLives DEF DestroyCalled, Call, kernVars, NoNewDeleter
<1>16. ASSUME NEW t \in Tasks, DestroyTooLate(t) PROVE ReasonInv'
    BY <1>2, <1>3, <1>16, SameLives DEF DestroyTooLate, GoOn, kernVars, NoNewDeleter
<1>17. ASSUME NEW t \in Tasks, At(t, "destroy") PROVE Arg(t, 2) \in Tasks \ {t}
  <2>1. Head(code[t]) \in LastSteps(t)
      BY <1>17, NextStep DEF CallInv
  <2>2. Arg(t, 2) \in Tasks
      BY <1>17, CodeStays, StepShape DEF Arg
  <2> QED BY <1>17, <2>1, <2>2 DEF LastSteps, Arg
<1>18. ASSUME NEW t \in Tasks, DestroyWaits(t) PROVE ReasonInv'
  <2>1. PICK v \in Tasks : v = Arg(t, 2)
      BY <1>17, <1>18 DEF DestroyWaits
  <2>2. Lives
      BY <1>1, <1>18, PendPutLives DEF DestroyWaits
  <2>3. /\ Alive(v) /\ (safeCount[v] > 0 \/ lockCount[v] > 0) /\ todo = <<>>
        /\ \A u \in Tasks \ {v} : pendQ'[u] = pendQ[u]
        /\ UNCHANGED <<safeCount, lockCount, code>>
      BY <1>2, <1>18, <2>1 DEF DestroyWaits, Protected, vmxPendQPut, KernTypes
  <2>4. \A u \in Tasks : Sheltered(u) => Sheltered(u)'
      BY <2>2, <2>3 DEF Sheltered, Lives, Has
  <2>5. Sheltered(v)
      BY <2>3 DEF Sheltered
  <2>6. \A u \in Tasks : ~Woken(u)
      BY <2>3 DEF Woken
  <2> QED BY <2>3, <2>4, <2>5, <2>6 DEF ReasonInv
<1>19. ASSUME NEW t \in Tasks PROVE ~DestroyForces(t)
  <2> SUFFICES ASSUME DestroyForces(t) PROVE FALSE
      OBVIOUS
  <2>1. Head(code[t]) \in LastSteps(t) /\ Head(code[t])[1] = "destroy" /\ Head(code[t])[3]
      BY NextStep DEF CallInv, DestroyForces, Arg
  <2> QED BY <2>1 DEF LastSteps, NoForce
<1>20. ASSUME NEW t \in Tasks, DestroySuspends(t) PROVE ReasonInv'
  <2>1. PICK v \in Tasks \ {t} : v = Arg(t, 2)
      BY <1>17, <1>20 DEF DestroySuspends
  <2>2. Lives
    <3>1. status' = [status EXCEPT ![v] = status[v] \cup {"suspend"}]
        BY <1>20, <2>1 DEF DestroySuspends, vmxSuspend
    <3> QED BY <3>1, FlagsLive
  <2>3. PICK n, m : n = Plus1(safeCount[t]) /\ m = Plus1(safeCount[v])
      OBVIOUS
  <2>4. /\ safeCount' = [safeCount EXCEPT ![t] = n, ![v] = m] /\ todo = <<>>
        /\ lockCount' = lockCount /\ NoNewDeleter /\ Alive(t) /\ Alive(v)
      BY <1>1, <1>2, <1>20, <2>1, <2>3 DEF DestroySuspends, vmxSuspend, NoNewDeleter
  <2>5. n > 0 /\ m > 0
      BY <2>1, <2>3, <2>4, NoOverflow
  <2>6. \A u \in Tasks : safeCount[u] > 0 => safeCount'[u] > 0
      BY <2>4, <2>5 DEF SemTypes
  <2>7. \A u \in Tasks : Has(u, <<"flushSafety">>) => Has(u, <<"flushSafety">>)'
      BY <1>20, WakingStays DEF DestroySuspends, GoOn, CallInv
  <2> QED BY <2>2, <2>4, <2>6, <2>7, ShelterStays
<1>21. ASSUME NEW t \in Tasks, DestroyKills(t) PROVE ReasonInv'
  <2>1. PICK v \in Tasks \ {t} : v = Arg(t, 2)
      BY <1>21, NextStep DEF CallInv, DestroyKills, Arg
  <2>2. /\ code' = [code EXCEPT ![t] = Tail(code[t]), ![v] = <<>>]
        /\ status' = [status EXCEPT ![v] = {"dead"}] /\ todo' = Flush(v)
        /\ UNCHANGED <<safeCount, lockCount>> /\ todo = <<>> /\ vmxDelete(v)
      BY <1>2, <1>21, <2>1 DEF DestroyKills, vmxDelete
  <2>3. NoNewDeleter
      BY <2>2, DeleteShrink, ShrinkNoDeleter
  <2>4. ~Has(t, <<"flushSafety">>)
      BY <1>21, NotWaking DEF CallInv, DestroyKills
  <2>5. ASSUME NEW u \in Tasks \ {v}, Sheltered(u) PROVE Sheltered(u)'
    <3>1. status'[u] = status[u]
        BY <2>2 DEF KernTypes
    <3>2. u # t => code'[u] = code[u]
        BY <2>2 DEF CodeTypes
    <3> QED BY <2>2, <2>4, <2>5, <3>1, <3>2 DEF Sheltered, Alive, Has
  <2>6. pendQ[v] # <<>> => Woken(v)'
      BY <2>2 DEF Flush, Woken
  <2>7. \A u \in Tasks : ~Woken(u)
      BY <2>2 DEF Woken
  <2> QED BY <2>3, <2>5, <2>6, <2>7 DEF ReasonInv, NoNewDeleter
<1> QED
  BY <1>5, <1>6, <1>7, <1>8, <1>11, <1>12, <1>13, <1>14, <1>15, <1>16, <1>18, <1>19,
     <1>20, <1>21 DEF TaskCall

\* The code of the kernel, and the jobs.
LEMMA KernelReasons ==
    ASSUME CountsFit, RunInv, TypeInv', CallInv, CallInv', DeletionInv, DeletionInv',
           ReasonInv, Kernel
    PROVE  ReasonInv'
<1> USE DEF RunInv, TypeInv, KernInv
<1>1. ASSUME Lives, NoNewDeleter, UNCHANGED <<safeCount, lockCount, code>>,
             \A v \in Tasks : Woken(v) => Woken(v)' \/ pendQ'[v] = <<>>
      PROVE  ReasonInv'
  <2>1. \A v \in Tasks : Sheltered(v) => Sheltered(v)'
      BY <1>1 DEF Sheltered, Lives, Has
  <2> QED BY <1>1, <2>1, ReasonsStay
<1>2. CASE SchedStep /\ UNCHANGED <<semVars, safes>>
  <2> USE DEF semVars
  <2>1. ASSUME Lives, NoNewDeleter, UNCHANGED <<lockCount, todo>> PROVE ReasonInv'
      BY <1>1, <1>2, <2>1 DEF Woken
  <2>2. ASSUME UNCHANGED <<lockCount, pendQ, status>>,
               \A v \in Tasks : Woken(v) => pendQ'[v] = <<>>
        PROVE  ReasonInv'
      BY <1>1, <1>2, <2>2, SameLives DEF NoNewDeleter
  <2>3. CASE \/ ExitFromInt \/ ExitToCaller \/ SaveTaskContext
             \/ SwitchTasks \/ Dispatch \/ NoTaskReady \/ WorkDone
    <3>1. UNCHANGED <<todo, lockCount, pendQ, status>>
        BY <2>3 DEF ExitFromInt, ExitToCaller, SaveTaskContext, SwitchTasks,
           Dispatch, NoTaskReady, WorkDone, othersThan, kernVars
    <3> QED BY <2>1, <3>1, SameLives DEF NoNewDeleter
  <2> USE DEF loopVars
  <2>4. CASE FlushLoop
    <3>1. PICK q \in PendQs : q = Head(todo)[2] /\ todo = <<<<"flush", q>>>>
        BY <2>4, NextLoop DEF FlushLoop, CallInv
    <3>2. CASE pendQ[q] # <<>>
        BY <2>1, <2>4, <3>1, <3>2, UnpendLives, UnpendShrink, ShrinkNoDeleter
        DEF FlushLoop, vmxPendQFlush
    <3>3. CASE pendQ[q] = <<>>
      <4>1. \A v \in Tasks : Woken(v) => v = q
          BY <3>1 DEF Woken
      <4> QED BY <2>2, <2>4, <3>1, <3>3, <4>1 DEF FlushLoop, kernVars
    <3> QED BY <3>2, <3>3
  <2>5. CASE TerminateLoop
    <3>1. PICK s \in Sems : s = Head(todo)[2] /\ Head(todo)[1] = "terminate" /\ s \in PendQs
        BY <2>5, NextLoop DEF TerminateLoop, Todo, CallInv, PendQs
    <3>2. CASE pendQ[s] # <<>>
        BY <2>1, <2>5, <3>1, <3>2, UnpendLives, UnpendShrink, ShrinkNoDeleter
        DEF TerminateLoop, vmxPendQTerminate
    <3>3. CASE pendQ[s] = <<>>
      <4>1. \A v \in Tasks : ~Woken(v)
          BY <3>1 DEF Woken
      <4> QED BY <2>2, <2>5, <3>1, <3>3, <4>1 DEF TerminateLoop, kernVars
    <3> QED BY <3>2, <3>3
  <2>6. CASE ExpireLoop
    <3>1. CASE Expired
        BY <2>1, <2>6, <3>1, ExpireLives, ExpireShrink, ShrinkNoDeleter DEF ExpireLoop
    <3>2. CASE ~Expired
      <4>1. \A v \in Tasks : ~Woken(v)
          BY <2>6 DEF ExpireLoop, Todo, Woken
      <4> QED BY <2>2, <2>6, <3>2, <4>1 DEF ExpireLoop, kernVars
    <3> QED BY <3>1, <3>2
  <2>7. CASE RoundRobin
    <3>1. \A v \in Tasks : ~Woken(v)
        BY <2>7 DEF RoundRobin, Todo, Woken
    <3>2. UNCHANGED <<lockCount, pendQ, status>>
        BY <2>7 DEF RoundRobin, yield, kernVars
    <3> QED BY <2>2, <3>1, <3>2
  <2> QED BY <1>2, <2>3, <2>4, <2>5, <2>6, <2>7 DEF SchedStep
<1>3. CASE Disown /\ UNCHANGED safes
  <2>1. PICK s \in Sems : /\ todo = <<<<"disown", s>>>> /\ s = Head(todo)[2]
                          /\ Tail(todo) = <<>>
    <3>1. Todo("disown")
        BY <1>3 DEF Disown
    <3> QED BY <3>1, NextLoop DEF CallInv
  <2>2. PICK cur \in Tasks, o \in Tasks \cup {NULL} : cur = taskIdCurrent /\ o = semOwner[s]
      BY <2>1 DEF SchedTypes, SemTypes
  <2>3. PICK owned \in BOOLEAN : owned = (s \in DeleteSafe /\ o # NULL /\ Alive(o))
      OBVIOUS
  <2>4. PICK less : less = IF owned THEN [safeCount EXCEPT ![o] = Minus1(safeCount[o])]
                                    ELSE safeCount
      OBVIOUS
  <2>5. /\ safeCount' = [less EXCEPT ![cur] = Plus1(less[cur])]
        /\ todo' = (IF owned /\ less[o] = 0 THEN Flush(o) ELSE <<>>) \o <<>>
        /\ UNCHANGED <<status, code, pendQ, lockCount, taskIdCurrent>>
      BY <1>3, <2>1, <2>2, <2>3, <2>4 DEF Disown, kernVars, loopVars
  <2>6. o \in Tasks \cup {NULL}
      BY <2>2 DEF SemTypes
  <2>7. less \in [Tasks -> 0..UnsignedMax]
      BY <2>3, <2>4, <2>6, PlusMinusTypes, VmxLibAssumption DEF SemTypes
  <2>8. Alive(cur) /\ Has(cur, <<"unsafe">>)
    <3>1. Disowning(s)
        BY <2>1 DEF Disowning, Deletes
    <3>2. code[cur] = <<<<"unsafe">>>>
        BY <2>2, <3>1 DEF CallInv, LoopsOK
    <3>3. Contains(code[cur], <<"unsafe">>) /\ code[cur] # <<>>
        BY <3>2, StepsOf
    <3> QED BY <3>3 DEF Has, Contains, CallInv, DeadOK
  <2>9. \A r \in Sems : ~Disowning(r)'
    <3>1. todo' = <<>> \o <<>> \/ (o # NULL /\ todo' = Flush(o) \o <<>>)
        BY <2>3, <2>5
    <3>2. o # NULL => Flush(o) \in Seq(TodoItems)
        BY <2>6, FlushTypes DEF PendQs
    <3>3. Simple(todo')
        BY <2>6, <3>1, <3>2, FlushSimple DEF Simple, PendQs
    <3> QED BY <3>3, SimpleKeeps
  <2>10. safeCount'[cur] > 0
    <3>1. Unsafe(cur)' = 1 /\ Alive(cur)'
        BY <2>5, <2>8, <2>9 DEF Unsafe, Has, Alive
    <3>2. /\ safes'[cur] \in Nat /\ Unsafe(cur)' \in Nat
          /\ Cardinality(Owned(cur)') \in Nat /\ Cardinality(Killers(cur)') \in Nat
          /\ Reasons(cur)' \in Nat /\ safeCount'[cur] \in Nat
      <4>1. SemTypes' /\ KillOK'
          BY DEF DeletionInv
      <4>2. \A u \in Tasks : /\ safes'[u] \in 0..MaxSafe /\ Unsafe(u)' \in 0..1
                             /\ Cardinality(Owned(u)') \in Nat
                             /\ Cardinality(Killers(u)') \in Nat /\ Reasons(u)' \in Nat
        <5>1. \A u \in Tasks : IsFiniteSet(Owned(u)') /\ IsFiniteSet(Killers(u)')
            BY FS_Subset, VmxAssumption DEF CountsFit, Owned, Killers
        <5>2. \A u \in Tasks : /\ Cardinality(Owned(u)') \in Nat
                               /\ Cardinality(Killers(u)') \in Nat
            BY <5>1, FS_CardinalityType
        <5>3. \A u \in Tasks : safes'[u] \in 0..MaxSafe /\ Unsafe(u)' \in 0..1
            BY <4>1 DEF SemTypes, Unsafe
        <5> QED BY <5>2, <5>3, VmxTaskAssumption DEF Reasons
      <4>3. safeCount'[cur] \in 0..UnsignedMax
          BY <4>1 DEF SemTypes
      <4> QED BY <4>2, <4>3, VmxTaskAssumption, VmxSemAssumption
    <3>3. Reasons(cur)' <= safeCount'[cur]
        BY <3>1 DEF DeletionInv, Balance
    <3>4. Reasons(cur)' > 0
        BY <3>1, <3>2 DEF Reasons
    <3> QED BY <3>2, <3>3, <3>4
  <2>11. ASSUME NEW v \in Tasks, pendQ'[v] # <<>>, Sheltered(v)
         PROVE  Woken(v)' \/ Sheltered(v)'
    <3>1. /\ Alive(v)' /\ lockCount'[v] = lockCount[v]
          /\ Has(v, <<"flushSafety">>)' <=> Has(v, <<"flushSafety">>)
        BY <2>5, <2>11 DEF Sheltered, Alive, Has
    <3>2. CASE v = cur
        BY <2>10, <3>1, <3>2 DEF Sheltered
    <3>3. CASE owned /\ v = o /\ less[o] = 0
      <4>1. Flush(o) = <<<<"flush", o>>>>
          BY <2>5, <2>11, <3>3 DEF Flush
      <4>2. <<<<"flush", o>>>> \o <<>> = <<<<"flush", o>>>>
          OBVIOUS
      <4> QED BY <2>5, <3>3, <4>1, <4>2 DEF Woken
    <3>4. CASE v # cur /\ ~(owned /\ v = o /\ less[o] = 0)
      <4>1. safeCount'[v] = less[v] /\ less[v] \in Nat
          BY <2>5, <2>7, <3>4, VmxSemAssumption
      <4>2. safeCount[v] > 0 => less[v] > 0
          BY <2>4, <3>4, <4>1 DEF SemTypes
      <4> QED BY <2>11, <3>1, <4>1, <4>2 DEF Sheltered
    <3> QED BY <3>2, <3>3, <3>4
  <2>12. \A v \in Tasks : ~Woken(v)
      BY <2>1 DEF Woken
  <2> QED BY <2>5, <2>11, <2>12, ReasonsStay DEF NoNewDeleter
<1>4. CASE RunJob
  <2>1. PICK j \in CallJobs : j = Head(workQ)
      BY <1>4 DEF RunJob, TakeJob, WorkTypes
  <2>2. todo = <<>> /\ UNCHANGED <<code, safeCount, lockCount>>
      BY <1>4 DEF RunJob, TakeJob, KernelAt, semVars
  <2>3. ASSUME Lives, NoNewDeleter PROVE ReasonInv'
    <3>1. \A v \in Tasks : ~Woken(v)
        BY <2>2 DEF Woken
    <3> QED BY <1>1, <2>2, <2>3, <3>1
  <2>4. CASE UNCHANGED <<status, pendQ>>
      BY <2>3, <2>4, SameLives DEF NoNewDeleter
  <2>5. CASE j[1] = "give" /\ GiveKernel(j[2])
      BY <2>1, <2>3, <2>5, GiveLives, GiveShrink, ShrinkNoDeleter, CallJobShape
  <2>6. CASE j[1] \in TaskOps /\ TaskKernel(j)
      BY <2>1, <2>3, <2>6, TaskKernelLives, TaskKernelShrink, ShrinkNoDeleter, CallJobShape
      DEF CallJobs
  <2> QED BY <1>4, <2>1, <2>4, <2>5, <2>6 DEF RunJob, advance, kernVars
<1> QED BY <1>2, <1>3, <1>4 DEF Kernel

\* intEnt, intExit, tickAnnounce, and the calls handlers make or defer.
LEMMA InterruptReasons ==
    ASSUME RunInv, KernTypes', CallInv, ReasonInv, Interrupt PROVE ReasonInv'
<1> USE DEF RunInv, TypeInv, KernInv, semVars
<1>1. UNCHANGED <<code, safeCount, lockCount>>
    BY DEF Interrupt, HandlerStarts, HandlerEnds, IntEnt, IntExit, Tick, TaskFromHandler,
       Post, SectionOnly
<1>2. Lives /\ NoNewDeleter
  <2>1. ASSUME NEW op \in Ops, op[1] \in IsrCalls, TaskFromHandler(op)
        PROVE  Lives /\ NoNewDeleter
      BY <2>1, TaskKernelLives, TaskKernelShrink, ShrinkNoDeleter DEF TaskFromHandler
  <2> QED BY <2>1, SameLives DEF Interrupt, HandlerStarts, HandlerEnds, IntEnt, IntExit,
             Tick, advance, Post, kernVars, NoNewDeleter
<1>3. todo = <<>>
    BY DEF Interrupt, HandlerStarts, HandlerEnds, IntEnt, IntExit, Tick, InHandler, Section,
       TaskFromHandler, Post, CanPost, SchedInv, SchedBase
<1> QED BY <1>1, <1>2, <1>3, ShelterStays DEF Has

\* A task waits to delete another only while that one is protected or about to
\* wake the waiters: no taskUnsafe, taskUnlock, semGive or semDestroy leaves a
\* deleter behind.
THEOREM DeletersWoken ==
    ASSUME NoUndelay, NoForce, CountsFit PROVE Spec => []DeleterHasReason
<1>1. Init => ReasonInv
    BY DEF Init, ReasonInv, PendQs
<1>2. RunInv /\ CallInv /\ DeletionInv /\ ReasonInv /\ [Next]_vars => ReasonInv'
  <2> SUFFICES ASSUME RunInv, CallInv, DeletionInv, ReasonInv, [Next]_vars PROVE ReasonInv'
      OBVIOUS
  <2>1. CASE UNCHANGED vars
      BY <2>1 DEF vars, kernVars, schedVars, semVars, ReasonInv, Woken, Sheltered, Alive, Has
  <2>2. TypeInv' /\ CallInv' /\ DeletionInv'
      BY NextTypes, NextShapes, NextMoves DEF RunInv
  <2>3. KernTypes'
      BY <2>2 DEF TypeInv
  <2> QED BY <2>1, <2>2, <2>3, SemCallReasons, TaskCallReasons, KernelReasons,
             InterruptReasons DEF Next
<1>3. RunInv /\ ReasonInv => DeleterHasReason
  <2> SUFFICES ASSUME RunInv, ReasonInv, NEW v \in Tasks, ~kernelState, pendQ[v] # <<>>
               PROVE  Sheltered(v)
      BY DEF DeleterHasReason, Sheltered
  <2>1. todo = <<>>
      BY DEF RunInv, SchedInv, SchedBase, kernelState
  <2> QED BY <2>1 DEF ReasonInv, Woken
<1> QED BY <1>1, <1>2, <1>3, RunsInductive, CallsInductive, DeletionInductive, PTL DEF Spec

-----------------------------------------------------------------------------
(***************************************************************************)
(* What a take returns.                                                    *)
(***************************************************************************)
\* Task t has begun to wait for s, and is in its take still.
Taking(t, s) == code[t] = <<<<"taken", s>>>>

\* It waits for s and nothing else, and from the moment it does not wait any
\* more its return value tells if it got the mutex.
WaitOK(t, s) ==
    /\ "pend" \in status[t] => t \in Elements(pendQ[s])
    /\ "delay" \in status[t] => "pend" \in status[t]
    /\ SemType[s] = "mutex" =>
          IF "pend" \in status[t] THEN semOwner[s] # t
          ELSE retVal[t] = "OK" <=> semOwner[s] = t

TakeOK == \A t \in Tasks, s \in Sems : Taking(t, s) => WaitOK(t, s)

\* On its way out of the kernel no other task can end its wait, before the
\* context with the return value is saved.
PlaceOK == \A s \in Sems :
    Taking(taskIdCurrent, s) /\ ~intr /\ kpc \in {"exit", "work"} =>
        kpc = "exit" /\ "pend" \in status[taskIdCurrent] /\ todo = <<>>

\* The queue of a mutex is not flushed.
FlushOK == \A s \in Sems : todo = <<<<"flush", s>>>> => SemType[s] # "mutex"

TakeInv == TakeOK /\ PlaceOK /\ FlushOK

\* A step that the take does not notice.
Undisturbed(t, s) ==
    /\ "pend" \in status'[t] <=> "pend" \in status[t]
    /\ "delay" \in status'[t] => "delay" \in status[t]
    /\ retVal'[t] = retVal[t]
    /\ "pend" \in status'[t] /\ t \in Elements(pendQ[s]) => t \in Elements(pendQ'[s])
    /\ SemType[s] = "mutex" => (semOwner'[s] = t <=> semOwner[s] = t)

\* ... keeps it as it is.
LEMMA UndisturbedKeeps ==
    ASSUME TakeOK,
           \A t \in Tasks, s \in Sems : Taking(t, s)' => Taking(t, s) /\ Undisturbed(t, s)
    PROVE  TakeOK'
BY DEF TakeOK, WaitOK, Undisturbed

\* What a task does in its other calls.
LEMMA NotTaking ==
    ASSUME CodeTypes, NEW t \in Tasks, NEW c, code' = [code EXCEPT ![t] = c],
           \A s \in Sems : c # <<<<"taken", s>>>>
    PROVE  \A u \in Tasks, s \in Sems : Taking(u, s)' => Taking(u, s) /\ u # t
BY DEF CodeTypes, Taking

\* A task that waits still is in the queue it was in.
LEMMA StillQueued ==
    ASSUME PendOK, PendOK', QueuesShrink, NEW t \in Tasks, "pend" \in status'[t],
           NEW s \in PendQs, t \in Elements(pendQ[s])
    PROVE  t \in Elements(pendQ'[s])
<1>1. PICK q \in PendQs : t \in Elements(pendQ'[q])
    BY DEF PendOK
<1>2. t \in Elements(pendQ[q])
    BY <1>1 DEF QueuesShrink
<1>3. q = s
    BY <1>2 DEF PendOK
<1> QED BY <1>1, <1>3

\* The routine that a call of taskLib or its job calls.
LEMMA TaskKernelTakes ==
    ASSUME KernTypes, KernTypes', PendOK, PendOK', NEW op \in Ops, TaskKernel(op),
           semOwner' = semOwner
    PROVE  \A t \in Tasks, s \in Sems : Undisturbed(t, s)
<1>1. QueuesShrink /\ Sems \subseteq PendQs
    BY TaskKernelShrink DEF PendQs
<1>2. PICK v \in Tasks : op \in OpsOn(v)
    BY DEF Ops
<1>3. \A t \in Tasks : /\ "pend" \in status'[t] <=> "pend" \in status[t]
                       /\ "delay" \in status'[t] => "delay" \in status[t]
                       /\ retVal'[t] = retVal[t]
  <2>1. CASE op = <<"suspend", v>>
    <3>1. status' = [status EXCEPT ![v] = status[v] \cup {"suspend"}] /\ retVal' = retVal
        BY <2>1 DEF TaskKernel, vmxSuspend
    <3> QED BY <3>1 DEF KernTypes
  <2>2. CASE op = <<"resume", v>>
    <3>1. status' = [status EXCEPT ![v] = status[v] \ {"suspend"}] /\ retVal' = retVal
        BY <2>2 DEF TaskKernel, vmxResume
    <3> QED BY <3>1 DEF KernTypes
  <2>3. ASSUME NEW p \in Priorities, op = <<"priority", v, p>>
        PROVE  UNCHANGED <<status, retVal>>
      BY <2>3 DEF TaskKernel, vmxPrioritySet
  <2>4. CASE op = <<"undelay", v>>
    <3>1. status' = [status EXCEPT ![v] = status[v] \ {"delay"}] /\ retVal' = retVal
        BY <2>4 DEF TaskKernel, vmxUndelay
    <3> QED BY <3>1 DEF KernTypes
  <2> QED BY <1>2, <2>1, <2>2, <2>3, <2>4 DEF OpsOn
<1> QED BY <1>1, <1>3, StillQueued DEF Undisturbed

\* A task in a queue stops waiting there, with a result, by a give or a loop.
LEMMA UnpendTakes ==
    ASSUME KernTypes, PendOK, PendOK', TakeOK, code' = code,
           NEW q \in PendQs, NEW ret, unpend(q, ret), NEW t \in Tasks, t = Head(pendQ[q]),
           pendQ[q] # <<>>, ret \in {"OK", "ERROR"},
           \A u \in Tasks, s \in Sems :
              Taking(u, s) /\ u # t /\ SemType[s] = "mutex" =>
                 (semOwner'[s] = u <=> semOwner[s] = u),
           q \in Sems /\ SemType[q] = "mutex" /\ semOwner[q] # t =>
              (ret = "OK" <=> semOwner'[q] = t)
    PROVE  TakeOK'
<1>1. QueuesShrink /\ Sems \subseteq PendQs
    BY UnpendShrink DEF PendQs
<1>2. /\ status' = [status EXCEPT ![t] = status[t] \ {"pend", "delay"}]
      /\ retVal' = [retVal EXCEPT ![t] = ret]
    BY DEF unpend
<1>3. ASSUME NEW u \in Tasks, NEW s \in Sems, Taking(u, s)', u # t PROVE WaitOK(u, s)'
  <2>1. Taking(u, s) /\ WaitOK(u, s)
      BY <1>3 DEF Taking, TakeOK
  <2>2. Undisturbed(u, s)
      BY <1>1, <1>2, <1>3, <2>1, StillQueued DEF Undisturbed, KernTypes
  <2> QED BY <2>1, <2>2 DEF WaitOK, Undisturbed
<1>4. ASSUME NEW s \in Sems, Taking(t, s)' PROVE WaitOK(t, s)'
  <2>1. t \in Elements(pendQ[q])
      BY TailQueue DEF PendOK
  <2>2. "pend" \in status[t]
      BY <2>1 DEF PendOK
  <2>3. Taking(t, s) /\ WaitOK(t, s)
      BY <1>4 DEF Taking, TakeOK
  <2>4. q = s
      BY <1>1, <2>1, <2>2, <2>3 DEF WaitOK, PendOK
  <2>5. /\ "pend" \notin status'[t] /\ "delay" \notin status'[t] /\ retVal'[t] = ret
      BY <1>2 DEF KernTypes
  <2> QED BY <2>2, <2>3, <2>4, <2>5 DEF WaitOK
<1> QED BY <1>3, <1>4 DEF TakeOK

\* A timeout.
LEMMA ExpireTakes ==
    ASSUME KernTypes, TickOK, PendOK, PendOK', TakeOK, UNCHANGED <<code, semOwner>>,
           Expired, expire
    PROVE  TakeOK'
<1>1. QueuesShrink /\ Sems \subseteq PendQs
    BY ExpireShrink DEF PendQs
<1>2. PICK t \in Tasks : t = Head(tickQ)
    BY DEF KernTypes, Expired
<1>3. /\ status' = [status EXCEPT ![t] = status[t] \ {"pend", "delay"}]
      /\ IF "pend" \in status[t] THEN retVal' = [retVal EXCEPT ![t] = "ERROR"]
         ELSE retVal' = retVal \/ retVal' = [retVal EXCEPT ![t] = "OK"]
    BY <1>2 DEF expire
<1>4. ASSUME NEW u \in Tasks, NEW s \in Sems, Taking(u, s)', u # t PROVE WaitOK(u, s)'
  <2>1. Taking(u, s) /\ WaitOK(u, s)
      BY <1>4 DEF Taking, TakeOK
  <2>2. Undisturbed(u, s)
      BY <1>1, <1>3, <1>4, StillQueued DEF Undisturbed, KernTypes
  <2> QED BY <2>1, <2>2 DEF WaitOK, Undisturbed
<1>5. ASSUME NEW s \in Sems, Taking(t, s)' PROVE WaitOK(t, s)'
  <2>1. Taking(t, s) /\ WaitOK(t, s)
      BY <1>5 DEF Taking, TakeOK
  <2>2. "pend" \notin status'[t] /\ "delay" \notin status'[t]
      BY <1>3 DEF KernTypes
  <2>3. "delay" \in status[t]
    <3>1. t \in Elements(tickQ)
        BY <1>2, TailQueue DEF Expired, TickOK
    <3> QED BY <3>1 DEF TickOK
  <2>4. retVal'[t] = "ERROR"
      BY <1>3, <2>1, <2>3 DEF WaitOK, KernTypes
  <2> QED BY <2>1, <2>2, <2>3, <2>4 DEF WaitOK
<1> QED BY <1>4, <1>5 DEF TakeOK

\* A give of a binary or counting semaphore.
LEMMA GiveTakes ==
    ASSUME KernTypes, SemTypes, PendOK, PendOK', TakeOK, code' = code, NEW s \in Sems,
           SemType[s] # "mutex", GiveKernel(s)
    PROVE  TakeOK'
<1>1. \A r \in Sems : SemType[r] = "mutex" => semOwner'[r] = semOwner[r]
    BY DEF GiveKernel, SemTypes
<1>2. CASE pendQ[s] = <<>>
  <2>1. UNCHANGED <<status, retVal, pendQ>>
      BY <1>2 DEF GiveKernel, kernVars
  <2> QED BY <1>1, <2>1, UndisturbedKeeps DEF Undisturbed, Taking
<1>3. CASE pendQ[s] # <<>>
  <2>1. PICK t \in Tasks : t = Head(pendQ[s])
      BY <1>3 DEF KernTypes, PendQs
  <2>2. unpend(s, "OK") /\ s \in PendQs
      BY <1>3 DEF GiveKernel, vmxPendQGet, PendQs
  <2> QED BY <1>1, <1>3, <2>1, <2>2, UnpendTakes
<1> QED BY <1>2, <1>3

\* What a section has to do.
LEMMA FlushesOK ==
    ASSUME \/ todo' \in {<<>>, TickLoops, <<<<"slice">>>>}
           \/ \E s : Deletes(todo', s)
           \/ \E q \in PendQs : todo' = Flush(q) /\ (q \in Sems => SemType[q] # "mutex")
    PROVE  FlushOK'
<1> SUFFICES ASSUME NEW s \in Sems, todo' = <<<<"flush", s>>>> PROVE SemType[s] # "mutex"
    BY DEF FlushOK
<1>1. Head(todo') = <<"flush", s>> /\ todo' # <<>>
    OBVIOUS
<1>2. todo' # TickLoops /\ todo' # <<<<"slice">>>> /\ \A r : ~Deletes(todo', r)
    BY <1>1 DEF TickLoops, Deletes
<1>3. PICK q \in PendQs : todo' = Flush(q) /\ (q \in Sems => SemType[q] # "mutex")
    BY <1>1, <1>2
<1>4. todo' = <<<<"flush", q>>>>
    BY <1>1, <1>3 DEF Flush
<1>5. q = s
    BY <1>1, <1>4
<1> QED BY <1>3, <1>5

\* The calls of semBLib, semCLib, semMLib and semLib.
LEMMA SemCallTakes ==
    ASSUME RunInv, RunInv', CallInv, TakeInv, SemCall PROVE TakeInv'
<1> USE DEF RunInv, TypeInv, KernInv, TakeInv
<1> USE DEF SectionOnly, NoSection, semVars, schedVars, Section, Free, At, Running
<1>1. ASSUME NEW t \in Tasks, Running(t) PROVE status[t] = {} /\ taskIdCurrent = t /\ ~intr
    BY <1>1, RunningReady DEF Ready
<1>2. kpc = "user" => todo = <<>>
    BY DEF SchedInv, SchedBase
<1>3. ASSUME UNCHANGED <<kpc, todo>>, kpc = "user" PROVE PlaceOK' /\ FlushOK'
    BY <1>3 DEF PlaceOK, FlushOK
<1>4. ASSUME UNCHANGED <<status, retVal, pendQ, code>>,
             \A u \in Tasks, r \in Sems :
                Taking(u, r) /\ SemType[r] = "mutex" => (semOwner'[r] = u <=> semOwner[r] = u)
      PROVE  TakeOK'
    BY <1>4 DEF TakeOK, WaitOK, Taking
<1>5. ASSUME NEW t \in Tasks, NEW s \in Sems, TakeFull(t, s) PROVE TakeInv'
  <2>1. /\ UNCHANGED <<status, retVal, pendQ, code, kpc, todo>> /\ kpc = "user"
        /\ code[t] = <<>>
      BY <1>5 DEF TakeFull, kernVars
  <2>2. \A r \in Sems : SemType[r] = "mutex" /\ semOwner'[r] # semOwner[r] =>
            semOwner[r] = NULL /\ semOwner'[r] = t
      BY <1>5 DEF TakeFull, Full, SemTypes
  <2>3. \A r \in Sems : ~Taking(t, r)
      BY <2>1 DEF Taking
  <2>4. NULL \notin Tasks
      BY VmxLibAssumption
  <2> QED BY <1>3, <1>4, <2>1, <2>2, <2>3, <2>4
<1>6. ASSUME NEW t \in Tasks, NEW s \in Sems, TakeAgain(t, s) \/ GiveRecurse(t, s)
      PROVE  TakeInv'
    BY <1>3, <1>4, <1>6 DEF TakeAgain, GiveRecurse, kernVars
<1>7. ASSUME NEW t \in Tasks, NEW s \in Sems, TakeNoWait(t, s) PROVE TakeInv'
    BY <1>3, <1>4, <1>7 DEF TakeNoWait, kernVars
<1>8. ASSUME NEW t \in Tasks, NEW s \in Sems, NEW n, TakeWait(t, s, n) PROVE TakeInv'
  <2>1. /\ vmxPendQPut(s, t, n) /\ code' = [code EXCEPT ![t] = <<<<"taken", s>>>>]
        /\ semOwner' = semOwner /\ kpc' = "exit" /\ todo' = <<>> /\ taskIdCurrent' = t
        /\ SemType[s] = "mutex" => semOwner[s] # t
      BY <1>1, <1>8 DEF TakeWait
  <2>2. /\ "pend" \in status'[t] /\ \A u \in Tasks \ {t} : status'[u] = status[u]
        /\ retVal' = retVal
        /\ \A q \in PendQs : q # s => pendQ'[q] = pendQ[q]
    <3>1. \/ status' = [status EXCEPT ![t] = status[t] \cup {"pend"}]
          \/ status' = [status EXCEPT ![t] = status[t] \cup {"pend", "delay"}]
        BY <2>1 DEF vmxPendQPut
    <3>2. retVal' = retVal /\ pendQ' = [pendQ EXCEPT ![s] = PendQPut(s, t)]
        BY <2>1 DEF vmxPendQPut
    <3> QED BY <3>1, <3>2 DEF KernTypes
  <2>3. \A q \in PendQs : \A u \in Tasks :
            u \in Elements(pendQ[q]) => u \in Elements(pendQ'[q])
    <3>1. \A u \in Tasks : u \in Elements(pendQ[s]) => u \in Elements(pendQ'[s])
      <4>1. s \in PendQs /\ IsQueue(pendQ[s], Tasks) /\ t \notin Elements(pendQ[s])
        <5>1. s \in PendQs /\ "pend" \notin status[t]
            BY <1>1, <1>8 DEF TakeWait, PendQs
        <5> QED BY <5>1 DEF PendOK
      <4>2. PICK r : r = PendQPut(s, t)
          OBVIOUS
      <4>3. Elements(r) = Elements(pendQ[s]) \cup {t}
        <5>1. CASE s \in FifoSems
          <6>1. InsertedAt(r, pendQ[s], Len(pendQ[s]) + 1, t, Tasks)
              BY <4>1, <4>2, <5>1, AppendQueue DEF PendQPut, IsQueue
          <6> QED BY <4>1, <6>1, Inserts
        <5>2. CASE s \notin FifoSems
            BY <4>1, <4>2, <5>2, PutQueue, Keys DEF PendQPut, PendOK
        <5> QED BY <5>1, <5>2
      <4>4. pendQ'[s] = r
          BY <2>1, <4>1, <4>2 DEF vmxPendQPut, KernTypes
      <4> QED BY <4>3, <4>4
    <3> QED BY <2>2, <3>1
  <2>4. ASSUME NEW u \in Tasks, NEW r \in Sems, Taking(u, r)', u # t PROVE WaitOK(u, r)'
    <3>1. Taking(u, r) /\ r \in PendQs
        BY <2>1, <2>4 DEF Taking, CodeTypes, PendQs
    <3> QED BY <2>1, <2>2, <2>3, <2>4, <3>1 DEF TakeOK, WaitOK
  <2>5. ASSUME NEW r \in Sems, Taking(t, r)' PROVE WaitOK(t, r)'
    <3>1. code'[t] = <<<<"taken", s>>>> /\ code'[t] = <<<<"taken", r>>>>
        BY <2>1, <2>5 DEF Taking, CodeTypes
    <3>2. r = s
        BY <3>1
    <3>3. t \in Elements(pendQ'[s])
      <4>1. PICK q \in PendQs : t \in Elements(pendQ'[q])
          BY <2>2 DEF PendOK
      <4>2. q = s
        <5>1. t \notin Elements(pendQ[q])
            BY <1>1, <1>8 DEF TakeWait, PendOK
        <5> QED BY <2>2, <4>1, <5>1
      <4> QED BY <4>1, <4>2
    <3> QED BY <2>1, <2>2, <3>2, <3>3 DEF WaitOK
  <2>6. PlaceOK' /\ FlushOK'
      BY <2>1, <2>2 DEF PlaceOK, FlushOK
  <2> QED BY <2>4, <2>5, <2>6 DEF TakeOK
<1>9. ASSUME NEW t \in Tasks, TakeReturns(t) PROVE TakeInv'
  <2>1. /\ code' = [code EXCEPT ![t] = <<>>] /\ retVal' = [retVal EXCEPT ![t] = "OK"]
        /\ UNCHANGED <<status, pendQ, semOwner, kpc, todo>> /\ kpc = "user"
    <3>1. Head(code[t])[1] = "taken" /\ code[t] # <<>>
        BY <1>9 DEF TakeReturns
    <3>2. Tail(code[t]) = <<>>
        BY <3>1, NextStep DEF CallInv
    <3> QED BY <1>9, <3>2 DEF TakeReturns
  <2>2. \A u \in Tasks, r \in Sems : Taking(u, r)' => Taking(u, r) /\ u # t
    <3>1. \A r \in Sems : <<>> # <<<<"taken", r>>>>
        OBVIOUS
    <3> QED BY <2>1, <3>1, NotTaking
  <2>3. \A u \in Tasks, r \in Sems : u # t => Undisturbed(u, r)
      BY <2>1 DEF Undisturbed, KernTypes
  <2> QED BY <1>3, <2>1, <2>2, <2>3, UndisturbedKeeps
<1>10. ASSUME NEW t \in Tasks, NEW s \in Sems, GiveMutex(t, s) PROVE TakeInv'
  <2>1. PICK next : next = QFirst(pendQ[s], NULL)
      OBVIOUS
  <2>2. /\ code[t] = <<>> /\ code' = code /\ SemType[s] = "mutex" /\ semOwner[s] = t
        /\ semOwner' = [semOwner EXCEPT ![s] = next]
        /\ IF next = NULL THEN UNCHANGED kernVars ELSE vmxPendQGet(s)
        /\ todo = <<>> /\ taskIdCurrent' = t
      BY <1>1, <1>2, <1>10, <2>1 DEF GiveMutex
  <2>3. todo' = <<>> \/ todo' = Flush(t)
      BY <1>10, <2>2 DEF GiveMutex
  <2>4. \A r \in Sems : ~Taking(t, r)
      BY <2>2 DEF Taking
  <2>5. PlaceOK'
      BY <2>2, <2>4 DEF PlaceOK, Taking
  <2>6. FlushOK'
    <3>1. t \in PendQs /\ t \notin Sems
        BY VmxLibAssumption DEF PendQs
    <3> QED BY <2>3, <3>1, FlushesOK
  <2>7. /\ semOwner'[s] = next /\ \A r \in Sems : r # s => semOwner'[r] = semOwner[r]
        /\ s \in PendQs /\ pendQ[s] \in Seq(Tasks)
      BY <2>2 DEF SemTypes, KernTypes, PendQs
  <2>8. CASE next = NULL
    <3>1. UNCHANGED <<status, retVal, pendQ, code>> /\ NULL \notin Tasks
        BY <2>2, <2>8, VmxLibAssumption DEF kernVars
    <3>2. TakeOK'
        BY <1>4, <2>2, <2>4, <2>7, <2>8, <3>1
    <3> QED BY <2>5, <2>6, <3>2
  <2>9. CASE next # NULL
    <3>1. pendQ[s] # <<>> /\ next = Head(pendQ[s]) /\ unpend(s, "OK")
        BY <2>1, <2>2, <2>7, <2>9 DEF QFirst, vmxPendQGet
    <3>2. next \in Tasks
        BY <2>7, <3>1
    <3>3. \A u \in Tasks, r \in Sems :
              Taking(u, r) /\ u # next /\ SemType[r] = "mutex" =>
                 (semOwner'[r] = u <=> semOwner[r] = u)
        BY <2>2, <2>4, <2>7
    <3>4. TakeOK'
        BY <2>2, <2>7, <3>1, <3>2, <3>3, UnpendTakes
    <3> QED BY <2>5, <2>6, <3>4
  <2> QED BY <2>8, <2>9
<1>11. ASSUME NEW t \in Tasks, NEW s \in Sems, SemDelete(t, s) PROVE TakeInv'
  <2>1. /\ code' = [code EXCEPT ![t] = <<<<"unsafe">>>>] /\ taskIdCurrent' = t
        /\ UNCHANGED <<status, retVal, pendQ, semOwner>>
        /\ todo' = <<<<"terminate", s>>, <<"disown", s>>>>
      BY <1>1, <1>11 DEF SemDelete, kernVars
  <2>2. \A r \in Sems : <<<<"unsafe">>>> # <<<<"taken", r>>>>
      OBVIOUS
  <2>3. \A u \in Tasks, r \in Sems : Taking(u, r)' => Taking(u, r) /\ u # t
      BY <2>1, <2>2, NotTaking
  <2>4. \A u \in Tasks, r \in Sems : Undisturbed(u, r)
      BY <2>1 DEF Undisturbed
  <2>5. PlaceOK'
      BY <2>1, <2>3 DEF PlaceOK
  <2>6. Deletes(todo', s)
      BY <2>1 DEF Deletes
  <2> QED BY <2>3, <2>4, <2>5, <2>6, UndisturbedKeeps, FlushesOK
<1>12. ASSUME Caller, code' = code, UNCHANGED <<intr, taskIdCurrent>> PROVE PlaceOK'
  <2>1. CASE intr
      BY <1>12, <2>1 DEF PlaceOK
  <2>2. CASE ~intr
    <3>1. code[taskIdCurrent] = <<>>
        BY <1>12, <2>2 DEF Caller, InHandler
    <3> QED BY <1>12, <3>1 DEF PlaceOK, Taking
  <2> QED BY <2>1, <2>2
<1>13. ASSUME NEW s \in Sems, Give(s) PROVE TakeInv'
  <2>1. Caller /\ UNCHANGED <<code, intr, taskIdCurrent>> /\ GiveKernel(s)
        /\ SemType[s] # "mutex" /\ kpc = "user"
      BY <1>13 DEF Give, Caller, InHandler
  <2>2. todo' = <<>>
      BY <1>2, <1>13, <2>1 DEF Give
  <2> QED BY <1>12, <2>1, <2>2, GiveTakes, FlushesOK
<1>14. ASSUME NEW s \in Sems, SemFlush(s) PROVE TakeInv'
  <2>1. /\ Caller /\ UNCHANGED <<code, intr, taskIdCurrent, status, retVal, pendQ, semOwner>>
        /\ SemType[s] # "mutex" /\ todo' = Flush(s) /\ s \in PendQs
      BY <1>14 DEF SemFlush, kernVars, PendQs
  <2> QED BY <1>4, <1>12, <2>1, FlushesOK
<1> QED
  BY <1>5, <1>6, <1>7, <1>8, <1>9, <1>10, <1>11, <1>13, <1>14 DEF SemCall

\* The calls of taskLib: the task that makes one is in no take.
LEMMA TaskCallTakes ==
    ASSUME RunInv, RunInv', CallInv, TakeInv, TaskCall PROVE TakeInv'
<1> USE DEF RunInv, TypeInv, KernInv, TakeInv
<1> USE DEF SectionOnly, NoSection, semVars, semOnly, schedVars, Section, Free, At, Running
<1>1. kpc = "user" => todo = <<>>
    BY DEF SchedInv, SchedBase
<1>2. ASSUME UNCHANGED <<status, retVal, pendQ, semOwner>>
      PROVE  \A u \in Tasks, r \in Sems : Undisturbed(u, r)
    BY <1>2 DEF Undisturbed
<1>3. ASSUME NEW t \in Tasks, taskIdCurrent' = t, NEW c, code' = [code EXCEPT ![t] = c],
             c = <<>> \/ Head(c)[1] # "taken",
             \A u \in Tasks, r \in Sems : u # t => Undisturbed(u, r),
             todo' = <<>> \/ \E v \in Tasks : todo' = Flush(v)
      PROVE  TakeInv'
  <2>1. \A r \in Sems : c # <<<<"taken", r>>>>
      BY <1>3
  <2>2. \A u \in Tasks, r \in Sems : Taking(u, r)' => Taking(u, r) /\ u # t
      BY <1>3, <2>1, NotTaking
  <2>3. TakeOK'
      BY <1>3, <2>2, UndisturbedKeeps
  <2>4. PlaceOK'
      BY <1>3, <2>2 DEF PlaceOK
  <2>5. FlushOK'
    <3>1. Tasks \subseteq PendQs /\ Tasks \cap Sems = {}
        BY VmxLibAssumption DEF PendQs
    <3> QED BY <1>3, <3>1, FlushesOK
  <2> QED BY <2>3, <2>4, <2>5
<1>4. ASSUME NEW t \in Tasks, taskIdCurrent' = t, code' = code,
             code[t] = <<>> \/ Head(code[t])[1] # "taken",
             \A u \in Tasks, r \in Sems : u # t => Undisturbed(u, r),
             todo' = <<>> \/ \E v \in Tasks : todo' = Flush(v)
      PROVE  TakeInv'
  <2>1. code' = [code EXCEPT ![t] = code[t]]
      BY <1>4 DEF CodeTypes
  <2> QED BY <1>3, <1>4, <2>1
<1>5. ASSUME NEW n
      PROVE  LET d == AfterDrop(n) IN
             /\ d = <<>> \/ Head(d)[1] # "taken"
             /\ d \o <<>> = <<>> \/ Head(d \o <<>>)[1] # "taken"
             /\ Head(d \o <<<<"unsafe">>>>)[1] # "taken"
  <2>1. PICK d : d = AfterDrop(n)
      OBVIOUS
  <2>2. d \o <<>> = d /\ d \in {<<>>, <<<<"flushSafety">>>>}
      BY <2>1, DropSteps
  <2>3. CASE d = <<>>
    <3>1. d \o <<<<"unsafe">>>> = <<<<"unsafe">>>>
        BY <2>3
    <3>2. Head(<<<<"unsafe">>>>)[1] # "taken"
        OBVIOUS
    <3> QED BY <2>1, <2>2, <2>3, <3>1, <3>2
  <2>4. CASE d = <<<<"flushSafety">>>>
    <3>1. d \o <<<<"unsafe">>>> = Flushing
        BY <2>4, TwoSteps DEF Flushing
    <3>2. Head(Flushing)[1] # "taken" /\ Head(d)[1] # "taken"
        BY <2>4 DEF Flushing
    <3> QED BY <2>1, <2>2, <3>1, <3>2
  <2> QED BY <2>2, <2>3, <2>4
<1>6. ASSUME NEW t \in Tasks, At(t, "destroy")
      PROVE  /\ Tail(code[t]) = <<>> /\ Arg(t, 2) \in Tasks \ {t}
             /\ Head(code[t])[1] # "taken"
  <2>1. Head(code[t]) \in LastSteps(t) /\ Tail(code[t]) = <<>>
      BY <1>6, NextStep DEF CallInv
  <2>2. Arg(t, 2) \in Tasks
      BY <1>6, CodeStays, StepShape DEF Arg
  <2> QED BY <1>6, <2>1, <2>2 DEF LastSteps, Arg
<1>7. <<>> \o <<>> = <<>>
    OBVIOUS
<1>8. ASSUME NEW t \in Tasks, NEW op \in Ops, TaskVerified(t, op) PROVE TakeInv'
  <2>1. Head(<<op>>)[1] # "taken"
      BY DEF Ops, OpsOn
  <2> QED BY <1>1, <1>2, <1>3, <1>8, <2>1 DEF TaskVerified, Call, kernVars
<1>9. ASSUME NEW t \in Tasks, TaskApplied(t) PROVE TakeInv'
  <2>1. Head(code[t]) \in CallSteps /\ Head(code[t])[1] \in TaskOps /\ code[t] # <<>>
      BY <1>9, CodeStays DEF TaskApplied
  <2>2. \A u \in Tasks, r \in Sems : Undisturbed(u, r)
      BY <1>9, <2>1, StepShape, TaskKernelTakes DEF TaskApplied
  <2>3. Tail(code[t]) = <<>>
      BY <2>1, NextStep DEF CallInv, TaskOps
  <2>4. code' = [code EXCEPT ![t] = <<>>]
      BY <1>7, <1>9, <2>3 DEF TaskApplied, GoOn
  <2> QED BY <1>3, <1>9, <2>2, <2>4 DEF TaskApplied
<1>10. ASSUME NEW t \in Tasks, NEW n, taskDelay(t, n) PROVE TakeInv'
  <2>1. /\ \A u \in Tasks : u # t => status'[u] = status[u]
        /\ UNCHANGED <<retVal, pendQ, semOwner>>
      BY <1>10 DEF taskDelay, yield, vmxDelay, KernTypes
  <2>2. \A u \in Tasks, r \in Sems : u # t => Undisturbed(u, r)
      BY <2>1 DEF Undisturbed
  <2> QED BY <1>4, <1>10, <2>2 DEF taskDelay
<1>11. ASSUME NEW t \in Tasks, taskLock(t) PROVE TakeInv'
  <2>1. /\ UNCHANGED <<status, retVal, pendQ, semOwner>> /\ todo' = <<>>
        /\ taskIdCurrent' = t
      BY <1>1, <1>11 DEF taskLock, kernVars
  <2>2. CASE Free(t) /\ UNCHANGED code
      BY <1>2, <1>4, <2>1, <2>2
  <2>3. CASE At(t, "lock") /\ GoOn(t, <<>>)
    <3>1. PICK v \in Tasks \ {t} : Tail(code[t]) = Killing(v)
        BY <2>3, NextStep DEF CallInv
    <3>2. <<>> \o Killing(v) = Killing(v) /\ Head(Killing(v))[1] # "taken"
        BY DEF Killing
    <3> QED BY <1>2, <1>3, <2>1, <2>3, <3>1, <3>2 DEF GoOn
  <2> QED BY <1>11, <2>2, <2>3 DEF taskLock
<1>12. ASSUME NEW t \in Tasks, taskUnlock(t) PROVE TakeInv'
  <2>1. /\ UNCHANGED <<status, retVal, pendQ, semOwner>> /\ todo' = <<>>
        /\ taskIdCurrent' = t
      BY <1>1, <1>12 DEF taskUnlock, kernVars
  <2>2. CASE Call(t, AfterDrop(lockCount[t]))
      BY <1>2, <1>3, <1>5, <2>1, <2>2 DEF Call
  <2>3. CASE At(t, "unlock") /\ GoOn(t, AfterDrop(lockCount[t]))
    <3>1. Tail(code[t]) = <<<<"unsafe">>>>
        BY <2>3, NextStep DEF CallInv
    <3> QED BY <1>2, <1>3, <1>5, <2>1, <2>3, <3>1 DEF GoOn
  <2> QED BY <1>12, <2>2, <2>3 DEF taskUnlock
<1>13. ASSUME NEW t \in Tasks, taskSafe(t) PROVE TakeInv'
    BY <1>1, <1>2, <1>4, <1>13 DEF taskSafe, kernVars
<1>14. ASSUME NEW t \in Tasks, taskUnsafe(t) PROVE TakeInv'
  <2>1. /\ UNCHANGED <<status, retVal, pendQ, semOwner>> /\ todo' = <<>>
        /\ taskIdCurrent' = t
      BY <1>1, <1>14 DEF taskUnsafe, kernVars
  <2>2. CASE Call(t, AfterDrop(safeCount[t]))
      BY <1>2, <1>3, <1>5, <2>1, <2>2 DEF Call
  <2>3. CASE At(t, "unsafe") /\ GoOn(t, AfterDrop(safeCount[t]))
    <3>1. Tail(code[t]) = <<>>
        BY <2>3, NextStep DEF CallInv
    <3> QED BY <1>2, <1>3, <1>5, <2>1, <2>3, <3>1 DEF GoOn
  <2> QED BY <1>14, <2>2, <2>3 DEF taskUnsafe
<1>15. ASSUME NEW t \in Tasks, FlushSafety(t) PROVE TakeInv'
  <2>1. Tail(code[t]) \in {<<<<"unsafe">>>>, <<>>}
      BY <1>15, NextStep DEF CallInv, FlushSafety
  <2>2. <<>> \o Tail(code[t]) = Tail(code[t])
      BY <2>1
  <2>3. Tail(code[t]) = <<>> \/ Head(Tail(code[t]))[1] # "taken"
    <3>1. Head(<<<<"unsafe">>>>)[1] # "taken"
        OBVIOUS
    <3> QED BY <2>1, <3>1
  <2> QED BY <1>2, <1>3, <1>15, <2>2, <2>3 DEF FlushSafety, GoOn, kernVars
<1>16. ASSUME NEW t \in Tasks, NEW v \in Tasks, NEW f \in BOOLEAN, DestroyCalled(t, v, f)
       PROVE  TakeInv'
  <2>1. Head(<<<<"destroy", v, f>>>>)[1] # "taken"
      OBVIOUS
  <2> QED BY <1>1, <1>2, <1>3, <1>16, <2>1 DEF DestroyCalled, Call, kernVars
<1>17. ASSUME NEW t \in Tasks, DestroyTooLate(t) PROVE TakeInv'
    BY <1>1, <1>2, <1>3, <1>6, <1>7, <1>17 DEF DestroyTooLate, GoOn, kernVars
<1>18. ASSUME NEW t \in Tasks, DestroyWaits(t) PROVE TakeInv'
  <2>1. PICK v \in Tasks : v = Arg(t, 2)
      BY <1>6, <1>18 DEF DestroyWaits
  <2>2. vmxPendQPut(v, t, WAIT_FOREVER) /\ semOwner' = semOwner
      BY <1>18, <2>1 DEF DestroyWaits
  <2>3. /\ \A u \in Tasks : u # t => status'[u] = status[u]
        /\ retVal' = retVal /\ \A q \in PendQs : q # v => pendQ'[q] = pendQ[q]
      BY <2>2 DEF vmxPendQPut, KernTypes
  <2>4. v \notin Sems /\ Sems \subseteq PendQs
      BY VmxLibAssumption DEF PendQs
  <2>5. \A u \in Tasks, r \in Sems : u # t => Undisturbed(u, r)
      BY <2>2, <2>3, <2>4 DEF Undisturbed
  <2> QED BY <1>4, <1>6, <1>18, <2>5 DEF DestroyWaits
<1>19. ASSUME NEW t \in Tasks, DestroyForces(t) PROVE TakeInv'
    BY <1>2, <1>4, <1>6, <1>19 DEF DestroyForces, kernVars
<1>20. ASSUME NEW t \in Tasks, DestroySuspends(t) PROVE TakeInv'
  <2>1. PICK v \in Tasks \ {t} : v = Arg(t, 2)
      BY <1>6, <1>20 DEF DestroySuspends
  <2>2. /\ status' = [status EXCEPT ![v] = status[v] \cup {"suspend"}]
        /\ UNCHANGED <<retVal, pendQ, semOwner>>
      BY <1>20, <2>1 DEF DestroySuspends, vmxSuspend
  <2>3. \A u \in Tasks, r \in Sems : Undisturbed(u, r)
      BY <2>2 DEF Undisturbed, KernTypes
  <2>4. code' = [code EXCEPT ![t] = Locking(v) \o <<>>]
      BY <1>6, <1>20, <2>1 DEF DestroySuspends, GoOn, Locking
  <2>5. Locking(v) \o <<>> = Locking(v) /\ Head(Locking(v))[1] # "taken"
      BY DEF Locking
  <2> QED BY <1>3, <1>20, <2>3, <2>4, <2>5 DEF DestroySuspends
<1>21. ASSUME NEW t \in Tasks, DestroyKills(t) PROVE TakeInv'
  <2>1. PICK v \in Tasks \ {t} : v = Arg(t, 2) /\ Tail(code[t]) = Unlocking
      BY <1>21, NextStep DEF CallInv, DestroyKills, Arg
  <2>2. /\ code' = [code EXCEPT ![t] = Unlocking, ![v] = <<>>]
        /\ status' = [status EXCEPT ![v] = {"dead"}] /\ todo' = Flush(v)
        /\ UNCHANGED <<retVal, semOwner>> /\ vmxDelete(v) /\ taskIdCurrent' = t
      BY <1>21, <2>1 DEF DestroyKills, vmxDelete
  <2>3. /\ code'[t] = Unlocking /\ code'[v] = <<>>
        /\ \A u \in Tasks : u # t /\ u # v => code'[u] = code[u]
      BY <2>2 DEF CodeTypes
  <2>4. \A r \in Sems : Unlocking # <<<<"taken", r>>>> /\ <<>> # <<<<"taken", r>>>>
    <3>1. Head(Unlocking)[1] = "unlock" /\ Unlocking # <<>>
        BY DEF Unlocking
    <3> QED BY <3>1
  <2>5. \A u \in Tasks, r \in Sems : Taking(u, r)' => Taking(u, r) /\ u # t /\ u # v
      BY <2>3, <2>4 DEF Taking
  <2>6. QueuesShrink /\ Sems \subseteq PendQs
      BY <2>2, DeleteShrink DEF PendQs
  <2>7. \A u \in Tasks : u # v => status'[u] = status[u]
      BY <2>2 DEF KernTypes
  <2>8. ASSUME NEW u \in Tasks, u # v, NEW r \in Sems PROVE Undisturbed(u, r)
    <3>1. "pend" \in status'[u] /\ u \in Elements(pendQ[r]) => u \in Elements(pendQ'[r])
        BY <2>6, StillQueued
    <3> QED BY <2>2, <2>7, <2>8, <3>1 DEF Undisturbed
  <2>9. TakeOK'
      BY <2>5, <2>8, UndisturbedKeeps
  <2>10. PlaceOK'
      BY <2>2, <2>5 DEF PlaceOK
  <2>11. FlushOK'
    <3>1. v \in PendQs /\ v \notin Sems
        BY VmxLibAssumption DEF PendQs
    <3> QED BY <2>2, <3>1, FlushesOK
  <2> QED BY <2>9, <2>10, <2>11
<1> QED
  BY <1>8, <1>9, <1>10, <1>11, <1>12, <1>13, <1>14, <1>15, <1>16, <1>17, <1>18, <1>19,
     <1>20, <1>21 DEF TaskCall

\* The code of the kernel, and the jobs.
LEMMA KernelTakes ==
    ASSUME RunInv, RunInv', CallInv, TakeInv, Kernel PROVE TakeInv'
<1> USE DEF RunInv, TypeInv, KernInv, TakeInv
<1>1. ASSUME UNCHANGED <<status, retVal, pendQ, code, semOwner>> PROVE TakeOK'
    BY <1>1 DEF TakeOK, WaitOK, Taking
<1>2. ASSUME UNCHANGED <<code, taskIdCurrent, kpc, intr>>, todo # <<>> \/ kpc # "exit"
      PROVE  PlaceOK'
    BY <1>2 DEF PlaceOK, Taking
<1>3. CASE SchedStep /\ UNCHANGED <<semVars, safes>>
  <2> USE DEF semVars
  <2>1. CASE ExitFromInt \/ SwitchTasks \/ Dispatch \/ NoTaskReady
    <3>1. UNCHANGED <<status, retVal, pendQ, code, semOwner, todo, intr>>
        BY <1>3, <2>1 DEF ExitFromInt, SwitchTasks, Dispatch, NoTaskReady, othersThan, kernVars
    <3>2. intr' \/ kpc' \notin {"exit", "work"}
        BY <2>1, <3>1 DEF ExitFromInt, SwitchTasks, Dispatch, NoTaskReady
    <3> QED BY <1>1, <3>1, <3>2 DEF PlaceOK, FlushOK
  <2>2. CASE ExitToCaller
    <3>1. UNCHANGED <<status, retVal, pendQ, code, semOwner, todo, intr, taskIdCurrent>>
        BY <1>3, <2>2 DEF ExitToCaller, othersThan, kernVars
    <3>2. Ready(taskIdCurrent)
        BY <2>2, HeadReady DEF ExitToCaller, Locked, SchedTypes
    <3>3. \A s \in Sems : ~Taking(taskIdCurrent, s)
        BY <2>2, <3>2 DEF ExitToCaller, KernelAt, PlaceOK, Ready
    <3> QED BY <1>1, <3>1, <3>3 DEF PlaceOK, FlushOK, Taking
  <2>3. CASE SaveTaskContext
    <3>1. PICK cur \in Tasks : cur = taskIdCurrent
        BY DEF SchedTypes
    <3>2. /\ UNCHANGED <<status, pendQ, code, semOwner, todo>> /\ kpc' = "resched"
          /\ retVal' = [retVal EXCEPT ![cur] = "OK"] /\ kpc = "exit" /\ ~intr
        BY <1>3, <2>3, <3>1 DEF SaveTaskContext, KernelAt
    <3>3. \A s \in Sems : Taking(cur, s) => "pend" \in status[cur]
        BY <3>1, <3>2 DEF PlaceOK
    <3>4. \A u \in Tasks : u # cur => retVal'[u] = retVal[u]
        BY <3>2 DEF KernTypes
    <3>5. TakeOK'
        BY <3>2, <3>3, <3>4 DEF TakeOK, WaitOK, Taking
    <3> QED BY <3>2, <3>5 DEF PlaceOK, FlushOK
  <2>4. CASE WorkDone
    <3>1. UNCHANGED <<status, retVal, pendQ, code, semOwner, todo, intr, taskIdCurrent>>
        BY <1>3, <2>4 DEF WorkDone, othersThan, kernVars
    <3>2. kpc' = "recheck" \/ kpc = "work"
        BY <2>4 DEF WorkDone
    <3> QED BY <1>1, <3>1, <3>2 DEF PlaceOK, FlushOK, Taking
  <2> USE DEF loopVars
  <2>5. CASE FlushLoop
    <3>1. PICK q \in PendQs : q = Head(todo)[2] /\ todo = <<<<"flush", q>>>> /\ Tail(todo) = <<>>
        BY <2>5, NextLoop DEF FlushLoop, CallInv
    <3>2. PlaceOK' /\ UNCHANGED <<code, semOwner>>
        BY <1>2, <1>3, <2>5 DEF FlushLoop, Todo
    <3>3. q \in Sems => SemType[q] # "mutex"
        BY <3>1 DEF FlushOK
    <3>4. CASE pendQ[q] # <<>>
      <4>1. PICK t \in Tasks : t = Head(pendQ[q])
          BY <3>4 DEF KernTypes
      <4>2. unpend(q, "OK") /\ todo' = todo
          BY <2>5, <3>1, <3>4 DEF FlushLoop, vmxPendQFlush
      <4>3. TakeOK'
          BY <3>2, <3>3, <3>4, <4>1, <4>2, UnpendTakes
      <4> QED BY <3>2, <4>2, <4>3 DEF FlushOK
    <3>5. CASE pendQ[q] = <<>>
      <4>1. UNCHANGED <<status, retVal, pendQ>> /\ todo' = <<>>
          BY <2>5, <3>1, <3>5 DEF FlushLoop, kernVars
      <4> QED BY <1>1, <3>2, <4>1, FlushesOK
    <3> QED BY <3>4, <3>5
  <2>6. CASE TerminateLoop
    <3>1. PICK s \in Sems : s = Head(todo)[2] /\ Tail(todo) = <<<<"disown", s>>>>
        BY <2>6, NextLoop DEF TerminateLoop, Todo, CallInv
    <3>2. PlaceOK' /\ UNCHANGED <<code, semOwner>> /\ s \in PendQs
        BY <1>2, <1>3, <2>6 DEF TerminateLoop, Todo, PendQs
    <3>3. CASE pendQ[s] # <<>>
      <4>1. PICK t \in Tasks : t = Head(pendQ[s])
          BY <3>2, <3>3 DEF KernTypes
      <4>2. unpend(s, "ERROR") /\ todo' = todo
          BY <2>6, <3>1, <3>3 DEF TerminateLoop, vmxPendQTerminate
      <4>3. TakeOK'
          BY <3>2, <3>3, <4>1, <4>2, UnpendTakes
      <4> QED BY <3>2, <4>2, <4>3 DEF FlushOK
    <3>4. CASE pendQ[s] = <<>>
      <4>1. UNCHANGED <<status, retVal, pendQ>> /\ Deletes(todo', s)
          BY <2>6, <3>1, <3>4 DEF TerminateLoop, kernVars, Deletes
      <4> QED BY <1>1, <3>2, <4>1, FlushesOK
    <3> QED BY <3>3, <3>4
  <2>7. CASE ExpireLoop
    <3>1. PlaceOK' /\ UNCHANGED <<code, semOwner>>
        BY <1>2, <1>3, <2>7 DEF ExpireLoop, Todo
    <3>2. CASE Expired
        BY <2>7, <3>1, <3>2, ExpireTakes DEF ExpireLoop, FlushOK
    <3>3. CASE ~Expired
      <4>1. Tail(todo) = <<<<"slice">>>>
          BY <2>7, NextLoop DEF ExpireLoop, CallInv
      <4>2. UNCHANGED <<status, retVal, pendQ>> /\ todo' = <<<<"slice">>>>
          BY <2>7, <3>3, <4>1 DEF ExpireLoop, kernVars
      <4> QED BY <1>1, <3>1, <4>2, FlushesOK
    <3> QED BY <3>2, <3>3
  <2>8. CASE RoundRobin
    <3>1. PlaceOK' /\ UNCHANGED <<code, semOwner>>
        BY <1>2, <1>3, <2>8 DEF RoundRobin, Todo
    <3>2. Tail(todo) = <<>>
        BY <2>8, NextLoop DEF RoundRobin, CallInv
    <3>3. UNCHANGED <<status, retVal, pendQ>> /\ todo' = <<>>
        BY <2>8, <3>2 DEF RoundRobin, yield, kernVars
    <3> QED BY <1>1, <3>1, <3>3, FlushesOK
  <2> QED BY <1>3, <2>1, <2>2, <2>3, <2>4, <2>5, <2>6, <2>7, <2>8 DEF SchedStep
<1>4. CASE Disown
  <2>1. PICK s \in Sems : s = Head(todo)[2] /\ Tail(todo) = <<>>
    <3>1. Todo("disown")
        BY <1>4 DEF Disown
    <3>2. PICK s \in Sems : todo = <<<<"disown", s>>>> /\ Tail(todo) = <<>>
        BY <3>1, NextLoop DEF CallInv
    <3>3. Head(todo)[2] = s
        BY <3>2
    <3> QED BY <3>2, <3>3
  <2>2. PICK o : o = semOwner[s]
      OBVIOUS
  <2>3. /\ UNCHANGED <<status, retVal, pendQ, code, semOwner, taskIdCurrent, kpc, intr>>
        /\ todo # <<>>
        /\ todo' = <<>> \o <<>> \/ (o # NULL /\ todo' = Flush(o) \o <<>>)
      BY <1>4, <2>1, <2>2 DEF Disown, Todo, kernVars, loopVars
  <2>4. o \in Tasks \cup {NULL} /\ Tasks \subseteq PendQs /\ Tasks \cap Sems = {}
      BY <2>2, VmxLibAssumption DEF SemTypes, PendQs
  <2>5. o # NULL => Flush(o) \in Seq(TodoItems)
      BY <2>4, FlushTypes
  <2>6. todo' = <<>> \/ \E v \in Tasks : todo' = Flush(v)
      BY <2>3, <2>4, <2>5
  <2>7. FlushOK'
      BY <2>4, <2>6, FlushesOK
  <2> QED BY <1>1, <1>2, <2>3, <2>7
<1>5. CASE RunJob
  <2>1. PICK j \in CallJobs : j = Head(workQ)
      BY <1>5 DEF RunJob, TakeJob, WorkTypes
  <2>2. code' = code /\ PlaceOK'
      BY <1>2, <1>5 DEF RunJob, TakeJob, KernelAt, semVars
  <2>3. CASE todo' = todo
    <3>1. FlushOK'
        BY <2>3 DEF FlushOK
    <3>2. CASE j[1] = "give" /\ SemType[j[2]] # "mutex" /\ GiveKernel(j[2])
        BY <2>1, <2>2, <3>1, <3>2, GiveTakes, CallJobShape
    <3>3. CASE j[1] \in TaskOps /\ TaskKernel(j) /\ UNCHANGED semVars
      <4>1. \A u \in Tasks, r \in Sems : Undisturbed(u, r)
          BY <2>1, <3>3, CallJobShape, TaskKernelTakes DEF semVars
      <4> QED BY <2>2, <3>1, <4>1, UndisturbedKeeps DEF Taking
    <3>4. CASE UNCHANGED <<kernVars, semVars>>
        BY <1>1, <2>2, <3>1, <3>4 DEF kernVars, semVars
    <3> QED BY <1>1, <1>5, <2>1, <2>2, <3>1, <3>2, <3>3, <3>4 DEF RunJob, advance, semVars
  <2>4. CASE j[1] = "tick" /\ advance /\ todo' = TickLoops /\ UNCHANGED semVars
      BY <1>1, <2>2, <2>4, FlushesOK DEF advance, semVars
  <2>5. CASE /\ j[1] = "flush" /\ SemType[j[2]] # "mutex" /\ todo' = Flush(j[2])
             /\ UNCHANGED <<kernVars, semVars>>
    <3>1. j[2] \in PendQs
        BY <2>1, <2>5, CallJobShape DEF PendQs
    <3> QED BY <1>1, <2>2, <2>5, <3>1, FlushesOK DEF kernVars, semVars
  <2> QED BY <1>5, <2>1, <2>3, <2>4, <2>5 DEF RunJob
<1> QED BY <1>3, <1>4, <1>5 DEF Kernel

\* intEnt, intExit, tickAnnounce, and the calls handlers make or defer.
LEMMA InterruptTakes ==
    ASSUME RunInv, RunInv', TakeInv, Interrupt PROVE TakeInv'
<1> USE DEF RunInv, TypeInv, KernInv, TakeInv, semVars
<1>1. UNCHANGED <<code, semOwner, taskIdCurrent>>
    BY DEF Interrupt, HandlerStarts, HandlerEnds, IntEnt, IntExit, Tick, TaskFromHandler,
       Post, SectionOnly
<1>2. \A u \in Tasks, r \in Sems : Undisturbed(u, r)
  <2>1. ASSUME NEW op \in Ops, TaskFromHandler(op)
        PROVE  \A u \in Tasks, r \in Sems : Undisturbed(u, r)
      BY <1>1, <2>1, TaskKernelTakes DEF TaskFromHandler
  <2> QED BY <1>1, <2>1 DEF Interrupt, HandlerStarts, HandlerEnds, IntEnt, IntExit,
             Tick, advance, Post, kernVars, Undisturbed
<1>3. TakeOK'
    BY <1>1, <1>2, UndisturbedKeeps DEF Taking
<1>4. PlaceOK'
  <2>1. CASE \E j \in Jobs : Post(j)
      BY <1>1, <2>1, <1>2 DEF Post, PlaceOK, Taking, kernVars
  <2>2. CASE ~\E j \in Jobs : Post(j)
    <3>1. kpc' \notin {"exit", "work"} \/ intr'
        BY <2>2 DEF Interrupt, HandlerStarts, HandlerEnds, IntEnt, IntExit, Tick, InHandler,
           TaskFromHandler, SectionOnly
    <3> QED BY <3>1 DEF PlaceOK
  <2> QED BY <2>1, <2>2
<1>5. FlushOK'
  <2>1. todo' = todo \/ todo' \in {<<>>, TickLoops}
      BY DEF Interrupt, HandlerStarts, HandlerEnds, IntEnt, IntExit, Tick, Section,
         TaskFromHandler, Post
  <2>2. CASE todo' = todo
      BY <2>2 DEF FlushOK
  <2> QED BY <2>1, <2>2, FlushesOK
<1> QED BY <1>3, <1>4, <1>5

\* semMTake returns OK to a task that had to wait exactly if the mutex is its
\* own then: vmxPendQGet, vmxPendQTerminate, a timeout and vmxExit each write
\* the return value, and what they write fits semOwner when the task goes on.
THEOREM TakesRight == ASSUME NoUndelay PROVE Spec => []TakeTellsOwner
<1>1. Init => TakeInv
  <2> SUFFICES ASSUME Init PROVE TakeInv
      OBVIOUS
  <2>1. \A t \in Tasks, s \in Sems : ~Taking(t, s)
      BY DEF Init, Taking
  <2>2. taskIdCurrent \in Tasks
      BY InitTypes DEF TypeInv, SchedTypes
  <2>3. FlushOK
    <3>1. \A s : <<>> # <<<<"flush", s>>>>
        OBVIOUS
    <3> QED BY <3>1 DEF Init, FlushOK
  <2> QED BY <2>1, <2>2, <2>3 DEF TakeInv, TakeOK, PlaceOK
<1>2. RunInv /\ CallInv /\ TakeInv /\ [Next]_vars => TakeInv'
  <2> SUFFICES ASSUME RunInv, CallInv, TakeInv, [Next]_vars PROVE TakeInv'
      OBVIOUS
  <2>1. CASE UNCHANGED vars
      BY <2>1 DEF vars, kernVars, schedVars, semVars, TakeInv, TakeOK, WaitOK, PlaceOK,
         FlushOK, Taking
  <2>2. RunInv'
      BY NextRuns
  <2> QED BY <2>1, <2>2, SemCallTakes, TaskCallTakes, KernelTakes, InterruptTakes DEF Next
<1>3. RunInv /\ CallInv /\ TakeInv => TakeTellsOwner
  <2> SUFFICES ASSUME RunInv, CallInv, TakeInv, NEW t \in Tasks, At(t, "taken"),
                      SemType[Arg(t, 2)] = "mutex"
               PROVE  retVal[t] = "OK" <=> semOwner[Arg(t, 2)] = t
      BY DEF TakeTellsOwner
  <2>1. Running(t) /\ code[t] # <<>> /\ Head(code[t])[1] = "taken"
      BY DEF At
  <2>2. code[t] = <<Head(code[t])>> /\ Head(code[t]) \in LastSteps(t)
      BY <2>1, NextStep DEF CallInv, RunInv, TypeInv
  <2>3. PICK s \in Sems : Head(code[t]) = <<"taken", s>>
      BY <2>1, <2>2 DEF LastSteps, CallSteps, Steps, Ops, OpsOn
  <2>4. Taking(t, s) /\ Arg(t, 2) = s
      BY <2>2, <2>3 DEF Taking, Arg
  <2>5. "pend" \notin status[t]
      BY <2>1, RunningReady DEF Ready
  <2> QED BY <2>4, <2>5 DEF TakeInv, TakeOK, WaitOK
<1> QED BY <1>1, <1>2, <1>3, RunsInductive, CallsInductive, PTL DEF Spec
=============================================================================
