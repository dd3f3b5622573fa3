------------------------------ MODULE VmxTask -------------------------------
(***************************************************************************)
(* Tasks (src/vmx/taskLib.c): suspend, resume, delay, priority, preemption *)
(* lock, deletion safety, and the deletion of one task by another.         *)
(*                                                                         *)
(* taskSuspend, taskResume and taskPrioritySet verify the id of the task   *)
(* before they look at kernelState and without INT_LOCK, so they are two   *)
(* steps when a task calls them; nothing can come between the two in a     *)
(* handler.  taskUnlock and taskUnsafe leave the count at zero before they *)
(* set kernelState.  The steps of taskDestroy are "destroy", "lock",       *)
(* "kill", "unlock" and "unsafe".                                          *)
(***************************************************************************)
EXTENDS VmxSem

CONSTANT MaxSafe      \* bound: calls of taskSafe that one task has open

ASSUME VmxTaskAssumption == MaxSafe \in Nat

VARIABLE safes        \* of each task: its calls of taskSafe without taskUnsafe

semOnly == <<semValid, semOwner, semCount, recurse>>

\* Task t is done with the first step of its call and has these before the rest.
GoOn(t, steps) == code' = [code EXCEPT ![t] = steps \o Tail(@)]
Call(t, steps) == code' = [code EXCEPT ![t] = steps]

\* Bug: safeCount is not looked at.
ProtectedIfLocked(v) == Ready(v) /\ lockCount[v] > 0

\* Preemption of v is off while it can run, or v is safe: v is not to be
\* deleted.
Protected(v) == safeCount[v] > 0 \/ (Ready(v) /\ lockCount[v] > 0)

TaskOps == {"suspend", "resume", "undelay", "priority"}

\* The routine of the kernel that does the work of a call or of a job.
TaskKernel(op) ==
    CASE op[1] = "suspend"  -> vmxSuspend(op[2])
      [] op[1] = "resume"   -> vmxResume(op[2])
      [] op[1] = "undelay"  -> vmxUndelay(op[2])
      [] op[1] = "priority" -> vmxPrioritySet(op[2], op[3])

-----------------------------------------------------------------------------
\* taskSuspend, taskResume, taskUndelay, taskPrioritySet: the id is verified.
TaskVerified(t, op) ==
    /\ Free(t) /\ Alive(op[2])
    /\ Call(t, <<op>>)
    /\ UNCHANGED <<semOnly, safeCount, safes>>
    /\ NoSection

\* kernelState was FALSE: the work is done at once.
TaskApplied(t) ==
    /\ \E name \in TaskOps : At(t, name)
    /\ Section(<<>>)
    /\ TaskKernel(Head(code[t]))
    /\ GoOn(t, <<>>)
    /\ UNCHANGED <<semOnly, safeCount, safes>>
    /\ SectionOnly

\* The same in a handler that found kernelState FALSE.
TaskFromHandler(op) ==
    /\ InHandler /\ Alive(op[2])
    /\ Section(<<>>)
    /\ TaskKernel(op)
    /\ UNCHANGED <<semVars, safes>>
    /\ SectionOnly

taskDelay(t, timeout) ==
    /\ Free(t)
    /\ Section(<<>>)
    /\ IF timeout = WAIT_NONE THEN yield(t) ELSE vmxDelay(t, timeout)
    /\ UNCHANGED <<semVars, safes>>
    /\ SectionOnly

-----------------------------------------------------------------------------
\* taskLock, called by the task or by taskDestroy.
taskLock(t) ==
    /\ \/ Free(t) /\ lockCount[t] < MaxLock /\ UNCHANGED code
       \/ At(t, "lock") /\ GoOn(t, <<>>)
    /\ lockCount' = [lockCount EXCEPT ![t] = @ + 1]
    /\ UNCHANGED <<semOnly, safeCount, safes, kernVars, taskIdCurrent,
                   kernelIsIdle, kpc, todo, workQ, intr, intOff, savedIntOff,
                   timeSlice>>

\* The steps behind a count that was n and is decremented: at zero the kernel
\* is entered.
AfterDrop(n) == IF n = 1 THEN <<<<"flushSafety">>>> ELSE <<>>

\* taskUnlock, up to the test of the count.  A count that is zero stays zero.
taskUnlock(t) ==
    /\ \/ Free(t) /\ lockCount[t] > 0 /\ Call(t, AfterDrop(lockCount[t]))
       \/ At(t, "unlock") /\ GoOn(t, AfterDrop(lockCount[t]))
    /\ lockCount' = [lockCount EXCEPT ![t] = IF @ > 0 THEN @ - 1 ELSE 0]
    /\ UNCHANGED <<semOnly, safeCount, safes, kernVars, taskIdCurrent,
                   kernelIsIdle, kpc, todo, workQ, intr, intOff, savedIntOff,
                   timeSlice>>

taskSafe(t) ==
    /\ Free(t) /\ safes[t] < MaxSafe
    /\ safeCount' = [safeCount EXCEPT ![t] = Plus1(@)]
    /\ safes' = [safes EXCEPT ![t] = @ + 1]
    /\ UNCHANGED <<semOnly, code>>
    /\ NoSection

\* taskUnsafe, up to the test of the count.  A count that is zero stays zero.
taskUnsafe(t) ==
    /\ \/ /\ Free(t) /\ safes[t] > 0
          /\ safes' = [safes EXCEPT ![t] = @ - 1]
          /\ Call(t, AfterDrop(safeCount[t]))
       \/ /\ At(t, "unsafe")
          /\ GoOn(t, AfterDrop(safeCount[t]))
          /\ UNCHANGED safes
    /\ safeCount' = [safeCount EXCEPT ![t] = IF @ > 0 THEN @ - 1 ELSE 0]
    /\ UNCHANGED semOnly
    /\ NoSection

\* Bug: nobody is told that the task is not safe any more.
FlushSafetyForgotten(t) ==
    /\ At(t, "flushSafety")
    /\ Section(<<>>)
    /\ GoOn(t, <<>>)
    /\ UNCHANGED <<semOnly, safeCount, safes, kernVars>>
    /\ SectionOnly

\* The kernel section of taskUnlock and taskUnsafe.
FlushSafety(t) ==
    /\ At(t, "flushSafety")
    /\ Section(Flush(t))
    /\ GoOn(t, <<>>)
    /\ UNCHANGED <<semOnly, safeCount, safes, kernVars>>
    /\ SectionOnly

-----------------------------------------------------------------------------
(***************************************************************************)
(* taskDestroy(v) by another task t, with WAIT_FOREVER.                    *)
(***************************************************************************)
DestroyCalled(t, v, force) ==
    /\ Free(t) /\ t # v /\ Alive(v)
    /\ Call(t, <<<<"destroy", v, force>>>>)
    /\ UNCHANGED <<semOnly, safeCount, safes>>
    /\ NoSection

\* v was deleted meanwhile.
DestroyTooLate(t) ==
    /\ At(t, "destroy") /\ ~Alive(Arg(t, 2))
    /\ GoOn(t, <<>>)
    /\ UNCHANGED <<semOnly, safeCount, safes>>
    /\ NoSection

\* v is protected: t waits in its safety queue and then looks again.
DestroyWaits(t) ==
    LET v == Arg(t, 2) IN
    /\ At(t, "destroy") /\ Alive(v) /\ Protected(v) /\ ~Arg(t, 3)
    /\ Section(<<>>)
    /\ vmxPendQPut(v, t, WAIT_FOREVER)
    /\ UNCHANGED <<semVars, safes>>
    /\ SectionOnly

\* v is protected, and taskDeleteForce takes the protection away.
DestroyForces(t) ==
    LET v == Arg(t, 2) IN
    /\ At(t, "destroy") /\ Alive(v) /\ Protected(v) /\ Arg(t, 3)
    /\ Section(Flush(v))
    /\ safeCount' = [safeCount EXCEPT ![v] = 0]
    /\ lockCount' = [lockCount EXCEPT ![v] = 0]
    /\ UNCHANGED <<semOnly, code, safes, kernVars, taskIdCurrent, kernelIsIdle,
                   workQ, intr, intOff, savedIntOff, timeSlice>>

\* v is not protected: t makes itself safe, keeps other deleters away from v
\* and suspends it.
DestroySuspends(t) ==
    LET v == Arg(t, 2) IN
    /\ At(t, "destroy") /\ Alive(v) /\ ~Protected(v)
    /\ safeCount' = [safeCount EXCEPT ![t] = Plus1(@), ![v] = Plus1(@)]
    /\ Section(<<>>)
    /\ vmxSuspend(v)
    /\ GoOn(t, <<<<"lock">>, <<"kill", v>>, <<"unlock">>, <<"unsafe">>>>)
    /\ UNCHANGED <<semOnly, safes>>
    /\ SectionOnly

\* With preemption off, v is made invalid and leaves all queues, and who waits
\* to delete it as well is woken.
DestroyKills(t) ==
    LET v == Arg(t, 2) IN
    /\ At(t, "kill")
    /\ Section(Flush(v))
    /\ vmxDelete(v)
    /\ code' = [code EXCEPT ![t] = Tail(@), ![v] = <<>>]
    /\ safes' = [safes EXCEPT ![v] = 0]
    /\ UNCHANGED <<semOnly, safeCount>>
    /\ SectionOnly
=============================================================================
