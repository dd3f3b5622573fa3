------------------------------ MODULE VmxSched ------------------------------
(***************************************************************************)
(* The scheduler (src/arch/i386/vmxALib.s): how code gets out of the       *)
(* kernel, which task runs then, and how an interrupt returns.             *)
(*                                                                         *)
(* kernelState is TRUE from the entry of a kernel section to the moment    *)
(* one of the three exits clears it.  In between only the section and the  *)
(* jobs of the work queue change the kernel's data, and an interrupt       *)
(* handler only posts jobs (module WorkQ), so everything a section does    *)
(* before it calls vmxExit is one step, except for its loops: those are in *)
(* todo, one iteration a step.                                             *)
(***************************************************************************)
EXTENDS VmxLib

CONSTANTS
    RoundRobinSlice,  \* ticks of a time slice, 0 when round robin is off
    MaxLock           \* bound: calls of taskLock that one task has open

ASSUME VmxSchedAssumption == RoundRobinSlice \in Nat /\ MaxLock \in Nat

VARIABLES
    taskIdCurrent,
    kernelIsIdle,
    kpc,              \* where the code of the kernel is, see KernelStates
    todo,             \* loops the current kernel section has yet to do
    workQ,            \* the jobs posted and not called yet
    intr,             \* a handler runs that found kernelState FALSE
    intOff,           \* the interrupt flag is off
    savedIntOff,      \* ... and in the saved EFLAGS of each task
    lockCount,        \* of each task: preemption is off
    timeSlice         \* of each task: ticks of its time slice used up

schedVars == <<taskIdCurrent, kernelIsIdle, kpc, todo, workQ, intr, intOff,
               savedIntOff, lockCount, timeSlice>>

(***************************************************************************)
(* "user"     kernelState is FALSE                                         *)
(* "exit"     at vmxExit, or at checkTaskSwitch for a task                 *)
(* "work"     in workQDoWork, called on that way out                       *)
(* "resched"  at vmxTaskReschedule, the context of the old task is saved   *)
(* "dispatch" the context of taskIdCurrent is loaded                       *)
(* "rework"   in workQDoWork, called by dispatch or noTaskReady            *)
(* "recheck"  behind that call                                             *)
(***************************************************************************)
KernelStates == {"user", "exit", "work", "resched", "dispatch", "rework",
                 "recheck"}

kernelState == kpc # "user"

\* Task t executes its own code, no handler and no kernel.
Running(t) ==
    kpc = "user" /\ ~intr /\ ~kernelIsIdle /\ taskIdCurrent = t

readyHead == QFirst(readyQ, NULL)

\* Bug: one taskLock is not enough.
LockedTwice == lockCount[taskIdCurrent] > 1 /\ Ready(taskIdCurrent)

\* Preemption of the current task is off, and it can go on.
Locked == lockCount[taskIdCurrent] > 0 /\ Ready(taskIdCurrent)

\* A call made with kernelState FALSE does its work, starts loops and exits
\* through the kernel.
Section(loops) == kpc = "user" /\ kpc' = "exit" /\ todo' = loops

Flush(q) == IF pendQ[q] # <<>> THEN <<<<"flush", q>>>> ELSE <<>>

-----------------------------------------------------------------------------
(***************************************************************************)
(* Ways out of the kernel.                                                 *)
(***************************************************************************)
\* Code of the kernel at s, with no loop to do.
KernelAt(s) == kpc = s /\ todo = <<>>

othersThan(v) == UNCHANGED <<kernVars, lockCount, timeSlice, intr, v>>

\* exitFromInt: no task switch, that is up to the end of the interrupt.
ExitFromInt ==
    /\ KernelAt("exit") /\ intr
    /\ kpc' = IF workQ = <<>> THEN "user" ELSE "work"
    /\ othersThan(<<taskIdCurrent, kernelIsIdle, todo, workQ, intOff,
                    savedIntOff>>)

\* checkTaskSwitch, workQCheck: the current task goes on.
ExitToCaller ==
    /\ KernelAt("exit") /\ ~intr
    /\ taskIdCurrent = readyHead \/ Locked
    /\ kpc' = IF workQ = <<>> THEN "user" ELSE "work"
    /\ intOff' = FALSE
    /\ othersThan(<<taskIdCurrent, kernelIsIdle, todo, workQ, savedIntOff>>)

\* saveTaskContext: the current task is left.
SaveTaskContext ==
    /\ KernelAt("exit") /\ ~intr
    /\ taskIdCurrent # readyHead /\ ~Locked
    /\ kpc' = "resched"
    /\ retVal' = [retVal EXCEPT ![taskIdCurrent] = "OK"]
    /\ savedIntOff' = [savedIntOff EXCEPT ![taskIdCurrent] = intOff]
    /\ UNCHANGED <<status, priority, readyQ, pendQ, tickQ, left, taskIdCurrent,
                   kernelIsIdle, todo, workQ, intr, intOff, lockCount,
                   timeSlice>>

\* vmxTaskReschedule, and the test after workQWork, with a ready task.
SwitchTasks ==
    /\ KernelAt("resched") \/ KernelAt("recheck")
    /\ readyQ # <<>>
    /\ kpc' = "dispatch"
    /\ taskIdCurrent' = Head(readyQ)
    /\ kernelIsIdle' = IF kpc = "resched" THEN FALSE ELSE kernelIsIdle
    /\ othersThan(<<todo, workQ, intOff, savedIntOff>>)

LoadFlags ==
    /\ intOff' = savedIntOff[taskIdCurrent]
    /\ savedIntOff' = [savedIntOff EXCEPT ![taskIdCurrent] = FALSE]

\* dispatch: the flags of the task come back with its registers.
Dispatch ==
    /\ KernelAt("dispatch")
    /\ IF workQ = <<>>
         THEN kpc' = "user" /\ LoadFlags
         ELSE kpc' = "rework" /\ intOff' = FALSE /\ UNCHANGED savedIntOff
    /\ othersThan(<<taskIdCurrent, kernelIsIdle, todo, workQ>>)

\* Bug: the processor idles although a job may make a task ready.
NoTaskReadyUntested ==
    /\ KernelAt("resched") \/ KernelAt("recheck")
    /\ readyQ = <<>>
    /\ intOff' = FALSE
    /\ kpc' = "user" /\ kernelIsIdle' = TRUE
    /\ othersThan(<<taskIdCurrent, todo, workQ, savedIntOff>>)

\* noTaskReady: wait for an interrupt, in the context of the last task.
NoTaskReady ==
    /\ KernelAt("resched") \/ KernelAt("recheck")
    /\ readyQ = <<>>
    /\ intOff' = FALSE
    /\ IF workQ = <<>>
         THEN kpc' = "user" /\ kernelIsIdle' = TRUE
         ELSE /\ kpc' = "rework"
              /\ kernelIsIdle' = IF kpc = "resched" THEN FALSE ELSE kernelIsIdle
    /\ othersThan(<<taskIdCurrent, todo, workQ, savedIntOff>>)

\* workQDoWork finds no more jobs.
WorkDone ==
    /\ KernelAt("work") \/ KernelAt("rework")
    /\ workQ = <<>>
    /\ kpc' = IF kpc = "work" THEN "exit" ELSE "recheck"
    /\ othersThan(<<taskIdCurrent, kernelIsIdle, todo, workQ, intOff,
                    savedIntOff>>)

\* workQDoWork takes the next job; what the job does is Job in module Vmx.
TakeJob ==
    /\ KernelAt("work") \/ KernelAt("rework")
    /\ workQ # <<>>
    /\ workQ' = Tail(workQ)
    /\ UNCHANGED <<taskIdCurrent, kernelIsIdle, kpc, intr, intOff, savedIntOff>>

-----------------------------------------------------------------------------
(***************************************************************************)
(* Loops of a kernel section.                                              *)
(***************************************************************************)
Todo(what) == todo # <<>> /\ Head(todo)[1] = what

loopVars == <<taskIdCurrent, kernelIsIdle, kpc, workQ, intr, intOff,
              savedIntOff, lockCount>>

FlushLoop ==
    /\ Todo("flush")
    /\ LET q == Head(todo)[2] IN
       IF pendQ[q] # <<>>
         THEN vmxPendQFlush(q) /\ UNCHANGED todo
         ELSE todo' = Tail(todo) /\ UNCHANGED kernVars
    /\ UNCHANGED <<loopVars, timeSlice>>

TerminateLoop ==
    /\ Todo("terminate")
    /\ LET q == Head(todo)[2] IN
       IF pendQ[q] # <<>>
         THEN vmxPendQTerminate(q) /\ UNCHANGED todo
         ELSE todo' = Tail(todo) /\ UNCHANGED kernVars
    /\ UNCHANGED <<loopVars, timeSlice>>

\* The loop of vmxTickAnnounce over the tasks that expire.
ExpireLoop ==
    /\ Todo("expire")
    /\ IF Expired THEN expire /\ UNCHANGED todo
                  ELSE todo' = Tail(todo) /\ UNCHANGED kernVars
    /\ UNCHANGED <<loopVars, timeSlice>>

\* The end of vmxTickAnnounce: round robin.
RoundRobin ==
    /\ Todo("slice")
    /\ todo' = Tail(todo)
    /\ IF RoundRobinSlice > 0 /\ lockCount[taskIdCurrent] = 0
                              /\ Ready(taskIdCurrent)
         THEN IF timeSlice[taskIdCurrent] + 1 >= RoundRobinSlice
                THEN /\ timeSlice' = [timeSlice EXCEPT ![taskIdCurrent] = 0]
                     /\ yield(taskIdCurrent)
                ELSE /\ timeSlice' = [timeSlice EXCEPT ![taskIdCurrent] = @ + 1]
                     /\ UNCHANGED kernVars
         ELSE UNCHANGED <<timeSlice, kernVars>>
    /\ UNCHANGED loopVars

\* What vmxTickAnnounce starts with.
TickLoops == <<<<"expire">>, <<"slice">>>>

-----------------------------------------------------------------------------
(***************************************************************************)
(* Interrupts.  Handlers that interrupt handlers make the same calls, so   *)
(* only the outermost one is kept track of.                                *)
(***************************************************************************)
\* intEnt, of a handler that finds kernelState FALSE.
IntEnt ==
    /\ kpc = "user" /\ ~intr /\ ~intOff
    /\ intr' = TRUE
    /\ UNCHANGED <<kernVars, taskIdCurrent, kernelIsIdle, kpc, todo, workQ,
                   intOff, savedIntOff, lockCount, timeSlice>>

\* Bug: a task that no longer can go on is returned to if it is locked.
IntExitLocked ==
    /\ kpc = "user" /\ intr
    /\ intr' = FALSE
    /\ kpc' = IF \/ kernelIsIdle
                 \/ taskIdCurrent # readyHead /\ lockCount[taskIdCurrent] = 0
              THEN "resched" ELSE "user"
    /\ UNCHANGED <<kernVars, taskIdCurrent, kernelIsIdle, todo, workQ, intOff,
                   savedIntOff, lockCount, timeSlice>>

\* intExit, intExitFromIdle, intContextSave.
IntExit ==
    /\ kpc = "user" /\ intr
    /\ intr' = FALSE
    /\ kpc' = IF \/ kernelIsIdle
                 \/ taskIdCurrent # readyHead /\ ~Locked
              THEN "resched" ELSE "user"
    /\ UNCHANGED <<kernVars, taskIdCurrent, kernelIsIdle, todo, workQ, intOff,
                   savedIntOff, lockCount, timeSlice>>

\* The scheduler and the loops, without the jobs.
SchedStep ==
    \/ ExitFromInt \/ ExitToCaller \/ SaveTaskContext
    \/ SwitchTasks \/ Dispatch \/ NoTaskReady \/ WorkDone
    \/ FlushLoop \/ TerminateLoop \/ ExpireLoop \/ RoundRobin
=============================================================================
