------------------------------- MODULE VmxSem -------------------------------
(***************************************************************************)
(* Semaphores: binary (src/vmx/semBLib.c), counting (semCLib.c) and mutual *)
(* exclusion (semMLib.c), with the calls they share (semLib.c).            *)
(*                                                                         *)
(* A call is one INT_LOCK section, with the kernel section it may start.   *)
(* What a call still has to do when it gets the processor back is in       *)
(* code[t], a sequence of steps that this module shares with VmxTask.      *)
(* Calls that fail without a change of state (a deleted semaphore, one     *)
(* that is not owned) are steps that change nothing.                       *)
(***************************************************************************)
EXTENDS VmxSched

CONSTANTS
    SemType,         \* of each semaphore: "binary", "counting" or "mutex"
    DeleteSafe,      \* the mutexes created with SEM_DELETE_SAFE
    MaxCount,        \* bound: the count of a counting semaphore
    MaxRecurse,      \* bound: recursive takes of a mutex
    UnsignedMax      \* the greatest unsigned, 2^32 - 1 in the code

ASSUME VmxSemAssumption ==
    /\ SemType \in [Sems -> {"binary", "counting", "mutex"}]
    /\ DeleteSafe \subseteq {s \in Sems : SemType[s] = "mutex"}
    /\ MaxCount \in Nat /\ MaxRecurse \in Nat /\ UnsignedMax \in Nat

WAIT_NONE == 0

VARIABLES
    semValid,        \* the object core is that of a semaphore
    semOwner,        \* of a binary semaphore or mutex, NULL when it is full
    semCount,        \* of a counting semaphore
    recurse,
    code,            \* what each task still has to do in the call it is in
    safeCount        \* of each task: reasons not to delete it

semVars == <<semValid, semOwner, semCount, recurse, code, safeCount>>

\* Task t can make a call: it executes and is not inside of one.
Free(t) == Running(t) /\ code[t] = <<>>

\* Task t executes, and the next step of the call it is in is this one.
At(t, step) == Running(t) /\ code[t] # <<>> /\ Head(code[t])[1] = step
Arg(t, i) == Head(code[t])[i]

\* A handler that found kernelState FALSE can make a call.
InHandler == kpc = "user" /\ intr
Caller == InHandler \/ Free(taskIdCurrent)

Plus1(n)  == IF n = UnsignedMax THEN 0 ELSE n + 1
Minus1(n) == IF n = 0 THEN UnsignedMax ELSE n - 1

\* INT_LOCK sections that do not enter the kernel.
NoSection == UNCHANGED <<kernVars, schedVars>>
SectionOnly == UNCHANGED <<taskIdCurrent, kernelIsIdle, workQ, intr, intOff,
                           savedIntOff, lockCount, timeSlice>>

Full(s) == IF SemType[s] = "counting" THEN semCount[s] > 0
                                      ELSE semOwner[s] = NULL

-----------------------------------------------------------------------------
(***************************************************************************)
(* Take.                                                                   *)
(***************************************************************************)
\* semBTake, semCTake, semMTake of a semaphore that is full.
TakeFull(t, s) ==
    /\ Free(t) /\ semValid[s] /\ Full(s)
    /\ IF SemType[s] = "counting"
         THEN semCount' = [semCount EXCEPT ![s] = @ - 1] /\ UNCHANGED semOwner
         ELSE semOwner' = [semOwner EXCEPT ![s] = t] /\ UNCHANGED semCount
    /\ safeCount' = IF s \in DeleteSafe
                    THEN [safeCount EXCEPT ![t] = Plus1(@)] ELSE safeCount
    /\ UNCHANGED <<semValid, recurse, code>>
    /\ NoSection

\* semMTake by the owner.
TakeAgain(t, s) ==
    /\ Free(t) /\ semValid[s]
    /\ SemType[s] = "mutex" /\ semOwner[s] = t /\ recurse[s] < MaxRecurse
    /\ recurse' = [recurse EXCEPT ![s] = @ + 1]
    /\ UNCHANGED <<semValid, semOwner, semCount, code, safeCount>>
    /\ NoSection

\* semMTake with WAIT_NONE of a mutex that another task owns returns ERROR
\* without INT_UNLOCK.  (semBTake and semCTake change nothing.)
TakeNoWait(t, s) ==
    /\ Free(t) /\ semValid[s]
    /\ SemType[s] = "mutex" /\ semOwner[s] \notin {t, NULL}
    /\ intOff' = TRUE
    /\ UNCHANGED <<semVars, kernVars, taskIdCurrent, kernelIsIdle, kpc, todo,
                   workQ, intr, savedIntOff, lockCount, timeSlice>>

\* The task waits; "taken" is where it goes on.
TakeWait(t, s, timeout) ==
    /\ Free(t) /\ semValid[s] /\ ~Full(s) /\ timeout # WAIT_NONE
    /\ SemType[s] = "mutex" => semOwner[s] # t
    /\ Section(<<>>)
    /\ vmxPendQPut(s, t, timeout)
    /\ code' = [code EXCEPT ![t] = <<<<"taken", s>>>>]
    /\ UNCHANGED <<semValid, semOwner, semCount, recurse, safeCount>>
    /\ SectionOnly

\* vmxExit returns to the take, and the take to its caller.  Nobody reads retVal
\* any more.
TakeReturns(t) ==
    /\ At(t, "taken")
    /\ code' = [code EXCEPT ![t] = Tail(@)]
    /\ retVal' = [retVal EXCEPT ![t] = "OK"]
    /\ UNCHANGED <<semValid, semOwner, semCount, recurse, safeCount, schedVars,
                   status, priority, readyQ, pendQ, tickQ, left>>

-----------------------------------------------------------------------------
(***************************************************************************)
(* Give.                                                                   *)
(***************************************************************************)
\* Bug: the semaphore is full after the give, although its waiter got it.
GiveKernelFull(s) ==
    /\ IF SemType[s] = "counting"
         THEN semCount' = [semCount EXCEPT ![s] = @ + 1] /\ UNCHANGED semOwner
         ELSE semOwner' = [semOwner EXCEPT ![s] = NULL] /\ UNCHANGED semCount
    /\ IF pendQ[s] = <<>> THEN UNCHANGED kernVars ELSE vmxPendQGet(s)

\* What semBGive and semCGive, and the jobs semBGiveDefer and semCGiveDefer,
\* do to the semaphore and to the first in its queue.
GiveKernel(s) ==
    /\ IF SemType[s] = "counting"
         THEN /\ semCount' = IF pendQ[s] = <<>>
                             THEN [semCount EXCEPT ![s] = @ + 1] ELSE semCount
              /\ UNCHANGED semOwner
         ELSE /\ semOwner' = [semOwner EXCEPT ![s] = QFirst(pendQ[s], NULL)]
              /\ UNCHANGED semCount
    /\ IF pendQ[s] = <<>> THEN UNCHANGED kernVars ELSE vmxPendQGet(s)

\* semBGive and semCGive, by a task or by a handler.
Give(s) ==
    /\ Caller /\ semValid[s]
    /\ SemType[s] # "mutex"
    /\ SemType[s] = "counting" => semCount[s] < MaxCount
    /\ IF pendQ[s] = <<>> THEN UNCHANGED <<kpc, todo>> ELSE Section(<<>>)
    /\ GiveKernel(s)
    /\ UNCHANGED <<semValid, recurse, code, safeCount>>
    /\ SectionOnly

\* semMGive, of a mutex taken more than once.
GiveRecurse(t, s) ==
    /\ Free(t) /\ semValid[s]
    /\ SemType[s] = "mutex" /\ semOwner[s] = t /\ recurse[s] > 0
    /\ recurse' = [recurse EXCEPT ![s] = @ - 1]
    /\ UNCHANGED <<semValid, semOwner, semCount, code, safeCount>>
    /\ NoSection

\* Bug: the next owner is not protected from deletion.
GiveMutexUnsafe(t, s) ==
    LET next == QFirst(pendQ[s], NULL)
        safe == safeCount[t] - 1
    IN
    /\ Free(t) /\ semValid[s]
    /\ SemType[s] = "mutex" /\ semOwner[s] = t /\ recurse[s] = 0
    /\ semOwner' = [semOwner EXCEPT ![s] = next]
    /\ safeCount' = IF s \in DeleteSafe
                    THEN [safeCount EXCEPT ![t] = Minus1(@)] ELSE safeCount
    /\ IF next = NULL THEN UNCHANGED kernVars ELSE vmxPendQGet(s)
    /\ LET loops == IF s \in DeleteSafe /\ safe = 0 THEN Flush(t) ELSE <<>>
       IN  IF next = NULL /\ loops = <<>>
             THEN UNCHANGED <<kpc, todo>> ELSE Section(loops)
    /\ UNCHANGED <<semValid, semCount, recurse, code>>
    /\ SectionOnly

\* semMGive and semMKernGive: the mutex goes to the next task, which becomes
\* safe with it, and who waits to delete the old owner is woken if it was the
\* last reason.
GiveMutex(t, s) ==
    LET next  == QFirst(pendQ[s], NULL)
        less  == IF s \in DeleteSafe
                 THEN [safeCount EXCEPT ![t] = Minus1(@)] ELSE safeCount
        loops == IF s \in DeleteSafe /\ less[t] = 0 THEN Flush(t) ELSE <<>>
    IN
    /\ Free(t) /\ semValid[s]
    /\ SemType[s] = "mutex" /\ semOwner[s] = t /\ recurse[s] = 0
    /\ semOwner' = [semOwner EXCEPT ![s] = next]
    /\ safeCount' = IF s \in DeleteSafe /\ next # NULL
                    THEN [less EXCEPT ![next] = Plus1(@)] ELSE less
    /\ IF next = NULL THEN UNCHANGED kernVars ELSE vmxPendQGet(s)
    /\ IF next = NULL /\ loops = <<>>
         THEN UNCHANGED <<kpc, todo>> ELSE Section(loops)
    /\ UNCHANGED <<semValid, semCount, recurse, code>>
    /\ SectionOnly

-----------------------------------------------------------------------------
(***************************************************************************)
(* Flush and delete.                                                       *)
(***************************************************************************)
\* semQFlush, of a binary or counting semaphore somebody waits for, by a task
\* or by a handler.
SemFlush(s) ==
    /\ Caller /\ semValid[s]
    /\ SemType[s] # "mutex" /\ pendQ[s] # <<>>
    /\ Section(Flush(s))
    /\ UNCHANGED <<semVars, kernVars>>
    /\ SectionOnly

\* semDestroy: the semaphore is invalid before the kernel is entered.  The
\* call then makes its caller safe, leaves the kernel and makes it unsafe.
SemDelete(t, s) ==
    /\ Free(t) /\ semValid[s]
    /\ semValid' = [semValid EXCEPT ![s] = FALSE]
    /\ Section(<<<<"terminate", s>>, <<"disown", s>>>>)
    /\ code' = [code EXCEPT ![t] = <<<<"unsafe">>>>]
    /\ UNCHANGED <<semOwner, semCount, recurse, safeCount, kernVars>>
    /\ SectionOnly

\* The end of vmxSemDelete, and the taskSafe of semDestroy: a task that owned
\* the mutex is not safe for it any more.
Disown ==
    /\ Todo("disown")
    /\ LET s == Head(todo)[2]
           o == semOwner[s]
           owned == s \in DeleteSafe /\ o # NULL /\ Alive(o)
           less == IF owned THEN [safeCount EXCEPT ![o] = Minus1(@)]
                            ELSE safeCount
       IN  /\ todo' = (IF owned /\ less[o] = 0 THEN Flush(o) ELSE <<>>)
                        \o Tail(todo)
           /\ safeCount' = [less EXCEPT ![taskIdCurrent] = Plus1(@)]
    /\ UNCHANGED <<semValid, semOwner, semCount, recurse, code, kernVars,
                   loopVars, timeSlice>>
=============================================================================
