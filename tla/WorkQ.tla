------------------------------- MODULE WorkQ --------------------------------
(***************************************************************************)
(* The kernel work queue (src/vmx/workQLib.c) and the kernel mutual        *)
(* exclusion flag it serves, as used by every system call and interrupt    *)
(* handler (src/arch/i386/vmxALib.s).                                      *)
(*                                                                         *)
(* There is one processor.  Level 0 is the task level and levels 1..       *)
(* MaxNest are the nested interrupts; only level intCnt, the innermost,    *)
(* executes.  A call that finds kernelState FALSE sets it, does its        *)
(* work and drains the queue before it clears kernelState again; a call    *)
(* that finds kernelState TRUE is deferred to the queue.  Nothing stops an *)
(* interrupt between two instructions unless INT_LOCK does, so an action   *)
(* here is either one INT_LOCK section or one access outside of them.      *)
(***************************************************************************)
EXTENDS Naturals, KernelState

CONSTANTS
    MAX_WORK_Q_JOBS,   \* slots of the ring (256 in the code)
    MaxNest,           \* bound: how deep interrupts nest
    MaxJobs            \* bound: jobs posted between two reboots

ASSUME WorkQAssumption ==
    /\ MAX_WORK_Q_JOBS \in Nat /\ MAX_WORK_Q_JOBS >= 2
    /\ MaxNest \in Nat
    /\ MaxJobs \in Nat

Levels == 0..MaxNest
Slots  == 0..(MAX_WORK_Q_JOBS - 1)

VARIABLES
    workQReadIndex, workQWriteIndex, workQIsEmpty,
    workQJobs,         \* the job number last stored in each slot
    intCnt,
    pc,                \* where each level is, see States
    pJob,              \* the slot a level is filling or has taken
    arg,               \* the job a level is storing
    depth,             \* workQDoWork frames on the stack of each level
    panicked,          \* workQPanic was called, the reboot is under way
    posted,            \* jobs posted since the last reboot
    called,            \* jobs called since the last reboot
    ran                \* the job called last

queueVars == <<workQReadIndex, workQWriteIndex, workQIsEmpty, workQJobs>>
ghostVars == <<posted, called, ran>>
workQVars == <<queueVars, kernelState, intCnt, pc, pJob, arg, depth, panicked,
          ghostVars>>

(***************************************************************************)
(* "out"    outside of the kernel: task code or interrupt handler code     *)
(* "mark"   in workQAdd, after INT_UNLOCK, about to clear workQIsEmpty     *)
(* "store"  in workQAdd, about to store the job in its slot                *)
(* "kernel" set kernelState and has not cleared it, outside of workQDoWork *)
(* "drain"  in the loop of workQDoWork                                     *)
(* "call"   in workQDoWork, has taken a slot, not called its job yet       *)
(* "job"    the procedure of a job is executing                            *)
(***************************************************************************)
Deferring == {"mark", "store"}
Owning    == {"kernel", "drain", "call", "job"}
States    == {"out"} \cup Deferring \cup Owning

\* Bug: the index is not masked.
AdvanceNoMask(i) == i + 1

Advance(i) == IF i = MAX_WORK_Q_JOBS - 1 THEN 0 ELSE i + 1

\* workQLibInit and kernelInit, on a machine that has just started.
WorkQInit ==
    /\ workQReadIndex = 0
    /\ workQWriteIndex = 0
    /\ workQIsEmpty = TRUE
    /\ workQJobs = [i \in Slots |-> 0]
    /\ kernelState = FALSE
    /\ intCnt = 0
    /\ pc = [l \in Levels |-> "out"]
    /\ pJob = [l \in Levels |-> 0]
    /\ arg = [l \in Levels |-> 0]
    /\ depth = [l \in Levels |-> 0]
    /\ panicked = FALSE
    /\ posted = 0 /\ called = 0 /\ ran = 0

\* Level l is the one that executes, and it is at state s.
At(l, s) == ~panicked /\ intCnt = l /\ pc[l] = s
Goto(l, s) == pc' = [pc EXCEPT ![l] = s]

(***************************************************************************)
(* Interrupts.  The call of a watchdog function by vmxTickAnnounce is also *)
(* bracketed by intCnt++ and intCnt--, and is the same step here.          *)
(***************************************************************************)
IntEnt ==
    /\ ~panicked
    /\ intCnt < MaxNest
    /\ intCnt' = intCnt + 1
    /\ UNCHANGED <<queueVars, kernelState, pc, pJob, arg, depth, panicked,
                   ghostVars>>

\* The handler returns to what it interrupted.
IntRet(l) ==
    /\ l > 0
    /\ At(l, "out")
    /\ intCnt' = l - 1
    /\ UNCHANGED <<queueVars, kernelState, pc, pJob, arg, depth, panicked,
                   ghostVars>>

\* The outermost handler returns into the scheduler of the kernel instead,
\* to switch tasks (intContextSave, intExitFromIdle).
IntRetResched(l) ==
    /\ l = 1
    /\ At(l, "out")
    /\ ~kernelState
    /\ intCnt' = 0
    /\ kernelState' = TRUE
    /\ Goto(0, "kernel")
    /\ UNCHANGED <<queueVars, pJob, arg, depth, panicked, ghostVars>>

(***************************************************************************)
(* A call that finds kernelState FALSE.                                    *)
(***************************************************************************)
\* Bug: kernelState is set without having been tested.
EnterKernelUntested(l) ==
    /\ At(l, "out")
    /\ kernelState' = TRUE
    /\ Goto(l, "kernel")
    /\ UNCHANGED <<queueVars, intCnt, pJob, arg, depth, panicked, ghostVars>>

EnterKernel(l) ==
    /\ At(l, "out")
    /\ ~kernelState
    /\ kernelState' = TRUE
    /\ Goto(l, "kernel")
    /\ UNCHANGED <<queueVars, intCnt, pJob, arg, depth, panicked, ghostVars>>

\* Bug: the flag is not tested again after the work was done.
LeaveKernelUntested(l) ==
    /\ At(l, "kernel")
    /\ kernelState' = FALSE
    /\ Goto(l, "out")
    /\ UNCHANGED <<queueVars, intCnt, pJob, arg, depth, panicked, ghostVars>>

\* vmxExit, dispatch and noTaskReady all end like this: with interrupts
\* locked the flag is tested and kernelState cleared.
LeaveKernel(l) ==
    /\ At(l, "kernel")
    /\ workQIsEmpty
    /\ kernelState' = FALSE
    /\ Goto(l, "out")
    /\ UNCHANGED <<queueVars, intCnt, pJob, arg, depth, panicked, ghostVars>>

\* The owner of the kernel calls workQDoWork: vmxExit because the flag says
\* that there is work, vmxTickAnnounce, also as a job, after a watchdog.
CallDoWork(l) ==
    /\ At(l, "kernel") \/ At(l, "job")
    /\ depth' = [depth EXCEPT ![l] = @ + 1]
    /\ Goto(l, "drain")
    /\ UNCHANGED <<queueVars, kernelState, intCnt, pJob, arg, panicked,
                   ghostVars>>

(***************************************************************************)
(* workQAdd0, workQAdd1 and workQAdd2.                                     *)
(***************************************************************************)
\* Bug: nobody looks whether the ring is full.
WorkQAddUnchecked(l) ==
    /\ At(l, "out")
    /\ kernelState
    /\ posted < MaxJobs
    /\ pJob' = [pJob EXCEPT ![l] = workQWriteIndex]
    /\ workQWriteIndex' = Advance(workQWriteIndex)
    /\ posted' = posted + 1
    /\ arg' = [arg EXCEPT ![l] = posted + 1]
    /\ Goto(l, "mark")
    /\ UNCHANGED <<workQReadIndex, workQIsEmpty, workQJobs, kernelState, intCnt,
                   depth, panicked, called, ran>>

WorkQAdd(l) ==
    /\ At(l, "out")
    /\ kernelState
    /\ posted < MaxJobs
    /\ pJob' = [pJob EXCEPT ![l] = workQWriteIndex]
    /\ workQWriteIndex' = Advance(workQWriteIndex)
    /\ IF workQWriteIndex' = workQReadIndex
         THEN /\ panicked' = TRUE
              /\ UNCHANGED <<pc, arg, posted>>
         ELSE /\ posted' = posted + 1
              /\ arg' = [arg EXCEPT ![l] = posted + 1]
              /\ Goto(l, "mark")
              /\ UNCHANGED panicked
    /\ UNCHANGED <<workQReadIndex, workQIsEmpty, workQJobs, kernelState, intCnt,
                   depth, called, ran>>

\* Bug: the flag is left alone.
MarkNothing(l) ==
    /\ At(l, "mark")
    /\ Goto(l, "store")
    /\ UNCHANGED <<queueVars, kernelState, intCnt, pJob, arg, depth, panicked,
                   ghostVars>>

MarkNotEmpty(l) ==
    /\ At(l, "mark")
    /\ workQIsEmpty' = FALSE
    /\ Goto(l, "store")
    /\ UNCHANGED <<workQReadIndex, workQWriteIndex, workQJobs, kernelState,
                   intCnt, pJob, arg, depth, panicked, ghostVars>>

StoreJob(l) ==
    /\ At(l, "store")
    /\ workQJobs' = [workQJobs EXCEPT ![pJob[l]] = arg[l]]
    /\ Goto(l, "out")
    /\ UNCHANGED <<workQReadIndex, workQWriteIndex, workQIsEmpty, kernelState,
                   intCnt, pJob, arg, depth, panicked, ghostVars>>

\* sysReboot: the machine starts again.
Reboot ==
    /\ panicked
    /\ workQReadIndex' = 0
    /\ workQWriteIndex' = 0
    /\ workQIsEmpty' = TRUE
    /\ workQJobs' = [i \in Slots |-> 0]
    /\ kernelState' = FALSE
    /\ intCnt' = 0
    /\ pc' = [l \in Levels |-> "out"]
    /\ pJob' = [l \in Levels |-> 0]
    /\ arg' = [l \in Levels |-> 0]
    /\ depth' = [l \in Levels |-> 0]
    /\ panicked' = FALSE
    /\ posted' = 0 /\ called' = 0 /\ ran' = 0

(***************************************************************************)
(* workQDoWork.                                                            *)
(***************************************************************************)
\* Bug: the slot is looked up after the index has advanced.
TakeJobLate(l) ==
    /\ At(l, "drain")
    /\ workQReadIndex # workQWriteIndex
    /\ workQReadIndex' = Advance(workQReadIndex)
    /\ pJob' = [pJob EXCEPT ![l] = workQReadIndex']
    /\ Goto(l, "call")
    /\ UNCHANGED <<workQWriteIndex, workQIsEmpty, workQJobs, kernelState, intCnt,
                   arg, depth, panicked, ghostVars>>

TakeJob(l) ==
    /\ At(l, "drain")
    /\ workQReadIndex # workQWriteIndex
    /\ pJob' = [pJob EXCEPT ![l] = workQReadIndex]
    /\ workQReadIndex' = Advance(workQReadIndex)
    /\ Goto(l, "call")
    /\ UNCHANGED <<workQWriteIndex, workQIsEmpty, workQJobs, kernelState, intCnt,
                   arg, depth, panicked, ghostVars>>

CallJob(l) ==
    /\ At(l, "call")
    /\ ran' = workQJobs[pJob[l]]
    /\ called' = called + 1
    /\ Goto(l, "job")
    /\ UNCHANGED <<queueVars, kernelState, intCnt, pJob, arg, depth, panicked,
                   posted>>

JobReturns(l) ==
    /\ At(l, "job")
    /\ Goto(l, "drain")
    /\ UNCHANGED <<queueVars, kernelState, intCnt, pJob, arg, depth, panicked,
                   ghostVars>>

\* The queue is found empty: workQDoWork returns to the job or to the kernel
\* code that called it.
DrainDone(l) ==
    /\ At(l, "drain")
    /\ workQReadIndex = workQWriteIndex
    /\ workQIsEmpty' = TRUE
    /\ depth' = [depth EXCEPT ![l] = @ - 1]
    /\ Goto(l, IF depth[l] = 1 THEN "kernel" ELSE "job")
    /\ UNCHANGED <<workQReadIndex, workQWriteIndex, workQJobs, kernelState,
                   intCnt, pJob, arg, panicked, ghostVars>>

-----------------------------------------------------------------------------
\* What level l does when it executes.
Step(l) ==
    \/ IntRet(l) \/ IntRetResched(l)
    \/ EnterKernel(l) \/ LeaveKernel(l) \/ CallDoWork(l)
    \/ WorkQAdd(l) \/ MarkNotEmpty(l) \/ StoreJob(l)
    \/ TakeJob(l) \/ CallJob(l) \/ JobReturns(l) \/ DrainDone(l)

WorkQNext == IntEnt \/ Reboot \/ \E l \in Levels : Step(l)

WorkQSpec == WorkQInit /\ [][WorkQNext]_workQVars

(***************************************************************************)
(* Fairness.  A level that executes goes on: code in the kernel and in     *)
(* workQAdd finishes, and handlers return.  An interrupted level is not    *)
(* continuously able to go on, only again and again, hence the strong      *)
(* fairness: interrupts leave the processor some time.  Posting a job and  *)
(* entering the kernel are never owed.                                     *)
(***************************************************************************)
Progress(l) ==
    \/ LeaveKernel(l) \/ CallDoWork(l) \/ MarkNotEmpty(l) \/ StoreJob(l)
    \/ TakeJob(l) \/ CallJob(l) \/ JobReturns(l) \/ DrainDone(l)

Fairness == \A l \in Levels :
    /\ SF_workQVars(Progress(l))
    /\ SF_workQVars(IntRet(l) \/ IntRetResched(l))

WorkQFairSpec == WorkQSpec /\ Fairness

-----------------------------------------------------------------------------
\* The indices stay in the ring and every level is at one of its states.
WorkQTypeOK ==
    /\ workQReadIndex \in Slots
    /\ workQWriteIndex \in Slots
    /\ workQIsEmpty \in BOOLEAN
    /\ workQJobs \in [Slots -> Nat]
    /\ kernelState \in BOOLEAN
    /\ intCnt \in Levels
    /\ pc \in [Levels -> States]
    /\ pJob \in [Levels -> Slots]
    /\ arg \in [Levels -> Nat]
    /\ depth \in [Levels -> Nat]
    /\ panicked \in BOOLEAN
    /\ posted \in Nat /\ called \in Nat /\ ran \in Nat

\* kernelState is a mutual exclusion flag: it is TRUE exactly when one level is
\* in the kernel, and what that level interrupted is not in the middle of a
\* kernel call, not even of a deferral.
KernelMutex ==
    /\ \A l \in Levels : pc[l] \in Owning =>
          /\ kernelState
          /\ \A k \in Levels : k < l => pc[k] = "out"
    /\ kernelState => \E l \in Levels : pc[l] \in Owning

\* kernelState is never cleared over a job that was deferred: a job posted in
\* the last instant before vmxExit, dispatch or the idle loop clear the flag
\* is not left in the queue until somebody else enters the kernel.
NoStrandedWork == ~kernelState => workQReadIndex = workQWriteIndex

\* A job is called with what its caller stored, although it is read after
\* INT_UNLOCK, while interrupts fill the ring, and although the slot was
\* reserved before it was filled.
CallsPostedJob == \A l \in Levels :
    pc[l] = "call" => workQJobs[pJob[l]] = called + 1

\* workQAdd and workQDoWork implement the queue of jobs that their callers
\* rely on: at most one job more than the ring can hold is outstanding, the
\* one that has left its slot and was not called yet.
Promise == INSTANCE JobQueue WITH Capacity <- MAX_WORK_Q_JOBS
KeepsPromise == Promise!JobSpec

(***************************************************************************)
(* Why it works: the inductive invariant behind the four properties above. *)
(***************************************************************************)
\* Levels above the one that executes are free, and a deferral is under way
\* only above the level that holds the kernel.
Control ==
    /\ KernelMutex
    /\ \A l \in Levels :
          /\ l > intCnt => pc[l] = "out"
          /\ pc[l] \in Deferring => kernelState
          /\ pc[l] \in Owning \ {"kernel"} => depth[l] > 0

\* How many advances lead from slot r to slot s, how far a slot is from the
\* next one to be read, and how many jobs wait.
Distance(r, s) == IF s >= r THEN s - r ELSE s - r + MAX_WORK_Q_JOBS
Offset(s) == Distance(workQReadIndex, s)
Waiting   == Offset(workQWriteIndex)
JobOf(s)  == posted - Waiting + Offset(s) + 1

\* The flag can only be wrong while a level is about to correct it.
FlagTells ==
    workQIsEmpty /\ workQReadIndex # workQWriteIndex
        => \E l \in Levels : pc[l] = "mark"

\* Whatever waits is in its slot, or a level is about to put it there ...
Stored == \A s \in Slots : Offset(s) < Waiting =>
    \/ workQJobs[s] = JobOf(s)
    \/ \E l \in Levels : pc[l] \in Deferring /\ pJob[l] = s

\* ... and that level knows what to put there.
Storing == \A l \in Levels : pc[l] \in Deferring =>
    Offset(pJob[l]) < Waiting /\ arg[l] = JobOf(pJob[l])

\* The job that was taken and not called is in the slot before the read index,
\* the one slot that no post can get.
Taken == \A l \in Levels : pc[l] = "call" =>
    Advance(pJob[l]) = workQReadIndex /\ called + 1 + Waiting = posted

NoneTaken == (\A l \in Levels : pc[l] # "call") => called + Waiting = posted

Content == FlagTells /\ Stored /\ Storing /\ Taken /\ NoneTaken

IInv ==
    /\ WorkQTypeOK
    /\ Control
    /\ NoStrandedWork
    /\ CallsPostedJob
    /\ ~panicked => Content

\* Every job that is posted is called, unless the queue overflows.
JobsAreCalled == \A n \in 1..MaxJobs :
    posted >= n ~> (called >= n \/ panicked)
=============================================================================
