# A verification project for the VMX kernel

VMX is a small real-time operating system for one i386 processor, written in C
with the context switch and the interrupt entry in assembler.  Its programming
interface is that of VxWorks: tasks with 256 priorities, binary, counting and
mutual exclusion semaphores, message queues, watchdog timers, pipes, select.
Everything runs in one address space and every call is an ordinary procedure
call: there is no system call boundary, and the only protection of the kernel's
data is the discipline described below.  This directory models that discipline
and the services built on it in TLA+, checks the models with TLC and proves
theorems about them with TLAPS.

Paths in this text are below `src/` of the repository, where the sources are
(`src/vmx/taskLib.c` is the file `src/vmx/taskLib.c` of the repository).

## 1. Inventory

### How the kernel excludes itself

Two mechanisms protect the kernel's data, and every service uses both.

* `INT_LOCK` / `INT_UNLOCK` save and disable the processor's interrupt flag.
  Short sections use it: "verify the object, look at its state, act".
* `kernelState` is a flag.  Code that is about to touch queues of tasks sets it
  (inside an `INT_LOCK` section in which it found it FALSE), runs with interrupts
  enabled, and leaves through `vmxExit`.  An interrupt handler, or a watchdog
  function, that calls a service while the flag is TRUE does not do the work: it
  appends a job (procedure and arguments) to the *work queue*.  `vmxExit` and the
  rest of the scheduler run the queued jobs before they clear the flag.

A task never finds the flag TRUE (a task that executes is the one that would have
set it), so only handlers and watchdog functions defer.

A call that may block does its work, `vmxExit` finds another task at the head of
the ready queue and saves the context, and the call returns when that context is
loaded again.  Who ended the wait (a give, a timeout, a deletion) has left the
result in the TCB (`taskRetValueSet`).

### Components

| component | files | state | operations | calls |
|---|---|---|---|---|
| work queue | `src/vmx/workQLib.c` | ring of 256 jobs, read and write index, `workQIsEmpty` | `workQAdd0/1/2`, `workQDoWork`, `workQPanic` | the jobs |
| scheduler, kernel entry and exit | `src/arch/i386/vmxALib.s` | `kernelState`, `intCnt`, `kernelIsIdle`, `taskIdCurrent`, `readyQHead` | `intEnt`, `intExit`, `vmxExit`, `vmxTaskReschedule` | work queue |
| kernel routines | `src/vmx/vmxLib.c` | ready, tick and pending queues, status, priority and timeout of each TCB | `vmxSuspend`, `vmxResume`, `vmxDelay`, `vmxPendQ*`, `vmxTickAnnounce`, `vmxWd*`, `vmxDelete` | queue classes, work queue (between watchdogs) |
| tasks | `src/vmx/taskLib.c` | lock count, safety count and safety queue of each TCB | `taskInit`, `taskDestroy`, `taskSuspend`, `taskResume`, `taskPrioritySet`, `taskDelay`, `taskSafe`, `taskLock`, `taskRestart` | kernel routines |
| semaphores | `src/vmx/semLib.c`, `semBLib.c`, `semMLib.c`, `semCLib.c` | owner or count, recursion, pending queue | take, give, flush, delete; deferred forms of give and flush | kernel routines, safety counts of tasks |
| message queues | `src/vmx/msgQLib.c`, `src/util/qMsgLib.c` | two lists of nodes, free and filled, with a pending queue each | send, receive, delete | kernel routines, `taskLock` |
| watchdogs | `src/vmx/wdLib.c` | status, deferred start count, function, node in the tick queue | start, cancel, delete; called by the tick loop | kernel routines |
| clock and round robin | `src/vmx/tickLib.c`, `kernelLib.c` | `sysTicks`, `sysAbsTicks`, time slice | `tickAnnounce`, `tickSet`, `kernelTimeSlice` | kernel routines |
| queue classes | `src/util/qPrioLib.c`, `qPriBmpLib.c`, `qFifoLib.c`, `qLib.c`, `dllLib.c` | linked lists, a bitmap of used priorities | put, get, remove, move, expired | |
| pipes and rings | `src/os/pipeDrv.c`, `src/util/rngLib.c` | a message queue and a list of selecting tasks; a byte ring | open, read, write, ioctl; put, get | message queues, select |
| select | `src/os/selectLib.c` | wakeup list of each device, binary semaphore of each task | `select`, `selNodeAdd`, `selWakeup`, `selWakeupAll` | semaphores, jobs of the exception task |
| terminals, logging | `src/os/tyLib.c`, `logLib.c`, the console's drivers `src/drv/serial/pcConsole.c`, `src/drv/video/m6845Vga.c` | two rings and three semaphores; a message queue | read, write, keyboard handler, transmitter `vgaWriteString` | semaphores, select |
| memory | `src/os/memPartLib.c` | free list of blocks under a mutex | alloc, free, realloc | semaphores |
| network task | `src/net/netLib.c`, `domainLib.c`, `ifLib.c`, `src/drv/netif/if_loop.c` | a ring of jobs and a semaphore; the queue of IP; one watchdog per periodic timeout | `netJobAdd`, `netTask`, `pffasttimo`, `pfslowtimo`, `if_slowtimo`, `looutput`, `lodequeue` | rings, semaphores, watchdogs, processor level |
| processor level | `src/os/unixLib.c` | a mutex and the id of the task that has it | `splnet`, `splimp`, `splx`, `ksleep`, `wakeup` | semaphores |
| sockets | `src/net/sbLib.c`, `soLib.c`, `bsdSockLib.c` | buffers of records, how many wait for them | `sendto`, `recvfrom`, `sbwait`, `sbwakeup` | processor level, protocols |
| signals, exceptions | `src/os/sigLib.c`, `excLib.c`, `src/arch/i386/sig*`, `exc*` | pending and blocked sets, handler frames on task stacks | kill, raise, suspend, timed wait | kernel routines |
| objects and classes | `src/os/objLib.c`, `classLib.c` | the class pointer of each object, which says whether it is valid | `objCoreInit`, `objCoreTerminate`, `OBJ_VERIFY` | memory |

Outside of the kernel proper, and outside of this project: task hooks and task
variables, the I/O system's tables, symbol tables, environment, event logging,
cache and virtual memory support, the other files of the architecture, show
routines, other drivers, file systems, the network protocols, the shell and the
loader, the graphics library, the C library, build files.  `PROJECT.json` lists them with
the reason for each.

### What is hard here

* *Interrupts at every instruction.*  Handlers nest, and each may post jobs while
  a kernel section, the drain of the work queue, or another post is half done.
* *Four ways out of the kernel.*  `vmxExit` for a task that goes on
  (`workQCheck`), for a handler (`exitFromInt`), `dispatch` of another task and
  the idle loop each test the work queue on their own before they clear
  `kernelState`.
* *Many ends of a wait.*  A task that waits is in up to two queues, and a give, a
  flush, a deletion of the semaphore, a timeout, a suspension, a change of
  priority and its own deletion all rearrange them.
* *Deletion.*  A task may be protected by `taskSafe`, by the delete-safe mutexes it
  owns, by preemption being off, by another deleter, and it may be waiting for
  any of those; several tasks may want to delete the same one.
* *State that is checked in one section and used in the next*: task ids, safety
  counts, semaphore ids of deferred calls.
* *Wakeups.*  Whoever makes something ready gives a semaphore to, or runs through the
  list of, those that wait; whoever waits looks first and waits then.  Between the two
  anything may happen, and one semaphore stands for many events.
* *Sharing without a lock.*  Rings are used by one reader and one writer, one of them
  often a handler; `rngPutAhead` writes bytes the reader must not see yet.
* *The clock*: expiry is a loop inside a kernel section, the counters wrap, and the
  keys of the tick queue and the time they are compared with are two variables.

The list of the single hazards, each at its line and with the properties that
look at it, is `"hazards"` in `PROJECT.json`.

### What makes each component correct

| component | properties |
|---|---|
| work queue | every job is called once, in order, with its own arguments; nothing is left behind; the kernel is never entered twice |
| scheduler | no exit leaves a job; the first ready task runs, unless preemption is off; the processor idles only if nobody is ready |
| kernel routines | flags and queues agree; queues are sorted; delays end; equals take turns |
| tasks | one deleter per task; safety counts balance; a deleter that waits will be woken; a protected task is not deleted; a verified id stays valid while it is used |
| semaphores | nobody waits for a semaphore that is free; the result of a take says who owns it; jobs find the semaphore they were posted for |
| message queues | no message is lost or received twice, FIFO per priority class, no receiver waits next to a message |
| watchdogs | the function of the last start is called, once, in its tick, and not after a cancel; nothing refers to a deleted watchdog |
| rings | a ring is a sequence of bytes, whoever interrupts whom |
| terminals | lines stay whole; reader and writer never wait for what has happened; the write buffer has one consumer at a time, and nothing stays in it that the consumer could have seen; a stopped peer is released |
| network task | jobs stay whole and are not stranded; periodic timeouts go on; the network level is exclusive |
| sockets | no reader sleeps on a datagram |
| queue classes | the linked lists, with or without bitmap, implement a sorted sequence |
| clock | a delay lasts its number of ticks, also when the counter wraps |
| select, pipes | no wakeup is lost between the look and the wait, none is taken for another, no node is left behind |

## 2. Modules

```
KernelState   the flag kernelState            src/vmx/kernelLib.c
JobQueue      what the work queue promises                         (abstract)
WorkQ         the work queue under nested interrupts               (implements JobQueue)

QPrio         queue classes as operators on sequences
 |- QPrioProof    lemmas about QPrio, for VmxSchedProof, SelectProof and WatchdogProof
 `- VmxLib    kernel routines                      src/vmx/vmxLib.c
     `- VmxSched   ways out of the kernel, loops   src/arch/i386/vmxALib.s
         |- VmxSchedProof   lemmas about both, for VmxProof and MsgQProof
         `- VmxSem     semaphores                  src/vmx/sem*.c
             `- VmxTask    tasks, deletion         src/vmx/taskLib.c
                 `- Vmx        tasks, handlers and jobs together; the properties
                     |- MCVmx      values for TLC
                     `- VmxProof   theorems about Vmx (on VmxSchedProof)

MsgQueue      what a message queue promises                        (abstract)
MsgQ          message queues, on VmxSched      src/vmx/msgQLib.c, src/util/qMsgLib.c
 |- MCMsgQ    values for TLC                                       (implements MsgQueue)
 `- MsgQProof theorems about MsgQ (on VmxSchedProof)

Watchdog      watchdogs and the tick loop, on QPrio   src/vmx/wdLib.c, tickLib.c, vmxLib.c
 |- MCWatchdog    values for TLC
 `- WatchdogProof theorems about Watchdog, and about WorkQ

Select        select on pipes          src/os/selectLib.c, pipeDrv.c, excLib.c
 |- MCSelect      values for TLC
 `- SelectProof   theorems about Select

Ring          rings of bytes, as operators            src/util/rngLib.c
 `- NetTask       network task, network level, socket buffers
                                       src/net/netLib.c, src/os/unixLib.c, src/net/sbLib.c
     `- NetTaskProof  theorems about Ring and NetTask

Tty           terminals                               src/os/tyLib.c, src/drv/video/m6845Vga.c
 |- MCTty         values for TLC
 `- TtyProof      theorems about Tty
```

`WorkQ` and `Watchdog` are two views of the kernel from below: one of single accesses to its
flag and ring, one of the code that nests on its stack, for which the ring is the queue
of jobs `WorkQ` shows it to be.  They share `kernelState`, and one module has the theorems about both.

### WorkQ and JobQueue: the flag and the ring

`WorkQ` is about single memory accesses.  Level 0 is the task level and levels 1 to
`MaxNest` are nested handlers; only the innermost, level `intCnt`, executes, and
`IntEnt` may come between any two steps.  A step is one `INT_LOCK` section, or one
access outside of such a section:

| code | action |
|---|---|
| entry of a handler; its return; its return into the scheduler | `IntEnt`, `IntRet`, `IntRetResched` |
| a call that finds `kernelState` FALSE | `EnterKernel` |
| the test and the clearing in `workQCheck`, `exitFromInt`, `dispatch`, `noTaskReady` | `LeaveKernel` |
| the call of `workQDoWork` from there, or from the tick loop | `CallDoWork` |
| `workQAdd*`: reserve a slot; clear the flag; fill the slot | `WorkQAdd`, `MarkNotEmpty`, `StoreJob` |
| `workQPanic` | `panicked` set by `WorkQAdd`, then `Reboot` |
| `workQDoWork`: take a slot; call it; the job returns; set the flag | `TakeJob`, `CallJob`, `JobReturns`, `DrainDone` |

The job is its number in the order of posting; the real slot holds a procedure
and its arguments.  `posted`, `called` and `ran` exist in the model only: they are
the state of `JobQueue`, in which a job is posted or called and the machine may
restart, and the property `KeepsPromise` says that every step of the ring is one of
those, or changes nothing.

### Vmx: tasks, semaphores, the scheduler

`WorkQ` shows that between the entry of a kernel section and its exit only the
section and the jobs touch the kernel's data.  `Vmx` relies on that and takes
larger steps: what a call does in one `INT_LOCK` section and the straight-line part
of the kernel section it starts is one action.  The loops of a section are in
`todo`, one iteration a step, and handlers may post jobs between them.

| state | in the code |
|---|---|
| `status`, `priority`, `retVal`, `left` | `tcb->status`, `priority`, the return value in the saved registers, the key of `tickNode` |
| `readyQ`, `tickQ`, `pendQ[q]` | `readyQHead`, `tickQHead`; `q` is a semaphore, or a task for its `safetyQ` |
| `taskIdCurrent`, `kernelIsIdle`, `lockCount`, `timeSlice` | the same names |
| `kpc`, `todo` | where the kernel's code is and what loops it still has to do; `kernelState` is `kpc # "user"` |
| `workQ` | the jobs in the ring |
| `intr` | a handler is running that found `kernelState` FALSE |
| `intOff`, `savedIntOff` | the interrupt flag, in the processor and in the EFLAGS of each saved context |
| `semValid`, `semOwner`, `semCount`, `recurse` | object core and fields of the semaphores |
| `safeCount` | the same name; `safes` counts the calls of `taskSafe` and exists in the model only |
| `code[t]` | what task `t` still has to do in the call it is in |

`code` is what makes a call several steps.  `taskSuspend`, `taskResume`,
`taskUndelay` and `taskPrioritySet` verify the id first (`TaskVerified`) and set
`kernelState` later (`TaskApplied`), because that is what the code does, with
interrupts on in between.  `taskDestroy` is "destroy" (look at the protection of
the victim: `DestroyTooLate`, `DestroyWaits`, `DestroyForces`, `DestroySuspends`),
then "lock", "kill", "unlock" and "unsafe".  A take that waits goes on at "taken",
where `retVal` says who ended the wait.

What is abstracted, and why nothing is lost for the properties here:

* Time is relative: `left[t]` is the number of ticks until the task is due.  The
  code's keys are absolute, in `sysTicks`; that the two agree while neither
  counter wraps is visible in `vmxDelay` and `qPrioExpired`.  Module `Watchdog` has the
  keys and both counters.
* A handler that interrupts a handler makes the same calls, so only one level of
  handlers with `kernelState` FALSE is kept; nesting itself is in `WorkQ`.
* A handler that posts jobs comes and goes inside the step `Post`.
* `Post` waits for a step without loop: a job posted during a loop is not called
  before the loop is over, so posting it behind the loop is the same.
* Calls that fail and change nothing are not actions.

### MsgQ and MsgQueue: messages

`MsgQ` takes the scheduler and the kernel routines of `VmxSched` and puts the message
queue where `VmxSem` has semaphores: the two waiting lists of a `MSG_Q` are
`pendQ["free"]`, of senders, and `pendQ["msg"]`, of receivers.

| code | action |
|---|---|
| `msgQSend`, `msgQReceive`: `taskLock`, the check of the id | `SendOrReceive` |
| `qMsgGet`: a node is there; none is there; the wait is over | `GetNode`, `GetNone`, `GetGoesOn` |
| `memcpy`, with interrupts on and the node in no list | `Copy` |
| `qMsgPut` with its kernel section | `Put` |
| `taskUnlock`: the count; the way through the kernel | `Unlock`, `Exit` |
| `msgQDestroy`: invalidation; one node taken out; the waiters told | `DeleteStarts`, `Gather`, `DeleteEnds` |
| `msgQSend` by a handler, `kernelState` FALSE or TRUE | `HandlerSends`, `HandlerSendsLater` |
| `qMsgPendQGet`, `vmxTickAnnounce` as jobs | `RunJob` |

A call keeps preemption off from its start to its end, and gives it up only by waiting
in `qMsgGet`; the model has the lock count because the argument that `msgQDestroy`
terminates depends on it (`GatherComplete`).  `KeepsMessages` maps the lists to the
abstract queue: a message counts as sent when `qMsgPut` has linked its node and as
received when `qMsgGet` has unlinked it.  `MsgQueue` keeps `got` until the caller has
its copy, so a node that is written again too early breaks the refinement.
Contents nobody may look at any more are NULL: those of a free node, and the
arguments of a call that is over.  The result of a call is not kept, and the tasks of
this module are not suspended or deleted.

### Watchdog: one stack

A watchdog function is called by the tick loop, in the middle of a kernel section,
and its calls are deferred; then `workQDoWork` runs what it has left, a tick among it,
in the middle of the loop.  So the state of control is one stack of frames, the code of
the tasks at the bottom and the code that executes on top: a call pushes a frame, an
interrupt pushes one, and whatever returns is popped.

| code | action |
|---|---|
| `wdCreate`; `wdStart`, `wdCancel`, `wdDestroy` up to their `INT_UNLOCK` | `wdCreate`, `wdStart`, `wdCancel`, `wdDestroy` |
| the rest of them, `kernelState` found FALSE; a job posted, found TRUE | `Start`, `Cancel`; `Post` |
| `vmxWdStart`, with the shift of the keys before a wrap; `vmxWdCancel` | the operators of these names, in `Start`, `Cancel`, `RunJob` |
| `tickAnnounce` and the counters of `vmxTickAnnounce` | `tickAnnounce`, `Announce` |
| the loop: one watchdog taken out; its function called; the end | `Expire`, `Fire`, `TickEnds` |
| `workQDoWork` in the loop and in `vmxExit`; the clearing of `kernelState` | `RunJob`, `DrainEnds`, `ExitKernel` |

The two counters are `sysTicks`, modulo `WORD`, and `sysAbsTicks`, which the model does
not wrap and `tickGet` reduces.  `asked` and `set` exist in the model only: what the last start asked
for, and what the timer was last set to.  A start names the other one of two functions, so
that a function left from an earlier start can be told.

The last claim of `CalledAsAsked`, about the delay, is made for the watchdogs of `Private` only.  If a
handler and a task start one watchdog, the function of one start may be called after the
delay of the other: the function is stored by `wdStart`, the timer is set by the job, and
the code offers no more.  A cancel that is deferred returns OK and the function may still
be called before its job: the fate of such a start is "cancelling".

### Select: lists, looks and wakeups

| code | action |
|---|---|
| `select`: sets cleared, `wakeupSync` emptied | `select` |
| `FIOSELECT` of a device: the node; the look | `selNodeAdd`, `Look` (`SelectFails` without support) |
| `pendedOnSelect`, the wait, its end | `Pend`, `WaitEnds` |
| `FIOUNSELECT` of all devices, the result | `Unselect`, `UnselectPlain`, `Return` |
| `selWakeupAll`: the test of the list without its mutex; the list with it | `LookAtList`, `WakeAll` |
| `pipeWrite`, `pipeRead`, `FIOFLUSH` | `pipeWrite`, `pipeRead`, `pipeFlush` |
| `pipeWrite` by a handler, through `excJobAdd`, and with the wrong result of `qMsgPut` | `HandlerWrites`, `HandlerMisled` |
| `excTask` | `ExcTask`, then the steps of `selWakeupAll` |
| `taskDestroy` with `selTaskDeleteHook` | `taskDestroy`, `selTaskDeleteHook`, `Dies` |

The message queue of a pipe is its length, which `MsgQ` justifies.  Each list has a mutex that
waits in FIFO order (`SEM_Q_FIFO | SEM_DELETE_SAFE`).  `untold` exists in the
model only and holds the exceptions of `NoLostWakeup`: `FIOFLUSH` tells nobody that there is room
again; a handler may find the queue of the exception task full or be told by `qMsgPut` that its send has
failed; and a task may be deleted between its write or read and the list it was going to.  An exception
lasts until the pipe is not ready any more or the next wakeup goes through the list.

### Ring and NetTask: jobs as bytes

`Ring` has an operator for each operation of `rngLib.c`, which takes a ring (its size, bytes and two
offsets) to the ring after it.  A reader that can be interrupted between its load of
the writer's offset and the store of its own passes the offset it has loaded, so that
a step of the other side can come in between.

`NetTask` keeps the ring of `netTask` at the level of bytes: a job is `NodeSize` bytes that know
their function and place, so that a torn job would be seen.

| code | action |
|---|---|
| `splnet`, `splimp`; `splx`, and the same lines of `ksleep` | `splTake`, `splnet`; `splx` in its two steps |
| `netJobAdd` by a task: the put; the give | `netJobAdd`, `semGive` |
| `netJobAdd` by the watchdog of a timeout, or by a driver | `Timeout`, `DriverAdds` |
| `netTask`: the wait; the test; the rest of `rngBufGet`; a job | `Take`, `More`, `Get`, then the steps of the job |
| `pffasttimo`, `pfslowtimo`, `if_slowtimo` | `Protocols`, `wdStart` |
| `looutput`; `lodequeue` with the protocols above it | `looutput`, `Sent`; `lodequeue`, `Deliver` |
| `sendto`; `recvfrom` with `soreceive`, `sbwait`, `ksleep` | `send`; `receive`, `soreceive`, `sbwait`, `ksleep` |

The protocols between the queue of IP and the socket are external: a packet becomes a
datagram and up to `MaxReplies` packets.  Nothing but the loopback interface uses `ipintrq`.
`looutput` is called with the network level, so its own `splimp` finds the task that has the level and
its `splx` leaves it there; the model has neither, and it does not matter that
the code returns `ENOBUFS` for a full queue without the `splx` (`if_loop.c:180`).

### Tty: two rings and three semaphores

`Tty` has one reader, one writer and one task that makes requests.  A step of a task is what
lies between two accesses to something a handler uses as well.  The write buffer is the number of
its bytes; in the read buffer a length can be told from a character, and a character
that is taken for a length has the value `CharCode`.

| code | action |
|---|---|
| `tyRead`: `readSync`; the mutex and the tests; get; flow control; the end | `tyRead`, `ReadWoken`; `ReadLocked`; `ReadGet`, `ReadGot`; `ReadXon`, `ReadReleases`; `ReadEnd` |
| `tyWrite`: `writeSync`; the mutex; put; the start; the look for room; the end | `tyWrite`, `WriteWoken`; `WriteLocked`; `WritePut`; `WriteStart`, `WriteLock`; `WriteLooks`; `WriteEnd` |
| `tyTxStartup`, `tyReadXoff`, `tyWriteXoff` in a task | `tyTxStartup`, `tyReadXoff`, `OptionsXoff` |
| `vgaWriteString` in a task: the test for XOFF; a character; the end of `busy`; the look for room; the give | `TxCheck`, `TxStop`; `TxGet`; `TxClear`; `TxRoom`; `TxGive` |
| `vgaWriteString` in a handler or a flush | `Transmits` |
| `tyIntRd` | `tyIntRd` for each kind of character |
| `FIOCANCEL`; `FIOFLUSH`, `FIORFLUSH`, `FIOWFLUSH`; `FIOSETOPTIONS` | `Cancel`; `Flush`, `FlushEnd`; `SetOptions`, `OptionsFlush`, `OptionsFlow`, `OptionsXoff` |

The terminal is the console, whose `txStartup` is `vgaWriteString` (`pcConsole.c:160`).  It has no
transmitter interrupts: who finds `busy` FALSE and sets it drains the write buffer itself.  A task does so with
interrupts on, so handlers come between any two characters, and between the last look at the buffer
and the end of `busy` (`tx[t]` says how far task `t` is).  A handler runs it to its end: no task comes in between, and
the keyboard's interrupts do not nest (the end of interrupt is sent behind the handler, `intArchLib.c:59`).  What is drawn, and `nBytes`, are left out.

`vgaWriteString` does not look at `readState.pending`, which `tyReadXoff` sets to have an XON or XOFF sent
(`tyLib.c:994`): the console tells its peer nothing, and the model has no `pending`.  `readXoff` is the flag `readState.xoff`,
and `PeerIsReleased` is about the flag.  `tyIntTx`, which would send them, is called by the
mouse's driver only (section 7).

The code tests `(c == XOFF) || (c == XOFF)` (`tyLib.c:723`), so a peer that sent XOFF is never heard
again when it sends XON; the model does the same, and `TransmitterSafe` speaks of peers that have not.
A canceled call takes a wakeup and gives none: `eatenRead` and `eatenWrite` mark that, and `NobodyStuck` is about
the other cases.  Who asks for the transmitter after its last look, and finds `busy` set, leaves characters behind: `missed` marks
that, and `TransmitterSafe` says that it is the only way.  None of the three is read by an action.

## 3. Runs

Each task and each handler makes any legal call of the run's `TaskCalls` and
`IsrCalls` at any time.  What a run is about decides which calls it has; the
calls that are not part of a run are in another one.

| run | instance | shows |
|---|---|---|
| `workq` | ring of 3, two nested handlers, 5 jobs between two reboots | the kernel is entered once at a time, nothing is stranded, the right job is called, the ring implements `JobQueue`, and every job is called in the end |
| `vmx_semaphore` | 3 tasks, counting semaphore with a priority queue, timeouts up to 2 ticks, changing priorities, 1 job | no exit leaves a job; jobs act on live objects, also across deletion; queues stay sorted; nobody waits for a semaphore with a positive count |
| `vmx_control` | 2 tasks, delete-safe mutex, preemption lock, suspension from handlers, forced deletion | flags and queues agree in every intermediate step; the first ready task runs |
| `vmx_mutex` | 3 tasks, delete-safe recursive mutex, `taskSafe`, deletion of tasks and of the mutex | results of takes, safety counts, one deleter for each task, deleters that wait have a reason |
| `vmx_live` | 2 tasks of one priority, slices of 2 ticks, fair clock | delays end; equals take turns |
| `msgq` | 3 tasks (two equal), 2 nodes, 2 texts, timeouts up to a tick, 1 job | nodes are conserved; waiters are not forgotten; deletion gets all nodes without waiting; the lists implement `MsgQueue` |
| `watchdog` | 2 watchdogs, one private, delays 0 and 2, starts before the second tick, 2 jobs, handlers on stacks of less than 5 frames | deferred starts are counted exactly; status, queue and keys agree; functions are called in their tick, for the start that asked; nothing refers to a deleted watchdog |
| `select` | 3 tasks and the exception task, two of them select, one may be deleted; a pipe of one message, a descriptor without `FIOSELECT`, three kinds of requests | nobody sleeps on a ready descriptor; no wait ends for nothing; no node outlives its call |
| `net_task` | a sender, a reader, `netTask`, one timer, a ring of 2 jobs of 2 bytes | jobs stay whole; none is stranded; timers go on; the level is exclusive; the reader sleeps on no datagram |
| `tty` | buffers of 4 and 2 bytes, lines of up to 2 characters, four kinds of characters, lines with echo, with and without flow control, or raw with echo; 3,439,344 states | lines stay whole; reader and writer go on; the write buffer has one consumer, and nothing stays in it but what was missed; a stopped peer is released |
| `net_stranded`, `tick_wrap` | as `net_task`; as `watchdog`, `WORD` = 4 | each finds one disagreement of section 6 |

Bounds.  A ring of 3 slots holds 2 jobs, so 5 jobs wrap it, fill it and overflow
it, with a slot that is reserved and not yet filled behind one that is being
called.  Two nested handlers are the least with a deferral inside a deferral;
the theorems cover any number.  Three tasks with two priorities give one task
that preempts, two equals, and two waiters in one queue next to an owner, or two
tasks that delete the third.  Two ticks tell a timeout that has just begun from one
that is due.  `MaxWork` bounds the jobs that wait: one in the runs of `Vmx` and `MsgQ`, next to
the calls handlers make directly and the job that is being done; the theorems cover any number.
`UnsignedMax` stands for 2^32 - 1, so counters wrap as they do in the code; it is
3 in `vmx_control`, where forced deletion reaches the wrap.  There is one
semaphore in each run; two that one task owns differ in the safety count only.
In `msgq` two nodes are enough for a queue that is empty, partly full and full, with
an order between two messages; nodes, texts and the two equal tasks are symmetric
there, as no definition compares or orders them.

In `watchdog`, `WORD` is 16 and nobody starts a watchdog after two ticks, so that all
keys are far from the wrap; in `tick_wrap` it is 4, and the counter wraps at the third
tick.  `MaxFrames` bounds how deep calls and interrupts are nested: five frames hold a
handler in a watchdog function in a tick job in a tick in a task.  Two delays, one of
them 0, give a start that is due at once and one that is not; `MaxWork` = 2 is a
deferred start and what follows it.

In `select` a pipe of one message is empty or full, so every write and read changes what
others wait for.  Two tasks select, so that a wakeup for one is not taken for the
other's, and the third makes the pipe ready; the requests cover one side, both sides and
a descriptor that has no `FIOSELECT`.  `EXC_MAX_MSGS` = 1 fills the queue of the exception
task at once.

In `net_task` a job has 2 bytes, the least that can be torn, and the ring holds 2 jobs; a
burst of 2 packets and one reply for a packet are the least with a packet behind
another.  `sb_max` = 1 fills the buffer of the socket with one datagram.

In `tty` the options go from lines to raw and back, and flow control on and off.  The read buffer (4) is the smallest that is larger than a line (2) and the lower
threshold (1), as `TtyAssumption` asks; a call of the writer asks for all the buffer
holds, so that it is cut in pieces by echo.  The end-of-file character, which ends lines
without being part of them, and the character that deletes a line are in the model, and `TtyProof`
covers them; the run leaves them out to stay small.

A task that is dead or suspended for good is legal, and so is a system in which
all are; the clock goes on, so no state is a deadlock, and deadlock is checked.  `select`
is the exception: it has no clock, and all tasks may be waiting or gone.

### Fairness

`WorkQ!Fairness` lets a level that executes go on, and lets handlers return.  It is
strong, because an interrupt takes the processor from a level again and again.
Nothing has to be posted and nobody has to enter the kernel.

`Vmx!Fairness` says: the kernel's code goes on; the clock interrupts again and again,
and its handler announces the tick, directly or as a job; and now and then the
kernel finds the work queue empty in `workQDoWork` and behind it, which excludes
only handlers that post a job at each of those moments forever.  No task owes a
call: a task may hold the processor without end, and still delays end and, with
round robin, its equals get their turn.

`Watchdog!FairSpec` says the same of ticks, the loop, jobs and functions;
`WatchdogLive.cfg`, started by hand with `tlc -config WatchdogLive.cfg MCWatchdog`, shows
with it, for one watchdog, that every start is called in the end, or cancelled
(`StartsAreCalled`).  The other modules state
no fairness: what has to be woken is said by invariants there ("whoever sleeps has
nothing to wait for, or is about to be woken"), which hold whatever the scheduling.

## 4. Proofs

The theorems hold for every value of the constants that the named assumptions of the
modules allow: any ring of at least two slots and any depth of nesting for
`WorkQ` (`WorkQAssumption`), any watchdogs, delays and depth of nesting for `Watchdog`
(`WatchdogAssumption`), any sets of tasks and semaphores and any bounds for `Vmx`
(`VmxLibAssumption`, `VmxSchedAssumption` and those of the modules between).  TLC
evaluates these assumptions in the runs.

### The work queue (WatchdogProof, second part)

The inductive invariant is `IInv`, with five parts.  `WorkQTypeOK` gives the ranges of the
two indices.  `Control` says who can be where: levels above the innermost one are
out, a level that posts has found `kernelState` TRUE, and one level at most is inside
the kernel.  `Content` relates the ring to the jobs, while it has not overflowed: a
flag that is set with a job in the ring is about to be cleared by a level that posts
(`FlagTells`); the slots between the indices hold the jobs that were posted and not
called, in order, or a level is about to put them there and knows which (`Stored`,
`Storing`); and what `workQDoWork` has taken is the next job (`Taken`, `NoneTaken`).  The
properties `NoStrandedWork` and `CallsPostedJob` complete it.

Why the strengthening is needed: `NoStrandedWork` speaks of the moment when
`kernelState` is cleared, but the flag that is tested then was written by a handler,
or by `workQDoWork`, long before; only `FlagTells` says what it is worth in between.  And
`CallsPostedJob` is about one slot, while the step that fills a slot, or moves an index
past the end of the array, has to preserve the meaning of all others.

`PromiseKept` is the step simulation: each action of `WorkQ` is matched with an action
or a stutter of `JobQueue`, one case per action, from `IInv`.  `DistanceFacts` carries the
arithmetic of indices modulo the size of the ring.

### Watchdogs (WatchdogProof, first part)

The state of control is a stack of any height, and each of the properties is about what may
be on it.  The inductive invariant `WdInv` has eight parts.

* `Types`: the type of every variable.
* `StackOK`: which code can stand on which (`Shape`).  One frame at most has set `kernelState`, and
  what runs inside the kernel stands above it; only interrupts come between the entry of a section, or the
  reading of a watchdog's function, and the next step; a watchdog about to be called stands on its tick loop.
  `kernelState` is TRUE exactly with a section on the stack, and jobs wait only then.
* `Deferred` is `DeferredCounted`, with the sets of jobs and frames that hold a start.
* `StatusOK`: a watchdog that is not valid is dead, or being destroyed, and then no job and no
  frame but that one refers to it.
* `QueueOK`: the tick queue holds each watchdog once, those whose status is `IN_Q`, and none that is about to be called.
* `FateOK`, `FuncOK`, `DelayOK`: a watchdog that is queued, or about to be called, is one that was asked
  for, unless the code that cancels it is on the stack; the function that was read is that of the
  last start, unless a start is deferred; and of the deferred starts of a private watchdog the last has its delay.

Why each part is needed: `DeletedIsUnused` holds because `wdDestroy`, having found `kernelState` FALSE, has
found no job and no section on the stack either, and from then on no call accepts the watchdog; without
`Shape` a frame below could still refer to it.  `CalledAsAsked` is decided when the watchdog is called, but the
function was read a step before, with interrupts on; what a handler does in between can only defer a start, which
`Deferred` shows in the count that `Fire` tests.

The argument goes by what a step does to the stack: all it does is push a frame, pop one or replace the
last one (`ShapeAppend`, `FrontLast`), and all it does to the jobs is append one or take the
first (`HowManyAppend`, `HowManyTail`).  One lemma per action says which counts go up and down with it.

Time is a second invariant, `TimeOK`: both counters agree, the queue is sorted by the ticks its
timers are set to, what was taken out was due, and only with a tick loop on the stack is something overdue.  It
is preserved as long as the tick counter is further from its wrap than the longest delay (`NoWrap`), and the
theorems that rest on it, `CallsDecideRight`, `NoneIsEarly` and `NoneIsLate`, have `[]NoWrap` as hypothesis: the
first because a part of it is that the queue is sorted.  The hypothesis holds in all behaviours
of the run `watchdog` (`WORD` = 16, two ticks and what is needed to end the delays); in the code it holds for
2^32 ticks less the longest delay.  Behind it the properties are not claimed, and `NotEarly` is false there (section 6).
`StartsCounted`, `CalledForItsStart` and `DeletedIsLetGo` need no such hypothesis, and hold across the wrap.

### Queues (QPrioProof)

A queue of the model is a sequence, and what the code says with links is here said
about sequences: `IsQueue(q, S)` (elements of `S`, each once) and `QSorted`.  The lemmas say what
`InsertAsNth`, `QPrioPut` and `QRemove`, a tail and an append do to both, whatever the keys are.  An
insertion keeps a queue sorted because it comes behind the last element with a key that is not larger;
that there is such a place is `FirstIndex`, the least number of a finite set of indices, for which
the induction theorems of the library cannot be used.

### Routines and loops of the kernel (VmxSchedProof)

`Vmx` and `MsgQ` are two sets of callers of the same kernel, so what the kernel does for both is proved once, about
`VmxLib` and `VmxSched`.  Each routine that changes a queue has a lemma for the types of what it changes (`SuspendTypes` to
`ExpireTypes`), one for the queues and flags (`SuspendQueues` to `PriorityQueues`), and where a proof needs it, one that says that
nobody begins to wait (`QueuesShrink`).  `StepTypes`, `StepRuns` and `StepWakes` put them together for a step of
the scheduler or of a loop of a section.

### Types, jobs and the exits of the kernel (VmxProof)

`TypeInv` gives every variable its type, down to the shape of each step in `code`, each loop in `todo`
and each job in the ring; it is inductive alone and implies `TypeOK`.

For the jobs the inductive invariant is `JobInv`: of the types, only what the argument needs
(`TypesOK`), `NoJobLeft`, and `JobTargetsAlive`.  The last one is not inductive
alone.  A deferred call verifies its task or semaphore when it is posted and acts on
it when it is called, and what makes a task dead or a semaphore invalid happens at
the start of a kernel section, with `kernelState` FALSE: only `NoJobLeft` says that no
job can wait at that moment.

The steps fall into three classes, with one lemma each.  `Outside` steps begin with
`kernelState` FALSE and start a section (`SemCallOutside`, `TaskCallOutside`): they may
kill, but there is no job.  `Inside` steps (`KernelInside`) run with the flag TRUE: they
move tasks between queues but keep all of them alive, which one lemma for each
routine of `VmxLib` shows (`SuspendAlive` to `ExpireAlive`), and jobs only leave the queue.
Posts (`PostKeeps`) and the rest of what handlers do (`InterruptKeeps`) add a job that
has been verified.  The queues themselves do not enter the argument, so it also holds
after `vmxUndelay` has left a task in the tick queue.

### Which queue, which task, which wait (VmxProof)

These theorems have the hypothesis `NoUndelay`: no task or handler calls `taskUndelay`.
It is needed, because `vmxUndelay` leaves its task in the tick queue (section 6, `VmxUndelay.cfg`).  No code of
the repository calls it, but its name is in the symbol table of the shell.

`KernInv` is `QueuesMatchStatus` and `QueuesSorted` in one: `ReadyOK`, `TickOK` and `PendOK` say for each
kind of queue that it has each task once, in order, and that its elements are those with the flag, and for
pending queues that a task is in one of them.  The actions are put together from the lemmas of `VmxSchedProof`.

`SchedInv` adds to `HighestRuns` what the exits of the kernel rely on: there is no loop left on the
way to `vmxExit`'s tests; a handler that is running found the kernel at rest or on its way out; who is
about to be dispatched is still the first of the ready queue; and the idle flag is up in `noTaskReady` only.  `RunInv` is
all three.

`NoNeedlessWait` is inductive relative to `RunInv`.  A semaphore becomes full only if nobody waits
for it, because the give takes the first waiter instead; and a task begins to wait for it only if
it is not full.  `WaitsStay` says that a step in which no queue gets its first waiter and no semaphore becomes full
keeps the property, and most steps are of that kind (`QueuesShrink`, `NobodyNew`).  A deleted semaphore may have
waiters while the loop that ends their waits is to be done (`Terminating`).

### Deletion and takes (VmxProof)

`CallInv` says what a call still has to do.  `CodeOK` lists the shapes of `code[t]`: one last step, or the rest of a
deletion.  `LoopsOK` lists those of `todo`, and knows who is inside `semDestroy`.  `DeadOK` says that a dead task is in
no call and waits for nothing.

`DeletionInv` is `Balance` and `KillOK`.  `Balance` counts: `safeCount[t]` is the sum of the calls of `taskSafe`, the
mutexes the task owns, the task's own deletion of another one, and the tasks that are about to
delete it.  That is `SafeCountBalanced` at every step, so it also says what the counts are in the middle of
`semDestroy`, where the mutex is invalid and the `taskUnsafe` still to come (`Owned`, `Unsafe`).  `KillOK` is `OneKiller`, and that
the victim lives.  They need each other: a second deleter goes on only if `safeCount` of the victim is 0, and
by `Balance` it is at least 1 while the first one is there.

The hypotheses are properties of the calls that are made, and each is there because the claim
is false without it:

* `NoForce`: `taskDeleteForce` sets `safeCount` to zero (section 6, `VmxForceKill.cfg`).
* `NoResume`, for `SafeCountBalanced` only.  The victim is suspended, but another task or a handler may resume it, and
  it may be in a deletion itself: then the count it has raised at its own victim is never lowered,
  as it is killed in between.  Such a count makes a task safe that need not be, never the reverse, so `OneKiller` and `DeleterHasReason` hold
  with `taskResume` too: `Slack` is the number of counts that may be left over, one for each dead task.
* `CountsFit`: 2^32 - 1 is at least the bound of `taskSafe`, the tasks and the delete-safe mutexes together, and two
  more.  The code does not look for overflow.

`ReasonInv` says who keeps a deleter waiting: the victim is protected (`Sheltered`), or has lowered its count and is
about to go through those who wait (`flushSafety` still in its code), or is doing that (`Woken`).  The look at the
count and the wait are one section of `taskDestroy`, so nobody waits for a task that is not protected; and when a
task that is about to wake its deleters is deleted itself, the same section of `DestroyKills` wakes them.

`TakeInv` is about the result of `semMTake`.  `TakeOK` says for a task that has begun to wait: it waits for
this mutex only, is not in the tick queue without, does not own the mutex while it waits, and from the moment its wait is over
`retVal` says if it does.  A give writes the owner and the return value in one kernel routine, and a timeout and
`vmxPendQTerminate` write ERROR; the step from there to "taken" may be long.  `PlaceOK` is needed for the time between the wait and
the switch to another task: the return value is written to the saved context, which must not be
saved again behind it.

### Message queues (MsgQProof)

The assumption is `MsgQAssumption`: any finite set of tasks that is not empty (`kernelInit` makes one) with any priorities, any
finite pool of nodes, an empty one included, any texts, and any bound of the work queue.  The inductive invariant is `MsgQInv`:

* `KernelOK`: types, queues and flags of the kernel, what its exits rely on, and that a task that executes its own code is ready.
  There is no hypothesis about calls here, since the calls of this module do not include those that break it.
* `CallsOK`: the lock count of a task is 1 exactly from the start of its call to `taskUnlock`, and a call that looks for a node or
  has one finds the message queue valid.
* `HolderOK`: a call that is not waiting has the processor, through interrupts and ticks too, so there is one at a
  time.  This is where `taskLock` enters the proof.
* `WaitersOK`: a task is in a pending queue only if its call waits there.
* `NodesOK`, `DataOK`: a node is in one of the lists, in `gathered`, or in the call of one task; nodes in the list of messages hold
  messages, and so does a node between its `memcpy` and its list.
* `NobodyForgotten` itself.  Of the tasks whose wait is over it counts only those that were told OK (`Looks`), as
  a task that timed out leaves without a look at the list.

`Consistent` is `NodesOK` in numbers.  `GatherComplete` follows at once: a task that gathers found the queue invalid, so by `CallsOK`
no other has a node.  The node that `msgQDestroy` would "wait a little" for (`msgQLib.c:367`) would be one of a sender that was
preempted in its `memcpy`, and by `HolderOK` there is none when the queue becomes invalid.

`NobodyForgotten` is about a difference in time.  A put links its node and wakes one task in two steps of the code, or, if a handler
sends during a kernel section, in the section and a job; and the task that is woken looks at the list
when it gets the processor, by which time another may have taken the node.  The invariant counts: a list in which tasks wait has at
most as many nodes as there are tasks that will look at it, and jobs that will wake one.  A put adds one to both sides (`WokenLooks`,
`EnoughCount`), a call that takes a node subtracts one from both (`LookerLeaves`), a job that runs becomes a task that looks,
or finds nobody waiting; and a call that begins to wait has found the list empty.

`MessagesKept` is the step simulation of `MsgQueue`.  `PromiseStep` says in words of the model what a step may do to the messages
of the filled list (`Contents`) and to what receivers have got, and `PromiseWords` that this is a step of `MsgQueue`
or a stutter.  Then each action has its step: `qMsgGet` of a receiver is the reception (`GetNodePromise`), since the node is its
own from then on, its `memcpy` is none, because no other step writes that node (`CopyPromise`), `qMsgPut` of a
sender is the sending (`PutPromise`), which finds the abstract queue below its capacity because the sender's own node
is not in the list yet (`MessageEnters`), and `Leave` of a receiver is the return.  Handlers send in one step (`HandlerPromise`).

### Select (SelectProof)

The assumption is `SelectAssumption`: any tasks, pipes and requests, a pipe with room for at least one
message, a queue of the exception task of any length.  The inductive invariant is `SelectInv`:

* `CodeOK`, `StateOK`: types; a task in `wait` has gone through all its descriptors, and a deleter's victim
  is suspended.
* `ListsOK`: no node is in a list twice.  `selNodeDelete` takes out one node, so that a second one would stay.
* `NodesOK`: a task that runs has a node exactly for those descriptors of pipes that its call has been at and
  will come to again (`Noted`, from its place in the call).  Out of a call there are none, which is `Consistent`.
* `WakeupOK`: a call whose semaphore is full has found something (`WokenForSomething`), and for one whose semaphore is empty,
  every descriptor it has looked at (`Looked`) and that is ready by now is told about (`Told`): somebody is on the way to the
  list, or a job of the exception task is, or it is an exception.

`NoLostWakeup` is `WakeupOK` at the wait.  It has to begin at the look: what becomes ready between the look and
the wait is told of by a task that may go through the list long before the wait.  It is inductive because the node comes
first: who goes through the list and clears `Told` finds, by `NodesOK`, the nodes of all calls that have looked, and fills
their semaphores.  And the test of the list without its mutex (`LookAtList`) finds it empty only if no call has looked.

`UndisturbedKeeps` is the lemma all steps share: a call stays in order if a step leaves its nodes and variables alone and
whoever was told of something still is (`StaysTold`).  Each action then has one lemma.

### Rings (NetTaskProof)

What a ring holds is the sequence `Contents`: the bytes from the reader's offset on, around the end of
the array.  The theorems say that
`rngBufPut` appends (`PutAppends`), `rngBufGet` takes from the front, also with the old offset of the
writer when bytes were put meanwhile (`GetTakes`), that the operations on one byte are
the same with one byte (`ElemIsBuf`), and that what is put ahead is invisible until
`rngMoveAhead` (`AheadIsInvisible`, `MoveAheadShows`).  They justify that `Tty` keeps a
sequence and a number instead of rings, and the proof about the network task uses them.

### The network task (NetTaskProof)

The assumption is `NetTaskAssumption`: the ring has room for `Nodes` jobs of `NodeSize`
bytes, both positive.  The inductive invariant is `CodeOK` (where a task can be),
`LockOK` (the level belongs to the task that is inside, `LevelIsExclusive`), `JobsOK`, `FuncOK`,
`TimersOK`, `SocketOK`, and the shapes of the rest (`SharedOK`).  Jobs stay
whole because the bytes in the ring are always a multiple of `NodeSize`, and so are the free ones: a
put finds room for all of a job or for none of it, and `rngBufPut`, which would store a part, never does.
`netTask` sees a multiple too, and one that is not 0 is at least `NodeSize`; `GetOK` says that what it has
seen is still there at its get, whatever was put since.  No job is stranded, because
each put is followed by a give, and `netTask` waits only when it has found the ring empty.

`TimersGoOn` needs to know which bytes begin a job: `PlacesOK` says that the byte at place
`k * NodeSize + i` of the ring is the `i`-th of its job, which a put and a get of whole jobs keep
(`PutPlaces`, `GetPlaces`), so that a get loses no function but the one it returns.
`FuncOK` follows that function through the job to its `wdStart`.  `NoSleepyReader` is extended back to the
moment `sbwait` notes its wish (`SleepOK`): until the reader sleeps either the wish is noted and the buffer is
empty, or the semaphore is full.  It is about one reader only, since several share the semaphore.

### Terminals (TtyProof)

The assumption is `TtyAssumption`; that a line and the lower threshold are together less than the
read buffer is what the code relies on for `PeerIsReleased` (100 and 255 bytes, and
the drivers ask `tyDevInit` for 512).  The inductive
invariant `IInv` has eleven parts.

* `CodeOK`, `MutexOK`: what a task keeps at each place, and which places are inside the mutex.
* `BufferOK`: bounds, and that a line being typed will still fit with its length; this holds between a change
  of the options and its flush too, which is the moment when raw characters may take the room.
* `TxOK`, `OneTransmitter`: a task runs `vgaWriteString` only at the places of its code that call it, and has the
  transmitter, from its start to the end of `busy`, exactly if `busy` is set.  The writer's first look at `busy` is
  without the interrupts locked (`WriteStart`), so another may have set it by the second; `TxStartFacts` is about
  the second.  `OneIs` turns the count into "one task, and no other", and `TransmitterNext` says what a step does to the set.
* `MissedOK` is `OnlyTheMissedStay` from the moment the transmitter has looked for the last time (`PastLook`), not only
  from the end of `busy`: what is in the buffer then was missed, or is stopped, or the writer is about to ask.  Who asks
  (`AskedFor`) either has the transmitter from then on or, by `OneTransmitter`, knows that its owner will look, or marks it as missed.
* `WriterOK` is `NoStuckWriter` from the moment the writer has looked for room, not only
  from the moment it waits: characters may go out between the two.  Either there is no room, or a task is in
  `vgaWriteString` ahead of its look for room (`Looks`), from which only that look takes it away (`LooksOn`).  Room that
  a handler makes comes with the give.
* `PeerOK`: whoever empties the buffer looks at the flow control before it lets the
  mutex go; and with `TANDEM` off a stopped peer is one the pending change of
  the options will release.
* `LinesOK`: the buffer is `Whole`, or what the reader is about to leave of it is.  `Whole(s, left)` says that
  the places where lines start, as their lengths tell, are the places where lengths
  are.  `WholeAppend`, `WholeHeader` and `WholeDrop` show that a line put
  behind, a length taken out, and characters taken out keep it; the last one needs that no length
  is among the characters that are left of a line (`NoLengthBefore`, by the least such place).
* `FlagsOK` and `NoStuckReader` need nothing else.

## 5. What is only model-checked

* Liveness (`JobsAreCalled`, `DelayEnds`, `TurnComes`, `StartsAreCalled`): temporal properties under
  fairness need ENABLED, which the prover does not handle.
* The kernel's properties with the calls the hypotheses of section 4 exclude.  With `taskResume` and
  `taskDeleteForce` the runs check `QueuesMatchStatus` and `HighestRuns` (which are proved for them as well); with `taskUndelay`
  nothing about queues holds.
* That a section without its loops is one step (the reduction from `WorkQ` to `Vmx`) is an
  argument of this text: `KernelMutex` and the discipline that handlers post.

## 6. Disagreements between the code and what is said of it

Two are runs with `expect` = `violation`, whose traces show them; in the passing
runs of the same modules the instance is such that they cannot happen, or the property is not asked.

| run | what happens |
|---|---|
| `net_stranded` | `looutput` adds a job only for a packet that finds the queue of IP empty, and the job takes one packet: two packets sent before `netTask` runs leave one in the queue, and no later packet finds the queue empty (`if_loop.c:195`, `if_loop.c:220`).  `NoStrandedPacket` |
| `tick_wrap` | when `sysTicks` would wrap, the keys of the tick queue are shifted and `sysTicks` restarts at 0; `qPrioExpired` compares the keys with `tickGet()`, which is `sysAbsTicks` and goes on: all timers seem due (`vmxLib.c:261`, `vmxLib.c:653`, `qPrioLib.c:302`).  `NotEarly` |

Five more of the kernel, one of select and one of terminals are kept as configurations to be run by hand (`tlc -config
VmxUndelay.cfg MCVmx`, and so on): each has one invariant, which the code violates.

| configuration | invariant | what happens |
|---|---|---|
| `VmxUndelay.cfg` | `TickQMatches` | `vmxUndelay` passes `&tcbId->priority` to `Q_REMOVE` on the tick queue, where each put uses `&tcbId->tickNode`: the task is ready and still queued for its timeout (`vmxLib.c:300`).  In the model only the queue is wrong; in memory the words behind `priority` are taken for list links |
| `VmxOwner.cfg` | `OwnerNotDeleted` | the deleter looks at the victim's `safeCount` once.  If the victim waits for a delete-safe mutex, a give after that moment makes it the owner, and it dies as such; the mutex stays owned by a dead task (`taskLib.c:735`, `semMLib.c:463`) |
| `VmxForceKill.cfg` | `OneKiller` | `taskDeleteForce` sets `safeCount` to zero, with it the mark by which an earlier deleter keeps others out: two tasks run the deletion of the same victim (`taskLib.c:610`) |
| `VmxVerify.cfg` | `VerifiedStillAlive` | `taskSuspend` trusts the check of the id in `taskTcb`, and sets `kernelState` later with interrupts on: in between the task can be deleted (`taskLib.c:795`) |
| `VmxNoWait.cfg` | `CallsUnlock` | `semMTake` with `WAIT_NONE` leaves its loop without `INT_UNLOCK`: the caller goes on with interrupts off, until the next exit of the kernel that turns them on (`semMLib.c:338`) |
| `SelectDelete.cfg` | `NodesOfLiveTasks` | the delete hook takes the nodes of a task out only if the task waits in `select`; a task deleted on its way there or back leaves nodes of a dead stack in the lists of its devices (`selectLib.c`, `selTaskDeleteHook`) |
| `TtyEcho.cfg` | `TransmitterRuns` | `vgaWriteString` looks at the write buffer for the last time (`m6845Vga.c:652`) and then clears `busy` (`m6845Vga.c:803`), with interrupts on.  A key echoed in between finds `busy` set, so `tyTxStartup` ("Start transmitter if nessasary", `tyLib.c:1050`) starts nothing, and the echo stays in the buffer until something else is written.  The same holds for a write next to an `ioctl` that transmits, and for an XOFF that is taken back between `m6845Vga.c:644` and `647`.  `TransmitterSafe` shows that there is no other way |

## 7. What is not modelled

* *`tickSet`*, which moves `sysAbsTicks` alone; nothing in the sources calls it.
* *A watchdog that starts itself with delay 0 from its function*: the loop of `vmxTickAnnounce`
  finds it again and again and never ends.  That is a behaviour of the model like any other, and breaks no
  invariant; `WatchdogLive.cfg` has positive delays only.
* *Creation, restart and suicide of tasks; signals.*  A task exists from the start.  A
  call that waits is never restarted (`SIG_RESTART`).  With them go the loop of a
  restart of the caller itself (`taskLib.c:1069`), and the stack `taskDestroy` frees before it
  invalidates the id (`taskLib.c:713`).
* *`semMGiveForce`*, and unpend handlers of semaphores used by `select`.
* *Message queues*: the result of a send (`qMsgPut` does not set it when the wakeup is
  deferred; module `Select` has that for pipes), a receive by a handler (which raises the lock count of the
  interrupted task and is refused), tasks that are suspended or deleted while they are in a call.  A wait
  with `WAIT_NONE` in `vmxPendQPut` (`vmxLib.c:562`): no caller asks for it.
* *Select*: the bits of descriptor sets, the create hook, devices that are deleted while
  tasks wait for them, select on terminals.
* *Terminals*: the change of carriage returns and newlines (`CRMOD`), the abort and monitor
  characters, the change of buffer sizes, more than one reader or writer.  What `vgaWriteString` draws.
* *The mouse's terminal*: `i8042MseTxStart` (`src/drv/input/i8042KbdMse.c:395`) is the one caller of `tyIntTx`, which it calls
  until nothing is left, in the context of whoever starts it, too.  Nothing in the sources
  writes to the mouse.
* *Network*: the protocols above and below the queues, streams, several readers of one socket (they share one
  semaphore, so a wakeup may be given to the one that looked already).
* *Linked lists and bitmaps* of the queue classes, memory, stacks, registers.
* The subsystems above the kernel, listed in section 1.  Most of the sources by size are ported
  BSD protocols, generated parsers, fonts, a C library and a graphics library: sequential code
  without a protocol of its own between tasks.

## 8. Plan

In this order; each item names the module, what it composes with and what it is for.

1. `Dll`, `QPriBmp`: linked lists and bitmap as pointers, shown to implement the
   operators of `QPrio` for bounded inputs; with it the FIFO of `qMsgLib.c`.
2. `TaskLife`, on `VmxTask`: creation, activation, restart of itself and of others, the
   deletion of itself through the exception task, `kernelTimeSlice`, `semMGiveForce`.
3. `MsgQ` with results, and with suspension and deletion from `VmxTask`: is a waiter
   forgotten when the task that was woken is deleted?
4. `MemPart`: free list, split and join.
5. Signals, on `TaskLife`: pending sets, and calls that are restarted.

Proofs: every invariant and action property of the passing runs is stated by a theorem, under the hypotheses
section 4 names.  Next are the calls those hypotheses exclude (`taskResume`, `taskDeleteForce`), invariant by
invariant; then the reduction from `WorkQ` to `Vmx` as a refinement; and each module of this plan with its theorems.
