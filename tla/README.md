# FragExt in TLA+

FragExt is a set of Windows programs that show and repair the fragmentation of
files: a defragmentation engine, a service that runs it on behalf of clients, a
queue manager with a dialog, shell extensions, and a file system filter driver.
What is hard in it is less the arithmetic of clusters than the threads around it: a
hand-written reader/writer lock, a lock-free list of records, a service with its own
copy of COM's server life cycle, a task engine whose three threads share two queues,
three events and one dialog, a directory walk that hires threads as it goes, and a
driver whose callbacks run in every thread of the system. The engine itself works on a
volume that everybody else changes meanwhile.

This directory holds specifications of those parts, translated from the C++
sources, with TLC runs on small instances and TLAPS proofs for every instance.

| Module | What it is |
|---|---|
| `RWLockSpec` | what a recursive reader/writer lock promises |
| `RWLock` | `FragExt.Lib/RWLock.cpp`, one action per access to shared memory, with or without store buffers |
| `MCRWLock` | `RWLock` on both machines in one run: steps in program order, or plain stores delayed |
| `RWLockProofs` | type correctness, exact reader count, exclusion, refinement of `RWLockSpec` |
| `SvxServer` | the service's start, calls, call-backs and stop: `ServiceCtl.cpp`, `COMLib.cpp`, `COMLib.h`, the entry points of `ServiceMgr.cpp` and `DiskDefrag.cpp` |
| `SvxServerProofs` | type correctness, the call count, the server references, the order of the two service threads |
| `TaskManager` | the queue manager's engine and its dialog: `TaskMgr.cpp`, `TaskDlg2.cpp` |
| `QueueProofs` | of `TaskManager`: type correctness, no lost wake-up, a paused engine can be resumed, one owner for each record, updates in order; of `FragQue`: the contexts' counts, the queue as asked, notifications told, late callbacks |
| `RecordLog` | what the filter driver's record log promises: a bounded queue |
| `FilterLog` | the filter driver's record log: `FragFlt.c`, from the record allocation to the client's read |
| `FilterLogProofs` | type correctness, the record count, the limit, the order of delivery, the event references, refinement of `RecordLog` |
| `FilterCapture` | how the driver follows one file: the callbacks and stream contexts of `FragFlt.c` |
| `FilterCaptureProofs` | type correctness, references to contexts and names, what is logged of a file |
| `FileExtents` | what a file looks like on a volume, and what a fragment context of the engine says of it: `FragCtx.cpp` |
| `Engine` | the search for free clusters and the move loop: `FragEng.cpp`, `FileDefrag.cpp` |
| `RecordPool` | what the cached list promises its users |
| `CacheList` | `FragExt.Lib/CacheList.cpp`, one action per interlocked access |
| `CacheListProofs` | conservation of records, refinement of `RecordPool` |
| `DirEnum`, `MCDirEnum` | the enumeration of a directory tree by one thread or several: `FragExt.Lib/DirUtil.cpp`; a tree for TLC |
| `DirEnumProofs` | no worker outlives an enumeration, nothing is left out, the order without workers |
| `FileFragments` | the fragments object of `CoFrag.Dll` and its enumerators |
| `FileDefragmenter` | the defragmenter object of `CoFrag.Dll` |
| `CoFrag`, `MCCoFrag` | both at work on one file; a file for TLC |
| `FragmentProofs` | of `Engine`: progress, fragments against attempts, the search; of `CoFrag`: a cancel is answered, an enumerator gives the fragments of its own open; of `PropPage`: contexts, sorting, selection |
| `QueueFile` | the files of the notification queue and their scan, shared by processes: `FragQue.Dll/FragQue.cpp` |
| `WorkQueue` | its work items and the worker thread of each process |
| `FragQue`, `MCFragQue` | the whole library, with enumerations and notifications; two files for TLC |
| `PropPage`, `MCPropPage` | the property page with the fragments of files: `FragShx.Dll/PropPage.cpp`; contents for TLC |

Parse with `tlasany M.tla`, check with `tlc -config X.cfg M`, prove with
`tlapm M.tla`. `PROJECT.json` lists runs, theorems and hazards, and
names the source lines behind every definition (about one line in six of the whole
tree's C and C++, headers included).

## 1. Inventory

### 1.1 Modelled now

**Reader/writer lock** (`FragExt.Lib/RWLock.cpp`, `.h`). State: a
`CRITICAL_SECTION`, the writer's recursion count, its thread id, a count of
readers, an auto-reset event. Operations: acquire and release, exclusive and
shared. Exclusive acquisition enters the critical section, raises the count and
waits for the readers to leave; a reader adds itself with an interlocked
increment, looks at the writer's count and, if there is a writer, takes itself
off again, waits in the critical section and adds itself once more. A library lock:
in the tree it is reached through the wrappers `RWXLOCK`, which take it where the
system has no slim lock, and those are called by a test only (`FragSvx.Unit/Main.cpp`).
Hard: every decision rests on
reading one counter after changing another, without a lock. Correct means:
exclusion, exact counts, no lost wake-up, writers not starved by readers.

**Service control and the COM server library** (`FragSvx.Exe/ServiceCtl.cpp`,
`FragExt.Lib/COMLib.cpp`, `.h`). State: the SCM status, the shutdown event, a
one-shot shutdown flag, COM's reference count on the process, the count of
external calls, state bits, the list of outbound calls that can be cancelled.
Threads: the service's main thread, the control handler's thread, RPC threads.
Hard: the handler and the main thread share state with no lock; calls are
admitted by a test that a shutdown overtakes; a client can hang in a call-back;
any step of the start can fail. Correct means: counts return to zero whatever
fails, the two threads never touch shared state together, a stop completes.

**Service manager and defragmenter objects** (`ServiceMgr.cpp`,
`DiskDefrag.cpp`). Every entry point counts the call in and out; progress
updates go out to the client under a cancellation entry. The defragmenter's own
state (its call-back interface behind a lock) is left for later.

**Queue manager** (`FragMgx.Exe/TaskMgr.cpp`, `TaskDlg2.cpp`). State: the file
queue, the directory queue, a manual-reset event for each, one auto-reset event
and one time-out for suspending, the call-backs, the dialog's flags. Threads: the
dialog's, the defrag thread, the directory thread. The threads send the dialog
window messages and wait for the answer; the dialog waits for the defrag thread
when it closes. Hard: ownership of a record moves between three threads; pause,
resume, cancel and close race with updates already on their way; two threads
wait on the same event. Correct means: each record destroyed once, updates in
order and complete, nothing waits for ever. (The current `Sources` file leaves
`TaskMgr.cpp` out of the build; it is the last complete implementation, and the
dialog in the tree is written against it.)

**Filter driver** (`FragFlt.Sys/FragFlt.c`, `RegData.c`). State, global: the list
of log records under a spin lock, interlocked counts, the event to signal and its
mark. Per file: a stream context with a volume, a name and `LoggedCount`, all
changed by interlocked exchanges and no lock. Operations: callbacks on create, set
information and cleanup, which run in the threads of any program that uses a file;
messages of one client, which sets limits and reads the log; the unload. Hard: a
file is to be logged once, by whichever of its users is first, while it is being
renamed, deleted and closed, and each step can fail; the event is swapped out of
its variable while it is signaled. Correct means: records, contexts, names and
events are counted exactly, the client sees the records in order and none skipped, a
followed file is logged once and again when renamed, the client is woken. The driver also
has a table of processes whose files it ignores, changed without a lock; it is not modelled.

**Defragmentation engine** (`FragEng.Dll/FragEng.cpp`, `FileDefrag.cpp`, `FragCtx.cpp`,
`FragEng2.cpp`). State: the locals of one call: the extents of the file, what is left
to move, the place in the extents and on the volume, the bitmap last read. Operations:
find a free range, move the file there block by block, report, try again when a move
fails; read the extents of a file and compact them to fragments. Hard: the bitmap is old
when it is read; blocks and extents end at different clusters, clusters without storage
count for one counter and not for the other; the size of a map, of the volume and of the
machine word all differ. Correct means: the counters follow the file through failed
moves, the file ends in no more pieces than attempts, a free range is found when there is
one, the attempts end.

**Cached list** (`FragExt.Lib/CacheList.cpp`). State: a lock-free list of free records, a
count of committed regions, an event whose handle value lends a bit to serve as a lock.
Operations: pop, push, commit of the next region by the thread that finds the list
empty. Used by the directory enumeration for its records. Hard: no lock but a bit, an
event that is set before the bit is clear, regions that start in the space their
predecessors waste. Correct means: a record is with one user at a time, none is lost, a
pop returns.

**Directory enumeration** (`FragExt.Lib/DirUtil.cpp`). State: a queue of directories, a
count of workers, an event that says none runs, an abort flag, all on the calling
thread's stack. Operations: take a directory, pass its entries to the caller, queue its
subdirectories, start a worker when the queue grows, wait for the workers. Called by the
queue manager's directory thread (there without workers). Hard: threads leave when the
queue is empty while others are about to fill it; the calling thread's stack goes when
it returns. Correct means: every directory is visited, in order without workers; no
worker outlives the call; the call returns.

**Fragmentation objects** (`CoFrag.Dll/FileFrags.cpp`). State of the fragments object: a
fragment context and the tick count of its opening; of an enumerator: a tick count, a
position, a count; of the defragmenter: an abort flag, a result, a callback. Operations
come from any thread of a script or program. Hard: the object is opened again while its
enumerators are in use, and the file is moved while it is enumerated; a cancel races with
the updates that write the same result. Correct means: an enumerator shows the file of
one open or says that it has expired; a cancel is not lost.

**Notification queue** (`FragQue.Dll/FragQue.cpp`; not part of the build). State, on disk
and shared by processes: a file for each hash of a file name, with a record for each file
queued. In a process: a work queue under a critical section, its event, a worker thread
that starts with the first item and ends after a time without one; counted contexts for
the queue and for a notification; the notification's thread, its event and the time of
its last scan. Operations: insert, remove, enumerate with a callback, register,
unregister, close. Hard: files are locked and deleted by several processes; the worker
ends while an item arrives; a record may be written while the queue is scanned for
changes; every system call can fail while references are counted by hand. Correct means:
the queue holds what was asked for last, every request is executed, a watcher is told of
each record and not after it unregistered, contexts count their users.

**Property page** (`FragShx.Dll/PropPage.cpp`). State: a table of files with an engine
context for each, the streams of a file after it; a table of items that says for each row
of the list which fragment of which file it shows; the columns in the order shown; what
the rows are sorted on; the row last selected. Operations, all in the page's thread:
refresh (posted, on every change of settings), sort, change of columns, keys and mouse,
a menu on a row. Hard: rows move from one table to another with their contexts; the
list's row numbers outlive the tables; a menu is tracked in a message loop of its own; a
comparison of several columns, two directions and rows that must not move. Correct means:
contexts are closed once, sorting does what the column shows, only fragments are selected.

### 1.2 Not modelled, and could be

| Component | State and operations | What is hard, what correct means |
|---|---|---|
| Spin lock, `FragExt.Lib/SpinLock.cpp` | owner, recursion depth (16 bits), spin and yield | depth at its limit, release by the owner only |
| Filter driver's process table, `FragFlt.c` | 512 slots, register, unregister, look up, all without a lock | a process registered twice by two threads and unregistered once |
| Defragmenter's call-back interface, `DiskDefrag.cpp` | an interface pointer replaced while a file is defragmented | use after release |
### 1.3 Left out for good

The GUID database (names for the traces of debug builds), the older queue objects of the manager (stubs nothing calls), the installer, the
unit-test client, path, stream, security, registry and number
utilities (system call wrappers with no state between calls), menus, columns,
tray icon and layout of the dialog. `PROJECT.json` lists each with its reason.

### 1.4 How the parts interact

A user adds files to the queue manager's dialog. `TaskManager`'s defrag thread
takes them off its queue and calls the service (`SvxServer`: `BeginCall` with a
file), whose RPC thread runs the engine and calls the client back with its
progress (`CallClient`, `Answer`); in `TaskManager` that call-back is
`ServiceUpdates`, and the dialog's answer (go on, retry, cancelled) goes back
along the same path. The cancellation list of `SvxServer` is guarded by a critical
section of its own (`gCancelListLock`), which is why insertion, removal and the walk
over it are single actions there. `RWLock` stands by itself: no other component of the
tree takes it.

`_EnumDirThreadHandler` of the queue manager walks a directory through
`FpEnumDirectoryInformation` (`DirEnum`; `EnumFind` in `TaskManager` is its callback),
whose records come from a cached list (`CacheList`). The service and the COM objects
defragment through the engine (`Engine`); `FileDefragmenter` shows the engine from its
caller's side, as moves, reports and a result. `FileExtents`, the extents of a file and
their compaction, is shared by `Engine`, `FileFragments` and `FileDefragmenter`, and
`CoFrag` composes the two objects through the one thing they share, the file.

The property page (`PropPage`) and `CoFrag.Dll` read files through the engine's fragment
contexts; the page keeps one open for each of its rows and counts on the engine for what
a fragment is (`Info`, `FileLayouts`). From its menu it queues files to the queue manager.
The notification queue (`FragQue`) was written for the filter driver's client and the
queue manager, and nothing calls it yet; its processes meet in its files only.

The filter driver stands apart: nothing in the tree connects to its port yet. Its
two modules meet in one call, `FKxFltRecordLogWrite`: `FilterCapture` says when
it is made (`LogWritten`, `LogFails`, `Fallback`), `FilterLog` what it does
(`LogWrite` to `TestTrigger`), in any number of threads at any time.

## 2. Plan

1. `RWLock` with its abstract specification and refinement: done, proved.
2. `SvxServer`: done; counts, references and thread order proved.
3. `TaskManager`: done; all but its liveness proved.
4. `FilterLog` with its abstract specification `RecordLog` and refinement, `FilterCapture`:
   done, proved.
5. `FileExtents` and `Engine`: done; all but its liveness proved.
6. `CacheList` with its abstract specification `RecordPool` and refinement: done, proved
   for any number of threads and any sizes.
7. `DirEnum`: done; all but its liveness proved. `FileFragments`,
   `FileDefragmenter` and their composition `CoFrag`: done, proved.
8. `QueueFile`, `WorkQueue`, `FragQue`: done; all but its liveness proved. `PropPage`:
   done, proved.
9. Open: the process table of the driver, `Defragmenter` (call-back interface) and
   `SpinLock`.

Modules are written for both tools: sets and records rather than encodings,
constants with named assumptions, an inductive invariant as a conjunction of
named parts, no `RECURSIVE` operator beside a proof.

## 3. The modules

### 3.1 `RWLock`

A thread's `pc` names the next access to shared memory inside
`AcquireRWLockExclusive` (`ex_*`), `ReleaseRWLockExclusive` (`rx_*`),
`AcquireRWLockShared` (`sh_*`) and `ReleaseRWLockShared` (`rs_*`); the actions
carry the same names (`ExCount`, `ShDec`, `RsSignal`, ...). `excl[t]` and
`shared` are what the callers hold, not fields of the lock. `StoreBuffered` is
a constant: when TRUE, the plain store to `ExclusiveLockCount` may stay in the
writer's store buffer (`buffered`) until `DrainAlone`, an interlocked operation
or a later kernel call drains it, as on x86 and x64; the interlocked counter of
the readers is never delayed. `MaxDepth` bounds the nesting of exclusive
acquisitions in the guard of `AcquireExclusive`.

The promise itself does not hold on x86 and x64: a writer's store of its count can still
be in the buffer when it reads the reader count as 0, and a reader that comes next reads
the writer's count as 0 (`RWLock.cpp:239`). `slipped` is history and names these readers,
until they release: those whose test of `ExclusiveLockCount` read 0 while a writer past
its own test (`Writes`) had its count in its buffer (`Delayed`). It is empty in program
order.

*Properties.* `SharedCountExact`; `ImplementsRWLock` (refinement of `RWLockSpec`, which
excludes and cannot lose a thread's hold, by all the writers and by the readers that did
not slip); `WriterProceedsInOrder` (a writer inside the critical section gets the lock
however many readers come). Proved only: `WriterExcludes` (a writer shares the lock with
no writer, and with no reader but those that slipped), `WritersExclusive`.

*Two machines.* `MCRWLock` chooses one in its initial state (`delays`): `InOrder` and
`Delaying` are `RWLock` with either value of `StoreBuffered`. `SharedCountExact` and
`ImplementsRWLock` are checked on both; `WriterProceedsInOrder` is about program order and
says so.

*What the run shows.* All of them hold for three threads. `slipped` is an exception and
not a solution: the comment at `RWLock.cpp:254`, "We now own the lock exlusively and we're
the only thread that can execute here", is wrong with store buffers (TLC finds it when the
invariant `MutualExclusion` is added to `RWLock.cfg`), and `ImplementsRWLock` says that
this is the only way in. In the same situation a wake-up can be lost (the reader leaves,
sees no writer, and does not signal) and every thread ends up waiting: `Stuck` is that
state and nothing else, so that a deadlock in program order is still reported.

*Fairness.* Threads inside a call are scheduled, holders release. No fairness on
acquisition; entering a critical section is weakly fair only, since Windows
critical sections hand themselves to nobody in particular.

### 3.2 `SvxServer`

`mainAt` follows `SvxServiceMain` from `SvxCreateServiceEvent` to the report of
`SERVICE_STOPPED`; `handlerAt` follows `SvxServiceHandlerEx` through
`SvxSignalServiceInitiateShutdown`, its recursion through `CoSignalServer`
included; `at[c]` follows a client's call through `CoEnterExternalCall`, the
work, each outbound update (`context`, `insert`, `call`, `out`, `answered`,
`failed`) and `CoLeaveExternalCall`. `Faults` is the set of steps that may fail.
`objects` is what COM's reference count should amount to.

*Properties.* `CallCountExact`, `RefsExact`, `HandlerBeforeCleanup`, `StopCompletes`, `CancelReachesAll`; and, proved only, `StatusForward`.

*What does not hold*: `NoCallDuringTeardown` (TLC finds a counterexample when it is added
to `SvxServer.cfg`, with one client and no faults in seconds). `SvxServiceMain` polls the
call count because "we don't want to abandon the process while they're active"
(`ServiceCtl.cpp:436`). The poll of the call count is the only thing
between a shutdown and the teardown, and `CoSetServerState` never clears the
ACTIVE bit (its mask is `Feature &= DLLLOCK`), so `CoEnterExternalCall` goes on
admitting calls after it.

Found while modelling:

* `CoLockExeServer` "signals shutdown when all references are closed"
  (`COMLib.cpp:138`). When COM started the server, the event that says so is not
  handled (`ServiceCtl.cpp:961-980` handles the deactivation only), and the
  service stays.
* Registering for cancellation "closes a hole that would allow a client to hang in
  their update handler while the service is trying to shutdown"
  (`DiskDefrag.cpp:888`). Cancellation reaches the calls on the list when it is
  walked, once; a client called later and hanging keeps the service in
  STOP_PENDING. `StopCompletes` has the premise that clients answer.
* `SvxServiceMain` cleans up through `CoCancelRegisteredCalls` even when
  `SvxCreateServiceEvent` or `CoInitializeCallCancellation` failed, and then
  enters a lock that was never initialised; the model stops the main thread
  there (`mainAt = "lost"`), and the two liveness properties assume that away.
* After a failed start the service can report RUNNING although its class objects
  were not resumed (`ServiceCtl.cpp:675-684`).

*Fairness.* Weak fairness for each service thread and for a client's thread while
it is inside the service. None for `Answer`: a client may hang. `StopCompletes`
assumes that clients begin no more calls from some point on and that each answers
its updates; `CancelReachesAll` assumes neither.

### 3.3 `TaskManager`

A record (`QUEUEFILE`) is one of `Files`, `Dirs`, `Children`. `dAt` follows the
defrag thread (`wait`, `drain`, `pop`, then for each of three updates `post`,
`sent`, `answered`, with `service` in between, then `signal`, `pause`); `eAt` the
directory thread; `uiAt` the dialog's thread, which is in its message loop
(`loop`) or inside one handler. `backoff` is the wait after the service could not
be reached. `log[r]` is the last update the dialog took for a record, from which
the dialog's completed count follows.

Steps that no other thread can tell apart are one action. For instance the
check of the dialog's shutdown flag is made together with `_DoWaitResume` that
precedes it: a shutdown in between answers the message it would have suppressed,
with the same result. What does make a difference is kept apart: setting the
time-out and resetting the event (`Pause`, `PauseReset`), inserting a record and
setting the event (`Insert`, `InsertSignal`), consuming the time-out and waiting
(`DefragPause`, `DefragDelay`, `DefragResumed`), the stages of `Uninitialize`.

`_DoWaitResume` runs in any of the three threads, the dialog's included, when a
flush posts updates. COM is initialised multi-threaded (`_ATL_FREE_THREADED`), so
a wait in the dialog's thread handles no messages: `uiAt = "asleep"` has no exit.

*Properties.* `RecordsOwnedOnce`, `NoLostWakeup`, `EventsInOrder`, `FileCompletes`,
`ShutdownCompletes`; and, proved only, `PausedCanResume`: a file can complete after the
pause that was meant for it, and its update must not disable the button that resumes.

*What does not hold*: that the resume of a shutdown always wakes the defrag thread
(`TaskMgr.cpp:316`, `654`, `1048`; it is the premise of `ShutdownCompletes`). `_hSuspend` is an auto-reset event on which the
directory thread waits too, for its delay of 54 ms between two directories. That
wait can consume the resume that `Uninitialize` (or the Resume button) meant for
the defrag thread, which then sleeps for ever, and the dialog's thread with it.
The same sharing lets the directory thread take a pause meant for the defrag
thread, which goes on.

Found while modelling:

* `OnDefragUpdate` says of a cancel of all files that "it's safe to flush the queue
  now" (`TaskDlg2.cpp:641`). If the user paused while the COMPLETED update was on
  its way, the flush takes the pause's time-out and puts the dialog to sleep.
  `FileCompletes` excludes it by its second and third premise.
* A cancel clicked between two files of a paused engine cancels the next file:
  the controls stay enabled while paused and `_bCancel` names no file.
* `_ProcessDefragQueue` says a failure to reach the service is posted with the
  completion of the file (`TaskMgr.cpp:780`), but returns before it gets there; the
  queue is tried again after the time-out.
* `Uninitialize` says it returns the instance to the clean state
  (`TaskMgr.cpp:329`) and leaves the directory thread running.

*Fairness.* Weak fairness for each thread; strong for `Connect` (a service that
is asked again and again is reached) and for `ServiceReturns` (a file is not
defragmented for ever, however many updates it sends). The user is not fair.

### 3.4 `FilterLog`

`at[w]` follows an I/O thread through `FKxFltRecordLogWrite`: the test of the
limit (`LogWrite`), the count (`RecordAllocate`), the lookaside list
(`AllocateFails`), the insertion (`InsertRecord`), the test of the mark
(`TestTrigger`), and the notification (`swap`, `set`, `back`). The client's thread
is at most in one of `SetRecordLimit`, `SetTrigger` (three accesses after it),
`QueryLog`, or waits for its event (`ClientWakes`). `driver` follows `FKxFltUnload`.
Sections under `KLogRecordListLock` are single actions; the fields read by one `if`
are read together. `highLimit`, `captured`, `delivered`, `found` and `awake` are
history: nothing in a guard but the bound on `captured` depends on them.

A record is its number. Records have one size, so a buffer takes `room` of them and
`room = 0` covers the buffer that is too small for the next. What the client sees of
a read is modelled up to its status: it goes on reading until `STATUS_SUCCESS`, which
the code returns only for a read that saw no record.

*Properties.* `RecordsCounted`, `LimitOvershoot`, `EventRefsExact`; and
`ImplementsRecordLog`: seen by those who log and by the client, the list is the queue
`RecordLog` of capacity `MaxLimit` and one record less than there are I/O threads.
`Pending`, the record being copied and then the list, is the queue. Taking a record off the
list and putting it back after a fault that came before the record was counted into
`BytesWritten` (`CopyFaults`, `FragFlt.c:2397-2448`) are stutters. A fault after that
(`CopyFaultsLate`, `2451-2485`: the padding, the store of `NextEntryOffset`) returns the
record to the client and puts it back as well, so the queue has a step `Show`: the client
may get the first record before it leaves, and get it again. That, and not "each record
once", is what the code promises: in order, none skipped, and only the last record got can
come again. The log is emptied only when nobody can enter. `DeliveredInOrder` says the same
of the list's contents at one moment; it is part of the inductive invariant and a theorem.

*What does not hold*: `LoggerTriggered` (`FragFlt.c:2626`, to "Trigger the user event, if
there is one and we hit the highwater mark"; add it to `FilterLog.cfg`). While a thread signals the event, the event is swapped
out, and a record logged in the meantime finds no event to signal; if the client has
woken and emptied the log in between, it sleeps although the log is at its mark. The
next record at the mark wakes it, if there is one.

Found while modelling: the same swap puts an event back that the
client has cleared meanwhile (NULL is taken for "unchanged"); the event still
installed when the client disconnects or the driver is unloaded is never
dereferenced; a late fault delivers a record twice, as above; after an early fault
behind other records of the same read, line 2515 clears the offset in the record that
failed, so the one before it, the last in the returned length, still points beyond it (the
model has the returned length only); that store is outside the `__try`, so it raises
again when the buffer's page is gone for good (the model has faults that pass);
the header `FragFlt.h` has no
`NotifyInfo`, which `FragFlt.c` uses, so the client's side of `SetTrigger` is read off
the driver alone.

### 3.5 `FilterCapture`

One file, threads that use it, and stream contexts. `at[t]` is `closed` or `open`
between operations, `named` to `fallback` within a create, `rename` to `reset` within a
rename, `cleanup` within a close; `raise` to `done` is the capture that create and
cleanup share, ended by the release of the context. `closing` tells the two apart, and
`item` a capture that a work item goes on with after the handle is closed. Names are
numbered by the renames of the file, times by its writes. `logs`, `direct`, `renames`,
`current`, `nameLogged` and `given` are history, and `logging` is the name a record is
being written for: `logs` counts the records of the captures of a context, `direct` those
that creates write at once (`Fallback`) while the context is attached, `nameLogged` says
whether the name that the context was given last (`current`) has been logged.

What the filter manager does is read off the code that uses it and marked external:
`FltGetStreamContext` references, `FltSetStreamContext` adds its reference "even when
it fails" as the comment in `FKxFltPostCreate` has it, the context of a file goes with
its last handle. `bugcheck` is the assertion in `KFxFltLogStreamContext`; nothing runs
after it.

*Properties.* `ReferencesExact`, of contexts (`ContextRefsExact`) and of names
(`NamesHeld`); `CapturesLogged`, what is logged of the file, in three parts. The captures
of a context write one record and one more for each rename that reset its count
(`LoggedOncePerReset`). The creates that log the file at once are fewer than the threads
(`RacersLogOnce`): only who raced with the create that attached its context gets there. And
a count that stays raised when nobody is at work on the context means that its last name
was logged (`LoggedMeansLogged`), with exceptions (`given`): a request to delete raises the
count before it is carried out, so a file whose deletion fails is never logged; and when
there is no memory for the work item, the count stays raised, unlike when the item cannot
be queued.

None of this says that a *name* is logged once, and it need not be. A rename stores the new
name before it resets the count (`SwapName`, `ResetCount`), so a capture in between logs the
new name and the reset has it logged again; `LoggedOncePerReset` counts the two as the one
record and the one more. And the create that loses the race of `FltSetStreamContext`
(`FragFlt.c:1536`) goes on to log the file at once (`1573`), where the comment says that no
context could be had, while the context of the winner has the same name logged by the next
capture: `RacersLogOnce` bounds this, and does not exclude it.

*What does not hold*: `LogHasNameAndVolume`, the assertion at `FragFlt.c:2098` (add it to
`FilterCapture.cfg`). A rename resets the count while another thread,
having logged the file, is about to clear the context; that thread clears the new name,
and the next to log finds none.

Found while modelling: the two returns of `FKxFltPostCreate` after
`FltGetStreamContext` (`FragFlt.c:1480`, `1485`) keep the reference on the name for
ever, one for each create of a file already followed; `NamesHeld` therefore says "at
least". A thread that logs reads the name's pointer from the context and references it
in `FKxFltRecordLogWrite`; only the filter manager's cache keeps a rename in between
from freeing it.

### 3.6 `FileExtents` and `Engine`

A file is a function from its clusters to clusters of the volume or `Virtual`;
`ExtentLists` is what the system may return for it (extents of a compressed file may be
split anywhere, so there are several), `FpiCompactFragmentInformation` what the engine
makes of them, its loop as written: the count of an extent is lost when a third one is
merged. `RunStarts` is the reference definition of a fragment.

In `Engine` a step goes up to the next call of the system or of the caller: `at` is
`begin` and `report` while the caller is asked, `full` and `tail` while
`FpiLocateFreeClusterRange` reads the bitmap for whole blocks or the last part, `move`
between two moves, `attempt` between two attempts. `GetVolumeBitmap` rounds down to whole
bytes as the system does. Bits, bytes and words are small (`Unit`, `Word`), their
relations are kept. `OthersChange` is every other program on the volume.

*Properties.* `SearchExact` (on a volume that one read shows, and unless others changed
it, the range found is free, and none is found only if there is none); `ProgressExact`
(what is reported as moved is what has been moved, block by block through extents
without storage); `FewFragments` (no more pieces than attempts, wherever a move failed);
`DefragEnds`.

*What does not hold*, found while modelling: on a volume larger than one read of the
bitmap the range returned is off by the rounding of the start. `FragEng.cpp:1488` says
the start "may" have been "rounded down and needs to be adjusted"; the adjustment is
computed and not used in the result (`FragEng.cpp:1542`), so clusters in use are taken
for free and an attempt is lost. `SearchExact` is therefore about one read. Besides:
`FpiCalculateBitMapClusterCount` subtracts the start a second time
(`FragEng.cpp:1560-1576`); a range whose length is an exact multiple of the buffer is
never found; when the last part of a range is not free the search goes on with that part
only, although the comment before the loop speaks of the whole range; the callback's
total counts clusters without storage and its progress does not; `FileDefrag.cpp:289`
reads one extent past the last (not used).

*Fairness.* Weak fairness on `EngineStep`: a call that runs goes on, and its caller
returns from reports. None for others or for the next call.

### 3.7 `RecordPool` and `CacheList`

`pc[t]` follows a thread through `PopCacheListEntry` and `CommitNextCacheBlockRegion`:
`check` (the limit), `lock` (`SetCommitLockTagBit`), `wait` and `retry`, or `reset`,
`commit`, `push`, `keep`, `signal`, `unlock`. Addresses are numbers and records are
named by theirs, so a region that starts or ends at a wrong address overlaps another or
leaves the committed memory, and `Conserved` sees it. `InFlight` are the records that the
thread that fills a region has still to push. The order of the free list is left out.

*Properties.* `Conserved`; `ImplementsPool` (refinement of `RecordPool` with
`out <- held`); `PopReturns`, under weak fairness of each thread inside a pop. A thread
that waits meets an event that is set and reset under it; `PopReturns` holds because the
owner of the bit sets it and regions run out.

`SizesAssumption` asks for room for two records in a region. With room for one, the loop
that fills a region, which pushes before it tests (`CacheList.cpp:807-817`), hands out
records that overlap the next region's. Found while modelling: the count of regions is
raised before their records are pushed, so a pop in between can come back empty although
records are on their way (the caller then uses the heap); `DestroyCacheList` does not
close the event.

### 3.8 `DirEnum`

`Main` is the calling thread, which runs the same loop as the workers: `next` takes a
directory, `query` to `entry` are `FindFilesDirectoryRecord` and its callback,
`required` to `undo` the start of a worker, `wait` and `cleanup` the end. The tree is a
constant. An item is an entry that is passed to the callback; `lost` are the items of
directories that could not be read, which the code passes over in silence, `stopped`
says that a callback returned FALSE or that memory ran out.

*Properties.* `Complete`; `WorkersGone`; `TreeOrder` (without workers); `EnumReturns`.
A worker may still be inside `ReleaseSpinLock` (`unlock`) when the calling thread returns
and its stack, with the lock, is used for something else: what it touches there is the
lock it has just released, and `WorkersGone` allows it by name.

`Depth` is the record's depth, which the code sets to one more than the parent's when it
allocates the record (`DirUtil.cpp:1433`); the tree being fixed, it is a constant.
`Under` and `Before` are defined without recursion, as `DirEnumProofs` needs.

Found while modelling: the comment on `WorkerExit` says manual reset and the event is
created as auto-reset (the enumeration waits for it once, so both work); the queue is
commented as last in, first out and is first in, first out when threaded; an error of one
worker or of a directory before the last is overwritten; the number of directories is
kept in 16 bits; the assertion at `DirUtil.cpp:1551` fails in debug builds when a
directory cannot be read.

*Fairness.* Weak fairness of each thread: callbacks return, waits end with their event or
time-out.

### 3.9 `FileFragments`, `FileDefragmenter` and `CoFrag`

`FileFragments`: `FpCreateContext` reads the file outside the object's lock, `OpenFile`
swaps the context in under it; an enumerator has the tick count of the open it is of,
passed on to clones, and `_IsExpired` compares the two. `of` and `opens` are history: the
open an enumerator belongs to, and what each open saw. `ULONG` is the width of the
counters (they wrap when a clone mixes an old position with a new count).

`FileDefragmenter`: `at[c]` is `callback`, `update`, `call`, `calling`, `abort` inside
`_FireProgressUpdate` and around it, `open` and `engine` inside the worker. `hit` is
history: a cancel that reached the call, and whether an update was made since.

`CoFrag` lets both run on one file. The file is moved by the defragmenter while it is
opened, re-opened and enumerated.

*Properties.* `ItemsExact`: what an unexpired enumerator gives next is fragment (or
extent) number `iter + 1` of the file as its own open saw it, whatever was opened, moved
or cloned since. Two opens within a tick of `GetTickCount` are excepted: nothing tells
them apart. `CancelAnswered`: a cancel within `DefragmentFile` stays visible in the result
code until the call returns, and an update after it makes the call fail.

Found while modelling:

* `get_Item` asks the engine for one fragment, and `FpGetContextFragmentInformation`
  returns ERROR_MORE_DATA whenever more follow (`FragCtx.cpp:452`), which `get_Item`
  takes for a failure: only the last fragment of a file can be read or enumerated,
  although `FragInfo.js` goes through all with an `Enumerator`. The model has this.
* The loop that clears the items in `Next` after a failure (`FileFrags.cpp:536-636`) does
  not advance; it is reached only when two opens share a tick. `Next` at the end returns
  E_FAIL instead of S_FALSE.
* `Cancel` before `DefragmentFile` is undone by its reset, and a second `DefragmentFile`
  undoes the cancel of a first (`FileFrags.cpp:804-811`); `CancelAnswered` speaks of
  calls no other call has reset.
* A cancel or a failure in the first update leaves the result code E_PENDING or the
  abort and never reports PGS_COMPLETED.
* `put_OnProgressUpdate` keeps its pointer without a reference of its own;
  `_FireProgressUpdate` clears a variant it never initialised when the sink is called
  through its table (`FileFrags.cpp:1337`).

### 3.10 `QueueFile`, `WorkQueue` and `FragQue`

`QueueFile` is what processes share: the files (`files`, `LastModified`), who has one open
(`handles`) or locked (`locks`), and the scan of a thread (`scan[s]`), which enumerates
the files, opens, locks, passes records to a callback, closes and, when it met a file it
cannot read, deletes it. A deleted file goes with its last handle and cannot be opened
before. `WorkQueue` adds the caller (`client[p]`: `enter`, `starting`, `signal`), which
starts the worker under the critical section, and the worker (`worker[p]`), which takes
an item, opens, locks, writes or deletes the record and deletes the file after the last.
`FragQue` adds enumerations by the client, in whose callback it may call the library
again, and the notification thread (`notifier[p]`): scan from the time of the last scan
less `Slack`, tell the client, wait for a change or for the end.
`asked`, `told`, `late` and `lost` are history.

*Properties.* `ContextsCounted` (both reference counts are the number of users, whatever
fails); `FilesAsAsked`; `AllTold` (a notification thread that waits has told of every
record: one written during its scan wakes it again and is not too old for the next);
`LateOnce` (at most one callback after the client unregistered); `ItemsExecuted` (liveness:
the item queued while the worker gives up, or from a callback that holds the file locked,
is executed).

Found while modelling:

* All opens share deletion, so `DeleteFile` succeeds while others have the file open; the
  comment at `FragQue.cpp:1929` counts on its failure. A record another process writes
  into that file, or inserts before the last handle is closed, is lost: `FilesAsAsked`
  excepts it (`lost`).
* A registration whose thread cannot be started keeps the caller's reference
  (`handle = "leaked"`): the contexts are never freed.
* `FindFirstChangeNotification` reports failure with INVALID_HANDLE_VALUE and is tested
  for NULL (`FragQue.cpp:1068`), so a failure is found in the wait only.
* A worker whose first wait fails can leave `WorkThreadInitialized` at 2 without a worker:
  later items stay queued. `ItemsExecuted` is about behaviours without failures.
* A callback that returns FALSE ends the scan of its file, not the enumeration.

That a change made between two calls of `FindNextChangeNotification` is reported by the
second is the system's promise, and assumed.

*Fairness.* Weak, for a client inside a call, the worker and the notification thread of
each process; none for a client to call, or for a wait to time out.

### 3.11 `PropPage`

A handler of the page is one action, since all run in its thread, but for
`OnListViewRightClick`: `TrackPopupMenuEx` handles messages, so `menu` is up over any
number of refreshes (`OnUpdateControl`) before `MenuEnds` looks the row up. A file or
stream is a record of its table with its context, `ctx`, as what the engine would say of
its fragments; `open` counts the engine's contexts. `RefreshData` is `_UpdateControl` with
`_UpdateFileInfoTable` (streams found: `Rebuilt`; none, or no memory: `Disabled`),
`_UpdateFileFragmentInfo` and `_BuildItemInfoTable`, in the order of the code, with files
that cannot be read and memory that runs out at either table. The list view is what the
page sees of it: it has a selected row, forgets it when its items are deleted, may be
scrolled anywhere (`Tops`). `built` and `refreshed` are history. The table of items and
its headings are functions of the table of files (`ItemsOf`, `Base`). `qsort` is `Sorted`:
an item goes to the place that is the number of the items `Precedes` puts before it, by
`_CompareItemInfo`, which calls only the rows of one heading equal.

*Properties.* `ContextsOwned` (each open context is one row's, through moves between
tables and failures); `SortShown` (a click on a column puts what the column shows in
order, within each file, with the rows of the heading in front in both directions; the
items and the contexts must be of one refresh, `built`); `SelectionOnFragments` (keys and
mouse never select a heading, in whatever order the items are).

Found while modelling, outside what the properties say:

* `_iCurSel` is not reset by a refresh. Page up then looks at a row a page above the old
  one, which may lie outside a shorter table: the assertion at `PropPage.cpp:3332` can
  fail. `SelectionOnFragments` excepts the old row (`refreshed`).
* The same assertion can fail for a menu tracked over a refresh (`PropPage.cpp:1062`), and
  the row may be another file's by then.
* What is sorted on is the place of a column, not the column: after columns are hidden,
  the first click on another column at that place reverses the order. The comment at
  `PropPage.cpp:1665`, "Sorting a new column always resets the order", and the one at
  `PropPage.h:391`, "Currently sorted column Id", have the column in mind; `SortShown`
  takes the direction as it is after the click.
* A refresh without streams keeps the sort arrow over an unsorted table; one with streams
  resets the sorting and leaves the arrow.
* A stream that is gone is marked not to be shown (`F_DONOTSHOW`) and keeps its rows:
  `_BuildItemInfoTable` does not look at the mark.
* `_BuildItemInfoTable` does not free the items it replaces; the last loop of
  `_UpdateFileInfoTable` reads past its array of streams (without effect).

## 4. Runs

| Run | Instance | Shows |
|---|---|---|
| `rwlock` | 3 threads, nesting 2, each on a machine in program order and on one with store buffers | the exact count and the refinement on both; the writer's progress in program order |
| `svx_server` | 2 clients, every fault | all safety and liveness properties of `SvxServer` |
| `task_manager` | 2 directories, 1 child | the safety properties of `TaskManager` (4.0 million states) |
| `task_manager_live` | 1 file, 1 directory | `FileCompletes`, `ShutdownCompletes` |
| `filter_log` | 2 I/O threads, 2 events, limits to 2, 2 records | the safety properties of `FilterLog` (8.7 million states) |
| `filter_capture` | 2 threads, 2 contexts, 1 rename, 1 write | the safety properties of `FilterCapture` (5.5 million states) |
| `engine` | files of 0 and 3 clusters, volumes of 4 and 6, maps of 4, 2 attempts, 1 change by others | search, counters, fragments, termination of the engine |
| `cache_list` | 3 threads, 2 regions, 6 records, 1 failed commit | conservation of records, refinement, every pop returns |
| `dir_enum` | the calling thread and 2 workers, 4 directories, depths 1 and 3, 1 failed call | completeness, no worker left, order, termination (685 thousand states) |
| `cofrag` | 1 opener, 2 opens, 2 enumerators, 2 ticks, 1 defragmenting call, a file of 3 clusters | exact items, answered cancels (3.1 million states) |
| `frag_que` | 2 processes, a file of each under one hash, 2 calls, 1 failed system call | counts, the queue as asked, notifications, termination (1.4 million states) |
| `prop_page` | 1 file with or without a stream, 3 fragments, 2 columns besides the sequence, pages of 4 rows | contexts, sorting, selection (342 thousand states) |

*Why these bounds are enough to be interesting.* Three threads are the least with
which a reader and a second reader race one writer, or two writers queue behind
a reader; nesting 2 is the least that distinguishes an inner release. Two clients
let one call be admitted, cancelled or left while another is at any other step.
Two directories are the least that make the directory thread delay between
them, and with one child there is a record in each thread and one on a queue;
directories go through everything that plain files go through, and the child is
a plain file in all but its origin. `task_manager_live` has one directory, so that
its thread never delays and the premise of `ShutdownCompletes` is met by every
behaviour; with two directories (650 thousand states, two to three minutes) both
properties hold as well, the premise doing its work. No constant bounds how often
the user pauses, resumes or cancels. In `FilterLog` two events are the least that can
be exchanged while one is swapped out, two records the least that can be out of order,
and two I/O threads the least that overshoot a limit together; the proofs lift the
bounds on the threads. In `FilterCapture` two threads and two contexts let two creates
race to attach theirs, and one rename lets a capture under the old name meet one under
the new; `MaxRefs` bounds the names that leak and `MaxCount` the raises of
`LoggedCount`, in the guards of the actions that raise them. A bound of 3 is above what
two threads raise in a race; it cuts off repeated requests to delete only.

In `engine` the volume of 6 clusters takes two reads of the bitmap and the one of 4 is one;
three clusters give two blocks of 2 and 1, an extent without storage in any place, and
two attempts a second one that begins inside an extent. In `cache_list` the second region
starts in the waste of the first and is the last one; three threads give an owner, a
waiter and one that pops what is being pushed. In `dir_enum` the tree has a directory
that waits while another is read, one below it, and files after directories; with a
threshold of 0 every queued directory asks for a worker, and depth 1 passes a directory
as an item. In `cofrag` the file has two fragments with a cluster without storage between
them, so that a move in progress has another number of fragments than before or after,
and two opens with two ticks are the least in which an enumerator outlives its open;
enumerators are symmetric.

In `frag_que` both processes write to one file, the queue holds a record of an earlier
session, one process enumerates and the other watches; two calls are the least with which
the second overtakes or undoes the first, or comes from the callback of an enumeration.
The number of items is what bounds the run, not the time anything takes. In `prop_page` a
file and its stream are two headings with fragments between and after them; two of the
three fragments have the same clusters and two the same extents, so comparisons fall back
on each other, and one has no storage; a page of four rows reaches from a fragment to the
other file's heading. A key or a click may come at any time and any number of times.

Deadlock is checked in `rwlock`, `engine`, `cache_list`, `cofrag` and `prop_page` (a page
that is gone stays so), and off where the program really ends or reaches a bound: the
service stops, the queue manager's process exits, the driver is unloaded, the enumeration
has returned, the calls of `frag_que` are used up, a counter is at its cap.

Each property has a mutant of one definition, kept beside the original and marked
`Mutant`, that breaks it: a dropped wake-up, a count not taken back, a record
destroyed twice, a reference released twice.

## 5. Proofs

No proof assumes anything but the named assumptions on the constants
(`ThreadsAssumption` and `StoreAssumption`: a finite set of threads, distinct
placeholders; `ClientsAssumption`, `FaultsAssumption`; `ConstantsAssumption` of the
filter's modules; `TreeAssumption` and `LimitsAssumption` of `DirEnum`; the assumptions of
`FileExtents` and its users, among them that a layout is a file (`FileAssumption`); `RecordsAssumption` of `TaskManager`, `SizesAssumption` and
`BoundsAssumption` of `CacheList`). That threads, workers and stream contexts
are finite sets is what the counts need, where there are any; `SizesAssumption` is
section 3.7's: two records fit in a region. `QueueAssumption` says that names have buckets and owners
and that bounds are numbers, `PageAssumption` what a layout and a list of streams are.

* **`RWLockProofs`.** The invariant is `IInv`: the critical section belongs to the
  thread that owns the lock or is inside a call that entered it, and counts its
  entries (`CSInv`); the owner reads its own recursion count, and a delayed store
  is the owner's (`CountInv`); what a thread holds says where it may be
  (`HoldInv`); the reader count is the number of threads with a reference
  (`SharedCountExact`); and who has slipped holds the lock or is about to, by a count in
  a store buffer (`SlipInv`). `WriterAlone` comes on top: a writer past its test has no
  reader beside it that has not slipped. It rests on `WritersCount`, that such a writer
  reads a count of its own: a reader that finds 0 in memory has then found it while the
  count was delayed, and has slipped. Nothing in the invariant assumes program order, so
  all five theorems speak of both machines; `Exclusion` adds that without store buffers
  nobody slips. `Refinement` maps each step to a step of `RWLockSpec` or a stutter.
* **`SvxServerProofs`.** `IInv` = `TypeOK`, `StateInv` (where the two service
  threads are determines what the SCM was told, the flag and the event),
  `ObjectsInv` (the class objects follow the main thread; no client has anything
  before they are resumed), `CallCountExact`, `RefsExact`. `CallCount`,
  `References`, `ThreadsApart` and `ForwardOnly` follow. Frame lemmas
  (`ClientFrame`, `ServiceFrame`) keep one kind of thread out of the other's
  conjuncts.
* **`QueueProofs`, the task manager.** `NoLostWakeup` is not inductive alone: an answer moves
  the defrag thread, and were it answered while about to signal, the signal would
  be lost. `FlushAnswers` says a flush runs inside the message of a thread that
  waits for its answer, and `JoinedExited` that the last stages of `Uninitialize`
  follow the thread's end. For the records the queues are sequences without
  repetitions: `Appended`, `TakenOff` and `Joined` say what an insertion, a removal
  and a flush do to one. `Apart` (no two places share a record) gives
  `RecordsOwnedOnce`; it needs `HeldWhileUsed`, that a thread has a record exactly while
  its label says so, since a step overwrites `cur` and `dirCur`. `EventsInOrder` is
  about one step and needs a memory of the steps before: `ToldSoFar` says, from where
  a record is and what its thread is about to report, what the dialog has been told of
  it. That holds until the dialog shuts down and no longer matters then:
  `OpenUntilShutdown` says that before, the dialog takes every update. A record that is
  new, or waits, has been told of by nobody (`Untold` only shrinks).
* **`QueueProofs`, the notification queue.** For any processes, files and hash, and any
  number of calls and failures. `QueueInv` (an invariant of the `frag_que` instance by TLC
  too) has, besides types and what is where (`ItemsOwned`, `Registered`), four arguments.
  `ContextsCounted`: both counts are sums with one term for each kind of user, and a step
  moves a use from one term to another (`CountedFor`); a user is a label of a thread or an
  item of the sequence `WorkQueue`. `FilesAsAsked` speaks of a worker that is done, and
  needs what is pending before: the last item for a file, on the queue or in execution, is
  what was asked last (`LastAsked`), and the worker that closes has done it (`Executed`),
  for which its file must still be there (`WorkerHolds`, `EmptyFiles`). `AllTold` speaks
  of a thread that waits; `News` says of the whole scan that a record is known, is newer
  than the time taken before the scan, or is still to come in it, and `Times` that whoever
  watches is marked `changed` when a record is newer than its scan. `LateOnce` needs that
  there has been none while a callback that passed the check is on its way
  (`LateCallbacks`).

* **`FilterLogProofs`.** `IInv` adds `StateInv` to the properties: a record is held
  exactly while it is copied, an event exactly by a thread that installs or signals it,
  no thread is in the driver once the filter is unregistered, the limit is at most the
  highest there has been. The properties lean on each other: that no count falls below 0
  (`TypeOK`) needs `RecordsCounted` and `EventRefsExact`, which is the lemma
  `IInvBacked`. Facts about cardinalities (`AddOne`, `RemoveOne`,
  `HoldMove`) carry the counts across a step, and a frame step in each lemma disposes of
  the actions that touch nothing it speaks of. `LogStep` maps each step to one of
  `RecordLog` or a stutter: that an insertion finds room (`RoomToEnter`) is
  `LimitOvershoot` and `RecordsCounted` for a thread that has been counted.

* **`FilterCaptureProofs`.** Every count is the size of a set, of threads at certain
  places or of contexts, and a step moves one element of it; `UsersStep`, `HoldersStep`,
  `NamingStep` and `WinnersStep` are that fact for each set, and `Balance`,
  `HolderBalance`, `NameBalance`, `LogBalance` what follows for the counts. `IInv` is kept
  in parts. `Types` and `Places` (a thread has a context exactly at certain labels);
  `ContextRefsExact` with `AttachesItsOwn`, that a context to be attached has the one
  reference of its creator, so that its release after losing the race frees it;
  `NamesHeld`, which needs that a context is freed, and its name released, only when
  nobody uses it; and for the log `Rights`, `Reasons` and `Races`, from which the parts of
  `CapturesLogged` follow. None of these is inductive: a thread that has raised
  `LoggedCount` from 0 will log later, so the right to log once is either in the count (0)
  or with such a winner, and each rename makes one more (`Rights`); a raised count has its
  last name logged, a reason of `given`, or a thread that answers for it, by logging that
  name or by resetting the count (`Reasons`, `Answers`), where a thread that logs an older
  name answers for nothing; and the records written at once, with the threads that still
  race, are fewer than all threads while a context is attached (`Races`), because the one
  that attached it is out of the race and nobody enters it.

* **`CacheListProofs`.** The records that are free or held are at any time those
  below a frontier, an address that moves through the block one record at a time and
  that only the owner of the commit bit moves (`FillsUp`; `FilledUp` when nobody does);
  `OneOwner` says there is one such thread. That each region begins where the records
  of the one before end, waste included, is the arithmetic of `Sizes` and `Regions`, by
  products and quotients of any sizes. `Conserved` follows, and `PoolStep` maps each step
  to a step of `RecordPool` or a stutter.

* **`FragmentProofs`, the engine.** Everything is for any volume, file, extent data and
  parameters of a call. The operators of `FileExtents` and `Engine` number, choose and
  recurse, so the proof begins with what they compute: `Induction` (a set of numbers that
  has 0 and every successor has them all) comes from the minimum of a set, `LeastNumber`,
  by the library's theorem on minimal elements; it gives `LessAll` and `NthOrder` (the i-th
  element of a set exists, and nothing is between it and the next), `OneExtent` and
  `ListShows` (what the system returns for a file shows each of its clusters in one extent),
  `PassedIs` (where the walk of a block through the extents ends), and `MapIs`, `TailIs` and
  `ClearIsFree` (a run of clear bits is a free range, with the rounding of the start).
  `EngineInv` has five parts. `CallInv`: the extent data still shows the part of the file
  not come to, and index and count left are those of one place in it (`Progress`), which
  is `ProgressExact` and what a block needs to keep it. `FewFragments` speaks of the end
  only; `RunsInv` says before it that the fragments below the current cluster are fewer
  than the attempts, or as many while the next block goes where the last cluster with
  storage ended, so that a block begins a fragment only after a failure (`BlockRuns`).
  `SearchExact` is about the step that ends a search; `SearchInv` says that on a volume one
  read shows, a search that goes on after its first read will find nothing, since there is
  nothing: the first read decides.
* **`FragmentProofs`, the objects of `CoFrag.Dll`.** For any file and any number of callers and enumerators.
  `CancelAnswered` needs `CancelInv`: where each call is (`CallsInv`); that a cancel that
  reached a call left the abort flag and one of two results (`AbortInv`), since only a
  call resets them and the property is about calls no other has reset; and that an update
  which noticed it is on its way out (`NoticedInv`). `ItemsExact` has two
  halves. Whose item it is (`ShowsItsOpen`) needs `FragmentsInv`: the open of the current
  tick is the last one (`OpensInv`), and an enumerator carries the tick of the open it is
  of (`EnumsInv`), unless two opens share a tick. Which item it is needs `SnapshotsInv`,
  that every context was made of a file and of extents the system may return for it
  (`IsContext`), and `ContextShows`, that such a context has the fragments of the file:
  `AdjacentIs` compares two extents with the clusters they hold, so that the starts of
  fragments among the extents correspond to `RunStarts` in order (`FragmentsAre`), and
  `NthImage` carries the numbering over.
* **`FragmentProofs`, the property page.** For any number of files, streams and columns.
  `PageInv` (an invariant of the `prop_page` instance by TLC too): `TablesInv`, that each
  context is one row's, that the items are those of the files in order, a heading before
  its fragments (`Grouped`), each fragment once (`Distinct`), and the headings in place
  while the items are of one refresh (`InPlace`); and `SelectionKept`. Two computations
  carry it. The tables are concatenations: `FlattenIs` places each element of a
  concatenation, by induction on the number of its parts (as a set of numbers), and
  `CountContexts`, `RebuiltIs` and `ItemsBuilt` are what follows for contexts, files and
  items. For the sort, `FragmentsCompared` shows that the comparison of any column,
  which calls only the rows of one heading equal, gives a strict total order of the items;
  so ranks are a permutation (`RankSorts`) that is in order (`SortedIs`), and since two
  ordered sequences of the same numbers are equal (`OrderDecides`) the headings stay where
  they were (`SortedKeeps`). `SortShown` follows, and that a row is still a fragment after
  it. The exception for the old row after a refresh (3.11) is the property's own.
* **`DirEnumProofs`.** `WorkersGone` needs the count to be right at every step of a
  worker's life: `WorkerCount` is the number of workers that run plus that of threads that
  are starting one (`CountInv`, two cardinalities), the exit event is set only at 0
  (`ExitInv`), and each label belongs to the calling thread, a worker or either
  (`PlacesInv`). `Complete` says nothing before the end. Its invariant divides the items of
  the tree, at every moment, among the directories that wait, the threads that read (each
  has the rest of its directory), what has been passed and what was lost (`PartInv`); and
  `LookedAt` says that a directory on the queue has a thread that will look there, so
  nothing waits once all have left. The facts about trees are lemmas on `Under`, defined
  as the least set closed under children: what is under a directory is its own items
  and what is under its subdirectories, and two directories of which neither is under the
  other share nothing (`SubtreeUnfolds`, `SubtreesApart`, by minimality and by
  `Depth`, without induction). `TreeOrder` needs `OrderInv`: of the single thread, before a
  directory it found comes what its own directory holds, and before one that waits all it
  has found (`Ordered`).

Only model-checked:

* Liveness: fairness and ENABLED are beyond the prover. These are
  `WriterProceedsInOrder`, `StopCompletes`, `CancelReachesAll`, `FileCompletes`,
  `ShutdownCompletes`, `DefragEnds`, `PopReturns`, `EnumReturns` and `ItemsExecuted`.

Every other invariant and action property of the runs is a theorem.

## 6. What is not modelled, and how far to trust the rest

* Time: time-outs are "may happen at any moment", never "must happen before".
* Failures of memory allocation, except where `Faults` names them.
* COM and the SCM are modelled by how this code uses them: a reference count, the
  suspension of class objects at zero, a cancellation that makes an outbound call
  fail. A cancelled call returns; the client may still be working on it.
* Insertions into the task engine by COM clients, and the service ending a call
  while its update is still in the client.
* The filter driver's features other than the capture of reads (record notification is
  on, writes are captured, as by default), its connection, its start-up settings, the
  volumes it attaches to, and interrupt levels: the log is written at PASSIVE_LEVEL on
  every path, so the work item of `FKxNotifyLogger` is never used.
* 16-bit counters of the lock and of the spin lock do not wrap in the models
  (`RWLock.cpp:302` would need 65536 threads inside at once).
* The engine's volume geometry and the paths of mount points; `FileStreams` of
  `CoFrag.Dll`, a list of names; the deletion of directories in `DirUtil.cpp`.
* Of the notification queue: the debug build's `FqiValidateQueueFile`, impersonation
  tokens, paths, the text of the hash and the layout of a record. Of the property page:
  drawing, widths, themes, settings (read once, at construction) and the focus that the
  list view moves by itself.
* Utilities without state between calls (paths, security descriptors, registry, numbers)
  are large and are left out; a directory path or a name is a model value everywhere.
  Seen while reading `SpinLock.cpp`: its test for a single processor compares the count
  with 0 (`SpinLock.cpp:59`) and never holds.
* Hazards known and covered by no property: a row looked up after its menu (3.11); a client that hangs in an update sent after
  the cancellation (3.2); a start that fails halfway (3.2); a pause pending while the
  dialog flushes (3.3); a cancel clicked between two files (3.3); the name read from a
  context and referenced later (3.5).
