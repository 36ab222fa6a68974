------------------------------ MODULE DirEnum ------------------------------
(***************************************************************************)
(* The enumeration of a directory tree, FpEnumDirectoryInformation of      *)
(* FragExt.Lib/DirUtil.cpp: the calling thread, Main, takes directories    *)
(* from a queue, passes what it finds to the caller's callback, and puts   *)
(* the subdirectories on the queue.  A threaded enumeration starts workers *)
(* when the queue grows, and the calling thread waits for them in the end. *)
(*                                                                         *)
(* What is passed is an item <<d, i>>: entry i of directory d, or with     *)
(* i = 0 the directory itself.  An entry that is a directory above the     *)
(* maximum depth is queued in its place.                                   *)
(***************************************************************************)
EXTENDS Naturals, Sequences, FiniteSets

CONSTANTS
    Main, Workers,          \* the calling thread and the threads it can get
    Dirs, Root,             \* the directories of the tree
    File,                   \* an entry that is not a directory
    Entries,                \* Entries[d]: the entries of directory d
    Depth,                  \* Depth[d]: how far it is below the root
    MaxDepths,              \* the maximum depths a caller asks for
    FPI_WORKERTHREADMAX,        \* the workers at any time (4)
    FPI_WORKERTHREADTHRESHOLD,  \* the directories a thread may have waiting (2024)
    MaxFailures             \* bound: the calls of the system that fail

ASSUME TreeAssumption ==
    /\ Root \in Dirs /\ File \notin Dirs /\ Main \notin Workers
    /\ Entries \in [Dirs -> Seq(Dirs \union {File})]
    /\ Depth \in [Dirs -> Nat] /\ Depth[Root] = 0
    /\ \A d \in Dirs : \A i \in DOMAIN Entries[d] :
          Entries[d][i] \in Dirs => Depth[Entries[d][i]] = Depth[d] + 1
    /\ \A d \in Dirs \ {Root} : \E p \in Dirs : \E i \in DOMAIN Entries[p] :
          /\ Entries[p][i] = d
          /\ \A q \in Dirs : \A j \in DOMAIN Entries[q] :
                Entries[q][j] = d => q = p /\ j = i

ASSUME LimitsAssumption ==
    /\ MaxDepths \subseteq Nat
    /\ {FPI_WORKERTHREADMAX, FPI_WORKERTHREADTHRESHOLD, MaxFailures} \subseteq Nat
    /\ IsFiniteSet(Workers)

Threads == Workers \union {Main}
None == "none"

VARIABLES
    threaded,           \* EDF_THREADEDENUMERATION
    maxDepth,           \* the maximum traversal depth
    DirectoryQueue,     \* directories to process
    SubDirectoryQueue,  \* not threaded: those found in the current directory
    Abort,              \* FPI_STATE_ABORT
    WorkerExit,         \* the event: no worker runs
    WorkerCount,
    WorkerLock,         \* the thread that has the lock, or None
    pc,                 \* pc[t]: where a thread is
    dir,                \* dir[t]: the directory it processes, or None
    entry,              \* entry[t]: the entry it is at
    passed,             \* the items passed to the callback
    lost,               \* the items of directories that cannot be read
    denials,            \* how often that happened
    stopped             \* a callback returned FALSE, or memory ran out

queues == <<DirectoryQueue, SubDirectoryQueue>>
workerVars == <<WorkerExit, WorkerCount, WorkerLock>>
logVars == <<passed, lost, denials, stopped>>
options == <<threaded, maxDepth>>
vars == <<options, queues, Abort, workerVars, pc, dir, entry, logVars>>

-----------------------------------------------------------------------------
(* The tree.                                                               *)

Parent(d) == CHOOSE p \in Dirs : \E i \in DOMAIN Entries[p] : Entries[p][i] = d
Index(d) == CHOOSE i \in DOMAIN Entries[Parent(d)] : Entries[Parent(d)][i] = d

\* bWithinDepth: entry i of directory d is queued, not passed.
Queued(d, i) == Entries[d][i] # File /\ Depth[d] < maxDepth

Own(d) == {<<d, i>> : i \in {0} \union {j \in DOMAIN Entries[d] : ~Queued(d, j)}}

QueuedIn(d) == {i \in DOMAIN Entries[d] : Queued(d, i)}

\* Directory d and all that are queued because of it.
Closed(S) == \A d \in S : \A i \in QueuedIn(d) : Entries[d][i] \in S
Subtree(d) == {e \in Dirs : \A S \in SUBSET Dirs : d \in S /\ Closed(S) => e \in S}

Under(d) == UNION {Own(e) : e \in Subtree(d)}

\* What is left of directory d and of all under it at entry i.
Rest(d, i) ==
    {o \in Own(d) : o[2] >= i} \union
    UNION {Under(Entries[d][j]) : j \in {k \in QueuedIn(d) : k >= i}}

\* What is passed before directory d when one thread goes through the tree: for
\* d and each directory above it, all that its parent holds, and all under the
\* directories before it there.
BeforeIn(d) ==
    Own(Parent(d)) \union
    UNION {Under(Entries[Parent(d)][i]) : i \in {j \in QueuedIn(Parent(d)) : j < Index(d)}}
Before(d) == UNION {BeforeIn(a) : a \in {e \in Dirs \ {Root} : d \in Subtree(e)}}

-----------------------------------------------------------------------------
Init ==
    /\ threaded \in BOOLEAN /\ maxDepth \in MaxDepths
    /\ DirectoryQueue = <<Root>> /\ SubDirectoryQueue = <<>>
    /\ Abort = FALSE
    /\ WorkerExit = TRUE /\ WorkerCount = 0 /\ WorkerLock = None
    /\ pc = [t \in Threads |-> IF t = Main THEN "next" ELSE None]
    /\ dir = [t \in Threads |-> None] /\ entry = [t \in Threads |-> 0]
    /\ passed = {} /\ lost = {} /\ denials = 0 /\ stopped = FALSE

Goto(t, l) == pc' = [pc EXCEPT ![t] = l]
ToEntry(t, i) == Goto(t, "entry") /\ entry' = [entry EXCEPT ![t] = i]
Leave(t) == Goto(t, IF t = Main THEN "wait" ELSE "release")

(* EnumDirectoryContext.                                                   *)

\* PopEnumDirectoryRecord, unless the enumeration was aborted.
NextDirectory(t) ==
    /\ pc[t] = "next"
    /\ \/ /\ Abort \/ DirectoryQueue = <<>>
          /\ Leave(t) /\ UNCHANGED <<DirectoryQueue, dir>>
       \/ /\ ~Abort /\ DirectoryQueue # <<>>
          /\ dir' = [dir EXCEPT ![t] = Head(DirectoryQueue)]
          /\ DirectoryQueue' = Tail(DirectoryQueue)
          /\ Goto(t, "query")
    /\ UNCHANGED <<options, SubDirectoryQueue, Abort, workerVars, entry, logVars>>

\* Mutant of EndDirectory: what was found goes behind what was waiting.
EndDirectoryAppend(t) ==
    /\ pc[t] \in {"end", "fail"}
    /\ DirectoryQueue' = DirectoryQueue \o SubDirectoryQueue
    /\ SubDirectoryQueue' = <<>>
    /\ dir' = [dir EXCEPT ![t] = None]
    /\ IF pc[t] = "fail" THEN Leave(t) ELSE Goto(t, "next")
    /\ UNCHANGED <<options, Abort, workerVars, entry, logVars>>

\* The record is freed, and without threads what was found goes in front of
\* what was waiting.  An enumeration error ends the loop of this thread.
EndDirectory(t) ==
    /\ pc[t] \in {"end", "fail"}
    /\ DirectoryQueue' = SubDirectoryQueue \o DirectoryQueue
    /\ SubDirectoryQueue' = <<>>
    /\ dir' = [dir EXCEPT ![t] = None]
    /\ IF pc[t] = "fail" THEN Leave(t) ELSE Goto(t, "next")
    /\ UNCHANGED <<options, Abort, workerVars, entry, logVars>>

(* FindFilesDirectoryRecord.                                               *)

\* The directory cannot be read, or not from entry i on: that is left out.
Denied(t, i) ==
    /\ denials < MaxFailures /\ denials' = denials + 1
    /\ lost' = lost \union Rest(dir[t], i)
    /\ Goto(t, "end") /\ UNCHANGED stopped

\* Memory ran out, or the system failed in another way.
Fails(t) ==
    /\ MaxFailures > 0 /\ stopped' = TRUE
    /\ Goto(t, "fail") /\ UNCHANGED <<lost, denials>>

QueryDirectory(t) ==
    /\ pc[t] = "query"
    /\ \/ /\ Goto(t, "call") /\ entry' = [entry EXCEPT ![t] = 0]
          /\ UNCHANGED <<lost, denials, stopped>>
       \/ (Denied(t, 0) \/ Fails(t)) /\ UNCHANGED entry
    /\ UNCHANGED <<options, queues, Abort, workerVars, dir, passed>>

\* ProcessEntryClientCallback, up to the call.
BeginCall(t) ==
    /\ pc[t] = "call"
    /\ IF Abort THEN Goto(t, "end") /\ UNCHANGED passed
       ELSE Goto(t, "calling") /\ passed' = passed \union {<<dir[t], entry[t]>>}
    /\ UNCHANGED <<options, queues, Abort, workerVars, dir, entry, lost, denials, stopped>>

AfterCall(t) ==
    IF entry[t] = 0 THEN Goto(t, "open") /\ UNCHANGED entry ELSE ToEntry(t, entry[t] + 1)

\* The callback returns TRUE, or FALSE for the entry, or FALSE for one of its
\* data streams: then the thread goes on until it looks at the flag.
CallReturns(t) ==
    /\ pc[t] = "calling"
    /\ \/ AfterCall(t) /\ UNCHANGED <<Abort, stopped>>
       \/ Goto(t, "end") /\ Abort' = TRUE /\ stopped' = TRUE /\ UNCHANGED entry
       \/ AfterCall(t) /\ Abort' = TRUE /\ stopped' = TRUE
    /\ UNCHANGED <<options, queues, workerVars, dir, passed, lost, denials>>

OpenDirectory(t) ==
    /\ pc[t] = "open"
    /\ \/ ToEntry(t, 1) /\ UNCHANGED <<lost, denials, stopped>>
       \/ (Denied(t, 1) \/ Fails(t)) /\ UNCHANGED entry
    /\ UNCHANGED <<options, queues, Abort, workerVars, dir, passed>>

\* The next entry: a directory to queue, or an item to pass.
Entry(t) ==
    /\ pc[t] = "entry" /\ ~Abort /\ entry[t] \in DOMAIN Entries[dir[t]]
    /\ IF Queued(dir[t], entry[t])
       THEN LET d == Entries[dir[t]][entry[t]]
            IN  IF threaded
                THEN /\ DirectoryQueue' = Append(DirectoryQueue, d)
                     /\ Goto(t, "required") /\ UNCHANGED <<SubDirectoryQueue, entry>>
                ELSE /\ SubDirectoryQueue' = Append(SubDirectoryQueue, d)
                     /\ ToEntry(t, entry[t] + 1) /\ UNCHANGED DirectoryQueue
       ELSE Goto(t, "call") /\ UNCHANGED <<queues, entry>>
    /\ UNCHANGED <<options, Abort, workerVars, dir, logVars>>

\* No record for a subdirectory or a name that is too long, or the system does
\* not return the next entries.
EntryFails(t) ==
    /\ pc[t] = "entry" /\ ~Abort /\ entry[t] \in DOMAIN Entries[dir[t]]
    /\ Fails(t) \/ Denied(t, entry[t])
    /\ UNCHANGED <<options, queues, Abort, workerVars, dir, entry, passed>>

NoMoreEntries(t) ==
    /\ pc[t] = "entry" /\ (Abort \/ entry[t] \notin DOMAIN Entries[dir[t]])
    /\ Goto(t, "end")
    /\ UNCHANGED <<options, queues, Abort, workerVars, dir, entry, logVars>>

(* The workers.                                                            *)

\* IsEnumDirectoryWorkerRequired, without a lock.
WorkerRequired(t) ==
    /\ pc[t] = "required"
    /\ IF /\ Len(DirectoryQueue) > (WorkerCount + 1) * FPI_WORKERTHREADTHRESHOLD
          /\ WorkerCount < FPI_WORKERTHREADMAX
       THEN Goto(t, "create") /\ UNCHANGED entry
       ELSE ToEntry(t, entry[t] + 1)
    /\ UNCHANGED <<options, queues, Abort, workerVars, dir, logVars>>

\* Mutant of CreateWorker: the first worker does not reset the event.
CreateWorkerNoReset(t) ==
    /\ pc[t] = "create" /\ WorkerLock = None
    /\ IF WorkerCount < FPI_WORKERTHREADMAX
       THEN WorkerCount' = WorkerCount + 1 /\ Goto(t, "start") /\ UNCHANGED entry
       ELSE ToEntry(t, entry[t] + 1) /\ UNCHANGED WorkerCount
    /\ UNCHANGED <<options, queues, Abort, WorkerExit, WorkerLock, dir, logVars>>

\* CreateEnumDirectoryWorker, in its lock: the first worker resets the event.
CreateWorker(t) ==
    /\ pc[t] = "create" /\ WorkerLock = None
    /\ IF WorkerCount < FPI_WORKERTHREADMAX
       THEN /\ WorkerCount' = WorkerCount + 1
            /\ WorkerExit' = (WorkerExit /\ WorkerCount' # 1)
            /\ Goto(t, "start") /\ UNCHANGED entry
       ELSE ToEntry(t, entry[t] + 1) /\ UNCHANGED <<WorkerCount, WorkerExit>>
    /\ UNCHANGED <<options, queues, Abort, WorkerLock, dir, logVars>>

\* TxCreateThread returns when the thread runs, or fails.
StartWorker(t) ==
    /\ pc[t] = "start"
    /\ \/ \E w \in Workers :
              /\ pc[w] = None
              /\ pc' = [pc EXCEPT ![w] = "next", ![t] = "entry"]
              /\ entry' = [entry EXCEPT ![t] = @ + 1]
       \/ MaxFailures > 0 /\ Goto(t, "undo") /\ UNCHANGED entry
    /\ UNCHANGED <<options, queues, Abort, workerVars, dir, logVars>>

\* Mutant of DropWorkerCount: the count is tested before it is dropped.
DropWorkerCountLate ==
    /\ WorkerLock = None
    /\ WorkerCount' = WorkerCount - 1
    /\ WorkerExit' = (WorkerExit \/ WorkerCount = 0)

\* ReleaseEnumDirectoryWorker, in its lock.
DropWorkerCount ==
    /\ WorkerLock = None
    /\ WorkerCount' = WorkerCount - 1
    /\ WorkerExit' = (WorkerExit \/ WorkerCount' = 0)

UndoWorker(t) ==
    /\ pc[t] = "undo" /\ DropWorkerCount
    /\ ToEntry(t, entry[t] + 1)
    /\ UNCHANGED <<options, queues, Abort, WorkerLock, dir, logVars>>

ReleaseWorker(w) ==
    /\ pc[w] = "release" /\ DropWorkerCount
    /\ WorkerLock' = w /\ Goto(w, "unlock")
    /\ UNCHANGED <<options, queues, Abort, dir, entry, logVars>>

\* ReleaseSpinLock, which may be after the wake-up of the calling thread.
UnlockWorker(w) ==
    /\ pc[w] = "unlock"
    /\ WorkerLock' = None /\ Goto(w, None)
    /\ UNCHANGED <<options, queues, Abort, WorkerExit, WorkerCount, dir, entry, logVars>>

(* FpEnumDirectoryInformation.                                             *)

\* Mutant of WaitForWorkers: a wait that times out is taken for the end.
WaitForWorkersOnce ==
    /\ pc[Main] = "wait"
    /\ Goto(Main, "cleanup") /\ WorkerExit' = FALSE /\ Abort' = TRUE
    /\ UNCHANGED <<options, queues, WorkerCount, WorkerLock, dir, entry, logVars>>

\* The calling thread waits for the workers; when the wait times out it gives
\* them a hand.  The event is an auto-reset one.
WaitForWorkers ==
    /\ pc[Main] = "wait"
    /\ \/ ~threaded /\ Goto(Main, "cleanup") /\ UNCHANGED <<WorkerExit, Abort>>
       \/ /\ threaded /\ WorkerExit
          /\ WorkerExit' = FALSE /\ Abort' = TRUE
          /\ Goto(Main, "cleanup")
       \/ /\ threaded /\ ~WorkerExit /\ ~Abort
          /\ Goto(Main, "next") /\ UNCHANGED <<WorkerExit, Abort>>
    /\ UNCHANGED <<options, queues, WorkerCount, WorkerLock, dir, entry, logVars>>

\* CleanupEnumDirectoryContext: the context is on the stack of this thread.
Cleanup ==
    /\ pc[Main] = "cleanup"
    /\ DirectoryQueue' = <<>> /\ SubDirectoryQueue' = <<>>
    /\ Goto(Main, "returned")
    /\ UNCHANGED <<options, Abort, workerVars, dir, entry, logVars>>

Step(t) ==
    \/ NextDirectory(t) \/ EndDirectory(t) \/ QueryDirectory(t) \/ BeginCall(t)
    \/ CallReturns(t) \/ OpenDirectory(t) \/ Entry(t) \/ EntryFails(t) \/ NoMoreEntries(t)
    \/ WorkerRequired(t) \/ CreateWorker(t) \/ StartWorker(t) \/ UndoWorker(t)
WorkerStep(w) == Step(w) \/ ReleaseWorker(w) \/ UnlockWorker(w)
MainStep == Step(Main) \/ WaitForWorkers \/ Cleanup

Next == MainStep \/ \E w \in Workers : WorkerStep(w)

\* Threads are scheduled, callbacks return, and the wait ends with the event.
Spec == Init /\ [][Next]_vars /\ WF_vars(MainStep) /\ \A w \in Workers : WF_vars(WorkerStep(w))

-----------------------------------------------------------------------------
\* When FpEnumDirectoryInformation has returned and nothing stopped it, every
\* item of the tree has been passed, but for those that cannot be read: no
\* directory is left on the queue when the last thread stops looking there.
Complete ==
    pc[Main] = "returned" /\ ~stopped => passed = Under(Root) \ lost

\* Once the calling thread cleans up, no worker is in the caller's callback or
\* comes back to the queue.  (One may still be releasing its spin lock.)
WorkersGone ==
    pc[Main] \in {"cleanup", "returned"} =>
        WorkerCount = 0 /\ \A w \in Workers : pc[w] \in {None, "unlock"}

\* Without threads the directories come in the order of the tree: before a
\* directory, all its parent holds and all under the directories before it.
TreeOrder ==
    [][\A t \in Threads :
          ~threaded /\ pc[t] = "call" /\ pc'[t] = "calling" /\ entry[t] = 0 =>
              Before(dir[t]) \subseteq passed \union lost]_vars

\* The enumeration returns, whatever fails, whoever aborts it, and however many
\* workers come and go while the calling thread waits.
EnumReturns == <>(pc[Main] = "returned")
=============================================================================
